-------------------------- MODULE RadioSourcesProofs --------------------------
(***************************************************************************)
(* Proofs about RadioSources, for every choice of source modes and         *)
(* descriptors: one radio feeds each receiver, and threads, descriptors    *)
(* and memory are used by their owners but for the cases named.            *)
(*                                                                         *)
(* The invariant is about what the UI thread has still to do.  A source    *)
(* begins last, after the join of every thread that is left; the rings     *)
(* are destroyed after the joins of all sources but three.  A socket       *)
(* belongs to the active source and is given back before another begins.   *)
(***************************************************************************)
EXTENDS RadioSources, SequenceTheorems, FiniteSetTheorems, WellFoundedInduction,
        TLAPS

Networked == {"rtltcp", "server"}
Unstopped == {"rtltcp", "airspy", "pluto"}
Places    == {"none", "start", "loop", "recv", "cb", "end"}
Item == ({"signal", "join", "unmake", "begin", "second"} \X Sources)
        \cup {<<"destroy", "app">>}
Late == {"signal", "join", "unmake"} \X Unstopped   \* what may follow the destruction

\* What a plan holds, and that it is one: a source begins last, and after the
\* destruction only the three sources are stopped.
Ahead(q) == {q[i] : i \in 1 .. Len(q)}
Shape(q) ==
    /\ \A i \in 1 .. Len(q) : q[i][1] \in {"begin", "second"} => i = Len(q)
    /\ \A i, j \in 1 .. Len(q) : q[i][1] = "destroy" /\ i < j => q[j] \in Late
Plain(q) ==
    /\ q \in Seq(Item)
    /\ \A x \in Ahead(q) : x[1] \in {"signal", "join", "unmake"}

Planned(what) == \E x \in Ahead(todo) : x[1] = what
Joinable == {s \in Sources : thread[s] # "none"}

SourcesType ==
    /\ mode \in Modes /\ active \in Sources \ FeedsB /\ activeB \in FeedsB
    /\ thread \in [Sources -> Places]
    /\ sock \in [Networked -> Fds \cup {NoFd}]
    /\ owner \in [Fds -> {"free", "other"} \cup Sources]

PlanInv ==
    /\ todo \in Seq(Item) /\ Shape(todo)
    /\ \A x \in Ahead(todo) :
        /\ x[1] = "begin" => x[2] = SourceOf(mode) /\ ~gone
        /\ x[1] = "second" => x[2] = activeB /\ ~gone

\* Only threads of the active sources are joinable; they are joined before another
\* source begins and, but for three, before the rings are destroyed.
JoinInv ==
    /\ Joinable \subseteq {active, activeB}
    /\ Planned("begin") => \A s \in Joinable : <<"join", s>> \in Ahead(todo)
    /\ Planned("second") => activeB \notin Joinable
    /\ Planned("destroy") => \A s \in Joinable \ Unstopped : <<"join", s>> \in Ahead(todo)
    /\ gone => Joinable \subseteq Unstopped

\* A socket is the active source's own, unless its handshake has failed.
SocketInv ==
    /\ \A s \in Networked :
        sock[s] # NoFd => /\ s = active
                          /\ Planned("begin") => <<"signal", s>> \in Ahead(todo)
                          /\ badHandshake \/ owner[sock[s]] = s
    /\ badHandshake => sock["rtltcp"] # NoFd

TraceInv ==
    /\ NoThreadOverwritten
    /\ ForeignDescriptorOnlyAfterBadHandshakeOrClose

SourcesInv == SourcesType /\ PlanInv /\ JoinInv /\ SocketInv /\ TraceInv

-----------------------------------------------------------------------------
(* Plans                                                                   *)

LEMMA ModeOf ==
    ASSUME NEW m \in Modes
    PROVE  SourceOf(m) \in Sources \ FeedsB
BY RadioAssumption DEF RadioAssumption, SourceOf, Sources, FeedsB

\* There is a lowest free descriptor when one is free.
LEMMA LowestIsFree ==
    ASSUME FreeFds # {}
    PROVE  LowestFree \in FreeFds
<1> DEFINE Below(d) == 0 .. d - 1
           R == StrictSubsetOrdering(Nat)
           T == {Below(d) : d \in FreeFds}
<1>1. FreeFds \subseteq Nat
    BY RadioAssumption DEF RadioAssumption, FreeFds
<1>2. T \subseteq FiniteSubsetsOf(Nat) /\ T # {}
    <2>1. \A d \in FreeFds : Below(d) \subseteq Nat /\ IsFiniteSet(Below(d))
        BY <1>1, FS_Interval
    <2> QED BY <2>1 DEF FiniteSubsetsOf
<1>3. \E x \in T : \A y \in T : ~ (<<y, x>> \in R)
    <2> HIDE DEF T, R
    <2>1. IsWellFoundedOn(R, FiniteSubsetsOf(Nat))
        BY FS_StrictSubsetOrderingWellFounded DEF R
    <2> QED BY <1>2, <2>1, WFMin
<1>4. PICK d \in FreeFds : \A e \in FreeFds : ~ (<<Below(e), Below(d)>> \in R)
    BY <1>3
<1>5. ASSUME NEW e \in FreeFds, ~ (d <= e) PROVE FALSE
    <2>1. e \in Nat /\ d \in Nat /\ e < d
        BY <1>1, <1>4, <1>5
    <2>2. Below(e) \subseteq Below(d) /\ e \in Below(d) /\ e \notin Below(e)
        BY <2>1
    <2>3. <<Below(e), Below(d)>> \in R
        <3>1. Below(e) \in SUBSET Nat /\ Below(d) \in SUBSET Nat
            BY <2>1
        <3>2. Below(e) # Below(d)
            BY <2>2
        <3> QED BY <2>2, <3>1, <3>2 DEF StrictSubsetOrdering
    <2> QED BY <1>4, <2>3
<1> QED BY <1>4, <1>5 DEF LowestFree

\* Taking the first item leaves a plan.
LEMMA TailOfPlan ==
    ASSUME NEW q \in Seq(Item), q # <<>>, Shape(q)
    PROVE  /\ Tail(q) \in Seq(Item) /\ Shape(Tail(q))
           /\ Head(q) \in Item
           /\ Ahead(q) = {Head(q)} \cup Ahead(Tail(q))
           /\ Head(q)[1] \in {"begin", "second"} => Tail(q) = <<>>
           /\ Head(q)[1] = "destroy" => Ahead(Tail(q)) \subseteq Late
<1>1. /\ Head(q) \in Item /\ Tail(q) \in Seq(Item) /\ Len(Tail(q)) = Len(q) - 1
      /\ \A i \in 1 .. Len(Tail(q)) : Tail(q)[i] = q[i + 1]
    BY HeadTailProperties
<1>2. Len(q) \in Nat \ {0} /\ Head(q) = q[1]
    BY EmptySeq
<1>3. Shape(Tail(q))
    <2> DEFINE t == Tail(q)
    <2>1. /\ Len(t) = Len(q) - 1
          /\ \A i \in 1 .. Len(t) : i + 1 \in 1 .. Len(q) /\ t[i] = q[i + 1]
        BY <1>1, <1>2
    <2> HIDE DEF t
    <2>2. ASSUME NEW i \in 1 .. Len(t), t[i][1] \in {"begin", "second"}
          PROVE  i = Len(t)
        <3>1. i + 1 \in 1 .. Len(q) /\ q[i + 1][1] \in {"begin", "second"}
            BY <2>1, <2>2
        <3>2. i + 1 = Len(q)
            BY <3>1 DEF Shape
        <3> QED BY <1>2, <2>1, <3>2
    <2>3. ASSUME NEW i \in 1 .. Len(t), NEW j \in 1 .. Len(t), t[i][1] = "destroy", i < j
          PROVE  t[j] \in Late
        <3>1. /\ i + 1 \in 1 .. Len(q) /\ j + 1 \in 1 .. Len(q) /\ i + 1 < j + 1
              /\ q[i + 1][1] = "destroy"
            BY <2>1, <2>3
        <3>2. q[j + 1] \in Late
            BY <3>1 DEF Shape
        <3> QED BY <2>1, <3>2
    <2> QED BY <2>2, <2>3 DEF Shape, t
<1>4. Ahead(q) = {Head(q)} \cup Ahead(Tail(q))
    <2>1. ASSUME NEW x \in Ahead(q) PROVE x \in {Head(q)} \cup Ahead(Tail(q))
        <3>1. PICK i \in 1 .. Len(q) : x = q[i]
            BY <2>1 DEF Ahead
        <3>2. CASE i = 1
            BY <1>2, <3>1, <3>2
        <3>3. CASE i # 1
            <4>1. i - 1 \in 1 .. Len(Tail(q)) /\ Tail(q)[i - 1] = q[i]
                BY <1>1, <1>2, <3>1, <3>3
            <4> QED BY <3>1, <4>1 DEF Ahead
        <3> QED BY <3>2, <3>3
    <2>2. Head(q) \in Ahead(q)
        BY <1>2 DEF Ahead
    <2>3. ASSUME NEW x \in Ahead(Tail(q)) PROVE x \in Ahead(q)
        <3>1. PICK i \in 1 .. Len(Tail(q)) : x = Tail(q)[i]
            BY <2>3 DEF Ahead
        <3>2. i + 1 \in 1 .. Len(q) /\ x = q[i + 1]
            BY <1>1, <1>2, <3>1
        <3> QED BY <3>2 DEF Ahead
    <2> QED BY <2>1, <2>2, <2>3
<1>5. Head(q)[1] \in {"begin", "second"} => Tail(q) = <<>>
    <2>1. Head(q)[1] \in {"begin", "second"} => Len(q) = 1
        <3>1. 1 \in 1 .. Len(q)
            BY <1>2
        <3> QED BY <1>2, <3>1 DEF Shape
    <2> QED BY <1>1, <2>1, EmptySeq
<1>6. ASSUME Head(q)[1] = "destroy", NEW x \in Ahead(Tail(q))
      PROVE  x \in Late
    <2>1. PICK i \in 1 .. Len(Tail(q)) : x = Tail(q)[i]
        BY DEF Ahead
    <2>2. 1 \in 1 .. Len(q) /\ i + 1 \in 1 .. Len(q) /\ 1 < i + 1 /\ x = q[i + 1]
        BY <1>1, <1>2, <2>1
    <2> QED BY <1>2, <1>6, <2>2 DEF Shape
<1> QED BY <1>1, <1>3, <1>4, <1>5, <1>6

LEMMA AheadOfBoth ==
    ASSUME NEW p \in Seq(Item), NEW q \in Seq(Item)
    PROVE  p \o q \in Seq(Item) /\ Ahead(p \o q) = Ahead(p) \cup Ahead(q)
<1>1. /\ p \o q \in Seq(Item) /\ Len(p \o q) = Len(p) + Len(q)
      /\ \A i \in 1 .. Len(p) + Len(q) :
            (p \o q)[i] = IF i <= Len(p) THEN p[i] ELSE q[i - Len(p)]
    BY ConcatProperties
<1>2. Len(p) \in Nat /\ Len(q) \in Nat
    BY LenProperties
<1>3. ASSUME NEW x \in Ahead(p \o q) PROVE x \in Ahead(p) \cup Ahead(q)
    <2>1. PICK i \in 1 .. Len(p) + Len(q) : x = (p \o q)[i]
        BY <1>1, <1>3 DEF Ahead
    <2>2. CASE i <= Len(p)
        <3>1. i \in 1 .. Len(p) /\ x = p[i]
            BY <1>1, <1>2, <2>1, <2>2
        <3> QED BY <3>1 DEF Ahead
    <2>3. CASE ~ (i <= Len(p))
        <3>1. i - Len(p) \in 1 .. Len(q) /\ x = q[i - Len(p)]
            BY <1>1, <1>2, <2>1, <2>3
        <3> QED BY <3>1 DEF Ahead
    <2> QED BY <2>2, <2>3
<1>4. ASSUME NEW x \in Ahead(p) PROVE x \in Ahead(p \o q)
    <2>1. PICK i \in 1 .. Len(p) : x = p[i]
        BY <1>4 DEF Ahead
    <2>2. i \in 1 .. Len(p \o q) /\ x = (p \o q)[i]
        BY <1>1, <1>2, <2>1
    <2> QED BY <2>2 DEF Ahead
<1>5. ASSUME NEW x \in Ahead(q) PROVE x \in Ahead(p \o q)
    <2>1. PICK i \in 1 .. Len(q) : x = q[i]
        BY <1>5 DEF Ahead
    <2>2. i + Len(p) \in 1 .. Len(p \o q) /\ x = (p \o q)[i + Len(p)]
        BY <1>1, <1>2, <2>1
    <2> QED BY <2>2 DEF Ahead
<1> QED BY <1>1, <1>3, <1>4, <1>5

LEMMA PlainBoth ==
    ASSUME NEW p, NEW q, Plain(p), Plain(q)
    PROVE  Plain(p \o q) /\ Ahead(p \o q) = Ahead(p) \cup Ahead(q)
BY AheadOfBoth DEF Plain

LEMMA PlainShape ==
    ASSUME NEW p, Plain(p)
    PROVE  p \in Seq(Item) /\ Shape(p)
<1>1. \A i \in 1 .. Len(p) : p[i][1] \in {"signal", "join", "unmake"}
    BY DEF Plain, Ahead
<1> QED BY <1>1 DEF Plain, Shape

\* One item after plain ones.
LEMMA PlainThen ==
    ASSUME NEW p, Plain(p), NEW x \in Item
    PROVE  /\ p \o <<x>> \in Seq(Item) /\ Shape(p \o <<x>>)
           /\ Ahead(p \o <<x>>) = Ahead(p) \cup {x}
<1>1. <<x>> \in Seq(Item) /\ Len(<<x>>) = 1 /\ <<x>>[1] = x
    OBVIOUS
<1>2. Ahead(<<x>>) = {x}
    BY <1>1 DEF Ahead
<1>3. p \o <<x>> \in Seq(Item) /\ Ahead(p \o <<x>>) = Ahead(p) \cup {x}
    BY <1>1, <1>2, AheadOfBoth DEF Plain
<1>4. /\ Len(p) \in Nat /\ Len(p \o <<x>>) = Len(p) + 1
      /\ \A i \in 1 .. Len(p) : (p \o <<x>>)[i] = p[i]
    BY <1>1, ConcatProperties, LenProperties DEF Plain
<1>5. \A i \in 1 .. Len(p) : (p \o <<x>>)[i][1] \in {"signal", "join", "unmake"}
    BY <1>4 DEF Plain, Ahead
<1>6. Shape(p \o <<x>>)
    BY <1>4, <1>5 DEF Shape
<1> QED BY <1>3, <1>6

\* Stops of the three sources may follow the destruction.
LEMMA ThenUnstopped ==
    ASSUME NEW q \in Seq(Item), Shape(q),
           \A x \in Ahead(q) : x[1] \notin {"begin", "second"},
           NEW p, Plain(p), Ahead(p) \subseteq Late
    PROVE  /\ q \o p \in Seq(Item) /\ Shape(q \o p)
           /\ Ahead(q \o p) = Ahead(q) \cup Ahead(p)
           /\ \A x \in Ahead(q \o p) : x[1] \notin {"begin", "second"}
<1>1. q \o p \in Seq(Item) /\ Ahead(q \o p) = Ahead(q) \cup Ahead(p)
    BY AheadOfBoth DEF Plain
<1>2. \A x \in Ahead(q \o p) : x[1] \notin {"begin", "second"}
    BY <1>1 DEF Plain
<1>3. /\ Len(q) \in Nat /\ Len(p) \in Nat /\ Len(q \o p) = Len(q) + Len(p)
      /\ \A i \in 1 .. Len(q) + Len(p) :
            (q \o p)[i] = IF i <= Len(q) THEN q[i] ELSE p[i - Len(q)]
    BY ConcatProperties, LenProperties DEF Plain
<1>4. ASSUME NEW i \in 1 .. Len(q \o p), NEW j \in 1 .. Len(q \o p),
             (q \o p)[i][1] = "destroy", i < j
      PROVE  (q \o p)[j] \in Late
    <2>1. CASE j <= Len(q)
        BY <1>3, <1>4, <2>1 DEF Shape
    <2>2. CASE ~ (j <= Len(q))
        <3>1. j - Len(q) \in 1 .. Len(p) /\ (q \o p)[j] = p[j - Len(q)]
            BY <1>3, <1>4, <2>2
        <3> QED BY <3>1 DEF Ahead
    <2> QED BY <2>1, <2>2
<1>5. \A i \in 1 .. Len(q \o p) : (q \o p)[i] \in Ahead(q \o p)
    BY DEF Ahead
<1>6. Shape(q \o p)
    BY <1>2, <1>4, <1>5 DEF Shape
<1> QED BY <1>1, <1>2, <1>6

LEMMA StopPlan ==
    ASSUME NEW s \in Sources
    PROVE  /\ Plain(StopOf(s))
           /\ Ahead(StopOf(s)) = {<<"signal", s>>, <<"join", s>>}
<1>1. /\ StopOf(s) \in Seq(Item) /\ Len(StopOf(s)) = 2
      /\ StopOf(s)[1] = <<"signal", s>> /\ StopOf(s)[2] = <<"join", s>>
    BY DEF StopOf, Item
<1>2. Ahead(StopOf(s)) = {<<"signal", s>>, <<"join", s>>}
    <2>1. 1 .. 2 = {1, 2}
        OBVIOUS
    <2> QED BY <1>1, <2>1 DEF Ahead
<1> QED BY <1>1, <1>2 DEF Plain

LEMMA ClosePlan ==
    ASSUME NEW s \in Sources
    PROVE  /\ Plain(CloseOf(s))
           /\ Ahead(CloseOf(s)) = {<<"signal", s>>, <<"join", s>>, <<"unmake", s>>}
<1> DEFINE u == << <<"unmake", s>> >>
<1>1. /\ u \in Seq(Item) /\ Len(u) = 1 /\ u[1] = <<"unmake", s>>
    BY DEF Item
<1>2. Ahead(u) = {<<"unmake", s>>}
    BY <1>1 DEF Ahead
<1>3. Plain(u)
    BY <1>1, <1>2 DEF Plain
<1>4. CloseOf(s) = StopOf(s) \o u
    BY DEF CloseOf
<1> HIDE DEF u
<1> QED BY <1>2, <1>3, <1>4, StopPlan, PlainBoth

-----------------------------------------------------------------------------
(* The reader threads and the rest of the program                          *)

LEMMA InvInit == Init => SourcesInv
<1> SUFFICES ASSUME Init PROVE SourcesInv
    OBVIOUS
<1>1. todo \in Seq(Item) /\ Len(todo) = 0 /\ Ahead(todo) = {}
    BY EmptySeq DEF Init, Ahead
<1>2. PlanInv
    BY <1>1 DEF PlanInv, Shape
<1>3. Joinable = {}
    BY DEF Init, Joinable
<1>4. SourcesType
    BY DEF Init, SourcesType, Sources, FeedsB, Networked, Places
<1>5. JoinInv
    BY <1>1, <1>3 DEF JoinInv, Planned
<1>6. SocketInv /\ TraceInv
    BY DEF Init, SocketInv, Networked, TraceInv, NoThreadOverwritten,
           ForeignDescriptorOnlyAfterBadHandshakeOrClose
<1> QED BY <1>2, <1>4, <1>5, <1>6 DEF SourcesInv

\* A step of which plan, sessions and sockets learn nothing.
LEMMA ReaderKeeps ==
    ASSUME SourcesInv,
           UNCHANGED <<mode, active, activeB, todo, gone, sock, owner, badHandshake,
                       overwritten>>,
           thread' \in [Sources -> Places], Joinable' = Joinable,
           ForeignDescriptorOnlyAfterBadHandshakeOrClose'
    PROVE  SourcesInv'
BY DEF SourcesInv, SourcesType, PlanInv, JoinInv, SocketInv, TraceInv, Planned,
       NoThreadOverwritten

\* A thread that moves on stays joinable.
LEMMA MoveKeeps ==
    ASSUME SourcesType, NEW s \in Sources, NEW p \in Places \ {"none"},
           thread[s] # "none", thread' = [thread EXCEPT ![s] = p]
    PROVE  thread' \in [Sources -> Places] /\ Joinable' = Joinable
<1>1. thread' \in [Sources -> Places]
    BY DEF SourcesType
<1>2. \A t \in Sources : thread'[t] = IF t = s THEN p ELSE thread[t]
    BY DEF SourcesType
<1> QED BY <1>1, <1>2 DEF Joinable

LEMMA ReaderStepKeeps ==
    ASSUME SourcesInv, NEW s \in Sources,
           ReaderStep(s) \/ DeviceLost(s) \/ SamplesArrive(s) \/ ReadsForeign(s)
    PROVE  SourcesInv'
<1>1. /\ SourcesType
      /\ ForeignDescriptorOnlyAfterBadHandshakeOrClose
    BY DEF SourcesInv, TraceInv
<1>2. /\ UNCHANGED <<mode, active, activeB, todo, gone, sock, owner, badHandshake,
                     overwritten>>
      /\ UNCHANGED touched \/ ReadsForeign(s)
    BY DEF ReaderStep, ThreadBegins, ReaderCalls, ReaderLeaves, Wakes, ReturnsInTime,
           CallbackReturns, DeviceLost, SamplesArrive, ReadsForeign, Ends, session, readers,
           fds
<1>3. ForeignDescriptorOnlyAfterBadHandshakeOrClose'
    <2>1. CASE UNCHANGED touched
        BY <1>1, <2>1 DEF ForeignDescriptorOnlyAfterBadHandshakeOrClose
    <2>2. CASE ReadsForeign(s)
        <3>1. s \in {"rtltcp", "server"} /\ touched' = touched \cup {<<s, "recv">>}
            BY <2>2 DEF ReadsForeign, Reads
        <3> QED BY <1>1, <3>1 DEF ForeignDescriptorOnlyAfterBadHandshakeOrClose
    <2> QED BY <1>2, <2>1, <2>2
<1>4. CASE UNCHANGED thread
    BY <1>1, <1>2, <1>3, <1>4, ReaderKeeps DEF SourcesType, Joinable
<1>5. CASE thread[s] # "none" /\ \E p \in Places \ {"none"} : thread' = [thread EXCEPT ![s] = p]
    BY <1>1, <1>2, <1>3, <1>5, ReaderKeeps, MoveKeeps
<1>6. \/ UNCHANGED thread
      \/ thread[s] # "none" /\ \E p \in Places \ {"none"} : thread' = [thread EXCEPT ![s] = p]
    <2>1. CASE ReadsForeign(s)
        BY <2>1 DEF ReadsForeign, readers
    <2>2. ASSUME NEW here \in Places \ {"none"}, NEW there \in Places \ {"none"},
                 Goes(s, here, there)
          PROVE  /\ thread[s] # "none"
                 /\ \E p \in Places \ {"none"} : thread' = [thread EXCEPT ![s] = p]
        BY <2>2 DEF Goes
    <2>3. CASE ThreadBegins(s)
        BY <2>2, <2>3 DEF ThreadBegins, Places
    <2>4. CASE ReaderCalls(s) \/ ReaderLeaves(s) \/ Wakes(s) \/ DeviceLost(s)
        BY <2>2, <2>4 DEF ReaderCalls, ReaderLeaves, Wakes, DeviceLost, Ends, Places
    <2>5. CASE ReturnsInTime(s) \/ CallbackReturns(s) \/ SamplesArrive(s)
        BY <2>2, <2>5 DEF ReturnsInTime, CallbackReturns, SamplesArrive, Places
    <2> QED BY <2>1, <2>3, <2>4, <2>5 DEF ReaderStep
<1> QED BY <1>4, <1>5, <1>6

LEMMA OthersKeep ==
    ASSUME SourcesInv, OthersOpen \/ \E d \in Fds : OthersClose(d)
    PROVE  SourcesInv'
<1>1. PICK d \in Fds : /\ owner[d] \in {"free", "other"}
                       /\ \E o \in {"free", "other"} : owner' = [owner EXCEPT ![d] = o]
    BY LowestIsFree DEF OthersOpen, OthersClose, FreeFds
<1>2. UNCHANGED <<mode, active, activeB, todo, thread, sock, badHandshake, gone, touched,
                  overwritten>>
    BY DEF OthersOpen, OthersClose, session, readers
<1>3. /\ owner' \in [Fds -> {"free", "other"} \cup Sources]
      /\ \A e \in Fds : owner[e] \in Sources => owner'[e] = owner[e]
    <2>1. "free" \notin Sources /\ "other" \notin Sources
        BY DEF Sources
    <2> QED BY <1>1, <2>1 DEF SourcesInv, SourcesType
<1>4. SourcesType'
    BY <1>2, <1>3 DEF SourcesInv, SourcesType
<1>5. PlanInv' /\ JoinInv' /\ TraceInv'
    BY <1>2 DEF SourcesInv, PlanInv, JoinInv, TraceInv, Planned, Joinable,
                NoThreadOverwritten, ForeignDescriptorOnlyAfterBadHandshakeOrClose
<1>6. SocketInv'
    <2>1. SocketInv /\ sock \in [Networked -> Fds \cup {NoFd}]
        BY DEF SourcesInv, SourcesType
    <2>2. Planned("begin")' = Planned("begin")
        BY <1>2 DEF Planned
    <2>3. Networked \subseteq Sources
        BY DEF Networked, Sources
    <2>4. \A s \in Networked : sock[s] # NoFd => sock[s] \in Fds
        BY <2>1
    <2>5. \A s \in Networked : sock[s] # NoFd /\ owner[sock[s]] = s => owner'[sock[s]] = s
        BY <1>3, <2>3, <2>4
    <2> QED BY <1>2, <2>1, <2>2, <2>5 DEF SocketInv
<1> QED BY <1>4, <1>5, <1>6 DEF SourcesInv

-----------------------------------------------------------------------------
(* The UI thread goes on                                                   *)

LEMMA Advance ==
    ASSUME PlanInv, NEW what \in {"signal", "join", "unmake", "begin", "second", "destroy"},
           NEW s, NEW more, more \in Seq(Item), Do(what, s, more)
    PROVE  /\ <<what, s>> \in Item
           /\ todo' = more \o Tail(todo)
           /\ Tail(todo) \in Seq(Item) /\ Shape(Tail(todo))
           /\ Ahead(todo) = {<<what, s>>} \cup Ahead(Tail(todo))
           /\ what \in {"begin", "second"} => Tail(todo) = <<>> /\ todo' = more
           /\ what = "destroy" => Ahead(Tail(todo)) \subseteq Late
           /\ more = <<>> => todo' = Tail(todo)
<1>1. todo # <<>> /\ Head(todo) = <<what, s>> /\ todo' = more \o Tail(todo)
    <2>1. <<>> # <<what, s>>
        OBVIOUS
    <2> QED BY <2>1 DEF Do, Doing, Idle
<1>2. /\ Tail(todo) \in Seq(Item) /\ Shape(Tail(todo))
      /\ Head(todo) \in Item
      /\ Ahead(todo) = {Head(todo)} \cup Ahead(Tail(todo))
      /\ Head(todo)[1] \in {"begin", "second"} => Tail(todo) = <<>>
      /\ Head(todo)[1] = "destroy" => Ahead(Tail(todo)) \subseteq Late
    BY <1>1, TailOfPlan DEF PlanInv
<1>3. Tail(todo) = <<>> => todo' = more
    BY <1>1, ConcatEmptySeq
<1>4. more = <<>> => todo' = Tail(todo)
    BY <1>1, <1>2, ConcatEmptySeq
<1>5. Head(todo)[1] = what
    BY <1>1
<1> QED BY <1>1, <1>2, <1>3, <1>4, <1>5

\* A part of stop() or of close(): the plan gets shorter, threads are joined.
LEMMA StopStepKeeps ==
    ASSUME SourcesInv, NEW what \in {"signal", "join", "unmake"}, NEW s \in Sources,
           Do(what, s, <<>>), UNCHANGED <<mode, active, activeB, gone>>,
           Joinable' \subseteq Joinable, what = "join" => s \notin Joinable'
    PROVE  /\ PlanInv' /\ JoinInv'
           /\ Ahead(todo) = {<<what, s>>} \cup Ahead(todo')
           /\ Planned("begin")' => Planned("begin")
<1>1. /\ todo' \in Seq(Item) /\ Shape(todo')
      /\ Ahead(todo) = {<<what, s>>} \cup Ahead(todo')
    <2>1. <<>> \in Seq(Item) /\ PlanInv
        BY EmptySeq DEF SourcesInv
    <2> QED BY <2>1, Advance
<1>2. \A x \in Ahead(todo') : x \in Ahead(todo)
    BY <1>1
<1>3. PlanInv'
    BY <1>1, <1>2 DEF SourcesInv, PlanInv
<1>4. \A k : Planned(k)' => Planned(k)
    BY <1>2 DEF Planned
<1>5. \A t \in Joinable' : <<"join", t>> \in Ahead(todo) => <<"join", t>> \in Ahead(todo')
    BY <1>1
<1>6. JoinInv'
    BY <1>4, <1>5 DEF SourcesInv, JoinInv
<1> QED BY <1>1, <1>3, <1>4, <1>6

LEMMA SignalKeeps ==
    ASSUME SourcesInv, NEW s \in Sources, Signal(s)
    PROVE  SourcesInv'
<1>1. /\ Do("signal", s, <<>>)
      /\ UNCHANGED <<mode, active, activeB, gone, overwritten>>
      /\ SourcesType /\ SocketInv /\ TraceInv
    BY DEF Signal, session, SourcesInv
<1>2. UNCHANGED thread \/ thread' = [thread EXCEPT ![s] = "none"]
    BY DEF Signal, RtlSignal, WavSignal, RspSignal, PlutoSignal, LibrarySignal, RtlTcpSignal,
           ServerSignal
<1>3. thread' \in [Sources -> Places] /\ Joinable' \subseteq Joinable
    BY <1>1, <1>2 DEF SourcesType, Joinable, Places
<1>4. /\ PlanInv' /\ JoinInv'
      /\ Ahead(todo) = {<<"signal", s>>} \cup Ahead(todo')
      /\ Planned("begin")' => Planned("begin")
    BY <1>1, <1>3, StopStepKeeps
<1>5. CASE UNCHANGED <<sock, owner, badHandshake, touched>> /\ s \notin Networked
    <2>1. SourcesType' /\ TraceInv'
        BY <1>1, <1>3, <1>5 DEF SourcesType, TraceInv, NoThreadOverwritten,
                                ForeignDescriptorOnlyAfterBadHandshakeOrClose
    <2>2. \A t \in Networked : <<"signal", t>> \in Ahead(todo) => <<"signal", t>> \in Ahead(todo')
        BY <1>4, <1>5
    <2>3. SocketInv'
        BY <1>1, <1>4, <1>5, <2>2 DEF SocketInv
    <2> QED BY <1>4, <2>1, <2>3 DEF SourcesInv
<1>6. CASE RtlTcpSignal(s) \/ ServerSignal(s)
    <2>1. /\ s \in Networked /\ sock' = [sock EXCEPT ![s] = NoFd]
          /\ badHandshake' => badHandshake /\ s = "server"
          /\ s = "server" => badHandshake' = badHandshake
          /\ sock[s] = NoFd => UNCHANGED <<owner, touched>>
          /\ sock[s] # NoFd => CloseFd(s, sock[s])
        BY <1>6 DEF RtlTcpSignal, ServerSignal, Networked
    <2>2. \A t \in Networked : sock'[t] = IF t = s THEN NoFd ELSE sock[t]
        BY <1>1, <2>1 DEF SourcesType
    <2>3. sock[s] # NoFd => s = active /\ (badHandshake \/ owner[sock[s]] = s)
        BY <1>1, <2>1 DEF SocketInv
    <2>4. badHandshake => active = "rtltcp"
        BY <1>1 DEF SocketInv, Networked
    <2>5. owner' \in [Fds -> {"free", "other"} \cup Sources]
        BY <1>1, <2>1 DEF SourcesType, CloseFd
    <2>6. sock' \in [Networked -> Fds \cup {NoFd}]
        BY <1>1, <2>1 DEF SourcesType
    <2>7. SourcesType'
        BY <1>1, <1>3, <2>5, <2>6 DEF SourcesType
    <2>8. ASSUME NEW t \in Networked, sock'[t] # NoFd
          PROVE  /\ t = active' /\ (Planned("begin")' => <<"signal", t>> \in Ahead(todo'))
                 /\ badHandshake' \/ owner'[sock'[t]] = t
        <3>1. t # s /\ sock'[t] = sock[t]
            BY <2>2, <2>8
        <3>2. /\ t = active /\ (Planned("begin") => <<"signal", t>> \in Ahead(todo))
              /\ badHandshake \/ owner[sock[t]] = t
            BY <1>1, <2>8, <3>1 DEF SocketInv
        <3>3. sock[s] = NoFd /\ owner' = owner
            BY <2>1, <2>3, <3>1, <3>2
        <3>4. s = "rtltcp" => ~ badHandshake
            BY <2>4, <3>1, <3>2
        <3>5. badHandshake' \/ owner'[sock'[t]] = t
            BY <2>1, <3>1, <3>2, <3>3, <3>4 DEF Networked
        <3> QED BY <1>1, <1>4, <3>1, <3>2, <3>5
    <2>9. badHandshake' => sock'["rtltcp"] # NoFd
        BY <1>1, <2>1, <2>2 DEF SocketInv, Networked
    <2>10. SocketInv'
        BY <2>8, <2>9 DEF SocketInv
    <2>11. \/ touched' = touched
           \/ badHandshake /\ touched' = touched \cup {<<s, "closed before">>}
        <3>1. CASE sock[s] = NoFd
            BY <2>1, <3>1
        <3>2. CASE sock[s] # NoFd
            <4>1. s # "other" /\ CloseFd(s, sock[s])
                BY <2>1, <3>2 DEF Networked
            <4> QED BY <2>3, <3>2, <4>1 DEF CloseFd
        <3> QED BY <3>1, <3>2
    <2>12. badHandshake => s = "rtltcp" \/ touched' = touched
        <3>1. badHandshake /\ s # "rtltcp" => sock[s] = NoFd
            BY <2>3, <2>4
        <3> QED BY <2>1, <3>1
    <2>13. TraceInv'
        BY <1>1, <2>11, <2>12 DEF TraceInv, NoThreadOverwritten,
                                  ForeignDescriptorOnlyAfterBadHandshakeOrClose
    <2> QED BY <1>4, <2>7, <2>10, <2>13 DEF SourcesInv
<1>7. \/ UNCHANGED <<sock, owner, badHandshake, touched>> /\ s \notin Networked
      \/ RtlTcpSignal(s) \/ ServerSignal(s)
    BY DEF Signal, RtlSignal, WavSignal, RspSignal, PlutoSignal, LibrarySignal, fds,
           Rtl, Rsp, Library, Networked
<1> QED BY <1>5, <1>6, <1>7

LEMMA JoinKeeps ==
    ASSUME SourcesInv, NEW s \in Sources, Join(s)
    PROVE  SourcesInv'
<1>1. /\ Do("join", s, <<>>)
      /\ UNCHANGED <<mode, active, activeB, gone, sock, owner, badHandshake, touched,
                     overwritten>>
      /\ thread' = [thread EXCEPT ![s] = "none"]
      /\ SourcesType /\ SocketInv /\ TraceInv
    BY DEF Join, session, SourcesInv
<1>2. /\ thread' \in [Sources -> Places] /\ Joinable' \subseteq Joinable
      /\ s \notin Joinable'
    BY <1>1 DEF SourcesType, Joinable, Places
<1>3. /\ PlanInv' /\ JoinInv'
      /\ Ahead(todo) = {<<"join", s>>} \cup Ahead(todo')
      /\ Planned("begin")' => Planned("begin")
    BY <1>1, <1>2, StopStepKeeps
<1>4. \A t : <<"signal", t>> \in Ahead(todo) => <<"signal", t>> \in Ahead(todo')
    BY <1>3
<1>5. SocketInv'
    BY <1>1, <1>3, <1>4 DEF SocketInv
<1>6. SourcesType' /\ TraceInv'
    BY <1>1, <1>2 DEF SourcesType, TraceInv, NoThreadOverwritten,
                      ForeignDescriptorOnlyAfterBadHandshakeOrClose
<1> QED BY <1>3, <1>5, <1>6 DEF SourcesInv

LEMMA UnmakeKeeps ==
    ASSUME SourcesInv, NEW s \in Sources, Unmake(s)
    PROVE  SourcesInv'
<1>1. /\ Do("unmake", s, <<>>)
      /\ UNCHANGED <<mode, active, activeB, gone, thread, sock, owner, badHandshake, touched,
                     overwritten>>
      /\ SourcesType /\ SocketInv /\ TraceInv
    BY DEF Unmake, session, readers, fds, SourcesInv
<1>2. Joinable' = Joinable
    BY <1>1 DEF Joinable
<1>3. /\ PlanInv' /\ JoinInv'
      /\ Ahead(todo) = {<<"unmake", s>>} \cup Ahead(todo')
      /\ Planned("begin")' => Planned("begin")
    BY <1>1, <1>2, StopStepKeeps
<1>4. \A t : <<"signal", t>> \in Ahead(todo) => <<"signal", t>> \in Ahead(todo')
    BY <1>3
<1>5. SocketInv'
    BY <1>1, <1>3, <1>4 DEF SocketInv
<1>6. SourcesType' /\ TraceInv'
    BY <1>1 DEF SourcesType, TraceInv, NoThreadOverwritten,
                ForeignDescriptorOnlyAfterBadHandshakeOrClose
<1> QED BY <1>3, <1>5, <1>6 DEF SourcesInv

LEMMA DestroyKeeps ==
    ASSUME SourcesInv, Destroy
    PROVE  SourcesInv'
<1>1. /\ Do("destroy", "app", <<>>) /\ gone' = TRUE
      /\ UNCHANGED <<mode, active, activeB, thread, sock, owner, badHandshake, touched,
                     overwritten>>
      /\ SourcesType /\ PlanInv /\ JoinInv /\ SocketInv /\ TraceInv
    BY DEF Destroy, session, readers, fds, SourcesInv
<1>2. /\ todo' \in Seq(Item) /\ Shape(todo')
      /\ Ahead(todo) = {<<"destroy", "app">>} \cup Ahead(todo')
      /\ Ahead(todo') \subseteq Late
    <2>1. <<>> \in Seq(Item)
        BY EmptySeq
    <2> QED BY <1>1, <2>1, Advance
<1>3. \A x \in Ahead(todo') : x[1] \in {"signal", "join", "unmake"}
    BY <1>2 DEF Late
<1>4. ~ Planned("begin")' /\ ~ Planned("second")' /\ ~ Planned("destroy")'
    BY <1>3 DEF Planned
<1>5. PlanInv'
    BY <1>2, <1>3 DEF PlanInv
<1>6. Joinable' = Joinable /\ Planned("destroy")
    <2>1. <<"destroy", "app">>[1] = "destroy" /\ <<"destroy", "app">> \in Ahead(todo)
        BY <1>2
    <2> QED BY <1>1, <2>1 DEF Joinable, Planned
<1>7. Joinable \subseteq Unstopped
    <2>1. \A s \in Joinable \ Unstopped : <<"join", s>> \notin Ahead(todo)
        BY <1>2 DEF Late
    <2> QED BY <1>1, <1>6, <2>1 DEF JoinInv
<1>8. JoinInv'
    BY <1>1, <1>4, <1>6, <1>7 DEF JoinInv
<1>9. SourcesType' /\ SocketInv' /\ TraceInv'
    BY <1>1, <1>4 DEF SourcesType, SocketInv, TraceInv, NoThreadOverwritten,
                      ForeignDescriptorOnlyAfterBadHandshakeOrClose
<1> QED BY <1>5, <1>8, <1>9 DEF SourcesInv

-----------------------------------------------------------------------------
(* A source begins                                                         *)

LEMMA LaunchAt ==
    ASSUME SourcesType, NEW s \in Sources, thread[s] = "none",
           NEW p \in {"start", "recv"}, thread' = [thread EXCEPT ![s] = p]
    PROVE  thread' \in [Sources -> Places] /\ Joinable' = Joinable \cup {s}
<1>1. thread' \in [Sources -> Places]
    BY DEF SourcesType, Places
<1>2. \A t \in Sources : thread'[t] = IF t = s THEN p ELSE thread[t]
    BY DEF SourcesType
<1> QED BY <1>1, <1>2 DEF Joinable

\* What start() does to the threads.
LEMMA StartsThread ==
    ASSUME SourcesType, NoThreadOverwritten, NEW s \in Sources, thread[s] = "none", Starts(s)
    PROVE  /\ thread' \in [Sources -> Places] /\ Joinable' = Joinable \cup {s}
           /\ NoThreadOverwritten'
           /\ UNCHANGED <<touched, badHandshake>>
<1>1. /\ \E p \in {"start", "recv"} : thread' = [thread EXCEPT ![s] = p]
      /\ UNCHANGED <<overwritten, touched, badHandshake>>
    BY DEF Starts, RtlStart, WavStart, HackRfStart, AirspyStart, PlutoStart, ServerStart,
           RtlTcpStart, RspStart, Launch, fds
<1> QED BY <1>1, LaunchAt DEF NoThreadOverwritten

\* The socket of a source that has begun is its own.
LEMMA ConnectOwns ==
    ASSUME SourcesType, NEW s \in Networked, Connect(s), \A t \in Networked : sock[t] = NoFd
    PROVE  /\ sock' \in [Networked -> Fds \cup {NoFd}]
           /\ owner' \in [Fds -> {"free", "other"} \cup Sources]
           /\ \A t \in Networked : sock'[t] # NoFd => t = s /\ owner'[sock'[t]] = t
<1>1. /\ LowestFree \in Fds
      /\ owner' = [owner EXCEPT ![LowestFree] = s] /\ sock' = [sock EXCEPT ![s] = LowestFree]
    BY LowestIsFree DEF Connect, FreeFds
<1>2. s \in Sources
    BY DEF Networked, Sources
<1> HIDE DEF LowestFree
<1> QED BY <1>1, <1>2 DEF SourcesType

LEMMA StartsSocket ==
    ASSUME SourcesType, NEW s \in Sources, Starts(s), \A t \in Networked : sock[t] = NoFd
    PROVE  /\ sock' \in [Networked -> Fds \cup {NoFd}]
           /\ owner' \in [Fds -> {"free", "other"} \cup Sources]
           /\ \A t \in Networked : sock'[t] # NoFd => t = s /\ owner'[sock'[t]] = t
<1>1. CASE UNCHANGED <<sock, owner>>
    BY <1>1 DEF SourcesType
<1>2. CASE s \in Networked /\ Connect(s)
    BY <1>2, ConnectOwns
<1> QED BY <1>1, <1>2 DEF Starts, RtlStart, WavStart, HackRfStart, AirspyStart, PlutoStart,
           ServerStart, RtlTcpStart, RspStart, fds, Networked

LEMMA FailsAtMost ==
    ASSUME SourcesType, NEW s \in Sources, StartFails(s), \A t \in Networked : sock[t] = NoFd,
           ~ badHandshake
    PROVE  /\ UNCHANGED <<thread, overwritten, touched, owner>> /\ Joinable' = Joinable
           /\ sock' \in [Networked -> Fds \cup {NoFd}]
           /\ \A t \in Networked : sock'[t] # NoFd => t = s /\ badHandshake'
           /\ badHandshake' => sock'["rtltcp"] # NoFd
<1>1. UNCHANGED <<thread, overwritten, touched, owner>>
    BY DEF StartFails, Fails, RtlTcpBadHandshake, RspPrepareFails, readers, fds
<1>2. Joinable' = Joinable
    BY <1>1 DEF Joinable
<1>3. CASE UNCHANGED <<sock, badHandshake>>
    BY <1>1, <1>2, <1>3 DEF SourcesType
<1>4. CASE RtlTcpBadHandshake(s)
    <2>1. /\ s = "rtltcp" /\ LowestFree \in Fds /\ badHandshake' = TRUE
          /\ sock' = [sock EXCEPT ![s] = LowestFree]
        BY <1>4, LowestIsFree DEF RtlTcpBadHandshake, FreeFds
    <2>2. LowestFree # NoFd
        BY <2>1, RadioAssumption DEF RadioAssumption, NoFd
    <2> HIDE DEF LowestFree
    <2> QED BY <1>1, <1>2, <2>1, <2>2 DEF SourcesType, Networked
<1> QED BY <1>3, <1>4 DEF StartFails, Fails, RspPrepareFails, fds

\* When a source is about to begin every thread has been joined and no socket is left.
LEMMA NothingLeft ==
    ASSUME SourcesInv, NEW s \in Sources, NEW more \in Seq(Item), Do("begin", s, more)
    PROVE  /\ todo' = more /\ s = SourceOf(mode) /\ s \notin FeedsB /\ ~ gone
           /\ Joinable = {}
           /\ \A t \in Networked : sock[t] = NoFd
           /\ ~ badHandshake
<1>1. SourcesType /\ PlanInv /\ JoinInv /\ SocketInv
    BY DEF SourcesInv
<1>2. todo' = more /\ Ahead(todo) = {<<"begin", s>>}
    <2>1. /\ Tail(todo) = <<>> /\ todo' = more
          /\ Ahead(todo) = {<<"begin", s>>} \cup Ahead(Tail(todo))
        BY <1>1, Advance
    <2>2. Ahead(<<>>) = {}
        BY DEF Ahead
    <2> QED BY <2>1, <2>2
<1>3. s = SourceOf(mode) /\ ~ gone /\ Planned("begin")
    BY <1>1, <1>2 DEF PlanInv, Planned
<1>4. s \notin FeedsB
    BY <1>1, <1>3, ModeOf DEF SourcesType
<1>5. Joinable = {}
    BY <1>1, <1>2, <1>3 DEF JoinInv
<1>6. \A t \in Networked : sock[t] = NoFd
    BY <1>1, <1>2, <1>3 DEF SocketInv
<1>7. ~ badHandshake
    BY <1>1, <1>6 DEF SocketInv, Networked
<1> QED BY <1>2, <1>3, <1>4, <1>5, <1>6, <1>7

LEMMA BeginSourceKeeps ==
    ASSUME SourcesInv, NEW s \in Sources, BeginSource(s)
    PROVE  SourcesInv'
<1> DEFINE b == IF s = "rsp" THEN "rspB" ELSE "sdrB"
<1>1. /\ active' = s /\ activeB' = b /\ UNCHANGED <<mode, gone>>
      /\ SourcesType /\ TraceInv
    BY DEF BeginSource, SourcesInv
<1>2. PICK more \in {<<>>, << <<"second", b>> >>} :
         Do("begin", s, more) /\ (Starts(s) \/ (StartFails(s) /\ more = <<>>))
    <2>1. CASE StartFails(s) /\ Do("begin", s, <<>>)
        BY <2>1
    <2>2. CASE Starts(s) /\ mode = "dual" /\ Do("begin", s, << <<"second", "sdrB">> >>)
        <3>1. << <<"second", "sdrB">> >> \in Seq(Item)
            BY DEF Item, Sources
        <3>2. s = "sdr"
            BY <2>2, <3>1, NothingLeft DEF SourceOf
        <3> QED BY <2>2, <3>2
    <2>3. CASE Starts(s) /\ mode = "sdrplay2" /\ Do("begin", s, << <<"second", "rspB">> >>)
        <3>1. << <<"second", "rspB">> >> \in Seq(Item)
            BY DEF Item, Sources
        <3>2. s = "rsp"
            BY <2>3, <3>1, NothingLeft DEF SourceOf
        <3> QED BY <2>3, <3>2
    <2>4. CASE Starts(s) /\ Do("begin", s, <<>>)
        BY <2>4
    <2> QED BY <2>1, <2>2, <2>3, <2>4 DEF BeginSource
<1>3. more \in Seq(Item) /\ b \in FeedsB /\ Ahead(more) \subseteq {<<"second", b>>}
    <2>1. b \in FeedsB /\ <<"second", b>> \in Item
        BY DEF FeedsB, Item, Sources
    <2>2. CASE more = <<>>
        BY <2>1, <2>2, EmptySeq DEF Ahead
    <2>3. CASE more = << <<"second", b>> >>
        BY <2>1, <2>3 DEF Ahead
    <2> QED BY <1>2, <2>1, <2>2, <2>3
<1>4. /\ todo' = more /\ s \notin FeedsB /\ ~ gone /\ Joinable = {}
      /\ \A t \in Networked : sock[t] = NoFd
      /\ ~ badHandshake
    BY <1>2, <1>3, NothingLeft
<1>5. PlanInv'
    <2>1. Len(more) <= 1 /\ Len(more) \in Nat
        BY <1>2
    <2>2. Shape(more)
        <3>1. \A i \in 1 .. Len(more) : i = Len(more)
            BY <2>1
        <3>2. \A i, j \in 1 .. Len(more) : ~ (i < j)
            BY <2>1
        <3> QED BY <3>1, <3>2 DEF Shape
    <2> QED BY <1>1, <1>3, <1>4, <2>2 DEF PlanInv
<1>6. /\ ~ Planned("begin")' /\ ~ Planned("destroy")'
    BY <1>3, <1>4 DEF Planned
<1>7. CASE Starts(s)
    <2>1. thread[s] = "none"
        BY <1>4 DEF Joinable
    <2>2. /\ thread' \in [Sources -> Places] /\ Joinable' = Joinable \cup {s}
          /\ NoThreadOverwritten' /\ UNCHANGED <<touched, badHandshake>>
        BY <1>1, <1>7, <2>1, StartsThread DEF TraceInv
    <2>3. /\ sock' \in [Networked -> Fds \cup {NoFd}]
          /\ owner' \in [Fds -> {"free", "other"} \cup Sources]
          /\ \A t \in Networked : sock'[t] # NoFd => t = s /\ owner'[sock'[t]] = t
        BY <1>1, <1>4, <1>7, StartsSocket
    <2>4. SourcesType' /\ TraceInv'
        BY <1>1, <1>3, <1>4, <2>2, <2>3 DEF SourcesType, TraceInv,
                                        ForeignDescriptorOnlyAfterBadHandshakeOrClose
    <2>5. JoinInv'
        BY <1>1, <1>3, <1>4, <1>6, <2>2 DEF JoinInv
    <2>6. SocketInv'
        BY <1>1, <1>4, <1>6, <2>2, <2>3 DEF SocketInv
    <2> QED BY <1>5, <2>4, <2>5, <2>6 DEF SourcesInv
<1>8. CASE StartFails(s)
    <2>1. /\ UNCHANGED <<thread, overwritten, touched, owner>> /\ Joinable' = Joinable
          /\ sock' \in [Networked -> Fds \cup {NoFd}]
          /\ \A t \in Networked : sock'[t] # NoFd => t = s /\ badHandshake'
          /\ badHandshake' => sock'["rtltcp"] # NoFd
        BY <1>1, <1>4, <1>8, FailsAtMost
    <2>2. SourcesType' /\ TraceInv'
        BY <1>1, <1>3, <1>4, <2>1 DEF SourcesType, TraceInv, NoThreadOverwritten,
                                  ForeignDescriptorOnlyAfterBadHandshakeOrClose
    <2>3. JoinInv' /\ SocketInv'
        BY <1>1, <1>3, <1>4, <1>6, <2>1 DEF JoinInv, SocketInv
    <2> QED BY <1>5, <2>2, <2>3 DEF SourcesInv
<1> QED BY <1>2, <1>7, <1>8

\* The second receiver has no socket.
LEMMA SecondHasNoSocket ==
    ASSUME NEW s \in FeedsB, Starts(s) \/ StartFails(s)
    PROVE  UNCHANGED <<sock, owner, badHandshake, touched>>
BY DEF FeedsB, Starts, RtlStart, WavStart, HackRfStart, AirspyStart, PlutoStart, ServerStart,
       RtlTcpStart, RspStart, StartFails, Fails, RtlTcpBadHandshake, RspPrepareFails, fds

LEMMA BeginSecondKeeps ==
    ASSUME SourcesInv, NEW s \in Sources, BeginSecond(s)
    PROVE  SourcesInv'
<1> DEFINE c == CloseOf("rspB") \o CloseOf("rsp")
<1>1. /\ UNCHANGED <<mode, active, activeB, gone>>
      /\ SourcesType /\ PlanInv /\ JoinInv /\ SocketInv /\ TraceInv
    BY DEF BeginSecond, SourcesInv
<1>2. Plain(c) /\ Plain(<<>>)
    <2>1. "rspB" \in Sources /\ "rsp" \in Sources
        BY DEF Sources
    <2>2. Plain(<<>>)
        BY EmptySeq DEF Plain, Ahead
    <2> QED BY <2>1, <2>2, ClosePlan, PlainBoth
<1>3. PICK more : /\ more \in {<<>>, c} /\ Do("second", s, more)
                  /\ Starts(s) \/ StartFails(s)
    BY DEF BeginSecond
<1> HIDE DEF c
<1>4. Plain(more) /\ more \in Seq(Item)
    BY <1>2, <1>3 DEF Plain
<1>5. todo' = more /\ <<"second", s>> \in Ahead(todo)
    BY <1>1, <1>3, <1>4, Advance
<1>6. s = activeB /\ ~ gone /\ s \in FeedsB /\ s \notin Joinable
    <2>1. <<"second", s>>[1] = "second" /\ <<"second", s>>[2] = s
        OBVIOUS
    <2>2. Planned("second")
        BY <1>5, <2>1 DEF Planned
    <2> QED BY <1>1, <1>5, <2>1, <2>2 DEF PlanInv, JoinInv, SourcesType
<1>7. \A x \in Ahead(todo') : x[1] \in {"signal", "join", "unmake"}
    BY <1>4, <1>5 DEF Plain
<1>8. PlanInv'
    BY <1>4, <1>5, <1>7, PlainShape DEF PlanInv
<1>9. ~ Planned("begin")' /\ ~ Planned("second")' /\ ~ Planned("destroy")'
    BY <1>7 DEF Planned
<1>10. UNCHANGED <<sock, owner, badHandshake, touched>>
    BY <1>3, <1>6, SecondHasNoSocket
<1>11. /\ thread' \in [Sources -> Places] /\ Joinable' \subseteq Joinable \cup {s}
       /\ NoThreadOverwritten'
    <2>1. CASE Starts(s)
        <3>1. thread[s] = "none"
            BY <1>6 DEF Joinable
        <3> QED BY <1>1, <2>1, <3>1, StartsThread DEF TraceInv
    <2>2. CASE StartFails(s)
        <3>1. UNCHANGED <<thread, overwritten>>
            BY <2>2 DEF StartFails, Fails, RtlTcpBadHandshake, RspPrepareFails, readers
        <3> QED BY <1>1, <3>1 DEF SourcesType, Joinable, TraceInv, NoThreadOverwritten
    <2> QED BY <1>3, <2>1, <2>2
<1>12. SourcesType' /\ SocketInv' /\ TraceInv'
    BY <1>1, <1>9, <1>10, <1>11 DEF SourcesType, SocketInv, TraceInv,
                                    ForeignDescriptorOnlyAfterBadHandshakeOrClose
<1>13. JoinInv'
    BY <1>1, <1>6, <1>9, <1>11 DEF JoinInv
<1> QED BY <1>8, <1>12, <1>13 DEF SourcesInv

-----------------------------------------------------------------------------
(* The buttons                                                             *)

\* A new plan keeps the invariant if it joins what it must before what it begins or
\* destroys.
LEMMA ButtonKeeps ==
    ASSUME SourcesInv, ~ gone,
           UNCHANGED <<active, activeB, thread, sock, owner, gone, badHandshake, overwritten>>,
           touched' = {}, mode' \in Modes,
           NEW q \in Seq(Item), todo' = q, Shape(q),
           \A x \in Ahead(q) : x[1] # "second" /\ (x[1] = "begin" => x[2] = SourceOf(mode')),
           (\E x \in Ahead(q) : x[1] = "begin") =>
               \A s \in {active, activeB} : {<<"signal", s>>, <<"join", s>>} \subseteq Ahead(q),
           (\E x \in Ahead(q) : x[1] = "destroy") =>
               \A s \in Sources \ Unstopped : <<"join", s>> \in Ahead(q)
    PROVE  SourcesInv'
<1>1. SourcesType /\ JoinInv /\ SocketInv /\ TraceInv
    BY DEF SourcesInv
<1>2. PlanInv'
    BY DEF PlanInv
<1>3. Joinable' = Joinable
    BY DEF Joinable
<1>4. JoinInv'
    <2>1. Planned("begin")' => \A s \in {active, activeB} : <<"join", s>> \in Ahead(q)
        BY DEF Planned
    <2>2. ~ Planned("second")'
        BY DEF Planned
    <2>3. Planned("destroy")' => \A s \in Sources \ Unstopped : <<"join", s>> \in Ahead(q)
        BY DEF Planned
    <2>4. Joinable \subseteq Sources
        BY DEF Joinable
    <2> QED BY <1>1, <1>3, <2>1, <2>2, <2>3, <2>4 DEF JoinInv
<1>5. SocketInv'
    <2>1. Planned("begin")' => <<"signal", active>> \in Ahead(q)
        BY DEF Planned
    <2> QED BY <1>1, <2>1 DEF SocketInv
<1>6. SourcesType' /\ TraceInv'
    BY <1>1 DEF SourcesType, TraceInv, NoThreadOverwritten,
                ForeignDescriptorOnlyAfterBadHandshakeOrClose
<1> QED BY <1>2, <1>4, <1>5, <1>6 DEF SourcesInv

LEMMA ClosesBoth ==
    /\ Plain(CloseOf("rspB") \o CloseOf("rsp"))
    /\ \A s \in Rsp : <<"join", s>> \in Ahead(CloseOf("rspB") \o CloseOf("rsp"))
<1>1. "rspB" \in Sources /\ "rsp" \in Sources
    BY DEF Sources
<1> QED BY <1>1, ClosePlan, PlainBoth DEF Rsp

\* A plan of stops and closes only.
LEMMA PlainButtonKeeps ==
    ASSUME SourcesInv, ~ gone,
           UNCHANGED <<active, activeB, thread, sock, owner, gone, badHandshake, overwritten>>,
           touched' = {}, mode' \in Modes, Plain(todo')
    PROVE  SourcesInv'
<1>1. PICK q \in Seq(Item) : todo' = q /\ Plain(q)
    BY DEF Plain
<1>2. \A x \in Ahead(q) : x[1] \in {"signal", "join", "unmake"}
    BY <1>1 DEF Plain
<1>3. Shape(q)
    BY <1>1, PlainShape
<1> QED BY <1>1, <1>2, <1>3, ButtonKeeps

LEMMA PressStartKeeps ==
    ASSUME SourcesInv, PressStart
    PROVE  SourcesInv'
<1> DEFINE a == StopOf(activeB) \o StopOf(active)
           c == IF SourceOf(mode) = "rsp" THEN CloseOf("rspB") \o CloseOf("rsp") ELSE <<>>
           x == <<"begin", SourceOf(mode)>>
           q == (a \o c) \o <<x>>
<1>1. /\ ~ gone /\ touched' = {} /\ todo' = q
      /\ UNCHANGED <<mode, active, activeB, thread, sock, owner, gone, badHandshake,
                     overwritten>>
      /\ SourcesType
    BY DEF PressStart, sources, readers, SourcesInv
<1>2. /\ Plain(a)
      /\ \A s \in {active, activeB} : {<<"signal", s>>, <<"join", s>>} \subseteq Ahead(a)
    <2>1. active \in Sources /\ activeB \in Sources
        BY <1>1 DEF SourcesType, Sources, FeedsB
    <2> QED BY <2>1, StopPlan, PlainBoth
<1>3. Plain(c)
    <2>1. Plain(<<>>)
        BY EmptySeq DEF Plain, Ahead
    <2> QED BY <2>1, ClosesBoth
<1>4. x \in Item /\ x[1] = "begin" /\ x[2] = SourceOf(mode)
    BY <1>1, ModeOf DEF Item, SourcesType
<1> HIDE DEF a, c, x
<1>5. /\ q \in Seq(Item) /\ Shape(q) /\ Ahead(q) = Ahead(a \o c) \cup {x}
      /\ Plain(a \o c) /\ Ahead(a) \subseteq Ahead(a \o c)
    BY <1>2, <1>3, <1>4, PlainBoth, PlainThen
<1> HIDE DEF q
<1>6. \A y \in Ahead(q) : y[1] # "second" /\ y[1] # "destroy"
                          /\ (y[1] = "begin" => y[2] = SourceOf(mode'))
    BY <1>1, <1>4, <1>5 DEF Plain
<1>7. \A s \in {active, activeB} : {<<"signal", s>>, <<"join", s>>} \subseteq Ahead(q)
    BY <1>2, <1>5
<1>8. mode' \in Modes
    BY <1>1 DEF SourcesType
<1> QED BY <1>1, <1>5, <1>6, <1>7, <1>8, ButtonKeeps

LEMMA PressStopKeeps ==
    ASSUME SourcesInv, PressStop \/ StreamFailed \/ \E m \in Modes : ChooseSource(m)
    PROVE  SourcesInv'
<1>1. SourcesType /\ active \in Sources /\ activeB \in Sources
      /\ "sdrB" \in Sources /\ "rsp" \in Sources /\ "rspB" \in Sources
    BY DEF SourcesInv, SourcesType, Sources, FeedsB
<1>2. Plain(<<>>)
    BY EmptySeq DEF Plain, Ahead
<1>3. \A s \in Sources : Plain(StopOf(s))
    BY StopPlan
<1>4. Plain(StopOf(activeB) \o StopOf(active))
    BY <1>1, <1>3, PlainBoth
<1>5. Plain((StopOf(activeB) \o StopOf(active)) \o (IF dual THEN StopOf("sdrB") ELSE <<>>))
    BY <1>1, <1>2, <1>3, <1>4, PlainBoth
<1>6. Plain(StopOf("rspB") \o StopOf("rsp"))
    BY <1>1, <1>3, PlainBoth
<1>7. Plain(todo') /\ ~ gone /\ touched' = {} /\ mode' \in Modes
    BY <1>1, <1>5, <1>6, ClosesBoth DEF PressStop, StreamFailed, ChooseSource, SourcesType
<1>8. UNCHANGED <<active, activeB, thread, sock, owner, gone, badHandshake, overwritten>>
    BY DEF PressStop, StreamFailed, ChooseSource, sources, readers
<1> QED BY <1>7, <1>8, PlainButtonKeeps

LEMMA ExitKeeps ==
    ASSUME SourcesInv, Exit
    PROVE  SourcesInv'
<1> DEFINE p0 == CloseOf("rspB") \o CloseOf("rsp")
           p1 == p0 \o StopOf("sdr")
           p2 == p1 \o StopOf("sdrB")
           p3 == p2 \o StopOf("wav")
           p4 == p3 \o StopOf("server")
           p5 == p4 \o StopOf("hack")
           x == <<"destroy", "app">>
           q0 == p5 \o <<x>>
           q1 == q0 \o StopOf("pluto")
           q2 == q1 \o StopOf("airspy")
           q == q2 \o StopOf("rtltcp")
<1>1. /\ ~ gone /\ touched' = {} /\ todo' = q
      /\ UNCHANGED <<mode, active, activeB, thread, sock, owner, gone, badHandshake,
                     overwritten>>
      /\ SourcesType
    BY DEF Exit, session, sources, readers, SourcesInv
<1>2. /\ \A s \in Sources : Plain(StopOf(s)) /\ <<"join", s>> \in Ahead(StopOf(s))
      /\ \A s \in Unstopped : Ahead(StopOf(s)) \subseteq Late
    <2>1. \A s \in Sources : /\ Plain(StopOf(s))
                             /\ Ahead(StopOf(s)) = {<<"signal", s>>, <<"join", s>>}
        BY StopPlan
    <2>2. Unstopped \subseteq Sources
        BY DEF Unstopped, Sources
    <2> QED BY <2>1, <2>2 DEF Late
<1>3. /\ \A s \in {"sdr", "sdrB", "wav", "server", "hack", "pluto", "airspy", "rtltcp"} :
            s \in Sources
      /\ \A s \in {"pluto", "airspy", "rtltcp"} : s \in Unstopped
      /\ \A s \in Sources \ Unstopped : s \in Rsp \cup {"sdr", "sdrB", "wav", "server", "hack"}
    BY DEF Sources, Unstopped, Rsp
<1>4. Plain(p0) /\ \A s \in Rsp : <<"join", s>> \in Ahead(p0)
    BY ClosesBoth
<1> HIDE DEF p0
<1>5. Plain(p1) /\ Ahead(p1) = Ahead(p0) \cup Ahead(StopOf("sdr"))
    BY <1>2, <1>3, <1>4, PlainBoth
<1> HIDE DEF p1
<1>6. Plain(p2) /\ Ahead(p2) = Ahead(p1) \cup Ahead(StopOf("sdrB"))
    BY <1>2, <1>3, <1>5, PlainBoth
<1> HIDE DEF p2
<1>7. Plain(p3) /\ Ahead(p3) = Ahead(p2) \cup Ahead(StopOf("wav"))
    BY <1>2, <1>3, <1>6, PlainBoth
<1> HIDE DEF p3
<1>8. Plain(p4) /\ Ahead(p4) = Ahead(p3) \cup Ahead(StopOf("server"))
    BY <1>2, <1>3, <1>7, PlainBoth
<1> HIDE DEF p4
<1>9. Plain(p5) /\ Ahead(p5) = Ahead(p4) \cup Ahead(StopOf("hack"))
    BY <1>2, <1>3, <1>8, PlainBoth
<1> HIDE DEF p5
<1>10. x \in Item /\ x[1] = "destroy"
    BY DEF Item
<1> HIDE DEF x
<1>11. q0 \in Seq(Item) /\ Shape(q0) /\ Ahead(q0) = Ahead(p5) \cup {x}
    BY <1>9, <1>10, PlainThen
<1>12. \A y \in Ahead(q0) : y[1] \notin {"begin", "second"}
    BY <1>9, <1>10, <1>11 DEF Plain
<1> HIDE DEF q0
<1>13. /\ q1 \in Seq(Item) /\ Shape(q1) /\ Ahead(q1) = Ahead(q0) \cup Ahead(StopOf("pluto"))
       /\ \A y \in Ahead(q1) : y[1] \notin {"begin", "second"}
    BY <1>2, <1>3, <1>11, <1>12, ThenUnstopped
<1> HIDE DEF q1
<1>14. /\ q2 \in Seq(Item) /\ Shape(q2) /\ Ahead(q2) = Ahead(q1) \cup Ahead(StopOf("airspy"))
       /\ \A y \in Ahead(q2) : y[1] \notin {"begin", "second"}
    BY <1>2, <1>3, <1>13, ThenUnstopped
<1> HIDE DEF q2
<1>15. /\ q \in Seq(Item) /\ Shape(q) /\ Ahead(q) = Ahead(q2) \cup Ahead(StopOf("rtltcp"))
       /\ \A y \in Ahead(q) : y[1] \notin {"begin", "second"}
    BY <1>2, <1>3, <1>14, ThenUnstopped
<1> HIDE DEF q
<1>16. \A s \in Sources \ Unstopped : <<"join", s>> \in Ahead(q)
    <2>1. ASSUME NEW s \in Rsp PROVE <<"join", s>> \in Ahead(q)
        BY <1>4, <1>5, <1>6, <1>7, <1>8, <1>9, <1>11, <1>13, <1>14, <1>15, <2>1
    <2>2. ASSUME NEW s \in {"sdr", "sdrB", "wav", "server", "hack"}
          PROVE  <<"join", s>> \in Ahead(q)
        BY <1>2, <1>3, <1>5, <1>6, <1>7, <1>8, <1>9, <1>11, <1>13, <1>14, <1>15, <2>2
    <2> QED BY <1>3, <2>1, <2>2
<1>17. mode' \in Modes
    BY <1>1 DEF SourcesType
<1> QED BY <1>1, <1>15, <1>16, <1>17, ButtonKeeps

-----------------------------------------------------------------------------
(* Theorems                                                                *)

LEMMA InvStep == SourcesInv /\ [Next]_vars => SourcesInv'
<1> SUFFICES ASSUME SourcesInv, [Next]_vars PROVE SourcesInv'
    OBVIOUS
<1>1. CASE UiStep
    BY <1>1, SignalKeeps, JoinKeeps, UnmakeKeeps, BeginSourceKeeps, BeginSecondKeeps,
       DestroyKeeps DEF UiStep
<1>2. CASE PressStart \/ PressStop \/ StreamFailed \/ \E m \in Modes : ChooseSource(m)
    BY <1>2, PressStartKeeps, PressStopKeeps
<1>3. CASE Exit
    BY <1>3, ExitKeeps
<1>4. CASE \E s \in Sources :
            ReaderStep(s) \/ DeviceLost(s) \/ SamplesArrive(s) \/ ReadsForeign(s)
    BY <1>4, ReaderStepKeeps
<1>5. CASE OthersOpen \/ \E d \in Fds : OthersClose(d)
    BY <1>5, OthersKeep
<1>6. CASE UNCHANGED vars
    <2>1. UNCHANGED <<mode, active, activeB, todo, thread, gone, sock, owner, badHandshake,
                      overwritten, touched>>
        BY <1>6 DEF vars, session, sources, readers
    <2> QED BY <2>1, ReaderKeeps
            DEF SourcesInv, SourcesType, Joinable, TraceInv,
                ForeignDescriptorOnlyAfterBadHandshakeOrClose
<1> QED BY <1>1, <1>2, <1>3, <1>4, <1>5, <1>6 DEF Next

\* What the sources are doing fits what the UI thread has still to do, in every behaviour of
\* start, stop, loss, failure and exit.
THEOREM SourcesCorrect == Spec => []SourcesInv
BY InvInit, InvStep, PTL DEF Spec

\* At most one source delivers to each receiver, whatever was chosen, started, lost or
\* refused before: startActive stops both pointers' sources before it moves them.
THEOREM OneRadio == Spec => []OneRadioPerReceiver
<1>1. SourcesInv => OneRadioPerReceiver
    BY DEF SourcesInv, SourcesType, JoinInv, Joinable, OneRadioPerReceiver
<1> QED BY <1>1, SourcesCorrect, PTL

\* No joinable std::thread is assigned to, no descriptor of somebody else is used and no
\* callback runs into destroyed rings, but for the cases the formula names.
THEOREM HandlesAreOwn == Spec => []HandlesAreTheirOwn
<1>1. SourcesInv => CallbackAfterDestructionOnlyOfUnstopped
    BY DEF SourcesInv, JoinInv, Joinable, Unstopped, CallbackAfterDestructionOnlyOfUnstopped
<1>2. SourcesInv => HandlesAreTheirOwn
    BY <1>1 DEF SourcesInv, TraceInv, HandlesAreTheirOwn
<1> QED BY <1>2, SourcesCorrect, PTL
=============================================================================
