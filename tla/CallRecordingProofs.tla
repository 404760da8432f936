------------------------- MODULE CallRecordingProofs --------------------------
(***************************************************************************)
(* Proofs about CallRecording, for every size of the buffer and of the     *)
(* log and any number of frames, files and calls: frames, files and        *)
(* entries agree, and the window closes the worker's file only by a change *)
(* of format.                                                              *)
(*                                                                         *)
(* Two facts carry the proof.  The open file is the newest one, and what   *)
(* waits in the buffer is newer than what is in any file, so appending     *)
(* keeps the order; and while a call is listed, the newest live entry is   *)
(* that of the file whose name the decoder has, but for the moment in      *)
(* which the worker has named its next file.                               *)
(***************************************************************************)
EXTENDS CallRecording, SequenceTheorems, FiniteSetTheorems, TLAPS

FileRec  == [fmt : Formats, data : Seq(Nat), header : Nat, removed : BOOLEAN, call : Nat]
EntryRec == [file : Nat, path : BOOLEAN, recording : BOOLEAN, call : Nat, opened : Nat,
             raced : BOOLEAN]

DecoderRec == [record : BOOLEAN, fmt : Formats, active : BOOLEAN, buffer : Seq(Nat),
               aes : BOOLEAN, path : Nat]

CallType ==
    /\ recordOn \in BOOLEAN /\ format \in Formats /\ calls \in Nat /\ listed \in BOOLEAN
    /\ decoder \in DecoderRec
    /\ pc \in {"out", "idle", "check", "record", "open", "path", "list", "write", "fwrite"}
    /\ frames \in Nat
    /\ files \in Seq(FileRec) /\ writer \in {NoFile, Len(files)}

InHand == pc \in {"record", "open", "path", "list", "write", "fwrite"}

Written(fs) == UNION {ToSet(fs[f].data) : f \in DOMAIN fs}
InOrder(fs) ==
    \A f, g \in DOMAIN fs : \A i \in DOMAIN fs[f].data, j \in DOMAIN fs[g].data :
        f < g \/ (f = g /\ i < j) => fs[f].data[i] < fs[g].data[j]
Patched(fs, except) == \A f \in DOMAIN fs : f # except => fs[f].header = Len(fs[f].data)

\* Files, then the buffer, then the frame in hand.
OrderInv ==
    /\ InOrder(files)
    /\ \A n \in Written(files), k \in DOMAIN decoder.buffer : n < decoder.buffer[k]
    /\ \A j, k \in DOMAIN decoder.buffer : j < k => decoder.buffer[j] < decoder.buffer[k]
    /\ \A n \in Written(files) \cup ToSet(decoder.buffer) :
          n <= frames /\ (InHand => n < frames)
    /\ decoder.active /\ pc \notin {"path", "list"} => decoder.buffer = <<>>
    /\ pc \in {"out", "write", "fwrite"} => decoder.buffer = <<>>

AcceptInv ==
    accepted = Written(files) \cup ToSet(decoder.buffer)
               \cup (IF InHand THEN {frames} ELSE {}) \cup lost

HeaderInv == Patched(files, writer)

\* The newest live entry of the call is that of the file the decoder names.
LogInv ==
    /\ log \in Seq(EntryRec)
    /\ \A i \in DOMAIN log : log[i].recording => log[i].call <= calls
    /\ listed /\ pc # "list" => \A i \in EndedEntry : log[i].opened = decoder.path
    /\ EndedEntryHasItsFile
    /\ listed => decoder.fmt = format

CallInv == CallType /\ OrderInv /\ AcceptInv /\ HeaderInv /\ LogInv

-----------------------------------------------------------------------------
(* Files and their frames                                                  *)

LEMMA SameFrames ==
    ASSUME NEW fs, NEW gs, DOMAIN gs = DOMAIN fs, \A f \in DOMAIN fs : gs[f].data = fs[f].data
    PROVE  Written(gs) = Written(fs) /\ (InOrder(gs) <=> InOrder(fs))
<1>1. Written(gs) = Written(fs)
    BY DEF Written
<1>2. InOrder(gs) <=> InOrder(fs)
    BY DEF InOrder
<1> QED BY <1>1, <1>2

\* Closing changes no frame, and the header counts them.
LEMMA CloseKeeps ==
    ASSUME CallType, HeaderInv, NEW gs,
           gs = IF writer = NoFile THEN files ELSE Closed(files, writer)
    PROVE  /\ gs \in Seq(FileRec) /\ Len(gs) = Len(files)
           /\ Written(gs) = Written(files) /\ (InOrder(gs) <=> InOrder(files))
           /\ Patched(gs, NoFile)
<1>1. CASE writer = NoFile
    BY <1>1 DEF CallType, HeaderInv
<1>2. CASE writer # NoFile
    <2>1. /\ writer \in 1 .. Len(files) /\ Len(files) \in Nat
          /\ files \in [1 .. Len(files) -> FileRec] /\ DOMAIN files = 1 .. Len(files)
        BY <1>2, LenProperties DEF CallType, NoFile
    <2>2. PICK r \in BOOLEAN : gs = [files EXCEPT ![writer].header = Len(files[writer].data),
                                                   ![writer].removed = r]
        BY <1>2 DEF Closed
    <2>3. Len(files[writer].data) \in Nat
        BY <2>1, LenProperties DEF FileRec
    <2>4. /\ gs \in [1 .. Len(files) -> FileRec]
          /\ \A f \in DOMAIN files : gs[f].data = files[f].data
          /\ \A f \in DOMAIN files : f # writer => gs[f].header = files[f].header
          /\ gs[writer].header = Len(files[writer].data)
        <3>1. PICK n \in Nat : n = Len(files[writer].data)
            BY <2>3
        <3>2. files[writer] \in FileRec
            BY <2>1
        <3>3. PICK d : d = [files[writer] EXCEPT !.header = n, !.removed = r]
            OBVIOUS
        <3>4. d \in FileRec /\ d.data = files[writer].data /\ d.header = n
            BY <3>2, <3>3 DEF FileRec
        <3>5. gs = [files EXCEPT ![writer] = d]
            BY <2>1, <2>2, <3>1, <3>3
        <3> QED BY <2>1, <3>1, <3>4, <3>5
    <2>5. DOMAIN gs = DOMAIN files
        BY <2>1, <2>4
    <2>6. gs \in Seq(FileRec)
        BY <2>1, <2>4, SeqDef
    <2>7. Len(gs) = Len(files)
        BY <2>1, <2>5, <2>6, LenProperties
    <2>8. Patched(gs, NoFile)
        BY <2>1, <2>4, <2>5 DEF HeaderInv, Patched
    <2> QED BY <2>4, <2>5, <2>6, <2>7, <2>8, SameFrames
<1> QED BY <1>1, <1>2

\* What two sequences have together.
LEMMA ToSetOfBoth ==
    ASSUME NEW S, NEW p \in Seq(S), NEW q \in Seq(S)
    PROVE  ToSet(p \o q) = ToSet(p) \cup ToSet(q)
<1>1. /\ Len(p) \in Nat /\ Len(q) \in Nat /\ DOMAIN p = 1 .. Len(p) /\ DOMAIN q = 1 .. Len(q)
      /\ DOMAIN (p \o q) = 1 .. Len(p) + Len(q)
      /\ \A i \in 1 .. Len(p) + Len(q) :
            (p \o q)[i] = IF i <= Len(p) THEN p[i] ELSE q[i - Len(p)]
    BY ConcatProperties, LenProperties
<1>2. ASSUME NEW x \in ToSet(p \o q) PROVE x \in ToSet(p) \cup ToSet(q)
    <2>1. PICK i \in 1 .. Len(p) + Len(q) : x = (p \o q)[i]
        BY <1>1, <1>2 DEF ToSet
    <2>2. CASE i <= Len(p)
        <3>1. i \in DOMAIN p /\ x = p[i]
            BY <1>1, <2>1, <2>2
        <3> QED BY <3>1 DEF ToSet
    <2>3. CASE ~ (i <= Len(p))
        <3>1. i - Len(p) \in DOMAIN q /\ x = q[i - Len(p)]
            BY <1>1, <2>1, <2>3
        <3> QED BY <3>1 DEF ToSet
    <2> QED BY <2>2, <2>3
<1>3. ASSUME NEW x \in ToSet(p) PROVE x \in ToSet(p \o q)
    <2>1. PICK i \in 1 .. Len(p) : x = p[i]
        BY <1>1, <1>3 DEF ToSet
    <2>2. i \in DOMAIN (p \o q) /\ x = (p \o q)[i]
        BY <1>1, <2>1
    <2> QED BY <2>2 DEF ToSet
<1>4. ASSUME NEW x \in ToSet(q) PROVE x \in ToSet(p \o q)
    <2>1. PICK i \in 1 .. Len(q) : x = q[i]
        BY <1>1, <1>4 DEF ToSet
    <2>2. i + Len(p) \in DOMAIN (p \o q) /\ x = (p \o q)[i + Len(p)]
        BY <1>1, <2>1
    <2> QED BY <2>2 DEF ToSet
<1> QED BY <1>2, <1>3, <1>4

LEMMA ToSetOfOneMore ==
    ASSUME NEW q \in Seq(Nat), NEW x \in Nat
    PROVE  /\ Append(q, x) \in Seq(Nat) /\ Append(q, x) = q \o <<x>>
           /\ ToSet(Append(q, x)) = ToSet(q) \cup {x} /\ ToSet(<<x>>) = {x}
<1>1. Append(q, x) = q \o <<x>> /\ Append(q, x) \in Seq(Nat) /\ <<x>> \in Seq(Nat)
    BY AppendIsConcat, AppendProperties
<1>2. ToSet(<<x>>) = {x}
    <2>1. PICK s : s = <<x>>
        OBVIOUS
    <2>2. DOMAIN s = 1 .. 1 /\ s[1] = x
        BY <2>1
    <2>3. \A i \in DOMAIN s : i = 1
        BY <2>2
    <2>4. 1 \in DOMAIN s
        BY <2>2
    <2>5. ToSet(s) = {x}
        BY <2>2, <2>3, <2>4 DEF ToSet
    <2> QED BY <2>1, <2>5
<1>3. PICK s \in Seq(Nat) : s = <<x>>
    BY <1>1
<1>4. ToSet(q \o s) = ToSet(q) \cup ToSet(s)
    BY ToSetOfBoth
<1>5. ToSet(Append(q, x)) = ToSet(q) \cup {x}
    BY <1>1, <1>2, <1>3, <1>4
<1> QED BY <1>1, <1>2, <1>5

Newer(more, fs) ==
    /\ \A j, k \in DOMAIN more : j < k => more[j] < more[k]
    /\ \A n \in Written(fs), k \in DOMAIN more : n < more[k]
Extends(gs, fs, more) == gs = [fs EXCEPT ![Len(fs)].data = @ \o more]

\* More frames at the end of the newest file, all newer than what is in the files.
LEMMA ExtendNewest ==
    ASSUME NEW fs \in Seq(FileRec), fs # <<>>, NEW more \in Seq(Nat), NEW gs,
           Extends(gs, fs, more), InOrder(fs), Newer(more, fs)
    PROVE  /\ gs \in Seq(FileRec) /\ Len(gs) = Len(fs)
           /\ Written(gs) = Written(fs) \cup ToSet(more)
           /\ InOrder(gs)
           /\ Patched(fs, Len(fs)) => Patched(gs, Len(gs))
<1> USE DEF Extends, Newer
<1> DEFINE w == Len(fs)
           old == fs[w].data
           new == old \o more
<1>1. /\ w \in Nat \ {0} /\ fs \in [1 .. w -> FileRec] /\ DOMAIN fs = 1 .. w
      /\ w \in 1 .. w
    BY EmptySeq, LenProperties
<1>2. old \in Seq(Nat)
    BY <1>1 DEF FileRec
<1>3. /\ new \in Seq(Nat) /\ Len(old) \in Nat /\ Len(more) \in Nat
      /\ DOMAIN old = 1 .. Len(old) /\ DOMAIN more = 1 .. Len(more)
      /\ DOMAIN new = 1 .. Len(old) + Len(more)
      /\ \A i \in 1 .. Len(old) + Len(more) :
            new[i] = IF i <= Len(old) THEN old[i] ELSE more[i - Len(old)]
    BY <1>2, ConcatProperties, LenProperties
<1>4. ToSet(new) = ToSet(old) \cup ToSet(more)
    BY <1>2, ToSetOfBoth
<1>5. PICK d \in Seq(Nat) : d = new
    BY <1>3
<1>6. gs = [fs EXCEPT ![w].data = d]
    BY <1>1, <1>5
<1>7. /\ gs \in [1 .. w -> FileRec]
      /\ gs[w].data = d
      /\ \A f \in 1 .. w : f # w => gs[f] = fs[f]
    BY <1>1, <1>6, ZenonT(30) DEF FileRec
<1>8. gs \in Seq(FileRec) /\ Len(gs) = w /\ DOMAIN gs = 1 .. w
    <2>1. gs \in Seq(FileRec) /\ DOMAIN gs = 1 .. w
        BY <1>1, <1>7, SeqDef
    <2>2. Len(gs) \in Nat /\ DOMAIN gs = 1 .. Len(gs)
        BY <2>1, LenProperties
    <2> QED BY <1>1, <2>1, <2>2
<1>9. /\ ToSet(old) \subseteq Written(fs)
      /\ \A i \in DOMAIN old : old[i] \in Written(fs)
      /\ \A f \in 1 .. w : \A i \in DOMAIN fs[f].data : fs[f].data[i] \in Written(fs)
    <2>1. \A f \in 1 .. w : ToSet(fs[f].data) \subseteq Written(fs)
        BY <1>1 DEF Written
    <2>2. \A f \in 1 .. w : \A i \in DOMAIN fs[f].data : fs[f].data[i] \in ToSet(fs[f].data)
        BY DEF ToSet
    <2> QED BY <1>1, <2>1, <2>2
<1> HIDE DEF new, old, w
<1>10. Written(gs) = Written(fs) \cup ToSet(more)
    <2>1. ASSUME NEW x \in Written(gs) PROVE x \in Written(fs) \cup ToSet(more)
        <3>1. PICK f \in 1 .. w : x \in ToSet(gs[f].data)
            BY <1>8, <2>1 DEF Written
        <3>2. CASE f = w
            BY <1>4, <1>5, <1>7, <1>9, <3>1, <3>2
        <3>3. CASE f # w
            <4>1. x \in ToSet(fs[f].data)
                BY <1>7, <3>1, <3>3
            <4> QED BY <1>1, <4>1 DEF Written
        <3> QED BY <3>2, <3>3
    <2>2. ASSUME NEW x \in Written(fs) PROVE x \in Written(gs)
        <3>1. PICK f \in 1 .. w : x \in ToSet(fs[f].data)
            BY <1>1, <2>2 DEF Written
        <3>2. x \in ToSet(gs[f].data)
            <4>1. CASE f = w
                BY <1>4, <1>5, <1>7, <3>1, <4>1 DEF old
            <4>2. CASE f # w
                BY <1>7, <3>1, <4>2
            <4> QED BY <4>1, <4>2
        <3> QED BY <1>8, <3>2 DEF Written
    <2>3. ASSUME NEW x \in ToSet(more) PROVE x \in Written(gs)
        <3>1. x \in ToSet(gs[w].data)
            BY <1>4, <1>5, <1>7, <2>3
        <3> QED BY <1>1, <1>8, <3>1 DEF Written
    <2> QED BY <2>1, <2>2, <2>3
<1>11. \A i \in DOMAIN d : i \in Nat /\ i \in 1 .. Len(old) + Len(more)
    BY <1>3, <1>5
<1>12. ASSUME NEW i \in DOMAIN d, i <= Len(old)
       PROVE  i \in DOMAIN old /\ d[i] = old[i]
    <2>1. i \in 1 .. Len(old)
        BY <1>3, <1>11, <1>12
    <2> QED BY <1>3, <1>5, <1>11, <1>12, <2>1
<1>13. ASSUME NEW i \in DOMAIN d, ~ (i <= Len(old))
       PROVE  i - Len(old) \in DOMAIN more /\ d[i] = more[i - Len(old)]
    <2> DEFINE n == Len(old)
               m == Len(more)
    <2>0. n \in Nat /\ m \in Nat /\ i \in Nat /\ i \in 1 .. n + m /\ ~ (i <= n)
        BY <1>3, <1>11, <1>13
    <2>1. i - n \in 1 .. m
        <3> HIDE DEF n, m
        <3> QED BY <2>0
    <2>2. d[i] = more[i - Len(old)]
        BY <1>3, <1>5, <1>11, <1>13
    <2> QED BY <1>3, <2>1, <2>2
<1>14. ASSUME NEW i \in DOMAIN d, NEW j \in DOMAIN d, i < j
       PROVE  d[i] < d[j]
    <2>1. CASE j <= Len(old)
        <3>1. i <= Len(old)
            BY <1>3, <1>11, <1>14, <2>1
        <3>2. i \in DOMAIN old /\ j \in DOMAIN old /\ d[i] = old[i] /\ d[j] = old[j]
            BY <1>12, <2>1, <3>1
        <3> QED BY <1>1, <1>14, <3>2 DEF InOrder, old
    <2>2. CASE i <= Len(old) /\ ~ (j <= Len(old))
        <3>1. /\ i \in DOMAIN old /\ d[i] = old[i]
              /\ j - Len(old) \in DOMAIN more /\ d[j] = more[j - Len(old)]
            BY <1>12, <1>13, <2>2
        <3>2. old[i] \in Written(fs)
            BY <1>9, <3>1
        <3> QED BY <3>1, <3>2
    <2>3. CASE ~ (i <= Len(old))
        <3>1. ~ (j <= Len(old)) /\ i - Len(old) < j - Len(old)
            <4>1. PICK n \in Nat : n = Len(old)
                BY <1>3
            <4>2. i \in Nat /\ j \in Nat /\ ~ (i <= n) /\ i < j
                BY <1>11, <1>14, <2>3, <4>1
            <4>3. ~ (j <= n) /\ i - n < j - n
                BY <4>2
            <4> QED BY <4>1, <4>3
        <3>2. /\ i - Len(old) \in DOMAIN more /\ d[i] = more[i - Len(old)]
              /\ j - Len(old) \in DOMAIN more /\ d[j] = more[j - Len(old)]
            BY <1>13, <2>3, <3>1
        <3> QED BY <3>1, <3>2
    <2> QED BY <2>1, <2>2, <2>3
<1>15. ASSUME NEW f \in 1 .. w, NEW g \in 1 .. w,
              NEW i \in DOMAIN gs[f].data, NEW j \in DOMAIN gs[g].data,
              f < g \/ (f = g /\ i < j)
       PROVE  gs[f].data[i] < gs[g].data[j]
    <2>1. CASE f = w
        <3>1. g = w /\ i < j
            BY <1>1, <1>15, <2>1
        <3> QED BY <1>7, <1>14, <1>15, <2>1, <3>1
    <2>2. CASE f # w /\ g # w
        BY <1>1, <1>7, <1>15, <2>2 DEF InOrder
    <2>3. CASE f # w /\ g = w
        <3>1. i \in DOMAIN fs[f].data /\ gs[f].data[i] = fs[f].data[i] /\ gs[g].data = d
            BY <1>7, <1>15, <2>3
        <3>2. CASE j <= Len(old)
            <4>1. j \in DOMAIN old /\ d[j] = old[j]
                BY <1>12, <1>15, <3>1, <3>2
            <4> QED BY <1>1, <1>15, <2>3, <3>1, <4>1 DEF InOrder, old
        <3>3. CASE ~ (j <= Len(old))
            <4>1. j - Len(old) \in DOMAIN more /\ d[j] = more[j - Len(old)]
                BY <1>13, <1>15, <3>1, <3>3
            <4>2. fs[f].data[i] \in Written(fs)
                BY <1>9, <3>1
            <4> QED BY <3>1, <4>1, <4>2
        <3> QED BY <3>2, <3>3
    <2> QED BY <2>1, <2>2, <2>3
<1>16. InOrder(gs)
    <2>1. ASSUME NEW f \in DOMAIN gs, NEW g \in DOMAIN gs
          PROVE  \A i \in DOMAIN gs[f].data, j \in DOMAIN gs[g].data :
                    f < g \/ (f = g /\ i < j) => gs[f].data[i] < gs[g].data[j]
        <3>1. f \in 1 .. w /\ g \in 1 .. w
            BY <1>8
        <3> QED BY <1>15, <3>1
    <2> QED BY <2>1 DEF InOrder
<1>17. Patched(fs, w) => Patched(gs, w)
    BY <1>1, <1>7, <1>8 DEF Patched
<1> QED BY <1>8, <1>10, <1>16, <1>17 DEF w

\* A file opened after the others: no frame yet, a number that counts none.
LEMMA OpenNewest ==
    ASSUME NEW fs \in Seq(FileRec), NEW e \in FileRec, e.data = <<>>, e.header = 0,
           Patched(fs, NoFile)
    PROVE  /\ Append(fs, e) \in Seq(FileRec) /\ Len(Append(fs, e)) = Len(fs) + 1
           /\ Written(Append(fs, e)) = Written(fs)
           /\ InOrder(fs) => InOrder(Append(fs, e))
           /\ Patched(Append(fs, e), Len(Append(fs, e)))
<1>1. PICK gs : gs = Append(fs, e)
    OBVIOUS
<1>2. /\ gs \in Seq(FileRec) /\ Len(gs) = Len(fs) + 1 /\ Len(fs) \in Nat
      /\ \A i \in 1 .. Len(fs) : gs[i] = fs[i]
      /\ gs[Len(fs) + 1] = e
      /\ DOMAIN gs = 1 .. Len(fs) + 1 /\ DOMAIN fs = 1 .. Len(fs)
    BY <1>1, AppendProperties, LenProperties
<1>3. /\ ToSet(e.data) = {} /\ DOMAIN e.data = {}
    BY DEF ToSet
<1>4. \A f \in DOMAIN gs : f \in DOMAIN fs \/ f = Len(fs) + 1
    BY <1>2
<1>5. Written(gs) = Written(fs)
    <2>1. ASSUME NEW x \in Written(gs) PROVE x \in Written(fs)
        <3>1. PICK f \in DOMAIN gs : x \in ToSet(gs[f].data)
            BY <2>1 DEF Written
        <3>2. f \in DOMAIN fs /\ gs[f] = fs[f]
            BY <1>2, <1>3, <1>4, <3>1
        <3> QED BY <3>1, <3>2 DEF Written
    <2>2. ASSUME NEW x \in Written(fs) PROVE x \in Written(gs)
        <3>1. PICK f \in DOMAIN fs : x \in ToSet(fs[f].data)
            BY <2>2 DEF Written
        <3>2. f \in DOMAIN gs /\ gs[f] = fs[f]
            BY <1>2
        <3> QED BY <3>1, <3>2 DEF Written
    <2> QED BY <2>1, <2>2
<1>6. ASSUME InOrder(fs), NEW f \in DOMAIN gs, NEW g \in DOMAIN gs
      PROVE  \A i \in DOMAIN gs[f].data, j \in DOMAIN gs[g].data :
                f < g \/ (f = g /\ i < j) => gs[f].data[i] < gs[g].data[j]
    <2>1. CASE f \in DOMAIN fs /\ g \in DOMAIN fs
        BY <1>2, <1>6, <2>1 DEF InOrder
    <2>2. CASE f = Len(fs) + 1 \/ g = Len(fs) + 1
        BY <1>2, <1>3, <2>2
    <2> QED BY <1>4, <2>1, <2>2
<1>7. InOrder(fs) => InOrder(gs)
    BY <1>6 DEF InOrder
<1>8. Patched(gs, Len(gs))
    <2>1. ASSUME NEW f \in DOMAIN gs, f # Len(gs) PROVE gs[f].header = Len(gs[f].data)
        <3>1. f \in DOMAIN fs /\ gs[f] = fs[f] /\ f # NoFile
            BY <1>2, <1>4, <2>1 DEF NoFile
        <3> QED BY <3>1 DEF Patched
    <2> QED BY <2>1 DEF Patched
<1> QED BY <1>1, <1>2, <1>5, <1>7, <1>8

-----------------------------------------------------------------------------
(* The frames                                                              *)

\* A step that leaves the frames where they are.
LEMMA FramesStay ==
    ASSUME CallType, OrderInv, AcceptInv,
           Written(files') = Written(files), InOrder(files') <=> InOrder(files),
           decoder'.buffer = decoder.buffer,
           UNCHANGED <<frames, accepted, lost>>, InHand' <=> InHand,
           \/ decoder.buffer = <<>>
           \/ /\ decoder'.active /\ pc' \notin {"path", "list"} =>
                     decoder.active /\ pc \notin {"path", "list"}
              /\ pc' \in {"out", "write", "fwrite"} => pc \in {"out", "write", "fwrite"}
    PROVE  OrderInv' /\ AcceptInv'
<1>1. AcceptInv'
    BY DEF AcceptInv
<1>2. OrderInv'
    BY DEF OrderInv
<1> QED BY <1>1, <1>2

\* The steps of the worker that move no frame.
LEMMA WorkerMoves ==
    ASSUME CallType, OrderInv, AcceptInv, HeaderInv,
           Maintain \/ OnDecoded \/ SetActive \/ SetPath
    PROVE  CallType' /\ OrderInv' /\ AcceptInv' /\ HeaderInv'
<1>1. CASE Maintain
    <2>1. CASE decoder.active /\ ~decoder.record
        <3>1. Close /\ decoder' = [decoder EXCEPT !.active = FALSE]
            BY <1>1, <2>1 DEF Maintain
        <3>2. /\ writer' = NoFile /\ files' \in Seq(FileRec)
              /\ Written(files') = Written(files) /\ (InOrder(files') <=> InOrder(files))
              /\ Patched(files', NoFile)
            <4>1. PICK gs : gs = IF writer = NoFile THEN files ELSE Closed(files, writer)
                OBVIOUS
            <4>2. files' = gs /\ writer' = NoFile
                BY <3>1, <4>1 DEF Close
            <4> QED BY <4>1, <4>2, CloseKeeps
        <3>3. decoder' \in DecoderRec /\ decoder'.buffer = decoder.buffer /\ ~decoder'.active
            BY <3>1 DEF CallType, DecoderRec
        <3>4. OrderInv' /\ AcceptInv'
            BY <1>1, <3>2, <3>3, FramesStay DEF Maintain, InHand, history
        <3>5. HeaderInv'
            BY <3>2 DEF HeaderInv
        <3>6. CallType'
            BY <1>1, <3>2, <3>3 DEF Maintain, manager, CallType
        <3> QED BY <3>4, <3>5, <3>6
    <2>2. CASE ~(decoder.active /\ ~decoder.record)
        <3>1. UNCHANGED <<writer, files, decoder>>
            BY <1>1, <2>2 DEF Maintain
        <3>2. OrderInv' /\ AcceptInv'
            BY <1>1, <3>1, FramesStay DEF Maintain, InHand, history
        <3>3. HeaderInv' /\ CallType'
            BY <1>1, <3>1 DEF Maintain, manager, HeaderInv, CallType
        <3> QED BY <3>2, <3>3
    <2> QED BY <2>1, <2>2
<1>2. CASE OnDecoded
    <2>1. /\ decoder' \in DecoderRec /\ decoder'.buffer = decoder.buffer
          /\ decoder'.active = decoder.active
        BY <1>2 DEF OnDecoded, CallType, DecoderRec
    <2>2. OrderInv' /\ AcceptInv'
        BY <1>2, <2>1, FramesStay DEF OnDecoded, InHand, history
    <2>3. HeaderInv' /\ CallType'
        BY <1>2, <2>1 DEF OnDecoded, manager, HeaderInv, CallType
    <2> QED BY <2>2, <2>3
<1>3. CASE SetActive
    <2>1. decoder' \in DecoderRec /\ decoder'.buffer = decoder.buffer
        BY <1>3 DEF SetActive, CallType, DecoderRec
    <2>2. OrderInv' /\ AcceptInv'
        BY <1>3, <2>1, FramesStay DEF SetActive, InHand, history
    <2>3. HeaderInv' /\ CallType'
        BY <1>3, <2>1 DEF SetActive, manager, HeaderInv, CallType
    <2> QED BY <2>2, <2>3
<1>4. CASE SetPath
    <2>1. decoder' \in DecoderRec /\ decoder'.buffer = decoder.buffer
        <3>1. Len(files) \in Nat
            BY LenProperties DEF CallType
        <3> QED BY <1>4, <3>1 DEF SetPath, CallType, DecoderRec
    <2>2. OrderInv' /\ AcceptInv'
        BY <1>4, <2>1, FramesStay DEF SetPath, InHand, history
    <2>3. HeaderInv' /\ CallType'
        BY <1>4, <2>1 DEF SetPath, manager, HeaderInv, CallType
    <2> QED BY <2>2, <2>3
<1> QED BY <1>1, <1>2, <1>3, <1>4

\* A frame comes, is lost or waits.
LEMMA FrameComes ==
    ASSUME CallType, OrderInv, AcceptInv, HeaderInv, OnVoice
    PROVE  CallType' /\ OrderInv' /\ AcceptInv' /\ HeaderInv'
<1>1. /\ UNCHANGED <<decoder, writer, files, lost>> /\ ~InHand
      /\ frames' = frames + 1 /\ frames \in Nat
      /\ pc = "check" /\ pc' \in {"record", "idle"}
    BY DEF OnVoice, CallType, InHand
<1>2. CallType' /\ HeaderInv'
    BY <1>1 DEF OnVoice, manager, HeaderInv, CallType
<1>3. AcceptInv'
    BY <1>1 DEF OnVoice, AcceptInv, InHand
<1>4. Written(files) \cup ToSet(decoder.buffer) \subseteq Nat
    <2>1. \A f \in DOMAIN files : files[f].data \in Seq(Nat)
        <3>1. \A f \in DOMAIN files : files[f] \in FileRec
            BY ElementOfSeq, LenProperties DEF CallType
        <3> QED BY <3>1 DEF FileRec
    <2>2. \A q \in Seq(Nat) : ToSet(q) \subseteq Nat
        BY ElementOfSeq, LenProperties DEF ToSet
    <2> QED BY <2>1, <2>2 DEF Written, CallType, DecoderRec
<1>5. \A n \in Written(files) \cup ToSet(decoder.buffer) : n < frames'
    BY <1>1, <1>4 DEF OrderInv
<1>6. OrderInv'
    <2>1. \A n \in Written(files) \cup ToSet(decoder.buffer) : n <= frames' /\ n < frames'
        BY <1>1, <1>4, <1>5
    <2> QED BY <1>1, <2>1 DEF OrderInv
<1> QED BY <1>2, <1>3, <1>6

LEMMA FrameIsTaken ==
    ASSUME CallType, OrderInv, AcceptInv, HeaderInv, Record
    PROVE  CallType' /\ OrderInv' /\ AcceptInv' /\ HeaderInv'
<1>1. /\ pc = "record" /\ InHand /\ UNCHANGED <<manager, frames, accepted, lost>>
      /\ frames \in Nat /\ decoder.buffer \in Seq(Nat)
    BY DEF Record, InHand, history, CallType, DecoderRec
<1>2. CASE decoder.active /\ pc' = "write" /\ UNCHANGED <<decoder, writer, files, log>>
    <2>1. decoder.buffer = <<>>
        BY <1>1, <1>2 DEF OrderInv
    <2>2. OrderInv' /\ AcceptInv'
        BY <1>1, <1>2, <2>1, FramesStay DEF InHand
    <2>3. HeaderInv' /\ CallType'
        BY <1>1, <1>2 DEF manager, HeaderInv, CallType
    <2> QED BY <2>2, <2>3
<1>3. CASE ~decoder.active /\ Buffers /\ pc' = "idle" /\ UNCHANGED <<writer, files, log>>
    <2>1. PICK b \in Seq(Nat) : /\ b = Append(decoder.buffer, frames)
                                /\ decoder' = [decoder EXCEPT !.buffer = b]
                                /\ ToSet(b) = ToSet(decoder.buffer) \cup {frames}
        BY <1>1, <1>3, ToSetOfOneMore DEF Buffers
    <2>2. decoder' \in DecoderRec /\ decoder'.buffer = b /\ ~decoder'.active
        BY <1>3, <2>1 DEF CallType, DecoderRec
    <2>3. HeaderInv' /\ CallType'
        BY <1>1, <1>3, <2>2 DEF manager, HeaderInv, CallType
    <2>4. AcceptInv'
        BY <1>1, <1>3, <2>1, <2>2 DEF AcceptInv, InHand
    <2>5. /\ Len(b) = Len(decoder.buffer) + 1 /\ Len(decoder.buffer) \in Nat
          /\ DOMAIN b = 1 .. Len(decoder.buffer) + 1
          /\ DOMAIN decoder.buffer = 1 .. Len(decoder.buffer)
          /\ \A i \in 1 .. Len(decoder.buffer) : b[i] = decoder.buffer[i]
          /\ b[Len(decoder.buffer) + 1] = frames
        BY <1>1, <2>1, AppendProperties, LenProperties
    <2>6. \A k \in DOMAIN b : k \in DOMAIN decoder.buffer \/ k = Len(decoder.buffer) + 1
        BY <2>5
    <2>7. \A k \in DOMAIN decoder.buffer : decoder.buffer[k] \in ToSet(decoder.buffer)
        BY DEF ToSet
    <2>8. \A n \in Written(files), k \in DOMAIN b : n < b[k]
        BY <1>1, <2>5, <2>6 DEF OrderInv
    <2>9. ASSUME NEW j \in DOMAIN b, NEW k \in DOMAIN b, j < k PROVE b[j] < b[k]
        <3>1. j \in DOMAIN decoder.buffer
            BY <2>5, <2>6, <2>9
        <3>2. CASE k \in DOMAIN decoder.buffer
            BY <2>5, <2>9, <3>1, <3>2 DEF OrderInv
        <3>3. CASE k = Len(decoder.buffer) + 1
            BY <1>1, <2>5, <2>7, <3>1, <3>3 DEF OrderInv
        <3> QED BY <2>6, <3>2, <3>3
    <2>10. \A n \in Written(files) \cup ToSet(b) : n <= frames
        BY <1>1, <2>1 DEF OrderInv
    <2>11. InOrder(files)
        BY DEF OrderInv
    <2>12. OrderInv'
        BY <1>1, <1>3, <2>2, <2>8, <2>9, <2>10, <2>11 DEF OrderInv, InHand
    <2> QED BY <2>3, <2>4, <2>12
<1>4. ASSUME ~decoder.active, pc' = "open", writer' = Len(files'), UNCHANGED <<decoder, log>>,
             files' = Append(IF writer = NoFile THEN files ELSE Closed(files, writer),
                             [fmt |-> decoder.fmt, data |-> <<>>, header |-> 0,
                              removed |-> FALSE, call |-> calls])
      PROVE  CallType' /\ OrderInv' /\ AcceptInv' /\ HeaderInv'
    <2>1. PICK gs : gs = IF writer = NoFile THEN files ELSE Closed(files, writer)
        OBVIOUS
    <2>2. PICK e : e = [fmt |-> decoder.fmt, data |-> <<>>, header |-> 0,
                        removed |-> FALSE, call |-> calls]
        OBVIOUS
    <2>3. e \in FileRec /\ e.data = <<>> /\ e.header = 0
        BY <2>2 DEF FileRec, CallType, DecoderRec
    <2>4. files' = Append(gs, e)
        BY <1>4, <2>1, <2>2
    <2>5. /\ gs \in Seq(FileRec) /\ Len(gs) = Len(files)
          /\ Written(gs) = Written(files) /\ (InOrder(gs) <=> InOrder(files))
          /\ Patched(gs, NoFile)
        BY <2>1, CloseKeeps
    <2>6. /\ files' \in Seq(FileRec) /\ Written(files') = Written(files)
          /\ InOrder(files) => InOrder(files')
          /\ Patched(files', Len(files'))
        BY <2>3, <2>4, <2>5, OpenNewest
    <2>7. InOrder(files)
        BY DEF OrderInv
    <2>8. OrderInv' /\ AcceptInv'
        BY <1>1, <1>4, <2>6, <2>7, FramesStay DEF InHand
    <2>9. HeaderInv' /\ CallType'
        BY <1>1, <1>4, <2>6 DEF manager, HeaderInv, CallType
    <2> QED BY <2>8, <2>9
<1> QED BY <1>2, <1>3, <1>4 DEF Record

LEMMA BufferIsDropped ==
    ASSUME CallType, OrderInv, AcceptInv, HeaderInv, OpenFails
    PROVE  CallType' /\ OrderInv' /\ AcceptInv' /\ HeaderInv'
<1>1. /\ pc = "record" /\ InHand /\ pc' = "idle" /\ ~InHand'
      /\ UNCHANGED <<manager, writer, files, frames, accepted>>
      /\ frames \in Nat
    BY DEF OpenFails, InHand, CallType
<1>2. decoder' \in DecoderRec /\ decoder'.buffer = <<>>
    BY EmptySeq DEF OpenFails, CallType, DecoderRec
<1>3. ToSet(decoder'.buffer) = {} /\ DOMAIN decoder'.buffer = {}
    BY <1>2 DEF ToSet
<1>4. HeaderInv' /\ CallType'
    BY <1>1, <1>2 DEF manager, HeaderInv, CallType
<1>5. AcceptInv'
    BY <1>1, <1>3 DEF AcceptInv, OpenFails
<1>6. OrderInv'
    BY <1>1, <1>2, <1>3 DEF OrderInv
<1> QED BY <1>4, <1>5, <1>6

\* What is written to the open file is newer than what the files hold.
LEMMA BufferIsWritten ==
    ASSUME CallType, OrderInv, AcceptInv, HeaderInv, ListCall
    PROVE  CallType' /\ OrderInv' /\ AcceptInv' /\ HeaderInv'
<1>1. /\ pc = "list" /\ InHand /\ pc' = "write" /\ InHand'
      /\ UNCHANGED <<manager, writer, frames, accepted>>
      /\ frames \in Nat /\ decoder.buffer \in Seq(Nat)
    BY DEF ListCall, InHand, CallType, DecoderRec
<1>2. decoder' \in DecoderRec /\ decoder'.buffer = <<>>
    BY EmptySeq DEF ListCall, CallType, DecoderRec
<1>3. ToSet(decoder'.buffer) = {} /\ DOMAIN decoder'.buffer = {}
    BY <1>2 DEF ToSet
<1>4. CASE writer = NoFile
    <2>1. UNCHANGED files /\ lost' = lost \cup ToSet(decoder.buffer)
        BY <1>4 DEF ListCall
    <2>2. HeaderInv' /\ CallType'
        BY <1>1, <1>2, <2>1 DEF manager, HeaderInv, CallType
    <2>3. AcceptInv'
        BY <1>1, <1>3, <2>1 DEF AcceptInv
    <2>4. OrderInv'
        BY <1>1, <1>2, <1>3, <2>1 DEF OrderInv
    <2> QED BY <2>2, <2>3, <2>4
<1>5. CASE writer # NoFile
    <2>1. /\ writer = Len(files) /\ files \in Seq(FileRec) /\ files # <<>>
        BY <1>5, EmptySeq DEF CallType, NoFile
    <2>2. UNCHANGED lost /\ files' = [files EXCEPT ![Len(files)].data = @ \o decoder.buffer]
        BY <1>5, <2>1 DEF ListCall
    <2>3. /\ InOrder(files)
          /\ \A j, k \in DOMAIN decoder.buffer : j < k => decoder.buffer[j] < decoder.buffer[k]
          /\ \A n \in Written(files), k \in DOMAIN decoder.buffer : n < decoder.buffer[k]
        BY DEF OrderInv
    <2>4. /\ files' \in Seq(FileRec) /\ Len(files') = Len(files)
          /\ Written(files') = Written(files) \cup ToSet(decoder.buffer)
          /\ InOrder(files')
          /\ Patched(files, Len(files)) => Patched(files', Len(files'))
        <3>1. PICK fs, more, gs :
                 /\ fs \in Seq(FileRec) /\ more \in Seq(Nat)
                 /\ fs = files /\ more = decoder.buffer /\ gs = files'
            BY <1>1, <2>1
        <3>2. fs # <<>> /\ Extends(gs, fs, more)
            BY <2>1, <2>2, <3>1 DEF Extends
        <3>3. InOrder(fs) /\ Newer(more, fs)
            BY <2>3, <3>1 DEF Newer
        <3>4. /\ gs \in Seq(FileRec) /\ Len(gs) = Len(fs)
              /\ Written(gs) = Written(fs) \cup ToSet(more)
              /\ InOrder(gs)
              /\ Patched(fs, Len(fs)) => Patched(gs, Len(gs))
            BY <3>1, <3>2, <3>3, ExtendNewest
        <3> QED BY <3>1, <3>4
    <2>5. HeaderInv' /\ CallType'
        BY <1>1, <1>2, <2>1, <2>4 DEF manager, HeaderInv, CallType
    <2>6. AcceptInv'
        BY <1>1, <1>3, <2>2, <2>4 DEF AcceptInv
    <2>7. OrderInv'
        BY <1>1, <1>2, <1>3, <2>4 DEF OrderInv
    <2> QED BY <2>5, <2>6, <2>7
<1> QED BY <1>4, <1>5

LEMMA FrameIsTested ==
    ASSUME CallType, OrderInv, AcceptInv, HeaderInv, WriteTest
    PROVE  CallType' /\ OrderInv' /\ AcceptInv' /\ HeaderInv'
<1>1. /\ pc = "write" /\ InHand /\ decoder.buffer = <<>> /\ pc' \in {"idle", "fwrite"}
      /\ UNCHANGED <<manager, decoder, writer, frames, files, accepted>>
    BY DEF WriteTest, InHand, OrderInv
<1>2. HeaderInv' /\ CallType'
    BY <1>1 DEF manager, HeaderInv, CallType
<1>3. AcceptInv'
    BY <1>1 DEF WriteTest, AcceptInv, InHand
<1>4. OrderInv'
    BY <1>1 DEF OrderInv, InHand
<1> QED BY <1>2, <1>3, <1>4

LEMMA FrameIsWritten ==
    ASSUME CallType, OrderInv, AcceptInv, HeaderInv, Fwrite
    PROVE  CallType' /\ OrderInv' /\ AcceptInv' /\ HeaderInv'
<1>1. /\ pc = "fwrite" /\ InHand /\ decoder.buffer = <<>> /\ pc' = "idle" /\ ~InHand'
      /\ UNCHANGED <<manager, decoder, writer, frames, accepted>> /\ frames \in Nat
    BY DEF Fwrite, InHand, OrderInv, CallType
<1>2. ToSet(decoder.buffer) = {} /\ DOMAIN decoder.buffer = {}
    BY <1>1 DEF ToSet
<1>3. CASE writer = NoFile
    <2>1. UNCHANGED files /\ lost' = lost \cup {frames}
        BY <1>3 DEF Fwrite
    <2>2. HeaderInv' /\ CallType'
        BY <1>1, <2>1 DEF manager, HeaderInv, CallType
    <2>3. AcceptInv'
        BY <1>1, <2>1 DEF AcceptInv
    <2>4. OrderInv'
        BY <1>1, <2>1 DEF OrderInv
    <2> QED BY <2>2, <2>3, <2>4
<1>4. CASE writer # NoFile
    <2>1. /\ writer = Len(files) /\ files \in Seq(FileRec) /\ files # <<>>
          /\ writer \in DOMAIN files /\ files[writer].data \in Seq(Nat)
        <3>1. Len(files) \in Nat /\ writer = Len(files) /\ DOMAIN files = 1 .. Len(files)
            BY <1>4, LenProperties DEF CallType
        <3>2. writer \in DOMAIN files
            BY <1>4, <3>1 DEF NoFile
        <3>3. files[writer] \in FileRec
            BY <3>1, <3>2, ElementOfSeq DEF CallType
        <3> QED BY <1>4, <3>1, <3>2, <3>3, EmptySeq DEF CallType, FileRec, NoFile
    <2>2. PICK more \in Seq(Nat) : more = <<frames>>
        <3>1. <<frames>> \in Seq(Nat)
            BY <1>1
        <3> QED BY <3>1
    <2>3. /\ ToSet(more) = {frames} /\ DOMAIN more = {1} /\ more[1] = frames
        <3>1. ToSet(<<frames>>) = {frames}
            BY <1>1, EmptySeq, ToSetOfOneMore
        <3>2. DOMAIN more = 1 .. 1 /\ more[1] = frames
            BY <2>2
        <3> QED BY <2>2, <3>1, <3>2
    <2>4. Append(files[writer].data, frames) = files[writer].data \o more
        BY <1>1, <2>1, <2>2, AppendIsConcat
    <2>5. /\ UNCHANGED lost
          /\ files' = [files EXCEPT ![Len(files)].data = @ \o more]
        BY <1>4, <2>1, <2>4 DEF Fwrite
    <2>6. /\ InOrder(files)
          /\ \A j, k \in DOMAIN more : j < k => more[j] < more[k]
          /\ \A n \in Written(files), k \in DOMAIN more : n < more[k]
        BY <1>1, <2>3 DEF OrderInv
    <2>7. /\ files' \in Seq(FileRec) /\ Len(files') = Len(files)
          /\ Written(files') = Written(files) \cup {frames}
          /\ InOrder(files')
          /\ Patched(files, Len(files)) => Patched(files', Len(files'))
        <3>1. PICK fs, gs : fs \in Seq(FileRec) /\ fs = files /\ gs = files'
            BY <2>1
        <3>2. fs # <<>> /\ Extends(gs, fs, more)
            BY <2>1, <2>5, <3>1 DEF Extends
        <3>3. InOrder(fs) /\ Newer(more, fs)
            BY <2>6, <3>1 DEF Newer
        <3>4. /\ gs \in Seq(FileRec) /\ Len(gs) = Len(fs)
              /\ Written(gs) = Written(fs) \cup ToSet(more)
              /\ InOrder(gs)
              /\ Patched(fs, Len(fs)) => Patched(gs, Len(gs))
            BY <3>1, <3>2, <3>3, ExtendNewest
        <3> QED BY <2>3, <3>1, <3>4
    <2>8. HeaderInv' /\ CallType'
        BY <1>1, <2>1, <2>7 DEF manager, HeaderInv, CallType
    <2>9. AcceptInv'
        BY <1>1, <2>5, <2>7 DEF AcceptInv
    <2>10. OrderInv'
        BY <1>1, <1>2, <2>7 DEF OrderInv
    <2> QED BY <2>8, <2>9, <2>10
<1> QED BY <1>3, <1>4

LEMMA WorkerLeaves ==
    ASSUME CallType, OrderInv, AcceptInv, HeaderInv, Release
    PROVE  CallType' /\ OrderInv' /\ AcceptInv' /\ HeaderInv'
<1>1. /\ pc \in {"idle", "check"} /\ ~InHand /\ pc' = "out" /\ ~InHand'
      /\ UNCHANGED <<manager, frames, accepted>> /\ lost' = lost \cup ToSet(decoder.buffer)
      /\ decoder' = NoDecoder
    BY DEF Release, InHand
<1>2. PICK gs : gs = IF writer = NoFile THEN files ELSE Closed(files, writer)
    OBVIOUS
<1>3. files' = gs /\ writer' = NoFile
    BY <1>2 DEF Release, Close
<1>4. /\ files' \in Seq(FileRec)
      /\ Written(files') = Written(files) /\ (InOrder(files') <=> InOrder(files))
      /\ Patched(files', NoFile)
    BY <1>2, <1>3, CloseKeeps
<1>5. NoDecoder \in DecoderRec /\ NoDecoder.buffer = <<>>
    BY EmptySeq DEF NoDecoder, DecoderRec, NoFile, Formats
<1>6. ToSet(decoder'.buffer) = {} /\ DOMAIN decoder'.buffer = {}
    BY <1>1, <1>5 DEF ToSet
<1>7. HeaderInv' /\ CallType'
    BY <1>1, <1>3, <1>4, <1>5 DEF manager, HeaderInv, CallType
<1>8. AcceptInv'
    BY <1>1, <1>4, <1>6 DEF AcceptInv
<1>9. OrderInv'
    BY <1>1, <1>4, <1>5, <1>6 DEF OrderInv
<1> QED BY <1>7, <1>8, <1>9

\* The window changes the decoder between the steps of the worker.
LEMMA RecordingIsSet ==
    ASSUME CallType, OrderInv, AcceptInv, HeaderInv,
           NEW on \in BOOLEAN, NEW fmt \in Formats, SetRecording(on, fmt),
           UNCHANGED <<calls, pc, frames, accepted, lost>>
    PROVE  /\ decoder' \in DecoderRec /\ files' \in Seq(FileRec) /\ writer' \in {NoFile, Len(files')}
           /\ OrderInv' /\ AcceptInv' /\ HeaderInv'
<1>1. decoder \in DecoderRec /\ (decoder.active /\ ~(decoder.record /\ fmt # decoder.fmt)) \in BOOLEAN
    BY DEF CallType
<1>2. PICK a \in BOOLEAN : /\ a = (decoder.active /\ ~(decoder.record /\ fmt # decoder.fmt))
                           /\ decoder' = [decoder EXCEPT !.record = on, !.fmt = fmt, !.active = a]
    BY <1>1 DEF SetRecording
<1>3. /\ decoder' \in DecoderRec /\ decoder'.buffer = decoder.buffer
      /\ decoder'.active => decoder.active
    BY <1>1, <1>2 DEF DecoderRec
<1>4. /\ files' \in Seq(FileRec) /\ writer' \in {NoFile, Len(files')}
      /\ Written(files') = Written(files) /\ (InOrder(files') <=> InOrder(files))
      /\ Patched(files', writer')
    <2>1. CASE decoder.record /\ fmt # decoder.fmt
        <3>1. PICK gs : gs = IF writer = NoFile THEN files ELSE Closed(files, writer)
            OBVIOUS
        <3>2. files' = gs /\ writer' = NoFile
            BY <2>1, <3>1 DEF SetRecording, Close
        <3> QED BY <3>1, <3>2, CloseKeeps
    <2>2. CASE ~(decoder.record /\ fmt # decoder.fmt)
        BY <2>2 DEF SetRecording, CallType, HeaderInv
    <2> QED BY <2>1, <2>2
<1>5. HeaderInv'
    BY <1>4 DEF HeaderInv
<1>6. OrderInv' /\ AcceptInv'
    BY <1>3, <1>4, FramesStay DEF InHand
<1> QED BY <1>3, <1>4, <1>5, <1>6

LEMMA WindowKeepsFrames ==
    ASSUME CallType, OrderInv, AcceptInv, HeaderInv,
           \/ AddDecoder \/ ToggleRecord \/ \E fmt \in Formats : ChooseFormat(fmt)
           \/ RemoveDecoder \/ RemoveAll \/ ClearLog \/ Rescan
    PROVE  CallType' /\ OrderInv' /\ AcceptInv' /\ HeaderInv'
<1>1. CASE AddDecoder
    <2>1. /\ NoDecoder \in DecoderRec /\ NoDecoder.buffer = <<>>
          /\ decoder' = [NoDecoder EXCEPT !.record = recordOn, !.fmt = format]
        BY <1>1, EmptySeq DEF AddDecoder, NoDecoder, DecoderRec, NoFile, Formats
    <2>2. decoder' \in DecoderRec /\ decoder'.buffer = <<>>
        BY <2>1 DEF DecoderRec, CallType
    <2>3. decoder.buffer = <<>>
        BY <1>1 DEF AddDecoder, OrderInv
    <2>4. OrderInv' /\ AcceptInv'
        BY <1>1, <2>2, <2>3, FramesStay DEF AddDecoder, InHand, history
    <2>5. HeaderInv' /\ CallType'
        BY <1>1, <2>2 DEF AddDecoder, HeaderInv, CallType
    <2> QED BY <2>4, <2>5
<1>2. CASE ToggleRecord
    <2>1. CASE listed
        <3>1. /\ decoder' \in DecoderRec /\ files' \in Seq(FileRec)
              /\ writer' \in {NoFile, Len(files')} /\ OrderInv' /\ AcceptInv' /\ HeaderInv'
            BY <1>2, <2>1, RecordingIsSet DEF ToggleRecord, CallType, history
        <3>2. CallType'
            BY <1>2, <3>1 DEF ToggleRecord, CallType
        <3> QED BY <3>1, <3>2
    <2>2. CASE ~listed
        <3>1. UNCHANGED <<decoder, writer, files>>
            BY <1>2, <2>2 DEF ToggleRecord
        <3>2. OrderInv' /\ AcceptInv'
            BY <1>2, <3>1, FramesStay DEF ToggleRecord, InHand, history
        <3>3. HeaderInv' /\ CallType'
            BY <1>2, <3>1 DEF ToggleRecord, HeaderInv, CallType
        <3> QED BY <3>2, <3>3
    <2> QED BY <2>1, <2>2
<1>3. ASSUME NEW fmt \in Formats, ChooseFormat(fmt)
      PROVE  CallType' /\ OrderInv' /\ AcceptInv' /\ HeaderInv'
    <2>1. CASE listed
        <3>1. /\ decoder' \in DecoderRec /\ files' \in Seq(FileRec)
              /\ writer' \in {NoFile, Len(files')} /\ OrderInv' /\ AcceptInv' /\ HeaderInv'
            BY <1>3, <2>1, RecordingIsSet DEF ChooseFormat, CallType, history
        <3>2. CallType'
            BY <1>3, <3>1 DEF ChooseFormat, CallType
        <3> QED BY <3>1, <3>2
    <2>2. CASE ~listed
        <3>1. UNCHANGED <<decoder, writer, files>>
            BY <1>3, <2>2 DEF ChooseFormat
        <3>2. OrderInv' /\ AcceptInv'
            BY <1>3, <3>1, FramesStay DEF ChooseFormat, InHand, history
        <3>3. HeaderInv' /\ CallType'
            BY <1>3, <3>1 DEF ChooseFormat, HeaderInv, CallType
        <3> QED BY <3>2, <3>3
    <2> QED BY <2>1, <2>2
<1>4. CASE RemoveDecoder \/ RemoveAll \/ ClearLog \/ Rescan
    <2>1. /\ UNCHANGED <<recordOn, format, calls, decoder, writer, pc, frames, files, accepted, lost>>
          /\ listed' \in BOOLEAN
        BY <1>4 DEF RemoveDecoder, RemoveAll, ClearLog, Rescan, manager, history, CallType
    <2>2. OrderInv' /\ AcceptInv'
        BY <2>1, FramesStay DEF InHand
    <2>3. HeaderInv' /\ CallType'
        BY <2>1 DEF HeaderInv, CallType
    <2> QED BY <2>2, <2>3
<1> QED BY <1>1, <1>2, <1>3, <1>4

-----------------------------------------------------------------------------
(* The entries of the log                                                  *)

\* A step that leaves the log, the call and the decoder's file alone, or names the file
\* the next entry is made for.
LEMMA LogStays ==
    ASSUME LogInv, UNCHANGED <<log, calls>>, listed' => listed,
           listed' /\ pc' # "list" => pc # "list" /\ decoder'.path = decoder.path,
           listed' => decoder'.fmt = format'
    PROVE  LogInv'
<1>1. EndedEntry' = EndedEntry
    BY DEF EndedEntry
<1>2. EndedEntryHasItsFile'
    BY DEF LogInv, EndedEntryHasItsFile
<1> QED BY <1>1, <1>2 DEF LogInv

OneMore(l, old, e) ==
    /\ l \in Seq(EntryRec)
    /\ \A i \in DOMAIN l : i # Len(l) => \E j \in DOMAIN old : l[i] = old[j]
    /\ Len(l) \in DOMAIN l => l[Len(l)] = e
    /\ l # <<>> => Len(l) \in DOMAIN l /\ \A i \in DOMAIN l : i <= Len(l)

\* The log after an entry was added: of the entries it had (the oldest of a full log is
\* dropped), and the new one last.
LEMMA AddedLast ==
    ASSUME NEW old \in Seq(EntryRec), NEW e \in EntryRec, NEW l, l = Added(old, e)
    PROVE  OneMore(l, old, e)
<1>1. PICK all : all = Append(old, e)
    OBVIOUS
<1>2. /\ all \in Seq(EntryRec) /\ all # <<>> /\ Len(old) \in Nat
      /\ Len(all) = Len(old) + 1 /\ \A i \in 1 .. Len(old) : all[i] = old[i]
      /\ all[Len(old) + 1] = e /\ DOMAIN old = 1 .. Len(old)
    BY <1>1, AppendProperties, LenProperties
<1>3. PICK d \in {0, 1} : /\ l \in Seq(EntryRec) /\ Len(l) = Len(old) + 1 - d
                          /\ \A i \in 1 .. Len(l) : l[i] = all[i + d]
    <2>1. CASE l = all
        BY <1>2, <2>1
    <2>2. CASE l = Tail(all)
        BY <1>2, <2>2, HeadTailProperties
    <2> QED BY <1>1, <2>1, <2>2 DEF Added
<1>4. DOMAIN l = 1 .. Len(l) /\ Len(l) \in Nat
    BY <1>3, LenProperties
<1>5. ASSUME NEW i \in DOMAIN l, i # Len(l) PROVE \E j \in DOMAIN old : l[i] = old[j]
    <2>1. i + d \in 1 .. Len(old)
        BY <1>2, <1>3, <1>4, <1>5
    <2> QED BY <1>2, <1>3, <1>4, <2>1
<1>6. ASSUME Len(l) \in DOMAIN l PROVE l[Len(l)] = e
    <2>1. Len(l) + d = Len(old) + 1
        BY <1>2, <1>3
    <2> QED BY <1>2, <1>3, <1>4, <1>6, <2>1
<1>7. ASSUME l # <<>> PROVE Len(l) \in DOMAIN l /\ \A i \in DOMAIN l : i <= Len(l)
    BY <1>3, <1>4, <1>7, EmptySeq
<1> QED BY <1>3, <1>5, <1>6, <1>7 DEF OneMore

LEMMA CallIsListed ==
    ASSUME CallType, LogInv, ListCall
    PROVE  LogInv'
<1>1. /\ calls \in Nat /\ decoder.path \in Nat /\ decoder'.path = decoder.path
      /\ decoder'.fmt = decoder.fmt /\ UNCHANGED <<calls, listed, format>>
    BY DEF ListCall, manager, CallType, DecoderRec
<1>2. PICK e : e = Entry(decoder.path, TRUE, TRUE, calls)
    OBVIOUS
<1>3. /\ e \in EntryRec /\ e.recording /\ e.call = calls
      /\ e.file = decoder.path /\ e.opened = decoder.path
    BY <1>1, <1>2 DEF Entry, EntryRec
<1>4. log' = Added(log, e) /\ log \in Seq(EntryRec)
    BY <1>2 DEF ListCall, LogInv
<1>5. /\ log' \in Seq(EntryRec)
      /\ \A i \in DOMAIN log' : i # Len(log') => \E j \in DOMAIN log : log'[i] = log[j]
      /\ Len(log') \in DOMAIN log' => log'[Len(log')] = e
      /\ log' # <<>> => Len(log') \in DOMAIN log' /\ \A i \in DOMAIN log' : i <= Len(log')
    <2>1. PICK l : l = log'
        OBVIOUS
    <2>2. l = Added(log, e)
        BY <1>4, <2>1
    <2>3. OneMore(l, log, e)
        BY <1>3, <1>4, <2>2, AddedLast
    <2> QED BY <2>1, <2>3 DEF OneMore
<1>6. ASSUME NEW i \in DOMAIN log'
      PROVE  /\ log'[i].recording => log'[i].call <= calls
             /\ log'[i].file = log'[i].opened \/ log'[i].raced
    <2>1. CASE i = Len(log')
        BY <1>1, <1>3, <1>5, <2>1
    <2>2. CASE i # Len(log')
        <3>1. PICK j \in DOMAIN log : log'[i] = log[j]
            BY <1>5, <2>2
        <3> QED BY <3>1 DEF LogInv, EndedEntryHasItsFile
    <2> QED BY <2>1, <2>2
<1>7. ASSUME NEW i \in EndedEntry' PROVE log'[i].opened = decoder'.path
    <2>1. /\ i \in DOMAIN log'
          /\ \A j \in DOMAIN log' : log'[j].call = calls /\ log'[j].recording => j <= i
        BY <1>1, <1>7 DEF EndedEntry
    <2>2. log' # <<>>
        BY <2>1
    <2>3. i = Len(log')
        <3>1. Len(log') <= i /\ i <= Len(log')
            BY <1>3, <1>5, <2>1, <2>2
        <3>2. i \in Nat /\ Len(log') \in Nat
            BY <1>5, <2>1, LenProperties
        <3> QED BY <3>1, <3>2
    <2> QED BY <1>1, <1>3, <1>5, <2>1, <2>3
<1> QED BY <1>1, <1>5, <1>6, <1>7 DEF LogInv, EndedEntryHasItsFile

LEMMA CallIsEnded ==
    ASSUME CallType, LogInv, RemoveDecoder
    PROVE  LogInv'
<1>1. /\ listed /\ ~listed' /\ UNCHANGED <<calls, decoder, pc>> /\ decoder.path \in Nat
      /\ log \in Seq(EntryRec)
      /\ DOMAIN log = 1 .. Len(log) /\ Len(log) \in Nat
    BY LenProperties DEF RemoveDecoder, CallType, DecoderRec, LogInv
<1>2. PICK r \in BOOLEAN : r = (pc = "list")
    OBVIOUS
<1>3. log' = [i \in DOMAIN log |->
                IF i \in EndedEntry /\ decoder.active
                THEN [log[i] EXCEPT !.recording = FALSE, !.path = FALSE, !.file = decoder.path,
                                    !.raced = r]
                ELSE log[i]]
    BY <1>2 DEF RemoveDecoder, UpdateEnd
<1>4. DOMAIN log' = DOMAIN log
    BY <1>3
<1>5. ASSUME NEW i \in DOMAIN log
      PROVE  /\ log'[i] \in EntryRec
             /\ log'[i].recording => log[i].recording
             /\ log'[i].call = log[i].call /\ log'[i].opened = log[i].opened
             /\ \/ log'[i] = log[i]
                \/ log'[i].file = decoder.path /\ log'[i].raced = r /\ i \in EndedEntry
    <2>1. log[i] \in EntryRec
        BY <1>1, ElementOfSeq
    <2>2. CASE i \in EndedEntry /\ decoder.active
        <3>1. log'[i] = [log[i] EXCEPT !.recording = FALSE, !.path = FALSE,
                                      !.file = decoder.path, !.raced = r]
            BY <1>3, <2>2
        <3> QED BY <1>1, <2>1, <2>2, <3>1, ZenonT(30) DEF EntryRec
    <2>3. CASE ~(i \in EndedEntry /\ decoder.active)
        <3>1. log'[i] = log[i]
            BY <1>3, <2>3
        <3> QED BY <2>1, <3>1
    <2> QED BY <2>2, <2>3
<1>6. log' \in Seq(EntryRec)
    <2>1. log' \in [1 .. Len(log) -> EntryRec]
        BY <1>1, <1>3, <1>5
    <2> QED BY <1>1, <2>1, SeqDef
<1>7. ASSUME NEW i \in DOMAIN log' PROVE log'[i].file = log'[i].opened \/ log'[i].raced
    <2>1. CASE log'[i] = log[i]
        BY <1>4, <2>1 DEF LogInv, EndedEntryHasItsFile
    <2>2. CASE log'[i].file = decoder.path /\ log'[i].raced = r /\ i \in EndedEntry
        <3>1. CASE pc = "list"
            BY <1>2, <2>2, <3>1
        <3>2. CASE pc # "list"
            <4>1. log[i].opened = decoder.path
                BY <1>1, <2>2, <3>2 DEF LogInv
            <4> QED BY <1>4, <1>5, <2>2, <4>1
        <3> QED BY <3>1, <3>2
    <2> QED BY <1>4, <1>5, <2>1, <2>2
<1>8. \A i \in DOMAIN log' : log'[i].recording => log'[i].call <= calls'
    BY <1>1, <1>4, <1>5 DEF LogInv
<1> QED BY <1>1, <1>6, <1>7, <1>8 DEF LogInv, EndedEntryHasItsFile

LEMMA FilesAreFound ==
    ASSUME CallType, LogInv, Rescan
    PROVE  LogInv'
<1>1. /\ UNCHANGED <<calls, listed, decoder, pc, format>> /\ log \in Seq(EntryRec)
      /\ files \in Seq(FileRec) /\ DOMAIN files = 1 .. Len(files) /\ Len(files) \in Nat
      /\ calls \in Nat
    BY LenProperties DEF Rescan, manager, LogInv, CallType
<1>2. Unlisted \subseteq 1 .. Len(files) /\ Cardinality(Unlisted) \in Nat
    <2>1. Unlisted \subseteq 1 .. Len(files)
        BY <1>1 DEF Unlisted
    <2>2. IsFiniteSet(1 .. Len(files))
        BY <1>1, FS_Interval
    <2> QED BY <2>1, <2>2, FS_Subset, FS_CardinalityType
<1>3. PICK found \in SetToSeqs(Unlisted) :
         log' = log \o [i \in 1 .. Len(found) |->
                          Entry(found[i], FALSE, FALSE, files[found[i]].call)]
    BY DEF Rescan
<1>4. found \in [1 .. Cardinality(Unlisted) -> Unlisted]
    BY <1>3, Zenon DEF SetToSeqs
<1>5. /\ found \in Seq(Unlisted) /\ Len(found) \in Nat
      /\ \A i \in 1 .. Len(found) : found[i] \in 1 .. Len(files)
    <2>1. found \in Seq(Unlisted)
        BY <1>2, <1>4, SeqDef
    <2> QED BY <1>2, <2>1, LenProperties, ElementOfSeq
<1>6. PICK more : more = [i \in 1 .. Len(found) |->
                            Entry(found[i], FALSE, FALSE, files[found[i]].call)]
    OBVIOUS
<1>7. \A i \in 1 .. Len(found) : /\ more[i] \in EntryRec /\ ~more[i].recording
                                 /\ more[i].file = more[i].opened
    <2> SUFFICES ASSUME NEW i \in 1 .. Len(found)
                 PROVE  /\ more[i] \in EntryRec /\ ~more[i].recording
                        /\ more[i].file = more[i].opened
        OBVIOUS
    <2>1. found[i] \in Nat /\ files[found[i]] \in FileRec
        BY <1>1, <1>5, ElementOfSeq
    <2>2. files[found[i]].call \in Nat
        BY <2>1 DEF FileRec
    <2>3. more[i] = Entry(found[i], FALSE, FALSE, files[found[i]].call)
        BY <1>6
    <2> QED BY <2>1, <2>2, <2>3 DEF Entry, EntryRec
<1>8. more \in Seq(EntryRec) /\ Len(more) = Len(found) /\ log' = log \o more
    <2>1. more \in [1 .. Len(found) -> EntryRec]
        BY <1>6, <1>7
    <2>2. more \in Seq(EntryRec)
        BY <1>5, <2>1, SeqDef
    <2>3. DOMAIN more = 1 .. Len(more) /\ Len(more) \in Nat
        BY <2>2, LenProperties
    <2>4. PICK n \in Nat, m \in Nat : n = Len(found) /\ m = Len(more)
        BY <1>5, <2>3
    <2>5. 1 .. m = 1 .. n
        BY <2>1, <2>3, <2>4
    <2>6. n = m
        BY <2>5
    <2>7. log' = log \o more
        BY <1>3, <1>6
    <2> QED BY <2>2, <2>4, <2>6, <2>7
<1>9. /\ log' \in Seq(EntryRec) /\ Len(log) \in Nat /\ Len(more) \in Nat
      /\ DOMAIN log = 1 .. Len(log) /\ DOMAIN log' = 1 .. Len(log) + Len(more)
      /\ \A i \in 1 .. Len(log) + Len(more) :
            log'[i] = IF i <= Len(log) THEN log[i] ELSE more[i - Len(log)]
    <2>1. PICK l : l = log \o more
        OBVIOUS
    <2>2. /\ l \in Seq(EntryRec) /\ Len(l) = Len(log) + Len(more)
          /\ \A i \in 1 .. Len(log) + Len(more) :
                l[i] = IF i <= Len(log) THEN log[i] ELSE more[i - Len(log)]
        BY <1>1, <1>8, <2>1, ConcatProperties, ZenonT(30)
    <2>3. DOMAIN l = 1 .. Len(l)
        BY <2>2, LenProperties
    <2>4. log' = l
        BY <1>8, <2>1
    <2> QED BY <1>1, <1>8, <2>2, <2>3, <2>4, LenProperties
<1>10. ASSUME NEW i \in DOMAIN log'
       PROVE  \/ i \in DOMAIN log /\ log'[i] = log[i]
              \/ ~log'[i].recording /\ log'[i].file = log'[i].opened
    <2>1. CASE i <= Len(log)
        BY <1>9, <1>10, <2>1
    <2>2. CASE ~ (i <= Len(log))
        <3>1. PICK n \in Nat, m \in Nat : n = Len(log) /\ m = Len(more)
            BY <1>9
        <3>2. i \in 1 .. n + m /\ ~ (i <= n)
            BY <1>9, <1>10, <2>2, <3>1
        <3>3. i - n \in 1 .. m
            BY <3>2
        <3>4. log'[i] = more[i - n]
            BY <1>9, <1>10, <2>2, <3>1
        <3> QED BY <1>7, <1>8, <3>1, <3>3, <3>4
    <2> QED BY <2>1, <2>2
<1>11. \A j \in DOMAIN log : j \in DOMAIN log' /\ log'[j] = log[j]
    BY <1>9
<1>12. EndedEntry' \subseteq EndedEntry
    <2> SUFFICES ASSUME NEW i \in EndedEntry' PROVE i \in EndedEntry
        OBVIOUS
    <2>1. /\ i \in DOMAIN log' /\ log'[i].recording /\ log'[i].call = calls
          /\ \A j \in DOMAIN log' : log'[j].call = calls /\ log'[j].recording => j <= i
        BY <1>1 DEF EndedEntry
    <2>2. i \in DOMAIN log /\ log'[i] = log[i]
        BY <1>10, <2>1
    <2> QED BY <1>11, <2>1, <2>2 DEF EndedEntry
<1>13. listed /\ pc # "list" => \A i \in EndedEntry' : log'[i].opened = decoder.path
    <2>1. \A i \in EndedEntry : i \in DOMAIN log
        BY DEF EndedEntry
    <2> QED BY <1>11, <1>12, <2>1 DEF LogInv
<1>14. \A i \in DOMAIN log' : /\ log'[i].recording => log'[i].call <= calls
                              /\ log'[i].file = log'[i].opened \/ log'[i].raced
    BY <1>10 DEF LogInv, EndedEntryHasItsFile
<1> QED BY <1>1, <1>9, <1>13, <1>14 DEF LogInv, EndedEntryHasItsFile

LEMMA LogStep ==
    ASSUME CallType, LogInv, [Next]_vars
    PROVE  LogInv'
<1>1. CASE Maintain
    BY <1>1, LogStays DEF Maintain, manager, CallType, DecoderRec, LogInv
<1>2. CASE OnVoice
    BY <1>2, LogStays DEF OnVoice, manager, LogInv
<1>3. CASE OnDecoded
    BY <1>3, LogStays DEF OnDecoded, manager, CallType, DecoderRec, LogInv
<1>4. CASE Record
    <2>1. /\ UNCHANGED <<manager, log>> /\ pc # "list"
          /\ decoder'.path = decoder.path /\ decoder'.fmt = decoder.fmt
        BY <1>4 DEF Record, Buffers, CallType, DecoderRec
    <2> QED BY <2>1, LogStays DEF manager, LogInv
<1>5. CASE OpenFails
    BY <1>5, LogStays DEF OpenFails, manager, CallType, DecoderRec, LogInv
<1>6. CASE SetActive
    BY <1>6, LogStays DEF SetActive, manager, CallType, DecoderRec, LogInv
<1>7. CASE SetPath
    BY <1>7, LogStays DEF SetPath, manager, CallType, DecoderRec, LogInv
<1>8. CASE ListCall
    BY <1>8, CallIsListed
<1>9. CASE WriteTest
    BY <1>9, LogStays DEF WriteTest, manager, LogInv
<1>10. CASE Fwrite
    BY <1>10, LogStays DEF Fwrite, manager, LogInv
<1>11. CASE Release
    BY <1>11, LogStays DEF Release, manager, LogInv
<1>12. CASE AddDecoder
    <2>1. /\ UNCHANGED <<log, format>> /\ calls' = calls + 1 /\ calls \in Nat
          /\ log \in Seq(EntryRec) /\ decoder'.fmt = format
        BY <1>12 DEF AddDecoder, NoDecoder, CallType, LogInv
    <2>2. \A i \in DOMAIN log : log[i].recording => log[i].call <= calls /\ log[i].call \in Nat
        <3>1. \A i \in DOMAIN log : log[i] \in EntryRec
            BY <2>1, ElementOfSeq, LenProperties
        <3> QED BY <3>1 DEF LogInv, EntryRec
    <2>3. EndedEntry' = {}
        BY <2>1, <2>2 DEF EndedEntry
    <2>4. \A i \in DOMAIN log : log[i].recording => log[i].call <= calls'
        BY <2>1, <2>2
    <2> QED BY <2>1, <2>3, <2>4 DEF LogInv, EndedEntryHasItsFile
<1>13. CASE ToggleRecord
    <2>1. listed => decoder'.path = decoder.path /\ decoder'.fmt = format
        BY <1>13 DEF ToggleRecord, SetRecording, CallType, DecoderRec
    <2> QED BY <1>13, <2>1, LogStays DEF ToggleRecord, LogInv
<1>14. ASSUME NEW fmt \in Formats, ChooseFormat(fmt) PROVE LogInv'
    <2>1. listed => decoder'.path = decoder.path /\ decoder'.fmt = fmt
        BY <1>14 DEF ChooseFormat, SetRecording, CallType, DecoderRec
    <2> QED BY <1>14, <2>1, LogStays DEF ChooseFormat, LogInv
<1>15. CASE RemoveDecoder
    BY <1>15, CallIsEnded
<1>16. CASE RemoveAll
    BY <1>16, LogStays DEF RemoveAll
<1>17. CASE ClearLog
    <2>1. log' = <<>> /\ UNCHANGED <<manager, decoder, pc>> /\ log' \in Seq(EntryRec)
        BY <1>17, EmptySeq DEF ClearLog
    <2>2. DOMAIN log' = {}
        BY <2>1
    <2> QED BY <2>1, <2>2 DEF manager, LogInv, EndedEntry, EndedEntryHasItsFile
<1>18. CASE Rescan
    BY <1>18, FilesAreFound
<1>19. CASE UNCHANGED vars
    BY <1>19, LogStays DEF vars, LogInv
<1> QED BY <1>1, <1>2, <1>3, <1>4, <1>5, <1>6, <1>7, <1>8, <1>9, <1>10, <1>11, <1>12, <1>13,
           <1>14, <1>15, <1>16, <1>17, <1>18, <1>19 DEF Next

-----------------------------------------------------------------------------
(* The theorems                                                            *)

LEMMA CallInit == Init => CallInv
<1> SUFFICES ASSUME Init PROVE CallInv
    OBVIOUS
<1> USE DEF Init
<1>1. <<>> \in Seq(Nat) /\ <<>> \in Seq(FileRec) /\ <<>> \in Seq(EntryRec)
      /\ Len(files) = 0 /\ DOMAIN files = {} /\ DOMAIN log = {}
    BY EmptySeq
<1>2. decoder.buffer = <<>> /\ decoder \in DecoderRec /\ ToSet(decoder.buffer) = {}
      /\ DOMAIN decoder.buffer = {}
    BY <1>1 DEF NoDecoder, DecoderRec, NoFile, Formats, ToSet
<1>3. CallType
    BY <1>1, <1>2 DEF CallType, NoFile
<1>4. Written(files) = {} /\ InOrder(files) /\ ~InHand
    BY <1>1 DEF Written, InOrder, InHand
<1>5. OrderInv /\ AcceptInv
    BY <1>2, <1>4 DEF OrderInv, AcceptInv
<1>6. HeaderInv
    BY <1>1 DEF HeaderInv, Patched
<1>7. LogInv
    BY <1>1 DEF LogInv, EndedEntry, EndedEntryHasItsFile
<1> QED BY <1>3, <1>5, <1>6, <1>7 DEF CallInv

LEMMA CallStep == CallInv /\ [Next]_vars => CallInv'
<1> SUFFICES ASSUME CallInv, [Next]_vars PROVE CallInv'
    OBVIOUS
<1>1. CallType /\ OrderInv /\ AcceptInv /\ HeaderInv /\ LogInv
    BY DEF CallInv
<1>2. LogInv'
    BY <1>1, LogStep
<1>3. CallType' /\ OrderInv' /\ AcceptInv' /\ HeaderInv'
    <2>1. CASE Maintain \/ OnDecoded \/ SetActive \/ SetPath
        BY <1>1, <2>1, WorkerMoves
    <2>2. CASE OnVoice
        BY <1>1, <2>2, FrameComes
    <2>3. CASE Record
        BY <1>1, <2>3, FrameIsTaken
    <2>4. CASE OpenFails
        BY <1>1, <2>4, BufferIsDropped
    <2>5. CASE ListCall
        BY <1>1, <2>5, BufferIsWritten
    <2>6. CASE WriteTest
        BY <1>1, <2>6, FrameIsTested
    <2>7. CASE Fwrite
        BY <1>1, <2>7, FrameIsWritten
    <2>8. CASE Release
        BY <1>1, <2>8, WorkerLeaves
    <2>9. CASE \/ AddDecoder \/ ToggleRecord \/ \E fmt \in Formats : ChooseFormat(fmt)
               \/ RemoveDecoder \/ RemoveAll \/ ClearLog \/ Rescan
        BY <1>1, <2>9, WindowKeepsFrames
    <2>10. CASE UNCHANGED vars
        <3>1. OrderInv' /\ AcceptInv'
            BY <1>1, <2>10, FramesStay DEF vars, InHand
        <3>2. CallType' /\ HeaderInv'
            BY <1>1, <2>10 DEF vars, CallType, HeaderInv
        <3> QED BY <3>1, <3>2
    <2> QED BY <2>1, <2>2, <2>3, <2>4, <2>5, <2>6, <2>7, <2>8, <2>9, <2>10 DEF Next
<1> QED BY <1>2, <1>3 DEF CallInv

\* The invariant of the recording: the types, the order of the frames, where every frame
\* is, the headers, and what the entries of the log name (Decoder::recordPcm,
\* Decoder::setRecording, WavWriter, VoiceCallLog).
THEOREM RecordingCorrect == Spec => []CallInv
    BY CallInit, CallStep, PTL DEF Spec

\* Whatever the window does between the steps of the worker, every frame that came while
\* recording was on is in one file, once and in order, or waits, or was lost in a known
\* way; a closed file's header counts its frames; and a call that ended names the file
\* of its entry, unless the decoder was removed while its next file was being named.
THEOREM CallsAgree == Spec => []CallsAreOnFile
<1>1. CallInv => RecordingKeepsFrames
    <2> SUFFICES ASSUME CallInv PROVE RecordingKeepsFrames
        OBVIOUS
    <2>1. InOrder(files) /\ AcceptInv /\ HeaderInv
        BY DEF CallInv, OrderInv
    <2>2. accepted = Written(files) \cup ToSet(decoder.buffer)
                     \cup (IF InHand THEN {frames} ELSE {}) \cup lost
        BY <2>1 DEF AcceptInv
    <2> QED BY <2>1, <2>2 DEF RecordingKeepsFrames, Written, InOrder, InHand, HeaderInv, Patched
<1>2. CallInv => EndedEntryHasItsFile
    BY DEF CallInv, LogInv
<1> QED BY <1>1, <1>2, RecordingCorrect, PTL DEF CallsAreOnFile

\* The file is closed between the worker's test and its write only by a change of the
\* format: turning recording off and removing the decoder leave it to the worker.
THEOREM OnlyFormatCloses == Spec => ClosedOnlyByFormat
<1>1. ASSUME CallInv, Next, ClosedInWrite PROVE format' # format
    <2>1. /\ writer # NoFile /\ writer' = NoFile /\ writer' # writer
          /\ pc \in {"open", "path", "list", "write", "fwrite"}
          /\ listed => decoder.fmt = format
        BY <1>1 DEF ClosedInWrite, CallInv, LogInv
    <2>2. \/ \E fmt \in Formats : ChooseFormat(fmt)
          \/ ToggleRecord
        BY <1>1, <2>1
        DEF Next, Maintain, OnVoice, OnDecoded, Record, OpenFails, SetActive, SetPath, ListCall,
            WriteTest, Fwrite, Release, AddDecoder, RemoveDecoder, RemoveAll, ClearLog, Rescan
    <2>3. ~ToggleRecord
        BY <2>1 DEF ToggleRecord, SetRecording
    <2>4. PICK fmt \in Formats : ChooseFormat(fmt)
        BY <2>2, <2>3
    <2> QED BY <2>1, <2>4 DEF ChooseFormat, SetRecording
<1>2. CallInv /\ [Next]_vars => [ClosedInWrite => format' # format]_vars
    BY <1>1
<1> QED BY <1>2, RecordingCorrect, PTL DEF Spec, ClosedOnlyByFormat
=============================================================================
