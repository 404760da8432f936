----------------------------- MODULE IqRecorder -----------------------------
(***************************************************************************)
(* The IQ recorder: the reader thread of each radio runs the callback of   *)
(* startActive (prebuffer, isRecording, write), the UI thread starts and   *)
(* stops recordings, resizes the pre-buffer and restarts the sources.      *)
(*                                                                         *)
(* Only the ring is guarded by a mutex.  f_, dataBytes_ and the test of    *)
(* ringCap_ are not: a callback step is what happens between two accesses  *)
(* of theirs.  The samples of a block are one item <<radio, number>>, and  *)
(* dataBytes_ counts items.  The ring is the sequence of the items pushed  *)
(* since ringWrite_ was last 0, cut to the newest ringCap_.                *)
(***************************************************************************)
EXTENDS Integers, Sequences, FiniteSets

CONSTANTS
    Radios,      \* "A", and "B" for the second RTL of dual mode
    RingSizes,   \* the sizes configurePrebuffer gives the ring; 0 disables it
    MaxBlocks,   \* bound: how many blocks each radio delivers
    MaxFiles     \* bound: how many recordings are made

ASSUME RecorderAssumption ==
    /\ "A" \in Radios /\ Radios \subseteq {"A", "B"}
    /\ RingSizes \subseteq Nat
    /\ MaxBlocks \in Nat /\ MaxFiles \in Nat

VARIABLES
    ringCap,     \* ringCap_
    ring,        \* ring_, oldest item first
    f,           \* f_: the number of the open file
    recording,   \* recording_
    dataBytes,   \* dataBytes_
    on,          \* the source of each radio runs
    pc,          \* where each reader thread is in the callback
    blk,         \* the number of the block it delivers
    got,         \* dataBytes_ as its write() has loaded it
    op, uiPc,    \* what the UI thread is doing, and where it is in it
    ok,          \* startActive's ok
    fault        \* undefined behaviour: the program may be gone

\* History: what is in each file and its header, and how the files were closed.
VARIABLES
    file,        \* the files' items, Riff for the header written by start()
    header,      \* the sizes stop() patched in, None before
    raced,       \* files opened or closed while a callback was in write()
    unsafe       \* the operations that closed one so

shared  == <<ringCap, ring, f, recording, dataBytes>>
reader  == <<on, pc, blk, got>>
ui      == <<op, uiPc, ok>>
history == <<file, header, raced, unsafe>>
vars    == <<shared, reader, ui, fault, history>>

None == 0
NoHeader == -1          \* not patched yet
Riff == <<"RIFF", 0>>   \* the header that start() writes

Init ==
    /\ ringCap = 0 /\ ring = <<>> /\ f = None /\ recording = FALSE /\ dataBytes = 0
    /\ on = [r \in Radios |-> FALSE]
    /\ pc = [r \in Radios |-> "idle"]
    /\ blk = [r \in Radios |-> 0] /\ got = [r \in Radios |-> 0]
    /\ op = "idle" /\ uiPc = "idle" /\ ok = FALSE /\ fault = "none"
    /\ file = <<>> /\ header = <<>> /\ raced = {} /\ unsafe = {}

-----------------------------------------------------------------------------
(* The callback of a source                                                *)

At(r, here, there) ==
    /\ fault = "none" /\ pc[r] = here
    /\ pc' = [pc EXCEPT ![r] = there]

Newest(s) == IF Len(s) > ringCap THEN Tail(s) ELSE s

\* A block arrives; prebuffer() reads ringCap_ without the mutex.
Deliver(r) ==
    /\ on[r] /\ blk[r] < MaxBlocks
    /\ At(r, "idle", IF ringCap = 0 THEN "check" ELSE "push")
    /\ blk' = [blk EXCEPT ![r] = @ + 1]
    /\ UNCHANGED <<shared, on, got, ui, fault, history>>

\* Under the mutex, modulo the ringCap_ of now.
Push(r) ==
    /\ IF ringCap = 0
       THEN /\ At(r, "push", "check") /\ fault' = "modulo zero" /\ UNCHANGED ring
       ELSE /\ At(r, "push", "check") /\ ring' = Newest(Append(ring, <<r, blk[r]>>))
            /\ UNCHANGED fault
    /\ UNCHANGED <<ringCap, f, recording, dataBytes, on, blk, got, ui, history>>

Check(r) ==
    /\ At(r, "check", IF recording THEN "write" ELSE "idle")
    /\ UNCHANGED <<shared, on, blk, got, ui, fault, history>>

\* if (!f_) return, then the conversion to 8 bits
Convert(r) ==
    /\ At(r, "write", IF f = None THEN "idle" ELSE "fwrite")
    /\ UNCHANGED <<shared, on, blk, got, ui, fault, history>>

\* fwrite on what f_ is by now: the file, a closed FILE, or null.
Fwrite(r) ==
    /\ At(r, "fwrite", "load")
    /\ IF f = None \/ header[f] # NoHeader
       THEN fault' = "closed file" /\ UNCHANGED file
       ELSE file' = [file EXCEPT ![f] = Append(@, <<r, blk[r]>>)] /\ UNCHANGED fault
    /\ UNCHANGED <<shared, on, blk, got, ui, header, raced, unsafe>>

\* dataBytes_ += nBytes, a load and a store
LoadBytes(r) ==
    /\ At(r, "load", "store")
    /\ got' = [got EXCEPT ![r] = dataBytes]
    /\ UNCHANGED <<shared, on, blk, ui, fault, history>>

StoreBytes(r) ==
    /\ At(r, "store", "idle")
    /\ dataBytes' = got[r] + 1
    /\ UNCHANGED <<ringCap, ring, f, recording, on, blk, got, ui, fault, history>>

Callback(r) ==
    Deliver(r) \/ Push(r) \/ Check(r) \/ Convert(r) \/ Fwrite(r) \/ LoadBytes(r) \/ StoreBytes(r)

-----------------------------------------------------------------------------
(* The UI thread                                                           *)

Ui(here)    == fault = "none" /\ uiPc = here
Goto(next)  == uiPc' = next /\ UNCHANGED <<op, ok>>
Return      == op' = "idle" /\ uiPc' = "idle" /\ UNCHANGED ok
Begin(o, first) ==
    /\ Ui("idle") /\ op' = o /\ uiPc' = first
    /\ UNCHANGED <<ok, shared, reader, fault, history>>

\* The recorder's buttons, and the Start and Stop buttons of the radio.
PressRecord     == on["A"] /\ ~recording /\ Begin("record", "open")
PressStopRecord == recording /\ Begin("stopRecord", "stop")
PressStart      == Begin("start", "srcStop")
PressStop       == on["A"] /\ Begin("stop", "srcStop")

\* Mutant of StreamFails: the recording ends before the source's threads are joined.
FailsUnjoined == on = [r \in Radios |-> r = "A"] /\ Begin("fail", "stop")

\* An SDRplay stream fails; no SDRplay is part of a dual RTL setup.
StreamFails == on = [r \in Radios |-> r = "A"] /\ Begin("fail", "srcStop")

Configure(n) ==
    /\ ringCap' = n /\ ring' = <<>>
    /\ UNCHANGED <<f, recording, dataBytes>>

\* The pre-buffer slider, and updateRateChange when the rate changes.
Resize ==
    /\ Ui("idle") /\ on["A"]
    /\ \E n \in RingSizes : Configure(n)
    /\ UNCHANGED <<reader, ui, fault, history>>

\* The sources' stop() joins the reader threads.  Stopping the radio leaves the
\* recorder as it is.
SourceStop ==
    /\ Ui("srcStop") /\ \A r \in Radios : pc[r] = "idle"
    /\ on' = [r \in Radios |-> FALSE]
    /\ CASE op = "start" -> Goto("srcStart")
         [] op = "stop"  -> Return
         [] op = "fail"  -> Goto("stop")
    /\ UNCHANGED <<shared, pc, blk, got, fault, history>>

\* The first radio starts, alone or with the second, or none does.
SourceStart ==
    /\ Ui("srcStart")
    /\ \E started \in {{}, {"A"}, Radios} :
        /\ on' = [r \in Radios |-> r \in started]
        /\ ok' = (started # {})
        /\ uiPc' = IF started # {} THEN "configure" ELSE "restart"
    /\ UNCHANGED <<op, shared, pc, blk, got, fault, history>>

StartConfigure ==
    /\ Ui("configure")
    /\ \E n \in RingSizes : Configure(n)
    /\ Goto("restart")
    /\ UNCHANGED <<reader, fault, history>>

\* A recording that was running goes on in a new file (the same path).
Restart ==
    /\ Ui("restart")
    /\ IF recording THEN Goto("stop") ELSE Return
    /\ UNCHANGED <<shared, reader, fault, history>>

InWrite == \E r \in Radios : pc[r] \in {"write", "fwrite", "load", "store"}
HoldsFile == \E r \in Radios : pc[r] \in {"fwrite", "load", "store"}

StopFlag ==
    /\ Ui("stop")
    /\ recording' = FALSE
    /\ IF f = None THEN Return ELSE Goto("close")
    /\ UNCHANGED <<ringCap, ring, f, dataBytes, reader, fault, history>>

\* Patch the header and fclose.  A write between the two counts as one that races
\* the close.
StopClose ==
    /\ Ui("close")
    /\ header' = [header EXCEPT ![f] = dataBytes]
    /\ IF HoldsFile THEN raced' = raced \cup {f} /\ unsafe' = unsafe \cup {op}
       ELSE UNCHANGED <<raced, unsafe>>
    /\ Goto("null")
    /\ UNCHANGED <<shared, reader, fault, file>>

\* Mutant of StopNull: the write head of the ring stays where it is.
KeepsWriteHead ==
    /\ Ui("null")
    /\ f' = None
    /\ IF op = "start" /\ ok THEN Goto("open") ELSE Return
    /\ UNCHANGED <<ringCap, ring, recording, dataBytes, reader, fault, history>>

\* f_ = nullptr, and the ring forgets what this recording has seen.
StopNull ==
    /\ Ui("null")
    /\ f' = None /\ ring' = <<>>
    /\ IF op = "start" /\ ok THEN Goto("open") ELSE Return
    /\ UNCHANGED <<ringCap, recording, dataBytes, reader, fault, history>>

\* start(): its stop() finds no file (recording_ and f_ go together); fopen may fail.
StartOpen ==
    /\ Ui("open") /\ Len(file) < MaxFiles
    /\ \/ /\ f' = Len(file) + 1
          /\ file' = Append(file, <<>>) /\ header' = Append(header, NoHeader)
          /\ raced' = IF InWrite THEN raced \cup {f'} ELSE raced
          /\ Goto("header")
       \/ Return /\ UNCHANGED <<f, file, header, raced>>
    /\ UNCHANGED <<ringCap, ring, recording, dataBytes, reader, fault, unsafe>>

\* Mutant of StartHeader: dataBytes_ goes on from the recording before.
KeepsDataBytes ==
    /\ Ui("header")
    /\ file' = [file EXCEPT ![f] = Append(@, Riff)]
    /\ Goto("drain")
    /\ UNCHANGED <<ringCap, ring, f, recording, dataBytes, reader, fault, header, raced, unsafe>>

StartHeader ==
    /\ Ui("header")
    /\ file' = [file EXCEPT ![f] = Append(@, Riff)]
    /\ dataBytes' = 0
    /\ Goto("drain")
    /\ UNCHANGED <<ringCap, ring, f, recording, reader, fault, header, raced, unsafe>>

\* Mutant of StartDrain: it starts one sample late and wraps.
DrainsFromSecond ==
    /\ Ui("drain")
    /\ file' = [file EXCEPT ![f] =
           @ \o IF ring = <<>> THEN <<>> ELSE Append(Tail(ring), Head(ring))]
    /\ dataBytes' = dataBytes + Len(ring)
    /\ Goto("flag")
    /\ UNCHANGED <<ringCap, ring, f, recording, reader, fault, header, raced, unsafe>>

StartDrain ==
    /\ Ui("drain")
    /\ file' = [file EXCEPT ![f] = @ \o ring]
    /\ dataBytes' = dataBytes + Len(ring)
    /\ Goto("flag")
    /\ UNCHANGED <<ringCap, ring, f, recording, reader, fault, header, raced, unsafe>>

StartFlag ==
    /\ Ui("flag")
    /\ recording' = TRUE
    /\ Return
    /\ UNCHANGED <<ringCap, ring, f, dataBytes, reader, fault, history>>

UiStep ==
    \/ SourceStop \/ SourceStart \/ StartConfigure \/ Restart
    \/ StopFlag \/ StopClose \/ StopNull
    \/ StartOpen \/ StartHeader \/ StartDrain \/ StartFlag

User == PressRecord \/ PressStopRecord \/ PressStart \/ PressStop \/ StreamFails \/ Resize

Next == UiStep \/ User \/ \E r \in Radios : Callback(r)

Spec == Init /\ [][Next]_vars

-----------------------------------------------------------------------------
(* Properties                                                              *)

Items == Radios \X (1 .. MaxBlocks)
Pcs == {"idle", "push", "check", "write", "fwrite", "load", "store"}

TypeOK ==
    /\ ringCap \in RingSizes \cup {0} /\ ring \in Seq(Items) /\ Len(ring) <= ringCap
    /\ f \in 0 .. Len(file) /\ recording \in BOOLEAN /\ dataBytes \in Nat
    /\ on \in [Radios -> BOOLEAN] /\ pc \in [Radios -> Pcs]
    /\ blk \in [Radios -> 0 .. MaxBlocks] /\ got \in [Radios -> Nat]
    /\ Len(file) <= MaxFiles /\ file \in Seq(Seq(Items \cup {Riff}))
    /\ header \in Seq(Int) /\ Len(header) = Len(file)
    /\ raced \subseteq 1 .. Len(file) /\ unsafe \subseteq {"start", "stopRecord", "fail"}

From(k) == {file[k][i][1] : i \in 2 .. Len(file[k])}

\* A recording nobody disturbed: no callback was in write() when it was opened or
\* closed, and one radio fed it.
Clean(k) == k \notin raced /\ Cardinality(From(k)) <= 1

\* The header of a finished clean recording stands at its start, once, and counts
\* what the file holds: whatever was recorded before, drained or written.
HeaderCountsData ==
    \A k \in 1 .. Len(file) :
        k \notin raced => /\ uiPc # "header" \/ f # k => file[k][1] = Riff
                          /\ \A i \in 2 .. Len(file[k]) : file[k][i] # Riff
                          /\ header[k] # NoHeader /\ Clean(k) => header[k] = Len(file[k]) - 1

\* Pre-buffer and live blocks of a clean recording form one stream with one seam:
\* there a block is recorded twice or some are missing, and nowhere else.
Seams(k) == {i \in 2 .. Len(file[k]) - 1 : file[k][i + 1][2] # file[k][i][2] + 1}

OneSeam ==
    \A k \in 1 .. Len(file) :
        Clean(k) => /\ Cardinality(Seams(k)) <= 1
                    /\ \A i \in Seams(k) : file[k][i + 1][2] >= file[k][i][2]

\* What one recording holds does not bleed into the next (iq_recorder.cpp:151-152):
\* of each radio at most one block is in two files, that of a callback that was under
\* way through the end of the one recording and the start of the other.
Blocks(k, r) == {n \in 1 .. MaxBlocks : \E i \in 2 .. Len(file[k]) : file[k][i] = <<r, n>>}

NoBleed ==
    \A j, k \in 1 .. Len(file) : \A r \in Radios :
        j # k => Cardinality(Blocks(j, r) \cap Blocks(k, r)) <= 1

\* The file is closed under a callback that is in write() by the recorder's own Stop
\* button and by startActive, which starts the new source before it closes the file;
\* never when an SDRplay stream fails.
ClosedUnderWriterOnlyByButtonOrRestart == unsafe \subseteq {"stopRecord", "start"}

\* TESTING.md:31-32 "IQ recording captures A only" (session.cpp:374, "never
\* interleave two radios").
CapturesAOnly == \A k \in 1 .. Len(file) : From(k) \subseteq {"A"}
=============================================================================
