------------------------------ MODULE AudioOutput ------------------------------
(***************************************************************************)
(* The voice path of one DecoderManager: the voice decoders, each in the   *)
(* thread of a worker, push samples into the ring of AudioOutput, the      *)
(* callback of the audio device takes them out, and the UI thread starts,  *)
(* stops, moves the monitor and changes the device.                        *)
(*                                                                         *)
(* The samples of a decoder are named by the decoder.  miniaudio is seen   *)
(* from outside: a device that is being opened either only starts, or      *)
(* (PulseAudio) first runs the callback, while the caller waits.           *)
(***************************************************************************)
EXTENDS Naturals, Sequences

CONSTANTS
    Decoders,   \* voice decoders; a removed one does not come back
    Cap,        \* samples in the ring
    Fills       \* a back end may run the callback before the device counts as started

None   == "none"
Silence == "silence"

ASSUME AudioAssumption ==
    /\ Cap \in Nat \ {0}
    /\ Decoders \cap {None, "cb", "ui"} = {}   \* the other names that mtx can hold

VARIABLES
    run,       \* the manager runs
    live,      \* the decoders that exist
    past,      \* the decoders that were removed
    flag,      \* monitored_ of each decoder
    monitor,   \* voiceMonitorId_
    muted,
    started,   \* AudioOutputImpl::started
    ring, rd, wr, count,
    mtx,       \* who holds the mutex of the ring
    dev,       \* the device: "none", "starting", "filling" or "on"
    cb,        \* the callback: "out", "waiting" for the mutex or "pulling"
    worker,    \* the worker of each decoder: "idle", "waiting" for the mutex or "pushing"
    ui,        \* what the UI thread is doing
    todo       \* decoders whose flag setVoiceMonitor has still to set

VARIABLE chosen   \* history: the monitored decoder is the one setVoiceMonitor was given

calls   == <<live, past, flag, monitor, chosen>>
samples == <<ring, rd, wr, count>>
vars    == <<run, calls, muted, started, samples, mtx, dev, cb, worker, ui, todo>>

Empty == rd' = 0 /\ wr' = 0 /\ count' = 0

Init ==
    /\ run = FALSE /\ live = {} /\ past = {} /\ monitor = None /\ chosen = FALSE
    /\ flag = [d \in Decoders |-> FALSE]
    /\ muted = FALSE /\ started = FALSE
    /\ ring = [i \in 0 .. Cap - 1 |-> Silence] /\ rd = 0 /\ wr = 0 /\ count = 0
    /\ mtx = None /\ dev = "none" /\ cb = "out"
    /\ worker = [d \in Decoders |-> "idle"]
    /\ ui = "idle" /\ todo = {}

-----------------------------------------------------------------------------
(* The ring                                                                *)

\* An index of the ring, one step or a few samples on.
Place(n) == n % Cap

\* Mutant of PutInRing: a full ring is overwritten without moving its start.
PutKeepsStart(s) ==
    /\ ring' = [ring EXCEPT ![wr] = s]
    /\ wr' = Place(wr + 1)
    /\ UNCHANGED rd
    /\ count' = IF count = Cap THEN Cap ELSE count + 1

\* One round of the loop of push().
PutInRing(s) ==
    /\ ring' = [ring EXCEPT ![wr] = s]
    /\ wr' = Place(wr + 1)
    /\ IF count = Cap
       THEN rd' = Place(rd + 1) /\ count' = count - 1 + 1
       ELSE count' = count + 1 /\ UNCHANGED rd

\* One round of the loop of pullInto() that finds a sample.
TakeFromRing ==
    /\ count > 0
    /\ rd' = Place(rd + 1)
    /\ count' = count - 1
    /\ UNCHANGED <<ring, wr>>

-----------------------------------------------------------------------------
(* The workers                                                             *)

\* onVoice() of a monitored decoder: muted_ and started are tested before the lock.
PushTests(d) ==
    /\ run /\ d \in live /\ worker[d] = "idle"
    /\ flag[d] /\ ~muted /\ started
    /\ worker' = [worker EXCEPT ![d] = "waiting"]
    /\ UNCHANGED <<run, calls, muted, started, samples, mtx, dev, cb, ui, todo>>

PushLocks(d) ==
    /\ worker[d] = "waiting" /\ mtx = None
    /\ mtx' = d
    /\ worker' = [worker EXCEPT ![d] = "pushing"]
    /\ UNCHANGED <<run, calls, muted, started, samples, dev, cb, ui, todo>>

PushSample(d) ==
    /\ worker[d] = "pushing"
    /\ PutInRing(d)
    /\ UNCHANGED <<run, calls, muted, started, mtx, dev, cb, worker, ui, todo>>

PushEnds(d) ==
    /\ worker[d] = "pushing"
    /\ mtx' = None
    /\ worker' = [worker EXCEPT ![d] = "idle"]
    /\ UNCHANGED <<run, calls, muted, started, samples, dev, cb, ui, todo>>

-----------------------------------------------------------------------------
(* The audio device                                                        *)

DeviceStarts ==
    /\ dev = "starting"
    /\ \/ dev' = "on" /\ UNCHANGED cb
       \/ Fills /\ dev' = "filling" /\ cb' = "waiting"
    /\ UNCHANGED <<run, calls, muted, started, samples, mtx, worker, ui, todo>>

CallbackBegins ==
    /\ dev = "on" /\ cb = "out"
    /\ cb' = "waiting"
    /\ UNCHANGED <<run, calls, muted, started, samples, mtx, dev, worker, ui, todo>>

CallbackLocks ==
    /\ cb = "waiting" /\ mtx = None
    /\ cb' = "pulling" /\ mtx' = "cb"
    /\ UNCHANGED <<run, calls, muted, started, samples, dev, worker, ui, todo>>

CallbackTakes ==
    /\ cb = "pulling"
    /\ TakeFromRing
    /\ UNCHANGED <<run, calls, muted, started, mtx, dev, cb, worker, ui, todo>>

CallbackEnds ==
    /\ cb = "pulling"
    /\ cb' = "out" /\ mtx' = None /\ dev' = "on"
    /\ UNCHANGED <<run, calls, muted, started, samples, worker, ui, todo>>

-----------------------------------------------------------------------------
(* The UI thread                                                           *)

\* DecoderManager::start(): the ring is reset without its mutex.
Start ==
    /\ ui = "idle" /\ ~run
    /\ run' = TRUE
    /\ ring' = [i \in 0 .. Cap - 1 |-> Silence] /\ Empty
    /\ ui' = "opening" /\ dev' = "starting"
    /\ UNCHANGED <<calls, muted, started, mtx, cb, worker, todo>>

\* openDevice() returns; setDevice() has held the mutex meanwhile.
Opened ==
    /\ ui = "opening" /\ dev = "on"
    /\ started' = TRUE
    /\ ui' = "idle" /\ mtx' = IF mtx = "ui" THEN None ELSE mtx
    /\ UNCHANGED <<run, calls, muted, samples, dev, cb, worker, todo>>

OpenFails ==
    /\ ui = "opening" /\ dev = "starting"
    /\ dev' = "none"
    /\ ui' = "idle" /\ mtx' = IF mtx = "ui" THEN None ELSE mtx
    /\ UNCHANGED <<run, calls, muted, started, samples, cb, worker, todo>>

\* The workers are joined, then the device is closed once its callback is out.
Stop ==
    /\ ui = "idle" /\ run
    /\ \A d \in Decoders : worker[d] = "idle"
    /\ dev = "on" => cb = "out"
    /\ run' = FALSE /\ started' = FALSE /\ dev' = "none"
    /\ live' = {} /\ past' = past \cup live /\ monitor' = None /\ chosen' = FALSE
    /\ flag' = [d \in Decoders |-> FALSE]
    /\ UNCHANGED <<muted, samples, mtx, cb, worker, ui, todo>>

\* setDevice() on a running device: it is closed first ...
ChangeDevice ==
    /\ ui = "idle" /\ started
    /\ cb = "out"
    /\ started' = FALSE /\ dev' = "none"
    /\ ui' = "locking"
    /\ UNCHANGED <<run, calls, muted, samples, mtx, cb, worker, todo>>

\* ... and the new one opened with the mutex held.
ReopenDevice ==
    /\ ui = "locking" /\ mtx = None
    /\ mtx' = "ui" /\ Empty
    /\ dev' = "starting" /\ ui' = "opening"
    /\ UNCHANGED <<run, calls, muted, started, ring, cb, worker, todo>>

ToggleMute ==
    /\ ui = "idle"
    /\ muted' = ~muted
    /\ UNCHANGED <<run, calls, started, samples, mtx, dev, cb, worker, ui, todo>>

\* addDecoder(): without a monitor the new voice decoder becomes it.
AddDecoder(d) ==
    /\ ui = "idle" /\ run /\ d \notin live \cup past
    /\ live' = live \cup {d}
    /\ IF monitor = None
       THEN monitor' = d /\ flag' = [flag EXCEPT ![d] = TRUE] /\ chosen' = FALSE
       ELSE UNCHANGED <<monitor, flag, chosen>>
    /\ UNCHANGED <<run, past, muted, started, samples, mtx, dev, cb, worker, ui, todo>>

\* removeDecoder() holds the dMtx of the worker, which holds it while it decodes.
RemoveDecoder(d) ==
    /\ ui = "idle" /\ d \in live /\ worker[d] = "idle"
    /\ live' = live \ {d} /\ past' = past \cup {d}
    /\ flag' = [flag EXCEPT ![d] = FALSE]
    /\ IF monitor = d
       THEN monitor' = None /\ chosen' = FALSE
       ELSE UNCHANGED <<monitor, chosen>>
    /\ UNCHANGED <<run, muted, started, samples, mtx, dev, cb, worker, ui, todo>>

\* autoMonitor() takes any voice decoder when there is no monitor.
AutoMonitor(d) ==
    /\ ui = "idle" /\ monitor = None /\ d \in live /\ worker[d] = "idle"
    /\ monitor' = d /\ flag' = [flag EXCEPT ![d] = TRUE]
    /\ UNCHANGED <<run, live, past, chosen, muted, started, samples, mtx, dev, cb, worker,
                   ui, todo>>

\* Mutant of SetVoiceMonitor: the mutex of the ring is held over the change.
SetsMonitorLocked(d) ==
    /\ ui = "idle" /\ d \in live /\ d # monitor /\ mtx = None
    /\ mtx' = "ui"
    /\ monitor' = d /\ chosen' = TRUE
    /\ ui' = "monitor" /\ todo' = live
    /\ UNCHANGED <<run, live, past, flag, muted, started, samples, dev, cb, worker>>

\* setVoiceMonitor(): the flags one by one under dMtx, then clear().
SetVoiceMonitor(d) ==
    /\ ui = "idle" /\ d \in live /\ d # monitor
    /\ monitor' = d /\ chosen' = TRUE
    /\ ui' = "monitor" /\ todo' = live
    /\ UNCHANGED <<run, live, past, flag, muted, started, samples, mtx, dev, cb, worker>>

SetFlag(d) ==
    /\ ui = "monitor" /\ d \in todo /\ worker[d] = "idle"
    /\ flag' = [flag EXCEPT ![d] = d = monitor]
    /\ todo' = todo \ {d}
    /\ UNCHANGED <<run, live, past, monitor, chosen, muted, started, samples, mtx, dev, cb,
                   worker, ui>>

\* Mutant of ClearRing: the ring is cleared before the flags are set.
ClearsFirst ==
    /\ ui = "monitor" /\ mtx = None /\ (todo = live \/ todo = {})
    /\ IF todo = live /\ todo # {} THEN Empty /\ UNCHANGED ui
       ELSE ui' = "idle" /\ UNCHANGED <<rd, wr, count>>
    /\ UNCHANGED <<run, calls, muted, started, ring, mtx, dev, cb, worker, todo>>

ClearRing ==
    /\ ui = "monitor" /\ todo = {} /\ mtx = None
    /\ Empty
    /\ ui' = "idle"
    /\ UNCHANGED <<run, calls, muted, started, ring, mtx, dev, cb, worker, todo>>

DeviceStep == DeviceStarts \/ CallbackLocks \/ CallbackEnds
UiStep     == Opened \/ ReopenDevice \/ ClearRing \/ \E d \in Decoders : SetFlag(d)
WorkerStep(d) == PushLocks(d) \/ PushEnds(d)

Next ==
    \/ Start \/ Stop \/ OpenFails \/ ChangeDevice \/ ToggleMute \/ UiStep
    \/ \E d \in Decoders : AddDecoder(d) \/ RemoveDecoder(d) \/ AutoMonitor(d)
    \/ \E d \in Decoders : SetVoiceMonitor(d)
    \/ DeviceStep \/ CallbackBegins \/ CallbackTakes
    \/ \E d \in Decoders : WorkerStep(d) \/ PushTests(d) \/ PushSample(d)

Spec == Init /\ [][Next]_vars

-----------------------------------------------------------------------------
(* Properties                                                              *)

\* The samples that the ring holds, oldest first.
Queued == [i \in 1 .. count |-> ring[Place(rd + i - 1)]]

Queue == INSTANCE VoiceQueue WITH Samples <- Decoders, Size <- Cap, queue <- Queued

\* The ring with its three indices is the bounded queue: every round of push() and
\* pullInto(), every restart and clear() is a step of it, or leaves it as it is.
RingIsVoiceQueue == Queue!Spec

TypeOK ==
    /\ ring \in [0 .. Cap - 1 -> Decoders \cup {Silence}]
    /\ rd \in 0 .. Cap - 1 /\ wr \in 0 .. Cap - 1 /\ count \in 0 .. Cap

\* The ring's part of the inductive invariant: wr is count places after rd, and the
\* places in use hold samples.
RingOK ==
    /\ TypeOK
    /\ wr = Place(rd + count)
    /\ \A i \in 1 .. count : Queued[i] \in Decoders

\* The speakers never mix two calls: what is queued of the monitored decoder comes
\* last, and after the user has picked it nothing else is queued, however the worker
\* of the old one was caught by the change.
OneCallAtATime ==
    run /\ ui = "idle" /\ monitor # None =>
        /\ \A i, j \in 1 .. count : i < j /\ Queued[i] = monitor => Queued[j] = monitor
        /\ chosen => \A i \in 1 .. count : Queued[i] = monitor

\* What a thread waits for: the holder of the mutex, a worker's dMtx, a starting device.
WaitsFor(t, u) ==
    \/ t = "cb" /\ cb = "waiting" /\ u = mtx
    \/ t \in Decoders /\ worker[t] = "waiting" /\ u = mtx
    \/ t = "ui" /\ ui = "monitor" /\ u \in todo /\ worker[u] # "idle"
    \/ t = "ui" /\ ui = "opening" /\ dev = "filling" /\ u = "cb"

\* The UI thread and another wait for each other only where setDevice() holds the mutex
\* of the ring while a back end that fills its buffers first starts the new device.
StuckOnlyChangingDevice ==
    \A t \in Decoders \cup {"cb"} :
        WaitsFor("ui", t) /\ WaitsFor(t, "ui") => dev = "filling" /\ ui = "opening"

=============================================================================
