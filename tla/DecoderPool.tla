---------------------------- MODULE DecoderPool ----------------------------
(***************************************************************************)
(* The threads of one DecoderManager: the decode workers (workerLoop), the *)
(* source's reader thread that calls feed(), and the UI thread that runs   *)
(* start(), stop(), addDecoder(), removeDecoder() and removeAll() in the   *)
(* order startActive, the Stop button and the end of main call them.       *)
(*                                                                         *)
(* A step is what a thread does between two points where another thread    *)
(* can see the difference.  A critical section of qMtx or dMtx is one      *)
(* step, except the one inside condition_variable::wait, where the mutex   *)
(* is held from the evaluation of the predicate until the thread blocks:   *)
(* a worker in "blocking" holds its qMtx.                                  *)
(*                                                                         *)
(* Which worker addDecoder picks is any one here; DecoderTable models the  *)
(* choice.  The samples of a block are abstracted to the block's number.   *)
(***************************************************************************)
EXTENDS Integers, Sequences, FiniteSets

CONSTANTS
    NWorkers,    \* the number of workers start() creates
    Decoders,    \* decoder ids; addDecoder takes a new one each time (nextId_)
    MaxQueue,    \* kMaxQueue
    MaxBlocks    \* bound: how many blocks the source delivers

ASSUME PoolAssumption ==
    /\ NWorkers \in Nat \ {0}
    /\ MaxQueue \in Nat \ {0}
    /\ MaxBlocks \in Nat
    /\ IsFiniteSet(Decoders)

Workers == 1 .. NWorkers

VARIABLES
    run,        \* run_
    vecLen,     \* workers_.size(): workers 1..vecLen exist
    queue,      \* Worker::queue, oldest block first
    count,      \* Worker::count
    decs,       \* the decoders of a worker's sub-bands
    drops,      \* drops_
    wpc,        \* where each worker thread is
    snap,       \* workerLoop's snapshot, what is left of it to process
    block,      \* workerLoop's blockPtr
    srcOn,      \* the source's reader thread exists
    feedPc,     \* where the reader thread is in feed()
    feedAt,     \* the worker feed()'s loop has reached
    feedEnd,    \* the end iterator feed()'s loop has captured
    op,         \* what the UI thread is doing
    uiPc,       \* where it is in it
    uiAt        \* the worker its loop has reached

\* History: what was fed to, and heard by, each decoder, and what went wrong.
VARIABLES
    nextBlock,  \* the number of the next block feed() accepts
    used,       \* decoder ids handed out so far
    born,       \* the first block whose feed begins after the decoder was added
    flushed,    \* the first block whose feed begins after a worker's last removeAll,
                \* None when it left no older block, or no decoder is to come
    floor,      \* flushed of its worker when the decoder was added
    heard,      \* the blocks each decoder has processed, in order
    late,       \* how many of them after removeDecoder or removeAll took it away
    stale,      \* the operations that changed workers_ while feed() iterated it
    missed      \* workers that held qMtx in wait() when stop() notified them

manager == <<run, vecLen, queue, count, decs, drops>>
threads == <<wpc, snap, block>>
reader  == <<srcOn, feedPc, feedAt, feedEnd>>
ui      == <<op, uiPc, uiAt>>
history == <<nextBlock, used, born, flushed, floor, heard, late, stale, missed>>
vars    == <<manager, threads, reader, ui, history>>

None == 0   \* no block, no worker

-----------------------------------------------------------------------------

Init ==
    /\ run = FALSE /\ vecLen = 0 /\ drops = 0
    /\ queue = [w \in Workers |-> <<>>]
    /\ count = [w \in Workers |-> 0]
    /\ decs  = [w \in Workers |-> {}]
    /\ wpc   = [w \in Workers |-> "none"]
    /\ snap  = [w \in Workers |-> {}]
    /\ block = [w \in Workers |-> None]
    /\ srcOn = FALSE /\ feedPc = "idle" /\ feedAt = None /\ feedEnd = None
    /\ op = "idle" /\ uiPc = "idle" /\ uiAt = None
    /\ nextBlock = 1
    /\ used = {} /\ stale = {} /\ missed = {}
    /\ born  = [d \in Decoders |-> None]
    /\ floor = [d \in Decoders |-> None]
    /\ flushed = [w \in Workers |-> None]
    /\ heard = [d \in Decoders |-> <<>>]
    /\ late  = [d \in Decoders |-> 0]

-----------------------------------------------------------------------------
(* workerLoop                                                              *)

\* notify_one and notify_all: at most one thread waits on a worker's cv.
Notified(w) == IF wpc[w] = "waiting" THEN [wpc EXCEPT ![w] = "ready"] ELSE wpc

\* while (run_), lock qMtx, the predicate of wait(), and the test of run_ after it.
WorkerEnter(w) ==
    /\ wpc[w] = "ready"
    /\ \/ /\ ~run
          /\ wpc' = [wpc EXCEPT ![w] = "exited"]
          /\ UNCHANGED <<queue, block>>
       \/ /\ run /\ queue[w] # <<>>
          /\ block' = [block EXCEPT ![w] = Head(queue[w])]
          /\ queue' = [queue EXCEPT ![w] = Tail(@)]
          /\ wpc' = [wpc EXCEPT ![w] = "popped"]
       \/ /\ run /\ queue[w] = <<>>
          /\ wpc' = [wpc EXCEPT ![w] = "blocking"]
          /\ UNCHANGED <<queue, block>>
    /\ UNCHANGED <<run, vecLen, count, decs, drops, snap, reader, ui, history>>

\* wait() releases qMtx and blocks in one step.
WorkerBlock(w) ==
    /\ wpc[w] = "blocking"
    /\ wpc' = [wpc EXCEPT ![w] = "waiting"]
    /\ UNCHANGED <<manager, snap, block, reader, ui, history>>

\* A condition variable may wake without a notification.
SpuriousWake(w) ==
    /\ wpc[w] = "waiting"
    /\ wpc' = [wpc EXCEPT ![w] = "ready"]
    /\ UNCHANGED <<manager, snap, block, reader, ui, history>>

\* The end of an iteration: the worker lets go of the block.
WorkerIdle(w) ==
    /\ wpc' = [wpc EXCEPT ![w] = "ready"]
    /\ block' = [block EXCEPT ![w] = None]

\* Copy the sub-bands and the decoders' shared_ptrs under dMtx.
WorkerSnapshot(w) ==
    /\ wpc[w] = "popped"
    /\ snap' = [snap EXCEPT ![w] = decs[w]]
    /\ IF decs[w] = {} THEN WorkerIdle(w)
       ELSE wpc' = [wpc EXCEPT ![w] = "working"] /\ UNCHANGED block
    /\ UNCHANGED <<manager, reader, ui, history>>

\* Mutant: the worker goes on with the snapshot it took for an earlier block.
DrainsOnOldSnapshot(w) ==
    /\ wpc[w] = "working"
    /\ \E d \in snap[w] :
        /\ heard' = [heard EXCEPT ![d] = Append(@, block[w])]
        /\ late' = [late EXCEPT ![d] = IF d \in decs[w] THEN @ ELSE @ + 1]
        /\ IF snap[w] = {d} /\ queue[w] # <<>>
           THEN /\ block' = [block EXCEPT ![w] = Head(queue[w])]
                /\ queue' = [queue EXCEPT ![w] = Tail(@)]
                /\ UNCHANGED <<snap, wpc>>
           ELSE /\ snap' = [snap EXCEPT ![w] = @ \ {d}]
                /\ UNCHANGED queue
                /\ IF snap[w] = {d} THEN WorkerIdle(w) ELSE UNCHANGED <<wpc, block>>
    /\ UNCHANGED <<run, vecLen, count, decs, drops, reader, ui, nextBlock, used, born,
                   flushed, floor, stale, missed>>

\* Decoder::process for one decoder of the snapshot, outside every lock.
WorkerProcess(w) ==
    /\ wpc[w] = "working"
    /\ \E d \in snap[w] :
        /\ heard' = [heard EXCEPT ![d] = Append(@, block[w])]
        /\ late' = [late EXCEPT ![d] = IF d \in decs[w] THEN @ ELSE @ + 1]
        /\ snap' = [snap EXCEPT ![w] = @ \ {d}]
        /\ IF snap[w] = {d} THEN WorkerIdle(w) ELSE UNCHANGED <<wpc, block>>
    /\ UNCHANGED <<manager, reader, ui, nextBlock, used, born, flushed, floor, stale, missed>>

Worker(w) ==
    \/ WorkerEnter(w) \/ WorkerBlock(w) \/ WorkerSnapshot(w) \/ WorkerProcess(w)

-----------------------------------------------------------------------------
(* feed(), on the reader thread of the source                              *)

\* feed() returns at once while run_ is false: such a block changes nothing,
\* so only accepted blocks are numbered.
FeedBegin ==
    /\ srcOn /\ feedPc = "idle" /\ run /\ nextBlock <= MaxBlocks
    /\ nextBlock' = nextBlock + 1
    /\ feedEnd' = vecLen
    /\ feedAt' = IF vecLen = 0 THEN None ELSE 1
    /\ feedPc' = IF vecLen = 0 THEN "idle" ELSE "check"
    /\ UNCHANGED <<manager, threads, srcOn, ui, used, born, flushed, floor, heard,
                   late, stale, missed>>

\* workers_ is not the vector the loop started on: the iterators may dangle.
VectorChanged == vecLen # feedEnd

FeedNext ==
    IF feedAt = feedEnd
    THEN feedPc' = "idle" /\ feedAt' = None /\ feedEnd' = None
    ELSE feedPc' = "check" /\ feedAt' = feedAt + 1 /\ UNCHANGED feedEnd

\* count.load() == 0 : skip the worker.
FeedCheck ==
    /\ feedPc = "check" /\ ~VectorChanged
    /\ \/ /\ count[feedAt] = 0
          /\ FeedNext
       \/ /\ count[feedAt] # 0
          /\ feedPc' = "push"
          /\ UNCHANGED <<feedAt, feedEnd>>
    /\ UNCHANGED <<manager, threads, srcOn, ui, history>>

\* Mutant: the dropped block is not counted.
DropsSilently ==
    /\ feedPc = "push" /\ ~VectorChanged /\ wpc[feedAt] # "blocking"
    /\ LET kept == IF Len(queue[feedAt]) >= MaxQueue THEN Tail(queue[feedAt]) ELSE queue[feedAt]
       IN  queue' = [queue EXCEPT ![feedAt] = Append(kept, nextBlock - 1)]
    /\ feedPc' = "notify"
    /\ UNCHANGED <<run, vecLen, count, decs, drops, threads, srcOn, feedAt, feedEnd, ui, history>>

\* Mutant: a queue that holds kMaxQueue blocks is not full yet.
DropsTooLate ==
    /\ feedPc = "push" /\ ~VectorChanged /\ wpc[feedAt] # "blocking"
    /\ LET full == Len(queue[feedAt]) > MaxQueue
           kept == IF full THEN Tail(queue[feedAt]) ELSE queue[feedAt]
       IN  /\ queue' = [queue EXCEPT ![feedAt] = Append(kept, nextBlock - 1)]
           /\ drops' = IF full THEN drops + 1 ELSE drops
    /\ feedPc' = "notify"
    /\ UNCHANGED <<run, vecLen, count, decs, threads, srcOn, feedAt, feedEnd, ui, history>>

\* Under qMtx: drop the oldest block of a full queue, then push.
FeedPush ==
    /\ feedPc = "push" /\ ~VectorChanged /\ wpc[feedAt] # "blocking"
    /\ LET w == feedAt
           full == Len(queue[w]) >= MaxQueue
           kept == IF full THEN Tail(queue[w]) ELSE queue[w]
       IN  /\ queue' = [queue EXCEPT ![w] = Append(kept, nextBlock - 1)]
           /\ drops' = IF full THEN drops + 1 ELSE drops
    /\ feedPc' = "notify"
    /\ UNCHANGED <<run, vecLen, count, decs, threads, srcOn, feedAt, feedEnd, ui, history>>

\* Mutant: the block is pushed and nobody is woken.
PushesWithoutNotify ==
    /\ feedPc = "notify" /\ ~VectorChanged
    /\ FeedNext
    /\ UNCHANGED <<manager, threads, srcOn, ui, history>>

FeedNotify ==
    /\ feedPc = "notify" /\ ~VectorChanged
    /\ wpc' = Notified(feedAt)
    /\ FeedNext
    /\ UNCHANGED <<manager, snap, block, srcOn, ui, history>>

\* Undefined behaviour: the loop goes on over a vector another thread resized.
\* It may end there, or pass over the element it has read.
FeedStale ==
    /\ feedPc # "idle" /\ VectorChanged
    /\ \/ feedPc' = "idle" /\ feedAt' = None /\ feedEnd' = None
       \/ FeedNext
    /\ UNCHANGED <<manager, threads, srcOn, ui, history>>

Feed == FeedCheck \/ FeedPush \/ FeedNotify \/ FeedStale

\* The device is unplugged, the file ends, the connection is lost.
SourceEnds ==
    /\ srcOn /\ feedPc = "idle"
    /\ srcOn' = FALSE
    /\ UNCHANGED <<manager, threads, feedPc, feedAt, feedEnd, ui, history>>

-----------------------------------------------------------------------------
(* The UI thread                                                           *)

Begin(o, first) ==
    /\ op = "idle"
    /\ op' = o /\ uiPc' = first /\ uiAt' = None
    /\ UNCHANGED <<manager, threads, reader, history>>

\* Mutant: the Stop button stops the manager and leaves the source running.
StopsManagerFirst == srcOn /\ Begin("stop", "runOff")

\* The Start button (startActive), the Stop button, the end of main.
PressStart == Begin("start", "srcStop")
PressStop  == srcOn /\ Begin("stop", "srcStop")
Exit       == Begin("exit", "runOff")

Goto(pc) == uiPc' = pc /\ UNCHANGED <<op, uiAt>>
Return   == op' = "idle" /\ uiPc' = "idle" /\ uiAt' = None

\* The step of a loop over workers_ that ends in `next`.
LoopTo(next) ==
    /\ UNCHANGED op
    /\ IF uiAt < vecLen THEN uiAt' = uiAt + 1 /\ UNCHANGED uiPc
       ELSE uiAt' = None /\ uiPc' = next

\* workers_ changes here: is feed() between two elements of it?
NoteChange == stale' = IF feedPc = "idle" THEN stale ELSE stale \cup {op}

EnterLoop(pc, after) ==
    /\ UNCHANGED op
    /\ IF vecLen = 0 THEN uiPc' = after /\ uiAt' = None
       ELSE uiPc' = pc /\ uiAt' = 1

\* The source's stop() joins its reader thread.
SourceStop ==
    /\ uiPc = "srcStop" /\ feedPc = "idle"
    /\ srcOn' = FALSE
    /\ IF op = "exit" THEN Goto("done") ELSE Goto("runOff")
    /\ UNCHANGED <<manager, threads, feedPc, feedAt, feedEnd, history>>

\* stop(): run_.store(false), without qMtx
StopRunOff ==
    /\ uiPc = "runOff"
    /\ run' = FALSE
    /\ EnterLoop("notify", "clear")
    /\ UNCHANGED <<vecLen, queue, count, decs, drops, threads, reader, history>>

\* Mutant: only a worker with something queued is woken.
NotifiesBusyOnly ==
    /\ uiPc = "notify"
    /\ wpc' = IF queue[uiAt] # <<>> THEN Notified(uiAt) ELSE wpc
    /\ missed' = IF wpc[uiAt] = "blocking" THEN missed \cup {uiAt} ELSE missed
    /\ IF uiAt < vecLen THEN LoopTo("notify") ELSE EnterLoop("join", "clear")
    /\ UNCHANGED <<manager, snap, block, reader, nextBlock, used, born, flushed, floor,
                   heard, late, stale>>

\* stop(): notify_all for each worker, without qMtx
StopNotify ==
    /\ uiPc = "notify"
    /\ wpc' = Notified(uiAt)
    /\ missed' = IF wpc[uiAt] = "blocking" THEN missed \cup {uiAt} ELSE missed
    /\ IF uiAt < vecLen THEN LoopTo("notify") ELSE EnterLoop("join", "clear")
    /\ UNCHANGED <<manager, snap, block, reader, nextBlock, used, born, flushed, floor,
                   heard, late, stale>>

\* Mutant: the threads are not waited for.
DoesNotJoin ==
    /\ uiPc = "join"
    /\ LoopTo("clear")
    /\ UNCHANGED <<manager, threads, reader, history>>

\* stop(): join each worker's thread
StopJoin ==
    /\ uiPc = "join" /\ wpc[uiAt] = "exited"
    /\ LoopTo("clear")
    /\ UNCHANGED <<manager, threads, reader, history>>

\* stop(): workers_.clear() destroys the queues and the decoders.
StopClear ==
    /\ uiPc = "clear"
    /\ vecLen' = 0
    /\ queue' = [w \in Workers |-> <<>>]
    /\ count' = [w \in Workers |-> 0]
    /\ decs'  = [w \in Workers |-> {}]
    /\ wpc'   = [w \in Workers |-> "none"]
    /\ block' = [w \in Workers |-> None]
    /\ missed' = {}
    /\ flushed' = [w \in Workers |-> None]
    /\ NoteChange
    /\ \/ op = "start" /\ Goto("srcStart")
       \/ op = "stop" /\ Return
       \/ op = "exit" /\ Goto("srcStop")
    /\ UNCHANGED <<run, drops, snap, reader, nextBlock, used, born, floor, heard, late>>

\* The source starts to deliver before decoders.start() runs; or it fails.
SourceStart ==
    /\ uiPc = "srcStart"
    /\ \/ srcOn' = TRUE /\ Goto("runOn")
       \/ UNCHANGED srcOn /\ Return
    /\ UNCHANGED <<manager, threads, feedPc, feedAt, feedEnd, history>>

\* start(): run_ is set before workers_ is filled (stop() has just emptied it).
StartRunOn ==
    /\ uiPc = "runOn"
    /\ run' = TRUE
    /\ Goto("push")
    /\ UNCHANGED <<vecLen, queue, count, decs, drops, threads, reader, history>>

StartPush ==
    /\ uiPc = "push"
    /\ vecLen' = vecLen + 1
    /\ NoteChange
    /\ IF vecLen' < NWorkers THEN UNCHANGED ui
       ELSE uiPc' = "launch" /\ uiAt' = 1 /\ UNCHANGED op
    /\ UNCHANGED <<run, queue, count, decs, drops, threads, reader,
                   nextBlock, used, born, flushed, floor, heard, late, missed>>

StartLaunch ==
    /\ uiPc = "launch"
    /\ wpc' = [wpc EXCEPT ![uiAt] = "ready"]
    /\ IF uiAt < vecLen THEN LoopTo("launch") ELSE Return
    /\ UNCHANGED <<manager, snap, block, reader, history>>

\* addDecoder: -1 without workers; the decoder joins some worker's sub-bands.
AddDecoder ==
    /\ op = "idle" /\ vecLen > 0
    /\ \E w \in 1 .. vecLen, d \in Decoders \ used :
        /\ used' = used \cup {d}
        /\ decs' = [decs EXCEPT ![w] = @ \cup {d}]
        /\ count' = [count EXCEPT ![w] = @ + 1]
        /\ born' = [born EXCEPT ![d] = nextBlock]
        /\ floor' = [floor EXCEPT ![d] = flushed[w]]
    /\ UNCHANGED <<run, vecLen, queue, drops, threads, reader, ui,
                   nextBlock, flushed, heard, late, stale, missed>>

RemoveDecoder ==
    /\ op = "idle"
    /\ \E w \in 1 .. vecLen : \E d \in decs[w] :
        /\ decs' = [decs EXCEPT ![w] = @ \ {d}]
        /\ count' = [count EXCEPT ![w] = @ - 1]
    /\ UNCHANGED <<run, vecLen, queue, drops, threads, reader, ui, history>>

\* The Remove all button and every retune.
BeginRemoveAll == vecLen > 0 /\ op = "idle" /\ op' = "removeAll" /\ uiPc' = "removeAll"
                  /\ uiAt' = 1 /\ UNCHANGED <<manager, threads, reader, history>>

\* Mutant: the queued blocks of the old centre stay.
KeepsQueue ==
    /\ uiPc = "removeAll" /\ wpc[uiAt] # "blocking"
    /\ decs' = [decs EXCEPT ![uiAt] = {}]
    /\ count' = [count EXCEPT ![uiAt] = 0]
    /\ flushed' = [flushed EXCEPT ![uiAt] = nextBlock]
    /\ IF uiAt < vecLen THEN LoopTo("removeAll") ELSE Return
    /\ UNCHANGED <<run, vecLen, queue, drops, threads, reader,
                   nextBlock, used, born, floor, heard, late, stale, missed>>

\* removeAll, one worker: under dMtx drop the decoders, then under qMtx the blocks.
RemoveAll ==
    /\ uiPc = "removeAll" /\ wpc[uiAt] # "blocking"
    /\ decs' = [decs EXCEPT ![uiAt] = {}]
    /\ count' = [count EXCEPT ![uiAt] = 0]
    /\ queue' = [queue EXCEPT ![uiAt] = <<>>]
    /\ flushed' = [flushed EXCEPT ![uiAt] =
           IF used # Decoders
              /\ (wpc[uiAt] = "popped" \/ feedAt \in 1 .. uiAt \/ queue'[uiAt] # <<>>)
           THEN nextBlock ELSE None]
    /\ IF uiAt < vecLen THEN LoopTo("removeAll") ELSE Return
    /\ UNCHANGED <<run, vecLen, drops, threads, reader,
                   nextBlock, used, born, floor, heard, late, stale, missed>>

UiStep ==
    \/ SourceStop \/ StopRunOff \/ StopNotify \/ StopJoin \/ StopClear
    \/ SourceStart \/ StartRunOn \/ StartPush \/ StartLaunch \/ RemoveAll

User ==
    \/ PressStart \/ PressStop \/ Exit
    \/ AddDecoder \/ RemoveDecoder \/ BeginRemoveAll

-----------------------------------------------------------------------------

Next ==
    \/ \E w \in Workers : Worker(w) \/ SpuriousWake(w)
    \/ FeedBegin \/ Feed \/ SourceEnds
    \/ UiStep \/ User

Spec == Init /\ [][Next]_vars

\* Threads that can run do: a worker, a feed() already begun, an operation of
\* the UI thread already begun.  Nobody has to press a button, deliver a block,
\* or wake a waiting thread spuriously.
Fairness ==
    /\ \A w \in Workers : WF_vars(Worker(w))
    /\ WF_vars(Feed)
    /\ WF_vars(UiStep)

FairSpec == Spec /\ Fairness

-----------------------------------------------------------------------------
(* Properties                                                              *)

WorkerPcs == {"none", "ready", "blocking", "waiting", "popped", "working", "exited"}
UiPcs == {"idle", "srcStop", "runOff", "notify", "join", "clear", "srcStart", "runOn",
          "push", "launch", "removeAll", "done"}
Ops == {"idle", "start", "stop", "exit", "removeAll"}
Blocks == 1 .. MaxBlocks

TypeOK ==
    /\ run \in BOOLEAN /\ vecLen \in 0 .. NWorkers /\ drops \in Nat
    /\ queue \in [Workers -> Seq(Blocks)]
    /\ count \in [Workers -> Nat]
    /\ decs \in [Workers -> SUBSET Decoders]
    /\ wpc \in [Workers -> WorkerPcs]
    /\ snap \in [Workers -> SUBSET Decoders]
    /\ block \in [Workers -> Blocks \cup {None}]
    /\ srcOn \in BOOLEAN /\ feedPc \in {"idle", "check", "push", "notify"}
    /\ feedAt \in Workers \cup {None} /\ feedEnd \in 0 .. NWorkers
    /\ op \in Ops /\ uiPc \in UiPcs /\ uiAt \in Workers \cup {None}
    /\ nextBlock \in 1 .. MaxBlocks + 1
    /\ used \in SUBSET Decoders /\ stale \in SUBSET Ops /\ missed \in SUBSET Workers
    /\ born \in [Decoders -> Nat] /\ floor \in [Decoders -> Nat] /\ flushed \in [Workers -> Nat]
    /\ heard \in [Decoders -> Seq(Blocks)]
    /\ late \in [Decoders -> Nat]

\* The blocks from the decoder's first on that it has passed over.
Missing(d) ==
    LET got == {heard[d][i] : i \in 1 .. Len(heard[d])}
    IN  {b \in born[d] .. nextBlock : b \notin got /\ \E c \in got : b < c}

\* A decoder hears the stream in order, and every gap in it is a block feed()
\* counted in drops_: neither the skip of workers without decoders, nor the
\* queue that removeAll clears, nor the snapshot loses one silently.
NoSilentGap ==
    \A d \in Decoders :
        /\ \A i \in 1 .. Len(heard[d]) - 1 : heard[d][i] < heard[d][i + 1]
        /\ Cardinality(Missing(d)) <= drops

\* Processing runs outside dMtx, so a decoder may still decode after
\* removeDecoder or removeAll returned, but only the block in flight.
LateAtMostOnce == \A d \in Decoders : late[d] <= 1

\* feed() walks workers_ without a lock.  The Stop button stops the source first;
\* what is left unprotected is start() (run_ is set before workers_ is filled)
\* and the end of main (the manager stops before the source).
VectorChangesUnderFeedOnlyInStartOrExit == stale \subseteq {"start", "exit"}

\* clear() runs when every thread of the pool has left workerLoop: destroying a
\* joinable std::thread, or a decoder in process(), would end the program.
ClearsOnlyWhatNobodyUses ==
    uiPc = "clear" => \A w \in Workers : wpc[w] \in {"none", "exited"} /\ snap[w] = {}

\* A retune removes all decoders and adds them again on the new centre.  The new
\* ones hear at most two blocks fed before the removal: one their worker had taken
\* off its queue without a snapshot yet, and one feed() was about to push.
RetuneLeavesAtMostTwoOldBlocks ==
    \A d \in Decoders :
        Cardinality({i \in 1 .. Len(heard[d]) : heard[d][i] < floor[d]}) <= 2

\* A queue never exceeds its bound and keeps the blocks in the order they were fed.
QueueBoundedInOrder ==
    \A w \in Workers :
        /\ Len(queue[w]) <= MaxQueue
        /\ \A i, j \in 1 .. Len(queue[w]) : i < j => queue[w][i] < queue[w][j]

\* stop() can hang in join() for one reason only: a worker that had found its
\* queue empty and run_ still set, and had not blocked yet when it was notified.
StopHangsOnlyOnMissedNotify ==
    (uiPc = "join") ~> (uiPc # "join" \/ \E w \in missed : wpc[w] = "waiting")

\* A block that is queued is decoded or dropped, unless the manager stops.
QueuedBlockLeaves ==
    \A w \in Workers, b \in Blocks :
        (\E i \in 1 .. Len(queue[w]) : queue[w][i] = b)
            ~> (~run \/ ~\E i \in 1 .. Len(queue[w]) : queue[w][i] = b)

\* TESTING.md:23-25, "Repeat start/stop ... the app should report failure without
\* hanging": stop() gets past the join.
StopReturns == (uiPc = "join") ~> (uiPc # "join")
=============================================================================
