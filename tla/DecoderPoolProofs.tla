-------------------------- MODULE DecoderPoolProofs --------------------------
(***************************************************************************)
(* Theorems about the threads of DecoderPool, for every number of workers, *)
(* set of decoders, queue bound and number of blocks: which thread can be  *)
(* where while the UI thread starts, stops or empties the manager; then    *)
(* the blocks that go through it: what a decoder hears is in order, a      *)
(* block it misses is a counted drop, and what it hears after it was taken *)
(* away, or from before a retune, is bounded.                              *)
(***************************************************************************)
EXTENDS DecoderPool, FiniteSetTheorems, SequenceTheorems, TLAPS

(* The inductive invariant, part by part.                                  *)

\* The operation a program counter of the UI thread belongs to.
OpMatchesPc ==
    /\ op = "idle" <=> uiPc = "idle"
    /\ op = "removeAll" <=> uiPc = "removeAll"
    /\ uiPc \in {"srcStart", "runOn", "push", "launch"} => op = "start"
    /\ uiPc = "done" => op = "exit"

\* The loops over workers_ point at one of them; outside a loop uiAt points at none.
LoopInRange ==
    /\ uiPc \in {"notify", "join", "launch", "removeAll"} => uiAt \in 1 .. vecLen
    /\ uiPc \notin {"notify", "join", "launch", "removeAll"} => uiAt = None

\* workers_ is empty from clear() to start()'s first push_back, and holds NWorkers
\* workers once start() launches the threads.
VectorMatchesPc ==
    /\ uiPc \in {"srcStart", "runOn", "done"} => vecLen = 0
    /\ uiPc = "push" => vecLen < NWorkers
    /\ uiPc = "launch" => vecLen = NWorkers
    /\ op = "exit" /\ uiPc = "srcStop" => vecLen = 0

\* run_ is set only while there are workers, or start() is about to push them.
RunMatchesPc ==
    /\ uiPc \in {"notify", "join", "clear", "srcStart", "runOn"} => ~run
    /\ uiPc \in {"push", "launch"} => run
    /\ ~run /\ vecLen # 0 => uiPc \in {"notify", "join", "clear"}

\* A thread runs for each worker of workers_, except those start() has still to
\* launch, and for no other.
ThreadPerWorker ==
    \A w \in Workers :
        wpc[w] = "none" <=> \/ w > vecLen
                            \/ uiPc = "push"
                            \/ uiPc = "launch" /\ w >= uiAt

\* A thread leaves workerLoop only after run_ was cleared, and join() waits for it.
ThreadsLeave ==
    \A w \in Workers :
        /\ wpc[w] = "exited" => ~run
        /\ uiPc = "join" /\ w < uiAt => wpc[w] = "exited"
        /\ uiPc = "clear" /\ w <= vecLen => wpc[w] = "exited"

\* A worker holds a snapshot only while it works through it, and a block from the
\* pop to the end of the snapshot.
SnapshotInLoop ==
    \A w \in Workers :
        /\ snap[w] # {} <=> wpc[w] = "working"
        /\ block[w] # None <=> wpc[w] \in {"popped", "working"}

\* feed()'s loop is within the vector it started on, on a thread the source has.
FeedInRange ==
    /\ feedPc = "idle" => feedAt = None /\ feedEnd = None
    /\ feedPc # "idle" => feedAt \in 1 .. feedEnd /\ nextBlock > 1 /\ srcOn

\* The Start and the Stop button stop the source before the manager.
SourceStoppedFirst ==
    /\ op \in {"start", "stop"} /\ uiPc \in {"runOff", "notify", "join", "clear", "srcStart"}
           => ~srcOn
    /\ uiPc = "done" => ~srcOn

\* Worker::count is the number of the worker's decoders, each of them one that
\* addDecoder made; what is not in workers_ has none.
CountInv ==
    \A w \in Workers :
        /\ count[w] = Cardinality(decs[w]) /\ decs[w] \subseteq used
        /\ w > vecLen => decs[w] = {} /\ queue[w] = <<>>

UiInv == OpMatchesPc /\ LoopInRange /\ VectorMatchesPc /\ RunMatchesPc /\ SourceStoppedFirst
ThreadInv == ThreadPerWorker /\ ThreadsLeave /\ SnapshotInLoop

ControlInv ==
    /\ TypeOK /\ UiInv /\ ThreadInv /\ FeedInRange /\ CountInv
    /\ VectorChangesUnderFeedOnlyInStartOrExit

-----------------------------------------------------------------------------
(* What the steps of each thread leave alone.                              *)

LEMMA WorkerFrame ==
    ASSUME NEW w \in Workers, Worker(w) \/ SpuriousWake(w)
    PROVE  UNCHANGED <<run, vecLen, count, decs, drops, reader, ui,
                       nextBlock, used, born, flushed, floor, stale, missed>>
BY DEF Worker, WorkerEnter, WorkerBlock, SpuriousWake, WorkerSnapshot, WorkerProcess,
       manager, history

LEMMA FeedFrame ==
    ASSUME FeedBegin \/ Feed \/ SourceEnds
    PROVE  UNCHANGED <<run, vecLen, count, decs, snap, block, ui,
                       used, born, flushed, floor, heard, late, stale, missed>>
BY DEF Feed, FeedBegin, FeedCheck, FeedPush, FeedNotify, FeedStale, SourceEnds,
       manager, threads, history

LEMMA UiFrame ==
    ASSUME UiStep
    PROVE  UNCHANGED <<drops, snap, feedPc, feedAt, feedEnd,
                       nextBlock, used, born, floor, heard, late>>
BY DEF UiStep, SourceStop, StopRunOff, StopNotify, StopJoin, StopClear, SourceStart,
       StartRunOn, StartPush, StartLaunch, RemoveAll, manager, threads, reader, history

LEMMA UserFrame ==
    ASSUME User
    PROVE  UNCHANGED <<run, vecLen, queue, drops, threads, reader,
                       nextBlock, flushed, heard, late, stale, missed>>
BY DEF User, PressStart, PressStop, Exit, Begin, AddDecoder, RemoveDecoder, BeginRemoveAll,
       manager, history

-----------------------------------------------------------------------------
(* The UI thread's own part of the invariant.                              *)

UiTypes ==
    /\ run \in BOOLEAN /\ srcOn \in BOOLEAN /\ vecLen \in 0 .. NWorkers
    /\ op \in Ops /\ uiPc \in UiPcs /\ uiAt \in Workers \cup {None}

LEMMA UiKept ==
    ASSUME UiTypes, UiInv, Next
    PROVE  UiTypes' /\ UiInv'
<1> USE PoolAssumption DEF PoolAssumption, UiTypes, Ops, UiPcs, Workers, None, UiInv, OpMatchesPc,
        LoopInRange, VectorMatchesPc, RunMatchesPc, SourceStoppedFirst, reader, ui
<1>1. ASSUME NEW w \in Workers, Worker(w) \/ SpuriousWake(w)
      PROVE  UiTypes' /\ UiInv'
    <2>1. UNCHANGED <<run, vecLen, srcOn, op, uiPc, uiAt>>
        BY <1>1, WorkerFrame
    <2>2. QED BY <2>1
<1>2. CASE FeedBegin \/ Feed \/ SourceEnds
    <2>1. UNCHANGED <<run, vecLen, op, uiPc, uiAt>>
        BY <1>2, FeedFrame
    <2>2. CASE FeedBegin \/ Feed
        <3>1. UNCHANGED srcOn
            BY <2>2 DEF Feed, FeedBegin, FeedCheck, FeedPush, FeedNotify, FeedStale
        <3>2. QED BY <2>1, <3>1
    <2>3. CASE SourceEnds
        BY <2>1, <2>3 DEF SourceEnds
    <2>4. QED BY <1>2, <2>2, <2>3
<1>3. CASE UiStep
    <2>1. CASE SourceStop
        BY <2>1 DEF SourceStop, Goto, manager
    <2>2. CASE StopRunOff
        <3>1. CASE vecLen = 0
            BY <2>2, <3>1 DEF StopRunOff, EnterLoop
        <3>2. CASE vecLen # 0
            <4>1. /\ run' = FALSE /\ uiPc' = "notify" /\ uiAt' = 1
                  /\ UNCHANGED <<vecLen, op, srcOn>>
                BY <2>2, <3>2 DEF StopRunOff, EnterLoop
            <4>2. uiPc = "runOff"
                BY <2>2 DEF StopRunOff
            <4>3. UiTypes'
                <5>1. 1 \in Workers
                    BY <3>2
                <5>2. run' \in BOOLEAN /\ srcOn' \in BOOLEAN
                    BY <4>1
                <5>3. vecLen' \in 0 .. NWorkers
                    BY <4>1
                <5>4. op' \in Ops
                    BY <4>1
                <5>5. uiPc' \in UiPcs
                    BY <4>1
                <5>6. QED BY <4>1, <5>1, <5>2, <5>3, <5>4, <5>5
            <4>4. OpMatchesPc' /\ LoopInRange' /\ VectorMatchesPc'
                BY <3>2, <4>1, <4>2
            <4>5. RunMatchesPc' /\ SourceStoppedFirst'
                BY <3>2, <4>1, <4>2
            <4>6. QED BY <4>3, <4>4, <4>5
        <3>3. QED BY <3>1, <3>2
    <2>3. CASE StopNotify
        BY <2>3 DEF StopNotify, LoopTo, EnterLoop, manager
    <2>4. CASE StopJoin
        BY <2>4 DEF StopJoin, LoopTo, manager
    <2>5. CASE StopClear
        BY <2>5 DEF StopClear, Goto, Return
    <2>6. CASE SourceStart
        BY <2>6 DEF SourceStart, Goto, Return, manager
    <2>7. CASE StartRunOn
        BY <2>7 DEF StartRunOn, Goto
    <2>8. CASE StartPush
        BY <2>8 DEF StartPush
    <2>9. CASE StartLaunch
        BY <2>9 DEF StartLaunch, LoopTo, Return, manager
    <2>10. CASE RemoveAll
        BY <2>10 DEF RemoveAll, LoopTo, Return
    <2>11. QED
        BY <1>3, <2>1, <2>2, <2>3, <2>4, <2>5, <2>6, <2>7, <2>8, <2>9, <2>10 DEF UiStep
<1>4. CASE User
    <2>1. UNCHANGED <<run, vecLen, srcOn>>
        BY <1>4, UserFrame
    <2>2. CASE PressStart \/ PressStop \/ Exit
        BY <2>1, <2>2 DEF PressStart, PressStop, Exit, Begin
    <2>3. CASE AddDecoder \/ RemoveDecoder
        <3>1. UNCHANGED <<op, uiPc, uiAt>>
            BY <2>3 DEF AddDecoder, RemoveDecoder
        <3>2. QED BY <2>1, <3>1
    <2>4. CASE BeginRemoveAll
        BY <2>1, <2>4 DEF BeginRemoveAll
    <2>5. QED BY <1>4, <2>2, <2>3, <2>4 DEF User
<1>5. QED BY <1>1, <1>2, <1>3, <1>4 DEF Next

-----------------------------------------------------------------------------
(* The reader thread's part: feed() is only on a thread the source has.    *)

FeedTypes ==
    /\ feedPc \in {"idle", "check", "push", "notify"}
    /\ feedAt \in Workers \cup {None} /\ feedEnd \in 0 .. NWorkers
    /\ nextBlock \in 1 .. MaxBlocks + 1

\* The step of the loop keeps it inside the vector it started on, or ends it.
LEMMA FeedNextInRange ==
    ASSUME FeedTypes, FeedInRange, feedPc # "idle", FeedNext, UNCHANGED <<nextBlock, srcOn>>
    PROVE  FeedTypes' /\ FeedInRange'
<1> USE PoolAssumption DEF PoolAssumption, FeedTypes, FeedInRange, Workers, None, FeedNext
<1>1. CASE feedAt = feedEnd
    BY <1>1
<1>2. CASE feedAt # feedEnd
    <2>1. feedAt + 1 \in 1 .. feedEnd /\ feedAt + 1 \in Workers
        BY <1>2
    <2>2. QED BY <1>2, <2>1
<1>3. QED BY <1>1, <1>2

LEMMA FeedKept ==
    ASSUME UiTypes, UiInv, FeedTypes, FeedInRange, Next
    PROVE  FeedTypes' /\ FeedInRange'
<1> USE DEF FeedTypes, FeedInRange, Workers, None, reader
<1>1. ASSUME NEW w \in Workers, Worker(w) \/ SpuriousWake(w)
      PROVE  FeedTypes' /\ FeedInRange'
    <2>1. UNCHANGED <<srcOn, feedPc, feedAt, feedEnd, nextBlock>>
        BY <1>1, WorkerFrame
    <2>2. QED BY <2>1
<1>2. CASE FeedBegin
    <2>1. CASE vecLen = 0
        BY <1>2, <2>1, PoolAssumption DEF FeedBegin, UiTypes, PoolAssumption
    <2>2. CASE vecLen # 0
        <3>1. 1 \in 1 .. vecLen /\ 1 \in Workers /\ nextBlock + 1 \in 1 .. MaxBlocks + 1
              /\ nextBlock + 1 > 1 /\ vecLen \in 0 .. NWorkers
            BY <1>2, <2>2, PoolAssumption DEF FeedBegin, UiTypes, PoolAssumption
        <3>2. /\ feedPc' = "check" /\ feedAt' = 1 /\ feedEnd' = vecLen
              /\ nextBlock' = nextBlock + 1 /\ srcOn' /\ UNCHANGED srcOn
            BY <1>2, <2>2 DEF FeedBegin
        <3>3. QED BY <3>1, <3>2
    <2>3. QED BY <2>1, <2>2
<1>3. CASE Feed
    <2>1. UNCHANGED <<nextBlock, srcOn>> /\ feedPc # "idle"
        BY <1>3 DEF Feed, FeedCheck, FeedPush, FeedNotify, FeedStale, history
    <2>2. CASE FeedNext
        BY <2>1, <2>2, FeedNextInRange
    <2>3. CASE feedPc' = "idle" /\ feedAt' = None /\ feedEnd' = None
        BY <2>1, <2>3, PoolAssumption DEF PoolAssumption
    <2>4. CASE feedPc' \in {"push", "notify"} /\ UNCHANGED <<feedAt, feedEnd>>
        BY <2>1, <2>4
    <2>5. QED
        BY <1>3, <2>2, <2>3, <2>4 DEF Feed, FeedCheck, FeedPush, FeedNotify, FeedStale
<1>4. CASE SourceEnds
    BY <1>4 DEF SourceEnds, history
<1>5. CASE UiStep
    <2>1. UNCHANGED <<feedPc, feedAt, feedEnd, nextBlock>>
        BY <1>5, UiFrame
    <2>2. srcOn' = srcOn \/ feedPc = "idle" \/ srcOn'
        BY <1>5 DEF UiStep, SourceStop, StopRunOff, StopNotify, StopJoin, StopClear,
            SourceStart, StartRunOn, StartPush, StartLaunch, RemoveAll
    <2>3. QED BY <2>1, <2>2
<1>6. CASE User
    <2>1. UNCHANGED <<srcOn, feedPc, feedAt, feedEnd, nextBlock>>
        BY <1>6, UserFrame
    <2>2. QED BY <2>1
<1>7. QED BY <1>1, <1>2, <1>3, <1>4, <1>5, <1>6 DEF Next

\* workers_ changes in clear() and in start()'s push_back only; by then the Stop
\* button has stopped the source.
LEMMA StaleKept ==
    ASSUME UiTypes, UiInv, FeedInRange, VectorChangesUnderFeedOnlyInStartOrExit, Next
    PROVE  VectorChangesUnderFeedOnlyInStartOrExit'
<1> USE DEF VectorChangesUnderFeedOnlyInStartOrExit
<1>1. CASE StopClear \/ StartPush
    <2>1. stale' = stale \/ (stale' = stale \cup {op} /\ feedPc # "idle")
        BY <1>1 DEF StopClear, StartPush, NoteChange
    <2>2. CASE feedPc # "idle"
        <3>1. srcOn /\ uiPc \in {"clear", "push"}
            BY <1>1, <2>2 DEF FeedInRange, StopClear, StartPush
        <3>2. op \in {"start", "exit"}
            BY <3>1 DEF UiTypes, UiInv, OpMatchesPc, SourceStoppedFirst, Ops
        <3>3. QED BY <2>1, <3>2
    <2>3. QED BY <2>1, <2>2
<1>2. CASE ~(StopClear \/ StartPush)
    <2>1. UNCHANGED stale
        <3>1. ASSUME NEW w \in Workers, Worker(w) \/ SpuriousWake(w)
              PROVE  UNCHANGED stale
            BY <3>1, WorkerFrame
        <3>2. CASE FeedBegin \/ Feed \/ SourceEnds
            BY <3>2, FeedFrame
        <3>3. CASE UiStep
            BY <1>2, <3>3 DEF UiStep, SourceStop, StopRunOff, StopNotify, StopJoin,
                SourceStart, StartRunOn, StartLaunch, RemoveAll, history
        <3>4. CASE User
            BY <3>4, UserFrame
        <3>5. QED BY <3>1, <3>2, <3>3, <3>4 DEF Next
    <2>2. QED BY <2>1
<1>3. QED BY <1>1, <1>2

-----------------------------------------------------------------------------
(* The worker threads' part.                                               *)

ThreadTypes ==
    /\ wpc \in [Workers -> WorkerPcs]
    /\ snap \in [Workers -> SUBSET Decoders]
    /\ block \in [Workers -> Blocks \cup {None}]

TableTypes ==
    /\ queue \in [Workers -> Seq(Blocks)]
    /\ count \in [Workers -> Nat]
    /\ decs \in [Workers -> SUBSET Decoders] /\ used \in SUBSET Decoders

\* A step of workerLoop leaves the thread in the loop or ends it, and keeps the
\* snapshot and the block in step with where it is.
LEMMA WorkerKeepsLoop ==
    ASSUME ThreadTypes, ThreadInv, TableTypes, NEW w \in Workers, Worker(w) \/ SpuriousWake(w)
    PROVE  /\ ThreadTypes' /\ SnapshotInLoop'
           /\ wpc[w] \notin {"none", "exited"} /\ wpc'[w] # "none"
           /\ wpc'[w] = "exited" => ~run
           /\ \A v \in Workers \ {w} : wpc'[v] = wpc[v]
<1> USE DEF ThreadTypes, ThreadInv, SnapshotInLoop, WorkerPcs
<1>1. CASE WorkerEnter(w)
    <2>1. CASE queue[w] # <<>>
        <3>1. Head(queue[w]) \in Blocks
            BY <2>1, HeadTailProperties DEF TableTypes
        <3>2. Head(queue[w]) # None
            BY <3>1 DEF Blocks, None
        <3>3. QED BY <1>1, <2>1, <3>1, <3>2 DEF WorkerEnter
    <2>2. CASE queue[w] = <<>>
        BY <1>1, <2>2 DEF WorkerEnter
    <2>3. QED BY <2>1, <2>2
<1>2. CASE WorkerBlock(w) \/ SpuriousWake(w)
    BY <1>2 DEF WorkerBlock, SpuriousWake
<1>3. CASE WorkerSnapshot(w)
    BY <1>3 DEF WorkerSnapshot, WorkerIdle, TableTypes
<1>4. CASE WorkerProcess(w)
    <2>1. PICK d \in snap[w] :
              /\ snap' = [snap EXCEPT ![w] = @ \ {d}]
              /\ IF snap[w] = {d} THEN WorkerIdle(w) ELSE UNCHANGED <<wpc, block>>
        BY <1>4 DEF WorkerProcess
    <2>2. wpc[w] = "working"
        BY <1>4 DEF WorkerProcess
    <2>3. CASE snap[w] = {d}
        BY <2>1, <2>2, <2>3 DEF WorkerIdle
    <2>4. CASE snap[w] # {d}
        <3>1. snap[w] \ {d} # {}
            BY <2>4
        <3>2. QED BY <2>1, <2>2, <2>4, <3>1
    <2>5. QED BY <2>3, <2>4
<1>5. QED BY <1>1, <1>2, <1>3, <1>4 DEF Worker

\* A notification wakes a waiting thread and does nothing else.
LEMMA NotifiedWakes ==
    ASSUME ThreadTypes, ThreadInv, NEW w \in Workers, wpc' = Notified(w), UNCHANGED <<snap, block>>
    PROVE  /\ ThreadTypes' /\ SnapshotInLoop'
           /\ \A v \in Workers : /\ wpc'[v] = "none" <=> wpc[v] = "none"
                                 /\ wpc'[v] = "exited" <=> wpc[v] = "exited"
BY DEF ThreadTypes, ThreadInv, SnapshotInLoop, Notified, WorkerPcs

LEMMA ThreadKept ==
    ASSUME UiTypes, UiInv, FeedTypes, FeedInRange, ThreadTypes, ThreadInv, TableTypes, Next
    PROVE  ThreadTypes' /\ ThreadInv'
<1> USE DEF ThreadInv, ThreadPerWorker, ThreadsLeave
<1>1. ASSUME NEW w \in Workers, Worker(w) \/ SpuriousWake(w)
      PROVE  ThreadTypes' /\ ThreadInv'
    <2>1. UNCHANGED <<run, vecLen, uiPc, uiAt>>
        BY <1>1, WorkerFrame DEF ui
    <2>2. QED BY <1>1, <2>1, WorkerKeepsLoop
<1>2. CASE FeedBegin \/ Feed \/ SourceEnds
    <2>1. UNCHANGED <<run, vecLen, uiPc, uiAt, snap, block>>
        BY <1>2, FeedFrame DEF ui
    <2>2. CASE FeedNotify
        <3>1. feedAt \in Workers /\ wpc' = Notified(feedAt)
            BY <2>2, PoolAssumption DEF FeedNotify, FeedInRange, FeedTypes, Workers, PoolAssumption
        <3>2. QED BY <2>1, <3>1, NotifiedWakes
    <2>3. CASE ~FeedNotify
        <3>1. UNCHANGED wpc
            BY <1>2, <2>3 DEF Feed, FeedBegin, FeedCheck, FeedPush, FeedStale, SourceEnds, threads
        <3>2. QED BY <2>1, <3>1 DEF ThreadTypes, SnapshotInLoop
    <2>4. QED BY <2>2, <2>3
<1>3. CASE UiStep
    <2>s. UNCHANGED snap
        BY <1>3, UiFrame
    <2>1. CASE StopRunOff
        <3>1. /\ uiPc = "runOff" /\ run' = FALSE
              /\ UNCHANGED <<vecLen, wpc, block>>
              /\ uiPc' = "notify" \/ (vecLen = 0 /\ uiPc' = "clear")
            BY <2>1 DEF StopRunOff, EnterLoop, threads
        <3>2. ThreadTypes' /\ SnapshotInLoop'
            BY <2>s, <3>1 DEF ThreadTypes, SnapshotInLoop
        <3>3. QED BY <3>1, <3>2 DEF Workers, UiTypes
    <2>2. CASE StopNotify
        <3>1. /\ uiPc = "notify" /\ wpc' = Notified(uiAt) /\ uiAt \in 1 .. vecLen
              /\ UNCHANGED <<run, vecLen, block>>
            BY <2>2 DEF StopNotify, UiInv, LoopInRange, manager
        <3>2. \/ uiPc' = "notify"
              \/ uiPc' = "clear" /\ vecLen = 0
              \/ uiPc' = "join" /\ uiAt' = 1
            BY <2>2, <3>1 DEF StopNotify, LoopTo, EnterLoop
        <3>3. uiAt \in Workers
            BY <3>1, PoolAssumption DEF Workers, UiTypes, PoolAssumption
        <3>4. QED BY <2>s, <3>1, <3>2, <3>3, NotifiedWakes DEF Workers, UiTypes
    <2>3. CASE StopJoin
        <3>1. /\ uiPc = "join" /\ wpc[uiAt] = "exited" /\ uiAt \in 1 .. vecLen
              /\ UNCHANGED <<run, vecLen, wpc, block>>
            BY <2>3 DEF StopJoin, UiInv, LoopInRange, manager, threads
        <3>2. \/ uiPc' = "join" /\ uiAt' = uiAt + 1
              \/ uiPc' = "clear" /\ uiAt = vecLen
            BY <2>3, <3>1 DEF StopJoin, LoopTo, UiTypes
        <3>3. ThreadTypes' /\ SnapshotInLoop'
            BY <2>s, <3>1 DEF ThreadTypes, SnapshotInLoop
        <3>4. QED BY <3>1, <3>2, <3>3 DEF Workers, UiTypes
    <2>4. CASE StopClear
        <3>1. /\ uiPc = "clear" /\ vecLen' = 0
              /\ wpc' = [w \in Workers |-> "none"] /\ block' = [w \in Workers |-> None]
              /\ uiPc' \notin {"push", "launch", "join", "clear"}
            BY <2>4 DEF StopClear, Goto, Return
        <3>2. \A w \in Workers : snap[w] = {}
            BY <3>1 DEF SnapshotInLoop, Workers, UiTypes, ThreadTypes
        <3>3. QED BY <2>s, <3>1, <3>2
                  DEF ThreadTypes, SnapshotInLoop, WorkerPcs, Workers
    <2>5. CASE StartRunOn
        <3>1. /\ vecLen = 0 /\ uiPc = "runOn" /\ uiPc' = "push"
              /\ UNCHANGED <<vecLen, wpc, block>>
            BY <2>5 DEF StartRunOn, Goto, UiInv, VectorMatchesPc, threads
        <3>2. \A w \in Workers : wpc[w] = "none"
            BY <3>1 DEF Workers
        <3>3. QED BY <2>s, <3>1, <3>2 DEF ThreadTypes, SnapshotInLoop
    <2>6. CASE StartPush
        <3>1. /\ uiPc = "push" /\ (uiPc' = "push" \/ (uiPc' = "launch" /\ uiAt' = 1))
              /\ UNCHANGED <<run, wpc, block>>
            BY <2>6 DEF StartPush, threads, ui
        <3>2. QED BY <2>s, <3>1 DEF ThreadTypes, SnapshotInLoop, Workers
    <2>7. CASE StartLaunch
        <3>1. /\ uiPc = "launch" /\ uiAt \in Workers /\ vecLen = NWorkers /\ run
              /\ wpc' = [wpc EXCEPT ![uiAt] = "ready"] /\ UNCHANGED <<run, vecLen, block>>
            BY <2>7 DEF StartLaunch, UiInv, LoopInRange, VectorMatchesPc, RunMatchesPc, manager,
                Workers
        <3>2. \/ uiPc' = "launch" /\ uiAt' = uiAt + 1
              \/ uiPc' = "idle" /\ uiAt = vecLen
            BY <2>7, <3>1 DEF StartLaunch, LoopTo, Return, UiTypes, Workers
        <3>3. wpc[uiAt] = "none" /\ snap[uiAt] = {} /\ block[uiAt] = None
            BY <3>1 DEF SnapshotInLoop, Workers
        <3>4. ThreadTypes' /\ SnapshotInLoop'
            BY <2>s, <3>1, <3>3 DEF ThreadTypes, SnapshotInLoop, WorkerPcs
        <3>5. QED BY <3>1, <3>2, <3>4, PoolAssumption DEF ThreadTypes, Workers, PoolAssumption
    <2>8. CASE SourceStop \/ SourceStart \/ RemoveAll
        <3>1. /\ uiPc \in {"srcStop", "srcStart", "removeAll"}
              /\ uiPc' \in {"runOff", "done", "runOn", "idle", "removeAll"}
              /\ UNCHANGED <<run, vecLen, wpc, block>>
            BY <2>8 DEF SourceStop, SourceStart, RemoveAll, Goto, Return, LoopTo, manager, threads
        <3>2. QED BY <2>s, <3>1 DEF ThreadTypes, SnapshotInLoop
    <2>9. QED BY <1>3, <2>1, <2>2, <2>3, <2>4, <2>5, <2>6, <2>7, <2>8 DEF UiStep
<1>4. CASE User
    <2>1. UNCHANGED <<run, vecLen, wpc, snap, block>>
        BY <1>4, UserFrame DEF threads
    <2>2. \/ UNCHANGED <<uiPc, uiAt>>
          \/ uiPc = "idle" /\ uiPc' \in {"srcStop", "runOff", "removeAll"}
        BY <1>4 DEF User, PressStart, PressStop, Exit, Begin, AddDecoder, RemoveDecoder,
            BeginRemoveAll, UiInv, OpMatchesPc, ui
    <2>3. QED BY <2>1, <2>2 DEF ThreadTypes, SnapshotInLoop
<1>5. QED BY <1>1, <1>2, <1>3, <1>4 DEF Next

-----------------------------------------------------------------------------
(* The tables: queues, counts and decoders of the workers.                 *)

\* feed() keeps a queue a sequence of blocks, whether it drops the oldest or not.
LEMMA PushTypes ==
    ASSUME FeedTypes, FeedInRange, TableTypes, FeedPush
    PROVE  /\ feedAt \in Workers /\ feedAt <= vecLen
           /\ nextBlock - 1 \in Blocks
           /\ queue' \in [Workers -> Seq(Blocks)]
           /\ \A v \in Workers \ {feedAt} : queue'[v] = queue[v]
<1> USE PoolAssumption DEF PoolAssumption, FeedTypes, FeedInRange, TableTypes, FeedPush
<1>1. feedAt \in Workers /\ feedAt <= vecLen
    BY DEF Workers, VectorChanged
<1>2. nextBlock - 1 \in Blocks
    BY DEF Blocks
<1> DEFINE kept == IF Len(queue[feedAt]) >= MaxQueue THEN Tail(queue[feedAt]) ELSE queue[feedAt]
<1>3. kept \in Seq(Blocks)
    <2>1. queue[feedAt] \in Seq(Blocks) /\ Len(queue[feedAt]) \in Nat
        BY <1>1, LenProperties
    <2>2. CASE Len(queue[feedAt]) >= MaxQueue
        <3>1. queue[feedAt] # <<>>
            BY <2>1, <2>2
        <3>2. QED BY <2>1, <2>2, <3>1, HeadTailProperties
    <2>3. QED BY <2>1, <2>2
<1>4. Append(kept, nextBlock - 1) \in Seq(Blocks)
    BY <1>2, <1>3
<1>5. queue' = [queue EXCEPT ![feedAt] = Append(kept, nextBlock - 1)]
    OBVIOUS
<1>6. QED BY <1>1, <1>2, <1>4, <1>5

LEMMA TableKept ==
    ASSUME UiTypes, UiInv, FeedTypes, FeedInRange, TableTypes, CountInv, Next
    PROVE  TableTypes' /\ CountInv'
<1> USE DEF TableTypes, CountInv
<1>1. ASSUME NEW w \in Workers, Worker(w) \/ SpuriousWake(w)
      PROVE  TableTypes' /\ CountInv'
    <2>1. UNCHANGED <<vecLen, count, decs, used>>
        BY <1>1, WorkerFrame
    <2>2. \/ UNCHANGED queue
          \/ queue[w] # <<>> /\ queue' = [queue EXCEPT ![w] = Tail(@)]
        BY <1>1 DEF Worker, WorkerEnter, WorkerBlock, SpuriousWake, WorkerSnapshot,
            WorkerProcess, manager
    <2>3. queue[w] # <<>> => Tail(queue[w]) \in Seq(Blocks)
        BY HeadTailProperties
    <2>4. QED BY <2>1, <2>2, <2>3
<1>2. CASE FeedBegin \/ Feed \/ SourceEnds
    <2>1. UNCHANGED <<vecLen, count, decs, used>>
        BY <1>2, FeedFrame
    <2>2. CASE FeedPush
        BY <2>1, <2>2, PushTypes DEF FeedTypes, UiTypes, Workers
    <2>3. CASE ~FeedPush
        <3>1. UNCHANGED queue
            BY <1>2, <2>3 DEF FeedBegin, Feed, FeedCheck, FeedNotify, FeedStale, SourceEnds, manager
        <3>2. QED BY <2>1, <3>1
    <2>4. QED BY <2>2, <2>3
<1>3. CASE UiStep
    <2>1. CASE StopClear
        BY <1>3, <2>1, FS_EmptySet, EmptySeq DEF StopClear, history
    <2>2. CASE RemoveAll
        <3>1. uiAt \in Workers
            BY <2>2, PoolAssumption
               DEF RemoveAll, UiTypes, UiInv, LoopInRange, Workers, PoolAssumption
        <3>2. /\ decs' = [decs EXCEPT ![uiAt] = {}]
              /\ count' = [count EXCEPT ![uiAt] = 0]
              /\ queue' = [queue EXCEPT ![uiAt] = <<>>]
              /\ UNCHANGED <<vecLen, used>>
            BY <2>2 DEF RemoveAll
        <3>3. <<>> \in Seq(Blocks)
            BY EmptySeq
        <3>4. QED BY <3>1, <3>2, <3>3, FS_EmptySet
    <2>3. CASE ~(StopClear \/ RemoveAll)
        <3>1. UNCHANGED <<queue, count, decs, used>> /\ vecLen' \in {vecLen, vecLen + 1}
            BY <1>3, <2>3 DEF UiStep, SourceStop, StopRunOff, StopNotify, StopJoin, SourceStart,
                StartRunOn, StartPush, StartLaunch, manager, history
        <3>2. QED BY <3>1 DEF UiTypes, Workers
    <2>4. QED BY <2>1, <2>2, <2>3
<1>4. CASE User
    <2>1. UNCHANGED <<vecLen, queue>>
        BY <1>4, UserFrame
    <2>2. CASE AddDecoder
        <3>1. PICK w \in 1 .. vecLen, d \in Decoders \ used :
                  /\ used' = used \cup {d}
                  /\ decs' = [decs EXCEPT ![w] = @ \cup {d}]
                  /\ count' = [count EXCEPT ![w] = @ + 1]
            BY <2>2 DEF AddDecoder
        <3>2. w \in Workers /\ d \notin decs[w]
            BY PoolAssumption DEF UiTypes, Workers, PoolAssumption
        <3>3. IsFiniteSet(decs[w])
            BY <3>2, FS_Subset, PoolAssumption DEF PoolAssumption
        <3>4. Cardinality(decs[w] \cup {d}) = count[w] + 1
            <4>1. Cardinality(decs[w] \cup {d}) = Cardinality(decs[w]) + 1
                BY <3>2, <3>3, FS_AddElement, Zenon
            <4>2. QED BY <3>2, <4>1
        <3>5. QED BY <2>1, <3>1, <3>2, <3>4 DEF UiTypes, Workers
    <2>3. CASE RemoveDecoder
        <3>1. PICK w \in 1 .. vecLen : \E d \in decs[w] :
                  /\ decs' = [decs EXCEPT ![w] = @ \ {d}]
                  /\ count' = [count EXCEPT ![w] = @ - 1]
            BY <2>3 DEF RemoveDecoder
        <3>2. PICK d \in decs[w] : /\ decs' = [decs EXCEPT ![w] = @ \ {d}]
                                   /\ count' = [count EXCEPT ![w] = @ - 1]
            BY <3>1
        <3>3. w \in Workers
            BY PoolAssumption DEF UiTypes, Workers, PoolAssumption
        <3>4. IsFiniteSet(decs[w])
            BY <3>3, FS_Subset, PoolAssumption DEF PoolAssumption
        <3>5. Cardinality(decs[w] \ {d}) = count[w] - 1 /\ Cardinality(decs[w] \ {d}) \in Nat
            BY <3>2, <3>3, <3>4, FS_RemoveElement, FS_CardinalityType
        <3>6. UNCHANGED used
            BY <2>3 DEF RemoveDecoder, history
        <3>7. QED BY <2>1, <3>2, <3>3, <3>5, <3>6 DEF UiTypes, Workers
    <2>4. CASE ~(AddDecoder \/ RemoveDecoder)
        BY <1>4, <2>1, <2>4 DEF User, PressStart, PressStop, Exit, Begin, BeginRemoveAll,
            manager, history
    <2>5. QED BY <2>2, <2>3, <2>4
<1>5. QED BY <1>1, <1>2, <1>3, <1>4 DEF Next


-----------------------------------------------------------------------------
(* The history variables.                                                  *)

HistoryTypes ==
    /\ drops \in Nat
    /\ stale \in SUBSET Ops /\ missed \in SUBSET Workers
    /\ born \in [Decoders -> Nat] /\ floor \in [Decoders -> Nat] /\ flushed \in [Workers -> Nat]
    /\ heard \in [Decoders -> Seq(Blocks)]
    /\ late \in [Decoders -> Nat]

LEMMA HistoryKept ==
    ASSUME UiTypes, UiInv, FeedTypes, ThreadTypes, ThreadInv, TableTypes, HistoryTypes, Next
    PROVE  HistoryTypes'
<1> USE DEF HistoryTypes
<1>1. ASSUME NEW w \in Workers, Worker(w) \/ SpuriousWake(w)
      PROVE  HistoryTypes'
    <2>1. UNCHANGED <<drops, born, floor, flushed, stale, missed>>
        BY <1>1, WorkerFrame
    <2>2. CASE WorkerProcess(w)
        <3>1. PICK d \in snap[w] :
                  /\ heard' = [heard EXCEPT ![d] = Append(@, block[w])]
                  /\ late' = [late EXCEPT ![d] = IF d \in decs[w] THEN @ ELSE @ + 1]
            BY <2>2 DEF WorkerProcess
        <3>2. block[w] \in Blocks /\ d \in Decoders
            BY <2>2 DEF WorkerProcess, ThreadTypes, ThreadInv, SnapshotInLoop
        <3>3. Append(heard[d], block[w]) \in Seq(Blocks)
            BY <3>2
        <3>4. QED BY <2>1, <3>1, <3>2, <3>3
    <2>3. CASE ~WorkerProcess(w)
        <3>1. UNCHANGED <<heard, late>>
            BY <1>1, <2>3 DEF Worker, WorkerEnter, WorkerBlock, SpuriousWake, WorkerSnapshot, history
        <3>2. QED BY <2>1, <3>1
    <2>4. QED BY <2>2, <2>3
<1>2. CASE FeedBegin \/ Feed \/ SourceEnds
    <2>1. UNCHANGED <<born, floor, flushed, heard, late, stale, missed>>
        BY <1>2, FeedFrame
    <2>2. drops' \in {drops, drops + 1}
        BY <1>2 DEF FeedBegin, Feed, FeedCheck, FeedPush, FeedNotify, FeedStale, SourceEnds, manager
    <2>3. QED BY <2>1, <2>2
<1>3. CASE UiStep
    <2>1. UNCHANGED <<drops, born, floor, heard, late>>
        BY <1>3, UiFrame
    <2>2. stale' \in SUBSET Ops
        BY <1>3 DEF UiStep, SourceStop, StopRunOff, StopNotify, StopJoin, StopClear, SourceStart,
            StartRunOn, StartPush, StartLaunch, RemoveAll, NoteChange, UiTypes, history
    <2>3. missed' \in SUBSET Workers
        <3>1. CASE StopNotify
            <4>1. uiAt \in Workers
                BY <3>1, PoolAssumption
                   DEF StopNotify, UiTypes, UiInv, LoopInRange, Workers, PoolAssumption
            <4>2. QED BY <3>1, <4>1 DEF StopNotify
        <3>2. CASE ~StopNotify
            BY <1>3, <3>2 DEF UiStep, SourceStop, StopRunOff, StopJoin, StopClear, SourceStart,
                StartRunOn, StartPush, StartLaunch, RemoveAll, history
        <3>3. QED BY <3>1, <3>2
    <2>4. flushed' \in [Workers -> Nat]
        <3>1. CASE RemoveAll
            <4>1. PICK n \in {nextBlock, None} : flushed' = [flushed EXCEPT ![uiAt] = n]
                BY <3>1 DEF RemoveAll
            <4>2. n \in Nat
                BY PoolAssumption DEF FeedTypes, None, PoolAssumption
            <4>3. QED BY <4>1, <4>2
        <3>2. CASE StopClear
            BY <3>2 DEF StopClear, None
        <3>3. CASE ~(RemoveAll \/ StopClear)
            BY <1>3, <3>3 DEF UiStep, SourceStop, StopRunOff, StopNotify, StopJoin, SourceStart,
                StartRunOn, StartPush, StartLaunch, history
        <3>4. QED BY <3>1, <3>2, <3>3
    <2>5. QED BY <2>1, <2>2, <2>3, <2>4
<1>4. CASE User
    <2>1. UNCHANGED <<drops, flushed, heard, late, stale, missed>>
        BY <1>4, UserFrame
    <2>2. born' \in [Decoders -> Nat] /\ floor' \in [Decoders -> Nat]
        <3>1. CASE AddDecoder
            <4>1. PICK w \in 1 .. vecLen, d \in Decoders :
                      /\ born' = [born EXCEPT ![d] = nextBlock]
                      /\ floor' = [floor EXCEPT ![d] = flushed[w]]
                BY <3>1 DEF AddDecoder
            <4>2. nextBlock \in Nat /\ flushed[w] \in Nat
                BY PoolAssumption DEF FeedTypes, UiTypes, Workers, PoolAssumption
            <4>3. QED BY <4>1, <4>2
        <3>2. CASE ~AddDecoder
            BY <1>4, <3>2 DEF User, PressStart, PressStop, Exit, Begin, RemoveDecoder,
                BeginRemoveAll, history
        <3>3. QED BY <3>1, <3>2
    <2>3. QED BY <2>1, <2>2
<1>5. QED BY <1>1, <1>2, <1>3, <1>4 DEF Next

-----------------------------------------------------------------------------
(* The theorems.                                                           *)

LEMMA TypeParts ==
    TypeOK <=> UiTypes /\ FeedTypes /\ ThreadTypes /\ TableTypes /\ HistoryTypes
BY DEF TypeOK, UiTypes, FeedTypes, ThreadTypes, TableTypes, HistoryTypes

LEMMA ControlInit == Init => ControlInv
<1> SUFFICES ASSUME Init PROVE ControlInv
    OBVIOUS
<1> USE PoolAssumption DEF PoolAssumption, Init, None, Workers
<1>1. UiTypes /\ FeedTypes
    <2>1. 0 \in 0 .. NWorkers /\ 1 \in 1 .. MaxBlocks + 1
        OBVIOUS
    <2>2. QED BY <2>1 DEF UiTypes, FeedTypes, Ops, UiPcs
<1>2. ThreadTypes /\ TableTypes /\ HistoryTypes
    BY EmptySeq DEF ThreadTypes, TableTypes, HistoryTypes, WorkerPcs
<1>3. UiInv
    BY DEF UiInv, OpMatchesPc, LoopInRange, VectorMatchesPc, RunMatchesPc, SourceStoppedFirst
<1>4. ThreadInv
    BY DEF ThreadInv, ThreadPerWorker, ThreadsLeave, SnapshotInLoop
<1>5. FeedInRange /\ VectorChangesUnderFeedOnlyInStartOrExit
    BY DEF FeedInRange, VectorChangesUnderFeedOnlyInStartOrExit
<1>6. CountInv
    BY FS_EmptySet DEF CountInv
<1>7. QED BY <1>1, <1>2, <1>3, <1>4, <1>5, <1>6, TypeParts DEF ControlInv

LEMMA ControlStep == ControlInv /\ [Next]_vars => ControlInv'
<1> SUFFICES ASSUME ControlInv, [Next]_vars PROVE ControlInv'
    OBVIOUS
<1>1. CASE Next
    BY <1>1, UiKept, FeedKept, StaleKept, ThreadKept, TableKept, HistoryKept, TypeParts
       DEF ControlInv, TypeOK, UiTypes, FeedTypes, ThreadTypes, TableTypes, HistoryTypes
<1>2. CASE UNCHANGED vars
    BY <1>2 DEF vars, manager, threads, reader, ui, history, ControlInv, TypeOK, UiInv,
       OpMatchesPc, LoopInRange, VectorMatchesPc, RunMatchesPc, SourceStoppedFirst, ThreadInv,
       ThreadPerWorker, ThreadsLeave, SnapshotInLoop, FeedInRange, CountInv,
       VectorChangesUnderFeedOnlyInStartOrExit
<1>3. QED BY <1>1, <1>2

\* The invariant of the threads of the pool, of which the properties are parts.
THEOREM ControlCorrect == Spec => []ControlInv
<1>1. QED BY ControlInit, ControlStep, PTL DEF Spec

\* Every variable of the pool stays in its range: no counter falls below zero, no
\* loop leaves workers_, no block is numbered that was not fed.
THEOREM TypeCorrect == Spec => []TypeOK
<1>1. ControlInv => TypeOK
    BY DEF ControlInv
<1>2. QED BY <1>1, ControlCorrect, PTL

\* feed() iterates workers_ without a lock; the vector changes under it in start()
\* and at the end of main only, never when the Stop button is pressed.
THEOREM VectorSafeOnStop == Spec => []VectorChangesUnderFeedOnlyInStartOrExit
<1>1. ControlInv => VectorChangesUnderFeedOnlyInStartOrExit
    BY DEF ControlInv
<1>2. QED BY <1>1, ControlCorrect, PTL

\* At clear() every thread has been joined.
LEMMA NobodyAtClear == ControlInv => ClearsOnlyWhatNobodyUses
BY DEF ControlInv, ThreadInv, ThreadPerWorker, ThreadsLeave, SnapshotInLoop, TypeOK,
   ClearsOnlyWhatNobodyUses, Workers

\* stop() destroys the workers only when each of their threads has left workerLoop.
THEOREM ClearIsSafe == Spec => []ClearsOnlyWhatNobodyUses
BY NobodyAtClear, ControlCorrect, PTL

-----------------------------------------------------------------------------
(* Sequences of blocks.                                                    *)

Increasing(s) == \A i, j \in 1 .. Len(s) : i < j => s[i] < s[j]
Below(s, b)   == \A i \in 1 .. Len(s) : s[i] < b
Above(s, b)   == \A i \in 1 .. Len(s) : b < s[i]
Elements(s)   == {s[i] : i \in 1 .. Len(s)}

LEMMA BlocksAreNat == \A b \in Blocks : b \in Nat \ {0}
BY PoolAssumption DEF Blocks, PoolAssumption

LEMMA AppendBlock ==
    ASSUME NEW s \in Seq(Blocks), NEW b \in Blocks, Increasing(s), Below(s, b)
    PROVE  /\ Append(s, b) \in Seq(Blocks) /\ Len(Append(s, b)) = Len(s) + 1
           /\ Increasing(Append(s, b))
           /\ \A c \in Int : Below(s, c) /\ b < c => Below(Append(s, b), c)
           /\ \A c \in Int : Above(s, c) /\ c < b => Above(Append(s, b), c)
           /\ Elements(Append(s, b)) = Elements(s) \cup {b}
           /\ Append(s, b)[Len(s) + 1] = b
           /\ \A i \in 1 .. Len(s) : Append(s, b)[i] = s[i]
<1> DEFINE t == Append(s, b)
<1>1. /\ t \in Seq(Blocks) /\ Len(t) = Len(s) + 1 /\ Len(s) \in Nat
      /\ \A i \in 1 .. Len(s) : t[i] = s[i] /\ s[i] \in Nat
      /\ t[Len(s) + 1] = b /\ b \in Nat
    BY BlocksAreNat, LenProperties
<1> HIDE DEF t
<1>2. Increasing(t)
    BY <1>1 DEF Increasing, Below
<1>3. \A c \in Int : Below(s, c) /\ b < c => Below(t, c)
    BY <1>1 DEF Below
<1>4. \A c \in Int : Above(s, c) /\ c < b => Above(t, c)
    BY <1>1 DEF Above
<1>5. Elements(t) = Elements(s) \cup {b}
    <2>1. ASSUME NEW x \in Elements(t) PROVE x \in Elements(s) \cup {b}
        BY <1>1, <2>1 DEF Elements
    <2>2. ASSUME NEW x \in Elements(s) PROVE x \in Elements(t)
        BY <1>1, <2>2 DEF Elements
    <2>3. b \in Elements(t)
        BY <1>1 DEF Elements
    <2>4. QED BY <2>1, <2>2, <2>3
<1>6. QED BY <1>1, <1>2, <1>3, <1>4, <1>5 DEF t

LEMMA TailBlock ==
    ASSUME NEW s \in Seq(Blocks), s # <<>>, Increasing(s)
    PROVE  /\ Head(s) \in Blocks /\ Tail(s) \in Seq(Blocks) /\ Len(Tail(s)) = Len(s) - 1
           /\ Increasing(Tail(s)) /\ Above(Tail(s), Head(s))
           /\ \A c \in Int : Below(s, c) => Below(Tail(s), c) /\ Head(s) < c
           /\ \A c \in Int : Above(s, c) => Above(Tail(s), c) /\ c < Head(s)
           /\ Elements(s) = Elements(Tail(s)) \cup {Head(s)}
<1> DEFINE t == Tail(s)
           h == Head(s)
<1>1. /\ t \in Seq(Blocks) /\ h \in Blocks /\ h \in Nat /\ Len(t) = Len(s) - 1
      /\ Len(s) \in Nat /\ Len(s) >= 1 /\ h = s[1]
      /\ \A i \in 1 .. Len(s) : s[i] \in Nat
      /\ \A i \in 1 .. Len(t) : t[i] = s[i + 1]
    BY BlocksAreNat, LenProperties, HeadTailProperties
<1> HIDE DEF t, h
<1>2. Increasing(t) /\ Above(t, h)
    <2>1. ASSUME NEW i \in 1 .. Len(t), NEW j \in 1 .. Len(t), i < j PROVE t[i] < t[j]
        <3>1. i + 1 \in 1 .. Len(s) /\ j + 1 \in 1 .. Len(s) /\ i + 1 < j + 1
            BY <1>1, <2>1
        <3>2. s[i + 1] < s[j + 1]
            BY <3>1 DEF Increasing
        <3>3. QED BY <1>1, <3>2
    <2>2. ASSUME NEW i \in 1 .. Len(t) PROVE h < t[i]
        <3>1. 1 \in 1 .. Len(s) /\ i + 1 \in 1 .. Len(s) /\ 1 < i + 1
            BY <1>1
        <3>2. s[1] < s[i + 1]
            BY <3>1 DEF Increasing
        <3>3. QED BY <1>1, <3>2
    <2>3. QED BY <2>1, <2>2 DEF Increasing, Above
<1>3. \A c \in Int : Below(s, c) => Below(t, c) /\ h < c
    BY <1>1 DEF Below
<1>4. \A c \in Int : Above(s, c) => Above(t, c) /\ c < h
    BY <1>1 DEF Above
<1>5. Elements(s) = Elements(t) \cup {h}
    <2>1. ASSUME NEW i \in 1 .. Len(s) PROVE s[i] \in Elements(t) \cup {h}
        <3>1. CASE i = 1
            BY <1>1, <3>1
        <3>2. CASE i # 1
            <4>1. i - 1 \in 1 .. Len(t) /\ t[i - 1] = s[i]
                BY <1>1, <3>2
            <4>2. QED BY <4>1 DEF Elements
        <3>3. QED BY <3>1, <3>2
    <2>2. ASSUME NEW i \in 1 .. Len(t) PROVE t[i] \in Elements(s)
        BY <1>1 DEF Elements
    <2>3. h \in Elements(s)
        BY <1>1 DEF Elements
    <2>4. QED BY <2>1, <2>2, <2>3 DEF Elements
<1>6. QED BY <1>1, <1>2, <1>3, <1>4, <1>5 DEF t, h

\* A bound can be loosened, and the empty queue keeps every bound.
LEMMA BelowAbove ==
    ASSUME NEW s \in Seq(Blocks), NEW a \in Int, NEW b \in Int
    PROVE  /\ Below(s, a) /\ a <= b => Below(s, b)
           /\ Above(s, b) /\ a <= b => Above(s, a)
           /\ Below(<<>>, a) /\ Above(<<>>, a) /\ Increasing(<<>>) /\ Elements(<<>>) = {}
<1>1. \A i \in 1 .. Len(s) : s[i] \in Nat
    BY BlocksAreNat, LenProperties
<1>2. Len(<<>>) = 0
    OBVIOUS
<1>3. QED BY <1>1, <1>2 DEF Below, Above, Increasing, Elements

-----------------------------------------------------------------------------
(* The steps that touch blocks.                                            *)

\* feed() has still to reach this worker with the block it was called with.
PushPending(w) == feedPc # "idle" /\ (feedAt < w \/ (feedAt = w /\ feedPc # "notify"))

\* The next block that can be pushed on the worker's queue.
Fresh(w) == IF PushPending(w) THEN nextBlock - 1 ELSE nextBlock

BlockStep ==
    \/ \E w \in Workers : WorkerEnter(w) \/ WorkerSnapshot(w) \/ WorkerProcess(w)
    \/ FeedBegin \/ FeedPush
    \/ AddDecoder \/ RemoveDecoder \/ RemoveAll \/ StopClear

\* Every other step leaves the blocks, the tables and the snapshots alone.
LEMMA OtherSteps ==
    ASSUME ControlInv, Next, ~BlockStep
    PROVE  /\ UNCHANGED <<queue, count, decs, drops, snap, block, nextBlock, used, born,
                          flushed, floor, heard, late>>
           /\ \A w \in Workers : wpc'[w] = "popped" <=> wpc[w] = "popped"
<1>t. wpc \in [Workers -> WorkerPcs]
    BY DEF ControlInv, TypeOK
<1>1. ASSUME NEW w \in Workers, Worker(w) \/ SpuriousWake(w)
      PROVE  /\ UNCHANGED <<queue, count, decs, drops, snap, block, nextBlock, used, born,
                            flushed, floor, heard, late>>
             /\ \A v \in Workers : wpc'[v] = "popped" <=> wpc[v] = "popped"
    BY <1>t, <1>1 DEF BlockStep, Worker, WorkerBlock, SpuriousWake, manager, history
<1>2. CASE FeedBegin \/ Feed \/ SourceEnds
    <2>1. UNCHANGED <<count, decs, snap, block, used, born, flushed, floor, heard, late>>
        BY <1>2, FeedFrame
    <2>2. UNCHANGED <<queue, drops, nextBlock>>
        BY <1>2 DEF BlockStep, Feed, FeedCheck, FeedNotify, FeedStale, SourceEnds, manager, history
    <2>3. UNCHANGED wpc \/ wpc' = Notified(feedAt)
        BY <1>2 DEF BlockStep, Feed, FeedCheck, FeedNotify, FeedStale, SourceEnds, threads
    <2>4. QED BY <1>t, <2>1, <2>2, <2>3 DEF Notified
<1>3. CASE UiStep
    <2>1. UNCHANGED <<drops, snap, nextBlock, used, born, floor, heard, late>>
        BY <1>3, UiFrame
    <2>2. UNCHANGED <<queue, count, decs, block, flushed>>
        BY <1>3 DEF BlockStep, UiStep, SourceStop, StopRunOff, StopNotify, StopJoin, SourceStart,
            StartRunOn, StartPush, StartLaunch, manager, threads, history
    <2>3. \/ UNCHANGED wpc \/ wpc' = Notified(uiAt)
          \/ uiPc = "launch" /\ wpc' = [wpc EXCEPT ![uiAt] = "ready"]
        BY <1>3 DEF BlockStep, UiStep, SourceStop, StopRunOff, StopNotify, StopJoin, SourceStart,
            StartRunOn, StartPush, StartLaunch, threads
    <2>4. uiPc = "launch" => wpc[uiAt] = "none"
        BY PoolAssumption DEF ControlInv, UiInv, ThreadInv, LoopInRange, ThreadPerWorker, TypeOK,
            Workers, PoolAssumption
    <2>5. QED BY <1>t, <2>1, <2>2, <2>3, <2>4 DEF Notified
<1>4. CASE User
    <2>1. UNCHANGED <<queue, drops, wpc, snap, block, nextBlock, flushed, heard, late>>
        BY <1>4, UserFrame DEF threads
    <2>2. UNCHANGED <<count, decs, used, born, floor>>
        BY <1>4 DEF BlockStep, User, PressStart, PressStop, Exit, Begin, BeginRemoveAll,
            manager, history
    <2>3. QED BY <2>1, <2>2
<1>5. QED BY <1>1, <1>2, <1>3, <1>4 DEF Next

\* Where feed() is moves with the reader thread only.
LEMMA OnlyFeedMovesFeed ==
    ASSUME Next, ~(FeedBegin \/ Feed)
    PROVE  UNCHANGED <<feedPc, feedAt, feedEnd, nextBlock>>
<1>1. ASSUME NEW w \in Workers, Worker(w) \/ SpuriousWake(w)
      PROVE  UNCHANGED <<feedPc, feedAt, feedEnd, nextBlock>>
    BY <1>1, WorkerFrame DEF reader
<1>2. CASE SourceEnds
    BY <1>2 DEF SourceEnds, history
<1>3. CASE UiStep
    BY <1>3, UiFrame
<1>4. CASE User
    BY <1>4, UserFrame DEF reader
<1>5. QED BY <1>1, <1>2, <1>3, <1>4 DEF Next

LEMMA FreshType ==
    ASSUME ControlInv, NEW w \in Workers
    PROVE  Fresh(w) \in Nat /\ Fresh(w) > 0 /\ Fresh(w) <= nextBlock /\ nextBlock \in Nat
BY PoolAssumption DEF ControlInv, TypeOK, FeedInRange, Fresh, PushPending, PoolAssumption

\* After a step of feed()'s loop no worker is pending that was not before.
LEMMA FeedPassesOn ==
    ASSUME ControlInv, Feed, NEW w \in Workers, PushPending(w)'
    PROVE  PushPending(w)
<1> USE PoolAssumption DEF PushPending, Workers, PoolAssumption
<1>1. feedPc # "idle" /\ feedAt \in Nat
    BY DEF Feed, FeedCheck, FeedPush, FeedNotify, FeedStale, ControlInv, TypeOK, None
<1>2. CASE FeedNext
    BY <1>1, <1>2 DEF FeedNext
<1>3. CASE feedPc' = "idle"
    BY <1>3
<1>4. CASE feedPc = "check" /\ UNCHANGED feedAt
    BY <1>1, <1>4
<1>5. CASE FeedPush
    BY <1>1, <1>5 DEF FeedPush
<1>6. QED BY <1>2, <1>3, <1>4, <1>5 DEF Feed, FeedCheck, FeedNotify, FeedStale

\* What may be pushed next on a worker's queue never goes back, and what was pushed
\* is behind it.
LEMMA FreshGrows ==
    ASSUME ControlInv, ControlInv', Next, NEW w \in Workers
    PROVE  /\ Fresh(w) <= Fresh(w)' /\ nextBlock <= nextBlock'
           /\ FeedPush /\ feedAt = w => Fresh(w) = nextBlock - 1 /\ Fresh(w)' = nextBlock
<1>1. /\ Fresh(w) \in Nat /\ Fresh(w) <= nextBlock /\ nextBlock \in Nat
      /\ nextBlock' \in Nat
    <2>1. nextBlock' \in 1 .. MaxBlocks + 1
        BY DEF ControlInv, TypeOK
    <2>2. QED BY <2>1, FreshType, PoolAssumption DEF PoolAssumption
<1>f. /\ Fresh(w)' \in {nextBlock' - 1, nextBlock'}
      /\ ~PushPending(w)' => Fresh(w)' = nextBlock'
      /\ PushPending(w) => Fresh(w) = nextBlock - 1
      /\ ~PushPending(w) => Fresh(w) = nextBlock
      /\ PushPending(w)' => Fresh(w)' = nextBlock' - 1
    BY DEF Fresh
<1>2. CASE FeedBegin
    <2>1. nextBlock' = nextBlock + 1
        BY <1>2 DEF FeedBegin
    <2>2. ~FeedPush
        BY <1>2 DEF FeedBegin, FeedPush
    <2>3. QED BY <1>1, <1>f, <2>1, <2>2
<1>3. CASE Feed
    <2>1. UNCHANGED nextBlock
        BY <1>3 DEF Feed, FeedCheck, FeedPush, FeedNotify, FeedStale, history
    <2>2. PushPending(w)' => PushPending(w)
        BY <1>3, FeedPassesOn
    <2>3. FeedPush /\ feedAt = w => PushPending(w) /\ ~PushPending(w)'
        BY DEF FeedPush, PushPending, Workers
    <2>4. QED BY <1>1, <1>f, <2>1, <2>2, <2>3
<1>4. CASE ~(FeedBegin \/ Feed)
    <2>1. UNCHANGED <<feedPc, feedAt, feedEnd, nextBlock>>
        BY <1>4, OnlyFeedMovesFeed
    <2>2. Fresh(w)' = Fresh(w)
        BY <2>1 DEF Fresh, PushPending
    <2>3. QED BY <1>1, <1>4, <2>1, <2>2 DEF Feed
<1>5. QED BY <1>2, <1>3, <1>4

-----------------------------------------------------------------------------
(* A decoder that was taken away.                                          *)

\* A decoder is on one worker, from addDecoder to the end of the last snapshot with it.
OnOneWorker ==
    /\ \A w \in Workers : snap[w] \subseteq used
    /\ \A v, w \in Workers : v # w => (decs[v] \cup snap[v]) \cap (decs[w] \cup snap[w]) = {}

\* Once it has run late it is in no table and no snapshot, and its id is never handed
\* out again.
LateIsLast ==
    \A d \in Decoders :
        /\ late[d] <= 1
        /\ late[d] # 0 => \A w \in Workers : d \notin decs[w] \cup snap[w]
        /\ d \notin used => late[d] = 0 /\ heard[d] = <<>>

LeaveInv == OnOneWorker /\ LateIsLast

LEMMA LeaveStep ==
    ASSUME ControlInv, LeaveInv, Next
    PROVE  LeaveInv'
<1> USE DEF LeaveInv, OnOneWorker, LateIsLast
<1>t. /\ decs \in [Workers -> SUBSET Decoders] /\ snap \in [Workers -> SUBSET Decoders]
      /\ late \in [Decoders -> Nat] /\ heard \in [Decoders -> Seq(Blocks)]
      /\ \A w \in Workers : decs[w] \subseteq used
    BY DEF ControlInv, TypeOK, CountInv
<1>1. ASSUME NEW w \in Workers, WorkerEnter(w)
      PROVE  LeaveInv'
    BY <1>1 DEF WorkerEnter, history
<1>2. ASSUME NEW w \in Workers, WorkerSnapshot(w)
      PROVE  LeaveInv'
    BY <1>t, <1>2 DEF WorkerSnapshot, manager, history
<1>3. ASSUME NEW w \in Workers, WorkerProcess(w)
      PROVE  LeaveInv'
    <2>1. PICK d \in snap[w] :
              /\ heard' = [heard EXCEPT ![d] = Append(@, block[w])]
              /\ late' = [late EXCEPT ![d] = IF d \in decs[w] THEN @ ELSE @ + 1]
              /\ snap' = [snap EXCEPT ![w] = @ \ {d}]
        BY <1>3 DEF WorkerProcess
    <2>2. UNCHANGED <<decs, used>>
        BY <1>3 DEF WorkerProcess, manager
    <2>3. d \in Decoders /\ d \in used /\ late[d] = 0
        BY <1>t, <2>1
    <2>4. OnOneWorker'
        BY <1>t, <2>1, <2>2
    <2>5. \A v \in Workers : d \notin snap'[v]
        BY <1>t, <2>1
    <2>6. d \notin decs[w] => \A v \in Workers : d \notin decs[v]
        BY <1>t, <2>1
    <2>7. late'[d] = (IF d \in decs[w] THEN 0 ELSE 1) /\ \A e \in Decoders \ {d} : late'[e] = late[e]
        BY <1>t, <2>1, <2>3
    <2>8. \A e \in Decoders \ {d} : heard'[e] = heard[e]
        BY <1>t, <2>1
    <2>9. \A v \in Workers : snap'[v] \subseteq snap[v]
        BY <1>t, <2>1
    <2>10. LateIsLast'
        BY <1>t, <2>2, <2>3, <2>5, <2>6, <2>7, <2>8, <2>9
    <2>11. QED BY <2>4, <2>10
<1>4. CASE FeedBegin
    BY <1>4 DEF FeedBegin, manager, threads
<1>5. CASE FeedPush
    BY <1>5 DEF FeedPush, threads, history
<1>6. CASE AddDecoder
    <2>1. PICK w \in 1 .. vecLen, d \in Decoders \ used :
              used' = used \cup {d} /\ decs' = [decs EXCEPT ![w] = @ \cup {d}]
        BY <1>6 DEF AddDecoder
    <2>2. UNCHANGED <<snap, heard, late>>
        BY <1>6 DEF AddDecoder, threads
    <2>3. w \in Workers
        BY PoolAssumption DEF ControlInv, TypeOK, Workers, PoolAssumption
    <2>4. QED BY <1>t, <2>1, <2>2, <2>3
<1>7. CASE RemoveDecoder \/ RemoveAll \/ StopClear
    <2>1. UNCHANGED <<snap, heard, late, used>>
        BY <1>7 DEF RemoveDecoder, RemoveAll, StopClear, threads, history
    <2>2. \A w \in Workers : decs'[w] \subseteq decs[w]
        BY <1>7, <1>t DEF RemoveDecoder, RemoveAll, StopClear
    <2>3. QED BY <2>1, <2>2
<1>8. CASE ~BlockStep
    BY <1>8, OtherSteps
<1>9. QED BY <1>1, <1>2, <1>3, <1>4, <1>5, <1>6, <1>7, <1>8 DEF BlockStep

-----------------------------------------------------------------------------
(* The order of the stream.                                                *)

\* A queue holds its bound at most, in the order of feed(), behind the block its
\* worker took and before the next one it can get.
QueueInOrder ==
    \A w \in Workers :
        /\ Len(queue[w]) <= MaxQueue
        /\ Increasing(queue[w])
        /\ Above(queue[w], block[w]) /\ Below(queue[w], Fresh(w))
        /\ block[w] < Fresh(w)

\* What a decoder has heard is in order, and before everything it can still hear.
HeardInOrder ==
    /\ \A d \in Decoders : Increasing(heard[d]) /\ Below(heard[d], nextBlock)
    /\ \A w \in Workers : \A d \in decs[w] :
        /\ Below(heard[d], Fresh(w))
        /\ \A b \in Elements(queue[w]) : Below(heard[d], b)
        /\ wpc[w] = "popped" => Below(heard[d], block[w])
    /\ \A w \in Workers : \A d \in snap[w] : Below(heard[d], block[w])

LEMMA QueueStep ==
    ASSUME ControlInv, ControlInv', QueueInOrder, Next
    PROVE  QueueInOrder'
<1> SUFFICES ASSUME NEW w \in Workers
             PROVE  /\ Len(queue'[w]) <= MaxQueue
                    /\ Increasing(queue'[w])
                    /\ Above(queue'[w], block'[w]) /\ Below(queue'[w], Fresh(w)')
                    /\ block'[w] < Fresh(w)'
    BY DEF QueueInOrder, Increasing, Above, Below
<1>t. /\ queue \in [Workers -> Seq(Blocks)] /\ block \in [Workers -> Blocks \cup {None}]
      /\ wpc \in [Workers -> WorkerPcs]
      /\ queue[w] \in Seq(Blocks) /\ block[w] \in Nat /\ Len(queue[w]) \in Nat
    <2>1. /\ queue \in [Workers -> Seq(Blocks)] /\ block \in [Workers -> Blocks \cup {None}]
          /\ wpc \in [Workers -> WorkerPcs]
        BY DEF ControlInv, TypeOK
    <2>2. block[w] \in Nat
        BY <2>1, BlocksAreNat DEF None
    <2>3. QED BY <2>1, <2>2, LenProperties
<1>q. /\ Len(queue[w]) <= MaxQueue /\ Increasing(queue[w])
      /\ Above(queue[w], block[w]) /\ Below(queue[w], Fresh(w)) /\ block[w] < Fresh(w)
    BY DEF QueueInOrder
<1>f. /\ Fresh(w) \in Nat /\ Fresh(w)' \in Nat /\ Fresh(w) <= Fresh(w)' /\ Fresh(w) > 0
      /\ FeedPush /\ feedAt = w => Fresh(w) = nextBlock - 1 /\ Fresh(w)' = nextBlock
    <2>1. Fresh(w)' \in {nextBlock', nextBlock' - 1} /\ nextBlock' \in Nat /\ nextBlock \in Nat
        BY PoolAssumption DEF Fresh, ControlInv, TypeOK, PoolAssumption
    <2>2. QED BY <2>1, FreshType, FreshGrows
<1>b. Below(queue[w], Fresh(w)') /\ Below(queue[w], Fresh(w))
    BY <1>t, <1>q, <1>f, BelowAbove
<1>e. /\ Increasing(<<>>) /\ Len(<<>>) = 0 /\ \A n \in Int : Above(<<>>, n) /\ Below(<<>>, n)
    BY DEF Increasing, Above, Below
<1>1. CASE queue'[w] = queue[w] /\ block'[w] \in {block[w], None}
    <2>1. Above(queue[w], None)
        BY <1>t, <1>q, BelowAbove DEF None
    <2>2. QED BY <1>1, <1>t, <1>q, <1>f, <1>b, <2>1 DEF None
<1>2. CASE queue'[w] = <<>> /\ block'[w] \in {block[w], None}
    BY <1>2, <1>t, <1>q, <1>f, <1>e, PoolAssumption DEF None, PoolAssumption
<1>3. CASE queue[w] # <<>> /\ queue'[w] = Tail(queue[w]) /\ block'[w] = Head(queue[w])
    <2>1. /\ Head(queue[w]) \in Blocks /\ Head(queue[w]) < Fresh(w)
          /\ Len(Tail(queue[w])) = Len(queue[w]) - 1 /\ Increasing(Tail(queue[w]))
          /\ Above(Tail(queue[w]), Head(queue[w])) /\ Below(Tail(queue[w]), Fresh(w)')
        BY <1>3, <1>t, <1>q, <1>f, <1>b, TailBlock
    <2>2. Head(queue[w]) \in Nat
        BY <2>1, BlocksAreNat
    <2>3. QED BY <1>3, <1>t, <1>q, <1>f, <2>1, <2>2, PoolAssumption DEF PoolAssumption
<1>4. CASE FeedPush /\ feedAt = w
    <2> DEFINE kept == IF Len(queue[w]) >= MaxQueue THEN Tail(queue[w]) ELSE queue[w]
    <2>1. nextBlock - 1 \in Blocks
        BY <1>4, PoolAssumption
           DEF FeedPush, ControlInv, TypeOK, FeedInRange, Blocks, PoolAssumption
    <2>2. queue'[w] = Append(kept, nextBlock - 1) /\ UNCHANGED block
        BY <1>4, <1>t DEF FeedPush, threads
    <2>3. /\ kept \in Seq(Blocks) /\ Increasing(kept) /\ Len(kept) < MaxQueue
          /\ Above(kept, block[w]) /\ Below(kept, Fresh(w))
        <3>1. CASE Len(queue[w]) >= MaxQueue
            <4>1. queue[w] # <<>>
                BY <3>1, <1>t, PoolAssumption DEF PoolAssumption
            <4>2. QED BY <3>1, <4>1, <1>t, <1>q, <1>f, TailBlock, PoolAssumption DEF PoolAssumption
        <3>2. CASE ~(Len(queue[w]) >= MaxQueue)
            BY <3>2, <1>t, <1>q, PoolAssumption DEF PoolAssumption
        <3>3. QED BY <3>1, <3>2
    <2> HIDE DEF kept
    <2>4. Len(kept) \in Nat
        BY <2>3, LenProperties
    <2>5. Below(kept, nextBlock - 1) /\ block[w] < nextBlock - 1 /\ nextBlock - 1 < nextBlock
          /\ nextBlock - 1 \in Nat /\ nextBlock \in Nat /\ Below(kept, nextBlock)
        <3>1. nextBlock - 1 \in Nat /\ nextBlock \in Nat
            BY <1>4, <1>f, PoolAssumption DEF ControlInv, TypeOK, PoolAssumption
        <3>2. Below(kept, nextBlock - 1)
            BY <1>4, <1>f, <2>3
        <3>3. QED BY <1>4, <1>f, <1>q, <2>3, <3>1, <3>2, BelowAbove
    <2>6. /\ Len(Append(kept, nextBlock - 1)) = Len(kept) + 1
          /\ Increasing(Append(kept, nextBlock - 1))
          /\ Above(Append(kept, nextBlock - 1), block[w])
          /\ Below(Append(kept, nextBlock - 1), nextBlock)
        BY <1>t, <2>1, <2>3, <2>5, AppendBlock
    <2>7. QED
        BY <1>4, <1>t, <1>q, <1>f, <2>2, <2>3, <2>4, <2>5, <2>6, PoolAssumption DEF PoolAssumption
<1>5. \/ queue'[w] = queue[w] /\ block'[w] \in {block[w], None}
      \/ queue'[w] = <<>> /\ block'[w] \in {block[w], None}
      \/ queue[w] # <<>> /\ queue'[w] = Tail(queue[w]) /\ block'[w] = Head(queue[w])
      \/ FeedPush /\ feedAt = w
    <2>1. ASSUME NEW v \in Workers, WorkerEnter(v) \/ WorkerSnapshot(v) \/ WorkerProcess(v)
          PROVE  \/ queue'[w] = queue[w] /\ block'[w] \in {block[w], None}
                 \/ queue[w] # <<>> /\ queue'[w] = Tail(queue[w]) /\ block'[w] = Head(queue[w])
        BY <1>t, <2>1 DEF WorkerEnter, WorkerSnapshot, WorkerProcess, WorkerIdle, manager
    <2>2. CASE FeedBegin \/ AddDecoder \/ RemoveDecoder
        BY <2>2 DEF FeedBegin, AddDecoder, RemoveDecoder, manager, threads
    <2>3. CASE FeedPush
        BY <2>3, <1>t DEF FeedPush, threads
    <2>4. CASE RemoveAll \/ StopClear
        BY <2>4, <1>t DEF RemoveAll, StopClear, threads
    <2>5. CASE ~BlockStep
        BY <2>5, OtherSteps
    <2>6. QED BY <2>1, <2>2, <2>3, <2>4, <2>5 DEF BlockStep
<1>6. QED BY <1>1, <1>2, <1>3, <1>4, <1>5

\* The worker processes one decoder of its snapshot.
LEMMA ProcessEffect ==
    ASSUME ControlInv, LeaveInv, NEW w \in Workers, WorkerProcess(w)
    PROVE  /\ wpc[w] = "working" /\ block[w] \in Blocks /\ wpc'[w] # "popped"
           /\ \E d \in snap[w] :
                /\ heard' = [heard EXCEPT ![d] = Append(@, block[w])]
                /\ snap' = [snap EXCEPT ![w] = @ \ {d}]
                /\ snap[w] # {d} => UNCHANGED <<wpc, block>>
                /\ \A v \in Workers \ {w} : d \notin decs[v] \cup snap[v]
           /\ \A v \in Workers \ {w} : block'[v] = block[v] /\ wpc'[v] = wpc[v]
           /\ UNCHANGED <<queue, decs, count, drops, used, born, floor, flushed, nextBlock>>
<1>t. /\ block \in [Workers -> Blocks \cup {None}] /\ wpc \in [Workers -> WorkerPcs]
      /\ snap \in [Workers -> SUBSET Decoders]
    BY DEF ControlInv, TypeOK
<1>1. wpc[w] = "working" /\ block[w] \in Blocks
    BY <1>t DEF WorkerProcess, ControlInv, ThreadInv, SnapshotInLoop, None
<1>2. PICK d \in snap[w] :
          /\ heard' = [heard EXCEPT ![d] = Append(@, block[w])]
          /\ snap' = [snap EXCEPT ![w] = @ \ {d}]
          /\ IF snap[w] = {d} THEN WorkerIdle(w) ELSE UNCHANGED <<wpc, block>>
    BY DEF WorkerProcess
<1>3. \A v \in Workers \ {w} : d \notin decs[v] \cup snap[v]
    BY <1>2 DEF LeaveInv, OnOneWorker
<1>4. UNCHANGED <<queue, decs, count, drops, used, born, floor, flushed, nextBlock>>
    BY DEF WorkerProcess, manager
<1>5. wpc'[w] # "popped" /\ \A v \in Workers \ {w} : block'[v] = block[v] /\ wpc'[v] = wpc[v]
    BY <1>t, <1>1, <1>2 DEF WorkerIdle
<1>6. QED BY <1>1, <1>2, <1>3, <1>4, <1>5

\* The worker takes the oldest block of its queue, leaves, or is about to block.
LEMMA EnterEffect ==
    ASSUME ControlInv, NEW w \in Workers, WorkerEnter(w)
    PROVE  /\ wpc[w] = "ready" /\ snap[w] = {}
           /\ \/ UNCHANGED <<queue, block>> /\ wpc'[w] # "popped"
              \/ /\ queue[w] # <<>>
                 /\ queue' = [queue EXCEPT ![w] = Tail(@)]
                 /\ block' = [block EXCEPT ![w] = Head(queue[w])]
                 /\ wpc'[w] = "popped"
           /\ \A v \in Workers \ {w} : wpc'[v] = wpc[v]
           /\ UNCHANGED <<snap, decs, count, drops, used, born, floor, flushed, nextBlock, heard, late>>
<1>t. wpc \in [Workers -> WorkerPcs]
    BY DEF ControlInv, TypeOK
<1>1. wpc[w] = "ready" /\ snap[w] = {}
    BY DEF WorkerEnter, ControlInv, ThreadInv, SnapshotInLoop
<1>2. UNCHANGED <<snap, decs, count, drops, used, born, floor, flushed, nextBlock, heard, late>>
    BY DEF WorkerEnter, history
<1>3. QED BY <1>t, <1>1, <1>2 DEF WorkerEnter

\* The worker copies its decoders, and lets go of the block when there are none.
LEMMA SnapshotEffect ==
    ASSUME ControlInv, NEW w \in Workers, WorkerSnapshot(w)
    PROVE  /\ wpc[w] = "popped" /\ wpc'[w] # "popped" /\ snap[w] = {}
           /\ snap' = [snap EXCEPT ![w] = decs[w]]
           /\ decs[w] # {} => UNCHANGED block
           /\ \A v \in Workers \ {w} : wpc'[v] = wpc[v] /\ block'[v] = block[v]
           /\ UNCHANGED <<queue, decs, count, drops, used, born, floor, flushed, nextBlock, heard, late>>
<1>t. wpc \in [Workers -> WorkerPcs] /\ block \in [Workers -> Blocks \cup {None}]
    BY DEF ControlInv, TypeOK
<1>1. wpc[w] = "popped" /\ snap[w] = {}
    BY DEF WorkerSnapshot, ControlInv, ThreadInv, SnapshotInLoop
<1>2. UNCHANGED <<queue, decs, count, drops, used, born, floor, flushed, nextBlock, heard, late>>
    BY DEF WorkerSnapshot, manager, history
<1>3. QED BY <1>t, <1>1, <1>2 DEF WorkerSnapshot, WorkerIdle

\* feed() hands its block to the worker it has reached.
LEMMA PushEffect ==
    ASSUME ControlInv, FeedPush
    PROVE  /\ feedAt \in Workers /\ nextBlock - 1 \in Blocks
           /\ \/ /\ Len(queue[feedAt]) < MaxQueue
                 /\ queue' = [queue EXCEPT ![feedAt] = Append(@, nextBlock - 1)]
                 /\ drops' = drops
              \/ /\ queue[feedAt] # <<>> /\ Len(queue[feedAt]) >= MaxQueue
                 /\ queue' = [queue EXCEPT ![feedAt] = Append(Tail(@), nextBlock - 1)]
                 /\ drops' = drops + 1
           /\ UNCHANGED <<wpc, snap, block, decs, count, used, born, floor, flushed, nextBlock,
                          heard, late, vecLen>>
<1>1. /\ feedAt \in Workers /\ nextBlock - 1 \in Blocks
      /\ queue \in [Workers -> Seq(Blocks)] /\ MaxQueue \in Nat \ {0}
    BY PushTypes, TypeParts, PoolAssumption DEF ControlInv, TypeOK, PoolAssumption
<1>2. queue[feedAt] \in Seq(Blocks) /\ Len(queue[feedAt]) \in Nat
    BY <1>1, LenProperties
<1>3. UNCHANGED <<wpc, snap, block, decs, count, used, born, floor, flushed, nextBlock,
                  heard, late, vecLen>>
    BY DEF FeedPush, threads, history
<1>4. CASE Len(queue[feedAt]) >= MaxQueue
    <2>1. queue[feedAt] # <<>>
        BY <1>1, <1>2, <1>4
    <2>2. QED BY <1>1, <1>3, <1>4, <2>1 DEF FeedPush
<1>5. CASE ~(Len(queue[feedAt]) >= MaxQueue)
    <2>1. Len(queue[feedAt]) < MaxQueue
        BY <1>1, <1>2, <1>5
    <2>2. QED BY <1>1, <1>3, <1>5, <2>1 DEF FeedPush
<1>6. QED BY <1>4, <1>5

\* The UI thread takes decoders away, with the queue or without.
LEMMA TakeAwayEffect ==
    ASSUME ControlInv, RemoveDecoder \/ RemoveAll \/ StopClear
    PROVE  /\ \A w \in Workers :
                /\ decs'[w] \subseteq decs[w]
                /\ decs'[w] # {} => queue'[w] = queue[w] /\ block'[w] = block[w] /\ wpc'[w] = wpc[w]
                /\ queue'[w] \in {queue[w], <<>>}
                /\ block'[w] = block[w] \/ snap[w] = {}
                /\ wpc'[w] = "popped" => wpc[w] = "popped" /\ block'[w] = block[w]
                /\ flushed'[w] = flushed[w] \/ decs'[w] = {}
                /\ flushed'[w] \in {flushed[w], nextBlock, None}
                /\ flushed'[w] # flushed[w] => queue'[w] = <<>>
           /\ UNCHANGED <<snap, drops, used, born, floor, nextBlock, heard, late>>
<1>t. /\ decs \in [Workers -> SUBSET Decoders] /\ queue \in [Workers -> Seq(Blocks)]
      /\ flushed \in [Workers -> Nat]
    BY DEF ControlInv, TypeOK
<1>1. CASE RemoveDecoder
    BY <1>1, <1>t DEF RemoveDecoder, threads, history
<1>2. CASE RemoveAll
    <2>1. /\ decs' = [decs EXCEPT ![uiAt] = {}] /\ queue' = [queue EXCEPT ![uiAt] = <<>>]
          /\ UNCHANGED <<wpc, snap, block, drops, used, born, floor, nextBlock, heard, late>>
        BY <1>2 DEF RemoveAll, threads
    <2>2. PICK n \in {nextBlock, None} : flushed' = [flushed EXCEPT ![uiAt] = n]
        BY <1>2 DEF RemoveAll
    <2>3. QED BY <1>t, <2>1, <2>2
<1>3. CASE StopClear
    <2>1. \A w \in Workers : snap[w] = {}
        BY <1>3, NobodyAtClear DEF StopClear, ClearsOnlyWhatNobodyUses
    <2>2. QED BY <1>3, <1>t, <2>1 DEF StopClear
<1>4. QED BY <1>1, <1>2, <1>3

\* addDecoder makes a decoder that has heard nothing.
LEMMA AddEffect ==
    ASSUME ControlInv, LeaveInv, AddDecoder
    PROVE  /\ \E w \in Workers, d \in Decoders \ used :
                /\ w <= vecLen
                /\ decs' = [decs EXCEPT ![w] = @ \cup {d}]
                /\ born' = [born EXCEPT ![d] = nextBlock]
                /\ floor' = [floor EXCEPT ![d] = flushed[w]]
                /\ heard[d] = <<>>
                /\ \A v \in Workers : d \notin decs[v] \cup snap[v]
           /\ UNCHANGED <<vecLen, queue, drops, wpc, snap, block, nextBlock, flushed, heard, late,
                          feedPc, feedAt, feedEnd>>
<1>1. PICK w \in 1 .. vecLen, d \in Decoders \ used :
          /\ decs' = [decs EXCEPT ![w] = @ \cup {d}]
          /\ born' = [born EXCEPT ![d] = nextBlock]
          /\ floor' = [floor EXCEPT ![d] = flushed[w]]
    BY DEF AddDecoder
<1>2. w \in Workers /\ w <= vecLen
    BY PoolAssumption DEF ControlInv, TypeOK, Workers, PoolAssumption
<1>3. \A v \in Workers : d \notin decs[v] \cup snap[v]
    BY DEF ControlInv, CountInv, LeaveInv, OnOneWorker
<1>4. heard[d] = <<>>
    BY DEF LeaveInv, LateIsLast
<1>5. UNCHANGED <<vecLen, queue, drops, wpc, snap, block, nextBlock, flushed, heard, late,
                  feedPc, feedAt, feedEnd>>
    BY DEF AddDecoder, threads, reader
<1>6. QED BY <1>1, <1>2, <1>3, <1>4, <1>5

\* What a push adds to a queue, and what it may take from it.
LEMMA PushedElements ==
    ASSUME ControlInv, QueueInOrder, FeedPush
    PROVE  /\ nextBlock - 1 \in Elements(queue'[feedAt])
           /\ Elements(queue'[feedAt]) \subseteq Elements(queue[feedAt]) \cup {nextBlock - 1}
           /\ \/ drops' = drops /\ Elements(queue[feedAt]) \subseteq Elements(queue'[feedAt])
              \/ /\ drops' = drops + 1
                 /\ \E b \in Blocks : Elements(queue[feedAt]) \subseteq Elements(queue'[feedAt]) \cup {b}
<1> DEFINE q == queue[feedAt]
           n == nextBlock - 1
<1>1. feedAt \in Workers /\ n \in Blocks /\ queue \in [Workers -> Seq(Blocks)] /\ q \in Seq(Blocks)
    BY PushEffect DEF ControlInv, TypeOK
<1>2. Increasing(q) /\ Below(q, n)
    <2>1. Fresh(feedAt) = n
        BY DEF Fresh, PushPending, FeedPush
    <2>2. QED BY <1>1, <2>1 DEF QueueInOrder
<1>3. CASE queue'[feedAt] = Append(q, n) /\ drops' = drops
    BY <1>1, <1>2, <1>3, AppendBlock
<1>4. CASE q # <<>> /\ queue'[feedAt] = Append(Tail(q), n) /\ drops' = drops + 1
    <2>1. /\ Head(q) \in Blocks /\ Tail(q) \in Seq(Blocks) /\ Increasing(Tail(q))
          /\ Elements(q) = Elements(Tail(q)) \cup {Head(q)}
        BY <1>1, <1>2, <1>4, TailBlock
    <2>2. Below(Tail(q), n)
        BY <1>1, <1>2, <1>4, TailBlock, BlocksAreNat
    <2>3. Elements(Append(Tail(q), n)) = Elements(Tail(q)) \cup {n}
        BY <1>1, <2>1, <2>2, AppendBlock
    <2>4. QED BY <1>4, <2>1, <2>3
<1>5. QED BY <1>1, <1>3, <1>4, PushEffect

LEMMA HeardStep ==
    ASSUME ControlInv, ControlInv', LeaveInv, QueueInOrder, HeardInOrder, Next
    PROVE  HeardInOrder'
<1>t. /\ queue \in [Workers -> Seq(Blocks)] /\ block \in [Workers -> Blocks \cup {None}]
      /\ heard \in [Decoders -> Seq(Blocks)] /\ wpc \in [Workers -> WorkerPcs]
      /\ decs \in [Workers -> SUBSET Decoders] /\ snap \in [Workers -> SUBSET Decoders]
      /\ \A b \in Blocks : b \in Nat
    BY BlocksAreNat DEF ControlInv, TypeOK
<1>n. nextBlock \in Nat /\ nextBlock' \in Nat
    BY PoolAssumption DEF ControlInv, TypeOK, PoolAssumption
<1>f. \A w \in Workers : /\ Fresh(w) \in Nat /\ Fresh(w)' \in Nat /\ Fresh(w) <= nextBlock
                         /\ Fresh(w) <= Fresh(w)' /\ nextBlock <= nextBlock'
    <2> TAKE w \in Workers
    <2>1. Fresh(w)' \in {nextBlock', nextBlock' - 1} /\ Fresh(w) > 0
        BY FreshType DEF Fresh
    <2>2. QED BY <2>1, <1>n, FreshType, FreshGrows
<1>m. nextBlock <= nextBlock'
    <2>1. 1 \in Workers
        BY PoolAssumption DEF Workers, PoolAssumption
    <2>2. QED BY <1>f, <2>1
\* What every step but WorkerProcess owes: the tables change around what was heard.
<1>1. ASSUME UNCHANGED heard,
             \A w \in Workers : \A d \in decs'[w] :
                 \/ heard[d] = <<>>
                 \/ /\ d \in decs[w]
                    /\ \A b \in Elements(queue'[w]) : Below(heard[d], b)
                    /\ wpc'[w] = "popped" => Below(heard[d], block'[w]),
             \A w \in Workers : \A d \in snap'[w] : Below(heard[d], block'[w])
      PROVE  HeardInOrder'
    <2>1. ASSUME NEW d \in Decoders
          PROVE  Increasing(heard'[d]) /\ Below(heard'[d], nextBlock')
        <3>1. Increasing(heard[d]) /\ Below(heard[d], nextBlock)
            BY DEF HeardInOrder
        <3>2. heard[d] \in Seq(Blocks) /\ nextBlock \in Int /\ nextBlock' \in Int
            BY <1>t, <1>n
        <3>3. Below(heard[d], nextBlock')
            BY <1>m, <3>1, <3>2, BelowAbove
        <3>4. QED BY <1>1, <3>1, <3>3
    <2>2. ASSUME NEW w \in Workers, NEW d \in decs'[w]
          PROVE  /\ Below(heard'[d], Fresh(w)')
                 /\ \A b \in Elements(queue'[w]) : Below(heard'[d], b)
                 /\ wpc'[w] = "popped" => Below(heard'[d], block'[w])
        <3>1. CASE heard[d] = <<>>
            BY <1>1, <3>1 DEF Below
        <3>2. CASE heard[d] # <<>>
            <4>1. d \in decs[w] /\ d \in Decoders
                BY <1>1, <1>t, <3>2
            <4>2. Below(heard[d], Fresh(w))
                BY <4>1 DEF HeardInOrder
            <4>3. Below(heard[d], Fresh(w)')
                BY <1>t, <1>f, <4>1, <4>2, BelowAbove
            <4>4. QED BY <1>1, <3>2, <4>3
        <3>3. QED BY <3>1, <3>2
    <2>3. QED BY <1>1, <2>1, <2>2 DEF HeardInOrder
<1>2. ASSUME NEW w \in Workers, WorkerEnter(w)
      PROVE  HeardInOrder'
    <2>1. ASSUME NEW v \in Workers, NEW d \in decs'[v]
          PROVE  /\ d \in decs[v]
                 /\ \A b \in Elements(queue'[v]) : Below(heard[d], b)
                 /\ wpc'[v] = "popped" => Below(heard[d], block'[v])
        <3>1. d \in decs[v] /\ \A b \in Elements(queue[v]) : Below(heard[d], b)
            BY <1>2, EnterEffect DEF HeardInOrder
        <3>2. CASE queue'[v] = queue[v] /\ (wpc'[v] = "popped" => wpc[v] = "popped" /\ block'[v] = block[v])
            BY <3>1, <3>2 DEF HeardInOrder
        <3>3. CASE queue[v] # <<>> /\ queue'[v] = Tail(queue[v]) /\ block'[v] = Head(queue[v])
            <4>1. Elements(queue[v]) = Elements(Tail(queue[v])) \cup {Head(queue[v])}
                BY <1>t, <3>3, TailBlock DEF QueueInOrder
            <4>2. QED BY <3>1, <3>3, <4>1
        <3>4. QED
            BY <1>2, <1>t, <3>1, <3>2, <3>3, EnterEffect, ZenonT(30)
    <2>2. ASSUME NEW v \in Workers, NEW d \in snap'[v]
          PROVE  Below(heard[d], block'[v])
        <3>1. d \in snap[v] /\ block'[v] = block[v]
            BY <1>2, <1>t, EnterEffect
        <3>2. QED BY <3>1 DEF HeardInOrder
    <2>3. UNCHANGED heard
        BY <1>2, EnterEffect
    <2>4. QED BY <1>1, <2>1, <2>2, <2>3
<1>3. ASSUME NEW w \in Workers, WorkerSnapshot(w)
      PROVE  HeardInOrder'
    <2>1. ASSUME NEW v \in Workers, NEW d \in decs'[v]
          PROVE  /\ d \in decs[v]
                 /\ \A b \in Elements(queue'[v]) : Below(heard[d], b)
                 /\ wpc'[v] = "popped" => Below(heard[d], block'[v])
        BY <1>3, SnapshotEffect DEF HeardInOrder
    <2>2. ASSUME NEW v \in Workers, NEW d \in snap'[v]
          PROVE  Below(heard[d], block'[v])
        <3>1. CASE v = w
            <4>1. d \in decs[w] /\ block'[w] = block[w] /\ wpc[w] = "popped"
                BY <1>3, <1>t, <3>1, SnapshotEffect
            <4>2. QED BY <3>1, <4>1 DEF HeardInOrder
        <3>2. CASE v # w
            BY <1>3, <1>t, <3>2, SnapshotEffect DEF HeardInOrder
        <3>3. QED BY <3>1, <3>2
    <2>3. UNCHANGED heard
        BY <1>3, SnapshotEffect
    <2>4. QED BY <1>1, <2>1, <2>2, <2>3
<1>4. ASSUME NEW w \in Workers, WorkerProcess(w)
      PROVE  HeardInOrder'
    <2>1. PICK d \in snap[w] :
              /\ heard' = [heard EXCEPT ![d] = Append(@, block[w])]
              /\ snap' = [snap EXCEPT ![w] = @ \ {d}]
              /\ snap[w] # {d} => UNCHANGED <<wpc, block>>
              /\ \A v \in Workers \ {w} : d \notin decs[v] \cup snap[v]
        BY <1>4, ProcessEffect
    <2>2. /\ wpc[w] = "working" /\ block[w] \in Blocks /\ wpc'[w] # "popped"
          /\ \A v \in Workers \ {w} : block'[v] = block[v] /\ wpc'[v] = wpc[v]
          /\ UNCHANGED <<queue, decs, nextBlock>>
        BY <1>4, ProcessEffect
    <2>3. /\ d \in Decoders /\ heard[d] \in Seq(Blocks) /\ heard'[d] = Append(heard[d], block[w])
          /\ \A e \in Decoders \ {d} : heard'[e] = heard[e]
        BY <1>t, <2>1
    <2>4. Increasing(heard[d]) /\ Below(heard[d], block[w])
        BY <2>1, <2>3 DEF HeardInOrder
    <2>5. /\ Increasing(heard'[d])
          /\ \A c \in Int : Below(heard[d], c) /\ block[w] < c => Below(heard'[d], c)
        BY <2>2, <2>3, <2>4, AppendBlock
    <2>6. block[w] < Fresh(w) /\ \A b \in Elements(queue[w]) : block[w] < b
        BY DEF QueueInOrder, Above, Elements
    <2>7. ASSUME NEW e \in Decoders
          PROVE  Increasing(heard'[e]) /\ Below(heard'[e], nextBlock')
        <3>1. Increasing(heard[e]) /\ Below(heard[e], nextBlock)
            BY DEF HeardInOrder
        <3>2. block[w] < nextBlock /\ block[w] \in Nat
            BY <1>t, <1>n, <1>f, <2>2, <2>6
        <3>3. CASE e = d
            BY <1>n, <2>2, <2>5, <3>1, <3>2, <3>3
        <3>4. CASE e # d
            BY <2>2, <2>3, <3>1, <3>4
        <3>5. QED BY <3>3, <3>4
    <2>8. ASSUME NEW v \in Workers, NEW e \in decs'[v]
          PROVE  /\ Below(heard'[e], Fresh(v)')
                 /\ \A b \in Elements(queue'[v]) : Below(heard'[e], b)
                 /\ wpc'[v] = "popped" => Below(heard'[e], block'[v])
        <3>1. /\ e \in decs[v] /\ e \in Decoders /\ heard[e] \in Seq(Blocks)
              /\ Below(heard[e], Fresh(v)) /\ \A b \in Elements(queue[v]) : Below(heard[e], b)
              /\ wpc[v] = "popped" => Below(heard[e], block[v])
            BY <1>t, <2>2 DEF HeardInOrder
        <3>2. Below(heard[e], Fresh(v)')
            BY <1>f, <3>1, BelowAbove
        <3>3. CASE e # d
            BY <2>2, <2>3, <3>1, <3>2, <3>3
        <3>4. CASE e = d
            <4>1. v = w
                BY <2>1, <3>1, <3>4
            <4>2. \A b \in Elements(queue[w]) : b \in Nat
                BY <1>t, LenProperties DEF Elements
            <4>3. block[w] < Fresh(w)' /\ Fresh(w)' \in Int
                BY <1>t, <1>f, <2>2, <2>6
            <4>4. QED BY <2>2, <2>5, <2>6, <3>1, <3>2, <3>4, <4>1, <4>2, <4>3
        <3>5. QED BY <3>3, <3>4
    <2>9. ASSUME NEW v \in Workers, NEW e \in snap'[v]
          PROVE  Below(heard'[e], block'[v])
        <3>1. e \in snap[v] /\ e # d /\ e \in Decoders
            BY <1>t, <2>1
        <3>2. block'[v] = block[v]
            BY <1>t, <2>1, <2>2, <3>1
        <3>3. QED BY <2>3, <3>1, <3>2 DEF HeardInOrder
    <2>10. QED BY <2>7, <2>8, <2>9 DEF HeardInOrder
<1>5. CASE FeedBegin \/ ~BlockStep
    <2>1. /\ UNCHANGED <<heard, decs, snap, queue, block>>
          /\ \A w \in Workers : wpc'[w] = "popped" => wpc[w] = "popped"
        BY <1>5, OtherSteps DEF FeedBegin, manager, threads
    <2>2. QED BY <1>1, <2>1 DEF HeardInOrder
<1>6. CASE FeedPush
    <2>1. /\ feedAt \in Workers /\ nextBlock - 1 \in Blocks
          /\ UNCHANGED <<wpc, snap, block, decs, heard>>
        BY <1>6, PushEffect
    <2>2. ASSUME NEW w \in Workers, NEW d \in decs'[w]
          PROVE  /\ d \in decs[w] /\ (wpc'[w] = "popped" => Below(heard[d], block'[w]))
                 /\ \A b \in Elements(queue'[w]) : Below(heard[d], b)
        <3>1. d \in decs[w] /\ (wpc'[w] = "popped" => Below(heard[d], block'[w]))
              /\ \A b \in Elements(queue[w]) : Below(heard[d], b)
            BY <2>1 DEF HeardInOrder
        <3>2. CASE w # feedAt
            BY <1>6, <1>t, <3>1, <3>2, PushEffect
        <3>3. CASE w = feedAt
            <4>1. Elements(queue'[w]) \subseteq Elements(queue[w]) \cup {nextBlock - 1}
                BY <1>6, <3>3, PushedElements
            <4>2. Below(heard[d], nextBlock - 1)
                BY <1>6, <3>1, <3>3, FreshGrows DEF HeardInOrder
            <4>3. QED BY <3>1, <4>1, <4>2
        <3>4. QED BY <3>2, <3>3
    <2>3. QED BY <1>1, <2>1, <2>2 DEF HeardInOrder
<1>7. CASE AddDecoder
    <2>1. PICK w \in Workers, d \in Decoders \ used :
              decs' = [decs EXCEPT ![w] = @ \cup {d}] /\ heard[d] = <<>>
        BY <1>7, AddEffect
    <2>2. UNCHANGED <<queue, wpc, snap, block, heard>>
        BY <1>7, AddEffect
    <2>3. ASSUME NEW v \in Workers, NEW e \in decs'[v]
          PROVE  \/ heard[e] = <<>>
                 \/ e \in decs[v]
        BY <1>t, <2>1
    <2>4. QED BY <1>1, <2>2, <2>3 DEF HeardInOrder
<1>8. CASE RemoveDecoder \/ RemoveAll \/ StopClear
    <2>1. /\ UNCHANGED <<snap, heard>>
          /\ \A w \in Workers :
                /\ decs'[w] \subseteq decs[w]
                /\ queue'[w] \in {queue[w], <<>>}
                /\ block'[w] = block[w] \/ snap[w] = {}
                /\ wpc'[w] = "popped" => wpc[w] = "popped" /\ block'[w] = block[w]
        BY <1>8, TakeAwayEffect
    <2>2. Elements(<<>>) = {}
        BY DEF Elements
    <2>3. QED BY <1>1, <2>1, <2>2 DEF HeardInOrder
<1>9. QED BY <1>2, <1>3, <1>4, <1>5, <1>6, <1>7, <1>8 DEF BlockStep

-----------------------------------------------------------------------------
(* What a retune leaves behind.                                            *)

\* Of the blocks fed before the last removeAll of a worker, its queue can hold the
\* last one only, and one more can be in the worker's hands; so the second block a
\* new decoder hears is that last one, or a later one.
OldBlocksFew ==
    /\ \A w \in Workers : flushed[w] <= nextBlock /\ Above(queue[w], flushed[w] - 2)
    /\ \A w \in Workers : \A d \in decs[w] :
        /\ floor[d] = flushed[w]
        /\ heard[d] # <<>> /\ wpc[w] = "popped" => floor[d] <= block[w] + 1
    /\ \A w \in Workers : \A d \in snap[w] : heard[d] # <<>> => floor[d] <= block[w] + 1
    /\ \A d \in Decoders : Len(heard[d]) >= 2 => floor[d] <= heard[d][2] + 1

LEMMA OldBlocksStep ==
    ASSUME ControlInv, ControlInv', LeaveInv, QueueInOrder, OldBlocksFew, Next
    PROVE  OldBlocksFew'
<1>t. /\ queue \in [Workers -> Seq(Blocks)] /\ block \in [Workers -> Blocks \cup {None}]
      /\ heard \in [Decoders -> Seq(Blocks)] /\ wpc \in [Workers -> WorkerPcs]
      /\ decs \in [Workers -> SUBSET Decoders] /\ snap \in [Workers -> SUBSET Decoders]
      /\ flushed \in [Workers -> Nat] /\ floor \in [Decoders -> Nat]
      /\ \A b \in Blocks : b \in Nat
    BY BlocksAreNat DEF ControlInv, TypeOK
<1>n. nextBlock \in Nat /\ nextBlock' \in Nat /\ nextBlock <= nextBlock'
    <2>1. 1 \in Workers
        BY PoolAssumption DEF Workers, PoolAssumption
    <2>2. nextBlock \in Nat /\ nextBlock' \in Nat
        BY PoolAssumption DEF ControlInv, TypeOK, PoolAssumption
    <2>3. QED BY <2>1, <2>2, FreshGrows
<1>e. \A n \in Int : Above(<<>>, n)
    BY DEF Above
<1>1. ASSUME NEW w \in Workers, WorkerEnter(w)
      PROVE  OldBlocksFew'
    <2>1. /\ snap[w] = {} /\ wpc[w] = "ready" /\ \A v \in Workers \ {w} : wpc'[v] = wpc[v]
          /\ UNCHANGED <<snap, decs, floor, flushed, nextBlock, heard>>
        BY <1>1, EnterEffect
    <2>2. CASE UNCHANGED <<queue, block>> /\ wpc'[w] # "popped"
        BY <2>1, <2>2 DEF OldBlocksFew
    <2>3. CASE /\ queue[w] # <<>>
               /\ queue' = [queue EXCEPT ![w] = Tail(@)]
               /\ block' = [block EXCEPT ![w] = Head(queue[w])]
        <3>1. Above(queue[w], flushed[w] - 2) /\ flushed[w] - 2 \in Int
            BY <1>t DEF OldBlocksFew
        <3>2. /\ Head(queue[w]) \in Nat
              /\ Above(Tail(queue[w]), flushed[w] - 2) /\ flushed[w] - 2 < Head(queue[w])
            BY <1>t, <2>3, <3>1, TailBlock DEF QueueInOrder
        <3>3. flushed[w] <= Head(queue[w]) + 1
            BY <1>t, <3>2
        <3>4. \A d \in decs[w] : floor[d] <= block'[w] + 1
            BY <1>t, <2>3, <3>3 DEF OldBlocksFew
        <3>5. \A v \in Workers : Above(queue'[v], flushed[v] - 2)
            BY <1>t, <2>3, <3>2 DEF OldBlocksFew
        <3>6. \A v \in Workers \ {w} : block'[v] = block[v]
            BY <1>t, <2>3
        <3>7. QED BY <2>1, <3>4, <3>5, <3>6 DEF OldBlocksFew
    <2>4. QED BY <1>1, <2>2, <2>3, EnterEffect
<1>2. ASSUME NEW w \in Workers, WorkerSnapshot(w)
      PROVE  OldBlocksFew'
    <2>1. /\ wpc[w] = "popped" /\ wpc'[w] # "popped"
          /\ snap' = [snap EXCEPT ![w] = decs[w]]
          /\ decs[w] # {} => UNCHANGED block
          /\ \A v \in Workers \ {w} : wpc'[v] = wpc[v] /\ block'[v] = block[v]
          /\ UNCHANGED <<queue, decs, floor, flushed, nextBlock, heard>>
        BY <1>2, SnapshotEffect
    <2>2. ASSUME NEW v \in Workers, NEW d \in snap'[v], heard[d] # <<>>
          PROVE  floor[d] <= block'[v] + 1
        <3>1. CASE v = w
            BY <1>t, <2>1, <2>2, <3>1 DEF OldBlocksFew
        <3>2. CASE v # w
            BY <1>t, <2>1, <2>2, <3>2 DEF OldBlocksFew
        <3>3. QED BY <3>1, <3>2
    <2>3. QED BY <2>1, <2>2 DEF OldBlocksFew
<1>3. ASSUME NEW w \in Workers, WorkerProcess(w)
      PROVE  OldBlocksFew'
    <2>1. PICK d \in snap[w] :
              /\ heard' = [heard EXCEPT ![d] = Append(@, block[w])]
              /\ snap' = [snap EXCEPT ![w] = @ \ {d}]
              /\ snap[w] # {d} => UNCHANGED <<wpc, block>>
              /\ \A v \in Workers \ {w} : d \notin decs[v] \cup snap[v]
        BY <1>3, ProcessEffect
    <2>2. /\ wpc'[w] # "popped" /\ block[w] \in Blocks
          /\ \A v \in Workers \ {w} : block'[v] = block[v] /\ wpc'[v] = wpc[v]
          /\ UNCHANGED <<queue, decs, floor, flushed, nextBlock>>
        BY <1>3, ProcessEffect
    <2>3. /\ d \in Decoders /\ heard[d] \in Seq(Blocks) /\ heard'[d] = Append(heard[d], block[w])
          /\ \A e \in Decoders \ {d} : heard'[e] = heard[e]
        BY <1>t, <2>1
    <2>4. ASSUME NEW v \in Workers, NEW e \in decs'[v]
          PROVE  /\ floor'[e] = flushed'[v]
                 /\ heard'[e] # <<>> /\ wpc'[v] = "popped" => floor'[e] <= block'[v] + 1
        <3>1. CASE v = w
            BY <2>2, <3>1 DEF OldBlocksFew
        <3>2. CASE v # w
            <4>1. e # d /\ e \in Decoders
                BY <1>t, <2>1, <2>2, <3>2
            <4>2. QED BY <2>2, <2>3, <3>2, <4>1 DEF OldBlocksFew
        <3>3. QED BY <3>1, <3>2
    <2>5. ASSUME NEW v \in Workers, NEW e \in snap'[v], heard'[e] # <<>>
          PROVE  floor'[e] <= block'[v] + 1
        <3>1. e \in snap[v] /\ e # d /\ e \in Decoders
            BY <1>t, <2>1
        <3>2. block'[v] = block[v]
            BY <1>t, <2>1, <2>2, <3>1
        <3>3. QED BY <2>2, <2>3, <2>5, <3>1, <3>2 DEF OldBlocksFew
    <2>6. ASSUME NEW e \in Decoders, Len(heard'[e]) >= 2
          PROVE  floor'[e] <= heard'[e][2] + 1
        <3>1. CASE e # d
            BY <2>2, <2>3, <2>6, <3>1 DEF OldBlocksFew
        <3>2. CASE e = d
            <4>1. /\ Len(heard[d]) \in Nat /\ Len(heard'[d]) = Len(heard[d]) + 1
                  /\ heard'[d][Len(heard[d]) + 1] = block[w]
                  /\ \A i \in 1 .. Len(heard[d]) : heard'[d][i] = heard[d][i]
                BY <2>2, <2>3, LenProperties
            <4>2. CASE Len(heard[d]) = 1
                <5>1. heard[d] # <<>>
                    <6>1. heard[d] = <<>> => Len(heard[d]) = 0
                        OBVIOUS
                    <6>2. QED BY <4>2, <6>1
                <5>2. floor[d] <= block[w] + 1
                    BY <2>1, <5>1 DEF OldBlocksFew
                <5>3. QED BY <2>2, <3>2, <4>1, <4>2, <5>2
            <4>3. CASE Len(heard[d]) >= 2
                BY <2>2, <2>3, <3>2, <4>1, <4>3 DEF OldBlocksFew
            <4>4. Len(heard[d]) = 1 \/ Len(heard[d]) >= 2
                <5>1. Len(heard'[d]) >= 2
                    BY <2>6, <3>2, Zenon
                <5>2. Len(heard[d]) \in Nat /\ Len(heard[d]) + 1 >= 2
                    BY <4>1, <5>1, Zenon
                <5>3. \A n \in Nat : n + 1 >= 2 => n = 1 \/ n >= 2
                    OBVIOUS
                <5>4. QED BY <5>2, <5>3, Zenon
            <4>5. QED BY <4>2, <4>3, <4>4
        <3>3. QED BY <3>1, <3>2
    <2>7. QED BY <2>2, <2>4, <2>5, <2>6 DEF OldBlocksFew
<1>4. CASE FeedBegin \/ ~BlockStep
    <2>1. /\ UNCHANGED <<heard, decs, snap, queue, block, floor, flushed>>
          /\ \A w \in Workers : wpc'[w] = "popped" => wpc[w] = "popped"
        BY <1>4, OtherSteps DEF FeedBegin, manager, threads
    <2>2. \A w \in Workers : flushed[w] <= nextBlock'
        BY <1>t, <1>n DEF OldBlocksFew
    <2>3. QED BY <2>1, <2>2 DEF OldBlocksFew
<1>5. CASE FeedPush
    <2>1. /\ feedAt \in Workers /\ nextBlock - 1 \in Blocks
          /\ UNCHANGED <<wpc, snap, block, decs, heard, floor, flushed, nextBlock>>
        BY <1>5, PushEffect
    <2>2. ASSUME NEW w \in Workers PROVE Above(queue'[w], flushed[w] - 2)
        <3>1. CASE w # feedAt
            BY <1>5, <1>t, <3>1, PushEffect DEF OldBlocksFew
        <3>2. CASE w = feedAt
            <4>1. \A b \in Elements(queue[w]) \cup {nextBlock - 1} : flushed[w] - 2 < b
                BY <1>t, <1>n DEF OldBlocksFew, Above, Elements
            <4>2. Elements(queue'[w]) \subseteq Elements(queue[w]) \cup {nextBlock - 1}
                BY <1>5, <3>2, PushedElements
            <4>3. \A b \in Elements(queue'[w]) : flushed[w] - 2 < b
                BY <4>1, <4>2
            <4>4. QED BY <4>3 DEF Above, Elements
        <3>3. QED BY <3>1, <3>2
    <2>3. QED BY <2>1, <2>2 DEF OldBlocksFew
<1>6. CASE AddDecoder
    <2>1. PICK w \in Workers, d \in Decoders \ used :
              /\ decs' = [decs EXCEPT ![w] = @ \cup {d}] /\ heard[d] = <<>>
              /\ floor' = [floor EXCEPT ![d] = flushed[w]]
              /\ \A v \in Workers : d \notin decs[v] \cup snap[v]
        BY <1>6, AddEffect
    <2>2. UNCHANGED <<queue, wpc, snap, block, nextBlock, flushed, heard>>
        BY <1>6, AddEffect
    <2>3. floor'[d] = flushed[w] /\ \A e \in Decoders \ {d} : floor'[e] = floor[e]
        BY <1>t, <2>1
    <2>4. ASSUME NEW v \in Workers, NEW e \in decs'[v]
          PROVE  /\ floor'[e] = flushed[v]
                 /\ heard[e] # <<>> /\ wpc[v] = "popped" => floor'[e] <= block[v] + 1
        <3>1. CASE e = d
            BY <1>t, <2>1, <2>3, <3>1
        <3>2. CASE e # d
            <4>1. e \in decs[v] /\ e \in Decoders
                BY <1>t, <2>1, <3>2
            <4>2. QED BY <2>3, <3>2, <4>1 DEF OldBlocksFew
        <3>3. QED BY <3>1, <3>2
    <2>5. ASSUME NEW v \in Workers, NEW e \in snap[v], heard[e] # <<>>
          PROVE  floor'[e] <= block[v] + 1
        BY <1>t, <2>1, <2>3, <2>5 DEF OldBlocksFew
    <2>6. ASSUME NEW e \in Decoders, Len(heard[e]) >= 2
          PROVE  floor'[e] <= heard[e][2] + 1
        <3>1. Len(heard[d]) = 0
            BY <2>1
        <3>2. e # d
            BY <2>6, <3>1
        <3>3. QED BY <2>3, <2>6, <3>2 DEF OldBlocksFew
    <2>7. QED BY <2>2, <2>4, <2>5, <2>6 DEF OldBlocksFew
<1>7. CASE RemoveDecoder \/ RemoveAll \/ StopClear
    <2>1. /\ UNCHANGED <<snap, heard, floor, nextBlock>>
          /\ \A w \in Workers :
                /\ decs'[w] \subseteq decs[w]
                /\ queue'[w] \in {queue[w], <<>>}
                /\ block'[w] = block[w] \/ snap[w] = {}
                /\ wpc'[w] = "popped" => wpc[w] = "popped" /\ block'[w] = block[w]
                /\ flushed'[w] = flushed[w] \/ decs'[w] = {}
                /\ flushed'[w] \in {flushed[w], nextBlock, None}
                /\ flushed'[w] # flushed[w] => queue'[w] = <<>>
        BY <1>7, TakeAwayEffect
    <2>2. ASSUME NEW w \in Workers
          PROVE  flushed'[w] <= nextBlock /\ Above(queue'[w], flushed'[w] - 2)
        <3>1. flushed'[w] <= nextBlock /\ flushed'[w] \in Nat
            <4>1. /\ flushed[w] \in Nat /\ flushed[w] <= nextBlock
                  /\ flushed'[w] \in {flushed[w], nextBlock, None}
                BY <1>t, <2>1 DEF OldBlocksFew
            <4>2. QED BY <1>n, <4>1 DEF None
        <3>2. QED BY <1>e, <2>1, <3>1 DEF OldBlocksFew
    <2>3. QED BY <2>1, <2>2 DEF OldBlocksFew
<1>8. QED BY <1>1, <1>2, <1>3, <1>4, <1>5, <1>6, <1>7 DEF BlockStep

-----------------------------------------------------------------------------
(* What is missing is a counted drop.                                      *)

\* The blocks of a decoder on a worker that it has heard or can still hear.
Held(d, w) ==
    Elements(heard[d]) \cup Elements(queue[w])
        \cup (IF wpc[w] = "popped" \/ d \in snap[w] THEN {block[w]} ELSE {})

\* Those since the decoder's first that are lost to it already.
Lost(d, w) == (born[d] .. Fresh(w) - 1) \ Held(d, w)

\* The same for a decoder that is in a snapshot, and perhaps nowhere else.
LostInSnapshot(d, w) == (born[d] .. block[w] - 1) \ Elements(heard[d])

GapsCounted ==
    /\ \A w \in Workers : \A d \in decs[w] : Cardinality(Lost(d, w)) <= drops
    /\ \A w \in Workers : \A d \in snap[w] : Cardinality(LostInSnapshot(d, w)) <= drops
    /\ \A d \in Decoders : Cardinality(Missing(d)) <= drops

\* A feed() that began after a decoder was added walks the vector the decoder's
\* worker is in, and goes through to its end.
FedToAll ==
    \A w \in Workers :
        /\ uiPc = "push" => decs[w] = {}
        /\ \A d \in decs[w] :
            /\ born[d] <= nextBlock
            /\ feedPc # "idle" /\ born[d] < nextBlock => vecLen = feedEnd

LEMMA FedStep ==
    ASSUME ControlInv, ControlInv', LeaveInv, FedToAll, Next
    PROVE  FedToAll'
<1>t. /\ decs \in [Workers -> SUBSET Decoders] /\ born \in [Decoders -> Nat]
    BY DEF ControlInv, TypeOK
<1>n. nextBlock \in Nat /\ nextBlock' \in Nat
    BY PoolAssumption DEF ControlInv, TypeOK, PoolAssumption
<1>1. CASE FeedBegin
    <2>1. /\ UNCHANGED <<decs, born, vecLen, uiPc>> /\ nextBlock' = nextBlock + 1
          /\ feedPc' # "idle" => feedEnd' = vecLen
        BY <1>1 DEF FeedBegin, manager, ui
    <2>2. QED BY <1>t, <1>n, <2>1 DEF FedToAll
<1>2. CASE Feed
    <2>1. /\ UNCHANGED <<decs, born, vecLen, uiPc, nextBlock>> /\ feedPc # "idle"
          /\ feedPc' # "idle" => feedEnd' = feedEnd
        <3>1. UNCHANGED <<decs, born, vecLen, uiPc>>
            BY <1>2, FeedFrame DEF ui
        <3>2. UNCHANGED nextBlock
            BY <1>2 DEF Feed, FeedCheck, FeedPush, FeedNotify, FeedStale, history
        <3>3. feedPc # "idle"
            BY <1>2 DEF Feed, FeedCheck, FeedPush, FeedNotify, FeedStale
        <3>4. feedPc' # "idle" => feedEnd' = feedEnd
            BY <1>2 DEF Feed, FeedCheck, FeedPush, FeedNotify, FeedStale, FeedNext
        <3>5. QED BY <3>1, <3>2, <3>3, <3>4
    <2>2. QED BY <2>1 DEF FedToAll
<1>3. CASE AddDecoder
    <2>1. PICK w \in Workers, d \in Decoders \ used :
              /\ decs' = [decs EXCEPT ![w] = @ \cup {d}]
              /\ born' = [born EXCEPT ![d] = nextBlock]
              /\ \A v \in Workers : d \notin decs[v] \cup snap[v]
        BY <1>3, AddEffect
    <2>2. UNCHANGED <<vecLen, nextBlock, feedPc, feedAt, feedEnd>>
        BY <1>3, AddEffect
    <2>3. op = "idle" /\ UNCHANGED uiPc
        BY <1>3 DEF AddDecoder, ui
    <2>4. uiPc # "push"
        BY <2>3 DEF ControlInv, UiInv, OpMatchesPc
    <2>5. ASSUME NEW v \in Workers, NEW e \in decs'[v]
          PROVE  /\ born'[e] <= nextBlock
                 /\ feedPc # "idle" /\ born'[e] < nextBlock => vecLen = feedEnd
        <3>1. CASE e = d
            BY <1>t, <1>n, <2>1, <3>1
        <3>2. CASE e # d
            <4>1. e \in decs[v] /\ born'[e] = born[e]
                BY <1>t, <2>1, <3>2
            <4>2. QED BY <4>1 DEF FedToAll
        <3>3. QED BY <3>1, <3>2
    <2>6. QED BY <2>2, <2>3, <2>4, <2>5 DEF FedToAll
<1>4. CASE RemoveDecoder \/ RemoveAll \/ StopClear
    <2>1. /\ UNCHANGED <<born, nextBlock>> /\ \A w \in Workers : decs'[w] \subseteq decs[w]
        BY <1>4, TakeAwayEffect
    <2>2. UNCHANGED <<feedPc, feedEnd>>
        BY <1>4, OnlyFeedMovesFeed DEF RemoveDecoder, RemoveAll, StopClear, reader
    <2>3. (UNCHANGED vecLen) \/ \A w \in Workers : decs'[w] = {}
        BY <1>4 DEF RemoveDecoder, RemoveAll, StopClear
    <2>4. uiPc' = "push" => uiPc = "push"
        BY <1>4 DEF RemoveDecoder, RemoveAll, StopClear, LoopTo, Return, Goto, ui
    <2>5. QED BY <2>1, <2>2, <2>3, <2>4 DEF FedToAll
<1>5. CASE StartPush \/ StartRunOn
    <2>1. UNCHANGED <<decs, born, nextBlock>>
        BY <1>5 DEF StartPush, StartRunOn, history
    <2>2. \A w \in Workers : decs[w] = {}
        BY <1>5, PoolAssumption DEF StartPush, StartRunOn, FedToAll, ControlInv, UiInv, VectorMatchesPc,
            CountInv, Workers, PoolAssumption
    <2>3. QED BY <2>1, <2>2 DEF FedToAll
<1>6. CASE ~(FeedBegin \/ Feed \/ AddDecoder \/ RemoveDecoder \/ RemoveAll \/ StopClear
             \/ StartPush \/ StartRunOn)
    <2>1. UNCHANGED <<feedPc, feedEnd, nextBlock>>
        BY <1>6, OnlyFeedMovesFeed
    <2>2. UNCHANGED <<decs, born, vecLen>> /\ (uiPc' = "push" => uiPc = "push")
        <3>1. ASSUME NEW w \in Workers, Worker(w) \/ SpuriousWake(w)
              PROVE  UNCHANGED <<decs, born, vecLen, uiPc>>
            BY <3>1, WorkerFrame DEF ui
        <3>2. CASE SourceEnds
            BY <3>2, FeedFrame DEF ui
        <3>3. CASE UiStep
            <4>1. UNCHANGED born
                BY <3>3, UiFrame
            <4>2. UNCHANGED <<decs, vecLen>>
                BY <1>6, <3>3 DEF UiStep, SourceStop, StopRunOff, StopNotify, StopJoin,
                    SourceStart, StartLaunch, manager
            <4>3. uiPc' # "push"
                BY <1>6, <3>3 DEF UiStep, SourceStop, StopRunOff, StopNotify, StopJoin,
                    SourceStart, StartLaunch, Goto, EnterLoop, LoopTo, Return
            <4>4. QED BY <4>1, <4>2, <4>3
        <3>4. CASE User
            BY <1>6, <3>4 DEF User, PressStart, PressStop, Exit, Begin, BeginRemoveAll, manager, history
        <3>5. QED BY <1>6, <3>1, <3>2, <3>3, <3>4 DEF Next
    <2>3. QED BY <2>1, <2>2 DEF FedToAll
<1>7. QED BY <1>1, <1>2, <1>3, <1>4, <1>5, <1>6

\* The range of blocks a decoder can have lost grows only when its worker gets one.
LEMMA RangeKept ==
    ASSUME ControlInv, FedToAll, Next, NEW w \in Workers, NEW d \in decs[w],
           ~(FeedPush /\ feedAt = w), born[d] < Fresh(w)'
    PROVE  Fresh(w)' = Fresh(w)
<1>t. /\ nextBlock \in Nat /\ feedAt \in Nat /\ feedEnd \in Nat /\ vecLen \in Nat /\ w \in Nat
      /\ born[d] \in Nat /\ feedPc \in {"idle", "check", "push", "notify"}
      /\ w <= vecLen /\ w >= 1
    <2>1. w <= vecLen
        BY PoolAssumption DEF ControlInv, TypeOK, CountInv, Workers, PoolAssumption
    <2>2. born[d] \in Nat
        BY DEF ControlInv, TypeOK
    <2>3. QED BY <2>1, <2>2, PoolAssumption DEF ControlInv, TypeOK, Workers, None, PoolAssumption
<1>1. CASE FeedBegin
    <2>1. /\ vecLen # 0 /\ feedPc = "idle"
          /\ feedPc' = "check" /\ feedAt' = 1 /\ nextBlock' = nextBlock + 1
        BY <1>1, <1>t DEF FeedBegin
    <2>2. PushPending(w)' /\ ~PushPending(w)
        BY <1>t, <2>1 DEF PushPending
    <2>3. QED BY <1>t, <2>1, <2>2 DEF Fresh
<1>2. CASE Feed
    <2>1. UNCHANGED nextBlock
        BY <1>2 DEF Feed, FeedCheck, FeedPush, FeedNotify, FeedStale, history
    <2>2. born[d] < nextBlock
        BY <1>t, <2>1 DEF Fresh
    <2>3. feedPc # "idle"
        BY <1>2 DEF Feed, FeedCheck, FeedPush, FeedNotify, FeedStale
    <2>4. ~VectorChanged
        BY <2>2, <2>3 DEF FedToAll, VectorChanged
    <2>5. count[w] # 0
        <3>1. IsFiniteSet(decs[w]) /\ decs[w] # {}
            BY FS_Subset, PoolAssumption DEF ControlInv, TypeOK, PoolAssumption
        <3>2. QED BY <3>1, FS_EmptySet DEF ControlInv, CountInv
    <2>6. PushPending(w) => PushPending(w)'
        <3>1. SUFFICES ASSUME PushPending(w) PROVE PushPending(w)'
            OBVIOUS
        <3>2. feedAt < w \/ (feedAt = w /\ feedPc # "notify")
            BY <3>1 DEF PushPending
        <3>3. CASE FeedCheck /\ count[feedAt] = 0
            <4>1. feedAt < w /\ FeedNext
                BY <2>5, <3>2, <3>3 DEF FeedCheck
            <4>2. QED BY <1>t, <2>4, <4>1 DEF FeedNext, VectorChanged, PushPending
        <3>4. CASE FeedCheck /\ count[feedAt] # 0
            BY <1>t, <3>2, <3>4 DEF FeedCheck, PushPending
        <3>5. CASE FeedPush
            BY <1>t, <3>2, <3>5 DEF FeedPush, PushPending
        <3>6. CASE FeedNotify
            <4>1. feedAt < w /\ FeedNext
                BY <3>2, <3>6 DEF FeedNotify
            <4>2. QED BY <1>t, <2>4, <4>1 DEF FeedNext, VectorChanged, PushPending
        <3>7. QED BY <1>2, <2>4, <3>3, <3>4, <3>5, <3>6 DEF Feed, FeedStale
    <2>7. PushPending(w)' => PushPending(w)
        BY <1>2, FeedPassesOn
    <2>8. QED BY <2>1, <2>6, <2>7 DEF Fresh
<1>3. CASE ~(FeedBegin \/ Feed)
    <2>1. UNCHANGED <<feedPc, feedAt, feedEnd, nextBlock>>
        BY <1>3, OnlyFeedMovesFeed
    <2>2. QED BY <2>1 DEF Fresh, PushPending
<1>4. QED BY <1>1, <1>2, <1>3


\* Sets of block numbers.
LEMMA FewerBlocks ==
    ASSUME NEW a \in Int, NEW b \in Int, NEW S \in SUBSET (a .. b), NEW T \in SUBSET S
    PROVE  Cardinality(S) \in Nat /\ Cardinality(T) \in Nat /\ Cardinality(T) <= Cardinality(S)
<1>1. IsFiniteSet(a .. b)
    BY FS_Interval
<1>2. IsFiniteSet(S)
    BY <1>1, FS_Subset
<1>3. IsFiniteSet(T) /\ Cardinality(T) <= Cardinality(S)
    BY <1>2, FS_Subset
<1>4. QED BY <1>2, <1>3, FS_CardinalityType

LEMMA OneMoreBlock ==
    ASSUME NEW a \in Int, NEW b \in Int, NEW S \in SUBSET (a .. b), NEW x,
           NEW T \in SUBSET (S \cup {x})
    PROVE  Cardinality(S) \in Nat /\ Cardinality(T) \in Nat /\ Cardinality(T) <= Cardinality(S) + 1
<1>1. IsFiniteSet(S)
    BY FS_Interval, FS_Subset
<1>2. IsFiniteSet(S \cup {x}) /\ Cardinality(S \cup {x}) <= Cardinality(S) + 1
    <2>1. /\ IsFiniteSet(S \cup {x})
          /\ Cardinality(S \cup {x}) = Cardinality(S) \/ Cardinality(S \cup {x}) = Cardinality(S) + 1
        BY <1>1, FS_AddElement
    <2>2. Cardinality(S) \in Nat
        BY <1>1, FS_CardinalityType
    <2>3. QED BY <2>1, <2>2
<1>3. IsFiniteSet(T) /\ Cardinality(T) <= Cardinality(S \cup {x})
    BY <1>2, FS_Subset
<1>4. Cardinality(S) \in Nat /\ Cardinality(T) \in Nat /\ Cardinality(S \cup {x}) \in Nat
    BY <1>1, <1>2, <1>3, FS_CardinalityType
<1>5. QED BY <1>2, <1>3, <1>4

\* Only a push takes a block from a decoder that stays.
LEMMA HeldKept ==
    ASSUME ControlInv, LeaveInv, QueueInOrder, Next, NEW w \in Workers,
           NEW d \in decs[w], d \in decs'[w], ~(FeedPush /\ feedAt = w)
    PROVE  Held(d, w) \subseteq Held(d, w)'
<1>t. /\ queue \in [Workers -> Seq(Blocks)] /\ block \in [Workers -> Blocks \cup {None}]
      /\ heard \in [Decoders -> Seq(Blocks)] /\ wpc \in [Workers -> WorkerPcs]
      /\ snap \in [Workers -> SUBSET Decoders] /\ decs \in [Workers -> SUBSET Decoders]
    BY DEF ControlInv, TypeOK
<1>d. d \in Decoders
    BY <1>t
<1>1. CASE /\ UNCHANGED <<heard, snap>>
           /\ queue'[w] = queue[w] /\ block'[w] = block[w]
           /\ wpc'[w] = "popped" <=> wpc[w] = "popped"
    BY <1>1 DEF Held
<1>2. ASSUME NEW v \in Workers, WorkerEnter(v)
      PROVE  Held(d, w) \subseteq Held(d, w)'
    <2>1. /\ wpc[v] = "ready" /\ snap[v] = {} /\ UNCHANGED <<snap, heard>>
          /\ \A u \in Workers \ {v} : wpc'[u] = wpc[u]
        BY <1>2, EnterEffect
    <2>2. CASE v = w
        <3>1. Held(d, w) = Elements(heard[d]) \cup Elements(queue[w])
            BY <2>1, <2>2 DEF Held
        <3>2. CASE UNCHANGED <<queue, block>>
            BY <2>1, <3>1, <3>2 DEF Held
        <3>3. CASE /\ queue[w] # <<>> /\ queue'[w] = Tail(queue[w])
                   /\ block'[w] = Head(queue[w]) /\ wpc'[w] = "popped"
            <4>1. Elements(queue[w]) = Elements(Tail(queue[w])) \cup {Head(queue[w])}
                BY <1>t, <3>3, TailBlock DEF QueueInOrder
            <4>2. QED BY <2>1, <3>1, <3>3, <4>1 DEF Held
        <3>4. QED BY <1>2, <1>t, <2>2, <3>2, <3>3, EnterEffect
    <2>3. CASE v # w
        BY <1>1, <1>2, <1>t, <2>1, <2>3, EnterEffect
    <2>4. QED BY <2>2, <2>3
<1>3. ASSUME NEW v \in Workers, WorkerSnapshot(v)
      PROVE  Held(d, w) \subseteq Held(d, w)'
    <2>1. /\ wpc[v] = "popped" /\ snap' = [snap EXCEPT ![v] = decs[v]]
          /\ decs[v] # {} => UNCHANGED block
          /\ \A u \in Workers \ {v} : wpc'[u] = wpc[u] /\ block'[u] = block[u]
          /\ UNCHANGED <<queue, heard>>
        BY <1>3, SnapshotEffect
    <2>2. CASE v = w
        <3>1. d \in snap'[w] /\ block'[w] = block[w]
            BY <1>t, <2>1, <2>2
        <3>2. QED BY <2>1, <3>1 DEF Held
    <2>3. CASE v # w
        <3>1. snap'[w] = snap[w] /\ wpc'[w] = wpc[w] /\ block'[w] = block[w]
            BY <1>t, <2>1, <2>3
        <3>2. QED BY <2>1, <3>1 DEF Held
    <2>4. QED BY <2>2, <2>3
<1>4. ASSUME NEW v \in Workers, WorkerProcess(v)
      PROVE  Held(d, w) \subseteq Held(d, w)'
    <2>1. PICK e \in snap[v] :
              /\ heard' = [heard EXCEPT ![e] = Append(@, block[v])]
              /\ snap' = [snap EXCEPT ![v] = @ \ {e}]
              /\ snap[v] # {e} => UNCHANGED <<wpc, block>>
              /\ \A u \in Workers \ {v} : e \notin decs[u] \cup snap[u]
        BY <1>4, ProcessEffect
    <2>2. /\ wpc[v] = "working" /\ block[v] \in Blocks
          /\ \A u \in Workers \ {v} : block'[u] = block[u] /\ wpc'[u] = wpc[u]
          /\ UNCHANGED queue
        BY <1>4, ProcessEffect
    <2>3. CASE v # w
        <3>1. /\ d # e /\ heard'[d] = heard[d] /\ snap'[w] = snap[w]
              /\ block'[w] = block[w] /\ wpc'[w] = wpc[w]
            BY <1>t, <1>d, <2>1, <2>2, <2>3
        <3>2. QED BY <2>2, <3>1 DEF Held
    <2>4. CASE v = w /\ d # e
        <3>1. heard'[d] = heard[d] /\ (d \in snap'[w] <=> d \in snap[w])
            BY <1>t, <1>d, <2>1, <2>4
        <3>2. d \in snap[w] => block'[w] = block[w]
            BY <2>1, <2>4
        <3>3. QED BY <2>2, <2>4, <3>1, <3>2 DEF Held
    <2>5. CASE v = w /\ d = e
        <3>1. Elements(heard[d]) \cup {block[w]} \subseteq Elements(heard'[d])
            <4>1. /\ Len(heard'[d]) = Len(heard[d]) + 1 /\ Len(heard[d]) \in Nat
                  /\ heard'[d][Len(heard[d]) + 1] = block[w]
                  /\ \A i \in 1 .. Len(heard[d]) : heard'[d][i] = heard[d][i]
                BY <1>t, <1>d, <2>1, <2>2, <2>5, LenProperties
            <4>2. block[w] \in Elements(heard'[d])
                BY <4>1 DEF Elements
            <4>3. ASSUME NEW b \in Elements(heard[d]) PROVE b \in Elements(heard'[d])
                BY <4>1 DEF Elements
            <4>4. QED BY <4>2, <4>3
        <3>2. QED BY <2>2, <3>1 DEF Held
    <2>6. QED BY <2>3, <2>4, <2>5
<1>5. CASE FeedBegin \/ ~BlockStep
    <2>1. /\ UNCHANGED <<heard, snap, queue, block>>
          /\ wpc'[w] = "popped" <=> wpc[w] = "popped"
        BY <1>5, OtherSteps DEF FeedBegin, manager, threads
    <2>2. QED BY <1>1, <2>1
<1>6. CASE FeedPush
    <2>1. queue'[w] = queue[w]
        BY <1>6, <1>t, PushEffect
    <2>2. QED BY <1>1, <1>6, <2>1, PushEffect
<1>7. CASE AddDecoder
    BY <1>1, <1>7, AddEffect
<1>8. CASE RemoveDecoder \/ RemoveAll \/ StopClear
    BY <1>1, <1>8, TakeAwayEffect
<1>9. QED BY <1>2, <1>3, <1>4, <1>5, <1>6, <1>7, <1>8 DEF BlockStep

\* A decoder's first block is set once, before it hears anything; drops_ only grows.
LEMMA BornKept ==
    ASSUME ControlInv, LeaveInv, Next
    PROVE  /\ drops \in Nat /\ drops' \in Nat /\ drops <= drops'
           /\ \A d \in Decoders :
                \/ born'[d] = born[d]
                \/ /\ heard'[d] = <<>>
                   /\ \A w \in Workers : d \notin decs[w] \cup snap[w] \cup snap'[w]
<1>t. drops \in Nat /\ born \in [Decoders -> Nat]
    BY DEF ControlInv, TypeOK
<1>1. CASE AddDecoder
    BY <1>t, <1>1, AddEffect
<1>2. CASE FeedPush
    BY <1>t, <1>2, PushEffect
<1>3. CASE ~(AddDecoder \/ FeedPush)
    <2>1. ASSUME NEW w \in Workers, Worker(w) \/ SpuriousWake(w)
          PROVE  UNCHANGED <<born, drops>>
        BY <2>1, WorkerFrame
    <2>2. FeedBegin \/ Feed \/ SourceEnds => UNCHANGED <<born, drops>>
        BY <1>3, FeedFrame DEF FeedBegin, Feed, FeedCheck, FeedNotify, FeedStale, SourceEnds,
            manager
    <2>3. UiStep => UNCHANGED <<born, drops>>
        BY UiFrame
    <2>4. User => UNCHANGED <<born, drops>>
        BY <1>3 DEF User, PressStart, PressStop, Exit, Begin, BeginRemoveAll, RemoveDecoder,
            manager, history
    <2>5. UNCHANGED <<born, drops>>
        BY <2>1, <2>2, <2>3, <2>4 DEF Next
    <2>6. QED BY <1>t, <2>5
<1>4. QED BY <1>1, <1>2, <1>3

\* A decoder that stays on its worker loses a block only to a full queue.
LEMMA LostKept ==
    ASSUME ControlInv, ControlInv', LeaveInv, QueueInOrder, FedToAll, Next,
           NEW w \in Workers, NEW d \in decs[w], d \in decs'[w]
    PROVE  \/ Lost(d, w)' \subseteq Lost(d, w)
           \/ drops' = drops + 1 /\ \E b \in Blocks : Lost(d, w)' \subseteq Lost(d, w) \cup {b}
<1>t. /\ born[d] \in Nat /\ born'[d] = born[d] /\ d \in Decoders
      /\ Fresh(w) \in Nat /\ Fresh(w)' \in Nat
    <2>1. d \in Decoders
        BY DEF ControlInv, TypeOK
    <2>2. born[d] \in Nat /\ born'[d] = born[d]
        BY <2>1, BornKept DEF ControlInv, TypeOK
    <2>3. Fresh(w)' \in {nextBlock', nextBlock' - 1} /\ nextBlock' \in Nat
        BY PoolAssumption DEF Fresh, ControlInv, TypeOK, PoolAssumption
    <2>6. Fresh(w) \in Nat /\ Fresh(w) > 0
        BY FreshType
    <2>4. Fresh(w) <= Fresh(w)'
        BY FreshGrows
    <2>5. QED BY <2>1, <2>2, <2>3, <2>4, <2>6
<1>1. CASE ~(FeedPush /\ feedAt = w)
    <2>1. SUFFICES ASSUME NEW b \in Lost(d, w)' PROVE b \in Lost(d, w)
        OBVIOUS
    <2>2. b \in Int /\ born[d] <= b /\ b <= Fresh(w)' - 1 /\ b \notin Held(d, w)'
        BY <1>t, <2>1 DEF Lost
    <2>3. Fresh(w)' = Fresh(w)
        BY <1>1, <1>t, <2>2, RangeKept
    <2>4. b \notin Held(d, w)
        BY <1>1, <2>2, HeldKept
    <2>5. QED BY <1>t, <2>2, <2>3, <2>4 DEF Lost
<1>2. CASE FeedPush /\ feedAt = w
    <2> DEFINE n == nextBlock - 1
    <2>1. Fresh(w) = n /\ Fresh(w)' = n + 1
        <3>1. nextBlock \in Nat
            BY FreshType
        <3>2. Fresh(w) = nextBlock - 1 /\ Fresh(w)' = nextBlock
            BY <1>2, FreshGrows
        <3>3. QED BY <3>1, <3>2
    <2>2. UNCHANGED <<heard, block, wpc, snap>> /\ n \in Blocks /\ n \in Nat
        BY <1>2, PushEffect, BlocksAreNat
    <2> HIDE DEF n
    <2>3. ASSUME NEW b \in Lost(d, w)', b \notin Lost(d, w)
          PROVE  b \in Elements(queue[w]) \ Elements(queue'[w])
        <3>1. /\ b \in Int /\ born[d] <= b /\ b <= n
              /\ b \notin Elements(queue'[w]) /\ b \notin Held(d, w)'
            BY <1>t, <2>1, <2>2, <2>3 DEF Lost, Held
        <3>2. b # n
            BY <1>2, <3>1, PushedElements DEF n
        <3>3. b \in Held(d, w)
            BY <1>t, <2>1, <2>2, <2>3, <3>1, <3>2 DEF Lost
        <3>4. b \in Elements(queue[w])
            BY <2>2, <3>1, <3>3 DEF Held
        <3>5. QED BY <3>1, <3>4
    <2>4. \/ Elements(queue[w]) \subseteq Elements(queue'[w])
          \/ /\ drops' = drops + 1
             /\ \E b \in Blocks : Elements(queue[w]) \subseteq Elements(queue'[w]) \cup {b}
        BY <1>2, PushedElements
    <2>5. QED BY <2>3, <2>4
<1>3. QED BY <1>1, <1>2

\* A snapshot loses what its decoder's worker had lost, and no more while it lasts.
LEMMA LostWithSnapshot ==
    ASSUME ControlInv, LeaveInv, QueueInOrder, HeardInOrder, Next,
           NEW w \in Workers, NEW d \in snap'[w]
    PROVE  \/ d \in snap[w] /\ LostInSnapshot(d, w)' \subseteq LostInSnapshot(d, w)
           \/ d \in decs[w] /\ LostInSnapshot(d, w)' \subseteq Lost(d, w)
<1>t. /\ snap \in [Workers -> SUBSET Decoders] /\ decs \in [Workers -> SUBSET Decoders]
      /\ heard \in [Decoders -> Seq(Blocks)] /\ block \in [Workers -> Blocks \cup {None}]
      /\ born \in [Decoders -> Nat]
    BY DEF ControlInv, TypeOK
<1>1. CASE d \in snap[w] /\ block'[w] = block[w] /\ heard'[d] = heard[d]
    <2>1. d \in Decoders
        BY <1>1, <1>t
    <2>2. born'[d] = born[d]
        BY <1>1, <2>1, BornKept
    <2>3. QED BY <1>1, <2>2 DEF LostInSnapshot
<1>2. ASSUME NEW v \in Workers, WorkerEnter(v)
      PROVE  d \in snap[w] /\ block'[w] = block[w] /\ heard'[d] = heard[d]
    BY <1>2, <1>t, EnterEffect
<1>3. ASSUME NEW v \in Workers, WorkerSnapshot(v)
      PROVE  \/ d \in snap[w] /\ block'[w] = block[w] /\ heard'[d] = heard[d]
             \/ d \in decs[w] /\ LostInSnapshot(d, w)' \subseteq Lost(d, w)
    <2>1. /\ wpc[v] = "popped" /\ snap[v] = {} /\ snap' = [snap EXCEPT ![v] = decs[v]]
          /\ decs[v] # {} => UNCHANGED block
          /\ \A u \in Workers \ {v} : block'[u] = block[u]
          /\ UNCHANGED <<heard, born>>
        BY <1>3, SnapshotEffect
    <2>2. CASE v # w
        BY <1>t, <2>1, <2>2
    <2>3. CASE v = w
        <3>1. d \in decs[w] /\ block'[w] = block[w] /\ d \in Decoders /\ d \notin snap[w]
            BY <1>t, <2>1, <2>3
        <3>2. /\ block[w] < Fresh(w) /\ \A b \in Elements(queue[w]) : block[w] < b
            BY DEF QueueInOrder, Above, Elements
        <3>3. block[w] \in Nat /\ Fresh(w) \in Nat /\ born[d] \in Nat
            BY <1>t, <3>1, BlocksAreNat, FreshType DEF None
        <3>4. SUFFICES ASSUME NEW b \in LostInSnapshot(d, w)' PROVE b \in Lost(d, w)
            BY <3>1
        <3>5. b \in Int /\ born[d] <= b /\ b < block[w] /\ b \notin Elements(heard[d])
            BY <2>1, <3>1, <3>3, <3>4 DEF LostInSnapshot
        <3>6. b \notin Elements(queue[w]) /\ b # block[w] /\ b <= Fresh(w) - 1
            <4>1. \A q \in Elements(queue[w]) : q \in Nat
                BY BlocksAreNat, LenProperties DEF Elements, ControlInv, TypeOK
            <4>2. QED BY <3>2, <3>3, <3>5, <4>1
        <3>7. QED BY <3>3, <3>5, <3>6 DEF Lost, Held
    <2>4. QED BY <2>2, <2>3
<1>4. ASSUME NEW v \in Workers, WorkerProcess(v)
      PROVE  d \in snap[w] /\ block'[w] = block[w] /\ heard'[d] = heard[d]
    <2>1. PICK e \in snap[v] :
              /\ heard' = [heard EXCEPT ![e] = Append(@, block[v])]
              /\ snap' = [snap EXCEPT ![v] = @ \ {e}]
              /\ snap[v] # {e} => UNCHANGED <<wpc, block>>
              /\ \A u \in Workers \ {v} : e \notin decs[u] \cup snap[u]
        BY <1>4, ProcessEffect
    <2>2. \A u \in Workers \ {v} : block'[u] = block[u]
        BY <1>4, ProcessEffect
    <2>3. d \in snap[w] /\ d # e
        BY <1>t, <2>1
    <2>4. QED BY <1>t, <2>1, <2>2, <2>3
<1>5. CASE FeedBegin \/ ~BlockStep
    BY <1>1, <1>5, OtherSteps DEF FeedBegin, manager, threads
<1>6. CASE FeedPush
    BY <1>1, <1>6, PushEffect
<1>7. CASE AddDecoder
    BY <1>1, <1>7, AddEffect
<1>8. CASE RemoveDecoder \/ RemoveAll \/ StopClear
    BY <1>1, <1>8, TakeAwayEffect
<1>9. QED BY <1>1, <1>2, <1>3, <1>4, <1>5, <1>6, <1>7, <1>8 DEF BlockStep

\* What a decoder hears is the block of a snapshot it is in.
LEMMA HeardFromSnapshot ==
    ASSUME ControlInv, LeaveInv, Next, NEW d \in Decoders, heard'[d] # heard[d]
    PROVE  \E w \in Workers : d \in snap[w] /\ heard'[d] = Append(heard[d], block[w])
                              /\ block[w] \in Blocks
<1>t. heard \in [Decoders -> Seq(Blocks)]
    BY DEF ControlInv, TypeOK
<1>1. ASSUME NEW v \in Workers, WorkerProcess(v)
      PROVE  v \in Workers /\ d \in snap[v] /\ heard'[d] = Append(heard[d], block[v]) /\ block[v] \in Blocks
    BY <1>1, <1>t, ProcessEffect
<1>2. CASE \E v \in Workers : WorkerProcess(v)
    BY <1>1, <1>2
<1>3. CASE ~\E v \in Workers : WorkerProcess(v)
    <2>1. ASSUME NEW w \in Workers, Worker(w) \/ SpuriousWake(w)
          PROVE  UNCHANGED heard
        BY <1>3, <2>1 DEF Worker, WorkerEnter, WorkerBlock, SpuriousWake, WorkerSnapshot, history
    <2>2. UNCHANGED heard
        BY <2>1, FeedFrame, UiFrame, UserFrame DEF Next
    <2>3. QED BY <2>2
<1>4. QED BY <1>2, <1>3

LEMMA MissingIs ==
    \A d \in Decoders : Missing(d) = {b \in born[d] .. nextBlock :
        b \notin Elements(heard[d]) /\ \E c \in Elements(heard[d]) : b < c}
BY DEF Missing, Elements

LEMMA MissingKept ==
    ASSUME ControlInv, ControlInv', LeaveInv, HeardInOrder, Next, NEW d \in Decoders
    PROVE  \/ Missing(d)' = {}
           \/ Missing(d)' \subseteq Missing(d)
           \/ \E w \in Workers : d \in snap[w] /\ Missing(d)' \subseteq LostInSnapshot(d, w)
<1>t. /\ heard \in [Decoders -> Seq(Blocks)] /\ born[d] \in Nat /\ nextBlock \in Nat /\ nextBlock' \in Nat
      /\ \A c \in Elements(heard[d]) : c \in Nat
    <2>1. heard[d] \in Seq(Blocks)
        BY DEF ControlInv, TypeOK
    <2>2. \A c \in Elements(heard[d]) : c \in Nat
        BY <2>1, BlocksAreNat, LenProperties DEF Elements
    <2>3. QED BY <2>2, PoolAssumption DEF ControlInv, TypeOK, PoolAssumption
<1>m. Missing(d)' = {b \in born'[d] .. nextBlock' :
          b \notin Elements(heard'[d]) /\ \E c \in Elements(heard'[d]) : b < c}
    BY DEF Missing, Elements
<1>1. CASE heard'[d] = <<>>
    <2>1. Elements(heard'[d]) = {}
        BY <1>1 DEF Elements
    <2>2. QED BY <1>m, <2>1
<1>2. CASE heard'[d] = heard[d] /\ heard'[d] # <<>>
    <2>1. born'[d] = born[d]
        BY <1>2, BornKept
    <2>2. \A c \in Elements(heard[d]) : c < nextBlock
        BY DEF HeardInOrder, Below, Elements
    <2>3. ASSUME NEW b \in Missing(d)' PROVE b \in Missing(d)
        <3>1. /\ b \in Int /\ born[d] <= b /\ b \notin Elements(heard[d])
              /\ \E c \in Elements(heard[d]) : b < c
            BY <1>2, <1>m, <1>t, <2>1, <2>3
        <3>2. b <= nextBlock
            BY <1>t, <2>2, <3>1
        <3>3. QED BY <1>t, <3>1, <3>2, MissingIs
    <2>4. QED BY <2>3
<1>3. CASE heard'[d] # heard[d]
    <2>1. PICK w \in Workers : d \in snap[w] /\ heard'[d] = Append(heard[d], block[w])
                               /\ block[w] \in Blocks
        BY <1>3, HeardFromSnapshot
    <2>2. Increasing(heard[d]) /\ Below(heard[d], block[w]) /\ block[w] \in Nat
        BY <2>1, BlocksAreNat DEF HeardInOrder
    <2>3. Elements(heard'[d]) = Elements(heard[d]) \cup {block[w]}
        BY <1>t, <2>1, <2>2, AppendBlock
    <2>4. \A c \in Elements(heard[d]) : c < block[w]
        BY <2>2 DEF Below, Elements
    <2>5. born'[d] = born[d]
        BY <2>1, BornKept
    <2>6. ASSUME NEW b \in Missing(d)' PROVE b \in LostInSnapshot(d, w)
        <3>1. /\ b \in Int /\ born[d] <= b /\ b \notin Elements(heard[d])
              /\ \E c \in Elements(heard[d]) \cup {block[w]} : b < c
            BY <1>m, <1>t, <2>3, <2>5, <2>6
        <3>2. b < block[w]
            BY <1>t, <2>2, <2>4, <3>1
        <3>3. QED BY <1>t, <2>2, <3>1, <3>2 DEF LostInSnapshot
    <2>7. QED BY <2>1, <2>6
<1>4. QED BY <1>1, <1>2, <1>3

LEMMA GapStep ==
    ASSUME ControlInv, ControlInv', LeaveInv, QueueInOrder, HeardInOrder, FedToAll, GapsCounted, Next
    PROVE  GapsCounted'
<1>t. /\ decs \in [Workers -> SUBSET Decoders] /\ snap \in [Workers -> SUBSET Decoders]
      /\ born \in [Decoders -> Nat] /\ nextBlock \in Nat /\ nextBlock' \in Nat
      /\ block \in [Workers -> Blocks \cup {None}] /\ born' \in [Decoders -> Nat]
    <2>1. nextBlock \in Nat
        BY FreshType, PoolAssumption DEF ControlInv, TypeOK, PoolAssumption
    <2>2. nextBlock' \in Nat
        BY PoolAssumption DEF ControlInv, TypeOK, PoolAssumption
    <2>3. QED BY <2>1, <2>2 DEF ControlInv, TypeOK
<1>d. drops \in Nat /\ drops' \in Nat /\ drops <= drops'
    BY BornKept
<1>e. Cardinality({}) = 0
    BY FS_EmptySet
\* The sets that are counted are sets of blocks.
<1>r. /\ \A w \in Workers : \A d \in decs[w] : Lost(d, w) \subseteq born[d] .. Fresh(w) - 1
      /\ \A w \in Workers : \A d \in snap[w] : LostInSnapshot(d, w) \subseteq born[d] .. block[w] - 1
      /\ \A d \in Decoders : Missing(d) \subseteq born[d] .. nextBlock
    BY MissingIs DEF Lost, LostInSnapshot
<1>i. /\ \A w \in Workers : Fresh(w) - 1 \in Int /\ block[w] - 1 \in Int
      /\ \A d \in Decoders : born[d] \in Int
      /\ nextBlock \in Int
    <2>1. \A w \in Workers : Fresh(w) - 1 \in Int
        BY FreshType
    <2>2. \A w \in Workers : block[w] \in Nat
        BY <1>t, BlocksAreNat DEF None
    <2>3. QED BY <1>t, <2>1, <2>2
<1>1. ASSUME NEW w \in Workers, NEW d \in decs'[w]
      PROVE  Cardinality(Lost(d, w)') <= drops'
    <2>1. CASE d \in decs[w]
        <3>1. Cardinality(Lost(d, w)) <= drops /\ d \in Decoders
            BY <1>t, <2>1 DEF GapsCounted
        <3>2. CASE Lost(d, w)' \subseteq Lost(d, w)
            <4>1. Cardinality(Lost(d, w)') \in Nat /\ Cardinality(Lost(d, w)') <= Cardinality(Lost(d, w))
                  /\ Cardinality(Lost(d, w)) \in Nat
                BY <1>r, <1>i, <2>1, <3>1, <3>2, FewerBlocks
            <4>2. QED BY <1>d, <3>1, <4>1
        <3>3. CASE drops' = drops + 1 /\ \E b \in Blocks : Lost(d, w)' \subseteq Lost(d, w) \cup {b}
            <4>1. PICK b \in Blocks : Lost(d, w)' \subseteq Lost(d, w) \cup {b}
                BY <3>3
            <4>2. Cardinality(Lost(d, w)') \in Nat /\ Cardinality(Lost(d, w)') <= Cardinality(Lost(d, w)) + 1
                  /\ Cardinality(Lost(d, w)) \in Nat
                <5>1. Lost(d, w) \in SUBSET (born[d] .. Fresh(w) - 1)
                    BY <1>r, <2>1
                <5>2. Lost(d, w)' \in SUBSET (Lost(d, w) \cup {b})
                    BY <4>1
                <5>3. born[d] \in Int /\ Fresh(w) - 1 \in Int
                    BY <1>i, <3>1
                <5>4. QED BY <5>1, <5>2, <5>3, OneMoreBlock
            <4>3. QED BY <1>d, <3>1, <3>3, <4>2
        <3>4. QED BY <1>1, <2>1, <3>2, <3>3, LostKept
    <2>2. CASE d \notin decs[w]
        <3>1. AddDecoder
            <4>1. ASSUME NEW v \in Workers, WorkerEnter(v) \/ WorkerSnapshot(v) \/ WorkerProcess(v)
                  PROVE  UNCHANGED decs
                BY <4>1 DEF WorkerEnter, WorkerSnapshot, WorkerProcess, manager
            <4>2. CASE FeedBegin \/ FeedPush
                BY <1>1, <2>2, <4>2 DEF FeedBegin, FeedPush, manager
            <4>3. CASE RemoveDecoder \/ RemoveAll \/ StopClear
                BY <1>1, <2>2, <4>3, TakeAwayEffect
            <4>4. CASE ~BlockStep
                BY <1>1, <2>2, <4>4, OtherSteps
            <4>5. QED BY <1>1, <2>2, <4>1, <4>2, <4>3, <4>4 DEF BlockStep
        <3>2. PICK v \in Workers, e \in Decoders \ used :
                  /\ decs' = [decs EXCEPT ![v] = @ \cup {e}]
                  /\ born' = [born EXCEPT ![e] = nextBlock]
            BY <3>1, AddEffect
        <3>3. born'[d] = nextBlock /\ UNCHANGED nextBlock
            BY <1>1, <1>t, <2>2, <3>1, <3>2, AddEffect
        <3>4. Fresh(w)' \in {nextBlock, nextBlock - 1}
            BY <3>3 DEF Fresh
        <3>5. born'[d] .. (Fresh(w)' - 1) = {}
            BY <1>t, <3>3, <3>4
        <3>6. Lost(d, w)' = {}
            BY <3>5 DEF Lost
        <3>7. QED BY <1>d, <1>e, <3>6
    <2>3. QED BY <2>1, <2>2
<1>2. ASSUME NEW w \in Workers, NEW d \in snap'[w]
      PROVE  Cardinality(LostInSnapshot(d, w)') <= drops'
    <2>1. CASE d \in snap[w] /\ LostInSnapshot(d, w)' \subseteq LostInSnapshot(d, w)
        <3>1. Cardinality(LostInSnapshot(d, w)) <= drops /\ d \in Decoders
            BY <1>t, <2>1 DEF GapsCounted
        <3>2. /\ Cardinality(LostInSnapshot(d, w)') \in Nat /\ Cardinality(LostInSnapshot(d, w)) \in Nat
              /\ Cardinality(LostInSnapshot(d, w)') <= Cardinality(LostInSnapshot(d, w))
            BY <1>r, <1>i, <2>1, <3>1, FewerBlocks
        <3>3. QED BY <1>d, <3>1, <3>2
    <2>2. CASE d \in decs[w] /\ LostInSnapshot(d, w)' \subseteq Lost(d, w)
        <3>1. Cardinality(Lost(d, w)) <= drops /\ d \in Decoders
            BY <1>t, <2>2 DEF GapsCounted
        <3>2. /\ Cardinality(LostInSnapshot(d, w)') \in Nat /\ Cardinality(Lost(d, w)) \in Nat
              /\ Cardinality(LostInSnapshot(d, w)') <= Cardinality(Lost(d, w))
            BY <1>r, <1>i, <2>2, <3>1, FewerBlocks
        <3>3. QED BY <1>d, <3>1, <3>2
    <2>3. QED BY <1>2, <2>1, <2>2, LostWithSnapshot
<1>3. ASSUME NEW d \in Decoders
      PROVE  Cardinality(Missing(d)') <= drops'
    <2>1. CASE Missing(d)' = {}
        BY <1>d, <1>e, <2>1
    <2>2. CASE Missing(d)' \subseteq Missing(d)
        <3>1. /\ Cardinality(Missing(d)') \in Nat /\ Cardinality(Missing(d)) \in Nat
              /\ Cardinality(Missing(d)') <= Cardinality(Missing(d))
            BY <1>r, <1>i, <2>2, FewerBlocks
        <3>2. QED BY <1>d, <3>1 DEF GapsCounted
    <2>3. ASSUME NEW w \in Workers, d \in snap[w], Missing(d)' \subseteq LostInSnapshot(d, w)
          PROVE  Cardinality(Missing(d)') <= drops'
        <3>1. /\ Cardinality(Missing(d)') \in Nat /\ Cardinality(LostInSnapshot(d, w)) \in Nat
              /\ Cardinality(Missing(d)') <= Cardinality(LostInSnapshot(d, w))
            BY <1>r, <1>i, <2>3, FewerBlocks
        <3>2. Cardinality(LostInSnapshot(d, w)) <= drops
            BY <2>3 DEF GapsCounted
        <3>3. QED BY <1>d, <3>1, <3>2
    <2>4. QED BY <2>1, <2>2, <2>3, MissingKept
<1>4. QED BY <1>1, <1>2, <1>3 DEF GapsCounted

-----------------------------------------------------------------------------
(* The inductive invariant, and what follows from it.                      *)

StreamInv ==
    /\ ControlInv /\ LeaveInv /\ QueueInOrder /\ HeardInOrder /\ OldBlocksFew
    /\ FedToAll /\ GapsCounted

LEMMA StreamInit == Init => StreamInv
<1> SUFFICES ASSUME Init PROVE StreamInv
    OBVIOUS
<1>1. ControlInv
    BY ControlInit
<1>2. /\ \A w \in Workers : /\ queue[w] = <<>> /\ decs[w] = {} /\ snap[w] = {} /\ block[w] = 0
                            /\ flushed[w] = 0 /\ wpc[w] = "none"
      /\ \A d \in Decoders : heard[d] = <<>> /\ late[d] = 0
      /\ nextBlock = 1 /\ drops = 0 /\ used = {} /\ feedPc = "idle" /\ uiPc = "idle"
    BY DEF Init, None
<1>3. \A n \in Int : Above(<<>>, n) /\ Below(<<>>, n)
    BY DEF Above, Below
<1>4. Increasing(<<>>) /\ Elements(<<>>) = {} /\ Len(<<>>) = 0
    BY DEF Increasing, Elements
<1>5. \A w \in Workers : Fresh(w) = 1
    BY <1>2 DEF Fresh, PushPending
<1>6. LeaveInv
    BY <1>2 DEF LeaveInv, OnOneWorker, LateIsLast
<1>7. QueueInOrder
    BY <1>2, <1>3, <1>4, <1>5, PoolAssumption DEF QueueInOrder, PoolAssumption
<1>8. HeardInOrder
    BY <1>2, <1>3, <1>4 DEF HeardInOrder
<1>9. OldBlocksFew
    BY <1>2, <1>3, <1>4 DEF OldBlocksFew
<1>10. FedToAll
    BY <1>2 DEF FedToAll
<1>11. \A d \in Decoders : Missing(d) = {}
    BY <1>2, <1>4, MissingIs
<1>12. GapsCounted
    <2>1. Cardinality({}) = 0
        BY FS_EmptySet
    <2>2. \A d \in Decoders : Cardinality(Missing(d)) <= drops
        <3>1. drops = 0
            BY <1>2
        <3>2. QED BY <1>11, <2>1, <3>1
    <2>3. QED BY <1>2, <2>2 DEF GapsCounted
<1>13. QED BY <1>1, <1>6, <1>7, <1>8, <1>9, <1>10, <1>12 DEF StreamInv

LEMMA StreamStep == StreamInv /\ [Next]_vars => StreamInv'
<1> SUFFICES ASSUME StreamInv, [Next]_vars PROVE StreamInv'
    OBVIOUS
<1>1. ControlInv'
    BY ControlStep DEF StreamInv
<1>2. CASE Next
    <2>1. LeaveInv'
        BY <1>2, LeaveStep DEF StreamInv
    <2>2. QueueInOrder'
        BY <1>1, <1>2, QueueStep DEF StreamInv
    <2>3. HeardInOrder'
        BY <1>1, <1>2, HeardStep DEF StreamInv
    <2>4. OldBlocksFew'
        BY <1>1, <1>2, OldBlocksStep DEF StreamInv
    <2>5. FedToAll'
        BY <1>1, <1>2, FedStep DEF StreamInv
    <2>6. GapsCounted'
        BY <1>1, <1>2, GapStep DEF StreamInv
    <2>7. QED BY <1>1, <2>1, <2>2, <2>3, <2>4, <2>5, <2>6 DEF StreamInv
<1>3. CASE UNCHANGED vars
    <2>1. UNCHANGED <<vecLen, queue, decs, drops, wpc, snap, block, feedPc, feedAt, feedEnd, uiPc,
                      nextBlock, used, born, flushed, floor, heard, late>>
        BY <1>3 DEF vars, manager, threads, reader, ui, history
    <2>2. \A w \in Workers : Fresh(w)' = Fresh(w)
        BY <2>1 DEF Fresh, PushPending
    <2>3. LeaveInv' /\ QueueInOrder' /\ HeardInOrder' /\ OldBlocksFew' /\ FedToAll'
        BY <2>1, <2>2, SMTT(30) DEF StreamInv, LeaveInv, OnOneWorker, LateIsLast, QueueInOrder, HeardInOrder,
            OldBlocksFew, FedToAll
    <2>4. /\ \A d \in Decoders : Missing(d)' = Missing(d)
          /\ \A w \in Workers, d \in Decoders : Held(d, w)' = Held(d, w)
        BY <2>1 DEF Missing, Held
    <2>5. \A w \in Workers, d \in Decoders :
              Lost(d, w)' = Lost(d, w) /\ LostInSnapshot(d, w)' = LostInSnapshot(d, w)
        BY <2>1, <2>2, <2>4 DEF Lost, LostInSnapshot
    <2>6. \A w \in Workers : decs[w] \subseteq Decoders /\ snap[w] \subseteq Decoders
        BY DEF StreamInv, ControlInv, TypeOK
    <2>7. GapsCounted'
        BY <2>1, <2>4, <2>5, <2>6 DEF StreamInv, GapsCounted
    <2>8. QED BY <1>1, <2>3, <2>7 DEF StreamInv
<1>4. QED BY <1>2, <1>3

\* What the blocks of every reachable state obey: the order of queues and of what was
\* heard, and the bounds on what a decoder hears late, from before a retune, or not at all.
THEOREM StreamCorrect == Spec => []StreamInv
BY StreamInit, StreamStep, PTL DEF Spec

\* A decoder processes one block at most after removeDecoder or removeAll took it away,
\* however many decoders and workers there are and whatever the UI thread does next.
THEOREM LateOnce == Spec => []LateAtMostOnce
<1>1. StreamInv => LateAtMostOnce
    BY DEF StreamInv, LeaveInv, LateIsLast, LateAtMostOnce
<1>2. QED BY <1>1, StreamCorrect, PTL

\* No worker's queue exceeds kMaxQueue, and its blocks are in the order feed() got them.
THEOREM QueueOrdered == Spec => []QueueBoundedInOrder
<1>1. StreamInv => QueueBoundedInOrder
    BY DEF StreamInv, QueueInOrder, QueueBoundedInOrder, Increasing
<1>2. QED BY <1>1, StreamCorrect, PTL

\* A decoder added after a retune hears two blocks at most that were fed before it.
THEOREM FewOldBlocks == Spec => []RetuneLeavesAtMostTwoOldBlocks
<1>1. StreamInv => RetuneLeavesAtMostTwoOldBlocks
    <2> SUFFICES ASSUME StreamInv, NEW d \in Decoders
                 PROVE  Cardinality({i \in 1 .. Len(heard[d]) : heard[d][i] < floor[d]}) <= 2
        BY DEF RetuneLeavesAtMostTwoOldBlocks
    <2> DEFINE s == heard[d]
               old == {i \in 1 .. Len(s) : s[i] < floor[d]}
    <2>1. /\ s \in Seq(Blocks) /\ floor[d] \in Nat
          /\ Len(s) \in Nat /\ \A i \in 1 .. Len(s) : s[i] \in Nat
        <3>1. s \in Seq(Blocks) /\ floor[d] \in Nat
            BY DEF StreamInv, ControlInv, TypeOK
        <3>2. QED BY <3>1, BlocksAreNat, LenProperties
    <2>2. Increasing(s) /\ (Len(s) >= 2 => floor[d] <= s[2] + 1)
        BY DEF StreamInv, HeardInOrder, OldBlocksFew
    <2> HIDE DEF s
    <2>3. old \subseteq 1 .. 2
        <3>1. SUFFICES ASSUME NEW i \in 1 .. Len(s), s[i] < floor[d], i > 2 PROVE FALSE
            BY <2>1
        <3>2. Len(s) >= 2 /\ 2 \in 1 .. Len(s)
            BY <2>1, <3>1
        <3>3. s[2] < s[i] /\ s[2] \in Nat /\ s[i] \in Nat
            BY <2>1, <2>2, <3>1, <3>2 DEF Increasing
        <3>4. QED BY <2>1, <2>2, <3>1, <3>2, <3>3
    <2>4. IsFiniteSet(1 .. 2) /\ Cardinality(1 .. 2) = 2
        <3>1. IsFiniteSet(1 .. 2) /\ Cardinality(1 .. 2) = (IF 1 > 2 THEN 0 ELSE 2 - 1 + 1)
            <4>1. 1 \in Int /\ 2 \in Int
                OBVIOUS
            <4>2. QED BY <4>1, FS_Interval, Zenon
        <3>2. \A n : n = (IF 1 > 2 THEN 0 ELSE 2 - 1 + 1) => n = 2
            OBVIOUS
        <3>3. QED BY <3>1, <3>2, Zenon
    <2>5. Cardinality(old) <= 2
        BY <2>3, <2>4, FS_Subset
    <2>6. QED BY <2>5 DEF s
<1>2. QED BY <1>1, StreamCorrect, PTL

\* A decoder hears the stream in order, and the blocks it has passed over since it was
\* added are no more than feed() counted in drops_.
THEOREM EveryGapIsCounted == Spec => []NoSilentGap
<1>1. StreamInv => NoSilentGap
    <2> SUFFICES ASSUME StreamInv, NEW d \in Decoders
                 PROVE  /\ \A i \in 1 .. Len(heard[d]) - 1 : heard[d][i] < heard[d][i + 1]
                        /\ Cardinality(Missing(d)) <= drops
        BY DEF NoSilentGap
    <2>1. Len(heard[d]) \in Nat
        BY LenProperties DEF StreamInv, ControlInv, TypeOK
    <2>2. Increasing(heard[d])
        BY DEF StreamInv, HeardInOrder
    <2>3. ASSUME NEW i \in 1 .. Len(heard[d]) - 1 PROVE heard[d][i] < heard[d][i + 1]
        <3>1. i \in 1 .. Len(heard[d]) /\ i + 1 \in 1 .. Len(heard[d]) /\ i < i + 1
            BY <2>1
        <3>2. QED BY <2>2, <3>1 DEF Increasing
    <2>4. QED BY <2>3 DEF StreamInv, GapsCounted
<1>2. QED BY <1>1, StreamCorrect, PTL
=============================================================================
