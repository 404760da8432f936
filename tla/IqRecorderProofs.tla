-------------------------- MODULE IqRecorderProofs --------------------------
(***************************************************************************)
(* Theorems about IqRecorder, for one radio or two, any sizes of the       *)
(* pre-buffer and any bounds on blocks and recordings: the threads and the *)
(* open file first, then the blocks in the recordings, which of them are   *)
(* in two and where a recording has its seam.                              *)
(***************************************************************************)
EXTENDS IqRecorder, SequenceTheorems, FiniteSetTheorems, TLAPS

Writing   == {"write", "fwrite", "load", "store"}
Switching == {"close", "null", "open", "header", "drain", "flag"}
NewFile   == {"header", "drain", "flag"}

\* Where the UI thread may be, in which operation; that recording_ and f_ go together
\* outside start() and stop(); that the open file is the newest one, and finished only
\* between fclose and f_ = nullptr; and that a stream that failed has no reader left.
UiInv ==
    /\ uiPc \in {"idle", "srcStop", "srcStart", "configure", "restart", "stop"} \cup Switching
    /\ uiPc = "srcStop" => op \in {"start", "stop", "fail"}
    /\ uiPc \in {"srcStart", "configure", "restart"} => op = "start"
    /\ uiPc \in {"stop", "close", "null"} => op \in {"start", "stopRecord", "fail"}
    /\ op = "fail" /\ uiPc \in {"stop", "close", "null"} =>
          \A r \in Radios : ~on[r] /\ pc[r] = "idle"
    /\ uiPc \in {"close", "null"} \cup NewFile => f # None
    /\ uiPc = "open" => f = None
    /\ recording <=> f # None /\ uiPc \notin Switching
    /\ f # None => f = Len(file) /\ (header[f] = NoHeader <=> uiPc # "null")

\* A callback delivers some block.
Numbered == \A r \in Radios : pc[r] # "idle" => blk[r] >= 1

CoreInv == TypeOK /\ UiInv /\ Numbered

LEMMA CoreInit == Init => CoreInv
<1> SUFFICES ASSUME Init PROVE CoreInv
    OBVIOUS
<1> USE DEF Init, None
<1>1. /\ ringCap \in RingSizes \cup {0} /\ ring \in Seq(Items) /\ Len(ring) <= ringCap
      /\ recording \in BOOLEAN /\ dataBytes \in Nat
    <2>1. ring = <<>> /\ ringCap = 0 /\ recording = FALSE /\ dataBytes = 0
        OBVIOUS
    <2>2. <<>> \in Seq(Items) /\ Len(<<>>) = 0
        BY EmptySeq
    <2>3. ring \in Seq(Items) /\ Len(ring) = 0
        BY <2>1, <2>2, Zenon
    <2>4. dataBytes \in Nat /\ ringCap \in RingSizes \cup {0}
        BY <2>1
    <2>5. Len(ring) <= ringCap
        BY <2>1, <2>3
    <2>6. recording \in BOOLEAN
        BY <2>1, Zenon
    <2>7. QED BY <2>3, <2>4, <2>5, <2>6, Zenon
<1>2. f \in 0 .. Len(file)
    <2>1. Len(file) = 0 /\ f = 0
        OBVIOUS
    <2>2. QED BY <2>1
<1>3. on \in [Radios -> BOOLEAN] /\ pc \in [Radios -> Pcs]
    BY DEF Pcs
<1>4. blk \in [Radios -> 0 .. MaxBlocks] /\ got \in [Radios -> Nat]
    BY RecorderAssumption DEF RecorderAssumption
<1>5. /\ Len(file) <= MaxFiles /\ file \in Seq(Seq(Items \cup {Riff}))
      /\ header \in Seq(Int) /\ Len(header) = Len(file)
      /\ raced \subseteq 1 .. Len(file) /\ unsafe \subseteq {"start", "stopRecord", "fail"}
    BY RecorderAssumption DEF RecorderAssumption
<1>6. TypeOK
    BY <1>1, <1>2, <1>3, <1>4, <1>5 DEF TypeOK
<1>7. UiInv /\ Numbered
    BY DEF UiInv, Numbered, NewFile, Switching
<1>8. QED BY <1>6, <1>7 DEF CoreInv

\* The block under way is one of the radio's.
LEMMA BlockType ==
    ASSUME CoreInv, NEW r \in Radios, pc[r] # "idle"
    PROVE  blk[r] \in 1 .. MaxBlocks /\ <<r, blk[r]>> \in Items
<1>1. blk[r] \in 0 .. MaxBlocks /\ blk[r] >= 1
    BY DEF CoreInv, TypeOK, Numbered
<1>2. blk[r] \in 1 .. MaxBlocks
    BY <1>1, RecorderAssumption DEF RecorderAssumption
<1>3. QED BY <1>2 DEF Items

\* What a step of a callback leaves to the others.
LEMMA CallbackCore ==
    ASSUME CoreInv, NEW r \in Radios, Callback(r)
    PROVE  CoreInv'
<1> USE RecorderAssumption DEF RecorderAssumption, CoreInv, At, shared, reader, ui, history, None
<1>1. CASE Deliver(r)
    <2>1. TypeOK'
        <3>1. blk' \in [Radios -> 0 .. MaxBlocks]
            <4>1. blk[r] + 1 \in 0 .. MaxBlocks
                BY <1>1 DEF Deliver, TypeOK
            <4>2. QED BY <1>1, <4>1 DEF Deliver, TypeOK
        <3>2. pc' \in [Radios -> Pcs]
            BY <1>1 DEF Deliver, TypeOK, Pcs
        <3>3. QED BY <1>1, <3>1, <3>2 DEF Deliver, TypeOK
    <2>2. UiInv'
        BY <1>1 DEF Deliver, TypeOK, UiInv, Switching, NewFile
    <2>3. Numbered'
        BY <1>1 DEF Deliver, TypeOK, Numbered
    <2>4. QED BY <2>1, <2>2, <2>3
<1>2. CASE Push(r)
    <2>1. TypeOK'
        <3>1. pc' \in [Radios -> Pcs]
            BY <1>2 DEF Push, TypeOK, Pcs
        <3>2. ring' \in Seq(Items) /\ Len(ring') <= ringCap
            <4>1. CASE ringCap = 0
                BY <1>2, <4>1 DEF Push, TypeOK
            <4>2. CASE ringCap # 0
                <5>1. <<r, blk[r]>> \in Items
                    BY <1>2, BlockType DEF Push
                <5>2. ring' = Newest(Append(ring, <<r, blk[r]>>))
                    BY <1>2, <4>2 DEF Push
                <5>3. /\ Append(ring, <<r, blk[r]>>) \in Seq(Items)
                      /\ Len(Append(ring, <<r, blk[r]>>)) = Len(ring) + 1
                    BY <5>1 DEF TypeOK
                <5>4. ringCap \in Nat /\ Len(ring) \in Nat /\ Len(ring) <= ringCap
                    BY DEF TypeOK
                <5> DEFINE s == Append(ring, <<r, blk[r]>>)
                <5>5. s # <<>> => Tail(s) \in Seq(Items) /\ Len(Tail(s)) = Len(s) - 1
                    BY <5>3
                <5>6. s # <<>>
                    BY <5>1, AppendProperties DEF TypeOK
                <5> HIDE DEF s
                <5>7. QED BY <5>2, <5>3, <5>4, <5>5, <5>6 DEF Newest, s
            <4>3. QED BY <4>1, <4>2
        <3>3. QED BY <1>2, <3>1, <3>2 DEF Push, TypeOK
    <2>2. UiInv'
        BY <1>2 DEF Push, TypeOK, UiInv, Switching, NewFile
    <2>3. Numbered'
        BY <1>2 DEF Push, TypeOK, Numbered
    <2>4. QED BY <2>1, <2>2, <2>3
<1>3. CASE Check(r)
    <2>1. TypeOK'
        BY <1>3 DEF Check, TypeOK, Pcs
    <2>2. UiInv'
        BY <1>3 DEF Check, TypeOK, UiInv, Switching, NewFile
    <2>3. Numbered'
        BY <1>3 DEF Check, TypeOK, Numbered
    <2>4. QED BY <2>1, <2>2, <2>3
<1>4. CASE Convert(r)
    <2>1. TypeOK'
        BY <1>4 DEF Convert, TypeOK, Pcs
    <2>2. UiInv'
        BY <1>4 DEF Convert, TypeOK, UiInv, Switching, NewFile
    <2>3. Numbered'
        BY <1>4 DEF Convert, TypeOK, Numbered
    <2>4. QED BY <2>1, <2>2, <2>3
<1>5. CASE Fwrite(r)
    <2>1. Len(file') = Len(file) /\ file' \in Seq(Seq(Items \cup {Riff}))
        <3>1. CASE f = None \/ header[f] # NoHeader
            BY <1>5, <3>1 DEF Fwrite, TypeOK
        <3>2. CASE ~(f = None \/ header[f] # NoHeader)
            <4>1. <<r, blk[r]>> \in Items \cup {Riff}
                BY <1>5, BlockType DEF Fwrite
            <4>2. f \in 1 .. Len(file) /\ file[f] \in Seq(Items \cup {Riff})
                BY <3>2 DEF TypeOK
            <4>3. Append(file[f], <<r, blk[r]>>) \in Seq(Items \cup {Riff})
                BY <4>1, <4>2
            <4>4. file' = [file EXCEPT ![f] = Append(file[f], <<r, blk[r]>>)]
                BY <1>5, <3>2 DEF Fwrite
            <4>5. QED BY <4>2, <4>3, <4>4, ExceptSeq DEF TypeOK
        <3>3. QED BY <3>1, <3>2
    <2>2. TypeOK'
        BY <1>5, <2>1 DEF Fwrite, TypeOK, Pcs
    <2>3. UiInv'
        BY <1>5, <2>1 DEF Fwrite, TypeOK, UiInv, Switching, NewFile
    <2>4. Numbered'
        BY <1>5 DEF Fwrite, TypeOK, Numbered
    <2>5. QED BY <2>2, <2>3, <2>4
<1>6. CASE LoadBytes(r)
    <2>1. TypeOK'
        BY <1>6 DEF LoadBytes, TypeOK, Pcs
    <2>2. UiInv'
        BY <1>6 DEF LoadBytes, TypeOK, UiInv, Switching, NewFile
    <2>3. Numbered'
        BY <1>6 DEF LoadBytes, TypeOK, Numbered
    <2>4. QED BY <2>1, <2>2, <2>3
<1>7. CASE StoreBytes(r)
    <2>1. TypeOK'
        <3>1. got[r] + 1 \in Nat
            BY DEF TypeOK
        <3>2. pc' \in [Radios -> Pcs]
            BY <1>7 DEF StoreBytes, TypeOK, Pcs
        <3>3. QED BY <1>7, <3>1, <3>2 DEF StoreBytes, TypeOK
    <2>2. UiInv'
        BY <1>7 DEF StoreBytes, TypeOK, UiInv, Switching, NewFile
    <2>3. Numbered'
        BY <1>7 DEF StoreBytes, TypeOK, Numbered
    <2>4. QED BY <2>1, <2>2, <2>3
<1>8. QED BY <1>1, <1>2, <1>3, <1>4, <1>5, <1>6, <1>7 DEF Callback

LEMMA UserCore ==
    ASSUME CoreInv, User
    PROVE  CoreInv'
<1> USE RecorderAssumption DEF RecorderAssumption, CoreInv, Ui, Begin, shared, reader, history, None
<1>1. CASE PressRecord \/ PressStopRecord \/ PressStart \/ PressStop \/ StreamFails
    <2>1. TypeOK' /\ Numbered'
        BY <1>1 DEF PressRecord, PressStopRecord, PressStart, PressStop, StreamFails, TypeOK, Numbered
    <2>2. UiInv'
        <3> USE DEF UiInv, TypeOK, Switching, NewFile
        <3>1. CASE PressRecord \/ PressStopRecord
            <4>1. CASE PressRecord
                BY <4>1 DEF PressRecord
            <4>2. CASE PressStopRecord
                BY <4>2 DEF PressStopRecord
            <4>3. QED BY <3>1, <4>1, <4>2
        <3>2. CASE PressStart \/ PressStop \/ StreamFails
            <4>1. CASE PressStart
                BY <4>1 DEF PressStart
            <4>2. CASE PressStop
                BY <4>2 DEF PressStop
            <4>3. CASE StreamFails
                BY <4>3 DEF StreamFails
            <4>4. QED BY <3>2, <4>1, <4>2, <4>3
        <3>3. QED BY <1>1, <3>1, <3>2
    <2>3. QED BY <2>1, <2>2
<1>2. CASE Resize
    <2>1. TypeOK' /\ Numbered'
        BY <1>2 DEF Resize, Configure, ui, TypeOK, Numbered
    <2>2. UiInv'
        BY <1>2 DEF Resize, Configure, ui, TypeOK, UiInv, Switching, NewFile
    <2>3. QED BY <2>1, <2>2
<1>3. QED BY <1>1, <1>2 DEF User

LEMMA UiCore ==
    ASSUME CoreInv, UiStep
    PROVE  CoreInv'
<1> USE RecorderAssumption DEF RecorderAssumption, CoreInv, Ui, Goto, Return, shared, reader, history, None
<1>1. CASE SourceStop
    <2>1. TypeOK' /\ Numbered'
        BY <1>1 DEF SourceStop, TypeOK, UiInv, Switching, NewFile, Numbered, Pcs, Items
    <2>2. UiInv'
        BY <1>1 DEF SourceStop, TypeOK, UiInv, Switching, NewFile, NoHeader
    <2>3. QED BY <2>1, <2>2
<1>2. CASE SourceStart
    <2>1. TypeOK' /\ Numbered'
        BY <1>2 DEF SourceStart, TypeOK, UiInv, Switching, NewFile, Numbered, Pcs, Items
    <2>2. UiInv'
        BY <1>2 DEF SourceStart, TypeOK, UiInv, Switching, NewFile, NoHeader
    <2>3. QED BY <2>1, <2>2
<1>3. CASE StartConfigure
    <2>1. TypeOK' /\ Numbered'
        BY <1>3, SMTT(30) DEF StartConfigure, Configure, TypeOK, UiInv, Switching, NewFile, Numbered, Pcs, Items
    <2>2. UiInv'
        BY <1>3 DEF StartConfigure, Configure, TypeOK, UiInv, Switching, NewFile, NoHeader
    <2>3. QED BY <2>1, <2>2
<1>4. CASE Restart
    <2>1. TypeOK' /\ Numbered'
        BY <1>4 DEF Restart, TypeOK, UiInv, Switching, NewFile, Numbered, Pcs, Items
    <2>2. UiInv'
        BY <1>4 DEF Restart, TypeOK, UiInv, Switching, NewFile, NoHeader
    <2>3. QED BY <2>1, <2>2
<1>5. CASE StopFlag
    <2>1. TypeOK' /\ Numbered'
        BY <1>5 DEF StopFlag, TypeOK, UiInv, Switching, NewFile, Numbered, Pcs, Items
    <2>2. UiInv'
        BY <1>5 DEF StopFlag, TypeOK, UiInv, Switching, NewFile, NoHeader
    <2>3. QED BY <2>1, <2>2
<1>6. CASE StopClose
    <2>1. TypeOK' /\ Numbered'
        <3>1. f \in 1 .. Len(file) /\ op \in {"start", "stopRecord", "fail"}
            BY <1>6 DEF StopClose, UiInv, TypeOK
        <3>2. raced' \subseteq 1 .. Len(file) /\ unsafe' \subseteq {"start", "stopRecord", "fail"}
            BY <1>6, <3>1 DEF StopClose, TypeOK
        <3>3. header' \in Seq(Int) /\ Len(header') = Len(header)
            BY <1>6, <3>1 DEF StopClose, TypeOK
        <3>4. QED BY <1>6, <3>2, <3>3 DEF StopClose, TypeOK, Numbered
    <2>2. UiInv'
        BY <1>6 DEF StopClose, HoldsFile, TypeOK, UiInv, Switching, NewFile, NoHeader
    <2>3. QED BY <2>1, <2>2
<1>7. CASE StopNull
    <2>1. TypeOK' /\ Numbered'
        BY <1>7 DEF StopNull, TypeOK, UiInv, Switching, NewFile, Numbered, Pcs, Items
    <2>2. UiInv'
        BY <1>7 DEF StopNull, TypeOK, UiInv, Switching, NewFile, NoHeader
    <2>3. QED BY <2>1, <2>2
<1>8. CASE StartOpen
    <2>1. TypeOK' /\ Numbered'
        <3>1. CASE UNCHANGED <<f, file, header, raced>>
            BY <1>8, <3>1 DEF StartOpen, TypeOK, Numbered
        <3>2. CASE /\ f' = Len(file) + 1
                   /\ file' = Append(file, <<>>) /\ header' = Append(header, NoHeader)
                   /\ raced' = IF InWrite THEN raced \cup {f'} ELSE raced
            <4>1. file' \in Seq(Seq(Items \cup {Riff})) /\ Len(file') = Len(file) + 1
                <5>1. <<>> \in Seq(Items \cup {Riff})
                    OBVIOUS
                <5>2. QED BY <3>2, <5>1 DEF TypeOK
            <4>2. header' \in Seq(Int) /\ Len(header') = Len(header) + 1
                BY <3>2 DEF TypeOK, NoHeader
            <4>3. raced' \subseteq 1 .. Len(file') /\ f' \in 0 .. Len(file')
                <5>1. Len(file) \in Nat /\ raced \subseteq 1 .. Len(file)
                    BY DEF TypeOK
                <5>2. f' = Len(file) + 1 /\ raced' \subseteq raced \cup {f'}
                    BY <3>2
                <5>3. \A n \in Nat : 1 .. n \cup {n + 1} \subseteq 1 .. n + 1
                                     /\ n + 1 \in 0 .. n + 1
                    OBVIOUS
                <5>4. QED BY <4>1, <5>1, <5>2, <5>3
            <4>4. Len(file') <= MaxFiles
                BY <1>8, <4>1 DEF StartOpen, TypeOK
            <4>5. QED BY <1>8, <4>1, <4>2, <4>3, <4>4 DEF StartOpen, TypeOK, Numbered
        <3>3. QED BY <1>8, <3>1, <3>2 DEF StartOpen
    <2>2. UiInv'
        BY <1>8, SMTT(30) DEF StartOpen, InWrite, TypeOK, UiInv, Switching, NewFile, NoHeader
    <2>3. QED BY <2>1, <2>2
<1>9. CASE StartHeader
    <2>1. TypeOK' /\ Numbered'
        BY <1>9 DEF StartHeader, TypeOK, UiInv, Switching, NewFile, Numbered, Pcs, Items
    <2>2. UiInv'
        BY <1>9 DEF StartHeader, TypeOK, UiInv, Switching, NewFile, NoHeader
    <2>3. QED BY <2>1, <2>2
<1>10. CASE StartDrain
    <2>1. TypeOK' /\ Numbered'
        <3>1. f \in 1 .. Len(file) /\ file[f] \in Seq(Items \cup {Riff})
            BY <1>10 DEF StartDrain, UiInv, TypeOK, NewFile
        <3>2. file[f] \o ring \in Seq(Items \cup {Riff})
            <4>1. ring \in Seq(Items \cup {Riff})
                BY DEF TypeOK
            <4>2. QED BY <3>1, <4>1
        <3>3. file' \in Seq(Seq(Items \cup {Riff})) /\ Len(file') = Len(file)
            BY <1>10, <3>1, <3>2, ExceptSeq DEF StartDrain, TypeOK
        <3>4. dataBytes' \in Nat
            BY <1>10 DEF StartDrain, TypeOK
        <3>5. QED BY <1>10, <3>3, <3>4 DEF StartDrain, TypeOK, Numbered
    <2>2. UiInv'
        BY <1>10 DEF StartDrain, TypeOK, UiInv, Switching, NewFile, NoHeader
    <2>3. QED BY <2>1, <2>2
<1>11. CASE StartFlag
    <2>1. TypeOK' /\ Numbered'
        BY <1>11 DEF StartFlag, TypeOK, UiInv, Switching, NewFile, Numbered, Pcs, Items
    <2>2. UiInv'
        BY <1>11 DEF StartFlag, TypeOK, UiInv, Switching, NewFile, NoHeader
    <2>3. QED BY <2>1, <2>2
<1>12. QED BY <1>1, <1>2, <1>3, <1>4, <1>5, <1>6, <1>7, <1>8, <1>9, <1>10, <1>11 DEF UiStep

LEMMA CoreStep == CoreInv /\ [Next]_vars => CoreInv'
<1>1. CoreInv /\ UNCHANGED vars => CoreInv'
    BY DEF vars, shared, reader, ui, history, CoreInv, TypeOK, UiInv, Numbered
<1>2. QED BY <1>1, CallbackCore, UserCore, UiCore DEF Next

\* The types of the recorder's state.
THEOREM TypeCorrect == Spec => []TypeOK
<1>1. CoreInv => TypeOK
    BY DEF CoreInv
<1>2. QED BY <1>1, CoreInit, CoreStep, PTL DEF Spec

-----------------------------------------------------------------------------
(* What the header counts                                                  *)

\* dataBytes_ of the open file, while the radio r alone has fed it: what the file holds
\* behind the header, but for a block that write() has put there and not yet counted.
\* With a second writer under way it may be anything: the load and the store of
\* dataBytes_ += nBytes are two accesses.
Counted(k) ==
    /\ file[k] # <<>>
    /\ \A r \in Radios : pc[r] \in {"load", "store"} => r \in From(k)
    /\ \A r \in Radios : From(k) \subseteq {r} =>
          IF pc[r] \in {"load", "store"}
          THEN /\ dataBytes = Len(file[k]) - 2
               /\ pc[r] = "store" => got[r] = dataBytes
          ELSE dataBytes = Len(file[k]) - 1

\* Nobody is in write() while start() writes the header and drains the ring, unless he
\* was when the file was opened; from then on the count is right.
OpenFileInv ==
    f # None /\ f \notin raced =>
        /\ uiPc \in NewFile => \A r \in Radios : pc[r] \notin Writing
        /\ uiPc = "header" => file[f] = <<>>
        /\ uiPc = "drain" => file[f] = <<Riff>>
        /\ uiPc \notin {"header", "null"} => Counted(f)

HeaderInv == CoreInv /\ OpenFileInv /\ HeaderCountsData

\* A step that leaves the files alone leaves what HeaderCountsData says of them alone.
LEMMA FilesKept ==
    ASSUME HeaderCountsData, file' = file, header' = header, raced \subseteq raced',
           uiPc = "header" => uiPc' = "header" /\ f' = f
    PROVE  HeaderCountsData'
BY ZenonT(30) DEF HeaderCountsData, Clean, From

\* A step of a callback before it holds the file, or beside it.
LEMMA CountKept ==
    ASSUME HeaderInv, NEW r \in Radios,
           UNCHANGED <<file, f, header, raced, dataBytes, got, uiPc>>,
           NEW p, pc' = [pc EXCEPT ![r] = p],
           pc[r] \notin {"load", "store"}, p \notin {"load", "store"},
           p \in Writing => pc[r] \in Writing \/ recording
    PROVE  OpenFileInv' /\ HeaderCountsData'
<1>1. HeaderCountsData'
    BY FilesKept DEF HeaderInv
<1>2. ASSUME f # None, f \notin raced PROVE OpenFileInv'
    <2>1. \A k : From(k)' = From(k)
        BY DEF From
    <2>2. uiPc \in NewFile => \A q \in Radios : pc'[q] \notin Writing
        BY <1>2 DEF HeaderInv, OpenFileInv, CoreInv, TypeOK, UiInv, NewFile, Switching
    <2>3. Counted(f) => Counted(f)'
        BY <2>1 DEF Counted, HeaderInv, CoreInv, TypeOK
    <2>4. QED BY <1>2, <2>2, <2>3 DEF OpenFileInv, HeaderInv
<1>3. QED BY <1>1, <1>2 DEF OpenFileInv

\* The file that a callback or start() appends to.
LEMMA FileGrows ==
    ASSUME TypeOK, f # None, NEW s \in Seq(Items \cup {Riff}),
           file' = [file EXCEPT ![f] = file[f] \o s]
    PROVE  /\ f \in 1 .. Len(file) /\ Len(file') = Len(file)
           /\ Len(file[f]) \in Nat /\ Len(s) \in Nat
           /\ file[f] \in Seq(Items \cup {Riff})
           /\ \A k \in 1 .. Len(file) : k # f => file'[k] = file[k]
           /\ Len(file'[f]) = Len(file[f]) + Len(s)
           /\ \A i \in 1 .. Len(file[f]) : file'[f][i] = file[f][i]
           /\ \A i \in 1 .. Len(s) : file'[f][Len(file[f]) + i] = s[i]
           /\ \A i \in 1 .. Len(file'[f]) :
                 i \in 1 .. Len(file[f]) \/ i - Len(file[f]) \in 1 .. Len(s)
<1>1. f \in 1 .. Len(file)
    BY DEF TypeOK, None
<1>2. file[f] \in Seq(Items \cup {Riff})
    BY <1>1 DEF TypeOK
<1>3. Len(file') = Len(file) /\ \A k \in 1 .. Len(file) : k # f => file'[k] = file[k]
    BY DEF TypeOK
<1>4. file'[f] = file[f] \o s
    BY <1>1, SMTT(30) DEF TypeOK
<1>5. Len(file[f]) \in Nat /\ Len(s) \in Nat
    BY <1>2, LenProperties
<1>6. /\ Len(file[f] \o s) = Len(file[f]) + Len(s)
      /\ \A i \in 1 .. Len(file[f]) + Len(s) :
            (file[f] \o s)[i] = IF i <= Len(file[f]) THEN file[f][i] ELSE s[i - Len(file[f])]
    BY <1>2, ConcatProperties, Zenon
<1>7. Len(file'[f]) = Len(file[f]) + Len(s)
    BY <1>4, <1>6, Zenon
<1>8. \A i \in 1 .. Len(file[f]) : file'[f][i] = file[f][i]
    BY <1>4, <1>5, <1>6
<1>9. \A i \in 1 .. Len(s) : file'[f][Len(file[f]) + i] = s[i]
    <2> SUFFICES ASSUME NEW i \in 1 .. Len(s)
                 PROVE  file'[f][Len(file[f]) + i] = s[i]
        OBVIOUS
    <2>1. /\ Len(file[f]) + i \in 1 .. Len(file[f]) + Len(s)
          /\ ~(Len(file[f]) + i <= Len(file[f]))
          /\ (Len(file[f]) + i) - Len(file[f]) = i
        BY <1>5
    <2>2. QED BY <1>4, <1>6, <2>1
<1>10. \A i \in 1 .. Len(file'[f]) :
          i \in 1 .. Len(file[f]) \/ i - Len(file[f]) \in 1 .. Len(s)
    BY <1>5, <1>7
<1>11. QED BY <1>1, <1>2, <1>3, <1>5, <1>7, <1>8, <1>9, <1>10

\* What fwrite puts in the file is not a header.
LEMMA RiffIsNoItem == Riff \notin Items
<1>1. "RIFF" \notin Radios
    BY RecorderAssumption DEF RecorderAssumption
<1>2. QED BY <1>1 DEF Riff, Items

\* The item a callback has added is one of its radio.
LEMMA WrittenFrom ==
    ASSUME CoreInv, NEW r \in Radios, f # None, f' = f, pc[r] # "idle",
           file' = [file EXCEPT ![f] = Append(file[f], <<r, blk[r]>>)],
           file[f] # <<>>
    PROVE  /\ f \in 1 .. Len(file) /\ Len(file') = Len(file)
           /\ Len(file'[f]) = Len(file[f]) + 1 /\ Len(file[f]) \in Nat \ {0}
           /\ \A i \in 1 .. Len(file[f]) : file'[f][i] = file[f][i]
           /\ file'[f][Len(file[f]) + 1] = <<r, blk[r]>>
           /\ \A k \in 1 .. Len(file) : k # f => file'[k] = file[k]
           /\ From(f)' = From(f) \cup {r}
<1> DEFINE s == << <<r, blk[r]>> >>
<1>1. <<r, blk[r]>> \in Items \cup {Riff}
    BY BlockType
<1>2. s \in Seq(Items \cup {Riff}) /\ Len(s) = 1 /\ s[1] = <<r, blk[r]>>
    BY <1>1
<1>3. f \in 1 .. Len(file) /\ file[f] \in Seq(Items \cup {Riff})
    BY DEF CoreInv, TypeOK, None
<1>4. Append(file[f], <<r, blk[r]>>) = file[f] \o s
    BY <1>1, <1>3, AppendIsConcat
<1> HIDE DEF s
<1>5. file' = [file EXCEPT ![f] = file[f] \o s]
    BY <1>4
<1>6. /\ Len(file') = Len(file)
      /\ Len(file'[f]) = Len(file[f]) + Len(s)
      /\ \A i \in 1 .. Len(file[f]) : file'[f][i] = file[f][i]
      /\ \A i \in 1 .. Len(s) : file'[f][Len(file[f]) + i] = s[i]
      /\ \A k \in 1 .. Len(file) : k # f => file'[k] = file[k]
    BY <1>2, <1>5, FileGrows DEF CoreInv
<1>7. Len(file[f]) \in Nat \ {0}
    BY <1>3, EmptySeq
<1>8. Len(file'[f]) = Len(file[f]) + 1
    BY <1>2, <1>6
<1>9. file'[f][Len(file[f]) + 1] = <<r, blk[r]>>
    BY <1>2, <1>6
<1>10. From(f)' = From(f) \cup {r}
    <2>1. ASSUME NEW q \in From(f)' PROVE q \in From(f) \cup {r}
        <3>1. PICK i \in 2 .. Len(file'[f]) : q = file'[f][i][1]
            BY <2>1 DEF From
        <3>2. CASE i = Len(file[f]) + 1
            BY <3>1, <3>2, <1>9
        <3>3. CASE i # Len(file[f]) + 1
            <4>1. i \in 2 .. Len(file[f])
                BY <3>3, <1>7, <1>8
            <4>2. QED BY <3>1, <4>1, <1>6 DEF From
        <3>4. QED BY <3>2, <3>3
    <2>2. ASSUME NEW q \in From(f) PROVE q \in From(f)'
        <3>1. PICK i \in 2 .. Len(file[f]) : q = file[f][i][1]
            BY <2>2 DEF From
        <3>2. i \in 2 .. Len(file'[f]) /\ file'[f][i] = file[f][i]
            BY <1>6, <1>7, <1>8
        <3>3. QED BY <3>1, <3>2 DEF From
    <2>3. r \in From(f)'
        <3>1. Len(file[f]) + 1 \in 2 .. Len(file'[f])
            BY <1>7, <1>8
        <3>2. QED BY <1>9, <3>1 DEF From
    <2>4. QED BY <2>1, <2>2, <2>3
<1>11. QED BY <1>3, <1>6, <1>7, <1>8, <1>9, <1>10

\* A callback puts its block in the file.
LEMMA FwriteCount ==
    ASSUME HeaderInv, NEW r \in Radios, Fwrite(r)
    PROVE  OpenFileInv' /\ HeaderCountsData'
<1>0. pc[r] = "fwrite" /\ pc' = [pc EXCEPT ![r] = "load"] /\ pc \in [Radios -> Pcs]
      /\ UNCHANGED <<f, header, raced, dataBytes, got, uiPc, recording>>
    BY DEF Fwrite, At, shared, ui, HeaderInv, CoreInv, TypeOK
<1>1. CASE f = None \/ header[f] # NoHeader
    <2>1. file' = file
        BY <1>1 DEF Fwrite
    <2>2. HeaderCountsData'
        BY <1>0, <2>1, FilesKept DEF HeaderInv
    <2>3. f = None \/ uiPc = "null"
        BY <1>1 DEF HeaderInv, CoreInv, UiInv
    <2>4. QED BY <1>0, <2>2, <2>3 DEF OpenFileInv, NewFile
<1>2. CASE f # None /\ header[f] = NoHeader /\ f \in raced
    <2>0. file' = [file EXCEPT ![f] = Append(file[f], <<r, blk[r]>>)]
        BY <1>2 DEF Fwrite
    <2>1. \A k \in 1 .. Len(file) : k # f => file'[k] = file[k]
        BY <2>0 DEF HeaderInv, CoreInv, TypeOK
    <2>2. Len(file') = Len(file)
        BY <2>0 DEF HeaderInv, CoreInv, TypeOK
    <2>3. \A k \in 1 .. Len(file) : k # f => From(k)' = From(k)
        BY <2>1 DEF From
    <2>4. HeaderCountsData'
        BY <1>0, <1>2, <2>1, <2>2, <2>3 DEF HeaderInv, HeaderCountsData, Clean
    <2>5. QED BY <1>0, <1>2, <2>4 DEF OpenFileInv
<1>3. CASE f # None /\ header[f] = NoHeader /\ f \notin raced
    <2>1. uiPc \notin NewFile /\ uiPc # "null"
        BY <1>0, <1>3 DEF HeaderInv, CoreInv, UiInv, OpenFileInv, Writing
    <2>2. Counted(f)
        BY <1>3, <2>1 DEF HeaderInv, OpenFileInv, NewFile
    <2>3. file' = [file EXCEPT ![f] = Append(file[f], <<r, blk[r]>>)]
        BY <1>3 DEF Fwrite
    <2>4. /\ f \in 1 .. Len(file) /\ Len(file') = Len(file)
          /\ Len(file'[f]) = Len(file[f]) + 1 /\ Len(file[f]) \in Nat \ {0}
          /\ \A i \in 1 .. Len(file[f]) : file'[f][i] = file[f][i]
          /\ file'[f][Len(file[f]) + 1] = <<r, blk[r]>>
          /\ \A k \in 1 .. Len(file) : k # f => file'[k] = file[k]
          /\ From(f)' = From(f) \cup {r}
        BY <1>0, <1>3, <2>2, <2>3, WrittenFrom DEF Counted, HeaderInv
    <2>a. \A k \in 1 .. Len(file) : k # f => file'[k] = file[k]
        BY <2>4
    <2>5. \A k \in 1 .. Len(file) : k # f => From(k)' = From(k)
        BY <2>a DEF From
    <2>6. <<r, blk[r]>> # Riff
        BY <1>0, BlockType, RiffIsNoItem DEF HeaderInv
    <2>7. HeaderCountsData'
        <3> SUFFICES ASSUME NEW k \in 1 .. Len(file), k \notin raced
                     PROVE  /\ uiPc # "header" \/ f # k => file'[k][1] = Riff
                            /\ \A i \in 2 .. Len(file'[k]) : file'[k][i] # Riff
                            /\ header[k] # NoHeader /\ Clean(k)' => header[k] = Len(file'[k]) - 1
            BY <1>0, <2>4 DEF HeaderCountsData
        <3>1. CASE k # f
            BY <3>1, <1>0, <2>4, <2>5 DEF HeaderInv, HeaderCountsData, Clean
        <3>2. CASE k = f
            <4>1. file[k][1] = Riff /\ \A i \in 2 .. Len(file[k]) : file[k][i] # Riff
                BY <2>1, <3>2 DEF HeaderInv, HeaderCountsData, NewFile
            <4>2. file'[k][1] = Riff
                BY <3>2, <2>4, <4>1
            <4>3. ASSUME NEW i \in 2 .. Len(file'[k]) PROVE file'[k][i] # Riff
                <5>1. i = Len(file[f]) + 1 \/ i \in 2 .. Len(file[f])
                    BY <3>2, <2>4
                <5>2. i \in 2 .. Len(file[f]) => i \in 1 .. Len(file[f])
                    BY <2>4
                <5>3. CASE i = Len(file[f]) + 1
                    BY <5>3, <3>2, <2>4, <2>6
                <5>4. CASE i \in 2 .. Len(file[f])
                    BY <5>2, <5>4, <3>2, <2>4, <4>1
                <5>5. QED BY <5>1, <5>3, <5>4
            <4>4. QED BY <1>3, <3>2, <4>2, <4>3
        <3>3. QED BY <3>1, <3>2
    <2>8. Counted(f)'
        <3>1. file'[f] # <<>>
            <4>1. Len(file'[f]) # 0
                BY <2>4
            <4>2. QED BY <4>1, EmptySeq
        <3>2. \A q \in Radios : pc'[q] \in {"load", "store"} => q \in From(f)'
            BY <1>0, <2>2, <2>4 DEF Counted
        <3>3. ASSUME NEW q \in Radios, From(f)' \subseteq {q}
              PROVE  IF pc'[q] \in {"load", "store"}
                     THEN /\ dataBytes' = Len(file'[f]) - 2
                          /\ pc'[q] = "store" => got'[q] = dataBytes'
                     ELSE dataBytes' = Len(file'[f]) - 1
            <4>1. q = r /\ From(f) \subseteq {q}
                BY <3>3, <2>4
            <4>2. dataBytes = Len(file[f]) - 1
                BY <1>0, <2>2, <4>1 DEF Counted
            <4>3. pc'[q] = "load"
                BY <1>0, <4>1
            <4>4. QED BY <1>0, <2>4, <4>2, <4>3
        <3>4. QED BY <1>0, <3>1, <3>2, <3>3 DEF Counted
    <2>9. QED BY <1>0, <2>1, <2>7, <2>8 DEF OpenFileInv, NewFile
<1>4. QED BY <1>1, <1>2, <1>3

\* The callbacks.
LEMMA CallbackCount ==
    ASSUME HeaderInv, NEW r \in Radios, Callback(r)
    PROVE  OpenFileInv' /\ HeaderCountsData'
<1> USE DEF At, shared, ui, history
<1>1. CASE Deliver(r)
    <2>1. PICK p \in {"check", "push"} : pc' = [pc EXCEPT ![r] = p]
        BY <1>1 DEF Deliver
    <2>2. QED BY <1>1, <2>1, CountKept DEF Deliver, Writing
<1>2. CASE Push(r)
    BY <1>2, CountKept DEF Push, Writing
<1>3. CASE Check(r)
    <2>1. PICK p : p = (IF recording THEN "write" ELSE "idle") /\ pc' = [pc EXCEPT ![r] = p]
        BY <1>3 DEF Check
    <2>2. pc[r] = "check" /\ ((p = "write" /\ recording) \/ p = "idle")
        BY <1>3, <2>1 DEF Check
    <2>3. UNCHANGED <<file, f, header, raced, dataBytes, got, uiPc>>
        BY <1>3 DEF Check
    <2>4. QED BY <2>1, <2>2, <2>3, CountKept DEF Writing
<1>4. CASE Convert(r)
    <2>1. PICK p : p = (IF f = None THEN "idle" ELSE "fwrite") /\ pc' = [pc EXCEPT ![r] = p]
        BY <1>4 DEF Convert
    <2>2. pc[r] = "write" /\ p \in {"idle", "fwrite"}
        BY <1>4, <2>1 DEF Convert
    <2>3. UNCHANGED <<file, f, header, raced, dataBytes, got, uiPc>>
        BY <1>4 DEF Convert
    <2>4. QED BY <2>1, <2>2, <2>3, CountKept DEF Writing
<1>5. CASE Fwrite(r)
    BY <1>5, FwriteCount
<1>6. CASE LoadBytes(r)
    <2>1. /\ pc[r] = "load" /\ pc' = [pc EXCEPT ![r] = "store"]
          /\ got' = [got EXCEPT ![r] = dataBytes]
          /\ UNCHANGED <<file, f, header, raced, dataBytes, uiPc, recording>>
          /\ pc \in [Radios -> Pcs] /\ got \in [Radios -> Nat]
        BY <1>6 DEF LoadBytes, HeaderInv, CoreInv, TypeOK
    <2>2. HeaderCountsData'
        BY <2>1, FilesKept DEF HeaderInv
    <2>3. ASSUME f # None, f \notin raced PROVE OpenFileInv'
        <3>1. uiPc \notin NewFile
            BY <2>1, <2>3 DEF HeaderInv, OpenFileInv, Writing
        <3>2. \A k : From(k)' = From(k)
            BY <2>1 DEF From
        <3>3. Counted(f) => Counted(f)'
            <4> SUFFICES ASSUME Counted(f) PROVE Counted(f)'
                OBVIOUS
            <4>1. file'[f'] # <<>> /\ \A q \in Radios : pc'[q] \in {"load", "store"} => q \in From(f)'
                BY <2>1, <3>2 DEF Counted
            <4>2. ASSUME NEW q \in Radios, From(f) \subseteq {q}
                  PROVE  IF pc'[q] \in {"load", "store"}
                         THEN /\ dataBytes = Len(file[f]) - 2
                              /\ pc'[q] = "store" => got'[q] = dataBytes
                         ELSE dataBytes = Len(file[f]) - 1
                <5>1. q = r
                    BY <2>1, <4>2 DEF Counted
                <5>2. QED BY <2>1, <4>2, <5>1 DEF Counted
            <4>3. QED BY <2>1, <3>2, <4>1, <4>2 DEF Counted
        <3>4. QED BY <2>1, <2>3, <3>1, <3>3 DEF OpenFileInv, HeaderInv, NewFile
    <2>4. QED BY <2>1, <2>2, <2>3 DEF OpenFileInv
<1>7. CASE StoreBytes(r)
    <2>1. /\ pc[r] = "store" /\ pc' = [pc EXCEPT ![r] = "idle"]
          /\ dataBytes' = got[r] + 1
          /\ UNCHANGED <<file, f, header, raced, got, uiPc, recording>>
          /\ pc \in [Radios -> Pcs]
        BY <1>7 DEF StoreBytes, HeaderInv, CoreInv, TypeOK
    <2>2. HeaderCountsData'
        BY <2>1, FilesKept DEF HeaderInv
    <2>3. ASSUME f # None, f \notin raced PROVE OpenFileInv'
        <3>1. uiPc \notin NewFile
            BY <2>1, <2>3 DEF HeaderInv, OpenFileInv, Writing
        <3>2. \A k : From(k)' = From(k)
            BY <2>1 DEF From
        <3>3. Counted(f) => Counted(f)'
            <4> SUFFICES ASSUME Counted(f) PROVE Counted(f)'
                OBVIOUS
            <4>1. file'[f'] # <<>> /\ \A q \in Radios : pc'[q] \in {"load", "store"} => q \in From(f)'
                BY <2>1, <3>2 DEF Counted
            <4>2. ASSUME NEW q \in Radios, From(f) \subseteq {q}
                  PROVE  pc'[q] \notin {"load", "store"} /\ dataBytes' = Len(file[f]) - 1
                <5>1. q = r
                    BY <2>1, <4>2 DEF Counted
                <5>2. got[r] = dataBytes /\ dataBytes = Len(file[f]) - 2
                    BY <2>1, <4>2, <5>1 DEF Counted
                <5>3. Len(file[f]) \in Nat
                    BY <2>3 DEF HeaderInv, CoreInv, TypeOK, None
                <5>4. QED BY <2>1, <5>1, <5>2, <5>3
            <4>3. QED BY <2>1, <3>2, <4>1, <4>2 DEF Counted
        <3>4. QED BY <2>1, <2>3, <3>1, <3>3 DEF OpenFileInv, HeaderInv, NewFile
    <2>4. QED BY <2>1, <2>2, <2>3 DEF OpenFileInv
<1>8. QED BY <1>1, <1>2, <1>3, <1>4, <1>5, <1>6, <1>7 DEF Callback

\* A step of the UI thread that touches neither a file nor the count.
LEMMA CountBeside ==
    ASSUME HeaderInv, UNCHANGED <<file, f, header, raced, dataBytes, got, pc>>,
           uiPc \notin {"header", "null"},
           uiPc' \in NewFile => f = None, uiPc' # "header"
    PROVE  OpenFileInv' /\ HeaderCountsData'
<1>1. HeaderCountsData'
    BY FilesKept DEF HeaderInv
<1>2. ASSUME f # None, f \notin raced PROVE Counted(f)'
    <2>1. Counted(f)
        BY <1>2 DEF HeaderInv, OpenFileInv
    <2>2. From(f)' = From(f)
        BY DEF From
    <2>3. QED BY <2>1, <2>2 DEF Counted
<1>3. QED BY <1>1, <1>2 DEF OpenFileInv, NewFile

LEMMA UserCount ==
    ASSUME HeaderInv, User
    PROVE  OpenFileInv' /\ HeaderCountsData'
<1> USE DEF Ui, Begin, shared, reader, ui, history, NewFile
<1>1. CASE PressRecord \/ PressStopRecord
    BY <1>1, CountBeside DEF PressRecord, PressStopRecord
<1>2. CASE PressStart \/ PressStop \/ StreamFails
    BY <1>2, CountBeside DEF PressStart, PressStop, StreamFails
<1>3. CASE Resize
    BY <1>3, CountBeside DEF Resize, Configure
<1>4. QED BY <1>1, <1>2, <1>3 DEF User

\* A recording without a header in its data that at most one radio fed has one that did.
LEMMA OneFeeds ==
    ASSUME CoreInv, NEW k \in 1 .. Len(file), Cardinality(From(k)) <= 1,
           \A i \in 2 .. Len(file[k]) : file[k][i] # Riff
    PROVE  \E r \in Radios : From(k) \subseteq {r}
<1>1. From(k) \subseteq Radios
    <2>1. file[k] \in Seq(Items \cup {Riff})
        BY DEF CoreInv, TypeOK
    <2>2. ASSUME NEW i \in 2 .. Len(file[k]) PROVE file[k][i][1] \in Radios
        <3>1. file[k][i] \in Items
            BY <2>1
        <3>2. QED BY <3>1 DEF Items
    <2>3. QED BY <2>2 DEF From
<1>2. IsFiniteSet(From(k))
    <2>1. {"A", "B"} = {"A"} \cup {"B"} /\ IsFiniteSet({"A"})
        BY FS_Singleton
    <2>2. IsFiniteSet({"A", "B"})
        BY <2>1, FS_AddElement
    <2>3. From(k) \subseteq {"A", "B"}
        BY <1>1, RecorderAssumption DEF RecorderAssumption
    <2>4. QED BY <2>2, <2>3, FS_Subset
<1>3. Cardinality(From(k)) = 0 \/ Cardinality(From(k)) = 1
    <2>1. Cardinality(From(k)) \in Nat /\ Cardinality(From(k)) <= 1
        BY <1>2, FS_CardinalityType
    <2>2. QED BY <2>1
<1>4. CASE Cardinality(From(k)) = 0
    BY <1>2, <1>4, FS_EmptySet, RecorderAssumption DEF RecorderAssumption
<1>5. CASE Cardinality(From(k)) = 1
    BY <1>1, <1>2, <1>5, FS_Singleton
<1>6. QED BY <1>3, <1>4, <1>5

\* The header is patched with the count, and the file closed.
LEMMA CloseCount ==
    ASSUME HeaderInv, StopClose
    PROVE  OpenFileInv' /\ HeaderCountsData'
<1>1. /\ uiPc = "close" /\ uiPc' = "null" /\ f # None /\ f \in 1 .. Len(file)
      /\ UNCHANGED <<f, file, dataBytes, pc>>
      /\ header' = [header EXCEPT ![f] = dataBytes]
      /\ raced' = IF HoldsFile THEN raced \cup {f} ELSE raced
    BY DEF StopClose, Ui, Goto, shared, reader, HeaderInv, CoreInv, UiInv, TypeOK, None
<1>2. OpenFileInv'
    BY <1>1 DEF OpenFileInv, NewFile
<1>3. HeaderCountsData'
    <2> SUFFICES ASSUME NEW k \in 1 .. Len(file), k \notin raced'
                 PROVE  /\ file[k][1] = Riff
                        /\ \A i \in 2 .. Len(file[k]) : file[k][i] # Riff
                        /\ header'[k] # NoHeader /\ Clean(k)' => header'[k] = Len(file[k]) - 1
        BY <1>1 DEF HeaderCountsData
    <2>1. k \notin raced /\ (Clean(k)' => Clean(k))
        BY <1>1 DEF Clean, From
    <2>2. /\ file[k][1] = Riff
          /\ \A i \in 2 .. Len(file[k]) : file[k][i] # Riff
          /\ header[k] # NoHeader /\ Clean(k) => header[k] = Len(file[k]) - 1
        BY <1>1, <2>1 DEF HeaderInv, HeaderCountsData
    <2>3. k # f => header'[k] = header[k]
        BY <1>1 DEF HeaderInv, CoreInv, TypeOK
    <2>4. ASSUME k = f, Clean(k) PROVE header'[k] = Len(file[k]) - 1
        <3>1. ~HoldsFile
            BY <1>1, <2>4
        <3>2. Counted(f)
            BY <1>1, <2>1, <2>4 DEF HeaderInv, OpenFileInv
        <3>3. \E r \in Radios : From(k) \subseteq {r}
            BY <2>2, <2>4, OneFeeds DEF HeaderInv, Clean
        <3>4. dataBytes = Len(file[k]) - 1
            BY <2>4, <3>1, <3>2, <3>3 DEF Counted, HoldsFile
        <3>5. QED BY <1>1, <2>4, <3>4 DEF HeaderInv, CoreInv, TypeOK
    <2>5. QED BY <2>1, <2>2, <2>3, <2>4
<1>4. QED BY <1>2, <1>3

\* The file is opened, its header written, the ring drained into it.
LEMMA OpenCount ==
    ASSUME HeaderInv, StartOpen
    PROVE  OpenFileInv' /\ HeaderCountsData'
<1>1. uiPc = "open" /\ f = None /\ UNCHANGED <<dataBytes, pc, got>>
    BY DEF StartOpen, Ui, Goto, Return, reader, HeaderInv, CoreInv, UiInv
<1>2. CASE UNCHANGED <<f, file, header, raced>>
    BY <1>1, <1>2, FilesKept DEF HeaderInv, OpenFileInv
<1>3. CASE /\ f' = Len(file) + 1
           /\ file' = Append(file, <<>>) /\ header' = Append(header, NoHeader)
           /\ raced' = IF InWrite THEN raced \cup {f'} ELSE raced
           /\ Goto("header")
    <2>1. /\ file \in Seq(Seq(Items \cup {Riff})) /\ header \in Seq(Int)
          /\ Len(header) = Len(file) /\ Len(file) \in Nat
        BY DEF HeaderInv, CoreInv, TypeOK
    <2>2. <<>> \in Seq(Items \cup {Riff}) /\ NoHeader \in Int
        BY DEF NoHeader
    <2>3. /\ Len(file') = Len(file) + 1 /\ file'[f'] = <<>>
          /\ \A k \in 1 .. Len(file) : file'[k] = file[k]
        BY <1>3, <2>1, <2>2, AppendProperties
    <2>4. /\ header'[f'] = NoHeader
          /\ \A k \in 1 .. Len(file) : header'[k] = header[k]
        BY <1>3, <2>1, <2>2, AppendProperties
    <2>5. uiPc' = "header"
        BY <1>3 DEF Goto
    <2>6. OpenFileInv'
        <3> SUFFICES ASSUME f' \notin raced'
                     PROVE  (\A r \in Radios : pc[r] \notin Writing) /\ file'[f'] = <<>>
            BY <1>1, <2>5 DEF OpenFileInv, NewFile
        <3>1. ~InWrite
            BY <1>3
        <3>2. QED BY <2>3, <3>1 DEF InWrite, Writing
    <2>7. HeaderCountsData'
        <3> SUFFICES ASSUME NEW k \in 1 .. Len(file'), k \notin raced'
                     PROVE  /\ f' # k => file'[k][1] = Riff
                            /\ \A i \in 2 .. Len(file'[k]) : file'[k][i] # Riff
                            /\ header'[k] # NoHeader /\ Clean(k)' =>
                                  header'[k] = Len(file'[k]) - 1
            BY <2>5 DEF HeaderCountsData
        <3>1. CASE k = f'
            <4>1. Len(file'[k]) = 0
                BY <3>1, <2>3
            <4>2. QED BY <3>1, <4>1, <2>4
        <3>2. CASE k # f'
            <4>1. k \in 1 .. Len(file) /\ k \notin raced
                BY <1>3, <3>2, <2>1, <2>3
            <4>2. Clean(k)' => Clean(k)
                BY <4>1, <2>3 DEF Clean, From
            <4>3. QED BY <1>1, <4>1, <4>2, <2>3, <2>4 DEF HeaderInv, HeaderCountsData
        <3>3. QED BY <3>1, <3>2
    <2>8. QED BY <2>6, <2>7
<1>4. QED BY <1>2, <1>3 DEF StartOpen

LEMMA HeaderCount ==
    ASSUME HeaderInv, StartHeader
    PROVE  OpenFileInv' /\ HeaderCountsData'
<1>1. /\ uiPc = "header" /\ uiPc' = "drain" /\ f # None /\ dataBytes' = 0
      /\ UNCHANGED <<f, header, raced, pc, got>>
      /\ file' = [file EXCEPT ![f] = Append(file[f], Riff)]
    BY DEF StartHeader, Ui, Goto, reader, HeaderInv, CoreInv, UiInv, NewFile
<1>2. /\ f \in 1 .. Len(file) /\ Len(file') = Len(file)
      /\ file'[f] = Append(file[f], Riff)
      /\ \A k \in 1 .. Len(file) : k # f => file'[k] = file[k]
    BY <1>1 DEF HeaderInv, CoreInv, TypeOK, None
<1>3. f \notin raced => file'[f] = <<Riff>> /\ \A r \in Radios : pc[r] \notin Writing
    BY <1>1, <1>2 DEF HeaderInv, OpenFileInv, NewFile
<1>4. OpenFileInv'
    <2> SUFFICES ASSUME f \notin raced
                 PROVE  (\A r \in Radios : pc[r] \notin Writing) /\ file'[f] = <<Riff>> /\ Counted(f)'
        BY <1>1 DEF OpenFileInv
    <2>1. From(f)' = {}
        BY <1>1, <1>3 DEF From
    <2>2. Counted(f)'
        <3>1. file'[f'] # <<>> /\ Len(file'[f']) - 1 = 0
            <4>1. <<Riff>> # <<>> /\ Len(<<Riff>>) - 1 = 0
                OBVIOUS
            <4>2. file'[f'] = <<Riff>>
                BY <1>1, <1>3
            <4>3. QED BY <4>1, <4>2, Zenon
        <3>2. \A r \in Radios : pc'[r] \notin {"load", "store"}
            BY <1>1, <1>3 DEF Writing
        <3>3. QED BY <1>1, <3>1, <3>2 DEF Counted
    <2>3. QED BY <1>3, <2>2
<1>5. HeaderCountsData'
    <2> SUFFICES ASSUME NEW k \in 1 .. Len(file), k \notin raced
                 PROVE  /\ file'[k][1] = Riff
                        /\ \A i \in 2 .. Len(file'[k]) : file'[k][i] # Riff
                        /\ header[k] # NoHeader /\ Clean(k)' => header[k] = Len(file'[k]) - 1
        BY <1>1, <1>2 DEF HeaderCountsData
    <2>1. CASE k = f
        <3>1. file'[k] = <<Riff>> /\ Len(file'[k]) = 1
            BY <2>1, <1>3
        <3>2. header[k] = NoHeader
            BY <1>1, <2>1 DEF HeaderInv, CoreInv, UiInv
        <3>3. QED BY <3>1, <3>2
    <2>2. CASE k # f
        <3>1. file'[k] = file[k] /\ (Clean(k)' => Clean(k))
            BY <1>1, <1>2, <2>2 DEF Clean, From
        <3>2. QED BY <2>2, <3>1 DEF HeaderInv, HeaderCountsData
    <2>3. QED BY <2>1, <2>2
<1>6. QED BY <1>4, <1>5

LEMMA DrainCount ==
    ASSUME HeaderInv, StartDrain
    PROVE  OpenFileInv' /\ HeaderCountsData'
<1>1. /\ uiPc = "drain" /\ uiPc' = "flag" /\ f # None
      /\ dataBytes' = dataBytes + Len(ring)
      /\ UNCHANGED <<f, header, raced, pc, got>>
      /\ file' = [file EXCEPT ![f] = file[f] \o ring]
    BY DEF StartDrain, Ui, Goto, reader, HeaderInv, CoreInv, UiInv, NewFile
<1>2. /\ f \in 1 .. Len(file) /\ Len(file') = Len(file)
      /\ file'[f] = file[f] \o ring
      /\ \A k \in 1 .. Len(file) : k # f => file'[k] = file[k]
    BY <1>1, SMTT(30) DEF HeaderInv, CoreInv, TypeOK, None
<1>3. ring \in Seq(Items) /\ Len(ring) \in Nat
    BY DEF HeaderInv, CoreInv, TypeOK
<1>4. f \notin raced =>
        /\ Len(file'[f]) = Len(ring) + 1 /\ file'[f][1] = Riff
        /\ \A i \in 2 .. Len(file'[f]) : file'[f][i] \in Items
        /\ dataBytes = 0 /\ \A r \in Radios : pc[r] \notin Writing
    <2> SUFFICES ASSUME f \notin raced
                 PROVE  /\ Len(file'[f]) = Len(ring) + 1 /\ file'[f][1] = Riff
                        /\ \A i \in 2 .. Len(file'[f]) : file'[f][i] \in Items
                        /\ dataBytes = 0 /\ \A r \in Radios : pc[r] \notin Writing
        OBVIOUS
    <2>1. file[f] = <<Riff>> /\ (\A r \in Radios : pc[r] \notin Writing) /\ Counted(f)
        BY <1>1 DEF HeaderInv, OpenFileInv, NewFile
    <2>2. file'[f] = <<Riff>> \o ring
        BY <1>2, <2>1
    <2>3. <<Riff>> \in Seq({Riff} \cup Items) /\ ring \in Seq({Riff} \cup Items)
        BY <1>3
    <2>4. Len(file'[f]) = 1 + Len(ring) /\ file'[f][1] = Riff
        BY <2>2, <2>3, ConcatProperties
    <2>5. ASSUME NEW i \in 2 .. Len(file'[f]) PROVE file'[f][i] \in Items
        <3>1. file'[f][i] = ring[i - 1] /\ i - 1 \in 1 .. Len(ring)
            BY <1>3, <2>2, <2>3, <2>4, ConcatProperties
        <3>2. QED BY <1>3, <3>1, ElementOfSeq
    <2>6. From(f) = {} /\ Len(file[f]) - 1 = 0
        BY <2>1 DEF From
    <2>7. dataBytes = 0
        BY <2>1, <2>6, RecorderAssumption DEF Counted, Writing, RecorderAssumption
    <2>8. QED BY <1>3, <2>1, <2>4, <2>5, <2>7
<1>5. OpenFileInv'
    <2> SUFFICES ASSUME f \notin raced
                 PROVE  (\A r \in Radios : pc[r] \notin Writing) /\ Counted(f)'
        BY <1>1 DEF OpenFileInv
    <2>1. Counted(f)'
        <3>1. Len(file'[f']) - 1 = dataBytes' /\ file'[f'] # <<>>
            BY <1>1, <1>3, <1>4
        <3>2. \A r \in Radios : pc'[r] \notin {"load", "store"}
            BY <1>1, <1>4 DEF Writing
        <3>3. QED BY <1>1, <3>1, <3>2 DEF Counted
    <2>2. QED BY <1>4, <2>1
<1>6. HeaderCountsData'
    <2> SUFFICES ASSUME NEW k \in 1 .. Len(file), k \notin raced
                 PROVE  /\ file'[k][1] = Riff
                        /\ \A i \in 2 .. Len(file'[k]) : file'[k][i] # Riff
                        /\ header[k] # NoHeader /\ Clean(k)' => header[k] = Len(file'[k]) - 1
        BY <1>1, <1>2 DEF HeaderCountsData
    <2>1. CASE k = f
        <3>1. header[k] = NoHeader
            BY <1>1, <2>1 DEF HeaderInv, CoreInv, UiInv
        <3>2. QED BY <1>4, <2>1, <3>1, RiffIsNoItem
    <2>2. CASE k # f
        <3>1. file'[k] = file[k] /\ (Clean(k)' => Clean(k))
            BY <1>1, <1>2, <2>2 DEF Clean, From
        <3>2. QED BY <1>1, <2>2, <3>1 DEF HeaderInv, HeaderCountsData
    <2>3. QED BY <2>1, <2>2
<1>7. QED BY <1>5, <1>6

LEMMA UiCount ==
    ASSUME HeaderInv, UiStep
    PROVE  OpenFileInv' /\ HeaderCountsData'
<1> USE DEF Ui, Goto, Return, shared, reader, history, NewFile
<1>1. CASE SourceStop \/ SourceStart \/ Restart
    <2>1. CASE SourceStop
        <3>1. uiPc = "srcStop" /\ uiPc' \in {"srcStart", "idle", "stop"}
            BY <2>1 DEF SourceStop, HeaderInv, CoreInv, UiInv
        <3>2. QED BY <2>1, <3>1, CountBeside DEF SourceStop
    <2>2. CASE SourceStart
        BY <2>2, CountBeside DEF SourceStart
    <2>3. CASE Restart
        <3>1. uiPc = "restart" /\ uiPc' \in {"idle", "stop"}
            BY <2>3 DEF Restart
        <3>2. QED BY <2>3, <3>1, CountBeside DEF Restart
    <2>4. QED BY <1>1, <2>1, <2>2, <2>3
<1>2. CASE StartConfigure
    BY <1>2, CountBeside DEF StartConfigure, Configure
<1>3. CASE StopFlag
    BY <1>3, CountBeside DEF StopFlag
<1>4. CASE StopClose
    BY <1>4, CloseCount
<1>5. CASE StopNull
    <2>1. f' = None /\ UNCHANGED <<file, header, raced>> /\ uiPc = "null"
        BY <1>5 DEF StopNull
    <2>2. QED BY <2>1, FilesKept DEF HeaderInv, OpenFileInv
<1>6. CASE StartOpen
    BY <1>6, OpenCount
<1>7. CASE StartHeader
    BY <1>7, HeaderCount
<1>8. CASE StartDrain
    BY <1>8, DrainCount
<1>9. CASE StartFlag
    BY <1>9, CountBeside DEF StartFlag
<1>10. QED
    BY <1>1, <1>2, <1>3, <1>4, <1>5, <1>6, <1>7, <1>8, <1>9 DEF UiStep

LEMMA HeaderInit == Init => HeaderInv
<1> SUFFICES ASSUME Init PROVE HeaderInv
    OBVIOUS
<1>1. f = None /\ Len(file) = 0
    BY DEF Init
<1>2. QED BY <1>1, CoreInit DEF HeaderInv, OpenFileInv, HeaderCountsData

LEMMA HeaderStep == HeaderInv /\ [Next]_vars => HeaderInv'
<1> SUFFICES ASSUME HeaderInv, [Next]_vars PROVE HeaderInv'
    OBVIOUS
<1>1. CoreInv'
    BY CoreStep DEF HeaderInv
<1>2. CASE UNCHANGED vars
    <2>1. \A k : From(k)' = From(k)
        BY <1>2 DEF From, vars, history
    <2>2. HeaderCountsData'
        BY <1>2, FilesKept DEF vars, history, shared, ui, HeaderInv
    <2>3. OpenFileInv'
        BY <1>2, <2>1 DEF vars, shared, reader, ui, history, HeaderInv, OpenFileInv, Counted
    <2>4. QED BY <1>1, <2>2, <2>3 DEF HeaderInv
<1>3. CASE Next
    BY <1>1, <1>3, CallbackCount, UserCount, UiCount DEF Next, HeaderInv
<1>4. QED BY <1>2, <1>3

\* The header of every finished recording that one radio fed, and that nobody was
\* writing to when it was opened or closed, stands at its start, once, and counts its
\* data exactly, whatever the buttons and the callbacks do in between.
THEOREM HeaderCorrect == Spec => []HeaderCountsData
<1>1. HeaderInv => HeaderCountsData
    BY DEF HeaderInv
<1>2. QED BY <1>1, HeaderInit, HeaderStep, PTL DEF Spec

-----------------------------------------------------------------------------
(* Who is closed under a writer                                            *)

\* The failure of an SDRplay stream closes the file after the readers are joined, so it
\* never closes one that a callback is in; the record button and a restart may.
THEOREM NeverClosedUnderFailure == Spec => []ClosedUnderWriterOnlyByButtonOrRestart
<1> DEFINE I == CoreInv /\ ClosedUnderWriterOnlyByButtonOrRestart
<1>1. Init => I
    BY CoreInit DEF Init, ClosedUnderWriterOnlyByButtonOrRestart
<1>2. I /\ [Next]_vars => I'
    <2> SUFFICES ASSUME I, [Next]_vars PROVE I'
        OBVIOUS
    <2>1. CoreInv'
        BY CoreStep
    <2>2. CASE StopClose
        <3>1. op = "fail" => ~HoldsFile
            BY <2>2 DEF StopClose, Ui, CoreInv, UiInv, HoldsFile
        <3>2. op \in {"start", "stopRecord", "fail"}
            BY <2>2 DEF StopClose, Ui, CoreInv, UiInv
        <3>3. QED BY <2>1, <2>2, <3>1, <3>2 DEF StopClose, ClosedUnderWriterOnlyByButtonOrRestart
    <2>3. CASE ~StopClose
        <3>1. unsafe' = unsafe
            BY <2>3 DEF Next, vars, history, shared, UiStep, User, Callback, SourceStop,
               SourceStart, StartConfigure, Restart, StopFlag, StopNull, StartOpen,
               StartHeader, StartDrain, StartFlag, PressRecord, PressStopRecord, PressStart,
               PressStop, StreamFails, Begin, Resize, Deliver, Push, Check, Convert, Fwrite,
               LoadBytes, StoreBytes
        <3>2. QED BY <2>1, <3>1 DEF ClosedUnderWriterOnlyByButtonOrRestart
    <2>4. QED BY <2>2, <2>3
<1>3. I => ClosedUnderWriterOnlyByButtonOrRestart
    OBVIOUS
<1> HIDE DEF I
<1>4. QED BY <1>1, <1>2, <1>3, PTL DEF Spec

-----------------------------------------------------------------------------
\* The last block of a radio that the ring may hold.
Last(r) == IF pc[r] = "push" THEN blk[r] - 1 ELSE blk[r]

\* The ring holds nothing of an earlier recording, because stop() empties it; so what
\* is in two files is the block of one callback, the newest in the older file.
BleedInv ==
    /\ \A k \in 1 .. Len(file), r \in Radios : \A n \in Blocks(k, r) : n <= Last(r)
    /\ \A i \in 1 .. Len(ring) : ring[i][2] <= Last(ring[i][1])
    /\ \A i \in 1 .. Len(ring), k \in 1 .. Len(file) :
          k # f => ring[i][2] \notin Blocks(k, ring[i][1])
    /\ \A j, k \in 1 .. Len(file), r \in Radios :
          j < k => \A n \in Blocks(j, r) \cap Blocks(k, r) : \A m \in Blocks(j, r) : m <= n

LEMMA LastType ==
    ASSUME CoreInv
    PROVE  \A r \in Radios : blk[r] \in Int /\ Last(r) \in Int /\ Last(r) <= blk[r]
<1>1. \A r \in Radios : blk[r] \in Int
    BY RecorderAssumption DEF CoreInv, TypeOK, RecorderAssumption
<1>2. QED BY <1>1 DEF Last

LEMMA BlocksType == \A k, r : Blocks(k, r) \subseteq Int
BY RecorderAssumption DEF Blocks, RecorderAssumption

LEMMA RingItems ==
    ASSUME CoreInv
    PROVE  /\ Len(ring) \in Nat
           /\ \A i \in 1 .. Len(ring) :
                 /\ ring[i] \in Items /\ ring[i][1] \in Radios /\ ring[i][2] \in 1 .. MaxBlocks
                 /\ ring[i][2] \in Int /\ ring[i] = <<ring[i][1], ring[i][2]>>
<1>1. \A i \in 1 .. Len(ring) : ring[i] \in Items
    BY DEF CoreInv, TypeOK
<1>2. QED BY <1>1, RecorderAssumption DEF Items, RecorderAssumption, CoreInv, TypeOK

\* A step that writes to no file and adds nothing to the ring.
LEMMA BleedKept ==
    ASSUME CoreInv, CoreInv', BleedInv, file' = file,
           \A r \in Radios : Last(r) <= Last(r)',
           (ring' = ring /\ f' = f) \/ ring' = <<>>
    PROVE  BleedInv'
<1>1. \A k, r : Blocks(k, r)' = Blocks(k, r)
    BY DEF Blocks
<1>2. \A r \in Radios : Last(r) \in Int /\ Last(r)' \in Int
    <2>1. \A r \in Radios : blk'[r] \in Int
        BY RecorderAssumption DEF CoreInv, TypeOK, RecorderAssumption
    <2>2. QED BY <2>1, LastType DEF Last
<1>3. \A k \in 1 .. Len(file), r \in Radios : \A n \in Blocks(k, r) : n <= Last(r)'
    BY <1>2, BlocksType DEF BleedInv
<1>4. CASE ring' = <<>>
    BY <1>1, <1>3, <1>4 DEF BleedInv
<1>5. CASE ring' = ring /\ f' = f
    <2>1. \A i \in 1 .. Len(ring) : ring[i][2] <= Last(ring[i][1])'
        <3> SUFFICES ASSUME NEW i \in 1 .. Len(ring) PROVE ring[i][2] <= Last(ring[i][1])'
            BY <1>5
        <3>1. PICK q \in Radios : q = ring[i][1]
            BY RingItems
        <3>2. ring[i][2] <= Last(q) /\ Last(q) <= Last(q)' /\ ring[i][2] \in Int
            BY <3>1, RingItems DEF BleedInv
        <3>3. ring[i][2] <= Last(q)'
            BY <1>2, <3>2
        <3>4. Last(ring[i][1])' = Last(q)'
            BY <1>5, <3>1 DEF Last
        <3>5. QED BY <3>3, <3>4
    <2>2. \A i \in 1 .. Len(ring') : ring'[i][2] <= Last(ring[i][1])'
        BY <1>5, <2>1 DEF Last
    <2>3. QED BY <1>1, <1>3, <1>5, <2>2 DEF BleedInv
<1>6. QED BY <1>4, <1>5

\* The open file, the newest, gets blocks that no other file has, or the last one.
LEMMA BleedGrows ==
    ASSUME CoreInv, BleedInv, f # None, UNCHANGED <<f, ring, blk>>, Len(file') = Len(file),
           \A r \in Radios : pc'[r] = "push" <=> pc[r] = "push",
           \A k \in 1 .. Len(file) : k # f => file'[k] = file[k],
           NEW N, N \in [Radios -> SUBSET Int],
           \A r \in Radios : Blocks(f, r)' \subseteq Blocks(f, r) \cup N[r],
           \A r \in Radios : \A n \in N[r] :
               n <= Last(r) /\ \A j \in 1 .. Len(file) :
                   j # f /\ n \in Blocks(j, r) => \A m \in Blocks(j, r) : m <= n
    PROVE  BleedInv'
<1>1. \A k \in 1 .. Len(file), r \in Radios : k # f => Blocks(k, r)' = Blocks(k, r)
    BY DEF Blocks
<1>2. \A r : Last(r)' = Last(r) \/ r \notin Radios
    BY DEF Last
<1>3. f = Len(file) /\ f \in 1 .. Len(file)
    BY DEF CoreInv, TypeOK, UiInv, None
<1>4. \A k \in 1 .. Len(file'), r \in Radios : \A n \in Blocks(k, r)' : n <= Last(r)'
    BY <1>1, <1>2, <1>3 DEF BleedInv
<1>5. \A i \in 1 .. Len(ring') : ring'[i][2] <= Last(ring[i][1])'
    <2> SUFFICES ASSUME NEW i \in 1 .. Len(ring) PROVE ring[i][2] <= Last(ring[i][1])'
        OBVIOUS
    <2>1. ring[i][1] \in Radios /\ ring[i][2] <= Last(ring[i][1])
        BY RingItems DEF BleedInv
    <2>2. QED BY <2>1 DEF Last
<1>6. \A i \in 1 .. Len(ring'), k \in 1 .. Len(file') :
         k # f' => ring'[i][2] \notin Blocks(k, ring[i][1])'
    <2> SUFFICES ASSUME NEW i \in 1 .. Len(ring), NEW k \in 1 .. Len(file), k # f
                 PROVE  ring[i][2] \notin Blocks(k, ring[i][1])'
        OBVIOUS
    <2>1. ring[i][1] \in Radios /\ ring[i][2] \notin Blocks(k, ring[i][1])
        BY RingItems DEF BleedInv
    <2>2. QED BY <2>1 DEF Blocks
<1>7. ASSUME NEW j \in 1 .. Len(file), NEW k \in 1 .. Len(file), NEW r \in Radios, j < k,
             NEW n \in Blocks(j, r)' \cap Blocks(k, r)', NEW m \in Blocks(j, r)'
      PROVE  m <= n
    <2>1. j # f /\ j \in 1 .. Len(file) /\ n \in Blocks(j, r) /\ m \in Blocks(j, r)
        BY <1>1, <1>3, <1>7
    <2>2. CASE n \in Blocks(k, r)
        BY <1>7, <2>1, <2>2 DEF BleedInv
    <2>3. CASE n \notin Blocks(k, r)
        <3>1. n \in N[r]
            BY <1>1, <1>7, <2>3
        <3>2. QED BY <2>1, <3>1
    <2>4. QED BY <2>2, <2>3
<1>8. QED BY <1>4, <1>5, <1>6, <1>7 DEF BleedInv

\* What a block pushed into the ring leaves of it: all, or all but the oldest.
LEMMA RingPush ==
    ASSUME CoreInv, NEW r \in Radios, pc[r] # "idle",
           ring' = Newest(Append(ring, <<r, blk[r]>>))
    PROVE  \E d \in {0, 1} :
              /\ Len(ring') = Len(ring) + 1 - d
              /\ \A i \in 1 .. Len(ring') :
                    ring'[i] = IF i + d = Len(ring) + 1 THEN <<r, blk[r]>> ELSE ring[i + d]
<1> DEFINE s == Append(ring, <<r, blk[r]>>)
<1>1. ring \in Seq(Items) /\ <<r, blk[r]>> \in Items /\ Len(ring) \in Nat
    BY BlockType DEF CoreInv, TypeOK
<1>2. /\ s \in Seq(Items) /\ s # <<>> /\ Len(s) = Len(ring) + 1
      /\ \A i \in 1 .. Len(ring) : s[i] = ring[i]
      /\ s[Len(ring) + 1] = <<r, blk[r]>>
    BY <1>1, AppendProperties
<1> HIDE DEF s
<1>3. ring' = s \/ ring' = Tail(s)
    BY DEF Newest, s
<1>4. \A i \in 1 .. Len(ring) + 1 :
         s[i] = IF i = Len(ring) + 1 THEN <<r, blk[r]>> ELSE ring[i]
    BY <1>1, <1>2
<1>5. CASE ring' = s
    <2>1. Len(ring') = Len(ring) + 1 - 0
        BY <1>2, <1>5
    <2>2. \A i \in 1 .. Len(ring') :
             ring'[i] = IF i + 0 = Len(ring) + 1 THEN <<r, blk[r]>> ELSE ring[i + 0]
        BY <1>1, <1>2, <1>4, <1>5
    <2>3. QED BY <2>1, <2>2
<1>6. CASE ring' = Tail(s)
    <2>1. Len(Tail(s)) = Len(s) - 1 /\ \A i \in 1 .. Len(Tail(s)) : Tail(s)[i] = s[i + 1]
        BY <1>2, HeadTailProperties, Zenon
    <2>2. Len(ring') = Len(s) - 1 /\ \A i \in 1 .. Len(ring') : ring'[i] = s[i + 1]
        BY <1>6, <2>1, Zenon
    <2>3. Len(ring') = Len(ring) + 1 - 1 /\ \A i \in 1 .. Len(ring') : ring'[i] = s[i + 1]
        BY <1>1, <1>2, <2>2
    <2>4. \A i \in 1 .. Len(ring') :
             ring'[i] = IF i + 1 = Len(ring) + 1 THEN <<r, blk[r]>> ELSE ring[i + 1]
        BY <1>1, <1>4, <2>3
    <2>5. QED BY <2>3, <2>4
<1>7. QED BY <1>3, <1>5, <1>6

LEMMA PushBleed ==
    ASSUME CoreInv, CoreInv', BleedInv, NEW r \in Radios, Push(r)
    PROVE  BleedInv'
<1>1. /\ pc[r] = "push" /\ pc' = [pc EXCEPT ![r] = "check"] /\ pc \in [Radios -> Pcs]
      /\ UNCHANGED <<file, f, blk>>
    BY DEF Push, At, history, CoreInv, TypeOK
<1>2. Last(r)' = blk[r] /\ Last(r) = blk[r] - 1 /\ \A q \in Radios : q # r => Last(q)' = Last(q)
    BY <1>1 DEF Last
<1>3. \A q \in Radios : Last(q) <= Last(q)'
    BY <1>2, LastType
<1>4. CASE ring' = ring
    BY <1>1, <1>3, <1>4, BleedKept
<1>5. CASE ring' = Newest(Append(ring, <<r, blk[r]>>))
    <2>1. \A k, q : Blocks(k, q)' = Blocks(k, q)
        BY <1>1 DEF Blocks
    <2>2. \A i \in 1 .. Len(ring') :
             \/ ring'[i] = <<r, blk[r]>>
             \/ \E j \in 1 .. Len(ring) : ring'[i] = ring[j]
        <3>1. PICK d \in {0, 1} :
                  /\ Len(ring') = Len(ring) + 1 - d
                  /\ \A i \in 1 .. Len(ring') :
                        ring'[i] = IF i + d = Len(ring) + 1 THEN <<r, blk[r]>> ELSE ring[i + d]
            BY <1>1, <1>5, RingPush
        <3>2. \A i \in 1 .. Len(ring') : i + d = Len(ring) + 1 \/ i + d \in 1 .. Len(ring)
            BY <3>1, RingItems
        <3>3. QED BY <3>1, <3>2
    <2>3. \A i \in 1 .. Len(ring') : ring'[i][2] <= Last(ring[i][1])'
        <3> SUFFICES ASSUME NEW i \in 1 .. Len(ring') PROVE ring'[i][2] <= Last(ring[i][1])'
            OBVIOUS
        <3>1. CASE ring'[i] = <<r, blk[r]>>
            BY <3>1, <1>2, LastType DEF Last
        <3>2. CASE \E j \in 1 .. Len(ring) : ring'[i] = ring[j]
            <4>1. PICK j \in 1 .. Len(ring) : ring'[i] = ring[j]
                BY <3>2
            <4>2. PICK q \in Radios : q = ring[j][1]
                BY RingItems
            <4>3. ring[j][2] <= Last(q) /\ Last(q) <= Last(q)' /\ ring[j][2] \in Int /\ Last(q) \in Int
                BY <1>3, <4>2, RingItems, LastType DEF BleedInv
            <4>4. Last(q)' \in Int
                BY <1>2, LastType
            <4>5. QED BY <4>1, <4>2, <4>3, <4>4 DEF Last
        <3>3. QED BY <2>2, <3>1, <3>2
    <2>4. \A i \in 1 .. Len(ring'), k \in 1 .. Len(file) :
             k # f => ring'[i][2] \notin Blocks(k, ring'[i][1])
        <3> SUFFICES ASSUME NEW i \in 1 .. Len(ring'), NEW k \in 1 .. Len(file), k # f
                     PROVE  ring'[i][2] \notin Blocks(k, ring'[i][1])
            OBVIOUS
        <3>1. CASE ring'[i] = <<r, blk[r]>>
            <4>1. \A n \in Blocks(k, r) : n <= blk[r] - 1
                BY <1>2 DEF BleedInv
            <4>2. QED BY <3>1, <4>1, LastType
        <3>2. CASE \E j \in 1 .. Len(ring) : ring'[i] = ring[j]
            BY <3>2 DEF BleedInv
        <3>3. QED BY <2>2, <3>1, <3>2
    <2>5. \A k \in 1 .. Len(file), q \in Radios : \A n \in Blocks(k, q) : n <= Last(q)'
        <3>1. \A q \in Radios : Last(q) \in Int /\ Last(q)' \in Int
            BY <1>2, LastType
        <3>2. QED BY <1>3, <3>1, BlocksType DEF BleedInv
    <2>6. QED BY <1>1, <2>1, <2>3, <2>4, <2>5 DEF BleedInv
<1>6. QED BY <1>4, <1>5 DEF Push

\* A block is written to the file: the last of its radio.
LEMMA FwriteBleed ==
    ASSUME CoreInv, CoreInv', BleedInv, NEW r \in Radios, Fwrite(r)
    PROVE  BleedInv'
<1>1. /\ pc[r] = "fwrite" /\ pc' = [pc EXCEPT ![r] = "load"] /\ pc \in [Radios -> Pcs]
      /\ UNCHANGED <<f, ring, blk>>
    BY DEF Fwrite, At, shared, CoreInv, TypeOK
<1>2. \A q \in Radios : (pc'[q] = "push" <=> pc[q] = "push") /\ Last(q)' = Last(q)
    BY <1>1 DEF Last
<1>3. CASE file' = file
    BY <1>1, <1>2, <1>3, LastType, BleedKept
<1>4. CASE f # None /\ file' = [file EXCEPT ![f] = Append(file[f], <<r, blk[r]>>)]
    <2>1. f \in 1 .. Len(file) /\ file[f] \in Seq(Items \cup {Riff}) /\ <<r, blk[r]>> \in Items
        <3>1. f \in 1 .. Len(file)
            BY <1>4 DEF CoreInv, TypeOK, None
        <3>2. file[f] \in Seq(Items \cup {Riff})
            BY <3>1 DEF CoreInv, TypeOK
        <3>3. QED BY <1>1, <3>1, <3>2, BlockType
    <2>2. /\ Len(file') = Len(file) /\ file'[f] = Append(file[f], <<r, blk[r]>>)
          /\ \A k \in 1 .. Len(file) : k # f => file'[k] = file[k]
        <3>1. PICK x : x = Append(file[f], <<r, blk[r]>>)
            OBVIOUS
        <3>2. file' = [file EXCEPT ![f] = x]
            BY <1>4, <3>1
        <3>3. file \in Seq(Seq(Items \cup {Riff}))
            BY DEF CoreInv, TypeOK
        <3>4. QED BY <2>1, <3>1, <3>2, <3>3
    <2> DEFINE N == [q \in Radios |-> IF q = r THEN {blk[r]} ELSE {}]
    <2>3. N \in [Radios -> SUBSET Int]
        BY LastType
    <2>4. \A q \in Radios : Blocks(f, q)' \subseteq Blocks(f, q) \cup N[q]
        <3> SUFFICES ASSUME NEW q \in Radios, NEW n \in Blocks(f, q)', n \notin Blocks(f, q)
                     PROVE  n = blk[r] /\ q = r
            BY DEF N
        <3>1. PICK i \in 2 .. Len(file'[f]) : file'[f][i] = <<q, n>>
            BY <1>1 DEF Blocks
        <3>2. /\ Len(file'[f]) = Len(file[f]) + 1 /\ Len(file[f]) \in Nat
              /\ \A j \in 1 .. Len(file[f]) : file'[f][j] = file[f][j]
              /\ file'[f][Len(file[f]) + 1] = <<r, blk[r]>>
            <4>1. <<r, blk[r]>> \in Items \cup {Riff}
                BY <2>1
            <4>2. QED BY <2>1, <2>2, <4>1, AppendProperties
        <3>3. i \notin 1 .. Len(file[f])
            BY <3>1, <3>2 DEF Blocks
        <3>4. i = Len(file[f]) + 1
            BY <3>1, <3>2, <3>3
        <3>5. QED BY <3>1, <3>2, <3>4
    <2>5. \A q \in Radios : \A n \in N[q] :
             n <= Last(q) /\ \A j \in 1 .. Len(file) :
                 j # f /\ n \in Blocks(j, q) => \A m \in Blocks(j, q) : m <= n
        <3>1. Last(r) = blk[r]
            BY <1>1 DEF Last
        <3>2. QED BY <3>1, LastType DEF BleedInv
    <2> HIDE DEF N
    <2>6. QED BY <1>1, <1>2, <1>4, <2>2, <2>3, <2>4, <2>5, BleedGrows
<1>5. QED BY <1>3, <1>4 DEF Fwrite

\* A file is opened, empty.
LEMMA OpenBleed ==
    ASSUME CoreInv, CoreInv', BleedInv, StartOpen
    PROVE  BleedInv'
<1>1. f = None /\ UNCHANGED <<ring, pc, blk>>
    BY DEF StartOpen, Ui, reader, CoreInv, UiInv
<1>2. \A q : Last(q)' = Last(q)
    BY <1>1 DEF Last
<1>3. CASE UNCHANGED <<f, file>>
    BY <1>1, <1>2, <1>3, LastType, BleedKept
<1>4. CASE f' = Len(file) + 1 /\ file' = Append(file, <<>>)
    <2>1. /\ Len(file') = Len(file) + 1 /\ Len(file) \in Nat /\ file'[f'] = <<>>
          /\ \A k \in 1 .. Len(file) : file'[k] = file[k]
        <3>1. file \in Seq(Seq(Items \cup {Riff})) /\ <<>> \in Seq(Items \cup {Riff})
            BY DEF CoreInv, TypeOK
        <3>2. QED BY <1>4, <3>1, AppendProperties
    <2>2. \A k \in 1 .. Len(file), q \in Radios : Blocks(k, q)' = Blocks(k, q)
        BY <2>1 DEF Blocks
    <2>3. ASSUME NEW q \in Radios, NEW k \in 1 .. Len(file'), k = Len(file) + 1
          PROVE  Blocks(k, q)' = {}
        BY <1>4, <2>1, <2>3 DEF Blocks
    <2>4. \A k \in 1 .. Len(file') : k \in 1 .. Len(file) \/ k = Len(file) + 1
        BY <2>1
    <2>5. \A k \in 1 .. Len(file'), q \in Radios : \A n \in Blocks(k, q)' : n <= Last(q)'
        BY <1>2, <2>2, <2>3, <2>4 DEF BleedInv
    <2>6. \A i \in 1 .. Len(ring') : ring'[i][2] <= Last(ring[i][1])'
        BY <1>1, <1>2 DEF BleedInv, Last
    <2>7. \A i \in 1 .. Len(ring'), k \in 1 .. Len(file') :
             k # f' => ring'[i][2] \notin Blocks(k, ring[i][1])'
        <3> SUFFICES ASSUME NEW i \in 1 .. Len(ring), NEW k \in 1 .. Len(file), k # f
                     PROVE  ring[i][2] \notin Blocks(k, ring[i][1])'
            BY <1>1, <1>4, <2>1, <2>4 DEF None
        <3>1. PICK q \in Radios : q = ring[i][1]
            BY RingItems
        <3>2. ring[i][2] \notin Blocks(k, q)'
            BY <2>2, <3>1 DEF BleedInv
        <3>3. QED BY <1>1, <3>1, <3>2
    <2>8. ASSUME NEW j \in 1 .. Len(file'), NEW k \in 1 .. Len(file'), NEW q \in Radios, j < k,
                 NEW n \in Blocks(j, q)' \cap Blocks(k, q)', NEW m \in Blocks(j, q)'
          PROVE  m <= n
        <3>1. k \in 1 .. Len(file) /\ j \in 1 .. Len(file)
            BY <2>1, <2>3, <2>4, <2>8
        <3>2. QED BY <2>2, <2>8, <3>1 DEF BleedInv
    <2>9. QED BY <2>5, <2>6, <2>7, <2>8 DEF BleedInv
<1>5. QED BY <1>3, <1>4 DEF StartOpen

\* start() writes the header: no block.
LEMMA HeaderBleed ==
    ASSUME CoreInv, CoreInv', BleedInv, StartHeader
    PROVE  BleedInv'
<1>1. /\ f # None /\ UNCHANGED <<f, ring, blk, pc>>
      /\ file' = [file EXCEPT ![f] = Append(file[f], Riff)]
    BY DEF StartHeader, Ui, reader, CoreInv, UiInv, NewFile
<1>2. f \in 1 .. Len(file) /\ file[f] \in Seq(Items \cup {Riff})
    <2>1. f \in 1 .. Len(file)
        BY <1>1 DEF CoreInv, TypeOK, None
    <2>2. QED BY <2>1 DEF CoreInv, TypeOK
<1>3. /\ Len(file') = Len(file) /\ file'[f] = Append(file[f], Riff)
      /\ \A k \in 1 .. Len(file) : k # f => file'[k] = file[k]
    <2>1. PICK x : x = Append(file[f], Riff)
        OBVIOUS
    <2>2. file' = [file EXCEPT ![f] = x]
        BY <1>1, <2>1
    <2>3. file \in Seq(Seq(Items \cup {Riff}))
        BY DEF CoreInv, TypeOK
    <2>4. QED BY <1>2, <2>1, <2>2, <2>3
<1> DEFINE N == [q \in Radios |-> {}]
<1>4. N \in [Radios -> SUBSET Int] /\ \A q \in Radios : N[q] = {}
    OBVIOUS
<1>5. \A q \in Radios : Blocks(f, q)' \subseteq Blocks(f, q) \cup N[q]
    <2> SUFFICES ASSUME NEW q \in Radios, NEW n \in Blocks(f, q)' PROVE n \in Blocks(f, q)
        OBVIOUS
    <2>1. PICK i \in 2 .. Len(file'[f]) : file'[f][i] = <<q, n>>
        BY <1>1 DEF Blocks
    <2>2. n \in 1 .. MaxBlocks
        BY DEF Blocks
    <2>3. <<q, n>> # Riff
        BY <2>2, RiffIsNoItem DEF Items
    <2>4. /\ Len(file'[f]) = Len(file[f]) + 1 /\ Len(file[f]) \in Nat
          /\ \A j \in 1 .. Len(file[f]) : file'[f][j] = file[f][j]
          /\ file'[f][Len(file[f]) + 1] = Riff
        BY <1>2, <1>3, AppendProperties
    <2>5. i # Len(file[f]) + 1
        BY <2>1, <2>3, <2>4
    <2>6. i \in 2 .. Len(file[f])
        BY <2>4, <2>5
    <2>7. file[f][i] = <<q, n>>
        BY <2>1, <2>4, <2>6
    <2>8. QED BY <2>2, <2>6, <2>7 DEF Blocks
<1> HIDE DEF N
<1>6. QED BY <1>1, <1>3, <1>4, <1>5, BleedGrows

\* start() drains the ring into the file: no other file has these blocks.
LEMMA DrainBleed ==
    ASSUME CoreInv, CoreInv', BleedInv, StartDrain
    PROVE  BleedInv'
<1>1. /\ f # None /\ UNCHANGED <<f, ring, blk, pc>>
      /\ file' = [file EXCEPT ![f] = file[f] \o ring]
    BY DEF StartDrain, Ui, reader, CoreInv, UiInv, NewFile
<1>2. ring \in Seq(Items) /\ ring \in Seq(Items \cup {Riff}) /\ TypeOK
    BY DEF CoreInv, TypeOK
<1>3. /\ f \in 1 .. Len(file) /\ Len(file') = Len(file)
      /\ Len(file[f]) \in Nat
      /\ \A k \in 1 .. Len(file) : k # f => file'[k] = file[k]
      /\ \A i \in 1 .. Len(file[f]) : file'[f][i] = file[f][i]
      /\ \A i \in 1 .. Len(ring) : file'[f][Len(file[f]) + i] = ring[i]
      /\ \A i \in 1 .. Len(file'[f]) :
            i \in 1 .. Len(file[f]) \/ i - Len(file[f]) \in 1 .. Len(ring)
    BY <1>1, <1>2, FileGrows
<1> DEFINE N == [q \in Radios |-> {ring[i][2] : i \in {j \in 1 .. Len(ring) : ring[j][1] = q}}]
<1>4. N \in [Radios -> SUBSET Int]
    BY RingItems
<1>5. \A q \in Radios : Blocks(f, q)' \subseteq Blocks(f, q) \cup N[q]
    <2> SUFFICES ASSUME NEW q \in Radios, NEW n \in Blocks(f, q)', n \notin Blocks(f, q)
                 PROVE  n \in N[q]
        OBVIOUS
    <2>1. PICK i \in 2 .. Len(file'[f]) : file'[f][i] = <<q, n>>
        BY <1>1 DEF Blocks
    <2>2. n \in 1 .. MaxBlocks
        BY DEF Blocks
    <2>3. i \notin 1 .. Len(file[f])
        <3> SUFFICES ASSUME i \in 1 .. Len(file[f])
                     PROVE  FALSE
            OBVIOUS
        <3>1. file[f][i] = <<q, n>>
            BY <1>3, <2>1
        <3>2. i \in 2 .. Len(file[f])
            OBVIOUS
        <3> QED BY <2>2, <3>1, <3>2 DEF Blocks
    <2>4. i \in 1 .. Len(file'[f])
        OBVIOUS
    <2>5. PICK j \in 1 .. Len(ring) : j = i - Len(file[f])
        BY <1>3, <2>3, <2>4
    <2>6. i = Len(file[f]) + j
        BY <1>3, <2>5
    <2>7. ring[j] = <<q, n>>
        BY <1>3, <2>1, <2>6
    <2>8. QED BY <2>7 DEF N
<1>6. ASSUME NEW q \in Radios, NEW n \in N[q]
      PROVE  /\ n <= Last(q)
             /\ \A j \in 1 .. Len(file) : j # f => n \notin Blocks(j, q)
    <2>1. PICK i \in 1 .. Len(ring) : ring[i][1] = q /\ ring[i][2] = n
        BY <1>6
    <2>2. QED BY <2>1 DEF BleedInv
<1> HIDE DEF N
<1>7. QED BY <1>1, <1>3, <1>4, <1>5, <1>6, BleedGrows

\* A delivery.  The pre-buffer of size 0 holds nothing.
LEMMA DeliverLast ==
    ASSUME CoreInv, NEW r \in Radios, Deliver(r)
    PROVE  /\ \A q \in Radios : Last(q) <= Last(q)'
           /\ ring # <<>> => \A q \in Radios : Last(q)' = Last(q)
           /\ UNCHANGED <<file, f, ring>>
<1>1. PICK p : p = (IF ringCap = 0 THEN "check" ELSE "push") /\ pc' = [pc EXCEPT ![r] = p]
    BY DEF Deliver, At
<1>2. /\ pc[r] = "idle" /\ pc \in [Radios -> Pcs] /\ blk' = [blk EXCEPT ![r] = blk[r] + 1]
      /\ blk \in [Radios -> 0 .. MaxBlocks] /\ UNCHANGED <<file, f, ring>>
    BY DEF Deliver, At, shared, history, CoreInv, TypeOK
<1>3. p \in {"check", "push"} /\ (ringCap # 0 => p = "push")
    BY <1>1
<1>4. \A q \in Radios : Last(q) <= Last(q)'
    BY <1>1, <1>2, <1>3, LastType DEF Last
<1>5. ring # <<>> => ringCap # 0
    <2>1. ring \in Seq(Items) /\ Len(ring) <= ringCap
        BY DEF CoreInv, TypeOK
    <2>2. ring # <<>> => Len(ring) # 0 /\ Len(ring) \in Nat
        BY <2>1, EmptySeq
    <2>3. QED BY <2>1, <2>2
<1>6. ring # <<>> => \A q \in Radios : Last(q)' = Last(q)
    BY <1>1, <1>2, <1>3, <1>5, LastType DEF Last
<1>7. QED BY <1>2, <1>4, <1>6

\* The steps that deliver, push, write or open; every other one leaves the files and the
\* numbers of the blocks alone, and the ring as it is or empty.
LEMMA OtherSteps ==
    ASSUME CoreInv, [Next]_vars
    PROVE  \/ \E r \in Radios : Deliver(r) \/ Push(r) \/ Fwrite(r)
           \/ StartOpen \/ StartHeader \/ StartDrain
           \/ /\ file' = file /\ \A r \in Radios : Last(r)' = Last(r)
              /\ (ring' = ring /\ f' = f) \/ ring' = <<>>
<1> USE DEF shared, reader, ui, history, At, Ui, Goto, Return
<1>1. CASE UNCHANGED vars
    BY <1>1 DEF vars, Last
<1>2. CASE \E r \in Radios : Callback(r)
    <2>1. PICK r \in Radios : Callback(r)
        BY <1>2
    <2>2. CASE Check(r) \/ Convert(r) \/ LoadBytes(r) \/ StoreBytes(r)
        <3>1. PICK p \in Pcs \ {"push"} : pc' = [pc EXCEPT ![r] = p]
            <4>1. CASE Check(r)
                BY <4>1 DEF Check, Pcs
            <4>2. CASE Convert(r)
                BY <4>2 DEF Convert, Pcs
            <4>3. CASE LoadBytes(r) \/ StoreBytes(r)
                BY <4>3 DEF LoadBytes, StoreBytes, Pcs
            <4>4. QED BY <2>2, <4>1, <4>2, <4>3
        <3>2. pc[r] # "push" /\ pc \in [Radios -> Pcs] /\ UNCHANGED <<file, f, ring, blk>>
            BY <2>2 DEF Check, Convert, LoadBytes, StoreBytes, CoreInv, TypeOK
        <3>3. QED BY <3>1, <3>2 DEF Last
    <2>3. QED BY <2>1, <2>2 DEF Callback
<1>3. CASE User
    <2>1. UNCHANGED <<file, f, pc, blk>> /\ (ring' = ring \/ ring' = <<>>)
        BY <1>3 DEF User, PressRecord, PressStopRecord, PressStart, PressStop, StreamFails,
           Begin, Resize, Configure
    <2>2. QED BY <2>1 DEF Last
<1>4. CASE UiStep
    <2>1. CASE SourceStop \/ SourceStart \/ StartConfigure \/ Restart \/ StopFlag \/ StopClose
               \/ StopNull \/ StartFlag
        <3>1. UNCHANGED <<file, pc, blk>> /\ ((ring' = ring /\ f' = f) \/ ring' = <<>>)
            BY <2>1 DEF SourceStop, SourceStart, StartConfigure, Configure, Restart, StopFlag,
               StopClose, StopNull, StartFlag
        <3>2. QED BY <3>1 DEF Last
    <2>2. QED BY <1>4, <2>1 DEF UiStep
<1>5. QED BY <1>1, <1>2, <1>3, <1>4 DEF Next

LEMMA BleedStep ==
    ASSUME CoreInv, CoreInv', BleedInv, [Next]_vars
    PROVE  BleedInv'
<1>1. ASSUME NEW r \in Radios, Deliver(r) PROVE BleedInv'
    BY <1>1, DeliverLast, BleedKept
<1>2. ASSUME NEW r \in Radios, Push(r) \/ Fwrite(r) PROVE BleedInv'
    BY <1>2, PushBleed, FwriteBleed
<1>3. CASE StartOpen \/ StartHeader \/ StartDrain
    BY <1>3, OpenBleed, HeaderBleed, DrainBleed
<1>4. CASE /\ file' = file /\ \A r \in Radios : Last(r)' = Last(r)
           /\ (ring' = ring /\ f' = f) \/ ring' = <<>>
    BY <1>4, LastType, BleedKept
<1>5. QED BY <1>1, <1>2, <1>3, <1>4, OtherSteps

\* Of each radio at most one block is in two recordings: stop() has emptied the ring, so
\* a block goes into a second file only when its callback lasted through the stop and
\* the start, and it is then the last one of the older file.
THEOREM NothingBleeds == Spec => []NoBleed
<1> DEFINE I == CoreInv /\ BleedInv
<1>1. Init => I
    <2>1. Init => BleedInv
        BY DEF Init, BleedInv
    <2>2. QED BY <2>1, CoreInit
<1>2. I /\ [Next]_vars => I'
    BY CoreStep, BleedStep
<1>3. I => NoBleed
    <2> SUFFICES ASSUME I, NEW j \in 1 .. Len(file), NEW k \in 1 .. Len(file), NEW r \in Radios,
                        j < k
                 PROVE  /\ Cardinality(Blocks(j, r) \cap Blocks(k, r)) <= 1
                        /\ Cardinality(Blocks(k, r) \cap Blocks(j, r)) <= 1
        BY DEF NoBleed
    <2> DEFINE S == Blocks(j, r) \cap Blocks(k, r)
    <2>1. \A m, n \in S : m = n
        <3>1. \A m, n \in S : m <= n /\ n <= m
            BY DEF BleedInv
        <3>2. S \subseteq Int
            BY BlocksType
        <3>3. QED BY <3>1, <3>2
    <2>2. S = {} \/ \E n : S = {n}
        BY <2>1
    <2> HIDE DEF S
    <2>3. Cardinality(S) <= 1
        <3>1. CASE S = {}
            BY <3>1, FS_EmptySet
        <3>2. CASE \E n : S = {n}
            <4>1. PICK n : S = {n}
                BY <3>2
            <4>2. Cardinality({n}) = 1
                BY FS_Singleton
            <4>3. QED BY <4>1, <4>2
        <3>3. QED BY <2>2, <3>1, <3>2
    <2>4. Blocks(k, r) \cap Blocks(j, r) = S
        BY DEF S
    <2>5. QED BY <2>3, <2>4 DEF S
<1> HIDE DEF I
<1>4. QED BY <1>1, <1>2, <1>3, PTL DEF Spec

-----------------------------------------------------------------------------
(* The seam between the pre-buffer and the live blocks                     *)

\* The blocks of a radio in the ring are in order, and none is missing up to the last.
RingInv ==
    /\ \A i, j \in 1 .. Len(ring) :
          i < j /\ ring[i][1] = ring[j][1] => ring[i][2] < ring[j][2]
    /\ \A i \in 1 .. Len(ring) : \A n \in Int :
          ring[i][2] <= n /\ n <= Last(ring[i][1]) =>
             \E j \in 1 .. Len(ring) : ring[j] = <<ring[i][1], n>>

LEMMA RingKept ==
    ASSUME CoreInv, RingInv,
           ring' = <<>> \/ (ring' = ring /\ \A r \in Radios : Last(r)' = Last(r))
    PROVE  RingInv'
<1>1. CASE ring' = <<>>
    BY <1>1 DEF RingInv
<1>2. CASE ring' = ring /\ \A r \in Radios : Last(r)' = Last(r)
    <2>1. ASSUME NEW i \in 1 .. Len(ring), NEW n \in Int,
                 ring[i][2] <= n, n <= Last(ring[i][1])'
          PROVE  \E j \in 1 .. Len(ring) : ring[j] = <<ring[i][1], n>>
        <3>1. PICK q \in Radios : q = ring[i][1]
            BY RingItems
        <3>2. Last(ring[i][1])' = Last(q)'
            BY <1>2, <3>1 DEF Last
        <3>3. QED BY <1>2, <2>1, <3>1, <3>2 DEF RingInv
    <2>2. QED BY <1>2, <2>1 DEF RingInv
<1>3. QED BY <1>1, <1>2

LEMMA PushRing ==
    ASSUME CoreInv, RingInv, BleedInv, NEW r \in Radios, Push(r)
    PROVE  RingInv'
<1>1. /\ pc[r] = "push" /\ pc' = [pc EXCEPT ![r] = "check"] /\ pc \in [Radios -> Pcs]
      /\ UNCHANGED blk
    BY DEF Push, At, CoreInv, TypeOK
<1>2. Last(r)' = blk[r] /\ Last(r) = blk[r] - 1 /\ \A q \in Radios : q # r => Last(q)' = Last(q)
    BY <1>1 DEF Last
<1>3. CASE ringCap = 0
    <2>1. ring \in Seq(Items) /\ Len(ring) <= 0
        BY <1>3 DEF CoreInv, TypeOK
    <2>2. Len(ring) = 0
        BY <2>1
    <2>3. ring = <<>>
        BY <2>1, <2>2, EmptySeq
    <2>4. ring' = ring
        BY <1>3 DEF Push
    <2>5. QED BY <2>3, <2>4, RingKept
<1>4. CASE ringCap # 0
    <2>1. ring' = Newest(Append(ring, <<r, blk[r]>>))
        BY <1>4 DEF Push
    <2>2. PICK d \in {0, 1} :
              /\ Len(ring') = Len(ring) + 1 - d
              /\ \A i \in 1 .. Len(ring') :
                    ring'[i] = IF i + d = Len(ring) + 1 THEN <<r, blk[r]>> ELSE ring[i + d]
        BY <1>1, <2>1, RingPush
    <2>3. \A i \in 1 .. Len(ring') :
             \/ i + d = Len(ring) + 1 /\ ring'[i] = <<r, blk[r]>>
             \/ i + d \in 1 .. Len(ring) /\ ring'[i] = ring[i + d]
        BY <2>2, RingItems
    <2>4. ASSUME NEW i \in 1 .. Len(ring'), NEW j \in 1 .. Len(ring'),
                 i < j, ring'[i][1] = ring'[j][1]
          PROVE  ring'[i][2] < ring'[j][2]
        <3>1. i + d \in 1 .. Len(ring) /\ ring'[i] = ring[i + d] /\ i + d < j + d
            BY <2>2, <2>3, <2>4, RingItems
        <3>2. CASE j + d = Len(ring) + 1 /\ ring'[j] = <<r, blk[r]>>
            <4>1. ring[i + d][1] = r /\ ring[i + d][2] <= Last(r)
                BY <2>4, <3>1, <3>2 DEF BleedInv
            <4>2. ring[i + d][2] \in Int
                BY <3>1, RingItems
            <4>3. QED BY <1>2, <3>1, <3>2, <4>1, <4>2, LastType
        <3>3. CASE j + d \in 1 .. Len(ring) /\ ring'[j] = ring[j + d]
            BY <2>4, <3>1, <3>3 DEF RingInv
        <3>4. QED BY <2>3, <3>2, <3>3
    <2>5. ASSUME NEW i \in 1 .. Len(ring'), NEW n \in Int,
                 ring'[i][2] <= n, n <= Last(ring[i][1])'
          PROVE  \E j \in 1 .. Len(ring') : ring'[j] = <<ring'[i][1], n>>
        <3>1. CASE i + d = Len(ring) + 1 /\ ring'[i] = <<r, blk[r]>>
            <4>1. Last(ring[i][1])' = Last(r)'
                BY <3>1 DEF Last
            <4>2. n = blk[r]
                BY <1>2, <2>5, <3>1, <4>1, LastType
            <4>3. QED BY <3>1, <4>2
        <3>2. CASE i + d \in 1 .. Len(ring) /\ ring'[i] = ring[i + d]
            <4>1. PICK q \in Radios : q = ring[i + d][1]
                BY <3>2, RingItems
            <4>2. Last(ring[i][1])' = Last(q)'
                BY <3>2, <4>1 DEF Last
            <4>3. CASE n <= Last(q)
                <5>1. PICK j \in 1 .. Len(ring) : ring[j] = <<q, n>>
                    BY <2>5, <3>2, <4>1, <4>3 DEF RingInv
                <5>2. ~(j < i + d)
                    <6> SUFFICES ASSUME j < i + d PROVE FALSE
                        OBVIOUS
                    <6>1. ring[j][2] < ring[i + d][2] /\ ring[j][2] = n
                        BY <3>2, <4>1, <5>1 DEF RingInv
                    <6>2. ring[i + d][2] \in Int /\ ring[i + d][2] <= n
                        BY <2>5, <3>2, RingItems
                    <6>3. QED BY <6>1, <6>2
                <5>3. PICK m \in 1 .. Len(ring') : m = j - d
                    BY <2>2, <3>2, <5>2, RingItems
                <5>4. m + d = j /\ j # Len(ring) + 1
                    <6>1. Len(ring) \in Nat
                        BY RingItems
                    <6>2. QED BY <5>3, <6>1
                <5>5. ring'[m] = <<q, n>>
                    BY <2>2, <5>1, <5>4
                <5>6. QED BY <3>2, <4>1, <5>5
            <4>4. CASE ~(n <= Last(q))
                <5>1. q = r
                    BY <1>2, <2>5, <4>2, <4>4
                <5>2. n = blk[r]
                    BY <1>2, <2>5, <4>2, <4>4, <5>1, LastType
                <5>3. Len(ring) \in Nat /\ Len(ring') + d = Len(ring) + 1 /\ Len(ring') \in 1 .. Len(ring')
                    <6>1. Len(ring) \in Nat
                        BY RingItems
                    <6>2. Len(ring') = Len(ring) + 1 - d
                        BY <2>2
                    <6>3. QED BY <6>1, <6>2
                <5>4. ring'[Len(ring')] = <<r, blk[r]>>
                    BY <2>2, <5>3
                <5>5. QED BY <3>2, <4>1, <5>1, <5>2, <5>3, <5>4
            <4>5. QED BY <4>3, <4>4
        <3>3. QED BY <2>3, <3>1, <3>2
    <2>6. QED BY <2>4, <2>5 DEF RingInv
<1>5. QED BY <1>3, <1>4

LEMMA RingStep ==
    ASSUME CoreInv, CoreInv', BleedInv, RingInv, [Next]_vars
    PROVE  RingInv'
<1>1. ASSUME NEW r \in Radios, Deliver(r) PROVE RingInv'
    <2>1. ring' = ring /\ (ring # <<>> => \A q \in Radios : Last(q)' = Last(q))
        BY <1>1, DeliverLast
    <2>2. QED BY <2>1, RingKept
<1>2. ASSUME NEW r \in Radios, Push(r) PROVE RingInv'
    BY <1>2, PushRing
<1>3. ASSUME NEW r \in Radios, Fwrite(r) PROVE RingInv'
    <2>1. /\ pc[r] = "fwrite" /\ pc' = [pc EXCEPT ![r] = "load"] /\ pc \in [Radios -> Pcs]
          /\ UNCHANGED <<ring, blk>>
        BY <1>3 DEF Fwrite, At, shared, CoreInv, TypeOK
    <2>2. \A q \in Radios : Last(q)' = Last(q)
        BY <2>1 DEF Last
    <2>3. QED BY <2>1, <2>2, RingKept
<1>4. CASE StartOpen \/ StartHeader \/ StartDrain
    <2>1. UNCHANGED <<ring, pc, blk>>
        BY <1>4 DEF StartOpen, StartHeader, StartDrain, reader
    <2>2. QED BY <2>1, RingKept DEF Last
<1>5. CASE /\ file' = file /\ \A r \in Radios : Last(r)' = Last(r)
           /\ (ring' = ring /\ f' = f) \/ ring' = <<>>
    BY <1>5, RingKept
<1>6. QED BY <1>1, <1>2, <1>3, <1>4, <1>5, OtherSteps

\* While one radio has filled the ring, its blocks follow each other without a gap.
LEMMA RingConsecutive ==
    ASSUME CoreInv, RingInv, BleedInv, NEW r \in Radios,
           \A i \in 1 .. Len(ring) : ring[i][1] = r
    PROVE  \A i \in 1 .. Len(ring) - 1 : ring[i + 1][2] = ring[i][2] + 1
<1> SUFFICES ASSUME NEW i \in 1 .. Len(ring) - 1 PROVE ring[i + 1][2] = ring[i][2] + 1
    OBVIOUS
<1>1. i \in 1 .. Len(ring) /\ i + 1 \in 1 .. Len(ring) /\ i < i + 1
    BY RingItems
<1>2. ring[i][1] = r /\ ring[i + 1][1] = r /\ ring[i][2] \in Int /\ ring[i + 1][2] \in Int
    BY <1>1, RingItems
<1>3. ring[i][2] < ring[i + 1][2] /\ ring[i + 1][2] <= Last(r)
    BY <1>1, <1>2 DEF RingInv, BleedInv
<1>4. Last(r) \in Int
    BY LastType
<1>5. PICK n \in Int : n = ring[i][2] + 1
    BY <1>2
<1>6. ring[i][2] <= n /\ n <= Last(r) /\ n <= ring[i + 1][2] /\ ring[i][2] < n
    BY <1>2, <1>3, <1>4, <1>5
<1>7. PICK j \in 1 .. Len(ring) : ring[j] = <<r, n>>
    <2>1. \A m \in Int : ring[i][2] <= m /\ m <= Last(ring[i][1]) =>
             \E j \in 1 .. Len(ring) : ring[j] = <<ring[i][1], m>>
        BY <1>1 DEF RingInv
    <2>2. Last(ring[i][1]) = Last(r)
        BY <1>2
    <2>3. QED BY <1>2, <1>6, <2>1, <2>2
<1>8. ring[j][1] = r /\ ring[j][2] = n
    BY <1>7
<1>9. ~(j < i) /\ j # i
    <2>1. j < i => ring[j][2] < ring[i][2]
        BY <1>1, <1>2, <1>8 DEF RingInv
    <2>2. QED BY <1>2, <1>6, <1>8, <2>1
<1>10. ~(i + 1 < j)
    <2>1. i + 1 < j => ring[i + 1][2] < ring[j][2]
        BY <1>1, <1>2, <1>8 DEF RingInv
    <2>2. QED BY <1>2, <1>6, <1>8, <2>1
<1>11. j = i + 1
    BY <1>1, <1>9, <1>10
<1>12. QED BY <1>5, <1>8, <1>11

\* The blocks of a file follow each other, but at d, where one may be there twice or
\* some may be missing.
Seamed(s, d) ==
    \A i \in 2 .. Len(s) - 1 :
        IF i = d THEN s[i + 1][2] >= s[i][2] ELSE s[i + 1][2] = s[i][2] + 1

\* What the radio writes next, and whether it will.
Expected(r) == IF pc[r] \in {"push", "check", "write", "fwrite"} THEN blk[r] - 1 ELSE blk[r]
Live(r) == recording \/ pc[r] \in {"write", "fwrite"}

\* The open file, fed by r: either its seam is still to come, at its end, or what r
\* writes next follows its last block.
Growing(k, r) ==
    \E d \in Nat :
        /\ Seamed(file[k], d)
        /\ d = Len(file[k]) \/ (Live(r) => file[k][Len(file[k])][2] = Expected(r))

SeamInv ==
    /\ \A k \in 1 .. Len(file), r \in Radios :
          k \notin raced /\ From(k) \subseteq {r} => \E d \in Nat : Seamed(file[k], d)
    /\ f # None /\ f \notin raced => \A r \in Radios : From(f) \subseteq {r} =>
          /\ uiPc \notin {"header", "drain", "null"} => Growing(f, r)
          /\ uiPc = "flag" => Seamed(file[f], Len(file[f]))

\* A step that writes to no file.
LEMMA SeamKept ==
    ASSUME SeamInv, file' = file, raced \subseteq raced',
           f' # None /\ f' \notin raced' =>
              /\ f' = f
              /\ uiPc' \notin {"header", "drain", "null"} =>
                    /\ uiPc \notin {"header", "drain", "null"}
                    /\ \A r \in Radios : Live(r)' => Live(r) /\ Expected(r)' = Expected(r)
              /\ uiPc' = "flag" => uiPc = "flag"
    PROVE  SeamInv'
<1>1. \A k : From(k)' = From(k)
    BY DEF From
<1>2. \A k \in 1 .. Len(file'), r \in Radios :
         k \notin raced' /\ From(k)' \subseteq {r} => \E d \in Nat : Seamed(file'[k], d)
    BY <1>1 DEF SeamInv
<1>3. ASSUME f' # None, f' \notin raced', NEW r \in Radios, From(f)' \subseteq {r}
      PROVE  /\ uiPc' \notin {"header", "drain", "null"} => Growing(f, r)'
             /\ uiPc' = "flag" => Seamed(file'[f'], Len(file'[f']))
    <2>1. f' = f /\ f # None /\ f \notin raced /\ From(f) \subseteq {r}
        BY <1>3 DEF From
    <2>2. ASSUME uiPc' \notin {"header", "drain", "null"} PROVE Growing(f, r)'
        <3>1. Growing(f, r) /\ (Live(r)' => Live(r) /\ Expected(r)' = Expected(r))
            BY <1>3, <2>1, <2>2 DEF SeamInv
        <3>2. QED BY <2>1, <3>1 DEF Growing
    <2>3. uiPc' = "flag" => Seamed(file'[f'], Len(file'[f']))
        BY <1>3, <2>1 DEF SeamInv
    <2>4. QED BY <2>2, <2>3
<1>4. QED BY <1>2, <1>3 DEF SeamInv

LEMMA FwriteSeam ==
    ASSUME HeaderInv, BleedInv, SeamInv, NEW r \in Radios, Fwrite(r)
    PROVE  SeamInv'
<1>1. /\ pc[r] = "fwrite" /\ pc' = [pc EXCEPT ![r] = "load"] /\ pc \in [Radios -> Pcs]
      /\ UNCHANGED <<f, header, raced, uiPc, recording, blk>> /\ CoreInv
    BY DEF Fwrite, At, shared, ui, HeaderInv, CoreInv, TypeOK
<1>2. CASE f = None \/ header[f] # NoHeader
    <2>1. file' = file
        BY <1>2 DEF Fwrite
    <2>2. f = None \/ uiPc = "null"
        BY <1>1, <1>2 DEF CoreInv, UiInv
    <2>3. QED BY <1>1, <2>1, <2>2, SeamKept
<1>3. CASE ~(f = None \/ header[f] # NoHeader)
    <2>1. file' = [file EXCEPT ![f] = Append(file[f], <<r, blk[r]>>)]
        BY <1>3 DEF Fwrite
    <2>2. /\ Len(file') = Len(file) /\ \A k \in 1 .. Len(file) : k # f => file'[k] = file[k]
        BY <1>1, <2>1 DEF CoreInv, TypeOK
    <2>3. \A k \in 1 .. Len(file) : k # f => From(k)' = From(k)
        BY <2>2 DEF From
    <2>4. CASE f \in raced
        BY <1>1, <2>2, <2>3, <2>4 DEF SeamInv
    <2>5. CASE f \notin raced
        <3>1. uiPc \notin NewFile /\ uiPc # "null"
            BY <1>1, <1>3, <2>5 DEF HeaderInv, CoreInv, UiInv, OpenFileInv, Writing
        <3>2. file[f] # <<>>
            BY <1>3, <2>5, <3>1 DEF HeaderInv, OpenFileInv, NewFile, Counted
        <3>3. /\ f \in 1 .. Len(file)
              /\ Len(file'[f]) = Len(file[f]) + 1 /\ Len(file[f]) \in Nat \ {0}
              /\ \A i \in 1 .. Len(file[f]) : file'[f][i] = file[f][i]
              /\ file'[f][Len(file[f]) + 1] = <<r, blk[r]>>
              /\ From(f)' = From(f) \cup {r}
            BY <1>1, <1>3, <2>1, <3>2, WrittenFrom
        <3> DEFINE s == file[f]
                   L == Len(file[f])
        <3>4. ASSUME From(f)' \subseteq {r}
              PROVE  \E d \in Nat : Seamed(file'[f], d) /\ file'[f][L + 1][2] = Expected(r)'
            <4>1. From(f) \subseteq {r}
                BY <3>3, <3>4
            <4>2. PICK d \in Nat : /\ Seamed(s, d)
                                   /\ d = L \/ s[L][2] = Expected(r)
                BY <1>1, <1>3, <2>5, <3>1, <4>1 DEF SeamInv, NewFile, Growing, Live
            <4>3. Expected(r) = blk[r] - 1 /\ Expected(r)' = blk[r] /\ blk[r] \in Int
                BY <1>1, LastType DEF Expected
            <4>4. ASSUME L >= 2 PROVE s[L][2] \in Int /\ s[L][2] <= blk[r]
                <5>1. s[L] # Riff
                    BY <1>1, <2>5, <3>3, <4>4 DEF HeaderInv, HeaderCountsData
                <5>2. s[L] \in Items
                    BY <1>1, <3>3, <5>1 DEF CoreInv, TypeOK
                <5>3. s[L][1] = r
                    <6>1. L \in 2 .. Len(file[f])
                        BY <3>3, <4>4
                    <6>2. s[L][1] \in From(f)
                        BY <6>1 DEF From
                    <6>3. QED BY <4>1, <6>2
                <5>4. PICK n \in 1 .. MaxBlocks : s[L] = <<r, n>>
                    BY <5>2, <5>3 DEF Items
                <5>5. L \in 2 .. L
                    BY <3>3, <4>4
                <5>6. n \in Blocks(f, r)
                    BY <5>4, <5>5 DEF Blocks
                <5>7. n <= Last(r) /\ Last(r) <= blk[r] /\ Last(r) \in Int
                    BY <1>1, <3>3, <5>6, LastType DEF BleedInv
                <5>8. QED BY <4>3, <5>4, <5>7, RecorderAssumption DEF RecorderAssumption
            <4>5. Seamed(file'[f], d)
                <5> SUFFICES ASSUME NEW i \in 2 .. L
                             PROVE  IF i = d THEN file'[f][i + 1][2] >= file'[f][i][2]
                                    ELSE file'[f][i + 1][2] = file'[f][i][2] + 1
                    BY <3>3 DEF Seamed
                <5>1. CASE i < L
                    <6>1. i \in 2 .. L - 1 /\ i \in 1 .. L /\ i + 1 \in 1 .. L
                        BY <3>3, <5>1
                    <6>2. file'[f][i + 1] = s[i + 1] /\ file'[f][i] = s[i]
                        BY <3>3, <6>1
                    <6>3. QED BY <4>2, <6>1, <6>2 DEF Seamed
                <5>2. CASE i = L
                    <6>1. file'[f][i + 1][2] = blk[r] /\ file'[f][i][2] = s[L][2]
                        BY <3>3, <5>2
                    <6>2. s[L][2] \in Int /\ s[L][2] <= blk[r]
                        BY <4>4, <5>2
                    <6>3. d = L \/ s[L][2] = blk[r] - 1
                        BY <4>2, <4>3
                    <6>4. QED BY <4>3, <5>2, <6>1, <6>2, <6>3
                <5>3. QED BY <3>3, <5>1, <5>2
            <4>6. QED BY <3>3, <4>3, <4>5
        <3>5. ASSUME NEW k \in 1 .. Len(file), NEW q \in Radios, k \notin raced, From(k)' \subseteq {q}
              PROVE  \E d \in Nat : Seamed(file'[k], d)
            <4>1. CASE k = f
                <5>1. From(f)' = From(k)'
                    BY <1>1, <4>1 DEF From
                <5>2. From(f)' \subseteq {r}
                    BY <3>3, <3>5, <5>1
                <5>3. PICK d \in Nat : Seamed(file'[f], d)
                    BY <3>4, <5>2
                <5>4. QED BY <4>1, <5>3
            <4>2. CASE k # f
                BY <2>2, <2>3, <3>5, <4>2 DEF SeamInv
            <4>3. QED BY <4>1, <4>2
        <3>6. ASSUME NEW q \in Radios, From(f)' \subseteq {q} PROVE Growing(f, q)'
            <4>1. q = r
                BY <3>3, <3>6
            <4>2. QED BY <1>1, <3>3, <3>4, <3>6, <4>1 DEF Growing
        <3>7. QED BY <1>1, <2>2, <3>1, <3>5, <3>6 DEF SeamInv, NewFile
    <2>6. QED BY <2>4, <2>5
<1>4. QED BY <1>2, <1>3

LEMMA CallbackSeam ==
    ASSUME HeaderInv, BleedInv, SeamInv, NEW r \in Radios, Callback(r)
    PROVE  SeamInv'
<1> USE DEF At, shared, ui, history
<1>1. CASE Fwrite(r)
    BY <1>1, FwriteSeam
<1>2. CASE ~Fwrite(r)
    <2>1. UNCHANGED <<file, raced, f, uiPc, recording>> /\ pc \in [Radios -> Pcs]
        BY <1>2 DEF Callback, Deliver, Push, Check, Convert, LoadBytes, StoreBytes,
           HeaderInv, CoreInv, TypeOK
    <2>2. ASSUME f # None, NEW q \in Radios, Live(q)'
          PROVE  Live(q) /\ Expected(q)' = Expected(q)
        <3>1. CASE Deliver(r)
            <4>1. PICK p \in {"check", "push"} : pc' = [pc EXCEPT ![r] = p]
                BY <3>1 DEF Deliver
            <4>2. pc[r] = "idle" /\ blk' = [blk EXCEPT ![r] = blk[r] + 1]
                  /\ blk \in [Radios -> 0 .. MaxBlocks] /\ blk[r] \in Int
                BY <3>1, LastType DEF Deliver, HeaderInv, CoreInv, TypeOK
            <4>3. QED BY <2>1, <2>2, <4>1, <4>2 DEF Live, Expected
        <3>2. CASE Push(r)
            <4>1. pc[r] = "push" /\ pc' = [pc EXCEPT ![r] = "check"] /\ UNCHANGED blk
                BY <3>2 DEF Push
            <4>2. QED BY <2>1, <2>2, <4>1 DEF Live, Expected
        <3>3. CASE Check(r)
            BY <2>1, <2>2, <3>3 DEF Check, Live, Expected
        <3>4. CASE Convert(r)
            BY <2>1, <2>2, <3>4 DEF Convert, Live, Expected
        <3>5. CASE LoadBytes(r) \/ StoreBytes(r)
            BY <2>1, <2>2, <3>5 DEF LoadBytes, StoreBytes, Live, Expected
        <3>6. QED BY <1>2, <3>1, <3>2, <3>3, <3>4, <3>5 DEF Callback
    <2>3. QED BY <2>1, <2>2, SeamKept
<1>3. QED BY <1>1, <1>2

\* A file is opened.
LEMMA OpenSeam ==
    ASSUME HeaderInv, SeamInv, StartOpen
    PROVE  SeamInv'
<1>1. f = None
    BY DEF StartOpen, Ui, HeaderInv, CoreInv, UiInv
<1>2. CASE UNCHANGED <<f, file, raced>>
    BY <1>1, <1>2, SeamKept
<1>3. CASE /\ f' = Len(file) + 1 /\ file' = Append(file, <<>>) /\ uiPc' = "header"
           /\ raced' = IF InWrite THEN raced \cup {f'} ELSE raced
    <2>1. /\ Len(file') = Len(file) + 1 /\ Len(file) \in Nat /\ file'[f'] = <<>>
          /\ \A k \in 1 .. Len(file) : file'[k] = file[k]
        <3>1. file \in Seq(Seq(Items \cup {Riff})) /\ <<>> \in Seq(Items \cup {Riff})
            BY DEF HeaderInv, CoreInv, TypeOK
        <3>2. QED BY <1>3, <3>1, AppendProperties
    <2>2. \A k \in 1 .. Len(file) : From(k)' = From(k) /\ (k \notin raced' => k \notin raced)
        BY <1>3, <2>1 DEF From
    <2>3. Seamed(<<>>, 0)
        BY DEF Seamed
    <2>4. ASSUME NEW k \in 1 .. Len(file'), NEW r \in Radios, k \notin raced', From(k)' \subseteq {r}
          PROVE  \E d \in Nat : Seamed(file'[k], d)
        <3>1. CASE k = f'
            BY <2>1, <2>3, <3>1
        <3>2. CASE k # f'
            <4>1. k \in 1 .. Len(file)
                BY <1>3, <2>1, <3>2
            <4>2. QED BY <2>1, <2>2, <2>4, <4>1 DEF SeamInv
        <3>3. QED BY <3>1, <3>2
    <2>5. QED BY <1>3, <2>4 DEF SeamInv
<1>4. QED BY <1>2, <1>3 DEF StartOpen, Goto

\* start() writes the header of the open file, then the ring, whose blocks follow each
\* other.
LEMMA HeaderSeam ==
    ASSUME HeaderInv, SeamInv, StartHeader
    PROVE  SeamInv'
<1>1. /\ f # None /\ UNCHANGED <<f, raced>> /\ uiPc = "header" /\ uiPc' = "drain"
      /\ file' = [file EXCEPT ![f] = Append(file[f], Riff)]
    BY DEF StartHeader, Ui, Goto, reader, HeaderInv, CoreInv, UiInv, NewFile
<1>2. /\ f \in 1 .. Len(file) /\ Len(file') = Len(file)
      /\ file'[f] = Append(file[f], Riff)
      /\ \A k \in 1 .. Len(file) : k # f => file'[k] = file[k]
    BY <1>1 DEF HeaderInv, CoreInv, TypeOK, None
<1>3. ASSUME NEW k \in 1 .. Len(file), NEW r \in Radios, k \notin raced, From(k)' \subseteq {r}
      PROVE  \E d \in Nat : Seamed(file'[k], d)
    <2>1. CASE k = f
        <3>1. file'[k] = <<Riff>> /\ Len(file'[k]) = 1
            BY <1>1, <1>2, <1>3, <2>1 DEF HeaderInv, OpenFileInv
        <3>2. Seamed(file'[k], 0)
            BY <3>1 DEF Seamed
        <3>3. QED BY <3>2
    <2>2. CASE k # f
        <3>1. file'[k] = file[k] /\ From(k)' = From(k)
            BY <1>2, <2>2 DEF From
        <3>2. QED BY <1>3, <3>1 DEF SeamInv
    <2>3. QED BY <2>1, <2>2
<1>4. QED BY <1>1, <1>2, <1>3 DEF SeamInv

LEMMA DrainSeam ==
    ASSUME HeaderInv, BleedInv, RingInv, SeamInv, StartDrain
    PROVE  SeamInv'
<1>1. /\ f # None /\ UNCHANGED <<f, raced>> /\ uiPc = "drain" /\ uiPc' = "flag"
      /\ file' = [file EXCEPT ![f] = file[f] \o ring]
    BY DEF StartDrain, Ui, Goto, reader, HeaderInv, CoreInv, UiInv, NewFile
<1>2. ring \in Seq(Items \cup {Riff}) /\ TypeOK /\ CoreInv
    BY DEF HeaderInv, CoreInv, TypeOK
<1>3. /\ f \in 1 .. Len(file) /\ Len(file') = Len(file) /\ Len(ring) \in Nat
      /\ Len(file'[f]) = Len(file[f]) + Len(ring)
      /\ \A k \in 1 .. Len(file) : k # f => file'[k] = file[k]
      /\ \A i \in 1 .. Len(ring) : file'[f][Len(file[f]) + i] = ring[i]
    BY <1>1, <1>2, FileGrows
<1>4. ASSUME f \notin raced, NEW r \in Radios, From(f)' \subseteq {r}
      PROVE  Seamed(file'[f], Len(file'[f])) /\ Len(file'[f]) \in Nat
    <2>1. Len(file[f]) = 1
        <3>1. file[f] = <<Riff>>
            BY <1>1, <1>4 DEF HeaderInv, OpenFileInv
        <3>2. Len(<<Riff>>) = 1
            OBVIOUS
        <3>3. QED BY <3>1, <3>2, Zenon
    <2>2. Len(file'[f]) = Len(ring) + 1 /\ \A i \in 1 .. Len(ring) : file'[f][i + 1] = ring[i]
        BY <1>3, <2>1
    <2>3. \A i \in 1 .. Len(ring) : ring[i][1] = r
        <3> SUFFICES ASSUME NEW i \in 1 .. Len(ring) PROVE ring[i][1] = r
            OBVIOUS
        <3>1. i + 1 \in 2 .. Len(file'[f]) /\ file'[f][i + 1] = ring[i]
            BY <1>3, <2>2
        <3>2. ring[i][1] \in From(f)'
            BY <1>1, <3>1 DEF From
        <3>3. QED BY <1>4, <3>2
    <2>4. \A i \in 1 .. Len(ring) - 1 : ring[i + 1][2] = ring[i][2] + 1
        BY <1>2, <2>3, RingConsecutive
    <2>5. ASSUME NEW i \in 2 .. Len(file'[f]) - 1
          PROVE  i # Len(file'[f]) /\ file'[f][i + 1][2] = file'[f][i][2] + 1
        <3>1. PICK j \in 1 .. Len(ring) - 1 : i = j + 1
            BY <1>3, <2>2
        <3>2. file'[f][i] = ring[j] /\ file'[f][i + 1] = ring[j + 1]
            BY <1>3, <2>2, <3>1
        <3>3. QED BY <1>3, <2>2, <2>4, <3>1, <3>2
    <2>6. QED BY <1>3, <2>2, <2>5 DEF Seamed
<1>5. ASSUME NEW k \in 1 .. Len(file), NEW r \in Radios, k \notin raced, From(k)' \subseteq {r}
      PROVE  \E d \in Nat : Seamed(file'[k], d)
    <2>1. CASE k = f
        <3>1. From(f)' = From(k)'
            BY <1>1, <2>1 DEF From
        <3>2. QED BY <1>4, <1>5, <2>1, <3>1
    <2>2. CASE k # f
        <3>1. file'[k] = file[k] /\ From(k)' = From(k)
            BY <1>3, <2>2 DEF From
        <3>2. QED BY <1>5, <3>1 DEF SeamInv
    <2>3. QED BY <2>1, <2>2
<1>6. QED BY <1>1, <1>3, <1>4, <1>5 DEF SeamInv, Growing

LEMMA UiSeam ==
    ASSUME HeaderInv, BleedInv, RingInv, SeamInv, UiStep
    PROVE  SeamInv'
<1> USE DEF Ui, Goto, Return, shared, reader, history
<1>1. CASE SourceStop \/ SourceStart \/ StartConfigure \/ Restart
    <2>1. /\ UNCHANGED <<file, raced, f, recording, pc, blk>>
          /\ uiPc \in {"srcStop", "srcStart", "configure", "restart"} /\ uiPc' # "flag"
        <3>1. CASE SourceStop
            BY <3>1 DEF SourceStop, HeaderInv, CoreInv, UiInv
        <3>2. CASE SourceStart \/ StartConfigure \/ Restart
            BY <3>2 DEF SourceStart, StartConfigure, Configure, Restart
        <3>3. QED BY <1>1, <3>1, <3>2
    <2>2. QED BY <2>1, SeamKept DEF Live, Expected
<1>2. CASE StopFlag \/ StopClose \/ StopNull
    <2>1. /\ UNCHANGED <<file, pc, blk>> /\ raced \subseteq raced'
          /\ recording' = FALSE \/ recording' = recording
          /\ f' = f \/ f' = None
          /\ uiPc \in {"stop", "close"} \/ f' = None
          /\ uiPc' # "flag"
        BY <1>2 DEF StopFlag, StopClose, StopNull
    <2>2. \A r \in Radios : (Live(r)' => Live(r)) /\ Expected(r)' = Expected(r)
        BY <2>1 DEF Live, Expected
    <2>3. QED BY <2>1, <2>2, SeamKept
<1>3. CASE StartOpen
    BY <1>3, OpenSeam
<1>4. CASE StartHeader
    BY <1>4, HeaderSeam
<1>5. CASE StartDrain
    BY <1>5, DrainSeam
<1>6. CASE StartFlag
    <2>1. UNCHANGED <<file, raced, f>> /\ uiPc = "flag" /\ uiPc' = "idle"
        BY <1>6 DEF StartFlag
    <2>2. f # None => Len(file[f]) \in Nat
        BY DEF HeaderInv, CoreInv, TypeOK, None
    <2>3. ASSUME f # None, f \notin raced, NEW r \in Radios, From(f) \subseteq {r}
          PROVE  Growing(f, r)'
        BY <2>1, <2>2, <2>3 DEF SeamInv, Growing
    <2>4. \A k : From(k)' = From(k)
        BY <2>1 DEF From
    <2>5. QED BY <2>1, <2>3, <2>4 DEF SeamInv
<1>7. QED BY <1>1, <1>2, <1>3, <1>4, <1>5, <1>6 DEF UiStep

LEMMA SeamStep ==
    ASSUME HeaderInv, BleedInv, RingInv, SeamInv, [Next]_vars
    PROVE  SeamInv'
<1>1. CASE UNCHANGED vars
    BY <1>1, SeamKept DEF vars, shared, reader, ui, history, Live, Expected
<1>2. CASE User
    <2>1. UNCHANGED <<file, raced, f, recording, pc, blk>> /\ uiPc = "idle" /\ uiPc' # "flag"
        BY <1>2 DEF User, PressRecord, PressStopRecord, PressStart, PressStop, StreamFails,
           Begin, Resize, Configure, Ui, shared, reader, ui, history
    <2>2. QED BY <2>1, SeamKept DEF Live, Expected
<1>3. QED BY <1>1, <1>2, CallbackSeam, UiSeam DEF Next

\* The blocks of a clean recording follow each other, but for one place: the pre-buffer
\* runs without a gap into its last block, what the callbacks write without a gap from
\* the first one, and between the two a block is there twice or some are missing.
THEOREM OneSeamAtMost == Spec => []OneSeam
<1> DEFINE I == HeaderInv /\ BleedInv /\ RingInv /\ SeamInv
<1>1. Init => I
    <2>1. Init => BleedInv /\ RingInv /\ SeamInv
        BY DEF Init, BleedInv, RingInv, SeamInv
    <2>2. QED BY <2>1, HeaderInit
<1>2. I /\ [Next]_vars => I'
    <2> SUFFICES ASSUME I, [Next]_vars PROVE I'
        OBVIOUS
    <2>1. HeaderInv' /\ CoreInv /\ CoreInv'
        BY HeaderStep DEF HeaderInv
    <2>2. QED BY <2>1, BleedStep, RingStep, SeamStep
<1>3. I => OneSeam
    <2> SUFFICES ASSUME I, NEW k \in 1 .. Len(file), Clean(k)
                 PROVE  /\ Cardinality(Seams(k)) <= 1
                        /\ \A i \in Seams(k) : file[k][i + 1][2] >= file[k][i][2]
        BY DEF OneSeam
    <2>1. \E r \in Radios : From(k) \subseteq {r}
        BY OneFeeds DEF HeaderInv, HeaderCountsData, Clean
    <2>2. PICK d \in Nat : Seamed(file[k], d)
        BY <2>1 DEF SeamInv, Clean
    <2>3. Seams(k) \subseteq {d} /\ \A i \in Seams(k) : file[k][i + 1][2] >= file[k][i][2]
        BY <2>2 DEF Seams, Seamed
    <2>4. Seams(k) = {} \/ Seams(k) = {d}
        BY <2>3
    <2>5. Cardinality(Seams(k)) <= 1
        <3>1. CASE Seams(k) = {}
            BY <3>1, FS_EmptySet
        <3>2. CASE Seams(k) = {d}
            <4>1. Cardinality({d}) = 1
                BY FS_Singleton
            <4>2. QED BY <3>2, <4>1
        <3>3. QED BY <2>4, <3>1, <3>2
    <2>6. QED BY <2>3, <2>5
<1> HIDE DEF I
<1>4. QED BY <1>1, <1>2, <1>3, PTL DEF Spec
=============================================================================
