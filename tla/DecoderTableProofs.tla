------------------------- MODULE DecoderTableProofs -------------------------
(***************************************************************************)
(* Theorems about DecoderTable, for every number of workers, every set of  *)
(* frequencies, bauds, aircraft and countries, and every bound on the ids. *)
(***************************************************************************)
EXTENDS DecoderTable, FiniteSetTheorems, TLAPS

\* What a new decoder is: a record of the declared type.
LEMMA NewDecoderType ==
    ASSUME NEW b \in 1 .. MaxId, NEW freq \in Freqs, NEW baud \in Bauds,
           NEW aesId \in Aes \cup {NoAes}
    PROVE  NewDecoder(b, freq, baud, aesId) \in DecRec
BY DEF NewDecoder, DecRec

\* The manager without decoders, at the start and after a stop or a retune.
LEMMA EmptyType ==
    /\ DOMAIN NoBands = {} /\ NoBands \in [{} -> BandRec]
    /\ DOMAIN NoDecoders = {} /\ NoDecoders \in [{} -> DecRec]
    /\ Zero \in [Workers -> Int]
<1>1. DOMAIN NoBands = {} /\ NoBands \in [{} -> BandRec]
    <2>1. \A b \in {} : [worker |-> 1, center |-> 0] \in BandRec
        OBVIOUS
    <2>2. QED BY <2>1 DEF NoBands
<1>2. DOMAIN NoDecoders = {} /\ NoDecoders \in [{} -> DecRec]
    <2>1. \A i \in {} : 0 \in DecRec
        OBVIOUS
    <2>2. QED BY <2>1 DEF NoDecoders
<1>3. Zero \in [Workers -> Int]
    BY DEF Zero
<1>4. QED BY <1>1, <1>2, <1>3

\* Adding to one worker's counter leaves a counter for each worker.
LEMMA CounterType ==
    ASSUME NEW f \in [Workers -> Int], NEW w, NEW n \in Int
    PROVE  /\ [f EXCEPT ![w] = f[w] + n] \in [Workers -> Int]
           /\ [f EXCEPT ![w] = f[w] - n] \in [Workers -> Int]
<1>1. CASE w \in Workers
    BY <1>1
<1>2. CASE w \notin Workers
    BY <1>2
<1>3. QED BY <1>1, <1>2

\* What Insert leaves behind.
InsertFacts ==
    /\ dec' \in [DOMAIN dec' -> DecRec]
    /\ DOMAIN dec' = Live \cup {nextId}
    /\ count' \in [Workers -> Int] /\ weight' \in [Workers -> Int]
    /\ nextId' = nextId + 1 /\ nextId' \in 1 .. MaxId + 1
    /\ voiceMonitorId' \in 1 .. MaxId \cup {NoId}

\* Every Insert keeps the types, given the sub-band's id and a worker.
LEMMA InsertType ==
    ASSUME TypeOK, nextId <= MaxId,
           NEW w, NEW b \in 1 .. MaxId, NEW freq \in Freqs, NEW baud \in Bauds,
           NEW aesId \in Aes \cup {NoAes}, Insert(w, b, freq, baud, aesId)
    PROVE  InsertFacts
<1>1. NewDecoder(b, freq, baud, aesId) \in DecRec
    BY NewDecoderType
<1>2. dec' \in [DOMAIN dec' -> DecRec] /\ DOMAIN dec' = Live \cup {nextId}
    BY <1>1 DEF Insert, TypeOK, Live
<1>3. decoderWeight(baud) \in Int
    BY DEF decoderWeight
<1>4. count' \in [Workers -> Int] /\ weight' \in [Workers -> Int]
    <2>1. count' = [count EXCEPT ![w] = count[w] + 1]
        BY DEF Insert
    <2>2. weight' = [weight EXCEPT ![w] = weight[w] + decoderWeight(baud)]
        BY DEF Insert
    <2>3. count \in [Workers -> Int] /\ weight \in [Workers -> Int] /\ 1 \in Int
        BY DEF TypeOK
    <2>4. QED BY <1>3, <2>1, <2>2, <2>3, CounterType, Zenon
<1>5. nextId' = nextId + 1 /\ nextId' \in 1 .. MaxId + 1
    BY TableAssumption DEF Insert, TypeOK
<1>6. voiceMonitorId' \in 1 .. MaxId \cup {NoId}
    BY TableAssumption DEF Insert, TypeOK, NoId
<1>7. QED BY <1>2, <1>4, <1>5, <1>6 DEF InsertFacts

LEMMA TypeInit == Init => TypeOK
<1> SUFFICES ASSUME Init PROVE TypeOK
    OBVIOUS
<1>1. /\ band \in [DOMAIN band -> BandRec] /\ DOMAIN band = {}
      /\ dec \in [Live -> DecRec] /\ Live = {}
      /\ count \in [Workers -> Int] /\ weight \in [Workers -> Int]
    BY EmptyType, Zenon DEF Init, Live
<1>2. nextId \in 1 .. MaxId + 1
    BY TableAssumption DEF Init
<1>3. QED BY <1>1, <1>2 DEF Init, TypeOK, NoId

LEMMA TypeStep == TypeOK /\ [Next]_vars => TypeOK'
<1> SUFFICES ASSUME TypeOK, [Next]_vars PROVE TypeOK'
    OBVIOUS
<1> USE DEF Live
<1>1. CASE Start
    BY <1>1, EmptyType DEF Start, TypeOK, NoId
<1>2. CASE Stop
    BY <1>2, EmptyType DEF Stop, TypeOK, NoId
<1>3. CASE AddDecoder
    <2>1. PICK freq \in Freqs, baud \in Bauds, aesId \in Aes \cup {NoAes} :
             JoinBand(freq, baud, aesId) \/ CreateBand(freq, baud, aesId)
        BY <1>3 DEF AddDecoder
    <2>2. nextId <= MaxId
        BY <1>3 DEF AddDecoder
    <2>3. CASE JoinBand(freq, baud, aesId)
        <3>1. PICK b \in BestBands(freq) : Insert(band[b].worker, b, freq, baud, aesId)
                                           /\ UNCHANGED band
            BY <2>3 DEF JoinBand
        <3>2. b \in 1 .. MaxId
            BY TableAssumption, <2>2 DEF BestBands, Covering, TypeOK
        <3>3. UNCHANGED <<running, recordOn, known, blacklist>>
            BY <3>1 DEF Insert
        <3>4. InsertFacts
            BY <2>2, <3>1, <3>2, InsertType DEF InsertFacts
        <3>5. QED BY <3>1, <3>3, <3>4 DEF TypeOK, InsertFacts
    <2>4. CASE CreateBand(freq, baud, aesId)
        <3>1. PICK w \in BestWorkers : Insert(w, nextId, freq, baud, aesId)
                                       /\ band' = [b \in DOMAIN band \cup {nextId} |->
                   IF b = nextId THEN [worker |-> w, center |-> freq] ELSE band[b]]
            BY <2>4 DEF CreateBand
        <3>2. nextId \in 1 .. MaxId
            BY <2>2, TableAssumption DEF TypeOK
        <3>3. band' \in [DOMAIN band' -> BandRec] /\ DOMAIN band' = DOMAIN band \cup {nextId}
            BY <3>1 DEF TypeOK, BandRec, BestWorkers
        <3>4. UNCHANGED <<running, recordOn, known, blacklist>>
            BY <3>1 DEF Insert
        <3>5. InsertFacts
            BY <2>2, <3>1, <3>2, InsertType DEF InsertFacts
        <3>6. QED BY <3>3, <3>4, <3>5 DEF TypeOK, InsertFacts
    <2>5. QED BY <2>1, <2>3, <2>4
<1>4. CASE RemoveAll
    BY <1>4, EmptyType DEF RemoveAll, TypeOK, NoId
<1>5. ASSUME NEW i \in Live, RemoveDecoder(i) PROVE TypeOK'
    <2>1. decoderWeight(dec[i].baud) \in Int
        BY DEF decoderWeight
    <2>2. count' \in [Workers -> Int] /\ weight' \in [Workers -> Int]
        <3> DEFINE w == band[dec[i].band].worker
        <3>1. count' = [count EXCEPT ![w] = count[w] - 1]
            BY <1>5 DEF RemoveDecoder, BandsWithout, MonitorWithout, Unloaded
        <3>2. weight' = [weight EXCEPT ![w] = weight[w] - decoderWeight(dec[i].baud)]
            BY <1>5 DEF RemoveDecoder, BandsWithout, MonitorWithout, Unloaded
        <3>3. count \in [Workers -> Int] /\ weight \in [Workers -> Int] /\ 1 \in Int
            BY DEF TypeOK
        <3> HIDE DEF w
        <3>4. QED BY <2>1, <3>1, <3>2, <3>3, CounterType, Zenon
    <2>3. dec' \in [DOMAIN dec' -> DecRec] /\ DOMAIN dec' \subseteq DOMAIN dec
        BY <1>5 DEF RemoveDecoder, BandsWithout, MonitorWithout, Unloaded, TypeOK
    <2>4. band' \in [DOMAIN band' -> BandRec] /\ DOMAIN band' \subseteq DOMAIN band
        BY <1>5 DEF RemoveDecoder, BandsWithout, MonitorWithout, Unloaded, TypeOK
    <2>5. QED
        BY <1>5, <2>2, <2>3, <2>4
        DEF RemoveDecoder, BandsWithout, MonitorWithout, Unloaded, TypeOK
<1>6. ASSUME NEW i \in Live, SetVoiceMonitor(i) PROVE TypeOK'
    <2>1. dec' \in [DOMAIN dec' -> DecRec] /\ DOMAIN dec' = DOMAIN dec
        <3>1. dec' = [j \in DOMAIN dec |-> [dec[j] EXCEPT !.monitored = IsVoice(j) /\ j = i]]
            BY <1>6 DEF SetVoiceMonitor, Monitor
        <3>2. ASSUME NEW j \in DOMAIN dec
              PROVE  [dec[j] EXCEPT !.monitored = IsVoice(j) /\ j = i] \in DecRec
            <4>1. dec[j] \in DecRec
                BY DEF TypeOK
            <4>2. (IsVoice(j) /\ j = i) \in BOOLEAN
                OBVIOUS
            <4>3. ASSUME NEW r \in DecRec, NEW m \in BOOLEAN
                  PROVE  [r EXCEPT !.monitored = m] \in DecRec
                BY DEF DecRec
            <4>4. QED BY <4>1, <4>2, <4>3, Zenon
        <3>3. QED BY <3>1, <3>2, Zenon
    <2>2. i \in 1 .. MaxId
        BY TableAssumption DEF TypeOK
    <2>3. QED BY <1>6, <2>1, <2>2 DEF SetVoiceMonitor, TypeOK
<1>7. ASSUME NEW i \in Live, NEW freq \in Freqs, SetDecoderFreq(i, freq) PROVE TypeOK'
    <2>1. dec' \in [DOMAIN dec' -> DecRec] /\ DOMAIN dec' = DOMAIN dec
        BY <1>7 DEF SetDecoderFreq, TypeOK, DecRec
    <2>2. QED BY <1>7, <2>1 DEF SetDecoderFreq, TypeOK
<1>8. CASE AutoMonitor
    <2>1. CASE PickMonitor
        <3>1. PICK i \in FirstEligible : /\ voiceMonitorId' = i
                                         /\ dec' = [dec EXCEPT ![i].monitored = TRUE]
            BY <2>1 DEF PickMonitor
        <3>2. i \in 1 .. MaxId
            BY TableAssumption DEF TypeOK, FirstEligible
        <3>3. dec' \in [DOMAIN dec' -> DecRec] /\ DOMAIN dec' = DOMAIN dec
            BY <3>1, ZenonT(30) DEF TypeOK, DecRec
        <3>4. QED BY <1>8, <3>1, <3>2, <3>3 DEF AutoMonitor, TypeOK
    <2>2. CASE GiveUpMonitor
        <3>1. dec' \in [DOMAIN dec' -> DecRec] /\ DOMAIN dec' = DOMAIN dec
            <4>1. ASSUME NEW j \in DOMAIN dec
                  PROVE  dec[j] \in DecRec /\ [dec[j] EXCEPT !.record = FALSE] \in DecRec
                BY DEF TypeOK, DecRec
            <4>2. QED BY <2>2, <4>1, Zenon DEF GiveUpMonitor
        <3>2. QED BY <1>8, <2>2, <3>1 DEF AutoMonitor, GiveUpMonitor, TypeOK
    <2>3. CASE UNCHANGED <<dec, voiceMonitorId>>
        BY <1>8, <2>3 DEF AutoMonitor, TypeOK
    <2>4. QED BY <1>8, <2>1, <2>2, <2>3 DEF AutoMonitor
<1>9. ASSUME NEW on \in BOOLEAN, SetRecording(on) PROVE TypeOK'
    <2>1. dec' \in [DOMAIN dec' -> DecRec] /\ DOMAIN dec' = DOMAIN dec
        BY <1>9 DEF SetRecording, RecordAll, TypeOK, DecRec
    <2>2. QED BY <1>9, <2>1 DEF SetRecording, TypeOK
<1>10. CASE SetRecordFormat
    <2>1. dec' \in [DOMAIN dec' -> DecRec] /\ DOMAIN dec' = DOMAIN dec
        BY <1>10 DEF SetRecordFormat, RecordAll, TypeOK, DecRec
    <2>2. QED BY <1>10, <2>1 DEF SetRecordFormat, TypeOK
<1>11. CASE EditBlacklist
    BY <1>11 DEF EditBlacklist, TypeOK
<1>12. ASSUME NEW i \in Live, NEW a \in Aes, LearnAes(i, a) PROVE TypeOK'
    <2>1. dec' \in [DOMAIN dec' -> DecRec] /\ DOMAIN dec' = DOMAIN dec
        BY <1>12 DEF LearnAes, TypeOK, DecRec
    <2>2. QED BY <1>12, <2>1 DEF LearnAes, TypeOK
<1>13. ASSUME NEW a \in Aes, AircraftHeard(a) PROVE TypeOK'
    BY <1>13 DEF AircraftHeard, TypeOK
<1>14. CASE UNCHANGED vars
    BY <1>14 DEF vars, TypeOK
<1>15. QED
    BY <1>1, <1>2, <1>3, <1>4, <1>5, <1>6, <1>7, <1>8, <1>9, <1>10, <1>11, <1>12,
       <1>13, <1>14 DEF Next

\* The types and ranges of the table's variables: ids are handed out below nextId_
\* and never above MaxId, counters are integers on existing workers.
THEOREM TypeCorrect == Spec => []TypeOK
BY TypeInit, TypeStep, PTL DEF Spec

-----------------------------------------------------------------------------
(* Who is on the speakers                                                  *)

\* A stopped manager has no decoders.
StoppedIsEmpty == running \/ Live = {}

\* What makes the routing inductive: autoMonitor raises a decoder's flag without
\* lowering any other, which is safe because a voiceMonitorId_ that is not alive is -1;
\* and start() keeps voiceMonitorId_, which is safe because there was nobody left.
MonitorInv ==
    /\ TypeOK /\ StoppedIsEmpty
    /\ OneVoiceOnSpeakers /\ MonitorNamesLiveVoice

\* A step that leaves the routing, the decoders' kinds and their flags alone.
LEMMA RoutingUntouched ==
    ASSUME MonitorInv, TypeOK', voiceMonitorId' = voiceMonitorId, running' = running,
           DOMAIN dec' = DOMAIN dec,
           \A i \in DOMAIN dec : /\ dec'[i].monitored = dec[i].monitored
                                 /\ dec'[i].baud = dec[i].baud
    PROVE  MonitorInv'
BY DEF MonitorInv, StoppedIsEmpty, OneVoiceOnSpeakers, MonitorNamesLiveVoice, IsVoice, Live

\* The step of addDecoder that creates the decoder routes it when nobody else is.
LEMMA InsertRouting ==
    ASSUME MonitorInv, TypeOK', running,
           NEW w, NEW b, NEW freq, NEW baud, NEW aesId, Insert(w, b, freq, baud, aesId)
    PROVE  MonitorInv'
<1>1. nextId \notin Live /\ nextId # NoId /\ NoId \notin Live
    BY DEF MonitorInv, TypeOK, NoId
<1>2. /\ DOMAIN dec' = Live \cup {nextId}
      /\ \A i \in Live : dec'[i] = dec[i]
      /\ dec'[nextId] = NewDecoder(b, freq, baud, aesId)
    BY <1>1 DEF Insert
<1>3. /\ dec'[nextId].baud = baud
      /\ dec'[nextId].monitored = (baud = VoiceBaud /\ voiceMonitorId = NoId)
    <2> DEFINE m == baud = VoiceBaud /\ voiceMonitorId = NoId
               r == baud = VoiceBaud /\ recordOn
               a == IF baud = VoiceBaud THEN aesId ELSE NoAes
    <2>1. dec'[nextId] = [band |-> b, freq |-> freq, baud |-> baud, monitored |-> m,
                          record |-> r, aes |-> a]
        BY <1>2, Zenon DEF NewDecoder
    <2>2. dec'[nextId].baud = baud /\ dec'[nextId].monitored = m
        <3> HIDE DEF m, r, a
        <3>1. QED BY <2>1
    <2>3. QED BY <2>2
<1>4. voiceMonitorId' = IF baud = VoiceBaud /\ voiceMonitorId = NoId
                         THEN nextId ELSE voiceMonitorId
    BY DEF Insert
<1>5. StoppedIsEmpty'
    BY DEF StoppedIsEmpty, Insert
<1>6. MonitorNamesLiveVoice'
    BY <1>1, <1>2, <1>3, <1>4 DEF MonitorInv, MonitorNamesLiveVoice, IsVoice, Live
<1>7. OneVoiceOnSpeakers'
    <2> SUFFICES ASSUME NEW i \in Live'
                 PROVE  (dec'[i].monitored <=> i = voiceMonitorId' /\ IsVoice(i)')
        BY DEF OneVoiceOnSpeakers, IsVoice
    <2>1. CASE i = nextId
        BY <2>1, <1>1, <1>3, <1>4 DEF MonitorInv, MonitorNamesLiveVoice, IsVoice, Live
    <2>2. CASE i \in Live
        <3>1. dec'[i] = dec[i] /\ i # nextId /\ i # NoId
            BY <2>2, <1>1, <1>2
        <3>2. dec[i].monitored <=> i = voiceMonitorId /\ IsVoice(i)
            BY <2>2 DEF MonitorInv, OneVoiceOnSpeakers
        <3>3. i = voiceMonitorId' <=> i = voiceMonitorId
            BY <1>4, <3>1
        <3>4. QED BY <3>1, <3>2, <3>3 DEF IsVoice
    <2>3. QED BY <2>1, <2>2, <1>2 DEF Live
<1>8. QED BY <1>5, <1>6, <1>7 DEF MonitorInv

LEMMA MonitorStep ==
    ASSUME MonitorInv, TypeOK', [Next]_vars
    PROVE  MonitorInv'
<1> USE DEF Live
<1>1. CASE Start
    BY <1>1, EmptyType DEF Start, MonitorInv, StoppedIsEmpty, OneVoiceOnSpeakers,
                           MonitorNamesLiveVoice
<1>2. CASE Stop
    BY <1>2, EmptyType DEF Stop, MonitorInv, StoppedIsEmpty, OneVoiceOnSpeakers,
                           MonitorNamesLiveVoice
<1>3. CASE AddDecoder
    <2>1. running
        BY <1>3 DEF AddDecoder
    <2>2. \E w, b, freq, baud, aesId : Insert(w, b, freq, baud, aesId)
        BY <1>3 DEF AddDecoder, JoinBand, CreateBand
    <2>3. QED BY <2>1, <2>2, InsertRouting
<1>4. CASE RemoveAll
    BY <1>4, EmptyType DEF RemoveAll, MonitorInv, StoppedIsEmpty, OneVoiceOnSpeakers,
                           MonitorNamesLiveVoice
<1>5. ASSUME NEW i \in Live, RemoveDecoder(i) PROVE MonitorInv'
    <2>1. /\ dec' = [j \in Live \ {i} |-> dec[j]]
          /\ voiceMonitorId' = IF i = voiceMonitorId THEN NoId ELSE voiceMonitorId
          /\ running' = running
        BY <1>5 DEF RemoveDecoder, BandsWithout, MonitorWithout, Unloaded
    <2>2. OneVoiceOnSpeakers'
        BY <2>1 DEF MonitorInv, OneVoiceOnSpeakers, TypeOK, IsVoice, NoId
    <2>3. MonitorNamesLiveVoice' /\ StoppedIsEmpty'
        BY <2>1 DEF MonitorInv, MonitorNamesLiveVoice, StoppedIsEmpty, IsVoice
    <2>4. QED BY <2>2, <2>3 DEF MonitorInv
<1>6. ASSUME NEW i \in Live, SetVoiceMonitor(i) PROVE MonitorInv'
    <2>1. /\ dec' = [j \in Live |-> [dec[j] EXCEPT !.monitored = IsVoice(j) /\ j = i]]
          /\ voiceMonitorId' = i /\ running' = running /\ IsVoice(i)
        BY <1>6 DEF SetVoiceMonitor, Monitor
    <2>2. DOMAIN dec' = Live /\ \A j \in Live : dec'[j].baud = dec[j].baud
        BY <2>1 DEF MonitorInv, TypeOK, DecRec
    <2>3. \A j \in Live : dec'[j].monitored <=> IsVoice(j) /\ j = i
        <3>1. ASSUME NEW r \in DecRec, NEW m \in BOOLEAN
              PROVE  [r EXCEPT !.monitored = m].monitored = m
            BY DEF DecRec
        <3>2. ASSUME NEW j \in Live
              PROVE  dec'[j].monitored = (IsVoice(j) /\ j = i)
            <4>1. dec[j] \in DecRec
                BY DEF MonitorInv, TypeOK
            <4>2. (IsVoice(j) /\ j = i) \in BOOLEAN
                OBVIOUS
            <4>3. dec'[j] = [dec[j] EXCEPT !.monitored = IsVoice(j) /\ j = i]
                BY <2>1, Zenon
            <4>4. QED BY <3>1, <4>1, <4>2, <4>3, Zenon
        <3>3. QED BY <3>2
    <2>4. QED BY <2>1, <2>2, <2>3 DEF MonitorInv, StoppedIsEmpty, OneVoiceOnSpeakers,
                                      MonitorNamesLiveVoice, IsVoice
<1>7. ASSUME NEW i \in Live, NEW freq \in Freqs, SetDecoderFreq(i, freq) PROVE MonitorInv'
    <2>1. \A j \in Live : /\ dec'[j].monitored = dec[j].monitored
                          /\ dec'[j].baud = dec[j].baud
        BY <1>7 DEF SetDecoderFreq, MonitorInv, TypeOK, DecRec
    <2>2. QED BY <1>7, <2>1, RoutingUntouched DEF SetDecoderFreq
<1>8. CASE AutoMonitor
    <2>1. CASE PickMonitor
        <3>1. PICK i \in FirstEligible : /\ voiceMonitorId' = i
                                         /\ dec' = [dec EXCEPT ![i].monitored = TRUE]
            BY <2>1 DEF PickMonitor
        <3>2. voiceMonitorId = NoId
            BY <2>1 DEF PickMonitor, MonitorIsLive, MonitorInv, MonitorNamesLiveVoice
        <3>3. i \in Live /\ IsVoice(i)
            BY DEF FirstEligible, Eligible
        <3>4. /\ DOMAIN dec' = Live /\ dec'[i].monitored = TRUE
              /\ \A j \in Live : dec'[j].baud = dec[j].baud
              /\ \A j \in Live \ {i} : dec'[j] = dec[j]
            BY <3>1, <3>3 DEF MonitorInv, TypeOK, DecRec
        <3>5. \A j \in Live : ~dec[j].monitored
            BY <3>2 DEF MonitorInv, OneVoiceOnSpeakers, TypeOK, NoId
        <3>6. running' = running
            BY <1>8 DEF AutoMonitor
        <3>7. QED BY <3>1, <3>3, <3>4, <3>5, <3>6 DEF MonitorInv, StoppedIsEmpty,
                     OneVoiceOnSpeakers, MonitorNamesLiveVoice, IsVoice
    <2>2. CASE GiveUpMonitor
        <3>1. voiceMonitorId' = voiceMonitorId
            BY <2>2 DEF GiveUpMonitor, MonitorIsLive, MonitorInv, MonitorNamesLiveVoice
        <3>2. \A j \in Live : /\ dec'[j].monitored = dec[j].monitored
                              /\ dec'[j].baud = dec[j].baud
            BY <2>2 DEF GiveUpMonitor, MonitorInv, TypeOK, DecRec
        <3>3. QED BY <1>8, <2>2, <3>1, <3>2, RoutingUntouched DEF AutoMonitor, GiveUpMonitor
    <2>3. CASE UNCHANGED <<dec, voiceMonitorId>>
        BY <1>8, <2>3, RoutingUntouched DEF AutoMonitor
    <2>4. QED BY <1>8, <2>1, <2>2, <2>3 DEF AutoMonitor
<1>9. ASSUME NEW on \in BOOLEAN, RecordAll(on), UNCHANGED <<voiceMonitorId, running>>
      PROVE  MonitorInv'
    <2>1. DOMAIN dec' = DOMAIN dec /\ \A j \in Live : /\ dec'[j].monitored = dec[j].monitored
                                                      /\ dec'[j].baud = dec[j].baud
        BY <1>9 DEF RecordAll, MonitorInv, TypeOK, DecRec
    <2>2. QED BY <1>9, <2>1, RoutingUntouched
<1>10. CASE \E on \in BOOLEAN : SetRecording(on)
    BY <1>9, <1>10 DEF SetRecording
<1>11. CASE SetRecordFormat
    BY <1>9, <1>11 DEF SetRecordFormat, MonitorInv, TypeOK
<1>12. CASE EditBlacklist
    BY <1>12, RoutingUntouched DEF EditBlacklist
<1>13. ASSUME NEW i \in Live, NEW a \in Aes, LearnAes(i, a) PROVE MonitorInv'
    <2>1. \A j \in Live : /\ dec'[j].monitored = dec[j].monitored
                          /\ dec'[j].baud = dec[j].baud
        BY <1>13 DEF LearnAes, MonitorInv, TypeOK, DecRec
    <2>2. QED BY <1>13, <2>1, RoutingUntouched DEF LearnAes
<1>14. CASE \E a \in Aes : AircraftHeard(a)
    BY <1>14, RoutingUntouched DEF AircraftHeard
<1>15. CASE UNCHANGED vars
    BY <1>15, RoutingUntouched DEF vars
<1>16. QED
    BY <1>1, <1>2, <1>3, <1>4, <1>5, <1>6, <1>7, <1>8, <1>10, <1>11, <1>12, <1>13, <1>14,
       <1>15 DEF Next

\* At any time at most one voice decoder reaches the speakers, it is the one
\* voiceMonitorId_ names, and that one exists: setVoiceMonitor, autoMonitor and the
\* operations that create or destroy decoders keep the two in step.
THEOREM MonitorConsistent == Spec => [](OneVoiceOnSpeakers /\ MonitorNamesLiveVoice)
<1>1. Init => MonitorInv
    <2>1. Init => TypeOK
        BY TypeInit
    <2>2. Init => Live = {} /\ voiceMonitorId = NoId
        BY EmptyType DEF Init, Live
    <2>3. QED BY <2>1, <2>2 DEF MonitorInv, StoppedIsEmpty, OneVoiceOnSpeakers,
                                MonitorNamesLiveVoice
<1>2. MonitorInv /\ [Next]_vars => MonitorInv'
    BY TypeStep, MonitorStep DEF MonitorInv
<1>3. MonitorInv => OneVoiceOnSpeakers /\ MonitorNamesLiveVoice
    BY DEF MonitorInv
<1>4. QED BY <1>1, <1>2, <1>3, PTL DEF Spec

\* voiceMonitorId_ is never a handle to a decoder that is gone or to one that is not a
\* voice decoder: the sink lookup and the UI's "listening to" line may follow it.
THEOREM MonitorIsLiveVoice == Spec => []MonitorNamesLiveVoice
BY MonitorConsistent, PTL

-----------------------------------------------------------------------------
(* The sub-bands and the counters                                          *)

\* The counters depend on which sub-band each decoder is in, and each sub-band on
\* its decoders: neither is inductive without the other.
TableInv == TypeOK /\ BandsExact /\ CountExact

LEMMA LiveFinite ==
    ASSUME TypeOK PROVE IsFiniteSet(Live)
<1>1. 1 .. nextId - 1 \subseteq 1 .. MaxId
    BY TableAssumption DEF TypeOK
<1>2. IsFiniteSet(1 .. MaxId)
    BY TableAssumption, FS_Interval
<1>3. Live \subseteq 1 .. MaxId
    BY <1>1 DEF TypeOK
<1>4. QED BY <1>2, <1>3, FS_Subset

LEMMA DecsOnFinite ==
    ASSUME TypeOK, NEW w PROVE IsFiniteSet(DecsOn(w))
BY LiveFinite, FS_Subset DEF DecsOn

\* A step that moves no decoder to another sub-band.
LEMMA PlacementUntouched ==
    ASSUME TableInv, TypeOK', UNCHANGED <<band, count>>, DOMAIN dec' = DOMAIN dec,
           \A i \in DOMAIN dec : dec'[i].band = dec[i].band
    PROVE  TableInv'
<1>1. \A w \in Workers : DecsOn(w)' = DecsOn(w)
    BY DEF DecsOn, Live
<1>2. BandsExact'
    BY DEF TableInv, BandsExact, Live
<1>3. QED BY <1>1, <1>2 DEF TableInv, CountExact

\* A step that leaves nobody behind and zeroes the counters.
LEMMA PlacementEmpty ==
    ASSUME TypeOK', band' = NoBands, dec' = NoDecoders, count' = Zero
    PROVE  TableInv'
<1>1. DOMAIN band' = {} /\ Live' = {}
    BY EmptyType DEF Live
<1>2. \A w \in Workers : DecsOn(w)' = {}
    BY <1>1 DEF DecsOn
<1>3. CountExact'
    BY <1>2, FS_EmptySet DEF CountExact, Zero
<1>4. BandsExact'
    BY <1>1 DEF BandsExact
<1>5. QED BY <1>3, <1>4 DEF TableInv

LEMMA PlacementEmptyInit ==
    ASSUME Init PROVE TableInv
<1>1. DOMAIN band = {} /\ Live = {}
    BY EmptyType DEF Init, Live
<1>2. \A w \in Workers : DecsOn(w) = {}
    BY <1>1 DEF DecsOn
<1>3. CountExact
    BY <1>2, FS_EmptySet DEF CountExact, Zero, Init
<1>4. BandsExact
    BY <1>1 DEF BandsExact
<1>5. QED BY <1>3, <1>4, TypeInit DEF TableInv

\* A new decoder in sub-band b of worker w, whether b is new or not.
LEMMA InsertPlacement ==
    ASSUME TableInv, TypeOK',
           NEW w \in Workers, NEW b, NEW freq, NEW baud, NEW aesId,
           Insert(w, b, freq, baud, aesId),
           DOMAIN band' = DOMAIN band \cup {b},
           band'[b].worker = w,
           \A c \in DOMAIN band : band'[c] = band[c]
    PROVE  TableInv'
<1>1. nextId \notin Live
    BY DEF TableInv, TypeOK
<1>2. /\ Live' = Live \cup {nextId}
      /\ \A i \in Live : dec'[i] = dec[i]
      /\ dec'[nextId] = NewDecoder(b, freq, baud, aesId)
    BY <1>1 DEF Insert, Live
<1>3. dec'[nextId].band = b
    BY <1>2 DEF NewDecoder
<1>4. BandsExact'
    BY <1>2, <1>3 DEF TableInv, BandsExact
<1>5. \A i \in Live : dec[i].band \in DOMAIN band
    BY DEF TableInv, BandsExact
<1>6. DecsOn(w)' = DecsOn(w) \cup {nextId} /\ nextId \notin DecsOn(w)
    BY <1>1, <1>2, <1>3, <1>5 DEF DecsOn
<1>7. \A v \in Workers \ {w} : DecsOn(v)' = DecsOn(v)
    BY <1>1, <1>2, <1>3, <1>5 DEF DecsOn
<1>8. Cardinality(DecsOn(w)') = Cardinality(DecsOn(w)) + 1
    BY <1>6, DecsOnFinite, FS_AddElement DEF TableInv
<1>9. count' = [count EXCEPT ![w] = count[w] + 1] /\ count \in [Workers -> Int]
    BY DEF Insert, TableInv, TypeOK
<1>10. CountExact'
    BY <1>7, <1>8, <1>9 DEF TableInv, CountExact
<1>11. QED BY <1>4, <1>10 DEF TableInv

\* A decoder is removed, with its sub-band when it was the last one in it.
LEMMA RemovePlacement ==
    ASSUME TableInv, TypeOK', NEW i \in Live, RemoveDecoder(i)
    PROVE  TableInv'
<1>0. PICK b \in DOMAIN band : b = dec[i].band
    BY DEF TableInv, BandsExact
<1>1. PICK w \in Workers : w = band[b].worker
    BY DEF TableInv, TypeOK, BandRec
<1>2. Live' = Live \ {i} /\ \A j \in Live \ {i} : dec'[j] = dec[j]
    BY DEF RemoveDecoder, BandsWithout, MonitorWithout, Unloaded, Live
<1>3. \A c \in DOMAIN band' : c \in DOMAIN band /\ band'[c] = band[c]
    BY DEF RemoveDecoder, BandsWithout, MonitorWithout, Unloaded
<1>4. \A c \in DOMAIN band : (c \in DOMAIN band') <=> (c # b \/ Members(b) # {i})
    BY <1>0 DEF RemoveDecoder, BandsWithout, MonitorWithout, Unloaded
<1>5. BandsExact'
    <2>1. ASSUME NEW c \in DOMAIN band' PROVE \E j \in Live' : dec'[j].band = c
        <3>1. PICK j \in Live : dec[j].band = c
            BY <1>3 DEF TableInv, BandsExact
        <3>2. CASE c # b
            BY <3>1, <3>2, <1>0, <1>2
        <3>3. CASE c = b
            <4>1. Members(b) # {i} /\ i \in Members(b)
                BY <3>3, <1>0, <1>4 DEF Members
            <4>2. PICK k \in Members(b) : k # i
                BY <4>1
            <4>3. QED BY <4>2, <3>3, <1>2 DEF Members
        <3>4. QED BY <3>2, <3>3
    <2>2. ASSUME NEW j \in Live' PROVE dec'[j].band \in DOMAIN band'
        <3>1. j \in Live /\ j # i /\ dec'[j] = dec[j] /\ dec[j].band \in DOMAIN band
            BY <1>2 DEF TableInv, BandsExact
        <3>2. dec[j].band = b => Members(b) # {i}
            BY <3>1 DEF Members
        <3>3. QED BY <3>1, <3>2, <1>4
    <2>3. QED BY <2>1, <2>2 DEF BandsExact
<1>6. \A j \in Live' : band'[dec'[j].band] = band[dec[j].band]
    BY <1>2, <1>3, <1>5 DEF BandsExact
<1>7. DecsOn(w)' = DecsOn(w) \ {i} /\ i \in DecsOn(w)
    BY <1>0, <1>1, <1>2, <1>6 DEF DecsOn
<1>8. \A v \in Workers \ {w} : DecsOn(v)' = DecsOn(v)
    BY <1>0, <1>1, <1>2, <1>6 DEF DecsOn
<1>9. Cardinality(DecsOn(w)') = Cardinality(DecsOn(w)) - 1
    BY <1>7, DecsOnFinite, FS_RemoveElement DEF TableInv
<1>10. count' = [count EXCEPT ![w] = count[w] - 1] /\ count \in [Workers -> Int]
    BY <1>0, <1>1 DEF RemoveDecoder, BandsWithout, MonitorWithout, Unloaded, TableInv, TypeOK
<1>11. CountExact'
    BY <1>8, <1>9, <1>10 DEF TableInv, CountExact
<1>12. QED BY <1>5, <1>11 DEF TableInv

LEMMA TableStep ==
    ASSUME TableInv, TypeOK', [Next]_vars
    PROVE  TableInv'
<1> USE DEF Live
<1>1. CASE Start \/ Stop \/ RemoveAll
    BY <1>1, PlacementEmpty DEF Start, Stop, RemoveAll
<1>2. CASE AddDecoder
    <2>1. PICK freq \in Freqs, baud \in Bauds, aesId \in Aes \cup {NoAes} :
             JoinBand(freq, baud, aesId) \/ CreateBand(freq, baud, aesId)
        BY <1>2 DEF AddDecoder
    <2>2. CASE JoinBand(freq, baud, aesId)
        <3>1. PICK b \in BestBands(freq) : /\ Insert(band[b].worker, b, freq, baud, aesId)
                                           /\ band' = band
            BY <2>2 DEF JoinBand
        <3>2. b \in DOMAIN band /\ band[b].worker \in Workers
            BY DEF BestBands, Covering, TableInv, TypeOK, BandRec
        <3>3. QED BY <3>1, <3>2, InsertPlacement
    <2>3. CASE CreateBand(freq, baud, aesId)
        <3>1. PICK w \in BestWorkers :
                /\ Insert(w, nextId, freq, baud, aesId)
                /\ band' = [b \in DOMAIN band \cup {nextId} |->
                    IF b = nextId THEN [worker |-> w, center |-> freq] ELSE band[b]]
            BY <2>3 DEF CreateBand
        <3>2. nextId \notin DOMAIN band /\ w \in Workers
            BY DEF BestWorkers, TableInv, TypeOK
        <3>3. /\ DOMAIN band' = DOMAIN band \cup {nextId} /\ band'[nextId].worker = w
              /\ \A c \in DOMAIN band : band'[c] = band[c]
            BY <3>1, <3>2
        <3>4. QED BY <3>1, <3>2, <3>3, InsertPlacement
    <2>4. QED BY <2>1, <2>2, <2>3
<1>3. CASE \E i \in Live : RemoveDecoder(i)
    BY <1>3, RemovePlacement
<1>4. ASSUME NEW i \in Live, SetVoiceMonitor(i) PROVE TableInv'
    BY <1>4, PlacementUntouched DEF SetVoiceMonitor, Monitor, TableInv, TypeOK, DecRec
<1>5. ASSUME NEW i \in Live, NEW freq \in Freqs, SetDecoderFreq(i, freq) PROVE TableInv'
    <2>1. \A j \in Live : dec'[j].band = dec[j].band
        BY <1>5 DEF SetDecoderFreq, TableInv, TypeOK, DecRec
    <2>2. QED BY <1>5, <2>1, PlacementUntouched DEF SetDecoderFreq
<1>6. CASE AutoMonitor
    <2>1. DOMAIN dec' = DOMAIN dec /\ \A j \in Live : dec'[j].band = dec[j].band
        <3>1. CASE PickMonitor
            BY <3>1 DEF PickMonitor, TableInv, TypeOK, DecRec
        <3>2. CASE GiveUpMonitor
            BY <3>2 DEF GiveUpMonitor, TableInv, TypeOK, DecRec
        <3>3. CASE UNCHANGED <<dec, voiceMonitorId>>
            BY <3>3
        <3>4. QED BY <1>6, <3>1, <3>2, <3>3 DEF AutoMonitor
    <2>2. QED BY <1>6, <2>1, PlacementUntouched DEF AutoMonitor
<1>7. ASSUME NEW on \in BOOLEAN, RecordAll(on), UNCHANGED <<band, count>> PROVE TableInv'
    <2>1. DOMAIN dec' = DOMAIN dec /\ \A j \in Live : dec'[j].band = dec[j].band
        BY <1>7 DEF RecordAll, TableInv, TypeOK, DecRec
    <2>2. QED BY <1>7, <2>1, PlacementUntouched
<1>8. CASE \E on \in BOOLEAN : SetRecording(on)
    BY <1>7, <1>8 DEF SetRecording
<1>9. CASE SetRecordFormat
    BY <1>7, <1>9 DEF SetRecordFormat, TableInv, TypeOK
<1>10. CASE EditBlacklist
    BY <1>10, PlacementUntouched DEF EditBlacklist
<1>11. ASSUME NEW i \in Live, NEW a \in Aes, LearnAes(i, a) PROVE TableInv'
    <2>1. \A j \in Live : dec'[j].band = dec[j].band
        BY <1>11 DEF LearnAes, TableInv, TypeOK, DecRec
    <2>2. QED BY <1>11, <2>1, PlacementUntouched DEF LearnAes
<1>12. CASE \E a \in Aes : AircraftHeard(a)
    BY <1>12, PlacementUntouched DEF AircraftHeard
<1>13. CASE UNCHANGED vars
    BY <1>13, PlacementUntouched DEF vars
<1>14. QED
    BY <1>1, <1>2, <1>3, <1>4, <1>5, <1>6, <1>8, <1>9, <1>10, <1>11, <1>12, <1>13 DEF Next

\* A decoder is always in a sub-band that exists, and an emptied sub-band is gone:
\* addDecoder and removeDecoder keep subbands and decoders in step.
THEOREM BandsAlwaysExact == Spec => []BandsExact
<1>1. Init => TableInv
    BY PlacementEmptyInit
<1>2. TableInv /\ [Next]_vars => TableInv'
    BY TypeStep, TableStep DEF TableInv
<1>3. TableInv => BandsExact
    BY DEF TableInv
<1>4. QED BY <1>1, <1>2, <1>3, PTL DEF Spec

\* Worker::count, by which feed() decides whether a worker gets the samples at all,
\* is the number of the decoders on it, whatever was added, removed or retuned.
THEOREM CountAlwaysExact == Spec => []CountExact
<1>1. Init => TableInv
    BY PlacementEmptyInit
<1>2. TableInv /\ [Next]_vars => TableInv'
    BY TypeStep, TableStep DEF TableInv
<1>3. TableInv => CountExact
    BY DEF TableInv
<1>4. QED BY <1>1, <1>2, <1>3, PTL DEF Spec

-----------------------------------------------------------------------------
(* The load                                                                *)

\* The counter alone is not inductive: a removal takes the decoder's own weight off the
\* worker its sub-band is on, so the sub-bands must exist and the decoder be counted.
LoadInv == TableInv /\ WeightCoversLoad

\* What a decoder weighs.
LEMMA WeightOfKind ==
    ASSUME NEW baud PROVE decoderWeight(baud) \in 1 .. 3
BY DEF decoderWeight

\* The load of a worker is a number, at least 0.
LEMMA LoadType ==
    ASSUME TypeOK, NEW w
    PROVE  /\ \A n : IsFiniteSet(OfWeight(w, n)) /\ Cardinality(OfWeight(w, n)) \in Nat
           /\ Load(w) \in Nat
<1>1. \A n : IsFiniteSet(OfWeight(w, n)) /\ Cardinality(OfWeight(w, n)) \in Nat
    <2> SUFFICES ASSUME NEW n
                 PROVE  IsFiniteSet(OfWeight(w, n)) /\ Cardinality(OfWeight(w, n)) \in Nat
        OBVIOUS
    <2>1. OfWeight(w, n) \subseteq DecsOn(w)
        BY DEF OfWeight
    <2>2. QED BY <2>1, DecsOnFinite, FS_Subset, FS_CardinalityType
<1>2. QED BY <1>1 DEF Load

\* Where the decoders of a worker and their kinds stay what they are, so does its load.
LEMMA SameLoad ==
    ASSUME NEW w, DecsOn(w)' = DecsOn(w),
           \A i \in DecsOn(w) : dec'[i].baud = dec[i].baud
    PROVE  Load(w)' = Load(w)
<1>1. \A n : OfWeight(w, n)' = OfWeight(w, n)
    BY DEF OfWeight
<1>2. QED BY <1>1 DEF Load

\* A decoder more on a worker is its weight more of load.
LEMMA LoadGrows ==
    ASSUME TypeOK, NEW w, NEW j, j \notin DecsOn(w),
           DecsOn(w)' = DecsOn(w) \cup {j},
           \A i \in DecsOn(w) : dec'[i].baud = dec[i].baud
    PROVE  Load(w)' = Load(w) + decoderWeight(dec'[j].baud)
<1>0. PICK k \in 1 .. 3 : k = decoderWeight(dec'[j].baud)
    BY WeightOfKind
<1>1. OfWeight(w, k)' = OfWeight(w, k) \cup {j} /\ j \notin OfWeight(w, k)
    BY <1>0 DEF OfWeight
<1>2. \A n : n # k => OfWeight(w, n)' = OfWeight(w, n)
    BY <1>0 DEF OfWeight
<1>3. Cardinality(OfWeight(w, k)') = Cardinality(OfWeight(w, k)) + 1
    BY <1>1, LoadType, FS_AddElement
<1>4. \A n \in 1 .. 3 : Cardinality(OfWeight(w, n)) \in Nat
    BY LoadType
<1>5. QED
    <2>1. CASE k = 1
        BY <1>0, <1>2, <1>3, <1>4, <2>1 DEF Load
    <2>2. CASE k = 2
        BY <1>0, <1>2, <1>3, <1>4, <2>2 DEF Load
    <2>3. CASE k = 3
        BY <1>0, <1>2, <1>3, <1>4, <2>3 DEF Load
    <2>4. QED BY <1>0, <2>1, <2>2, <2>3

\* A decoder less on a worker is its weight less of load.
LEMMA LoadShrinks ==
    ASSUME TypeOK, NEW w, NEW j \in DecsOn(w),
           DecsOn(w)' = DecsOn(w) \ {j},
           \A i \in DecsOn(w) \ {j} : dec'[i].baud = dec[i].baud
    PROVE  Load(w)' = Load(w) - decoderWeight(dec[j].baud)
<1>0. PICK k \in 1 .. 3 : k = decoderWeight(dec[j].baud)
    BY WeightOfKind
<1>1. OfWeight(w, k)' = OfWeight(w, k) \ {j} /\ j \in OfWeight(w, k)
    BY <1>0 DEF OfWeight
<1>2. \A n : n # k => OfWeight(w, n)' = OfWeight(w, n)
    BY <1>0 DEF OfWeight
<1>3. Cardinality(OfWeight(w, k)') = Cardinality(OfWeight(w, k)) - 1
    BY <1>1, LoadType, FS_RemoveElement
<1>4. \A n \in 1 .. 3 : Cardinality(OfWeight(w, n)) \in Nat
    BY LoadType
<1>5. QED
    <2>1. CASE k = 1
        BY <1>0, <1>2, <1>3, <1>4, <2>1 DEF Load
    <2>2. CASE k = 2
        BY <1>0, <1>2, <1>3, <1>4, <2>2 DEF Load
    <2>3. CASE k = 3
        BY <1>0, <1>2, <1>3, <1>4, <2>3 DEF Load
    <2>4. QED BY <1>0, <2>1, <2>2, <2>3

\* A step that leaves the load and its counter alone.
LEMMA LoadUntouched ==
    ASSUME LoadInv, TableInv', UNCHANGED <<band, weight>>, DOMAIN dec' = DOMAIN dec,
           \A i \in DOMAIN dec : dec'[i].band = dec[i].band /\ dec'[i].baud = dec[i].baud
    PROVE  LoadInv'
<1>1. \A w \in Workers : DecsOn(w)' = DecsOn(w)
    BY DEF DecsOn, Live
<1>2. \A w \in Workers : Load(w)' = Load(w)
    BY <1>1, SameLoad DEF DecsOn, Live
<1>3. QED BY <1>2 DEF LoadInv, WeightCoversLoad

\* Without decoders there is no load, and any counter that is not negative covers it.
LEMMA LoadEmpty ==
    ASSUME TableInv', Live' = {}, \A w \in Workers : weight'[w] \in Nat
    PROVE  LoadInv'
<1>1. \A w, n : OfWeight(w, n)' = {}
    BY DEF OfWeight, DecsOn
<1>2. \A w : Load(w)' = 0
    BY <1>1, FS_EmptySet DEF Load
<1>3. QED BY <1>2 DEF LoadInv, WeightCoversLoad

\* Insert adds to the counter what the new decoder weighs.
LEMMA InsertLoad ==
    ASSUME LoadInv, TableInv',
           NEW w \in Workers, NEW b, NEW freq, NEW baud, NEW aesId,
           Insert(w, b, freq, baud, aesId),
           band'[b].worker = w,
           \A c \in DOMAIN band : band'[c] = band[c]
    PROVE  LoadInv'
<1> USE DEF LoadInv
<1>1. nextId \notin Live
    BY DEF TableInv, TypeOK
<1>2. /\ Live' = Live \cup {nextId}
      /\ \A i \in Live : dec'[i] = dec[i]
      /\ dec'[nextId] = NewDecoder(b, freq, baud, aesId)
    BY <1>1 DEF Insert, Live
<1>3. dec'[nextId].band = b /\ dec'[nextId].baud = baud
    BY <1>2 DEF NewDecoder
<1>4. \A i \in Live : dec[i].band \in DOMAIN band
    BY DEF TableInv, BandsExact
<1>5. DecsOn(w)' = DecsOn(w) \cup {nextId} /\ nextId \notin DecsOn(w)
    BY <1>1, <1>2, <1>3, <1>4 DEF DecsOn
<1>6. \A v \in Workers \ {w} : DecsOn(v)' = DecsOn(v)
    BY <1>1, <1>2, <1>3, <1>4 DEF DecsOn
<1>7. \A v : \A i \in DecsOn(v) : dec'[i].baud = dec[i].baud
    BY <1>2 DEF DecsOn
<1>8. Load(w)' = Load(w) + decoderWeight(baud)
    BY <1>3, <1>5, <1>7, LoadGrows DEF TableInv
<1>9. \A v \in Workers \ {w} : Load(v)' = Load(v)
    BY <1>6, <1>7, SameLoad
<1>10. weight' = [weight EXCEPT ![w] = weight[w] + decoderWeight(baud)]
       /\ weight \in [Workers -> Int] /\ decoderWeight(baud) \in Int
    BY WeightOfKind DEF Insert, TableInv, TypeOK
<1>11. \A v \in Workers : Load(v) \in Nat
    BY LoadType DEF TableInv
<1>12. weight'[w] >= Load(w)'
    BY <1>8, <1>10, <1>11 DEF WeightCoversLoad
<1>13. \A v \in Workers \ {w} : weight'[v] >= Load(v)'
    BY <1>9, <1>10 DEF WeightCoversLoad
<1>14. QED BY <1>12, <1>13 DEF WeightCoversLoad

\* removeDecoder takes off the counter what the decoder weighed.
LEMMA RemoveLoad ==
    ASSUME LoadInv, TableInv', NEW i \in Live, RemoveDecoder(i)
    PROVE  LoadInv'
<1> USE DEF LoadInv
<1>0. PICK b \in DOMAIN band : b = dec[i].band
    BY DEF TableInv, BandsExact
<1>1. PICK w \in Workers : w = band[b].worker
    BY DEF TableInv, TypeOK, BandRec
<1>2. Live' = Live \ {i} /\ \A j \in Live \ {i} : dec'[j] = dec[j]
    BY DEF RemoveDecoder, Live
<1>3. \A c \in DOMAIN band' : band'[c] = band[c]
    BY DEF RemoveDecoder, BandsWithout
<1>4. \A j \in Live' : band'[dec'[j].band] = band[dec[j].band]
    BY <1>2, <1>3 DEF TableInv, BandsExact
<1>5. DecsOn(w)' = DecsOn(w) \ {i} /\ i \in DecsOn(w)
    BY <1>0, <1>1, <1>2, <1>4 DEF DecsOn
<1>6. \A v \in Workers \ {w} : DecsOn(v)' = DecsOn(v)
    BY <1>0, <1>1, <1>2, <1>4 DEF DecsOn
<1>7. \A v : \A j \in DecsOn(v) \ {i} : dec'[j].baud = dec[j].baud
    BY <1>2 DEF DecsOn
<1>8. Load(w)' = Load(w) - decoderWeight(dec[i].baud)
    BY <1>5, <1>7, LoadShrinks DEF TableInv
<1>9. \A v \in Workers \ {w} : Load(v)' = Load(v)
    <2>1. \A v \in Workers \ {w} : i \notin DecsOn(v)
        BY <1>0, <1>1 DEF DecsOn
    <2>2. QED BY <1>6, <1>7, <2>1, SameLoad
<1>10. weight' = [weight EXCEPT ![w] = weight[w] - decoderWeight(dec[i].baud)]
       /\ weight \in [Workers -> Int] /\ decoderWeight(dec[i].baud) \in Int
    BY <1>0, <1>1, WeightOfKind DEF RemoveDecoder, Unloaded, TableInv, TypeOK
<1>11. \A v \in Workers : Load(v) \in Nat
    BY LoadType DEF TableInv
<1>12. weight'[w] >= Load(w)'
    BY <1>8, <1>10, <1>11 DEF WeightCoversLoad
<1>13. \A v \in Workers \ {w} : weight'[v] >= Load(v)'
    BY <1>9, <1>10 DEF WeightCoversLoad
<1>14. QED BY <1>12, <1>13 DEF WeightCoversLoad

LEMMA LoadStep ==
    ASSUME LoadInv, TableInv', [Next]_vars
    PROVE  LoadInv'
<1> USE DEF Live, LoadInv
<1>1. CASE Start \/ Stop
    <2>1. Live' = {} /\ weight' = Zero
        BY <1>1, EmptyType DEF Start, Stop
    <2>2. QED BY <2>1, LoadEmpty DEF Zero
<1>2. CASE RemoveAll
    <2>1. Live' = {} /\ weight' = weight
        BY <1>2, EmptyType DEF RemoveAll
    <2>2. \A w \in Workers : Load(w) \in Nat /\ weight[w] \in Int
        BY LoadType DEF TableInv, TypeOK
    <2>3. \A w \in Workers : weight'[w] \in Nat
        BY <2>1, <2>2 DEF WeightCoversLoad
    <2>4. QED BY <2>1, <2>3, LoadEmpty
<1>3. CASE AddDecoder
    <2>1. PICK freq \in Freqs, baud \in Bauds, aesId \in Aes \cup {NoAes} :
             JoinBand(freq, baud, aesId) \/ CreateBand(freq, baud, aesId)
        BY <1>3 DEF AddDecoder
    <2>2. CASE JoinBand(freq, baud, aesId)
        <3>1. PICK b \in BestBands(freq) : /\ Insert(band[b].worker, b, freq, baud, aesId)
                                           /\ band' = band
            BY <2>2 DEF JoinBand
        <3>2. band[b].worker \in Workers
            BY DEF BestBands, Covering, TableInv, TypeOK, BandRec
        <3>3. QED BY <3>1, <3>2, InsertLoad
    <2>3. CASE CreateBand(freq, baud, aesId)
        <3>1. PICK w \in BestWorkers :
                /\ Insert(w, nextId, freq, baud, aesId)
                /\ band' = [b \in DOMAIN band \cup {nextId} |->
                    IF b = nextId THEN [worker |-> w, center |-> freq] ELSE band[b]]
            BY <2>3 DEF CreateBand
        <3>2. nextId \notin DOMAIN band /\ w \in Workers
            BY DEF BestWorkers, TableInv, TypeOK
        <3>3. /\ band'[nextId].worker = w
              /\ \A c \in DOMAIN band : band'[c] = band[c]
            BY <3>1, <3>2
        <3>4. QED BY <3>1, <3>2, <3>3, InsertLoad
    <2>4. QED BY <2>1, <2>2, <2>3
<1>4. CASE \E i \in Live : RemoveDecoder(i)
    BY <1>4, RemoveLoad
<1>5. ASSUME UNCHANGED <<band, weight>>, DOMAIN dec' = DOMAIN dec,
             \A i \in DOMAIN dec : dec'[i].band = dec[i].band /\ dec'[i].baud = dec[i].baud
      PROVE  LoadInv'
    BY <1>5, LoadUntouched
<1>6. CASE \E i \in Live : SetVoiceMonitor(i)
    <2>1. PICK i \in Live : SetVoiceMonitor(i)
        BY <1>6
    <2>2. DOMAIN dec' = DOMAIN dec /\ \A j \in Live : dec'[j] =
              [dec[j] EXCEPT !.monitored = IsVoice(j) /\ j = i]
        BY <2>1 DEF SetVoiceMonitor, Monitor
    <2>3. \A j \in Live : dec'[j].band = dec[j].band /\ dec'[j].baud = dec[j].baud
        BY <2>2 DEF TableInv, TypeOK, DecRec
    <2>4. QED BY <1>5, <2>1, <2>2, <2>3 DEF SetVoiceMonitor
<1>7. CASE \E i \in Live, freq \in Freqs : SetDecoderFreq(i, freq)
    BY <1>5, <1>7 DEF SetDecoderFreq, TableInv, TypeOK, DecRec
<1>8. CASE AutoMonitor
    <2>1. /\ DOMAIN dec' = DOMAIN dec
          /\ \A j \in Live : dec'[j].band = dec[j].band /\ dec'[j].baud = dec[j].baud
        <3>1. CASE PickMonitor
            BY <3>1 DEF PickMonitor, TableInv, TypeOK, DecRec
        <3>2. CASE GiveUpMonitor
            BY <3>2 DEF GiveUpMonitor, TableInv, TypeOK, DecRec
        <3>3. CASE UNCHANGED <<dec, voiceMonitorId>>
            BY <3>3
        <3>4. QED BY <1>8, <3>1, <3>2, <3>3 DEF AutoMonitor
    <2>2. QED BY <1>5, <1>8, <2>1 DEF AutoMonitor
<1>9. CASE SetRecordFormat \/ \E on \in BOOLEAN : SetRecording(on)
    BY <1>5, <1>9 DEF SetRecordFormat, SetRecording, RecordAll, TableInv, TypeOK, DecRec
<1>10. CASE EditBlacklist \/ (\E a \in Aes : AircraftHeard(a)) \/ UNCHANGED vars
    BY <1>5, <1>10 DEF EditBlacklist, AircraftHeard, vars
<1>11. CASE \E i \in Live, a \in Aes : LearnAes(i, a)
    BY <1>5, <1>11 DEF LearnAes, TableInv, TypeOK, DecRec
<1>12. QED
    BY <1>1, <1>2, <1>3, <1>4, <1>6, <1>7, <1>8, <1>9, <1>10, <1>11 DEF Next

\* Worker::weight, by which addDecoder places the next decoder, never falls below what
\* the worker really carries: removeAll may leave it too high (the run of WeightIsLoad
\* shows that it does), but no sequence of operations makes a loaded worker look idle.
THEOREM WeightAlwaysCovers == Spec => []WeightCoversLoad
<1>1. Init => LoadInv
    <2> SUFFICES ASSUME Init PROVE LoadInv
        OBVIOUS
    <2>1. TableInv
        BY PlacementEmptyInit
    <2>2. Live = {}
        BY EmptyType DEF Init, Live
    <2>3. \A w, n : OfWeight(w, n) = {}
        BY <2>2 DEF OfWeight, DecsOn
    <2>4. \A w : Load(w) = 0
        BY <2>3, FS_EmptySet DEF Load
    <2>5. \A w \in Workers : weight[w] = 0
        BY DEF Init, Zero
    <2>6. QED BY <2>1, <2>4, <2>5 DEF LoadInv, WeightCoversLoad
<1>2. LoadInv /\ [Next]_vars => LoadInv'
    <2>1. LoadInv /\ [Next]_vars => TableInv'
        BY TypeStep, TableStep DEF LoadInv, TableInv
    <2>2. QED BY <2>1, LoadStep
<1>3. LoadInv => WeightCoversLoad
    BY DEF LoadInv
<1>4. QED BY <1>1, <1>2, <1>3, PTL DEF Spec
=============================================================================
