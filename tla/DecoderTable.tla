---------------------------- MODULE DecoderTable ----------------------------
(***************************************************************************)
(* What DecoderManager keeps about its decoders: the sub-bands of each     *)
(* worker, the decoders of each sub-band, the load counters, which voice   *)
(* decoder is routed to the speakers, and the recording switch.            *)
(*                                                                         *)
(* Every operation here except LearnAes and AircraftHeard runs on the UI   *)
(* thread, so an operation is one step.  The workers read the table under  *)
(* dMtx and only tell a voice decoder which aircraft it hears (LearnAes).  *)
(*                                                                         *)
(* A sub-band is named by the id of the decoder it was created for; ids    *)
(* grow, so the order of the ids is the order of push_back in subbands and *)
(* of emplace_back in decoders.  Frequencies are integers on any scale.    *)
(***************************************************************************)
EXTENDS Integers, FiniteSets

CONSTANTS
    NWorkers,       \* the number of workers start() creates
    Freqs,          \* channel frequencies
    HalfWindow,     \* 0.40 * subRate
    OverloadSize,   \* 4: a sub-band with that many decoders counts as overloaded
    Bauds,          \* the decoder kinds the UI offers
    Aes,            \* aircraft (AES ids other than 0)
    NoAes,          \* AES id 0: not known yet
    Countries,      \* the countries the user may blacklist
    CountryOf,      \* icaoCountry() of the aircraft's ICAO address
    MaxId           \* bound: how many decoders are ever created

kEgcBaud == 1
VoiceBaud == 8400
NoId == -1

ASSUME TableAssumption ==
    /\ NWorkers \in Nat \ {0}
    /\ Freqs \subseteq Int
    /\ HalfWindow \in Nat
    /\ OverloadSize \in Nat
    /\ Bauds \subseteq Nat
    /\ NoAes \notin Aes
    /\ DOMAIN CountryOf = Aes
    /\ MaxId \in Nat

Workers == 1 .. NWorkers

VARIABLES
    running,         \* workers_ is not empty
    band,            \* sub-bands: creating id |-> worker, centre frequency
    dec,             \* decoders: channel id |-> their record
    count,           \* Worker::count
    weight,          \* Worker::weight
    nextId,          \* nextId_
    voiceMonitorId,  \* voiceMonitorId_
    recordOn,        \* recordOn_
    known,           \* aircraft whose ICAO address acTable_ knows
    blacklist        \* App::blacklistCountries

vars == <<running, band, dec, count, weight, nextId, voiceMonitorId, recordOn,
          known, blacklist>>

BandRec == [worker : Workers, center : Freqs]
DecRec  == [band : 1 .. MaxId, freq : Freqs, baud : Bauds, monitored : BOOLEAN,
            record : BOOLEAN, aes : Aes \cup {NoAes}]

Live == DOMAIN dec
IsVoice(i) == dec[i].baud = VoiceBaud

\* MSK is the heaviest, EGC the lightest.
decoderWeight(baud) ==
    IF baud = kEgcBaud THEN 1 ELSE IF baud \in {8400, 10500} THEN 2 ELSE 3

Members(b)  == {i \in Live : dec[i].band = b}
BandsOn(w)  == {b \in DOMAIN band : band[b].worker = w}
DecsOn(w)   == {i \in Live : band[dec[i].band].worker = w}
OfWeight(w, n) == {i \in DecsOn(w) : decoderWeight(dec[i].baud) = n}
Load(w) == Cardinality(OfWeight(w, 1)) + 2 * Cardinality(OfWeight(w, 2))
           + 3 * Cardinality(OfWeight(w, 3))

-----------------------------------------------------------------------------

NoBands    == [b \in {} |-> [worker |-> 1, center |-> 0]]
NoDecoders == [i \in {} |-> 0]
Zero       == [w \in Workers |-> 0]

Init ==
    /\ running = FALSE
    /\ band = NoBands /\ dec = NoDecoders
    /\ count = Zero /\ weight = Zero
    /\ nextId = 1 /\ voiceMonitorId = NoId
    /\ recordOn \in BOOLEAN
    /\ known = {} /\ blacklist = {}

\* start() with fresh workers, after the stop() of startActive.
Start ==
    /\ ~running
    /\ running' = TRUE
    /\ band' = NoBands /\ dec' = NoDecoders /\ count' = Zero /\ weight' = Zero
    /\ UNCHANGED <<nextId, voiceMonitorId, recordOn, known, blacklist>>

\* stop(): workers_.clear() takes the sub-bands and the counters with it.
Stop ==
    /\ running
    /\ running' = FALSE
    /\ band' = NoBands /\ dec' = NoDecoders /\ count' = Zero /\ weight' = Zero
    /\ voiceMonitorId' = NoId
    /\ UNCHANGED <<nextId, recordOn, known, blacklist>>

-----------------------------------------------------------------------------
(* addDecoder                                                              *)

Covers(b, freq) ==
    /\ freq - band[b].center < HalfWindow
    /\ band[b].center - freq < HalfWindow

Covering(freq) == {b \in DOMAIN band : Covers(b, freq)}

\* The key the search minimises: a plain count, or the effective load of the
\* worker when the sub-band is overloaded.
Key(b) ==
    LET cnt == Cardinality(Members(b))
        w   == band[b].worker
    IN  IF cnt >= OverloadSize
        THEN weight[w] + Cardinality(BandsOn(w)) * 10 + cnt * 8
        ELSE cnt

\* The order of the nested loops over workers_ and subbands.
BandBefore(a, b) ==
    \/ band[a].worker < band[b].worker
    \/ (band[a].worker = band[b].worker /\ a < b)

\* The first covering sub-band with the least key.
BestBands(freq) ==
    {b \in Covering(freq) : \A c \in Covering(freq) :
        Key(b) < Key(c) \/ (Key(b) = Key(c) /\ (b = c \/ BandBefore(b, c)))}

Eff(w) == weight[w] + Cardinality(BandsOn(w)) * 5

\* The first worker with the least effective weight.
BestWorkers ==
    {w \in Workers : \A v \in Workers : Eff(w) < Eff(v) \/ (Eff(w) = Eff(v) /\ w <= v)}

\* The first voice decoder is monitored at once, whoever it belongs to.
NewDecoder(b, freq, baud, aesId) ==
    [band |-> b, freq |-> freq, baud |-> baud,
     monitored |-> baud = VoiceBaud /\ voiceMonitorId = NoId,
     record    |-> baud = VoiceBaud /\ recordOn,
     aes       |-> IF baud = VoiceBaud THEN aesId ELSE NoAes]

\* Mutant: nextId_ is not advanced.
InsertReusesId(w, b, freq, baud, aesId) ==
    /\ dec' = [i \in Live \cup {nextId} |->
                  IF i = nextId THEN NewDecoder(b, freq, baud, aesId) ELSE dec[i]]
    /\ count' = [count EXCEPT ![w] = @ + 1]
    /\ weight' = [weight EXCEPT ![w] = @ + decoderWeight(baud)]
    /\ voiceMonitorId' = IF baud = VoiceBaud /\ voiceMonitorId = NoId
                         THEN nextId ELSE voiceMonitorId
    /\ UNCHANGED <<running, nextId, recordOn, known, blacklist>>

Insert(w, b, freq, baud, aesId) ==
    /\ dec' = [i \in Live \cup {nextId} |->
                  IF i = nextId THEN NewDecoder(b, freq, baud, aesId) ELSE dec[i]]
    /\ count' = [count EXCEPT ![w] = @ + 1]
    /\ weight' = [weight EXCEPT ![w] = @ + decoderWeight(baud)]
    /\ nextId' = nextId + 1
    /\ voiceMonitorId' = IF baud = VoiceBaud /\ voiceMonitorId = NoId
                         THEN nextId ELSE voiceMonitorId
    /\ UNCHANGED <<running, recordOn, known, blacklist>>

JoinBand(freq, baud, aesId) ==
    \E b \in BestBands(freq) :
        /\ Insert(band[b].worker, b, freq, baud, aesId)
        /\ UNCHANGED band

CreateBand(freq, baud, aesId) ==
    /\ Covering(freq) = {}
    /\ \E w \in BestWorkers :
        /\ Insert(w, nextId, freq, baud, aesId)
        /\ band' = [b \in DOMAIN band \cup {nextId} |->
                       IF b = nextId THEN [worker |-> w, center |-> freq] ELSE band[b]]

\* -1, and nothing changes, while there are no workers.
AddDecoder ==
    /\ running /\ nextId <= MaxId
    /\ \E freq \in Freqs, baud \in Bauds, aesId \in Aes \cup {NoAes} :
        JoinBand(freq, baud, aesId) \/ CreateBand(freq, baud, aesId)

-----------------------------------------------------------------------------
(* removeDecoder, removeAll, setDecoderFreq                                *)

\* Mutants: the emptied sub-band stays; the monitor is not reset; every decoder
\* weighs as much as an MSK one when it goes.
KeepsEmptyBand(i) == band
KeepsMonitor(i)   == voiceMonitorId
UnloadsHeaviest(i) == 3

\* A sub-band goes with its last decoder.
BandsWithout(i) ==
    LET b == dec[i].band
    IN  IF Members(b) = {i} THEN [c \in DOMAIN band \ {b} |-> band[c]] ELSE band

MonitorWithout(i) == IF i = voiceMonitorId THEN NoId ELSE voiceMonitorId

Unloaded(i) == decoderWeight(dec[i].baud)

RemoveDecoder(i) ==
    LET w == band[dec[i].band].worker
    IN  /\ dec' = [j \in Live \ {i} |-> dec[j]]
        /\ count' = [count EXCEPT ![w] = @ - 1]
        /\ weight' = [weight EXCEPT ![w] = @ - Unloaded(i)]
        /\ band' = BandsWithout(i)
        /\ voiceMonitorId' = MonitorWithout(i)
        /\ UNCHANGED <<running, nextId, recordOn, known, blacklist>>

\* Mutant: weight is reset in count's place.
ResetsWeightOnly ==
    /\ running
    /\ band' = NoBands /\ dec' = NoDecoders
    /\ weight' = Zero
    /\ voiceMonitorId' = NoId
    /\ UNCHANGED <<running, count, nextId, recordOn, known, blacklist>>

\* Drops every decoder and resets count; weight keeps what it was.
RemoveAll ==
    /\ running
    /\ band' = NoBands /\ dec' = NoDecoders
    /\ count' = Zero
    /\ voiceMonitorId' = NoId
    /\ UNCHANGED <<running, weight, nextId, recordOn, known, blacklist>>

\* Dragging a marker in the spectrum: any frequency the plot shows.
SetDecoderFreq(i, freq) ==
    /\ dec' = [dec EXCEPT ![i].freq = freq]
    /\ UNCHANGED <<running, band, count, weight, nextId, voiceMonitorId, recordOn,
                   known, blacklist>>

-----------------------------------------------------------------------------
(* Monitoring: setVoiceMonitor and autoMonitor                             *)

\* Mutant: the decoder monitored so far keeps playing.
MonitorToo(i) == dec' = [dec EXCEPT ![i].monitored = TRUE]

Monitor(i) ==
    dec' = [j \in Live |-> [dec[j] EXCEPT !.monitored = IsVoice(j) /\ j = i]]

\* The user selects a voice decoder, or a follow has just added one.
SetVoiceMonitor(i) ==
    /\ IsVoice(i)
    /\ voiceMonitorId' = i
    /\ Monitor(i)
    /\ UNCHANGED <<running, band, count, weight, nextId, recordOn, known, blacklist>>

\* The aircraft and its ICAO address are known, and its country is listed.
Blacklisted(i) == dec[i].aes \in known /\ CountryOf[dec[i].aes] \in blacklist

\* With a blacklist, calls of unknown aircraft are passed over as well.
Eligible(i) ==
    /\ IsVoice(i)
    /\ blacklist = {} \/ (dec[i].aes \in known /\ ~Blacklisted(i))

\* The order of the loops over workers_, subbands and decoders.
DecBefore(i, j) ==
    \/ dec[i].band # dec[j].band /\ BandBefore(dec[i].band, dec[j].band)
    \/ dec[i].band = dec[j].band /\ i < j

\* Mutant: the search ends at the first voice decoder.
FirstVoiceIfEligible ==
    {i \in Live : Eligible(i) /\ \A j \in Live : IsVoice(j) => i = j \/ DecBefore(i, j)}

FirstEligible ==
    {i \in Live : Eligible(i) /\ \A j \in Live : Eligible(j) => i = j \/ DecBefore(i, j)}

MonitorIsLive == voiceMonitorId \in Live /\ IsVoice(voiceMonitorId)

PickMonitor ==
    /\ ~MonitorIsLive
    /\ \E i \in FirstEligible :
        /\ voiceMonitorId' = i
        /\ dec' = [dec EXCEPT ![i].monitored = TRUE]

\* Nobody to monitor: stop recording what the blacklist names.
GiveUpMonitor ==
    /\ ~MonitorIsLive /\ FirstEligible = {}
    /\ voiceMonitorId' = NoId
    /\ dec' = [i \in Live |->
                 IF IsVoice(i) /\ Blacklisted(i) THEN [dec[i] EXCEPT !.record = FALSE]
                 ELSE dec[i]]

\* Every frame.  With a live monitor it returns before the blacklist is looked at.
AutoMonitor ==
    /\ \/ MonitorIsLive /\ UNCHANGED <<dec, voiceMonitorId>>
       \/ PickMonitor
       \/ GiveUpMonitor
    /\ UNCHANGED <<running, band, count, weight, nextId, recordOn, known, blacklist>>

-----------------------------------------------------------------------------
(* Recording switch, blacklist, and what the workers learn                 *)

RecordAll(on) ==
    dec' = [i \in Live |-> IF IsVoice(i) THEN [dec[i] EXCEPT !.record = on] ELSE dec[i]]

SetRecording(on) ==
    /\ recordOn' = on
    /\ RecordAll(on)
    /\ UNCHANGED <<running, band, count, weight, nextId, voiceMonitorId, known, blacklist>>

\* A new format reaches the decoders through Decoder::setRecording(recordOn_, ...).
SetRecordFormat ==
    /\ RecordAll(recordOn)
    /\ UNCHANGED <<running, band, count, weight, nextId, voiceMonitorId, recordOn,
                   known, blacklist>>

EditBlacklist ==
    /\ \E c \in Countries :
        blacklist' = IF c \in blacklist THEN blacklist \ {c} ELSE blacklist \cup {c}
    /\ UNCHANGED <<running, band, dec, count, weight, nextId, voiceMonitorId, recordOn, known>>

\* A worker decodes a call-progress or C-assignment unit on a voice channel.
LearnAes(i, a) ==
    /\ IsVoice(i)
    /\ dec' = [dec EXCEPT ![i].aes = a]
    /\ known' = known \cup {a}
    /\ UNCHANGED <<running, band, count, weight, nextId, voiceMonitorId, recordOn, blacklist>>

\* A worker decodes an aircraft's ICAO address on some other channel.
AircraftHeard(a) ==
    /\ known' = known \cup {a}
    /\ UNCHANGED <<running, band, dec, count, weight, nextId, voiceMonitorId, recordOn, blacklist>>

-----------------------------------------------------------------------------

Next ==
    \/ Start \/ Stop
    \/ AddDecoder \/ RemoveAll
    \/ \E i \in Live : RemoveDecoder(i) \/ SetVoiceMonitor(i)
    \/ \E i \in Live, freq \in Freqs : SetDecoderFreq(i, freq)
    \/ AutoMonitor
    \/ \E on \in BOOLEAN : SetRecording(on)
    \/ SetRecordFormat \/ EditBlacklist
    \/ \E i \in Live, a \in Aes : LearnAes(i, a)
    \/ \E a \in Aes : AircraftHeard(a)

Spec == Init /\ [][Next]_vars

\* main's frame loop runs autoMonitor in every frame.
FairSpec == Spec /\ WF_vars(AutoMonitor)

-----------------------------------------------------------------------------
(* Properties                                                              *)

TypeOK ==
    /\ running \in BOOLEAN /\ recordOn \in BOOLEAN
    /\ nextId \in 1 .. MaxId + 1
    /\ DOMAIN band \subseteq 1 .. nextId - 1 /\ band \in [DOMAIN band -> BandRec]
    /\ Live \subseteq 1 .. nextId - 1 /\ dec \in [Live -> DecRec]
    /\ count \in [Workers -> Int] /\ weight \in [Workers -> Int]
    /\ voiceMonitorId \in 1 .. MaxId \cup {NoId}
    /\ known \subseteq Aes /\ blacklist \subseteq Countries

\* Every decoder sits in a sub-band that exists, and a sub-band that lost its last
\* decoder is gone: a front end without decoders would burn a worker's time for ever.
BandsExact == DOMAIN band = {dec[i].band : i \in Live}

\* One voice at a time reaches the speakers: the decoder voiceMonitorId_ names, which
\* is alive and a voice decoder, and no other, through adds, removals and retunes.
OneVoiceOnSpeakers ==
    \A i \in Live : dec[i].monitored <=> i = voiceMonitorId /\ IsVoice(i)

MonitorNamesLiveVoice ==
    voiceMonitorId # NoId => voiceMonitorId \in Live /\ IsVoice(voiceMonitorId)

\* feed() skips a worker whose count is 0: the counter is exactly the number of
\* decoders on the worker, and it is 0 when the manager is stopped.
CountExact == \A w \in Workers : count[w] = Cardinality(DecsOn(w))

\* The load counter never falls below the load it stands for.
WeightCoversLoad == \A w \in Workers : weight[w] >= Load(w)

\* decoder_manager.h:133, "weighted load (MSK=3, OQPSK=2, EGC=1)".
WeightIsLoad == \A w \in Workers : weight[w] = Load(w)

\* While a call that may be heard is up, some call is monitored sooner or later.
SomeCallIsMonitored ==
    (\E i \in Live : Eligible(i)) ~> (voiceMonitorId # NoId \/ ~\E i \in Live : Eligible(i))

\* README.md:29, "mute and skip recording for selected countries".
BlacklistedCallIsMuted ==
    \A i \in 1 .. MaxId :
        (i \in Live /\ dec[i].monitored /\ Blacklisted(i))
            ~> ~(i \in Live /\ dec[i].monitored /\ Blacklisted(i))
=============================================================================
