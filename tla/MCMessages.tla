------------------------------ MODULE MCMessages -----------------------------
(***************************************************************************)
(* What the station receives and writes, in one specification: IQ          *)
(* recordings (IqRecorder, which this module extends), the outputs of      *)
(* messages, EGC packets and their logs, the archives, the flight map. A   *)
(* behaviour is one of the part that `part' names; the variables of the    *)
(* others stay as they are.                                                *)
(***************************************************************************)
EXTENDS IqRecorder

CONSTANTS
    Ids, KMax, MaxMessages, Clients, MaxToggles,         \* of MessageFeed
    Channels, MessageIds, PktNos, Mes, Stations, MaxPackets,   \* of EgcDecoder, with KMax
    Workers, BufferSize, MaxAge, OldFiles, StartTime, EndTime, MaxRows,   \* of MessageStore
    Aircraft, HeardByB, Batch, SeenFor, GoodFor, Every, Retry, LastTick   \* of FlightMap

ASSUME MessagesAssumption ==
    /\ KMax \in Nat \ {0} /\ MaxMessages \in Nat /\ IsFiniteSet(Clients)
    /\ PktNos \subseteq Nat
    /\ BufferSize \in Nat /\ MaxAge \in Nat /\ OldFiles \subseteq Nat /\ StartTime \in Nat
    /\ IsFiniteSet(Aircraft) /\ Aircraft \subseteq Nat
    /\ Batch \in Nat \ {0} /\ SeenFor \in Nat /\ GoodFor \in Nat

\* Field lists: some fit the buffer of five characters and some do not, one has a bar.
Packable == {<< <<"a">>, <<"b", "c">> >>,
             << <<"a", "b", "c", "d">>, <<"e">> >>,
             << <<"a", "|">>, <<"b">> >>}

VARIABLE part   \* the part this behaviour is about

\* MessageFeed
VARIABLES merges, msgs, count, lastFed, frame, at, outFile, outSbs, disk, fileEnabled,
          sbsEnabled, pending, clients, closed, full, toggles, fed, gone, missed,
          merged, stale, unsent, owed, reached
\* EgcDecoder
VARIABLES n, mfa, aaBuf, lastLesKey, egcLog, lesLog, mesLog, stations, chains, starts
\* MessageStore
VARIABLES now, logToDb, enabled, db, files, busy, paths, combo, archive, removed
\* FlightMap
VARIABLES clock, entry, dual, online, lookup, positions, nextLookup, lookupOffset,
          current, skipped

recorder == <<ringCap, ring, f, recording, dataBytes, on, pc, blk, got, op, uiPc, ok,
              fault, file, header, raced, unsafe>>
feeds == <<merges, msgs, count, lastFed, frame, at, outFile, outSbs, disk, fileEnabled,
           sbsEnabled, pending, clients, closed, full, toggles, fed, gone, missed,
           merged, stale, unsent, owed, reached>>
packets == <<n, mfa, aaBuf, lastLesKey, egcLog, lesLog, mesLog, stations, chains, starts>>
archives == <<now, logToDb, enabled, db, files, busy, paths, combo, archive, removed>>
flights == <<clock, entry, dual, online, lookup, positions, nextLookup, lookupOffset,
             current, skipped>>

Feed == INSTANCE MessageFeed WITH got <- reached, raced <- missed
Packets == INSTANCE EgcDecoder
Store == INSTANCE MessageStore WITH Messages <- Packable, Start <- StartTime, End <- EndTime
Map == INSTANCE FlightMap WITH End <- LastTick, now <- clock

\* The variables of a part that is not looked at.
Off == 0
FeedsOff ==
    /\ merges = Off /\ msgs = Off /\ count = Off /\ lastFed = Off /\ frame = Off
    /\ at = Off /\ outFile = Off /\ outSbs = Off /\ disk = Off /\ fileEnabled = Off
    /\ sbsEnabled = Off /\ pending = Off /\ clients = Off /\ closed = Off /\ full = Off
    /\ toggles = Off /\ fed = Off /\ gone = Off /\ missed = Off /\ merged = Off
    /\ stale = Off /\ unsent = Off /\ owed = Off /\ reached = Off
PacketsOff ==
    /\ n = Off /\ mfa = Off /\ aaBuf = Off /\ lastLesKey = Off /\ egcLog = Off
    /\ lesLog = Off /\ mesLog = Off /\ stations = Off /\ chains = Off /\ starts = Off
ArchivesOff ==
    /\ now = Off /\ logToDb = Off /\ enabled = Off /\ db = Off /\ files = Off
    /\ busy = Off /\ paths = Off /\ combo = Off /\ archive = Off /\ removed = Off
FlightsOff ==
    /\ clock = Off /\ entry = Off /\ dual = Off /\ online = Off /\ lookup = Off
    /\ positions = Off /\ nextLookup = Off /\ lookupOffset = Off /\ current = Off
    /\ skipped = Off

SumInit ==
    \* the variables of IqRecorder are its own in every part
    \/ /\ part = "recorder" /\ Init
       /\ FeedsOff /\ PacketsOff /\ ArchivesOff /\ FlightsOff
    \/ /\ part = "feeds" /\ Feed!Init
       /\ Init
       /\ PacketsOff /\ ArchivesOff /\ FlightsOff
    \/ /\ part = "packets" /\ Packets!Init
       /\ Init
       /\ FeedsOff /\ ArchivesOff /\ FlightsOff
    \/ /\ part = "archives" /\ Store!Init
       /\ Init
       /\ FeedsOff /\ PacketsOff /\ FlightsOff
    \/ /\ part = "flights" /\ Map!Init
       /\ Init
       /\ FeedsOff /\ PacketsOff /\ ArchivesOff

SumNext ==
    \/ /\ part = "recorder" /\ Next
       /\ UNCHANGED <<part, feeds, packets, archives, flights>>
    \/ /\ part = "feeds" /\ Feed!Next
       /\ UNCHANGED <<part, recorder, packets, archives, flights>>
    \/ /\ part = "packets" /\ Packets!Next
       /\ UNCHANGED <<part, recorder, feeds, archives, flights>>
    \/ /\ part = "archives" /\ Store!Next
       /\ UNCHANGED <<part, recorder, feeds, packets, flights>>
    \/ /\ part = "flights" /\ Map!Next
       /\ UNCHANGED <<part, recorder, feeds, packets, archives>>

sumVars == <<part, recorder, feeds, packets, archives, flights>>
SumSpec == SumInit /\ [][SumNext]_sumVars
-----------------------------------------------------------------------------
(* The properties of the parts, as their modules state them.               *)

\* Each message is fed, or its loss is accounted for.
FeedAccountsForEveryMessage == part = "feeds" => Feed!FeedAccountsForEveryMessage

\* A connected SBS client gets every position.
EveryClientGetsEveryPosition == part = "feeds" => Feed!EveryClientGetsEveryPosition

\* Split packets and numbered parts are put together as they were sent.
PartsAreReassembled == part = "packets" => Packets!PartsAreReassembled

\* The archives: what is written, how it reads back and how long it is kept.
ArchiveIsKept == part = "archives" => Store!ArchiveIsKept

\* The map shows the newest positions, looked up ones as a last resort.
MapIsCurrent == part = "flights" => Map!MapIsCurrent
=============================================================================
