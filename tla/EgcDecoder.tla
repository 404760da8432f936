----------------------------- MODULE EgcDecoder -----------------------------
(***************************************************************************)
(* The packet layer of an Inmarsat-C decoder and the logs it writes.  A    *)
(* frame that passed the unique word search is a sequence of packets;      *)
(* decodeFrame handles those whose check sum is right.  A packet that did  *)
(* not fit a frame is split: BD brings its first bytes, BE the others.  AA *)
(* packets carry numbered parts of a private message of a logical channel  *)
(* of a land station; packets of terminal activity name a terminal, the    *)
(* channels of land stations, or neither.  Texts are packet numbers.       *)
(***************************************************************************)
EXTENDS Naturals, Sequences, SequencesExt

CONSTANTS
    Channels,    \* satellite, station and logical channel: the key of aaBuf
    MessageIds,  \* message ids of EGC packets, positive numbers
    PktNos,      \* packet numbers of AA packets
    Mes,         \* the terminals
    Stations,    \* the downlink channels of land stations, within L band
    KMax,        \* EgcLog::kMax
    MaxPackets   \* bound: packets received

VARIABLES
    n,           \* packets received; the number of a packet stands for its text
    mfa,         \* mfaData, mfaExpected, mfaFilled, mfaActive
    aaBuf,       \* per channel: last packet number, encoding, assembled text
    lastLesKey,
    egcLog, lesLog,
    mesLog,      \* MesLog: messages about each terminal
    stations,    \* LesFreqTable: the channels it has
    chains,      \* history: per channel, the AA packets received
    starts       \* history: packet |-> how often it was started, how often delivered

vars == <<n, mfa, aaBuf, lastLesKey, egcLog, lesLog, mesLog, stations, chains, starts>>

NoKey == "none"
TerminalId == 0

\* What a split packet may hold.
Inner == [type : {"egc", "aa", "terminal"}, id : MessageIds, key : Channels]

Init ==
    /\ n = 0
    /\ mfa = [active |-> FALSE, of |-> 0, filled |-> 0, expected |-> 0, inner |-> <<>>]
    /\ aaBuf = [c \in Channels |-> [last |-> 0, ita2 |-> FALSE, text |-> <<>>]]
    /\ lastLesKey = NoKey
    /\ egcLog = <<>> /\ lesLog = <<>>
    /\ mesLog = [m \in Mes |-> 0] /\ stations = {}
    /\ chains = [c \in Channels |-> <<>>]
    /\ starts = [p \in {} |-> 0]

-----------------------------------------------------------------------------
\* EgcLog::add: a message goes to the newest entry that has its id, or becomes one.
Matching(log, id) == {i \in DOMAIN log : log[i].id = id}

Logged(log, id, text) ==
    IF Matching(log, id) = {}
    THEN LET longer == Append(log, [id |-> id, texts |-> <<text>>])
         IN IF Len(longer) > KMax THEN Tail(longer) ELSE longer
    ELSE LET i == CHOOSE i \in Matching(log, id) : \A j \in Matching(log, id) : j <= i
         IN [log EXCEPT ![i].texts = Append(@, text)]

\* emitEgc.
EmitEgc(id, p) ==
    /\ egcLog' = Logged(egcLog, id, p)
    /\ UNCHANGED <<aaBuf, lastLesKey, lesLog, mesLog, stations, chains>>

\* emitTerminal, always with id 0, and what the packet says of a terminal and of stations.
EmitTerminal(mes, heard, p) ==
    /\ egcLog' = Logged(egcLog, TerminalId, p)
    /\ mesLog' = [m \in Mes |-> mesLog[m] + IF m \in mes THEN 1 ELSE 0]
    /\ stations' = stations \cup heard
    /\ UNCHANGED <<aaBuf, lastLesKey, lesLog, chains>>

\* Mutant of Assembled: any packet but the first is appended.
AppendsAlways(buf, pkt, part) == IF pkt <= 1 THEN <<part>> ELSE Append(buf.text, part)

Assembled(buf, pkt, part) ==
    IF pkt > 1 /\ pkt > buf.last THEN Append(buf.text, part) ELSE <<part>>

\* handleAaPacket: looks is what the bytes of this packet look like.
HandleAa(c, pkt, looks, p) ==
    LET buf == aaBuf[c]
        ita2 == IF buf.last = 0 THEN looks ELSE buf.ita2
        text == Assembled(buf, pkt, [packet |-> p, ita2 |-> ita2])
    IN
    /\ aaBuf' = [aaBuf EXCEPT ![c] = [last |-> pkt, ita2 |-> ita2, text |-> text]]
    /\ egcLog' = Logged(egcLog, TerminalId, p)
    /\ lesLog' = IF lastLesKey = c THEN lesLog
                 ELSE Append(lesLog, [key |-> c, text |-> text])
    /\ lastLesKey' = c
    /\ chains' = [chains EXCEPT ![c] = Append(@, [packet |-> p, pkt |-> pkt, looks |-> looks])]
    /\ UNCHANGED <<mesLog, stations>>

Receive == n < MaxPackets /\ n' = n + 1

-----------------------------------------------------------------------------
\* One action per kind of packet.
Egc(id) == Receive /\ EmitEgc(id, n') /\ UNCHANGED <<mfa, starts>>

\* Request to acknowledge, signalling channel: nothing else is kept.
Activity == Receive /\ EmitTerminal({}, {}, n') /\ UNCHANGED <<mfa, starts>>

\* Clear, poll, confirmation, acknowledgement: of a terminal.
ActivityOfMes(m) == Receive /\ EmitTerminal({m}, {}, n') /\ UNCHANGED <<mfa, starts>>

\* Announcement and assignment: a terminal is to listen to a station.
Assignment(m, s) == Receive /\ EmitTerminal({m}, {s}, n') /\ UNCHANGED <<mfa, starts>>

\* Log-in acknowledgement and station list.
StationList(heard) == Receive /\ EmitTerminal({}, heard, n') /\ UNCHANGED <<mfa, starts>>

Aa(c, pkt, looks) == Receive /\ HandleAa(c, pkt, looks, n') /\ UNCHANGED <<mfa, starts>>

\* 0xBD: the first bytes of a split packet; the one being assembled is given up.  The
\* bytes are counted in halves of the packet.
SplitStart(inner, have) ==
    /\ Receive
    /\ mfa' = [active |-> TRUE, of |-> n', filled |-> have, expected |-> 2, inner |-> inner]
    /\ starts' = [p \in DOMAIN starts \cup {n'} |-> IF p = n' THEN 0 ELSE starts[p]]
    /\ UNCHANGED <<aaBuf, lastLesKey, egcLog, lesLog, mesLog, stations, chains>>

\* Whatever a continuation brought, it ends the assembly.
AfterContinuation(filled) == [mfa EXCEPT !.filled = filled, !.active = FALSE]

\* 0xBE: cnt more bytes, of the packet whose start was number of.  The check sum of the
\* whole holds if all of it belongs together.
SplitContinue(of, cnt, pkt, looks) ==
    /\ Receive
    /\ of \in DOMAIN starts
    /\ IF ~mfa.active
       THEN UNCHANGED <<mfa, aaBuf, lastLesKey, egcLog, lesLog, mesLog, stations, chains, starts>>
       ELSE LET fits == mfa.filled + cnt <= mfa.expected
                filled == mfa.filled + (IF fits THEN cnt ELSE 0)
                whole == filled = mfa.expected /\ (fits => of = mfa.of)
            IN
            /\ mfa' = AfterContinuation(filled)
            /\ starts' = IF whole THEN [starts EXCEPT ![mfa.of] = @ + 1] ELSE starts
            /\ IF ~whole
               THEN UNCHANGED <<aaBuf, lastLesKey, egcLog, lesLog, mesLog, stations, chains>>
               ELSE CASE mfa.inner.type = "egc" -> EmitEgc(mfa.inner.id, n')
                      [] mfa.inner.type = "aa" -> HandleAa(mfa.inner.key, pkt, looks, n')
                      [] OTHER -> EmitTerminal({}, {}, n')

Next ==
    \/ \E id \in MessageIds : Egc(id)
    \/ Activity
    \/ \E m \in Mes : ActivityOfMes(m)
    \/ \E m \in Mes, s \in Stations : Assignment(m, s)
    \/ \E heard \in SUBSET Stations : StationList(heard)
    \/ \E c \in Channels, pkt \in PktNos, looks \in BOOLEAN : Aa(c, pkt, looks)
    \/ \E inner \in Inner, have \in 1..2 : SplitStart(inner, have)
    \/ \E of \in 1..MaxPackets, cnt \in 1..2, pkt \in PktNos, looks \in BOOLEAN :
          SplitContinue(of, cnt, pkt, looks)

Spec == Init /\ [][Next]_vars

-----------------------------------------------------------------------------
(* Properties                                                              *)

\* A split packet is delivered at most once for the start that announced it, however the
\* continuations are repeated, interleaved with other starts or cut.
SplitDeliveredOnce == \A p \in DOMAIN starts : starts[p] <= 1

\* The text assembled for a channel is made of the packets of its newest run of
\* increasing numbers and of nothing from before, over gaps, repetitions and new
\* messages.
Breaks(s) == {i \in DOMAIN s : i = 1 \/ s[i].pkt <= 1 \/ s[i].pkt <= s[i - 1].pkt}

NewestBreak(s) == CHOOSE i \in Breaks(s) : \A j \in Breaks(s) : j <= i

AssembledIsNewestRun ==
    \A c \in Channels : chains[c] # <<>> =>
        LET first == NewestBreak(chains[c])
        IN [i \in DOMAIN aaBuf[c].text |-> aaBuf[c].text[i].packet]
             = [i \in 1..(Len(chains[c]) + 1 - first) |-> chains[c][first + i - 1].packet]

\* Split packets and numbered parts are put together as they were sent.
PartsAreReassembled == SplitDeliveredOnce /\ AssembledIsNewestRun
=============================================================================
