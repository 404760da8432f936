----------------------------- MODULE MessageFeed -----------------------------
(***************************************************************************)
(* One message log and the outputs it feeds.  Decode workers append to the *)
(* log; once per frame updateFeed sets up the outputs, takes count() and,  *)
(* in a second lock region, snapshot(), and hands the newest entries to    *)
(* the feed: a file, and for ACARS positions the SBS clients that have     *)
(* connected.                                                              *)
(*                                                                         *)
(* A message is the number of the append that brought it.  EgcLog adds the *)
(* text of a message to the entry that has its id, the other logs make     *)
(* an entry of each (Merges).  Archives are not here: their file never     *)
(* opens (MessageStore).                                                   *)
(***************************************************************************)
EXTENDS Ordered, Sequences, SequencesExt

CONSTANTS
    Ids,          \* message ids of EGC messages
    KMax,         \* kMax of the log
    MaxMessages,  \* bound: messages appended
    Clients,      \* SBS clients
    MaxToggles    \* bound: changes of the output panel

VARIABLES
    merges,       \* the log is the EGC log
    msgs,         \* msgs_: entries, each the sequence of its messages
    count,        \* count_
    lastFed,      \* lastAcarsFed or lastEgcFed
    frame,        \* the UI thread in updateFeed: "idle" or "counted"
    at,           \* what count() returned
    outFile, outSbs,       \* the check boxes
    disk,         \* the file can be opened
    fileEnabled, sbsEnabled,
    pending,      \* connections the listener has not accepted yet
    clients,      \* sbsClients_
    closed,       \* clients that have closed their end
    full,         \* clients whose socket buffer is full
    toggles

\* History: how often each message was handed over, messages that left the log
\* unread, messages appended between count() and snapshot(), messages merged into an
\* entry, entries handed over with nothing new in them, lines counted as sent that had
\* no output to go to; what each SBS client should have got since it connected, and got.
VARIABLES fed, gone, raced, merged, stale, unsent, owed, got

logs    == <<merges, msgs, count, gone, raced, merged>>
panel   == <<outFile, outSbs, disk, toggles>>
outputs == <<fileEnabled, sbsEnabled, pending, clients, closed, full, owed, got>>
feeding == <<lastFed, frame, at, fed, stale, unsent>>
vars == <<logs, feeding, panel, outputs>>

Init ==
    /\ merges \in BOOLEAN /\ msgs = <<>> /\ count = 0 /\ lastFed = 0
    /\ frame = "idle" /\ at = 0
    /\ outFile = FALSE /\ outSbs = TRUE /\ disk = TRUE /\ toggles = 0
    /\ fileEnabled = FALSE /\ sbsEnabled = FALSE
    /\ pending = {} /\ clients = <<>> /\ closed = {} /\ full = {}
    /\ fed = [m \in 1..MaxMessages |-> 0] /\ gone = {} /\ raced = 0 /\ merged = 0
    /\ stale = 0 /\ unsent = 0
    /\ owed = [c \in Clients |-> {}] /\ got = [c \in Clients |-> {}]

Parts(entries) == UNION {ToSet(entries[i].texts) : i \in DOMAIN entries}
Unread(entries) == {m \in Parts(entries) : m > lastFed}

-----------------------------------------------------------------------------
(* The log, in the decode workers                                          *)

\* Entries beyond kMax go, the oldest first.
Trimmed(entries) == SubSeq(entries, IF Len(entries) > KMax THEN Len(entries) - KMax + 1 ELSE 1,
                           Len(entries))

Appended(m, id) ==
    LET same == {i \in DOMAIN msgs : merges /\ msgs[i].id = id}
        newest == CHOOSE i \in same : \A j \in same : j <= i
        longer == Append(msgs, [id |-> id, texts |-> <<m>>])
    IN IF same # {} THEN [msgs EXCEPT ![newest].texts = Append(@, m)] ELSE Trimmed(longer)

Add(id) ==
    /\ count < MaxMessages
    /\ count' = count + 1
    /\ msgs' = Appended(count', id)
    /\ gone' = gone \cup (Unread(msgs) \ Parts(msgs'))
    /\ raced' = IF frame = "counted" THEN raced + 1 ELSE raced
    /\ merged' = IF \E i \in DOMAIN msgs : merges /\ msgs[i].id = id THEN merged + 1 ELSE merged
    /\ UNCHANGED <<merges, feeding, panel, outputs>>

\* The Clear button, between two frames' updateFeed: the count stays.
Clear ==
    /\ frame = "idle" /\ msgs # <<>> /\ toggles < MaxToggles
    /\ msgs' = <<>>
    /\ gone' = gone \cup Unread(msgs)
    /\ toggles' = toggles + 1
    /\ UNCHANGED <<merges, count, raced, merged, feeding, outFile, outSbs, disk, outputs>>

-----------------------------------------------------------------------------
(* The outputs                                                             *)

SetPanel ==
    /\ frame = "idle" /\ toggles < MaxToggles
    /\ toggles' = toggles + 1
    /\ \/ outFile' = ~outFile /\ UNCHANGED <<outSbs, disk>>
       \/ outSbs' = ~outSbs /\ UNCHANGED <<outFile, disk>>
       \/ disk' = ~disk /\ UNCHANGED <<outFile, outSbs>>
    /\ UNCHANGED <<logs, feeding, outputs>>

\* A client connects to the listening socket; later it may close, or stop reading.
Connect(c) ==
    /\ sbsEnabled
    /\ c \notin pending \cup ToSet(clients) \cup closed
    /\ pending' = pending \cup {c}
    /\ owed' = [owed EXCEPT ![c] = {}] /\ got' = [got EXCEPT ![c] = {}]
    /\ UNCHANGED <<logs, feeding, panel, fileEnabled, sbsEnabled, clients, closed, full>>

Close(c) ==
    /\ c \in (pending \cup ToSet(clients)) \ closed
    /\ closed' = closed \cup {c}
    /\ UNCHANGED <<logs, feeding, panel, fileEnabled, sbsEnabled, pending, clients, full, owed, got>>

Stall(c) ==
    /\ c \in ToSet(clients) /\ full' = (IF c \in full THEN full \ {c} ELSE full \cup {c})
    /\ UNCHANGED <<logs, feeding, panel, fileEnabled, sbsEnabled, pending, clients, closed, owed, got>>

\* Mutant of Visited: after an erase the index moves on, past the next client.
SkipsAfterErase(cs, out) ==
    {i \in DOMAIN cs : i = 1 \/ cs[i - 1] \notin out \/ (i > 2 /\ cs[i - 2] \in out)}

\* The loops over sbsClients_ erase those in out while they iterate; they come by every
\* client.
Visited(cs, out) == DOMAIN cs

Kept(cs, out) ==
    LET erased == {cs[i] : i \in {i \in Visited(cs, out) : cs[i] \in out}}
    IN Selected(cs, {i \in DOMAIN cs : cs[i] \notin erased})

\* setFileEnabled, setSbsEnabled, pollSbs: with the listener closed its clients are gone;
\* with it open new ones are accepted, and closed ones taken out.
Outputs ==
    /\ fileEnabled' = (outFile /\ (fileEnabled \/ disk))
    /\ sbsEnabled' = outSbs
    /\ clients' = IF outSbs THEN Kept(clients \o SetToSeq(pending), closed) ELSE <<>>
    /\ pending' = {}
    /\ closed' = closed \cap ToSet(clients')
    /\ full' = full \cap ToSet(clients')

\* The first half of updateFeed: the outputs, then count().
FrameCounts ==
    /\ frame = "idle"
    /\ Outputs
    /\ at' = count
    /\ frame' = IF count > lastFed THEN "counted" ELSE "idle"
    /\ UNCHANGED <<logs, lastFed, fed, stale, unsent, panel, owed, got>>

\* Mutant of Window: as many entries as there is news, also when the log is shorter.
OffByOne ==
    LET newN == IF at - lastFed >= Len(msgs) THEN Len(msgs) - 1 ELSE at - lastFed
    IN (Len(msgs) - newN + 1)..Len(msgs)

\* The newest entries of the snapshot, as many as messages have come.
Window ==
    LET newN == IF at - lastFed > Len(msgs) THEN Len(msgs) ELSE at - lastFed
    IN (Len(msgs) - newN + 1)..Len(msgs)

\* emit counts a line; feedAcars gets there with a file or UDP, feedEgc with any output.
Counted == fileEnabled \/ (merges /\ sbsEnabled)

\* emitSbs: accepts who is waiting, sends to every client, takes out those to which that
\* fails; a closed one may still take it.
EmitSbs(sent) ==
    \E failed \in SUBSET closed :
    LET all == clients \o SetToSeq(pending)
        reached == {all[i] : i \in Visited(all, failed)}
    IN /\ clients' = Kept(all, failed) /\ pending' = {}
       /\ closed' = closed \cap ToSet(clients')
       /\ owed' = [c \in Clients |-> IF c \in ToSet(all) \ full THEN owed[c] \cup sent ELSE owed[c]]
       /\ got' = [c \in Clients |-> IF c \in reached \ full THEN got[c] \cup sent ELSE got[c]]
       /\ UNCHANGED full

\* The second half: snapshot(), then feedAcars or feedEgc for each entry of the window.
FrameFeeds ==
    /\ frame = "counted" /\ frame' = "idle"
    /\ LET sent == UNION {ToSet(msgs[i].texts) : i \in Window} IN
       /\ fed' = [m \in DOMAIN fed |-> IF m \in sent THEN fed[m] + 1 ELSE fed[m]]
       /\ stale' = stale + Cardinality({i \in Window : \A m \in ToSet(msgs[i].texts) : fed[m] > 0})
       /\ unsent' = IF Counted /\ ~fileEnabled THEN unsent + Cardinality(Window) ELSE unsent
       /\ IF sbsEnabled /\ ~merges /\ sent # {} THEN EmitSbs(sent)
          ELSE UNCHANGED <<pending, clients, closed, full, owed, got>>
    /\ lastFed' = at
    /\ UNCHANGED <<logs, at, panel, fileEnabled, sbsEnabled>>

Next ==
    \/ \E id \in Ids : Add(id)
    \/ Clear
    \/ SetPanel
    \/ \E c \in Clients : Connect(c) \/ Close(c) \/ Stall(c)
    \/ FrameCounts
    \/ FrameFeeds

Spec == Init /\ [][Next]_vars

-----------------------------------------------------------------------------
(* Properties                                                              *)

\* Each message is handed over, and each entry handed over has something new, except for
\* what left the log before the frame came by, and for as many as were appended between
\* count() and snapshot() or merged into an older entry.  A line counted as sent went
\* somewhere, unless it is of EGC or LES and the SBS server the only output.
FeedAccountsForEveryMessage ==
    /\ Cardinality({m \in 1..lastFed : fed[m] = 0} \ gone) <= raced + merged
    /\ stale <= raced + merged
    /\ unsent > 0 => merges

\* A client that stays connected and reads gets every position fed since it connected,
\* whatever the other clients do.
EveryClientGetsEveryPosition ==
    \A c \in ToSet(clients) \ closed : owed[c] \subseteq got[c]

=============================================================================
