------------------------------ MODULE FlightMap ------------------------------
(***************************************************************************)
(* The aircraft tables of the two receivers, written by decode workers,    *)
(* and the flight map: about once a second updateAircraft merges the two   *)
(* snapshots and looks up, by batches over the network and on a thread of  *)
(* its own, a position for aircraft that were received lately and have     *)
(* sent none.                                                              *)
(*                                                                         *)
(* Times are ticks.  The ICAO address an entry carries is that of its AES  *)
(* id; positions are told apart by when they were taken.                   *)
(***************************************************************************)
EXTENDS Naturals, FiniteSets

CONSTANTS
    Aircraft,   \* AES ids, numbers
    HeardByB,   \* those the second receiver can hear
    Batch,      \* 100: how many are asked for at once
    SeenFor,    \* 1800 s: how long an aircraft counts as received
    GoodFor,    \* 300 s: how long an online position is shown
    Every,      \* 20 s between two requests
    Retry,      \* 60 s after a failure
    End         \* bound: the last tick

Receivers == {"A", "B"}

VARIABLES
    now,
    entry,      \* per receiver and aircraft: known, lastSeen, hasPos, posTime
    dual,       \* dualMode
    online,     \* onlinePositions
    lookup,     \* the request: "none", "asked", "ok" or "error"; its ids, its answer
    positions,  \* online positions: aircraft |-> when taken
    nextLookup, lookupOffset,
    current,    \* history: the map has been updated, and nothing has changed since
    skipped     \* history: requests since an aircraft of an unchanged set was asked for

vars == <<now, entry, dual, online, lookup, positions, nextLookup, lookupOffset, current, skipped>>

Unknown == [known |-> FALSE, seen |-> 0, hasPos |-> FALSE, posTime |-> 0]
NoLookup == [state |-> "none", ids |-> {}, found |-> [a \in {} |-> 0]]

Init ==
    /\ now = 1
    /\ entry = [r \in Receivers |-> [a \in Aircraft |-> Unknown]]
    /\ dual \in BOOLEAN /\ online = FALSE
    /\ lookup = NoLookup /\ positions = [a \in {} |-> 0]
    /\ nextLookup = 0 /\ lookupOffset = 0
    /\ current = FALSE
    /\ skipped = [ids |-> {}, since |-> [a \in Aircraft |-> 0]]

-----------------------------------------------------------------------------
(* AircraftTable                                                           *)

Write(r, a, e) ==
    /\ entry' = [entry EXCEPT ![r][a] = e]
    /\ current' = FALSE
    /\ UNCHANGED <<now, dual, online, lookup, positions, nextLookup, lookupOffset, skipped>>

\* update: an ACARS message, with a position or without; setIcao: a call on a C channel.
Update(r, a) ==
    /\ r = "B" => dual /\ a \in HeardByB
    /\ \/ Write(r, a, [known |-> TRUE, seen |-> now, hasPos |-> TRUE, posTime |-> now])
       \/ Write(r, a, [entry[r][a] EXCEPT !.known = TRUE, !.seen = now])

\* The Clear button of the aircraft panel, which lists both tables and clears one.
Clear ==
    /\ entry' = [entry EXCEPT !["A"] = [a \in Aircraft |-> Unknown]]
    /\ current' = FALSE
    /\ UNCHANGED <<now, dual, online, lookup, positions, nextLookup, lookupOffset, skipped>>

Tick ==
    /\ now < End /\ now' = now + 1
    /\ current' = FALSE
    /\ UNCHANGED <<entry, dual, online, lookup, positions, nextLookup, lookupOffset, skipped>>

SetOnline ==
    /\ online' = ~online
    /\ current' = FALSE
    /\ UNCHANGED <<now, entry, dual, lookup, positions, nextLookup, lookupOffset, skipped>>

-----------------------------------------------------------------------------
(* The map                                                                 *)

\* What drawFlightMap passes on: one entry or two of an aircraft.
Entries(a) == {entry[r][a] : r \in {q \in Receivers : (q = "A" \/ dual) /\ entry[q][a].known}}
Received == {a \in Aircraft : Entries(a) # {}}

\* flightMapLookupIds.
LookupIds ==
    {a \in Received : /\ \E e \in Entries(a) : ~e.hasPos /\ now - e.seen <= SeenFor
                      /\ \A e \in Entries(a) : ~e.hasPos}

\* Its result is a std::set, which is in order: how many come before an aircraft.
Place(a) == Cardinality({b \in LookupIds : b < a})

Latest(es, Time(_)) == CHOOSE e \in es : \A f \in es : Time(f) <= Time(e)

\* Mutant of Merged: the entry seen last is the row.
SeenLast(a) == Latest(Entries(a), LAMBDA e : e.seen)

\* flightMapJson: the entry seen last, with the newest position of the two.
Merged(a) ==
    LET target == Latest(Entries(a), LAMBDA e : e.seen)
        placed == {e \in Entries(a) : e.hasPos}
        newest == Latest(placed, LAMBDA e : e.posTime)
    IN IF placed = {} THEN target
       ELSE [target EXCEPT !.hasPos = TRUE, !.posTime = newest.posTime]

\* What the map shows of an aircraft.
Row(a) ==
    LET m == Merged(a) IN
    IF m.hasPos THEN <<"decoded", m.posTime>>
    ELSE IF a \in DOMAIN positions /\ now - positions[a] <= GoodFor /\ now - m.seen <= SeenFor
    THEN <<"online", positions[a]>>
    ELSE <<"none", 0>>

\* The answer that has come, if the box is still ticked.
Answered ==
    IF online /\ lookup.state = "ok"
    THEN [a \in (DOMAIN positions \ lookup.ids) \cup DOMAIN lookup.found |->
            IF a \in DOMAIN lookup.found THEN lookup.found[a] ELSE positions[a]]
    ELSE positions

StillWanted(ps) == {a \in DOMAIN ps : online /\ a \in LookupIds /\ now - ps[a] <= GoodFor}

NextOffset(asked, all) == (lookupOffset + asked) % all

\* updateAircraft, in the UI thread.
UpdateAircraft ==
    LET kept == StillWanted(Answered)
        all == Cardinality(LookupIds)
        size == IF Batch < all THEN Batch ELSE all
        batch == {a \in LookupIds : \E i \in 0..(size - 1) : Place(a) = (lookupOffset + i) % all}
        waiting == IF online /\ lookup.state = "error" THEN now + Retry ELSE nextLookup
        asks == online /\ LookupIds # {} /\ lookup.state # "asked" /\ now >= waiting
        since == IF skipped.ids = LookupIds THEN skipped.since ELSE [a \in Aircraft |-> 0]
    IN
    /\ ~current
    /\ positions' = [a \in kept |-> Answered[a]]
    /\ IF asks
       THEN /\ lookup' = [state |-> "asked", ids |-> batch, found |-> [a \in {} |-> 0]]
            /\ nextLookup' = now + Every
            /\ lookupOffset' = NextOffset(size, all)
            /\ skipped' = [ids |-> LookupIds,
                           since |-> [a \in Aircraft |-> IF a \in batch THEN 0 ELSE since[a] + 1]]
       ELSE /\ lookup' = IF lookup.state = "asked" THEN lookup ELSE NoLookup
            /\ nextLookup' = waiting
            /\ skipped' = [ids |-> LookupIds, since |-> since]
            /\ UNCHANGED lookupOffset
    /\ current' = (lookup.state \in {"none", "asked"})
    /\ UNCHANGED <<now, entry, dual, online>>

\* lookupPositions on its thread: positions of some of the aircraft asked for, none taken
\* longer ago than it is good for, or an error.
Answer ==
    /\ lookup.state = "asked"
    /\ \/ \E found \in SUBSET lookup.ids, age \in {0, GoodFor} :
            /\ age <= now
            /\ lookup' = [lookup EXCEPT !.state = "ok", !.found = [a \in found |-> now - age]]
       \/ lookup' = [lookup EXCEPT !.state = "error"]
    /\ current' = FALSE
    /\ UNCHANGED <<now, entry, dual, online, positions, nextLookup, lookupOffset, skipped>>

Next ==
    \/ \E r \in Receivers, a \in Aircraft : Update(r, a)
    \/ Clear
    \/ Tick
    \/ SetOnline
    \/ UpdateAircraft
    \/ Answer

Spec == Init /\ [][Next]_vars

-----------------------------------------------------------------------------
(* Properties                                                              *)

\* "A later voice/identity message must not discard a received position": whichever
\* receiver heard the aircraft last, the map shows the newest position either decoded.
MapShowsNewestPosition ==
    \A a \in Received :
        LET placed == {e.posTime : e \in {f \in Entries(a) : f.hasPos}} IN
        placed # {} => Row(a)[1] = "decoded" /\ \A t \in placed : t <= Row(a)[2]

\* Positions of the network are a last resort: with the box ticked, for aircraft received
\* lately that sent no position, and not for longer than they are good for, whenever
\* answers come and the box is clicked.
OnlineOnlyAsLastResort ==
    \A a \in DOMAIN positions : current =>
        online /\ a \in LookupIds /\ now - positions[a] <= GoodFor

\* The rotating batches come by every aircraft: of an unchanged set none is left out
\* of more requests than it takes to ask for the others.
EveryAircraftIsAskedFor ==
    \A a \in skipped.ids : skipped.since[a] * Batch < Cardinality(skipped.ids)

\* The rows of the map, decoded and looked up.
MapIsCurrent == MapShowsNewestPosition /\ OnlineOnlyAsLastResort /\ EveryAircraftIsAskedFor
=============================================================================
