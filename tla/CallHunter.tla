----------------------------- MODULE CallHunter -----------------------------
(***************************************************************************)
(* The call hunter: every frame, the peaks of A's spectrum confirm         *)
(* candidates, a candidate confirmed often enough gets a voice decoder on  *)
(* A, and loses it when it was silent too often.  It runs on the UI thread *)
(* between tunings, follows, restarts and the user's own decoders, which   *)
(* change the decoders and do not tell it.  While a follow is on, or A is  *)
(* stopped, a frame does nothing here.                                     *)
(*                                                                         *)
(* A frequency is a channel of the band; peaks, signals above the baseline *)
(* and locks of decoders are chosen by the environment.                    *)
(***************************************************************************)
EXTENDS Naturals, Sequences, FiniteSets, Ordered

CONSTANTS
    Channels,   \* numbers, in the order of their frequencies
    Confirm,    \* callHunterConfirm
    Lost,       \* callHunterLost
    MaxIdA, MaxIdB   \* bounds: ids each manager has given out

Receivers == {"A", "B"}

\* channelId of a candidate: none yet, or a decoder was there already.
NoDecoder == 0
Covered == MaxIdA + 1
MaxId(r) == IF r = "A" THEN MaxIdA ELSE MaxIdB

VARIABLES
    hunt,       \* callHunterMode with callHunterBaseline: off, no baseline, settling, hunting
    dual,
    dec,        \* the decoders of each manager
    nextId,     \* DecoderManager::nextId_, which nothing resets
    cands       \* callHunterCands

vars == <<hunt, dual, dec, nextId, cands>>

\* by and quiet are history: who added it, and for how many frames the hunter had no
\* sign of it.
Decoder(id, ch, by) == [id |-> id, ch |-> ch, by |-> by, quiet |-> 0]

Init ==
    /\ hunt = "off"
    /\ dual \in BOOLEAN
    /\ dec = [r \in Receivers |-> {}]
    /\ nextId = [r \in Receivers |-> 1]
    /\ cands = <<>>

-----------------------------------------------------------------------------
(* updateCallHunter, step by step                                          *)

\* What a frame sees: peaks above the threshold, channels with a signal above the
\* baseline, decoders that are locked.
Spectra == {s \in [peaks : SUBSET Channels, visible : SUBSET Channels] : s.peaks \subseteq s.visible}

Locks == SUBSET UNION {{<<r, d.id>> : d \in dec[r]} : r \in Receivers}

\* The peaks without a candidate become candidates.
WithNew(peaks) ==
    LET known == {cands[i].ch : i \in DOMAIN cands}
        new == Sorted(peaks \ known)
    IN cands \o [i \in DOMAIN new |-> [ch |-> new[i], confirm |-> 0, lost |-> 0, id |-> NoDecoder]]

\* decoderLocked: the ids of both managers in one map, B after A.
IsLocked(id, locks) ==
    IF dual /\ \E d \in dec["B"] : d.id = id THEN <<"B", id>> \in locks
    ELSE (\E d \in dec["A"] : d.id = id) /\ <<"A", id>> \in locks

SeenAs(c, sees, locks) ==
    IF c.ch \in sees.peaks
    THEN [c EXCEPT !.confirm = IF @ < Confirm THEN @ + 1 ELSE @, !.lost = 0]
    ELSE IF c.id # NoDecoder /\ (IsLocked(c.id, locks) \/ c.ch \in sees.visible) THEN c
    ELSE [c EXCEPT !.confirm = 0, !.lost = @ + 1]

HasDecoder(ch) ==
    \E r \in Receivers : (r = "B" => dual) /\ \E d \in dec[r] : d.ch = ch

\* A candidate confirmed gets a decoder unless its channel has one.
Spawns(c) == c.id = NoDecoder /\ c.confirm >= Confirm /\ ~HasDecoder(c.ch)

Spawned(c, id) ==
    IF c.id # NoDecoder \/ c.confirm < Confirm THEN c
    ELSE [c EXCEPT !.id = IF HasDecoder(c.ch) THEN Covered ELSE id]

Ended(c) == c.id \notin {NoDecoder, Covered} /\ c.lost >= Lost

GivenUp(c) == c.id = Covered \/ (c.id = NoDecoder /\ c.lost > 3 * Lost)

\* Mutant of Removed: a candidate is dropped with its decoder left behind.
RemovesConfirmed(list) ==
    {list[i].id : i \in {j \in DOMAIN list : Ended(list[j]) /\ list[j].confirm > 0}}

Removed(list) == {list[i].id : i \in {j \in DOMAIN list : Ended(list[j])}}

Quieter(d, sees, locks) ==
    [d EXCEPT !.quiet = IF <<"A", d.id>> \in locks \/ d.ch \in sees.visible THEN 0
                        ELSE IF @ <= Lost THEN @ + 1 ELSE @]

Hunt(sees, locks) ==
    LET all == WithNew(sees.peaks)
        seen == [i \in DOMAIN all |-> SeenAs(all[i], sees, locks)]
        spawning == {i \in DOMAIN seen : Spawns(seen[i])}
        list == [i \in DOMAIN seen |-> Spawned(seen[i], nextId["A"] + Rank(spawning, i) - 1)]
    IN
    /\ hunt = "hunting"
    /\ nextId["A"] + Cardinality(spawning) <= MaxIdA + 1
    /\ dec' = [dec EXCEPT !["A"] =
                  {d \in {Quieter(d, sees, locks) : d \in dec["A"]}
                         \cup {Decoder(list[i].id, list[i].ch, "hunter") : i \in spawning} :
                      d.id \notin Removed(list)}]
    /\ nextId' = [nextId EXCEPT !["A"] = @ + Cardinality(spawning)]
    /\ cands' = Selected(list, {i \in DOMAIN list : ~Ended(list[i]) /\ ~GivenUp(list[i])})
    /\ UNCHANGED <<hunt, dual>>

\* The baseline is taken, and settles for a number of frames.
Settle ==
    /\ hunt' = CASE hunt = "new" -> "settling" [] hunt = "settling" -> "hunting" [] OTHER -> hunt
    /\ UNCHANGED <<dual, dec, nextId, cands>>

-----------------------------------------------------------------------------
(* The others                                                              *)

\* The check box: the candidates and their decoders stay.
ToggleHunter ==
    /\ hunt' = IF hunt = "off" THEN "new" ELSE "off"
    /\ UNCHANGED <<dual, dec, nextId, cands>>

AddDecoder(r, ch) ==
    /\ nextId[r] <= MaxId(r) /\ (r = "B" => dual)
    /\ dec' = [dec EXCEPT ![r] = @ \cup {Decoder(nextId[r], ch, "user")}]
    /\ nextId' = [nextId EXCEPT ![r] = @ + 1]
    /\ UNCHANGED <<hunt, dual, cands>>

RemoveDecoder(r, d) ==
    /\ dec' = [dec EXCEPT ![r] = @ \ {d}]
    /\ UNCHANGED <<hunt, dual, nextId, cands>>

\* A tuning, the start or the end of a follow, a restart: the decoders are removed and
\* some are added again, under new ids.  A new centre needs a new baseline,
\* the old one does not.
Retune(r, again) ==
    LET ids == {d.id : d \in again} IN
    /\ nextId[r] + Cardinality(ids) <= MaxIdA + 1
    /\ dec' = [dec EXCEPT ![r] =
                  {Decoder(nextId[r] + Rank(ids, d.id) - 1, d.ch, "user") : d \in again}]
    /\ nextId' = [nextId EXCEPT ![r] = @ + Cardinality(ids)]
    /\ hunt' \in IF r = "B" \/ hunt = "off" THEN {hunt} ELSE {hunt, "new"}
    /\ UNCHANGED <<dual, cands>>

Next ==
    \/ \E sees \in Spectra : \E locks \in Locks : Hunt(sees, locks)
    \/ Settle \/ ToggleHunter
    \/ \E r \in Receivers, ch \in Channels : AddDecoder(r, ch)
    \/ \E r \in Receivers : \E d \in dec[r] : RemoveDecoder(r, d)
    \/ \E r \in Receivers : \E again \in SUBSET dec[r] : Retune(r, again)

Spec == Init /\ [][Next]_vars

-----------------------------------------------------------------------------
(* Properties                                                              *)

\* The hunter keeps track of what it added and touches nothing else, though tunings and
\* the user change the decoders behind its back: each of its decoders has one candidate,
\* and no candidate names a decoder of somebody else, which it would remove one day.
HunterTracksItsOwn ==
    \A d \in dec["A"] :
        Cardinality({i \in DOMAIN cands : cands[i].id = d.id}) = IF d.by = "hunter" THEN 1 ELSE 0

\* One call, one decoder: the hunter adds none where there is one, and loses one of its
\* own after callHunterLost frames without a sign of it when one radio runs.
OneDecoderWhileHeard ==
    \A d \in dec["A"] : d.by = "hunter" =>
        /\ \A e \in dec["A"] : e.id < d.id => e.ch # d.ch
        /\ ~dual => d.quiet < Lost

\* The hunter's decoders are its own, one for each call.
HunterKeepsToItsOwn == HunterTracksItsOwn /\ OneDecoderWhileHeard
=============================================================================
