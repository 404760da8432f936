----------------------------- MODULE LesChannels -----------------------------
(***************************************************************************)
(* Discovered station channels and the EGC decoders made for them: packets *)
(* enter channels in the LesFreqTable of the manager that decoded them,    *)
(* and every frame the LES pane adds decoders for those in reach, at most  *)
(* Cap in a frame, while the user adds and removes decoders and tunings    *)
(* replace them.                                                           *)
(***************************************************************************)
EXTENDS Naturals, Sequences, FiniteSets, FiniteSetsExt, SequencesExt

CONSTANTS
    Bands,        \* where a radio may be tuned
    Band,         \* for every channel the band it is in
    Cap,          \* maxLesAutoDecoders
    MaxDecoders   \* bound: EGC decoders of one manager

Receivers == {"A", "B"}
Stations == DOMAIN Band

VARIABLES
    autoAdd,   \* autoAddLes
    second,    \* dualMode
    tuned,     \* the band of each radio
    egc,       \* the EGC decoders of each manager: channel, added by the pane or not
    table      \* lesFreqTable of each manager: channel, hasDecoder

vars == <<autoAdd, second, tuned, egc, table>>

Init ==
    /\ autoAdd = TRUE
    /\ second \in BOOLEAN
    /\ tuned \in [Receivers -> Bands]
    /\ egc = [r \in Receivers |-> <<>>]
    /\ table = [r \in Receivers |-> <<>>]

-----------------------------------------------------------------------------
Entry(list, s) == SelectSeq(list, LAMBDA e : e.ch = s)

Flagged(list, s) == [i \in DOMAIN list |-> IF list[i].ch = s THEN [list[i] EXCEPT !.has = TRUE] ELSE list[i]]

HasEgc(decoders, s) == \E i \in DOMAIN decoders : decoders[i].ch = s

\* LesFreqTable::add.
Learn(r, s) ==
    /\ r = "B" => second
    /\ Entry(table[r], s) = <<>>
    /\ table' = [table EXCEPT ![r] = Append(@, [ch |-> s, has |-> FALSE])]
    /\ UNCHANGED <<autoAdd, second, tuned, egc>>

\* The entries without a decoder, in reach, that no EGC decoder of the manager is on.
\* Both loops go over A's entries as they were when the pane was drawn.
Wanted(r) ==
    SelectSeq(table["A"], LAMBDA e : ~e.has /\ Band[e.ch] = tuned[r] /\ ~HasEgc(egc[r], e.ch))

\* Mutant of Taken: the entries passed over count too.
TakenOfAll(r, n) ==
    LET open == SelectSeq(table["A"], LAMBDA e : ~e.has)
        first == SubSeq(open, 1, Min({n, Len(open), MaxDecoders - Len(egc[r])}))
    IN SelectSeq(first, LAMBDA e : Band[e.ch] = tuned[r] /\ ~HasEgc(egc[r], e.ch))

\* The first n of them.
Taken(r, n) == SubSeq(Wanted(r), 1, Min({n, Len(Wanted(r)), MaxDecoders - Len(egc[r])}))

FlaggedAll(list, taken) ==
    [i \in DOMAIN list |->
        IF Entry(taken, list[i].ch) # <<>> THEN [list[i] EXCEPT !.has = TRUE] ELSE list[i]]

\* Both loops share the count; each flags the table of its own manager.
AutoAdd ==
    /\ autoAdd
    /\ \E taken \in {[r \in Receivers |->
                        IF r = "A" THEN Taken("A", Cap)
                        ELSE IF second THEN Taken("B", Cap - Len(Taken("A", Cap))) ELSE <<>>]} :
          /\ egc' = [r \in Receivers |->
                        egc[r] \o [i \in DOMAIN taken[r] |-> [ch |-> taken[r][i].ch, auto |-> TRUE]]]
          /\ table' = [r \in Receivers |-> FlaggedAll(table[r], taken[r])]
    /\ UNCHANGED <<autoAdd, second, tuned>>

\* The rows: both tables, A's entry for a channel that both have.
Rows == table["A"] \o SelectSeq(table["B"], LAMBDA e : Entry(table["A"], e.ch) = <<>>)

\* The Add button of a row: A if it reaches the channel, else B.
PressAdd(e) ==
    LET r == IF tuned["A"] = Band[e.ch] THEN "A" ELSE "B" IN
    /\ ~e.has
    /\ r = "B" => second /\ tuned["B"] = Band[e.ch]
    /\ Len(egc[r]) < MaxDecoders
    /\ egc' = [egc EXCEPT ![r] = Append(@, [ch |-> e.ch, auto |-> FALSE])]
    /\ table' = [table EXCEPT ![r] = Flagged(@, e.ch)]
    /\ UNCHANGED <<autoAdd, second, tuned>>

RemoveDecoder(r, i) ==
    /\ i \in DOMAIN egc[r]
    /\ egc' = [egc EXCEPT ![r] = RemoveAt(@, i)]
    /\ UNCHANGED <<autoAdd, second, tuned, table>>

\* A tuning that keeps the decoders, or the start of a follow that does not.
Retune(r, b, kept) ==
    /\ r = "B" => second
    /\ tuned' = [tuned EXCEPT ![r] = b]
    /\ egc' = [egc EXCEPT ![r] = IF kept THEN @ ELSE <<>>]
    /\ UNCHANGED <<autoAdd, second, table>>

ToggleAutoAdd == autoAdd' = ~autoAdd /\ UNCHANGED <<second, tuned, egc, table>>

Next ==
    \/ AutoAdd \/ ToggleAutoAdd
    \/ \E r \in Receivers, s \in Stations : Learn(r, s)
    \/ \E i \in DOMAIN Rows : PressAdd(Rows[i])
    \/ \E r \in Receivers, i \in 1..MaxDecoders : RemoveDecoder(r, i)
    \/ \E r \in Receivers, b \in Bands, kept \in BOOLEAN : Retune(r, b, kept)

Spec == Init /\ [][Next]_vars

\* The pane is drawn every frame.
Fairness == WF_vars(AutoAdd)

FairSpec == Spec /\ Fairness

-----------------------------------------------------------------------------
(* Properties                                                              *)

\* The pane makes no second decoder for a channel of a manager that has one, though the
\* flags of the table say nothing of decoders that tunings removed or users added.
NoSecondAutoDecoder ==
    \A r \in Receivers : \A i, j \in DOMAIN egc[r] :
        i < j /\ egc[r][i].ch = egc[r][j].ch => ~egc[r][j].auto

\* A new channel A reaches gets its decoder though only Cap are made in a frame, unless
\* the radio leaves it or the user turns adding off.
NewChannelGetsDecoder ==
    \A s \in Stations :
        (\E i \in DOMAIN table["A"] : table["A"][i].ch = s /\ ~table["A"][i].has)
            ~> (HasEgc(egc["A"], s) \/ Len(egc["A"]) = MaxDecoders
                \/ tuned["A"] # Band[s] \/ ~autoAdd)

\* Both, of the pane's rows.
EachChannelGetsOne == []NoSecondAutoDecoder /\ NewChannelGetsDecoder
=============================================================================
