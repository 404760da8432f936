------------------------------- MODULE Tuning -------------------------------
(***************************************************************************)
(* Everything that moves a running receiver, and what becomes of its       *)
(* decoders: voice following with one radio and with two, the Tune button, *)
(* band browsing, the centre frequency field, band plans, Start and Stop.  *)
(* All of it runs on the UI thread; decode workers report assignments and  *)
(* voice frames.                                                           *)
(*                                                                         *)
(* A centre is named by the band of channels the radio captures around it, *)
(* so a channel is in band iff it is the centre.  Channel ids are never    *)
(* used twice: what followChannelId names is the decoder marked followed,  *)
(* and a decoder added again is another one.  Decoders are saved for the   *)
(* next start, as they are unless the user turns that off.                 *)
(***************************************************************************)
EXTENDS Naturals, Sequences, SequencesExt, Ordered

CONSTANTS
    Bands,        \* the bands, each with a channel
    Modes,        \* sources: "rtl" one radio, "dual_rtl" two, "sdrplay" one or two, "wav" a file
    MaxDecoders   \* bound: decoders the user gives a receiver

Receivers == {"A", "B"}
NoBand == 0

VARIABLES
    mode, dual,
    running,
    center,      \* SdrSource::centerFreq of each radio
    conf,        \* DecoderManager::centerHz_ of each manager
    dec,         \* the decoders of each manager
    panel,       \* centerFreqMHz, centerFreqMHzB
    assigned,    \* cassignLog beyond followSeenCount: fresh, the newest entry
    voiceFollow,
    follow,      \* following, followRetuned, followHomeMHz, followHome, frames, idle
    saved,       \* savedDecoders, savedDecodersB
    chosen,      \* history: where the user wants receiver A
    edited,      \* history: the field and radio or manager disagree since a choice of the user
    kept         \* history: the channels receiver A is to decode

vars == <<mode, dual, running, center, conf, dec, panel, assigned, voiceFollow, follow,
          saved, chosen, edited, kept>>
user == <<mode, voiceFollow>>

Decoder(band, voice, followed, made) ==
    [band |-> band, voice |-> voice, followed |-> followed, made |-> made]

\* Nothing reads the other fields until the next follow has set them.
NoFollow == [on |-> FALSE, retuned |-> FALSE, homeCenter |-> NoBand, home |-> <<>>,
             frames |-> FALSE, idle |-> FALSE]

\* Entries up to followSeenCount are not read again.
NoAssignment == [fresh |-> FALSE, band |-> NoBand]

Init ==
    /\ mode \in Modes /\ dual = FALSE
    /\ running = FALSE
    /\ center = [r \in Receivers |-> NoBand] /\ conf = center
    /\ dec = [r \in Receivers |-> <<>>]
    /\ panel \in [Receivers -> Bands]
    /\ assigned = NoAssignment
    /\ voiceFollow \in BOOLEAN
    /\ follow = NoFollow
    /\ saved = [r \in Receivers |-> <<>>]
    /\ chosen = NoBand
    /\ edited = [r \in Receivers |-> FALSE]
    /\ kept = {}

-----------------------------------------------------------------------------
(* Managers                                                                *)

\* status(), as the callers keep it: frequency and baud.
Status(r) == [i \in DOMAIN dec[r] |-> [band |-> dec[r][i].band, voice |-> dec[r][i].voice]]

Data(status) == Selected(status, {i \in DOMAIN status : ~status[i].voice})

\* removeAll, configure at a centre, addDecoder of each.
Added(status, at) ==
    [i \in DOMAIN status |-> Decoder(status[i].band, status[i].voice, FALSE, at)]

BandsOf(status) == {status[i].band : i \in DOMAIN status}

\* The radio, its manager and its field go to one centre.
Retune(r, at, decoders) ==
    /\ center' = [center EXCEPT ![r] = at]
    /\ conf' = [conf EXCEPT ![r] = at]
    /\ panel' = [panel EXCEPT ![r] = at]
    /\ dec' = [dec EXCEPT ![r] = decoders]
    /\ edited' = [edited EXCEPT ![r] = FALSE]

\* A has left its home for a call.
Away == follow.on /\ follow.retuned /\ ~dual

\* A choice of the user during a follow that has moved A ends with the follow.
Chosen(at) == IF Away THEN chosen ELSE at

RetunePreserving(at) ==
    /\ Retune("A", at, Added(Status("A"), at))
    /\ chosen' = Chosen(at)

-----------------------------------------------------------------------------
(* Start and Stop                                                          *)

\* startActive.  The second radio of the mode may fail to start.
StartActive ==
    /\ ~running
    /\ running' = TRUE
    /\ dual' \in (IF mode \in {"dual_rtl", "sdrplay"} THEN BOOLEAN ELSE {FALSE})
    /\ center' = [r \in Receivers |-> IF r = "A" \/ dual' THEN panel[r] ELSE NoBand]
    /\ conf' = center'
    /\ dec' = [r \in Receivers |-> IF r = "A" \/ dual' THEN Added(saved[r], center'[r]) ELSE <<>>]
    /\ edited' = [r \in Receivers |-> FALSE]
    /\ assigned' = NoAssignment
    /\ follow' = NoFollow
    /\ chosen' = panel["A"] /\ kept' = BandsOf(saved["A"])
    /\ UNCHANGED <<user, panel, saved>>

\* What a stopped radio is tuned to is not read again: its centre and the history are reset.
Stopped ==
    /\ running /\ running' = FALSE /\ dual' = FALSE
    /\ center' = [r \in Receivers |-> NoBand] /\ conf' = center'
    /\ chosen' = NoBand /\ edited' = [r \in Receivers |-> FALSE] /\ kept' = {}
    /\ UNCHANGED <<user, panel, assigned, saved>>

\* The Stop button.
PressStop ==
    /\ Stopped
    /\ dec' = [r \in Receivers |-> <<>>]
    /\ follow' = NoFollow

\* An SDRplay stream ends by itself: the decoders stay listed, the follow stays on.
StreamFails ==
    /\ mode = "sdrplay" /\ Stopped
    /\ UNCHANGED <<dec, follow>>

-----------------------------------------------------------------------------
(* The workers                                                             *)

VoiceRadio == IF dual THEN "B" ELSE "A"

\* A voice assignment; the Clear button of the pane that shows them.
Assigned(band) ==
    /\ running /\ Len(dec[VoiceRadio]) <= MaxDecoders
    /\ assigned' = [fresh |-> TRUE, band |-> band]
    /\ UNCHANGED <<user, dual, running, center, conf, dec, panel, follow, saved, chosen, edited, kept>>

ClearAssignments ==
    /\ assigned' = [assigned EXCEPT !.band = NoBand]
    /\ UNCHANGED <<user, dual, running, center, conf, dec, panel, follow, saved, chosen, edited, kept>>

\* The followed decoder decodes voice frames: it has to be there, at its frequency.
Frames ==
    /\ \E i \in DOMAIN dec[VoiceRadio] :
          LET d == dec[VoiceRadio][i] IN d.followed /\ d.made = center[VoiceRadio]
    /\ follow' = [follow EXCEPT !.frames = TRUE]
    /\ UNCHANGED <<user, dual, running, center, conf, dec, panel, assigned, saved, chosen, edited, kept>>

\* The hold time passes without a frame.
Silence ==
    /\ follow.on /\ ~follow.idle
    /\ follow' = [follow EXCEPT !.idle = TRUE]
    /\ UNCHANGED <<user, dual, running, center, conf, dec, panel, assigned, saved, chosen, edited, kept>>

-----------------------------------------------------------------------------
(* updateVoiceFollow, once per frame while A runs                          *)

Picks == voiceFollow /\ assigned.fresh /\ assigned.band # NoBand

Begins(retuned, homeCenter, home) ==
    follow' = [on |-> TRUE, retuned |-> retuned, homeCenter |-> homeCenter, home |-> home,
               frames |-> FALSE, idle |-> FALSE]

\* Two radios: B leaves its decoders for the call and stays parked where it was.
FollowOnB(band) ==
    /\ Retune("B", band, <<Decoder(band, TRUE, TRUE, band)>>)
    /\ Begins(TRUE, NoBand, <<>>)
    /\ UNCHANGED <<chosen, kept>>

\* One radio, and the call is in its band.
FollowInBand(band) ==
    /\ dec' = [dec EXCEPT !["A"] = Append(@, Decoder(band, TRUE, TRUE, conf["A"]))]
    /\ Begins(FALSE, panel["A"], <<>>)
    /\ UNCHANGED <<center, conf, panel, edited, chosen, kept>>

\* One radio that has to leave its decoders.
FollowAway(band) ==
    /\ Retune("A", band, <<Decoder(band, TRUE, TRUE, band)>>)
    /\ Begins(TRUE, panel["A"], Status("A"))
    /\ UNCHANGED <<chosen, kept>>

PickCall ==
    /\ ~follow.on /\ Picks
    /\ CASE dual -> FollowOnB(assigned.band)
         [] ~dual /\ assigned.band = center["A"] -> FollowInBand(assigned.band)
         [] ~dual /\ assigned.band # center["A"] /\ mode # "wav" -> FollowAway(assigned.band)
         [] OTHER -> UNCHANGED <<center, conf, panel, dec, edited, chosen, kept, follow>>

\* Nothing to follow, or an aircraft of a blacklisted country.
Stays ==
    /\ ~follow.on
    /\ UNCHANGED <<center, conf, panel, dec, edited, chosen, kept, follow>>

\* Mutant of Returns: the radio returns, its decoders do not.
ReturnsAlone(home) == <<>>

Returns(home) == Added(home, follow.homeCenter)

\* Mutant of Over: a call can only end on the decoder that follows it.
OverOnItsDecoder ==
    /\ voiceFollow => follow.idle /\ ~follow.frames
    /\ \E i \in DOMAIN dec[VoiceRadio] : dec[VoiceRadio][i].followed

Over == voiceFollow => follow.idle /\ ~follow.frames

EndFollow ==
    LET r == VoiceRadio IN
    /\ follow.on /\ Over
    /\ IF Away
       THEN Retune("A", follow.homeCenter, Returns(follow.home))
       ELSE /\ dec' = [dec EXCEPT ![r] = Selected(@, {i \in DOMAIN @ : ~@[i].followed})]
            /\ UNCHANGED <<center, conf, panel, edited>>
    /\ follow' = NoFollow
    /\ UNCHANGED <<chosen, kept>>

Hears(f) == [f EXCEPT !.idle = FALSE, !.frames = FALSE]

GoesOn ==
    /\ follow.on /\ ~Over
    /\ follow' = IF follow.frames THEN Hears(follow) ELSE follow
    /\ UNCHANGED <<center, conf, panel, dec, edited, chosen, kept>>

\* The frame: the follow, then the list of decoders for the next start.
Frame ==
    /\ running
    /\ PickCall \/ Stays \/ EndFollow \/ GoesOn
    /\ assigned' = IF follow.on THEN assigned ELSE NoAssignment
    /\ saved' = [r \in Receivers |->
                    Data([i \in DOMAIN dec'[r] |-> [band |-> dec'[r][i].band,
                                                    voice |-> dec'[r][i].voice]])]
    /\ UNCHANGED <<user, dual, running>>

-----------------------------------------------------------------------------
(* The user                                                                *)

ToggleFollow ==
    /\ voiceFollow' = ~voiceFollow
    /\ UNCHANGED <<mode, dual, running, center, conf, dec, panel, assigned, follow, saved,
                   chosen, edited, kept>>

\* Drag and drop, the Tune button of the network pane.
AddDecoder(r, band) ==
    /\ running /\ (r = "B" => dual)
    /\ Len(dec[r]) < MaxDecoders
    /\ dec' = [dec EXCEPT ![r] = Append(@, Decoder(band, FALSE, FALSE, conf[r]))]
    /\ kept' = IF r = "A" /\ ~Away THEN kept \cup {band} ELSE kept
    /\ UNCHANGED <<user, dual, running, center, conf, panel, assigned, follow, saved, chosen, edited>>

RemoveDecoder(r, i) ==
    /\ i \in DOMAIN dec[r]
    /\ dec' = [dec EXCEPT ![r] = RemoveAt(@, i)]
    /\ kept' = IF r = "A" /\ ~Away THEN BandsOf(Data(RemoveAt(Status("A"), i))) ELSE kept
    /\ UNCHANGED <<user, dual, running, center, conf, panel, assigned, follow, saved, chosen, edited>>

RemoveAll ==
    /\ running
    /\ dec' = [r \in Receivers |-> IF r = "A" \/ dual THEN <<>> ELSE dec[r]]
    /\ kept' = IF Away THEN kept ELSE {}
    /\ UNCHANGED <<user, dual, running, center, conf, panel, assigned, follow, saved, chosen, edited>>

\* The centre frequency field.  Two RTLs and a file take it at the next start, the
\* SDRplay panel retunes, the others tune the radio and nothing else.
EditField(r, band) ==
    /\ panel' = [panel EXCEPT ![r] = band]
    /\ UNCHANGED <<center, conf, dec>>

EditCenter(band) ==
    /\ CASE ~running -> EditField("A", band) /\ UNCHANGED <<edited, chosen>>
         [] running /\ mode = "sdrplay" -> RetunePreserving(band)
         [] OTHER ->
              /\ panel' = [panel EXCEPT !["A"] = band]
              /\ center' = IF mode \in {"dual_rtl", "wav"} THEN center ELSE [center EXCEPT !["A"] = band]
              /\ edited' = [edited EXCEPT !["A"] = TRUE]
              /\ chosen' = Chosen(band)
              /\ UNCHANGED <<conf, dec>>
    /\ UNCHANGED <<user, dual, running, assigned, follow, saved, kept>>

\* The field of B; an SDRplay B's manager is configured and its decoders are left.
EditCenterB(band) ==
    /\ mode \in {"dual_rtl", "sdrplay"}
    /\ IF running /\ dual /\ mode = "sdrplay"
       THEN /\ panel' = [panel EXCEPT !["B"] = band]
            /\ center' = [center EXCEPT !["B"] = band] /\ conf' = [conf EXCEPT !["B"] = band]
            /\ edited' = [edited EXCEPT !["B"] = TRUE]
            /\ UNCHANGED dec
       ELSE EditField("B", band) /\ UNCHANGED edited
    /\ UNCHANGED <<user, dual, running, assigned, follow, saved, chosen, kept>>

\* Panning the spectrum of a receiver beyond its band, outside a follow.
Browse(r, band) ==
    /\ running /\ mode # "wav" /\ ~follow.on /\ (r = "B" => dual)
    /\ IF r = "A" THEN RetunePreserving(band)
       ELSE Retune("B", band, Added(Status("B"), band)) /\ UNCHANGED chosen
    /\ UNCHANGED <<user, dual, running, assigned, follow, saved, kept>>

\* The Tune button of the C-channel pane: tuneToVoice.
TuneToVoice(band) ==
    LET voice == Decoder(band, TRUE, FALSE, band) IN
    /\ running /\ mode # "wav"
    /\ Len(dec["A"]) < MaxDecoders
    /\ IF band = center["A"]
       THEN dec' = [dec EXCEPT !["A"] = Append(@, [voice EXCEPT !.made = conf["A"]])]
            /\ UNCHANGED <<center, conf, panel, edited, chosen>>
       ELSE Retune("A", band, Append(Added(Status("A"), band), voice))
            /\ chosen' = Chosen(band)
    /\ UNCHANGED <<user, dual, running, assigned, follow, saved, kept>>

\* A band plan: tuneBandPlan with the channels of a group, or keeping those in reach.
TuneBandPlan(r, band, channels) ==
    LET status == IF channels THEN <<[band |-> band, voice |-> FALSE]>>
                  ELSE Selected(Status(r), {i \in DOMAIN dec[r] : dec[r][i].band = band})
    IN
    /\ mode # "wav" /\ running /\ (r = "B" => dual)
    /\ Retune(r, band, Added(status, band))
    /\ follow' = NoFollow
    /\ assigned' = NoAssignment
    /\ chosen' = IF r = "A" THEN band ELSE center["A"]
    /\ kept' = BandsOf(Data(IF r = "A" THEN status ELSE Status("A")))
    /\ UNCHANGED <<user, dual, running, saved>>

Next ==
    \/ StartActive \/ PressStop \/ StreamFails
    \/ \E band \in Bands : Assigned(band)
    \/ ClearAssignments
    \/ Frames \/ Silence \/ Frame
    \/ ToggleFollow
    \/ \E r \in Receivers, band \in Bands : AddDecoder(r, band) \/ Browse(r, band)
    \/ \E r \in Receivers, i \in 1..(MaxDecoders + 1) : RemoveDecoder(r, i)
    \/ RemoveAll
    \/ \E band \in Bands : EditCenter(band) \/ EditCenterB(band) \/ TuneToVoice(band)
    \/ \E r \in Receivers, band \in Bands, channels \in BOOLEAN : TuneBandPlan(r, band, channels)

Spec == Init /\ [][Next]_vars

\* Frames are drawn and time passes.
Fairness == WF_vars(Frame) /\ WF_vars(Silence)

FairSpec == Spec /\ Fairness

-----------------------------------------------------------------------------
(* Properties                                                              *)

\* Through every sequence of follows, tunings and starts a decoder's sub-band is mixed
\* down from the centre its radio is on, unless the field moved the radio by itself.
DecodersMatchRadio ==
    \A r \in Receivers : running /\ ~edited[r] =>
        \A i \in DOMAIN dec[r] : dec[r][i].made = center[r]

\* A follow strands nobody: when none is on, receiver A is where the user wants it (a field
\* that waits for the next start excepted) and decodes the channels it is to decode; while
\* one is away, they wait in followHome.
HomeAfterFollow ==
    running =>
        /\ ~follow.on /\ ~edited["A"] => center["A"] = chosen
        /\ kept \subseteq BandsOf(Data(IF Away THEN follow.home ELSE Status("A")))

\* Decoders, radio and the user's own tuning stay in step.
StationKeepsTuned == DecodersMatchRadio /\ HomeAfterFollow

\* A call that has fallen silent is not followed for ever, whatever became of its decoder.
FollowEnds == (follow.on /\ running) ~> (~follow.on \/ ~running \/ follow.frames)
=============================================================================
