------------------------------ MODULE MCStation ------------------------------
(***************************************************************************)
(* The parts of the station under the user's hands, in one specification:  *)
(* live audio (AudioOutput, which this module extends), the settings of    *)
(* the radios, tuning and voice following, the call hunter, inmarscope.ini,*)
(* playback. A behaviour is one of the part that `part' names; the         *)
(* variables of the others stay as they are.                               *)
(***************************************************************************)
EXTENDS AudioOutput, Integers, FiniteSets, TLC

CONSTANTS
    MaxMoves,                \* of SourceSettings
    Bands, MaxDecoders,      \* of Tuning
    Channels, Confirm, Lost, MaxIdA, MaxIdB,   \* of CallHunter
    Freqs,                   \* of Config
    Calls                    \* of Playback

ASSUME StationAssumption == Freqs \subseteq Int

\* The sliders of the hunter keep its counts above nought.
ASSUME HunterAssumption ==
    /\ Channels \subseteq Nat /\ IsFiniteSet(Channels)
    /\ Confirm \in Nat \ {0} /\ Lost \in Nat \ {0} /\ MaxIdA \in Nat

\* A band is only compared with another: runs may permute them.
BandSymmetry == Permutations(Bands)

SettingKinds == {"rtl", "dual", "rtltcp", "hackrf", "airspy", "pluto", "sdrplay"}

VARIABLE part   \* the part this behaviour is about

\* SourceSettings
VARIABLES kind, knobs, field, radio, plays, moves
\* Tuning
VARIABLES mode, dual, running, center, conf, dec, panel, assigned, voiceFollow, follow,
          saved, chosenBand, edited, kept
\* CallHunter
VARIABLES hunt, huntDual, huntDec, huntId, cands
\* Config
VARIABLES up, on, setting, shown, save, list, applied, decs, file, fresh, last
\* Playback
VARIABLES playing, path, finished, voiceMuted, liveMuted, wasPlaying, clicks, untouched

audio == <<run, live, past, flag, monitor, muted, started, ring, rd, wr, count, mtx,
           dev, cb, worker, ui, todo, chosen>>
settings == <<kind, knobs, field, radio, plays, moves>>
tuning == <<mode, dual, running, center, conf, dec, panel, assigned, voiceFollow,
            follow, saved, chosenBand, edited, kept>>
hunter == <<hunt, huntDual, huntDec, huntId, cands>>
config == <<up, on, setting, shown, save, list, applied, decs, file, fresh, last>>
playback == <<playing, path, finished, voiceMuted, liveMuted, wasPlaying, clicks,
              untouched>>

Settings == INSTANCE SourceSettings WITH
    Kinds <- SettingKinds, panel <- knobs, running <- plays
Tuner == INSTANCE Tuning WITH
    Modes <- {"rtl", "dual_rtl", "sdrplay"}, chosen <- chosenBand
Hunter == INSTANCE CallHunter WITH
    dual <- huntDual, dec <- huntDec, nextId <- huntId
Saved == INSTANCE Config WITH
    running <- on, saved <- list, kept <- last
Player == INSTANCE Playback WITH
    muted <- liveMuted

\* The variables of a part that is not looked at.
Off == 0
SettingsOff ==
    /\ kind = Off /\ knobs = Off /\ field = Off /\ radio = Off /\ plays = Off
    /\ moves = Off
TuningOff ==
    /\ mode = Off /\ dual = Off /\ running = Off /\ center = Off /\ conf = Off
    /\ dec = Off /\ panel = Off /\ assigned = Off /\ voiceFollow = Off /\ follow = Off
    /\ saved = Off /\ chosenBand = Off /\ edited = Off /\ kept = Off
HunterOff ==
    /\ hunt = Off /\ huntDual = Off /\ huntDec = Off /\ huntId = Off /\ cands = Off
ConfigOff ==
    /\ up = Off /\ on = Off /\ setting = Off /\ shown = Off /\ save = Off /\ list = Off
    /\ applied = Off /\ decs = Off /\ file = Off /\ fresh = Off /\ last = Off
PlaybackOff ==
    /\ playing = Off /\ path = Off /\ finished = Off /\ voiceMuted = Off
    /\ liveMuted = Off /\ wasPlaying = Off /\ clicks = Off /\ untouched = Off

SumInit ==
    \* the variables of AudioOutput are its own in every part
    \/ /\ part = "audio" /\ Init
       /\ SettingsOff /\ TuningOff /\ HunterOff /\ ConfigOff
       /\ PlaybackOff
    \/ /\ part = "settings" /\ Settings!Init
       /\ Init
       /\ TuningOff /\ HunterOff /\ ConfigOff /\ PlaybackOff
    \/ /\ part = "tuning" /\ Tuner!Init
       /\ Init
       /\ SettingsOff /\ HunterOff /\ ConfigOff /\ PlaybackOff
    \/ /\ part = "hunter" /\ Hunter!Init
       /\ Init
       /\ SettingsOff /\ TuningOff /\ ConfigOff /\ PlaybackOff
    \/ /\ part = "config" /\ Saved!Init
       /\ Init
       /\ SettingsOff /\ TuningOff /\ HunterOff /\ PlaybackOff
    \/ /\ part = "playback" /\ Player!Init
       /\ Init
       /\ SettingsOff /\ TuningOff /\ HunterOff /\ ConfigOff

SumNext ==
    \/ /\ part = "audio" /\ Next
       /\ UNCHANGED <<part, settings, tuning, hunter, config, playback>>
    \/ /\ part = "settings" /\ Settings!Next
       /\ UNCHANGED <<part, audio, tuning, hunter, config, playback>>
    \/ /\ part = "tuning" /\ Tuner!Next
       /\ UNCHANGED <<part, audio, settings, hunter, config, playback>>
    \/ /\ part = "hunter" /\ Hunter!Next
       /\ UNCHANGED <<part, audio, settings, tuning, config, playback>>
    \/ /\ part = "config" /\ Saved!Next
       /\ UNCHANGED <<part, audio, settings, tuning, hunter, playback>>
    \/ /\ part = "playback" /\ Player!Next
       /\ UNCHANGED <<part, audio, settings, tuning, hunter, config>>

sumVars == <<part, audio, settings, tuning, hunter, config, playback>>
SumSpec == SumInit /\ [][SumNext]_sumVars
-----------------------------------------------------------------------------
(* The properties of the parts, as their modules state them.               *)

\* What the panels show is in effect, in the radio and in the rest of the program.
SettingsInEffect ==
    /\ part = "settings" => Settings!RadioIsAsShown
    /\ part = "config" => Saved!ShownIsInEffect

\* Decoders fit the radio's centre, and a follow strands nobody.
StationKeepsTuned == part = "tuning" => Tuner!StationKeepsTuned

\* The hunter's decoders are its own, one for each call.
HunterKeepsToItsOwn == part = "hunter" => Hunter!HunterKeepsToItsOwn

\* Live audio is as the Mute box says between playbacks.
LiveAudioFollowsBox == part = "playback" => Player!LiveAudioFollowsBox

\* The decoders at a stop or exit come back at the next start.
DecodersComeBack == [][part = "config" => Saved!ComesBack]_sumVars
=============================================================================
