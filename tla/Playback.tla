------------------------------- MODULE Playback -------------------------------
(***************************************************************************)
(* The playback of recorded calls and the mute of the live audio: the play *)
(* button of the voice call table, the Mute box, the audio callback that   *)
(* reaches the end of the file, and the test at the end of every frame     *)
(* that mutes live audio during playback.                                  *)
(***************************************************************************)
EXTENDS Naturals

CONSTANT Calls   \* rows of the voice call table that have a file

NoCall == "no call"

VARIABLES
    playing,      \* AudioPlayer::playing_
    path,         \* the row that is open in the player, or NoCall
    finished,     \* the callback has reached the end of the file
    voiceMuted,   \* the Mute box
    muted,        \* muted_ of both audio outputs
    wasPlaying,   \* what the last frame saw
    clicks        \* buttons pressed in this frame

VARIABLE untouched   \* history: no mute has been set since the program was started

MaxClicks == 2    \* bound on the buttons of one frame

player == <<playing, path, finished>>
vars   == <<player, voiceMuted, muted, wasPlaying, clicks, untouched>>

\* The box is what inmarscope.ini says; the outputs are not told.
Init ==
    /\ playing = FALSE /\ path = NoCall /\ finished = FALSE
    /\ voiceMuted \in BOOLEAN /\ muted = FALSE /\ untouched = TRUE
    /\ wasPlaying = FALSE /\ clicks = 0

Click == clicks < MaxClicks /\ clicks' = clicks + 1

\* The row's button starts its file, or stops it when it is the one in the player;
\* play() stops what was playing first.
PressPlay(c) ==
    /\ Click
    /\ ~(playing /\ path = c)
    /\ finished' = FALSE
    /\ \/ playing' = TRUE /\ path' = c            \* decoder and device open
       \/ playing' = FALSE /\ path' = NoCall      \* no such file, no device
    /\ UNCHANGED <<voiceMuted, muted, wasPlaying, untouched>>

PressPause(c) ==
    /\ Click
    /\ playing /\ path = c
    /\ playing' = FALSE /\ path' = NoCall /\ finished' = FALSE
    /\ UNCHANGED <<voiceMuted, muted, wasPlaying, untouched>>

ToggleMute ==
    /\ Click
    /\ voiceMuted' = ~voiceMuted
    /\ muted' = ~voiceMuted
    /\ untouched' = FALSE
    /\ UNCHANGED <<player, wasPlaying>>

\* The callback: the decoder is at the end, only silence from now on.
FileEnds ==
    /\ playing /\ ~finished
    /\ finished' = TRUE
    /\ UNCHANGED <<playing, path, voiceMuted, muted, wasPlaying, clicks, untouched>>

\* Mutant of EndOfFrame: the mute is set on every frame of the playback, and undone
\* only when nothing was clicked in between.
RestoresWhenQuiet ==
    /\ muted' = CASE playing -> TRUE
                  [] ~playing /\ wasPlaying /\ clicks < 2 -> voiceMuted
                  [] OTHER -> muted
    /\ wasPlaying' = playing
    /\ untouched' = (untouched /\ playing = wasPlaying)
    /\ clicks' = 0
    /\ UNCHANGED <<player, voiceMuted>>

\* The end of a frame of main().
EndOfFrame ==
    /\ muted' = CASE playing /\ ~wasPlaying -> TRUE
                  [] ~playing /\ wasPlaying -> voiceMuted
                  [] OTHER -> muted
    /\ wasPlaying' = playing
    /\ untouched' = (untouched /\ playing = wasPlaying)
    /\ clicks' = 0
    /\ UNCHANGED <<player, voiceMuted>>

Next ==
    \/ \E c \in Calls : PressPlay(c) \/ PressPause(c)
    \/ ToggleMute \/ FileEnds \/ EndOfFrame

Spec == Init /\ [][Next]_vars

-----------------------------------------------------------------------------
(* Properties                                                              *)

\* Between playbacks the live audio is what the Mute box says, whatever was clicked
\* during them (a call stopped, replaced, failed to open, the box itself); only the
\* box that the program was started with has no effect until then.
LiveAudioFollowsBox == ~playing /\ ~wasPlaying => muted = voiceMuted \/ untouched
=============================================================================
