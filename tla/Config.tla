-------------------------------- MODULE Config --------------------------------
(***************************************************************************)
(* The settings in inmarscope.ini: what the panels show, what is in the    *)
(* file and what has taken effect, over launches, starts of the radio,     *)
(* exits and crashes; and the decoders that are saved for the restart.     *)
(*                                                                         *)
(* One setting stands for each way to take effect: "format" (with theme,   *)
(* language, audio device, archive clean-up) at launch and on a click,     *)
(* "feed" (with archiving) in every frame, "prebuffer" (with DC block,     *)
(* gains) when the radio starts and on a click while it runs, "mute" and   *)
(* "cpu" only on a click, "font" only at launch.                           *)
(*                                                                         *)
(* Frequencies are in units of 250 Hz; the file keeps three decimals of a  *)
(* MHz.  A frame begins with the refresh of the saved list and has at most *)
(* one click.  A behaviour follows one of the settings.                    *)
(***************************************************************************)
EXTENDS Integers

CONSTANTS
    Freqs       \* channels on which decoders are added

Settings == {"format", "feed", "prebuffer", "mute", "cpu", "font"}
NoList   == {-1}

VARIABLES
    up,       \* the program runs
    running,  \* the radio runs
    setting,  \* the setting this behaviour is about
    shown,    \* its member of App
    save,     \* saveDecoders
    saved,    \* savedDecoders
    applied,  \* what the part of the program it is for has been told
    decs,     \* the decoders: frequency -> runs with CPU reduce
    file,     \* inmarscope.ini
    fresh     \* this frame has had no click yet

VARIABLE kept   \* history: the decoders at the last clean stop, while that list is valid

memory == <<shown, save, saved, applied, decs>>
vars   == <<up, running, setting, memory, file, fresh, kept>>

NoDecs == [f \in {} |-> FALSE]

Init ==
    /\ up = FALSE /\ running = FALSE
    /\ setting \in Settings /\ shown = FALSE /\ applied = FALSE
    /\ save = FALSE /\ saved = {} /\ decs = NoDecs
    /\ file = [shown |-> FALSE, save |-> FALSE, saved |-> {}]
    /\ fresh = FALSE /\ kept = NoList

\* "%.3f" of a frequency in MHz.
Rounded(f) == 4 * ((f + 2) \div 4)

\* cfgWriteAll: without saveDecoders the list is not written.
Written == [shown |-> shown, save |-> save,
            saved |-> IF save THEN {Rounded(f) : f \in saved} ELSE {}]

\* main() up to the loop: the file is read into a new App.
Launch ==
    /\ ~up
    /\ up' = TRUE /\ fresh' = FALSE
    /\ shown' = file.shown /\ save' = file.save /\ saved' = file.saved
    /\ applied' = (setting \in {"font", "format"} /\ file.shown)
    /\ decs' = NoDecs
    /\ UNCHANGED <<running, setting, file, kept>>

\* Mutant of Frame: the list follows the decoders of a stopped radio as well.
RefreshesAlways ==
    /\ up /\ ~fresh
    /\ fresh' = TRUE
    /\ saved' = IF save THEN DOMAIN decs ELSE saved
    /\ applied' = IF setting = "feed" THEN shown ELSE applied
    /\ UNCHANGED <<up, running, setting, shown, save, decs, file, kept>>

\* The part of a frame before the panels are drawn.
Frame ==
    /\ up /\ ~fresh
    /\ fresh' = TRUE
    /\ saved' = IF save /\ running THEN DOMAIN decs ELSE saved
    /\ applied' = IF setting = "feed" THEN shown ELSE applied
    /\ UNCHANGED <<up, running, setting, shown, save, decs, file, kept>>

Click == up /\ fresh /\ fresh' = FALSE /\ UNCHANGED up

\* The widget of a setting, with what its handler calls.
Edit ==
    /\ Click
    /\ setting = "prebuffer" => running
    /\ shown' = ~shown
    /\ applied' = IF setting \in {"format", "prebuffer", "mute", "cpu"} THEN ~shown ELSE applied
    /\ decs' = IF setting = "cpu" THEN [f \in DOMAIN decs |-> ~shown] ELSE decs
    /\ UNCHANGED <<running, setting, save, saved, file, kept>>

ToggleSave ==
    /\ Click
    /\ save' = ~save
    /\ kept' = NoList
    /\ UNCHANGED <<running, setting, shown, saved, applied, decs, file>>

\* startActive(): the decoders of the list are added again, whatever the band.
StartRadio ==
    /\ Click /\ ~running
    /\ running' = TRUE
    /\ applied' = IF setting = "prebuffer" THEN shown ELSE applied
    /\ decs' = [f \in IF save THEN saved ELSE {} |-> FALSE]
    /\ saved' = IF save THEN saved ELSE {}
    /\ kept' = NoList
    /\ UNCHANGED <<setting, shown, save, file>>

StopRadio ==
    /\ Click /\ running
    /\ running' = FALSE
    /\ kept' = IF save THEN DOMAIN decs ELSE NoList
    /\ decs' = NoDecs
    /\ UNCHANGED <<setting, shown, save, saved, applied, file>>

\* A new decoder is not told about CPU reduce.
AddDecoder(f) ==
    /\ Click /\ running
    /\ f \notin DOMAIN decs
    /\ decs' = [g \in DOMAIN decs \cup {f} |-> IF g = f THEN FALSE ELSE decs[g]]
    /\ UNCHANGED <<running, setting, shown, save, saved, applied, file, kept>>

RemoveDecoder(f) ==
    /\ Click /\ f \in DOMAIN decs
    /\ decs' = [g \in DOMAIN decs \ {f} |-> decs[g]]
    /\ UNCHANGED <<running, setting, shown, save, saved, applied, file, kept>>

\* Dear ImGui writes the file some seconds after the layout has changed.
Autosave ==
    /\ up /\ fresh
    /\ file' = Written
    /\ UNCHANGED <<up, running, setting, memory, fresh, kept>>

\* The window is closed: the file is written before anything is stopped.
Exit ==
    /\ up /\ fresh
    /\ file' = Written
    /\ kept' = CASE save /\ running -> DOMAIN decs [] save /\ ~running -> kept [] OTHER -> NoList
    /\ up' = FALSE /\ running' = FALSE
    /\ UNCHANGED <<setting, memory, fresh>>

Crash ==
    /\ up
    /\ up' = FALSE /\ running' = FALSE
    /\ kept' = NoList
    /\ UNCHANGED <<setting, memory, file, fresh>>

Next ==
    \/ Launch \/ Frame \/ ToggleSave \/ StartRadio \/ StopRadio \/ Autosave \/ Exit \/ Crash
    \/ Edit
    \/ \E f \in Freqs : AddDecoder(f) \/ RemoveDecoder(f)

Spec == Init /\ [][Next]_vars
-----------------------------------------------------------------------------
(* Properties                                                              *)

\* What the panels show is in effect, after launches, crashes, starts and stops alike,
\* but for the two boxes that nothing passes on at launch (and CPU reduce not to a new
\* decoder either), the font, and what waits for the radio.
ShownIsInEffect ==
    up /\ fresh =>
        /\ setting \in {"format", "feed"} => applied = shown
        /\ setting = "prebuffer" /\ running => applied = shown
        /\ setting = "mute" /\ applied => shown
        /\ \A f \in DOMAIN decs : decs[f] => shown

\* The decoders at a stop or exit come back at the next start, also in the next launch,
\* within the 500 Hz that the file rounds off.
ComesBack ==
    StartRadio /\ save /\ kept # NoList =>
        \A f \in kept : \E g \in DOMAIN decs' : f - g \in -2 .. 2

DecodersComeBack == [][ComesBack]_vars

=============================================================================
