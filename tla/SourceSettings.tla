--------------------------- MODULE SourceSettings ---------------------------
(***************************************************************************)
(* The settings of a radio in the three places that hold them: the App     *)
(* fields behind the panel, the fields of the source, the hardware.  The   *)
(* panel forwards some changes while the source runs, start() writes the   *)
(* source's fields to the hardware, and what a setter writes depends on    *)
(* other settings (AGC, the gain mode of the Airspy).  Values are 0 and 1, *)
(* the gain mode 0 .. 2.                                                   *)
(***************************************************************************)
EXTENDS Naturals

CONSTANTS
    Kinds,      \* the radios
    MaxMoves    \* bound: controls moved and starts in a behaviour

Knobs ==
    {"freq", "rate", "ppm", "bias", "agc", "gain", "lna", "mixer", "vga", "amp", "mode",
     "sense", "linear", "lnaAgc", "mixerAgc", "bandwidth", "port", "ifgr"}

VARIABLES
    kind,      \* the source mode
    panel,     \* App: what the user sees
    field,     \* the members of the source
    radio,     \* the registers of the hardware
    running,   \* the device is open and running
    moves

vars == <<kind, panel, field, radio, running, moves>>

Zero == [k \in Knobs |-> 0]

Init ==
    /\ kind \in Kinds
    /\ panel = Zero /\ field = Zero /\ radio = Zero
    /\ running = FALSE /\ moves = 0

\* The hardware with the registers ks written from f.
Written(r, f, ks) == [k \in Knobs |-> IF k \in ks THEN f[k] ELSE r[k]]

-----------------------------------------------------------------------------
(* What a setter of a source writes, the source being open                 *)

\* setGain and applyGain: a negative gain is AGC.
RtlGain(r, f) == Written(r, f, IF f["agc"] = 1 THEN {"agc"} ELSE {"agc", "gain"})

RtlSet(k, r, f) == IF k \in {"agc", "gain"} THEN RtlGain(r, f) ELSE Written(r, f, {k})

\* The same as commands to the rtl_tcp server.
RtlTcpSet(k, r, f) ==
    IF k \in {"agc", "gain"} THEN Written(r, f, IF f["agc"] = 1 THEN {"agc"} ELSE {"agc", "gain"})
    ELSE Written(r, f, {k})

\* The frequency is corrected by the ppm: both are written as one.
HackRfSet(k, r, f) == Written(r, f, IF k \in {"freq", "ppm"} THEN {"freq", "ppm"} ELSE {k})

\* Mutant of AirspyGain: the manual gains are not written when the AGC is off.
AirspyKeepsStageGains(r, f) ==
    CASE f["mode"] = 0 -> [Written(r, f, {"mode", "sense"}) EXCEPT !["lnaAgc"] = 0, !["mixerAgc"] = 0]
      [] f["mode"] = 1 -> [Written(r, f, {"mode", "linear"}) EXCEPT !["lnaAgc"] = 0, !["mixerAgc"] = 0]
      [] OTHER -> Written(r, f, {"mode", "vga", "lnaAgc", "mixerAgc"})

\* applyGain: the registers of the gain mode.  "mode" stands for which gain function
\* the library used last.
AirspyGain(r, f) ==
    CASE f["mode"] = 0 -> [Written(r, f, {"mode", "sense"}) EXCEPT !["lnaAgc"] = 0, !["mixerAgc"] = 0]
      [] f["mode"] = 1 -> [Written(r, f, {"mode", "linear"}) EXCEPT !["lnaAgc"] = 0, !["mixerAgc"] = 0]
      [] OTHER -> Written(r, f, {"mode", "vga", "lnaAgc", "mixerAgc"}
                                \cup (IF f["lnaAgc"] = 1 THEN {} ELSE {"lna"})
                                \cup (IF f["mixerAgc"] = 1 THEN {} ELSE {"mixer"}))

AirspySet(k, r, f) ==
    LET free == f["mode"] = 2 IN
    CASE k \in {"freq", "ppm"} -> Written(r, f, {"freq", "ppm"})
      [] k = "mode"     -> AirspyGain(r, f)
      [] k = "sense"    -> Written(r, f, IF f["mode"] = 0 THEN {k} ELSE {})
      [] k = "linear"   -> Written(r, f, IF f["mode"] = 1 THEN {k} ELSE {})
      [] k = "lna"      -> Written(r, f, IF free /\ f["lnaAgc"] = 0 THEN {k} ELSE {})
      [] k = "mixer"    -> Written(r, f, IF free /\ f["mixerAgc"] = 0 THEN {k} ELSE {})
      [] k = "vga"      -> Written(r, f, IF free THEN {k} ELSE {})
      [] k = "lnaAgc"   -> Written(r, f, IF ~free THEN {} ELSE IF f[k] = 1 THEN {k} ELSE {k, "lna"})
      [] k = "mixerAgc" -> Written(r, f, IF ~free THEN {} ELSE IF f[k] = 1 THEN {k} ELSE {k, "mixer"})
      [] OTHER -> Written(r, f, {k})

PlutoSet(k, r, f) ==
    CASE k \in {"freq", "ppm"} -> Written(r, f, {"freq", "ppm"})
      [] k \in {"agc", "gain"} -> Written(r, f, IF f["agc"] = 1 THEN {"agc"} ELSE {"agc", "gain"})
      [] OTHER -> Written(r, f, {k})

\* Frequency and gain elements are the live settings; the IF gain not under AGC.
SdrplaySet(k, r, f) == Written(r, f, IF k = "ifgr" /\ f["agc"] = 1 THEN {} ELSE {k})

Set(k, r, f) ==
    CASE kind \in {"rtl", "dual"} -> RtlSet(k, r, f)
      [] kind = "rtltcp"  -> RtlTcpSet(k, r, f)
      [] kind = "hackrf"  -> HackRfSet(k, r, f)
      [] kind = "airspy"  -> AirspySet(k, r, f)
      [] kind = "pluto"   -> PlutoSet(k, r, f)
      [] kind = "sdrplay" -> SdrplaySet(k, r, f)

-----------------------------------------------------------------------------
(* What start() writes to the device it has opened                         *)

\* A device just opened corrects by 0 ppm; another correction is written.
RtlOpened(r, f) ==
    RtlGain(Written([r EXCEPT !["ppm"] = 0], f,
                    {"rate", "freq", "bias"} \cup (IF f["ppm"] # 0 THEN {"ppm"} ELSE {})), f)

RtlTcpOpened(r, f) ==
    RtlTcpSet("gain", Written(r, f, {"freq", "rate", "ppm", "bias"}), f)

HackRfOpened(r, f) == Written(r, f, {"rate", "freq", "ppm", "lna", "vga", "amp", "bias"})

AirspyOpened(r, f) == AirspyGain(Written(r, f, {"rate", "freq", "ppm", "bias"}), f)

\* configure(): any write may fail, and then start() does.
PlutoOpened(r, f) ==
    Written(r, f, {"port", "bandwidth", "rate", "freq", "ppm", "agc"}
                  \cup (IF f["agc"] = 1 THEN {} ELSE {"gain"}))

\* apply(): the IF gain is skipped under AGC.
SdrplayOpened(r, f) ==
    Written(r, f, {"rate", "bandwidth", "ppm", "agc", "freq", "gain"}
                  \cup (IF f["agc"] = 1 THEN {} ELSE {"ifgr"}))

Opened(r, f) ==
    CASE kind \in {"rtl", "dual"} -> RtlOpened(r, f)
      [] kind = "rtltcp"  -> RtlTcpOpened(r, f)
      [] kind = "hackrf"  -> HackRfOpened(r, f)
      [] kind = "airspy"  -> AirspyOpened(r, f)
      [] kind = "pluto"   -> PlutoOpened(r, f)
      [] kind = "sdrplay" -> SdrplayOpened(r, f)

\* startActive hands the panel's values to the source, which starts.
Start ==
    /\ ~running /\ moves < MaxMoves
    /\ field' = panel
    /\ radio' = Opened(radio, panel)
    /\ running' = TRUE /\ moves' = moves + 1
    /\ UNCHANGED <<kind, panel>>

\* HackRF and Airspy switch the antenna power off.
Stop ==
    /\ running
    /\ running' = FALSE
    /\ radio' = IF kind \in {"hackrf", "airspy"} THEN [radio EXCEPT !["bias"] = 0] ELSE radio
    /\ UNCHANGED <<kind, panel, field, moves>>

-----------------------------------------------------------------------------
(* The panels: a control moves, and the source is told if it runs          *)

\* The panel gets v, the source the setters named by ks.
Move(k, v, ks) ==
    /\ moves < MaxMoves /\ v # panel[k]
    /\ panel' = [panel EXCEPT ![k] = v]
    /\ moves' = moves + 1
    /\ field' = IF running THEN Written(field, panel', ks) ELSE field
    /\ UNCHANGED <<kind, running>>

Forward(k, v) ==
    /\ Move(k, v, {k})
    /\ radio' = IF running THEN Set(k, radio, field') ELSE radio

Keep(k, v) == Move(k, v, {}) /\ radio' = radio

\* autoGain and gainDb go to setGain together.
ForwardGain(k, v) ==
    /\ Move(k, v, {"agc", "gain"})
    /\ radio' = IF running THEN Set(k, radio, field') ELSE radio

\* The gain slider is shown without AGC.
RtlPanel(k, v) ==
    /\ kind = "rtl" /\ k \in {"freq", "rate", "ppm", "bias", "agc", "gain"}
    /\ k = "gain" => panel["agc"] = 0
    /\ IF k \in {"agc", "gain"} THEN ForwardGain(k, v) ELSE Forward(k, v)

RtlTcpPanel(k, v) ==
    /\ kind = "rtltcp" /\ k \in {"freq", "rate", "ppm", "bias", "agc", "gain"}
    /\ k = "gain" => panel["agc"] = 0
    /\ IF k \in {"agc", "gain"} THEN ForwardGain(k, v) ELSE Forward(k, v)

\* Of the two RTL receivers only the correction is live.
DualPanel(k, v) ==
    /\ kind = "dual" /\ k \in {"freq", "rate", "ppm", "bias", "agc", "gain"}
    /\ k = "gain" => panel["agc"] = 0
    /\ IF k = "ppm" THEN Forward(k, v) ELSE Keep(k, v)

HackRfPanel(k, v) ==
    /\ kind = "hackrf" /\ k \in {"freq", "rate", "lna", "vga", "amp", "bias", "ppm"}
    /\ Forward(k, v)

\* The buttons of the gain mode only change App; the two sliders of the first modes
\* call setGainMode before their own setter, the controls of mode 2 do not.
AirspyPanel(k, v) ==
    /\ kind = "airspy"
    /\ \/ k = "mode" /\ Keep(k, v)
       \/ /\ k = (IF panel["mode"] = 0 THEN "sense" ELSE "linear") /\ panel["mode"] # 2
          /\ Move(k, v, {"mode", k})
          /\ radio' = IF running THEN Set(k, Set("mode", radio, [field EXCEPT !["mode"] = panel["mode"]]), field')
                      ELSE radio
       \/ /\ k \in {"lnaAgc", "lna", "mixerAgc", "mixer", "vga"} /\ panel["mode"] = 2
          /\ k = "lna" => panel["lnaAgc"] = 0
          /\ k = "mixer" => panel["mixerAgc"] = 0
          /\ Forward(k, v)
       \/ k \in {"freq", "rate", "bias", "ppm"} /\ Forward(k, v)

PlutoPanel(k, v) ==
    /\ kind = "pluto" /\ k \in {"freq", "rate", "bandwidth", "port", "agc", "gain", "ppm"}
    /\ k = "gain" => panel["agc"] = 0
    /\ IF k \in {"agc", "gain"} THEN ForwardGain(k, v) ELSE Forward(k, v)

\* While it runs, the frequency and the two gain sliders; the IF gain not under AGC.
SdrplayPanel(k, v) ==
    /\ kind = "sdrplay" /\ k \in {"freq", "rate", "bandwidth", "ppm", "agc", "gain", "ifgr"}
    /\ running => k \in {"freq", "gain", "ifgr"}
    /\ k = "ifgr" => panel["agc"] = 0
    /\ Forward(k, v)

MoveControl(k, v) ==
    /\ v = 2 => k = "mode"
    /\ \/ RtlPanel(k, v) \/ RtlTcpPanel(k, v) \/ DualPanel(k, v) \/ HackRfPanel(k, v)
       \/ AirspyPanel(k, v) \/ PlutoPanel(k, v) \/ SdrplayPanel(k, v)

Next == Start \/ Stop \/ \E k \in Knobs, v \in 0 .. 2 : MoveControl(k, v)

Spec == Init /\ [][Next]_vars

-----------------------------------------------------------------------------
(* Properties                                                              *)

\* The settings that are in force, given the values of the others.
InForce(f) ==
    CASE kind \in {"rtl", "rtltcp", "dual"} ->
             {"freq", "rate", "ppm", "bias", "agc"} \cup (IF f["agc"] = 1 THEN {} ELSE {"gain"})
      [] kind = "hackrf" -> {"freq", "rate", "ppm", "lna", "vga", "amp", "bias"}
      [] kind = "airspy" ->
             {"freq", "rate", "ppm", "bias", "mode"} \cup
             (CASE f["mode"] = 0 -> {"sense"}
                [] f["mode"] = 1 -> {"linear"}
                [] OTHER -> {"vga", "lnaAgc", "mixerAgc"}
                            \cup (IF f["lnaAgc"] = 1 THEN {} ELSE {"lna"})
                            \cup (IF f["mixerAgc"] = 1 THEN {} ELSE {"mixer"}))
      [] kind = "pluto" -> {"freq", "rate", "ppm", "bandwidth", "port", "agc"}
                           \cup (IF f["agc"] = 1 THEN {} ELSE {"gain"})
      [] kind = "sdrplay" -> {"freq", "rate", "bandwidth", "ppm", "agc", "gain"}
                             \cup (IF f["agc"] = 1 THEN {} ELSE {"ifgr"})

\* While a source runs the hardware has the values its panel shows, for every setting
\* in force, after any sequence of changes, stops and starts.  Two panels are
\* excepted: the dual RTL one, which forwards the correction only, and the Airspy one
\* from a change of gain mode until a slider of modes 0 and 1 is moved in it.
RadioMatchesPanel ==
    running => \A k \in InForce(panel) :
                   \/ radio[k] = panel[k]
                   \/ kind = "dual" /\ k # "ppm"
                   \/ kind = "airspy" /\ panel["mode"] # field["mode"]

\* What the source remembers is what it has written: its fields never run ahead of the
\* hardware, whichever order gains, modes and AGC were set in.
RadioMatchesSource ==
    running => \A k \in InForce(field) : radio[k] = field[k]

\* Panel, source and hardware agree.
RadioIsAsShown == RadioMatchesPanel /\ RadioMatchesSource
=============================================================================
