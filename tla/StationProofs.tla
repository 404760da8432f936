--------------------------- MODULE StationProofs ---------------------------
(***************************************************************************)
(* Theorems about the parts of the station that MCStation puts together:   *)
(* playback and the mute of live audio, the settings file, the settings of *)
(* the radios, the tuner, the call hunter, and the audio output for every  *)
(* capacity of its ring and every set of decoders. A theorem about one of  *)
(* them is a theorem about every behaviour of the sum, whatever the        *)
(* constants.                                                              *)
(***************************************************************************)
EXTENDS MCStation, OrderedProofs, SequenceTheorems, TLAPS

-----------------------------------------------------------------------------
(* Playback                                                                *)

\* While a playback is known to the frame loop the outputs may have any mute; when it is
\* not, they are as the box says, also in the frame in which a call was just started.
PlaybackInv ==
    /\ playing \in BOOLEAN /\ wasPlaying \in BOOLEAN
    /\ ~wasPlaying => liveMuted = voiceMuted \/ untouched

LEMMA PlaybackInit == Player!Init => PlaybackInv
BY DEF Player!Init, PlaybackInv

LEMMA PlaybackStep ==
    ASSUME PlaybackInv, Player!Next
    PROVE  PlaybackInv'
<1>1. CASE \E c \in Calls : Player!PressPlay(c) \/ Player!PressPause(c)
    <2>1. PICK c \in Calls : Player!PressPlay(c) \/ Player!PressPause(c)
        BY <1>1
    <2>2. playing' \in BOOLEAN /\ UNCHANGED <<voiceMuted, liveMuted, wasPlaying, untouched>>
        BY <2>1, Zenon DEF Player!PressPlay, Player!PressPause
    <2> QED BY <2>2 DEF PlaybackInv
<1>2. CASE Player!ToggleMute
    BY <1>2 DEF PlaybackInv, Player!ToggleMute, Player!player
<1>3. CASE Player!FileEnds
    BY <1>3 DEF PlaybackInv, Player!FileEnds
<1>4. CASE Player!EndOfFrame
    BY <1>4 DEF PlaybackInv, Player!EndOfFrame, Player!player
<1>5. QED BY <1>1, <1>2, <1>3, <1>4 DEF Player!Next

PlaybackPart == part = "playback" => PlaybackInv

\* Between playbacks live audio is as the Mute box says: the end of a frame, which
\* silences it for a playback, puts it back however the playback ended.
THEOREM MuteFollowsBox == SumSpec => []LiveAudioFollowsBox
<1>1. SumInit => PlaybackPart
    BY PlaybackInit DEF SumInit, PlaybackPart
<1>2. PlaybackPart /\ [SumNext]_sumVars => PlaybackPart'
    <2> SUFFICES ASSUME PlaybackPart, [SumNext]_sumVars, part' = "playback"
                 PROVE  PlaybackInv'
        BY DEF PlaybackPart
    <2>1. CASE UNCHANGED sumVars
        BY <2>1 DEF sumVars, playback, PlaybackPart, PlaybackInv
    <2>2. CASE SumNext
        <3>1. part = "playback" /\ Player!Next
            BY <2>2 DEF SumNext
        <3> QED BY <3>1, PlaybackStep DEF PlaybackPart
    <2> QED BY <2>1, <2>2
<1>3. PlaybackPart => LiveAudioFollowsBox
    BY DEF PlaybackPart, PlaybackInv, LiveAudioFollowsBox, Player!LiveAudioFollowsBox
<1>4. QED BY <1>1, <1>2, <1>3, PTL DEF SumSpec

-----------------------------------------------------------------------------
(* inmarscope.ini                                                          *)

LEMMA Rounding ==
    ASSUME NEW f \in Int
    PROVE  /\ Saved!Rounded(f) \in Int
           /\ f - Saved!Rounded(f) \in -2 .. 2
           /\ Saved!Rounded(Saved!Rounded(f)) = Saved!Rounded(f)
<1>1. PICK q \in Int, r \in 0 .. 3 : f + 2 = 4 * q + r
    <2>1. (f + 2) \div 4 \in Int /\ (f + 2) % 4 \in 0 .. 3
          /\ f + 2 = 4 * ((f + 2) \div 4) + ((f + 2) % 4)
        OBVIOUS
    <2> QED BY <2>1
<1>2. Saved!Rounded(f) = 4 * q
    BY <1>1 DEF Saved!Rounded
<1>3. Saved!Rounded(4 * q) = 4 * q
    BY <1>1 DEF Saved!Rounded
<1>4. QED BY <1>1, <1>2, <1>3

IniRec == [shown : BOOLEAN, save : BOOLEAN, saved : SUBSET Int]

IniTypes ==
    /\ up \in BOOLEAN /\ on \in BOOLEAN /\ fresh \in BOOLEAN
    /\ shown \in BOOLEAN /\ applied \in BOOLEAN /\ save \in BOOLEAN
    /\ list \subseteq Int /\ DOMAIN decs \subseteq Int
    /\ file \in IniRec
    /\ ~up => ~on

\* Decoders are refreshed into the list before a click can stop the radio, so what the
\* last stop left is in the list, or, once the file was read again, rounded in it.
KeptInv ==
    /\ up /\ fresh /\ on /\ save => list = DOMAIN decs
    /\ last # Saved!NoList =>
          /\ ~on /\ last \subseteq Int
          /\ up => save /\ \A f \in last : f \in list \/ Saved!Rounded(f) \in list
          /\ ~up => file.save /\ \A f \in last : Saved!Rounded(f) \in file.saved

\* What each setting has come to; "feed" waits for the next frame, and only "cpu" reaches
\* a decoder.
EffectInv ==
    up =>
        /\ setting = "format" => applied = shown
        /\ setting = "feed" /\ fresh => applied = shown
        /\ setting = "prebuffer" /\ on => applied = shown
        /\ setting = "mute" /\ applied => shown
        /\ \A f \in DOMAIN decs : decs[f] = FALSE \/ (setting = "cpu" /\ shown)

IniInv == IniTypes /\ KeptInv /\ EffectInv

USE DEF Saved!Click, Saved!NoDecs

LEMMA IniInit == Saved!Init => IniInv
<1> SUFFICES ASSUME Saved!Init
             PROVE  IniInv
    OBVIOUS
<1>1. IniTypes
    BY DEF Saved!Init, IniTypes, IniRec
<1>2. KeptInv
    BY DEF Saved!Init, KeptInv
<1>3. EffectInv
    BY DEF Saved!Init, EffectInv
<1>4. QED BY <1>1, <1>2, <1>3 DEF IniInv

LEMMA WrittenType ==
    ASSUME IniTypes
    PROVE  /\ Saved!Written \in IniRec
           /\ Saved!Written.save = save
           /\ save => Saved!Written.saved = {Saved!Rounded(f) : f \in list}
<1>1. \A f \in list : Saved!Rounded(f) \in Int
    BY Rounding DEF IniTypes
<1>2. QED BY <1>1 DEF Saved!Written, IniTypes, IniRec

LEMMA IniTypesStep ==
    ASSUME IniTypes, Saved!Next
    PROVE  IniTypes'
<1>1. CASE Saved!Launch
    BY <1>1 DEF IniTypes, Saved!Launch, IniRec
<1>2. CASE Saved!Frame
    BY <1>2 DEF IniTypes, Saved!Frame
<1>3. CASE Saved!ToggleSave
    BY <1>3 DEF IniTypes, Saved!ToggleSave
<1>4. CASE Saved!StartRadio
    BY <1>4 DEF IniTypes, Saved!StartRadio
<1>5. CASE Saved!StopRadio
    BY <1>5 DEF IniTypes, Saved!StopRadio
<1>6. CASE Saved!Autosave
    BY <1>6, WrittenType DEF IniTypes, Saved!Autosave, Saved!memory
<1>7. CASE Saved!Exit
    BY <1>7, WrittenType DEF IniTypes, Saved!Exit, Saved!memory
<1>8. CASE Saved!Crash
    BY <1>8 DEF IniTypes, Saved!Crash, Saved!memory
<1>9. CASE Saved!Edit
    BY <1>9 DEF IniTypes, Saved!Edit
<1>10. ASSUME NEW f \in Freqs, Saved!AddDecoder(f) \/ Saved!RemoveDecoder(f)
       PROVE  IniTypes'
    BY <1>10, StationAssumption DEF IniTypes, Saved!AddDecoder, Saved!RemoveDecoder, StationAssumption
<1>11. QED
    BY <1>1, <1>2, <1>3, <1>4, <1>5, <1>6, <1>7, <1>8, <1>9, <1>10 DEF Saved!Next

LEMMA KeptStep ==
    ASSUME IniInv, Saved!Next
    PROVE  KeptInv'
<1> USE DEF IniInv, IniTypes, KeptInv
<1>1. CASE Saved!Launch
    BY <1>1 DEF Saved!Launch
<1>2. CASE Saved!Frame
    BY <1>2 DEF Saved!Frame
<1>3. CASE Saved!ToggleSave
    BY <1>3 DEF Saved!ToggleSave
<1>4. CASE Saved!StartRadio
    BY <1>4 DEF Saved!StartRadio
<1>5. CASE Saved!StopRadio
    BY <1>5 DEF Saved!StopRadio
<1>6. CASE Saved!Autosave
    BY <1>6 DEF Saved!Autosave, Saved!memory
<1>7. CASE Saved!Exit
    <2>1. /\ up /\ fresh /\ up' = FALSE /\ on' = FALSE /\ file' = Saved!Written
          /\ last' = CASE save /\ on -> DOMAIN decs [] save /\ ~on -> last [] OTHER -> Saved!NoList
        BY <1>7 DEF Saved!Exit
    <2>2. SUFFICES ASSUME last' # Saved!NoList
                   PROVE  /\ last' \subseteq Int /\ file'.save
                          /\ \A f \in last' : Saved!Rounded(f) \in file'.saved
        BY <2>1
    <2>3. save
        <3>1. ~save => last' = Saved!NoList
            BY <2>1, Zenon
        <3> QED BY <2>2, <3>1
    <2>4. file'.save /\ file'.saved = {Saved!Rounded(f) : f \in list}
        BY <2>1, <2>3, WrittenType
    <2>5. CASE on
        BY <2>1, <2>3, <2>4, <2>5
    <2>6. CASE ~on
        <3>1. last' = last
            BY <2>1, <2>3, <2>6
        <3>2. \A f \in last : f \in Int /\ (f \in list \/ Saved!Rounded(f) \in list)
            BY <2>1, <2>2, <3>1
        <3>3. \A f \in last : Saved!Rounded(f) \in file'.saved
            BY <2>4, <3>2, Rounding
        <3> QED BY <2>4, <3>1, <3>2, <3>3
    <2>7. QED BY <2>5, <2>6
<1>8. CASE Saved!Crash
    BY <1>8 DEF Saved!Crash, Saved!memory
<1>9. CASE Saved!Edit
    BY <1>9 DEF Saved!Edit
<1>10. CASE \E f \in Freqs : Saved!AddDecoder(f) \/ Saved!RemoveDecoder(f)
    <2>1. /\ up /\ fresh' = FALSE
          /\ UNCHANGED <<up, on, setting, shown, save, list, applied, file, last>>
        BY <1>10, Zenon DEF Saved!AddDecoder, Saved!RemoveDecoder
    <2> QED BY <2>1
<1>11. QED
    BY <1>1, <1>2, <1>3, <1>4, <1>5, <1>6, <1>7, <1>8, <1>9, <1>10 DEF Saved!Next

LEMMA EffectStep ==
    ASSUME IniInv, Saved!Next
    PROVE  EffectInv'
<1> USE DEF IniInv, IniTypes, EffectInv
<1>1. CASE Saved!Launch
    BY <1>1 DEF Saved!Launch, IniRec
<1>2. CASE Saved!Frame
    BY <1>2 DEF Saved!Frame
<1>3. CASE Saved!ToggleSave
    BY <1>3 DEF Saved!ToggleSave
<1>4. CASE Saved!StartRadio
    BY <1>4 DEF Saved!StartRadio
<1>5. CASE Saved!StopRadio
    BY <1>5 DEF Saved!StopRadio
<1>6. CASE Saved!Autosave
    BY <1>6 DEF Saved!Autosave, Saved!memory
<1>7. CASE Saved!Exit
    BY <1>7 DEF Saved!Exit
<1>8. CASE Saved!Crash
    BY <1>8 DEF Saved!Crash
<1>9. CASE Saved!Edit
    BY <1>9 DEF Saved!Edit
<1>10. ASSUME NEW f \in Freqs, Saved!AddDecoder(f)
       PROVE  EffectInv'
    BY <1>10 DEF Saved!AddDecoder
<1>11. ASSUME NEW f \in Freqs, Saved!RemoveDecoder(f)
       PROVE  EffectInv'
    BY <1>11 DEF Saved!RemoveDecoder
<1>12. QED
    BY <1>1, <1>2, <1>3, <1>4, <1>5, <1>6, <1>7, <1>8, <1>9, <1>10, <1>11 DEF Saved!Next

IniPart == part = "config" => IniInv

LEMMA IniCorrect == SumSpec => []IniPart
<1>1. SumInit => IniPart
    BY IniInit DEF SumInit, IniPart
<1>2. IniPart /\ [SumNext]_sumVars => IniPart'
    <2> SUFFICES ASSUME IniPart, [SumNext]_sumVars, part' = "config"
                 PROVE  IniInv'
        BY DEF IniPart
    <2>1. CASE UNCHANGED sumVars
        BY <2>1 DEF sumVars, config, IniPart, IniInv, IniTypes, KeptInv, EffectInv
    <2>2. CASE SumNext
        <3>1. part = "config" /\ Saved!Next
            BY <2>2 DEF SumNext
        <3> QED BY <3>1, IniTypesStep, KeptStep, EffectStep DEF IniPart, IniInv
    <2> QED BY <2>1, <2>2
<1>3. QED BY <1>1, <1>2, PTL DEF SumSpec

\* The decoders at a stop or exit come back at the next start, in this launch or after
\* any exits and crashes, within what frequencies lose in inmarscope.ini.
THEOREM SavedDecodersComeBack == SumSpec => DecodersComeBack
<1>1. IniPart /\ [SumNext]_sumVars => (part = "config" => Saved!ComesBack)
    <2> SUFFICES ASSUME IniPart, part = "config", Saved!StartRadio, save, last # Saved!NoList,
                        NEW f \in last
                 PROVE  \E g \in DOMAIN decs' : f - g \in -2 .. 2
        BY DEF Saved!ComesBack
    <2>1. DOMAIN decs' = list /\ up
        BY DEF Saved!StartRadio
    <2>2. f \in Int /\ (f \in list \/ Saved!Rounded(f) \in list)
        BY <2>1 DEF IniPart, IniInv, KeptInv
    <2>3. f - f \in -2 .. 2
        BY <2>2
    <2>4. f - Saved!Rounded(f) \in -2 .. 2
        BY <2>2, Rounding
    <2> QED BY <2>1, <2>2, <2>3, <2>4
<1>2. QED BY <1>1, IniCorrect, PTL DEF SumSpec, DecodersComeBack

-----------------------------------------------------------------------------
(* The settings of the radios                                              *)

\* Only the gain mode has a third value.
Values == {f \in [Settings!Knobs -> 0 .. 2] : \A k \in Settings!Knobs : f[k] = 2 => k = "mode"}

\* The hardware has what a source remembers, of the settings in force.
Agrees(r, f) == \A k \in Settings!InForce(f) : r[k] = f[k]

RadioTypes ==
    /\ kind \in SettingKinds /\ plays \in BOOLEAN
    /\ knobs \in Values /\ field \in Values /\ radio \in Values

\* While a source runs it has what its panel shows, but for what the panels of the two
\* RTL receivers and of the Airspy do not pass on.
PanelInv ==
    plays =>
        /\ kind = "dual" => field["ppm"] = knobs["ppm"]
        /\ kind = "airspy" => \A k \in Settings!Knobs \ {"mode"} : field[k] = knobs[k]
        /\ kind \notin {"dual", "airspy"} => field = knobs

RadioInv == RadioTypes /\ PanelInv /\ (plays => Agrees(radio, field))

LEMMA WrittenValue ==
    ASSUME NEW r \in Values, NEW f \in Values, NEW ks
    PROVE  /\ Settings!Written(r, f, ks) \in Values
           /\ \A k \in Settings!Knobs :
                 Settings!Written(r, f, ks)[k] = IF k \in ks THEN f[k] ELSE r[k]
BY DEF Settings!Written, Values

LEMMA SettingsInit == Settings!Init => RadioInv
<1> SUFFICES ASSUME Settings!Init
             PROVE  RadioInv
    OBVIOUS
<1>1. Settings!Zero \in Values
    BY DEF Settings!Zero, Values
<1>2. RadioTypes /\ plays = FALSE
    BY <1>1 DEF Settings!Init, RadioTypes
<1>3. QED BY <1>2 DEF RadioInv, PanelInv

\* What a register that was cleared leaves of the others.
LEMMA Cleared ==
    ASSUME NEW w \in Values, NEW c \in Settings!Knobs
    PROVE  /\ [w EXCEPT ![c] = 0] \in Values /\ [w EXCEPT ![c] = 0][c] = 0
           /\ \A k \in Settings!Knobs \ {c} : [w EXCEPT ![c] = 0][k] = w[k]
BY DEF Values

\* applyGain writes what is in force in the gain mode, and its mode.
AirspyGains(f) ==
    {"mode"} \cup (CASE f["mode"] = 0 -> {"sense"}
                     [] f["mode"] = 1 -> {"linear"}
                     [] OTHER -> {"vga", "lnaAgc", "mixerAgc"}
                                 \cup (IF f["lnaAgc"] = 1 THEN {} ELSE {"lna"})
                                 \cup (IF f["mixerAgc"] = 1 THEN {} ELSE {"mixer"}))

LEMMA FreeGains ==
    ASSUME NEW f, f["mode"] = 2
    PROVE  AirspyGains(f) = {"mode", "vga", "lnaAgc", "mixerAgc"}
                            \cup (IF f["lnaAgc"] = 1 THEN {} ELSE {"lna"})
                            \cup (IF f["mixerAgc"] = 1 THEN {} ELSE {"mixer"})
BY DEF AirspyGains

LEMMA AirspyGainValue ==
    ASSUME NEW r \in Values, NEW f \in Values
    PROVE  /\ Settings!AirspyGain(r, f) \in Values
           /\ \A k \in AirspyGains(f) : Settings!AirspyGain(r, f)[k] = f[k]
           /\ \A k \in {"freq", "rate", "ppm", "bias"} : Settings!AirspyGain(r, f)[k] = r[k]
<1> DEFINE S(w) == [w EXCEPT !["lnaAgc"] = 0, !["mixerAgc"] = 0]
<1>1. ASSUME NEW w \in Values
      PROVE  S(w) \in Values /\ \A k \in Settings!Knobs \ {"lnaAgc", "mixerAgc"} : S(w)[k] = w[k]
    BY DEF Values, Settings!Knobs
<1>2. f["mode"] \in 0 .. 2
    BY DEF Values, Settings!Knobs
<1>3. CASE f["mode"] = 0
    <2> DEFINE w == Settings!Written(r, f, {"mode", "sense"})
    <2>1. Settings!AirspyGain(r, f) = S(w)
        BY <1>3 DEF Settings!AirspyGain
    <2>2. AirspyGains(f) = {"mode", "sense"}
        BY <1>3 DEF AirspyGains
    <2>3. w \in Values /\ \A k \in Settings!Knobs : w[k] = IF k \in {"mode", "sense"} THEN f[k] ELSE r[k]
        BY WrittenValue
    <2> HIDE DEF S, w
    <2>4. QED BY <1>1, <2>1, <2>2, <2>3 DEF Settings!Knobs
<1>4. CASE f["mode"] = 1
    <2> DEFINE w == Settings!Written(r, f, {"mode", "linear"})
    <2>1. Settings!AirspyGain(r, f) = S(w)
        BY <1>4 DEF Settings!AirspyGain
    <2>2. AirspyGains(f) = {"mode", "linear"}
        BY <1>4 DEF AirspyGains
    <2>3. w \in Values /\ \A k \in Settings!Knobs : w[k] = IF k \in {"mode", "linear"} THEN f[k] ELSE r[k]
        BY WrittenValue
    <2> HIDE DEF S, w
    <2>4. QED BY <1>1, <2>1, <2>2, <2>3 DEF Settings!Knobs
<1>5. CASE f["mode"] = 2
    <2>1. Settings!AirspyGain(r, f) = Settings!Written(r, f, AirspyGains(f))
        BY <1>5, FreeGains DEF Settings!AirspyGain
    <2>2. AirspyGains(f) \subseteq Settings!Knobs
        BY <1>5 DEF AirspyGains, Settings!Knobs
    <2>3. AirspyGains(f) \cap {"freq", "rate", "ppm", "bias"} = {}
        BY <1>5 DEF AirspyGains
    <2>4. QED BY <2>1, <2>2, <2>3, WrittenValue DEF Settings!Knobs
<1>6. QED BY <1>2, <1>3, <1>4, <1>5

\* start() brings the hardware in line with the source.
LEMMA OpenedAgrees ==
    ASSUME kind \in SettingKinds, NEW r \in Values, NEW f \in Values
    PROVE  Settings!Opened(r, f) \in Values /\ Agrees(Settings!Opened(r, f), f)
<1>1. CASE kind \in {"rtl", "dual"}
    <2>1. PICK c \in Values : c = [r EXCEPT !["ppm"] = 0] /\ c["ppm"] = 0
        <3>1. "ppm" \in Settings!Knobs
            BY DEF Settings!Knobs
        <3>2. [r EXCEPT !["ppm"] = 0] \in Values /\ [r EXCEPT !["ppm"] = 0]["ppm"] = 0
            BY <3>1, Cleared
        <3> QED BY <3>2
    <2>2. PICK ks : ks = {"rate", "freq", "bias"} \cup (IF f["ppm"] # 0 THEN {"ppm"} ELSE {})
        OBVIOUS
    <2>3. PICK w \in Values : /\ w = Settings!Written(c, f, ks)
                              /\ \A k \in Settings!Knobs : w[k] = IF k \in ks THEN f[k] ELSE c[k]
        BY WrittenValue
    <2>4. \A k \in {"rate", "freq", "bias", "ppm"} : w[k] = f[k]
        BY <2>1, <2>2, <2>3 DEF Settings!Knobs
    <2>5. PICK gs : gs = IF f["agc"] = 1 THEN {"agc"} ELSE {"agc", "gain"}
        OBVIOUS
    <2>6. Settings!Opened(r, f) = Settings!Written(w, f, gs)
        BY <1>1, <2>1, <2>2, <2>3, <2>5 DEF Settings!Opened, Settings!RtlOpened, Settings!RtlGain
    <2>7. Settings!InForce(f) = {"freq", "rate", "ppm", "bias"} \cup gs
        BY <1>1, <2>5 DEF Settings!InForce
    <2>8. gs \subseteq Settings!Knobs /\ {"freq", "rate", "ppm", "bias"} \subseteq Settings!Knobs
        BY <2>5 DEF Settings!Knobs
    <2>9. QED BY <2>4, <2>6, <2>7, <2>8, WrittenValue DEF Agrees
<1>2. CASE kind = "rtltcp"
    BY <1>2, WrittenValue DEF Settings!Opened, Settings!RtlTcpOpened, Settings!RtlTcpSet, Agrees,
        Settings!InForce, Settings!Knobs
<1>3. CASE kind = "hackrf"
    BY <1>3, WrittenValue DEF Settings!Opened, Settings!HackRfOpened, Agrees, Settings!InForce,
        Settings!Knobs
<1>4. CASE kind = "airspy"
    <2>1. PICK w \in Values : /\ w = Settings!Written(r, f, {"rate", "freq", "ppm", "bias"})
                              /\ \A k \in {"rate", "freq", "bias", "ppm"} : w[k] = f[k]
        BY WrittenValue DEF Settings!Knobs
    <2>2. Settings!Opened(r, f) = Settings!AirspyGain(w, f)
        BY <1>4, <2>1 DEF Settings!Opened, Settings!AirspyOpened
    <2>3. Settings!InForce(f) = {"freq", "rate", "ppm", "bias"} \cup AirspyGains(f)
        BY <1>4 DEF Settings!InForce, AirspyGains
    <2>4. QED BY <2>1, <2>2, <2>3, AirspyGainValue DEF Agrees
<1>5. CASE kind = "pluto"
    BY <1>5, WrittenValue DEF Settings!Opened, Settings!PlutoOpened, Agrees, Settings!InForce,
        Settings!Knobs
<1>6. CASE kind = "sdrplay"
    BY <1>6, WrittenValue DEF Settings!Opened, Settings!SdrplayOpened, Agrees, Settings!InForce,
        Settings!Knobs
<1>7. QED BY <1>1, <1>2, <1>3, <1>4, <1>5, <1>6 DEF SettingKinds

\* A setter of the source whose members ks have changed from f to g.
Changed(f, g, ks) == \A k \in Settings!Knobs : k \notin ks => g[k] = f[k]

LEMMA SetAgrees ==
    ASSUME NEW k \in Settings!Knobs, NEW ks, NEW r \in Values, NEW f \in Values, NEW g \in Values,
           Agrees(r, f), Changed(f, g, ks),
           \/ /\ kind \in {"rtl", "rtltcp", "pluto"} /\ k \in {"agc", "gain"} /\ ks = {"agc", "gain"}
           \/ /\ kind \in {"rtl", "rtltcp", "dual", "hackrf", "pluto"} /\ k \notin {"agc", "gain"} /\ ks = {k}
           \/ /\ kind = "sdrplay" /\ k \in {"freq", "gain", "ifgr"} /\ ks = {k}
    PROVE  Settings!Set(k, r, g) \in Values /\ Agrees(Settings!Set(k, r, g), g)
<1> USE DEF Agrees, Changed
<1>1. CASE kind \in {"rtl", "dual"}
    <2>1. Settings!Set(k, r, g) = Settings!RtlSet(k, r, g)
        BY <1>1 DEF Settings!Set
    <2>2. QED BY <1>1, <2>1, WrittenValue DEF Settings!RtlSet, Settings!RtlGain, Settings!InForce,
                Settings!Knobs
<1>2. CASE kind = "rtltcp"
    <2>1. Settings!Set(k, r, g) = Settings!RtlTcpSet(k, r, g)
        BY <1>2 DEF Settings!Set
    <2>2. QED BY <1>2, <2>1, WrittenValue DEF Settings!RtlTcpSet, Settings!InForce, Settings!Knobs
<1>3. CASE kind = "hackrf"
    <2>1. Settings!Set(k, r, g) = Settings!HackRfSet(k, r, g)
        BY <1>3 DEF Settings!Set
    <2>2. QED BY <1>3, <2>1, WrittenValue DEF Settings!HackRfSet, Settings!InForce, Settings!Knobs
<1>4. CASE kind = "pluto"
    <2>1. Settings!Set(k, r, g) = Settings!PlutoSet(k, r, g)
        BY <1>4 DEF Settings!Set
    <2>2. QED BY <1>4, <2>1, WrittenValue DEF Settings!PlutoSet, Settings!InForce, Settings!Knobs
<1>5. CASE kind = "sdrplay"
    <2>1. Settings!Set(k, r, g) = Settings!SdrplaySet(k, r, g)
        BY <1>5 DEF Settings!Set
    <2>2. QED BY <1>5, <2>1, WrittenValue DEF Settings!SdrplaySet, Settings!InForce, Settings!Knobs
<1>6. QED BY <1>1, <1>2, <1>3, <1>4, <1>5

LEMMA AirspySetAgrees ==
    ASSUME NEW k \in Settings!Knobs \ {"mode", "sense", "linear"},
           NEW r \in Values, NEW f \in Values, NEW g \in Values,
           kind = "airspy", Agrees(r, f), Changed(f, g, {k})
    PROVE  Settings!Set(k, r, g) \in Values /\ Agrees(Settings!Set(k, r, g), g)
<1> USE DEF Agrees, Changed
<1>1. Settings!Set(k, r, g) = Settings!AirspySet(k, r, g)
    BY DEF Settings!Set
<1>2. \A h \in {f, g} : Settings!InForce(h) = {"freq", "rate", "ppm", "bias"} \cup AirspyGains(h)
    BY DEF Settings!InForce, AirspyGains
<1>3. g["mode"] = f["mode"] /\ f["mode"] \in 0 .. 2
    BY DEF Values, Settings!Knobs
<1>4. CASE k \in {"freq", "ppm"}
    <2>1. Settings!Set(k, r, g) = Settings!Written(r, g, {"freq", "ppm"})
        BY <1>1, <1>4 DEF Settings!AirspySet
    <2>2. AirspyGains(g) = AirspyGains(f) /\ AirspyGains(g) \subseteq Settings!Knobs
        BY <1>4 DEF AirspyGains, Settings!Knobs
    <2>3. QED BY <1>2, <1>4, <2>1, <2>2, WrittenValue DEF Settings!Knobs
<1>5. CASE k \notin {"freq", "ppm", "lna", "mixer", "vga", "lnaAgc", "mixerAgc"}
    <2>1. Settings!Set(k, r, g) = Settings!Written(r, g, {k})
        BY <1>1, <1>5 DEF Settings!AirspySet
    <2>2. AirspyGains(g) = AirspyGains(f) /\ AirspyGains(g) \subseteq Settings!Knobs
        BY <1>5 DEF AirspyGains, Settings!Knobs
    <2>3. QED BY <1>2, <1>5, <2>1, <2>2, WrittenValue DEF Settings!Knobs
<1>6. CASE k \in {"lna", "mixer", "vga", "lnaAgc", "mixerAgc"} /\ g["mode"] # 2
    <2>1. Settings!Set(k, r, g) = Settings!Written(r, g, {})
        BY <1>1, <1>6 DEF Settings!AirspySet
    <2>2. AirspyGains(g) = AirspyGains(f) /\ AirspyGains(g) \subseteq {"mode", "sense", "linear"}
        BY <1>3, <1>6 DEF AirspyGains
    <2>3. QED BY <1>2, <1>6, <2>1, <2>2, WrittenValue DEF Settings!Knobs
<1>7. CASE k \in {"lna", "mixer", "vga", "lnaAgc", "mixerAgc"} /\ g["mode"] = 2
    <2>1. \A h \in {f, g} :
             AirspyGains(h) = {"mode", "vga", "lnaAgc", "mixerAgc"}
                              \cup (IF h["lnaAgc"] = 1 THEN {} ELSE {"lna"})
                              \cup (IF h["mixerAgc"] = 1 THEN {} ELSE {"mixer"})
        BY <1>3, <1>7, FreeGains
    <2>2. PICK w : /\ Settings!Set(k, r, g) = Settings!Written(r, g, w)
                   /\ k \in {"lna", "mixer"} => w \in SUBSET {k}
                   /\ k = "vga" => w = {k}
                   /\ k = "lna" => w = IF g["lnaAgc"] = 0 THEN {k} ELSE {}
                   /\ k = "mixer" => w = IF g["mixerAgc"] = 0 THEN {k} ELSE {}
                   /\ k = "lnaAgc" => w = IF g[k] = 1 THEN {k} ELSE {k, "lna"}
                   /\ k = "mixerAgc" => w = IF g[k] = 1 THEN {k} ELSE {k, "mixer"}
        BY <1>1, <1>7 DEF Settings!AirspySet
    <2>3. g["lnaAgc"] \in 0 .. 1 /\ g["mixerAgc"] \in 0 .. 1
        BY DEF Values, Settings!Knobs
    <2>4. PICK q : q = Settings!Written(r, g, w)
        OBVIOUS
    <2>5. q \in Values /\ \A j \in Settings!Knobs : q[j] = IF j \in w THEN g[j] ELSE r[j]
        BY <2>4, WrittenValue
    <2>6. \A j \in {"freq", "rate", "ppm", "bias"} : q[j] = g[j]
        BY <1>2, <1>7, <2>2, <2>5 DEF Settings!Knobs
    <2>7. ASSUME NEW j \in AirspyGains(g)
          PROVE  q[j] = g[j]
        <3>1. j \in {"mode", "vga", "lnaAgc", "mixerAgc", "lna", "mixer"} /\ j \in Settings!Knobs
            BY <2>1 DEF Settings!Knobs
        <3>2. CASE j \in w
            BY <2>5, <3>1, <3>2
        <3>3. CASE j \notin w
            <4>1. j # k
                BY <1>7, <2>1, <2>2, <2>3, <3>3
            <4>2. j \in AirspyGains(f)
                BY <1>7, <2>1, <2>2, <2>3, <3>1, <3>3, <4>1 DEF Settings!Knobs
            <4>3. q[j] = r[j] /\ r[j] = f[j] /\ g[j] = f[j]
                BY <1>2, <2>5, <3>1, <3>3, <4>1, <4>2
            <4> QED BY <4>3
        <3> QED BY <3>2, <3>3
    <2>8. QED BY <1>2, <2>2, <2>4, <2>5, <2>6, <2>7
<1>8. QED BY <1>4, <1>5, <1>6, <1>7

\* What a control changes: its place on the panel, and the members that are forwarded.
LEMMA MoveEffect ==
    ASSUME RadioTypes, NEW k \in Settings!Knobs, NEW v \in 0 .. 2, v = 2 => k = "mode", NEW ks,
           Settings!Move(k, v, ks)
    PROVE  /\ kind' = kind /\ plays' = plays /\ knobs' \in Values /\ field' \in Values
           /\ knobs'[k] = v /\ Changed(knobs, knobs', {k})
           /\ ~plays => field' = field
           /\ plays => /\ Changed(field, field', ks)
                       /\ \A j \in Settings!Knobs : j \in ks => field'[j] = knobs'[j]
<1>1. kind' = kind /\ plays' = plays /\ knobs' = [knobs EXCEPT ![k] = v]
    BY DEF Settings!Move
<1>2. knobs' \in Values /\ knobs'[k] = v /\ Changed(knobs, knobs', {k})
    BY <1>1 DEF RadioTypes, Values, Changed
<1>3. field' = IF plays THEN Settings!Written(field, knobs', ks) ELSE field
    BY DEF Settings!Move
<1>4. CASE ~plays
    BY <1>1, <1>2, <1>3, <1>4 DEF RadioTypes
<1>5. CASE plays
    <2>1. field' = Settings!Written(field, knobs', ks) /\ field \in Values
        BY <1>3, <1>5 DEF RadioTypes
    <2>2. /\ field' \in Values
          /\ \A j \in Settings!Knobs : field'[j] = IF j \in ks THEN knobs'[j] ELSE field[j]
        BY <1>2, <2>1, WrittenValue
    <2>3. QED BY <1>1, <1>2, <1>5, <2>2 DEF Changed
<1>6. QED BY <1>4, <1>5 DEF RadioTypes

\* A panel that forwards all it changes to a source that remembers the panel.
LEMMA Follows ==
    ASSUME RadioInv, plays, kind \notin {"dual", "airspy"},
           NEW k \in Settings!Knobs, NEW ks, k \in ks,
           knobs' \in Values, field' \in Values,
           Changed(knobs, knobs', {k}), Changed(field, field', ks),
           \A j \in Settings!Knobs : j \in ks => field'[j] = knobs'[j]
    PROVE  field' = knobs'
<1>1. field = knobs
    BY DEF RadioInv, PanelInv
<1>2. \A j \in Settings!Knobs : field'[j] = knobs'[j]
    BY <1>1 DEF Changed
<1>3. QED BY <1>2 DEF Values

LEMMA ForwardStep ==
    ASSUME RadioInv, NEW k \in Settings!Knobs, NEW v \in 0 .. 2, v = 2 => k = "mode",
           \/ /\ Settings!ForwardGain(k, v) /\ kind \in {"rtl", "rtltcp", "pluto"}
              /\ k \in {"agc", "gain"}
           \/ /\ Settings!Forward(k, v)
              /\ \/ kind \in {"rtl", "rtltcp", "hackrf", "pluto"} /\ k \notin {"agc", "gain"}
                 \/ kind = "dual" /\ k = "ppm"
                 \/ kind = "sdrplay" /\ (plays => k \in {"freq", "gain", "ifgr"})
                 \/ kind = "airspy" /\ k \notin {"mode", "sense", "linear"}
    PROVE  RadioInv'
<1> PICK ks : /\ Settings!Move(k, v, ks) /\ k \in ks
              /\ radio' = IF plays THEN Settings!Set(k, radio, field') ELSE radio
              /\ \/ kind \in {"rtl", "rtltcp", "pluto"} /\ k \in {"agc", "gain"} /\ ks = {"agc", "gain"}
                 \/ kind \in {"rtl", "rtltcp", "hackrf", "pluto"} /\ k \notin {"agc", "gain"} /\ ks = {k}
                 \/ kind = "dual" /\ k = "ppm" /\ ks = {k}
                 \/ kind = "sdrplay" /\ (plays => k \in {"freq", "gain", "ifgr"}) /\ ks = {k}
                 \/ kind = "airspy" /\ k \notin {"mode", "sense", "linear"} /\ ks = {k}
    BY Zenon DEF Settings!ForwardGain, Settings!Forward
<1>1. /\ kind' = kind /\ plays' = plays /\ knobs' \in Values /\ field' \in Values
      /\ knobs'[k] = v /\ Changed(knobs, knobs', {k})
      /\ ~plays => field' = field
      /\ plays => /\ Changed(field, field', ks)
                  /\ \A j \in Settings!Knobs : j \in ks => field'[j] = knobs'[j]
    BY MoveEffect DEF RadioInv
<1>2. CASE ~plays
    BY <1>1, <1>2 DEF RadioInv, RadioTypes, PanelInv
<1>3. CASE plays
    <2>1. radio \in Values /\ field \in Values /\ Agrees(radio, field)
        BY <1>3 DEF RadioInv, RadioTypes
    <2>2. radio' = Settings!Set(k, radio, field') /\ Changed(field, field', ks)
        BY <1>1, <1>3
    <2>3. radio' \in Values /\ Agrees(radio', field')
        <3>1. CASE kind = "airspy"
            <4>1. k \in Settings!Knobs \ {"mode", "sense", "linear"} /\ ks = {k}
                BY <3>1
            <4> QED BY <1>1, <2>1, <2>2, <3>1, <4>1, AirspySetAgrees
        <3>2. CASE kind # "airspy"
            BY <1>1, <1>3, <2>1, <2>2, <3>2, SetAgrees
        <3> QED BY <3>1, <3>2
    <2>4. Agrees(radio, field)'
        BY <1>1, <2>3 DEF Agrees, Settings!InForce
    <2>5. PanelInv'
        <3>1. CASE kind = "dual"
            BY <1>1, <1>3, <3>1 DEF PanelInv
        <3>2. CASE kind = "airspy"
            <4>1. \A j \in Settings!Knobs \ {"mode"} : field'[j] = knobs'[j]
                BY <1>1, <1>3, <3>2 DEF RadioInv, PanelInv, Changed
            <4> QED BY <1>1, <3>2, <4>1 DEF PanelInv
        <3>3. CASE kind \notin {"dual", "airspy"}
            <4>1. field' = knobs'
                BY <1>1, <1>3, <3>3, Follows
            <4> QED BY <1>1, <3>3, <4>1 DEF PanelInv
        <3> QED BY <3>1, <3>2, <3>3
    <2>6. QED BY <1>1, <2>3, <2>4, <2>5 DEF RadioInv, RadioTypes
<1>4. QED BY <1>2, <1>3 DEF RadioInv, RadioTypes

\* What a panel keeps to itself.
LEMMA KeepStep ==
    ASSUME RadioInv, NEW k \in Settings!Knobs, NEW v \in 0 .. 2, v = 2 => k = "mode",
           Settings!Keep(k, v),
           (kind = "dual" /\ k # "ppm") \/ (kind = "airspy" /\ k = "mode")
    PROVE  RadioInv'
<1>1. Settings!Move(k, v, {}) /\ radio' = radio
    BY DEF Settings!Keep
<1>2. /\ kind' = kind /\ plays' = plays /\ knobs' \in Values /\ field' \in Values
      /\ Changed(knobs, knobs', {k}) /\ Changed(field, field', {})
    BY <1>1, MoveEffect DEF RadioInv, Changed
<1>3. field' = field
    <2>1. \A j \in Settings!Knobs : field'[j] = field[j]
        BY <1>2 DEF Changed
    <2> QED BY <1>2, <2>1 DEF RadioInv, RadioTypes, Values
<1>4. PanelInv'
    BY <1>2, <1>3 DEF RadioInv, PanelInv, Changed, Settings!Knobs
<1>5. Agrees(radio, field)' <=> Agrees(radio, field)
    BY <1>1, <1>2, <1>3 DEF Agrees, Settings!InForce
<1>6. QED BY <1>1, <1>2, <1>4, <1>5 DEF RadioInv, RadioTypes

\* The sliders of the first two gain modes of the Airspy hand over the mode as well.
SliderMove(k, v) ==
    /\ Settings!Move(k, v, {"mode", k})
    /\ radio' = IF plays
                THEN Settings!Set(k, Settings!Set("mode", radio,
                                                  [field EXCEPT !["mode"] = knobs["mode"]]), field')
                ELSE radio

LEMMA SliderStep ==
    ASSUME RadioInv, kind = "airspy", NEW k \in Settings!Knobs, NEW v \in 0 .. 1,
           (knobs["mode"] = 0 /\ k = "sense") \/ (knobs["mode"] = 1 /\ k = "linear"),
           SliderMove(k, v)
    PROVE  RadioInv'
<1>0. k \in {"sense", "linear"} /\ k \in Settings!Knobs /\ "mode" \in Settings!Knobs
    BY DEF Settings!Knobs
<1>1. /\ kind' = kind /\ plays' = plays /\ knobs' \in Values /\ field' \in Values
      /\ knobs'[k] = v /\ Changed(knobs, knobs', {k})
      /\ ~plays => field' = field
      /\ plays => /\ Changed(field, field', {"mode", k})
                  /\ \A j \in Settings!Knobs : j \in {"mode", k} => field'[j] = knobs'[j]
    <2>1. v \in 0 .. 2 /\ (v = 2 => k = "mode")
        OBVIOUS
    <2>2. PICK ks : ks = {"mode", k} /\ Settings!Move(k, v, ks)
        BY DEF SliderMove
    <2>3. /\ kind' = kind /\ plays' = plays /\ knobs' \in Values /\ field' \in Values
          /\ knobs'[k] = v /\ Changed(knobs, knobs', {k})
          /\ ~plays => field' = field
          /\ plays => /\ Changed(field, field', ks)
                      /\ \A j \in Settings!Knobs : j \in ks => field'[j] = knobs'[j]
        <3>1. RadioTypes
            BY DEF RadioInv
        <3>2. k \in Settings!Knobs /\ v \in 0 .. 2 /\ (v = 2 => k = "mode") /\ Settings!Move(k, v, ks)
            BY <1>0, <2>1, <2>2
        <3> QED BY <3>1, <3>2, MoveEffect, Zenon
    <2> QED BY <2>2, <2>3
<1>2. CASE ~plays
    <2>1. radio' = radio
        BY <1>2 DEF SliderMove
    <2> QED BY <1>1, <1>2, <2>1 DEF RadioInv, RadioTypes, PanelInv
<1>3. CASE plays
    <2>1. /\ radio \in Values /\ field \in Values /\ knobs \in Values /\ Agrees(radio, field)
          /\ knobs["mode"] \in 0 .. 1
        BY <1>0, <1>3 DEF RadioInv, RadioTypes, Values
    <2>2. PICK f \in Values : /\ f = [field EXCEPT !["mode"] = knobs["mode"]]
                              /\ f["mode"] = knobs["mode"] /\ Changed(field, f, {"mode"})
        <3>1. [field EXCEPT !["mode"] = knobs["mode"]] \in Values
            BY <1>0, <2>1 DEF Values
        <3> QED BY <1>0, <2>1, <3>1 DEF Values, Changed
    <2>3. PICK q \in Values : /\ q = Settings!AirspyGain(radio, f)
                              /\ \A j \in AirspyGains(f) : q[j] = f[j]
                              /\ \A j \in {"freq", "rate", "ppm", "bias"} : q[j] = radio[j]
        BY <2>1, AirspyGainValue
    <2>4. Settings!Set("mode", radio, f) = q
        BY <2>3 DEF Settings!Set, Settings!AirspySet
    <2>5. AirspyGains(f) = {"mode", k} /\ AirspyGains(field') = {"mode", k}
        <3>1. field'["mode"] = knobs["mode"]
            BY <1>0, <1>1, <1>3 DEF Changed
        <3> QED BY <2>1, <2>2, <3>1 DEF AirspyGains
    <2>6. radio' = Settings!Written(q, field', {k})
        <3>1. radio' = Settings!Set(k, q, field')
            BY <1>3, <2>2, <2>4 DEF SliderMove
        <3>2. field'["mode"] = knobs["mode"]
            BY <1>0, <1>1, <1>3 DEF Changed
        <3> QED BY <2>1, <3>1, <3>2 DEF Settings!Set, Settings!AirspySet
    <2>7. /\ radio' \in Values /\ radio'[k] = field'[k]
          /\ \A j \in Settings!Knobs \ {k} : radio'[j] = q[j]
        <3>1. PICK ks : ks = {k} /\ radio' = Settings!Written(q, field', ks)
            BY <2>6
        <3>2. /\ radio' \in Values
              /\ \A j \in Settings!Knobs : radio'[j] = IF j \in ks THEN field'[j] ELSE q[j]
            <4>1. PICK g \in Values : g = field'
                BY <1>1
            <4>2. /\ Settings!Written(q, g, ks) \in Values
                  /\ \A j \in Settings!Knobs :
                        Settings!Written(q, g, ks)[j] = IF j \in ks THEN g[j] ELSE q[j]
                BY WrittenValue
            <4> QED BY <3>1, <4>1, <4>2
        <3> QED BY <1>0, <3>1, <3>2
    <2>8. radio'["mode"] = field'["mode"]
        <3>1. radio'["mode"] = q["mode"]
            BY <1>0, <2>7
        <3>2. q["mode"] = knobs["mode"]
            BY <2>2, <2>3, <2>5
        <3>3. field'["mode"] = knobs'["mode"] /\ knobs'["mode"] = knobs["mode"]
            BY <1>0, <1>1, <1>3 DEF Changed
        <3> QED BY <3>1, <3>2, <3>3
    <2>9. ASSUME NEW j \in {"freq", "rate", "ppm", "bias"}
          PROVE  radio'[j] = field'[j]
        <3>1. j \in Settings!Knobs /\ j \notin {"mode", k}
            BY <1>0 DEF Settings!Knobs
        <3>2. j \in Settings!InForce(field)
            BY DEF Settings!InForce
        <3>3. radio[j] = field[j]
            BY <2>1, <3>2 DEF Agrees
        <3> QED BY <1>1, <1>3, <2>3, <2>7, <3>1, <3>3 DEF Changed
    <2>10. Agrees(radio, field)'
        <3>1. Settings!InForce(field)' = {"freq", "rate", "ppm", "bias"} \cup AirspyGains(field')
            BY <1>1 DEF Settings!InForce, AirspyGains
        <3> QED BY <2>5, <2>7, <2>8, <2>9, <3>1 DEF Agrees
    <2>11. PanelInv'
        <3>1. \A j \in Settings!Knobs \ {"mode"} : field'[j] = knobs'[j]
            BY <1>1, <1>3 DEF RadioInv, PanelInv, Changed
        <3> QED BY <1>1, <3>1 DEF PanelInv
    <2>12. QED BY <1>1, <2>7, <2>10, <2>11 DEF RadioInv, RadioTypes
<1>4. QED BY <1>2, <1>3 DEF RadioInv, RadioTypes

LEMMA SettingsStep ==
    ASSUME RadioInv, Settings!Next
    PROVE  RadioInv'
<1>1. CASE Settings!Start
    <2>1. /\ kind' = kind /\ knobs' = knobs /\ field' = knobs /\ plays' = TRUE
          /\ radio' = Settings!Opened(radio, knobs)
        BY <1>1 DEF Settings!Start
    <2>2. radio' \in Values /\ Agrees(radio', knobs)
        BY <2>1, OpenedAgrees DEF RadioInv, RadioTypes
    <2>3. Agrees(radio, field)'
        BY <2>1, <2>2 DEF Agrees, Settings!InForce
    <2>4. QED BY <2>1, <2>2, <2>3 DEF RadioInv, RadioTypes, PanelInv
<1>2. CASE Settings!Stop
    <2>1. /\ kind' = kind /\ knobs' = knobs /\ field' = field /\ plays' = FALSE
          /\ radio' \in {radio, [radio EXCEPT !["bias"] = 0]}
        BY <1>2 DEF Settings!Stop
    <2>2. "bias" \in Settings!Knobs
        BY DEF Settings!Knobs
    <2>3. radio' \in Values
        BY <2>1, <2>2, Cleared DEF RadioInv, RadioTypes
    <2>4. QED BY <2>1, <2>3 DEF RadioInv, RadioTypes, PanelInv
<1>3. ASSUME NEW k \in Settings!Knobs, NEW v \in 0 .. 2, Settings!MoveControl(k, v)
      PROVE  RadioInv'
    <2>1. v = 2 => k = "mode"
        BY <1>3 DEF Settings!MoveControl
    <2>2. CASE Settings!RtlPanel(k, v)
        BY <2>1, <2>2, ForwardStep DEF Settings!RtlPanel
    <2>3. CASE Settings!RtlTcpPanel(k, v)
        BY <2>1, <2>3, ForwardStep DEF Settings!RtlTcpPanel
    <2>4. CASE Settings!DualPanel(k, v)
        BY <2>1, <2>4, ForwardStep, KeepStep DEF Settings!DualPanel
    <2>5. CASE Settings!HackRfPanel(k, v)
        BY <2>1, <2>5, ForwardStep DEF Settings!HackRfPanel
    <2>6. CASE Settings!AirspyPanel(k, v)
        <3>1. CASE k = "mode" /\ Settings!Keep(k, v)
            BY <2>1, <2>6, <3>1, KeepStep DEF Settings!AirspyPanel
        <3>2. CASE k \notin {"mode", "sense", "linear"} /\ Settings!Forward(k, v)
            BY <2>1, <2>6, <3>2, ForwardStep DEF Settings!AirspyPanel
        <3>3. CASE /\ k = (IF knobs["mode"] = 0 THEN "sense" ELSE "linear") /\ knobs["mode"] # 2
                   /\ Settings!Move(k, v, {"mode", k})
                   /\ radio' = IF plays
                               THEN Settings!Set(k, Settings!Set("mode", radio,
                                        [field EXCEPT !["mode"] = knobs["mode"]]), field')
                               ELSE radio
            <4>1. kind = "airspy" /\ v \in 0 .. 1
                BY <2>1, <2>6, <3>3 DEF Settings!AirspyPanel
            <4>2. SliderMove(k, v)
                BY <3>3 DEF SliderMove
            <4>3. (knobs["mode"] = 0 /\ k = "sense") \/ (knobs["mode"] = 1 /\ k = "linear")
                <5>1. knobs["mode"] \in 0 .. 2
                    BY DEF RadioInv, RadioTypes, Values, Settings!Knobs
                <5> QED BY <3>3, <5>1
            <4> QED BY <4>1, <4>2, <4>3, SliderStep
        <3> QED BY <2>6, <3>1, <3>2, <3>3 DEF Settings!AirspyPanel
    <2>7. CASE Settings!PlutoPanel(k, v)
        BY <2>1, <2>7, ForwardStep DEF Settings!PlutoPanel
    <2>8. CASE Settings!SdrplayPanel(k, v)
        BY <2>1, <2>8, ForwardStep DEF Settings!SdrplayPanel
    <2>9. QED BY <1>3, <2>2, <2>3, <2>4, <2>5, <2>6, <2>7, <2>8 DEF Settings!MoveControl
<1>4. QED BY <1>1, <1>2, <1>3 DEF Settings!Next

RadioPart == part = "settings" => RadioInv

\* What the panels show is in effect: in the radio of a running source, of whichever
\* kind, after any order of moved controls, starts and stops; and in the rest of the
\* program after launches, exits and crashes.
THEOREM SettingsHold == SumSpec => []SettingsInEffect
<1>1. SumInit => RadioPart
    BY SettingsInit DEF SumInit, RadioPart
<1>2. RadioPart /\ [SumNext]_sumVars => RadioPart'
    <2> SUFFICES ASSUME RadioPart, [SumNext]_sumVars, part' = "settings"
                 PROVE  RadioInv'
        BY DEF RadioPart
    <2>1. CASE UNCHANGED sumVars
        BY <2>1 DEF sumVars, settings, RadioPart, RadioInv, RadioTypes, PanelInv, Agrees,
            Settings!InForce
    <2>2. CASE SumNext
        <3>1. part = "settings" /\ Settings!Next
            BY <2>2 DEF SumNext
        <3> QED BY <3>1, SettingsStep DEF RadioPart
    <2> QED BY <2>1, <2>2
<1>3. RadioPart /\ IniPart => SettingsInEffect
    <2> SUFFICES ASSUME RadioPart, IniPart
                 PROVE  SettingsInEffect
        OBVIOUS
    <2>1. ASSUME part = "settings"
          PROVE  Settings!RadioMatchesSource
        BY <2>1 DEF RadioPart, RadioInv, Agrees, Settings!RadioMatchesSource
    <2>2. ASSUME part = "settings"
          PROVE  Settings!RadioMatchesPanel
        <3> SUFFICES ASSUME plays, NEW k \in Settings!InForce(knobs),
                            ~(kind = "dual" /\ k # "ppm"),
                            ~(kind = "airspy" /\ knobs["mode"] # field["mode"])
                     PROVE  radio[k] = knobs[k]
            BY DEF Settings!RadioMatchesPanel
        <3>1. RadioTypes /\ PanelInv /\ Agrees(radio, field)
            BY <2>2 DEF RadioPart, RadioInv
        <3>2. CASE kind = "dual"
            BY <3>1, <3>2 DEF PanelInv, Agrees, Settings!InForce
        <3>3. CASE kind # "dual"
            <4>1. \A j \in Settings!Knobs : field[j] = knobs[j]
                BY <3>1, <3>3 DEF PanelInv
            <4>2. field = knobs
                BY <3>1, <4>1 DEF RadioTypes, Values
            <4> QED BY <3>1, <4>2 DEF Agrees
        <3> QED BY <3>2, <3>3
    <2>3. ASSUME part = "config"
          PROVE  Saved!ShownIsInEffect
        BY <2>3 DEF IniPart, IniInv, EffectInv, Saved!ShownIsInEffect
    <2> QED BY <2>1, <2>2, <2>3 DEF SettingsInEffect, Settings!RadioIsAsShown
<1>4. QED BY <1>1, <1>2, <1>3, IniCorrect, PTL DEF SumSpec

-----------------------------------------------------------------------------
(* Following and tuning                                                    *)

\* Each instance has its own copy of Ordered.
LEMMA TunerSelected ==
    ASSUME NEW s, NEW I
    PROVE  Tuner!Selected(s, I) = Selected(s, I)
BY Zenon DEF Tuner!Selected, Tuner!Sorted, Tuner!Rank, Tuner!Cardinality, Selected, Sorted, Rank,
   Cardinality

Centre == Bands \cup {Tuner!NoBand}
Item == [band : Centre, voice : BOOLEAN]
Dec == [band : Centre, voice : BOOLEAN, followed : BOOLEAN, made : Centre]

DecTypes ==
    /\ center \in [Tuner!Receivers -> Centre] /\ conf \in [Tuner!Receivers -> Centre]
    /\ panel \in [Tuner!Receivers -> Centre] /\ edited \in [Tuner!Receivers -> BOOLEAN]
    /\ dec \in [Tuner!Receivers -> Seq(Dec)]

FollowTypes ==
    follow \in [on : BOOLEAN, retuned : BOOLEAN, homeCenter : Centre, home : Seq(Item),
                frames : BOOLEAN, idle : BOOLEAN]

TunerTypes ==
    /\ dual \in BOOLEAN /\ running \in BOOLEAN /\ chosenBand \in Centre /\ kept \subseteq Centre
    /\ saved \in [Tuner!Receivers -> Seq(Item)]
    /\ assigned \in [fresh : BOOLEAN, band : Centre]
    /\ DecTypes /\ FollowTypes

\* Only decoders of calls are followed, and none of a call is saved.
OnlyVoiceFollowed ==
    \A r \in Tuner!Receivers : \A i \in DOMAIN dec[r] : dec[r][i].followed => dec[r][i].voice
NoVoiceSaved == \A r \in Tuner!Receivers : \A i \in DOMAIN saved[r] : ~saved[r][i].voice

\* Unless the field moved the radio by itself, radio, manager and decoders are at one centre.
CentreInv ==
    \A r \in Tuner!Receivers : running /\ ~edited[r] =>
        conf[r] = center[r] /\ \A i \in DOMAIN dec[r] : dec[r][i].made = center[r]

\* Where A is to be: the field says it while a single radio is home, followHome while it is
\* away; with two radios A never leaves.
HomeInv ==
    running => /\ Tuner!Away => follow.homeCenter = chosenBand
               /\ ~Tuner!Away /\ ~dual => panel["A"] = chosenBand
               /\ ~Tuner!Away /\ ~edited["A"] => center["A"] = chosenBand

\* The bands of the data channels of a list.
DataBands(s) == {s[i].band : i \in {j \in DOMAIN s : ~s[j].voice}}

\* What A is to decode is listed, or waits in followHome.
KeptOnA ==
    running => kept \subseteq DataBands(IF Tuner!Away THEN follow.home ELSE dec["A"])

TunerInv == TunerTypes /\ OnlyVoiceFollowed /\ NoVoiceSaved /\ CentreInv /\ HomeInv /\ KeptOnA

LEMMA SameBands ==
    ASSUME NEW d, NEW s,
           \A i \in DOMAIN d : \E p \in DOMAIN s : ~s[p].voice /\ d[i] = s[p],
           \A p \in DOMAIN s : ~s[p].voice => \E i \in DOMAIN d : d[i] = s[p]
    PROVE  Tuner!BandsOf(d) = DataBands(s)
BY DEF Tuner!BandsOf, DataBands

LEMMA DataIs ==
    ASSUME NEW s \in Seq(Item)
    PROVE  /\ Tuner!Data(s) \in Seq(Item)
           /\ \A i \in DOMAIN Tuner!Data(s) : ~Tuner!Data(s)[i].voice
           /\ Tuner!BandsOf(Tuner!Data(s)) = DataBands(s)
<1> PICK I \in SUBSET (DOMAIN s) : I = {i \in DOMAIN s : ~s[i].voice}
    OBVIOUS
<1> PICK d : d = Selected(s, I)
    OBVIOUS
<1>1. Tuner!Data(s) = d
    BY TunerSelected DEF Tuner!Data
<1>2. /\ d \in Seq(Item)
      /\ \A i \in DOMAIN d : \E p \in I : d[i] = s[p]
      /\ \A p \in I : \E i \in DOMAIN d : d[i] = s[p]
    BY SelectedAre, ZenonT(40)
<1>3. /\ \A i \in DOMAIN d : \E p \in DOMAIN s : ~s[p].voice /\ d[i] = s[p]
      /\ \A p \in DOMAIN s : ~s[p].voice => \E i \in DOMAIN d : d[i] = s[p]
    BY <1>2
<1>4. Tuner!BandsOf(d) = DataBands(s)
    BY <1>3, SameBands
<1>5. \A i \in DOMAIN d : ~d[i].voice
    BY <1>3
<1>6. QED BY <1>1, <1>2, <1>4, <1>5

\* status() of a list and the list added again elsewhere.
StatusOf(s) == [i \in DOMAIN s |-> [band |-> s[i].band, voice |-> s[i].voice]]

LEMMA StatusIs ==
    ASSUME NEW s \in Seq(Dec)
    PROVE  /\ StatusOf(s) \in Seq(Item) /\ Len(StatusOf(s)) = Len(s)
           /\ DataBands(StatusOf(s)) = DataBands(s)
<1> PICK n \in Nat : n = Len(s) /\ DOMAIN s = 1 .. n
    OBVIOUS
<1>0. \A i \in 1 .. n : s[i].band \in Centre /\ s[i].voice \in BOOLEAN
    <2>1. \A i \in 1 .. n : s[i] \in Dec
        OBVIOUS
    <2> QED BY <2>1 DEF Dec
<1>1. StatusOf(s) \in [1 .. n -> Item]
    BY <1>0 DEF StatusOf, Item
<1>2. StatusOf(s) \in Seq(Item) /\ Len(StatusOf(s)) = Len(s)
    BY <1>1
<1>3. DataBands(StatusOf(s)) = DataBands(s)
    BY DEF DataBands, StatusOf
<1>4. QED BY <1>2, <1>3

LEMMA AddedIs ==
    ASSUME NEW s \in Seq(Item), NEW at \in Centre
    PROVE  /\ Tuner!Added(s, at) \in Seq(Dec) /\ DOMAIN Tuner!Added(s, at) = DOMAIN s
           /\ \A i \in DOMAIN s : /\ Tuner!Added(s, at)[i].made = at
                                  /\ ~Tuner!Added(s, at)[i].followed
           /\ DataBands(Tuner!Added(s, at)) = DataBands(s)
<1> PICK t : t = Tuner!Added(s, at)
    OBVIOUS
<1> PICK n \in Nat : n = Len(s) /\ DOMAIN s = 1 .. n
    OBVIOUS
<1>0. \A i \in 1 .. n : s[i].band \in Centre /\ s[i].voice \in BOOLEAN
    <2>1. \A i \in 1 .. n : s[i] \in Item
        OBVIOUS
    <2> QED BY <2>1 DEF Item
<1>1. t \in [1 .. n -> Dec]
    BY <1>0 DEF Tuner!Added, Tuner!Decoder, Dec
<1>2. t \in Seq(Dec) /\ DOMAIN t = DOMAIN s
    BY <1>1
<1>3. \A i \in DOMAIN s : t[i].band = s[i].band /\ t[i].voice = s[i].voice
                          /\ t[i].made = at /\ ~t[i].followed
    BY DEF Tuner!Added, Tuner!Decoder
<1>4. DataBands(t) = DataBands(s)
    BY <1>2, <1>3 DEF DataBands
<1>5. QED BY <1>2, <1>3, <1>4

LEMMA AppendIs ==
    ASSUME NEW s \in Seq(Dec), NEW d \in Dec
    PROVE  /\ Append(s, d) \in Seq(Dec)
           /\ \A i \in DOMAIN Append(s, d) : Append(s, d)[i] = d \/ (i \in DOMAIN s /\ Append(s, d)[i] = s[i])
           /\ DataBands(s) \subseteq DataBands(Append(s, d))
           /\ ~d.voice => d.band \in DataBands(Append(s, d))
<1> PICK t : t = Append(s, d)
    OBVIOUS
<1>1. t \in Seq(Dec) /\ Len(t) = Len(s) + 1 /\ t[Len(t)] = d /\ \A i \in DOMAIN s : t[i] = s[i]
    OBVIOUS
<1>2. DOMAIN s = 1 .. Len(s) /\ DOMAIN t = 1 .. Len(t) /\ Len(s) \in Nat
    BY <1>1
<1>3. DOMAIN s \subseteq DOMAIN t /\ Len(t) \in DOMAIN t
    BY <1>1, <1>2
<1>4. \A i \in DOMAIN t : t[i] = d \/ (i \in DOMAIN s /\ t[i] = s[i])
    BY <1>1, <1>2
<1>5. DataBands(s) \subseteq DataBands(t)
    BY <1>1, <1>3 DEF DataBands
<1>6. ~d.voice => d.band \in DataBands(t)
    BY <1>1, <1>3 DEF DataBands
<1>7. QED BY <1>1, <1>4, <1>5, <1>6

\* t is a stretch of s after the place k, of length n; t is s without its entry i.
IsPart(t, s, k, n) == Len(t) = n /\ \A j \in 1 .. n : t[j] = s[k + j]
IsLess(t, s, i) ==
    Len(t) = Len(s) - 1 /\ \A j \in 1 .. Len(s) - 1 : t[j] = IF j < i THEN s[j] ELSE s[j + 1]

LEMMA OneLess ==
    ASSUME NEW T, NEW s \in Seq(T), NEW n \in Nat, n = Len(s), NEW i \in 1 .. n,
           NEW a \in Seq(T), IsPart(a, s, 0, i - 1),
           NEW b \in Seq(T), IsPart(b, s, i, n - i)
    PROVE  a \o b \in Seq(T) /\ IsLess(a \o b, s, i)
<1> PICK t : t = a \o b
    OBVIOUS
<1>0. Len(a) = i - 1 /\ Len(b) = n - i
    BY DEF IsPart
<1>1. /\ t \in Seq(T) /\ Len(t) = (i - 1) + (n - i)
      /\ \A j \in 1 .. (i - 1) + (n - i) :
            t[j] = IF j <= i - 1 THEN a[j] ELSE b[j - (i - 1)]
    <2>1. /\ a \o b \in Seq(T) /\ Len(a \o b) = Len(a) + Len(b)
          /\ \A j \in 1 .. Len(a) + Len(b) :
                (a \o b)[j] = IF j <= Len(a) THEN a[j] ELSE b[j - Len(a)]
        BY ConcatProperties, Zenon
    <2> QED BY <1>0, <2>1
<1>2. ASSUME NEW j \in 1 .. n - 1
      PROVE  t[j] = IF j < i THEN s[j] ELSE s[j + 1]
    <2>0. j \in 1 .. (i - 1) + (n - i)
        OBVIOUS
    <2>1. t[j] = IF j <= i - 1 THEN a[j] ELSE b[j - (i - 1)]
        BY <1>1, <2>0, Zenon
    <2>2. CASE j < i
        BY <2>1, <2>2 DEF IsPart
    <2>3. CASE ~(j < i)
        <3>1. PICK k \in 1 .. n - i : k = j - (i - 1)
            BY <2>3
        <3>2. i + k = j + 1
            BY <3>1
        <3>3. b[k] = s[i + k]
            BY DEF IsPart
        <3> QED BY <2>1, <2>3, <3>1, <3>2, <3>3
    <2> QED BY <2>2, <2>3
<1>3. Len(t) = n - 1
    BY <1>1
<1>4. IsLess(t, s, i)
    BY <1>2, <1>3 DEF IsLess
<1>5. QED BY <1>1, <1>4

LEMMA RemoveIs ==
    ASSUME NEW T, NEW s \in Seq(T), NEW i \in DOMAIN s
    PROVE  Tuner!RemoveAt(s, i) \in Seq(T) /\ IsLess(Tuner!RemoveAt(s, i), s, i)
<1> PICK n \in Nat : n = Len(s) /\ i \in 1 .. n
    OBVIOUS
<1>0. \A j \in 1 .. n : s[j] \in T
    OBVIOUS
<1> PICK a : a = SubSeq(s, 1, i - 1)
    OBVIOUS
<1> PICK b : b = SubSeq(s, i + 1, n)
    OBVIOUS
<1>1. a \in Seq(T) /\ Len(a) = i - 1 /\ \A j \in 1 .. i - 1 : a[j] = s[j]
    BY <1>0, SubSeqProperties
<1>2. b \in Seq(T) /\ Len(b) = n - i /\ \A j \in 1 .. n - i : b[j] = s[i + j]
    BY <1>0, SubSeqProperties
<1>3. IsPart(a, s, 0, i - 1)
    BY <1>1 DEF IsPart
<1>4. IsPart(b, s, i, n - i)
    BY <1>2 DEF IsPart
<1>5. a \o b \in Seq(T) /\ IsLess(a \o b, s, i)
    BY <1>1, <1>2, <1>3, <1>4, OneLess
<1>6. QED BY <1>5 DEF Tuner!RemoveAt

LEMMA RemovedIs ==
    ASSUME NEW s \in Seq(Dec), NEW i \in DOMAIN s
    PROVE  LET t == Tuner!RemoveAt(s, i)
               d == Tuner!RemoveAt(StatusOf(s), i) IN
           /\ t \in Seq(Dec) /\ d = StatusOf(t)
           /\ \A j \in DOMAIN t : \E k \in DOMAIN s : t[j] = s[k]
<1> PICK n \in Nat : n = Len(s) /\ DOMAIN s = 1 .. n /\ i \in 1 .. n
    OBVIOUS
<1> PICK x : x = StatusOf(s)
    OBVIOUS
<1>1. x \in Seq(Item) /\ Len(x) = n /\ DOMAIN x = 1 .. n
    BY StatusIs
<1>2. PICK t \in Seq(Dec) : t = Tuner!RemoveAt(s, i) /\ IsLess(t, s, i)
    BY RemoveIs
<1>3. PICK d \in Seq(Item) : d = Tuner!RemoveAt(x, i) /\ IsLess(d, x, i)
    BY <1>1, RemoveIs
<1>4. Len(t) = n - 1 /\ \A j \in 1 .. n - 1 : t[j] = IF j < i THEN s[j] ELSE s[j + 1]
    BY <1>2 DEF IsLess
<1>5. Len(d) = n - 1 /\ \A j \in 1 .. n - 1 : d[j] = IF j < i THEN x[j] ELSE x[j + 1]
    BY <1>1, <1>3 DEF IsLess
<1>6. \A j \in 1 .. n : x[j] = [band |-> s[j].band, voice |-> s[j].voice]
    BY DEF StatusOf
<1>7. DOMAIN t = 1 .. n - 1 /\ DOMAIN d = 1 .. n - 1
    BY <1>4, <1>5
<1>8. \A j \in 1 .. n - 1 : d[j] = [band |-> t[j].band, voice |-> t[j].voice]
    BY <1>4, <1>5, <1>6
<1>9. StatusOf(t) \in Seq(Item) /\ Len(StatusOf(t)) = n - 1
      /\ \A j \in 1 .. n - 1 : StatusOf(t)[j] = [band |-> t[j].band, voice |-> t[j].voice]
    BY <1>4, <1>7, StatusIs DEF StatusOf
<1>10. d = StatusOf(t)
    BY <1>5, <1>8, <1>9, SeqEqual
<1>11. ASSUME NEW j \in DOMAIN t
       PROVE  \E k \in DOMAIN s : t[j] = s[k]
    <2>1. j \in 1 .. n - 1 /\ j \in DOMAIN s /\ j + 1 \in DOMAIN s
        BY <1>7
    <2> QED BY <1>4, <2>1
<1>12. QED BY <1>2, <1>3, <1>10, <1>11

LEMMA DataBandsType ==
    /\ \A s \in Seq(Item) : DataBands(s) \subseteq Centre
    /\ \A s \in Seq(Dec) : DataBands(s) \subseteq Centre
<1>1. ASSUME NEW s \in Seq(Item)
      PROVE  DataBands(s) \subseteq Centre
    <2>1. \A i \in DOMAIN s : s[i] \in Item
        OBVIOUS
    <2> QED BY <2>1 DEF DataBands, Item
<1>2. ASSUME NEW s \in Seq(Dec)
      PROVE  DataBands(s) \subseteq Centre
    <2>1. \A i \in DOMAIN s : s[i] \in Dec
        OBVIOUS
    <2> QED BY <2>1 DEF DataBands, Dec
<1> QED BY <1>1, <1>2

\* A list of decoders that a centre fits.
Fits(s, at) == \A i \in DOMAIN s : s[i].made = at /\ (s[i].followed => s[i].voice)

\* A list put together from decoders of another and new ones made at a centre.
Grown(t, s, at) ==
    \A i \in DOMAIN t : \/ \E j \in DOMAIN s : t[i] = s[j]
                        \/ t[i].made = at /\ (t[i].followed => t[i].voice)

\* What a retuning does to a receiver, and that it leaves the other alone.
LEMMA RetuneIs ==
    ASSUME TunerInv, NEW r \in Tuner!Receivers, NEW at \in Centre, NEW s \in Seq(Dec), Fits(s, at),
           Tuner!Retune(r, at, s), running' = running
    PROVE  /\ DecTypes' /\ OnlyVoiceFollowed' /\ CentreInv'
           /\ dec'[r] = s /\ center'[r] = at /\ panel'[r] = at /\ ~edited'[r]
           /\ \A q \in Tuner!Receivers : q # r =>
                 /\ dec'[q] = dec[q] /\ center'[q] = center[q] /\ panel'[q] = panel[q]
                 /\ edited'[q] = edited[q]
<1>1. DecTypes /\ OnlyVoiceFollowed /\ CentreInv
    BY DEF TunerInv, TunerTypes
<1>2. /\ center' = [center EXCEPT ![r] = at] /\ conf' = [conf EXCEPT ![r] = at]
      /\ panel' = [panel EXCEPT ![r] = at] /\ dec' = [dec EXCEPT ![r] = s]
      /\ edited' = [edited EXCEPT ![r] = FALSE]
    BY DEF Tuner!Retune
<1>3. DecTypes'
    BY <1>1, <1>2 DEF DecTypes
<1>4. /\ dec'[r] = s /\ center'[r] = at /\ conf'[r] = at /\ panel'[r] = at /\ ~edited'[r]
      /\ \A q \in Tuner!Receivers : q # r =>
            /\ dec'[q] = dec[q] /\ center'[q] = center[q] /\ conf'[q] = conf[q]
            /\ panel'[q] = panel[q] /\ edited'[q] = edited[q]
    BY <1>1, <1>2 DEF DecTypes
<1>5. OnlyVoiceFollowed'
    BY <1>1, <1>4 DEF OnlyVoiceFollowed, Fits
<1>6. CentreInv'
    BY <1>1, <1>4 DEF CentreInv, Fits
<1>7. QED BY <1>3, <1>4, <1>5, <1>6

\* Another list of decoders, at the centre the manager has.
LEMMA RelistIs ==
    ASSUME TunerInv, NEW r \in Tuner!Receivers, NEW s \in Seq(Dec), Grown(s, dec[r], conf[r]),
           dec' = [dec EXCEPT ![r] = s], UNCHANGED <<running, center, conf, panel, edited>>
    PROVE  /\ DecTypes' /\ OnlyVoiceFollowed' /\ CentreInv'
           /\ dec'[r] = s /\ \A q \in Tuner!Receivers : q # r => dec'[q] = dec[q]
<1>1. DecTypes /\ OnlyVoiceFollowed /\ CentreInv
    BY DEF TunerInv, TunerTypes
<1>2. DecTypes' /\ dec'[r] = s /\ \A q \in Tuner!Receivers : q # r => dec'[q] = dec[q]
    BY <1>1 DEF DecTypes
<1>3. \A i \in DOMAIN s : s[i].followed => s[i].voice
    BY <1>1 DEF OnlyVoiceFollowed, Grown
<1>4. OnlyVoiceFollowed'
    BY <1>1, <1>2, <1>3 DEF OnlyVoiceFollowed
<1>5. running /\ ~edited[r] => conf[r] = center[r] /\ \A i \in DOMAIN s : s[i].made = center[r]
    BY <1>1 DEF CentreInv, Grown
<1>6. CentreInv'
    BY <1>1, <1>2, <1>5 DEF CentreInv
<1>7. QED BY <1>2, <1>4, <1>6

\* The receivers, the list of each and what the user wants are as they were.
LEMMA StaysTuned ==
    ASSUME TunerInv, UNCHANGED <<dual, running, center, conf, dec, chosenBand, edited, kept>>,
           panel' = panel, Tuner!Away' = Tuner!Away,
           follow'.homeCenter = follow.homeCenter, follow'.home = follow.home
    PROVE  DecTypes' /\ OnlyVoiceFollowed' /\ CentreInv' /\ HomeInv' /\ KeptOnA'
<1>1. DecTypes' /\ OnlyVoiceFollowed' /\ CentreInv'
    BY DEF TunerInv, TunerTypes, DecTypes, OnlyVoiceFollowed, CentreInv
<1>2. HomeInv' /\ KeptOnA'
    BY DEF TunerInv, HomeInv, KeptOnA
<1>3. QED BY <1>1, <1>2

LEMMA StatusOfA ==
    ASSUME TunerInv, NEW r \in Tuner!Receivers
    PROVE  /\ dec[r] \in Seq(Dec) /\ Tuner!Status(r) = StatusOf(dec[r])
           /\ Tuner!Status(r) \in Seq(Item) /\ DataBands(Tuner!Status(r)) = DataBands(dec[r])
           /\ DOMAIN Tuner!Status(r) = DOMAIN dec[r]
           /\ center[r] \in Centre /\ conf[r] \in Centre /\ panel[r] \in Centre
<1>1. /\ dec[r] \in Seq(Dec)
      /\ center[r] \in Centre /\ conf[r] \in Centre /\ panel[r] \in Centre
    BY DEF TunerInv, TunerTypes, DecTypes
<1>2. Tuner!Status(r) = StatusOf(dec[r])
    BY DEF Tuner!Status, StatusOf
<1>3. DOMAIN StatusOf(dec[r]) = DOMAIN dec[r]
    BY DEF StatusOf
<1>4. QED BY <1>1, <1>2, <1>3, StatusIs

LEMMA FollowFields ==
    ASSUME TunerInv
    PROVE  /\ follow.on \in BOOLEAN /\ follow.retuned \in BOOLEAN /\ follow.homeCenter \in Centre
           /\ follow.home \in Seq(Item)
BY DEF TunerInv, TunerTypes, FollowTypes

LEMMA NoFollowIs ==
    /\ Tuner!NoFollow \in [on : BOOLEAN, retuned : BOOLEAN, homeCenter : Centre,
                           home : Seq(Item), frames : BOOLEAN, idle : BOOLEAN]
    /\ ~Tuner!NoFollow.on
BY DEF Tuner!NoFollow, Centre

LEMMA NoAssignmentIs == Tuner!NoAssignment \in [fresh : BOOLEAN, band : Centre]
BY DEF Tuner!NoAssignment, Centre

-----------------------------------------------------------------------------
(* Start and Stop.                                                         *)

LEMMA NoneListed ==
    /\ [r \in Tuner!Receivers |-> <<>>] \in [Tuner!Receivers -> Seq(Item)]
    /\ [r \in Tuner!Receivers |-> <<>>] \in [Tuner!Receivers -> Seq(Dec)]
<1>1. <<>> \in Seq(Item) /\ <<>> \in Seq(Dec)
    OBVIOUS
<1> QED BY <1>1

LEMMA TunerInit == Tuner!Init => TunerInv
<1> SUFFICES ASSUME Tuner!Init PROVE TunerInv
    OBVIOUS
<1>1. DecTypes
    BY DEF Tuner!Init, DecTypes, Centre
<1>2. FollowTypes
    BY NoFollowIs DEF Tuner!Init, FollowTypes
<1>3. TunerTypes
    <2>1. [r \in Tuner!Receivers |-> <<>>] \in [Tuner!Receivers -> Seq(Item)]
        BY NoneListed
    <2> QED BY <1>1, <1>2, <2>1, NoAssignmentIs DEF Tuner!Init, TunerTypes, Centre
<1>4. OnlyVoiceFollowed /\ NoVoiceSaved
    BY DEF Tuner!Init, OnlyVoiceFollowed, NoVoiceSaved
<1>5. CentreInv /\ HomeInv /\ KeptOnA
    BY DEF Tuner!Init, CentreInv, HomeInv, KeptOnA
<1>6. QED BY <1>3, <1>4, <1>5 DEF TunerInv

LEMMA StartActiveStep == TunerInv /\ Tuner!StartActive => TunerInv'
<1> SUFFICES ASSUME TunerInv, Tuner!StartActive PROVE TunerInv'
    OBVIOUS
<1>1. /\ running' = TRUE /\ dual' \in BOOLEAN /\ follow' = Tuner!NoFollow
      /\ assigned' = Tuner!NoAssignment
      /\ chosenBand' = panel["A"] /\ kept' = Tuner!BandsOf(saved["A"])
      /\ panel' = panel /\ saved' = saved /\ conf' = center'
      /\ center' = [r \in Tuner!Receivers |-> IF r = "A" \/ dual' THEN panel[r] ELSE Tuner!NoBand]
      /\ dec' = [r \in Tuner!Receivers |->
                    IF r = "A" \/ dual' THEN Tuner!Added(saved[r], center'[r]) ELSE <<>>]
      /\ edited' = [r \in Tuner!Receivers |-> FALSE]
    BY DEF Tuner!StartActive
<1>2. ~Tuner!Away'
    BY <1>1, NoFollowIs DEF Tuner!Away
<1>3. /\ panel \in [Tuner!Receivers -> Centre] /\ "A" \in Tuner!Receivers
      /\ saved \in [Tuner!Receivers -> Seq(Item)]
    BY DEF TunerInv, TunerTypes, DecTypes, Tuner!Receivers
<1>4. center' \in [Tuner!Receivers -> Centre]
    BY <1>1, <1>3 DEF Centre
<1>5. ASSUME NEW r \in Tuner!Receivers
      PROVE  dec'[r] \in Seq(Dec) /\ Fits(dec'[r], center'[r])
    <2> PICK c \in Centre : c = center'[r]
        BY <1>4
    <2> PICK d : d = Tuner!Added(saved[r], c)
        OBVIOUS
    <2>1. saved[r] \in Seq(Item)
        BY <1>3
    <2>2. d \in Seq(Dec) /\ DOMAIN d = DOMAIN saved[r]
          /\ \A i \in DOMAIN saved[r] : d[i].made = c /\ ~d[i].followed
        BY <2>1, AddedIs
    <2>3. Fits(d, c)
        BY <2>2 DEF Fits
    <2>4. <<>> \in Seq(Dec) /\ Fits(<<>>, c)
        BY DEF Fits
    <2>5. dec'[r] = d \/ dec'[r] = <<>>
        BY <1>1
    <2> QED BY <2>2, <2>3, <2>4, <2>5
<1>6. dec' \in [Tuner!Receivers -> Seq(Dec)]
    BY <1>1, <1>5
<1>7. DecTypes'
    BY <1>1, <1>3, <1>4, <1>6 DEF DecTypes
<1>8. OnlyVoiceFollowed' /\ CentreInv'
    BY <1>1, <1>5 DEF OnlyVoiceFollowed, CentreInv, Fits
<1>9. HomeInv'
    <2>1. center'["A"] = panel["A"]
        BY <1>1, <1>3
    <2> QED BY <1>1, <1>2, <2>1 DEF HomeInv
<1>10. kept' = DataBands(dec'["A"]) /\ kept' \subseteq Centre
    <2>1. dec'["A"] = Tuner!Added(saved["A"], center'["A"])
        BY <1>1, <1>3
    <2>2. saved["A"] \in Seq(Item) /\ center'["A"] \in Centre
        BY <1>3, <1>4
    <2>3. DataBands(dec'["A"]) = DataBands(saved["A"])
        BY <2>1, <2>2, AddedIs
    <2>4. \A i \in DOMAIN saved["A"] : ~saved["A"][i].voice
        BY <1>3 DEF TunerInv, NoVoiceSaved
    <2>5. Tuner!BandsOf(saved["A"]) = DataBands(saved["A"])
        BY <2>4 DEF Tuner!BandsOf, DataBands
    <2>6. DataBands(saved["A"]) \subseteq Centre
        BY <2>2, DataBandsType
    <2> QED BY <1>1, <2>3, <2>5, <2>6
<1>11. KeptOnA'
    BY <1>2, <1>10 DEF KeptOnA
<1>12. FollowTypes'
    BY <1>1, NoFollowIs DEF FollowTypes
<1>13. TunerTypes'
    BY <1>1, <1>3, <1>7, <1>10, <1>12, NoAssignmentIs DEF TunerTypes
<1>14. NoVoiceSaved'
    BY <1>1 DEF TunerInv, NoVoiceSaved
<1>15. QED BY <1>8, <1>9, <1>11, <1>13, <1>14 DEF TunerInv

LEMMA StopStep == TunerInv /\ (Tuner!PressStop \/ Tuner!StreamFails) => TunerInv'
<1> SUFFICES ASSUME TunerInv, Tuner!PressStop \/ Tuner!StreamFails PROVE TunerInv'
    OBVIOUS
<1>1. /\ ~running' /\ running' \in BOOLEAN /\ dual' \in BOOLEAN
      /\ center' = [r \in Tuner!Receivers |-> Tuner!NoBand] /\ conf' = center'
      /\ chosenBand' = Tuner!NoBand /\ edited' = [r \in Tuner!Receivers |-> FALSE] /\ kept' = {}
      /\ panel' = panel /\ assigned' = assigned /\ saved' = saved
    BY DEF Tuner!PressStop, Tuner!StreamFails, Tuner!Stopped
<1>2. \/ dec' = [r \in Tuner!Receivers |-> <<>>] /\ follow' = Tuner!NoFollow
      \/ dec' = dec /\ follow' = follow
    BY DEF Tuner!PressStop, Tuner!StreamFails
<1>3. TunerTypes
    BY DEF TunerInv
<1>4. dec' \in [Tuner!Receivers -> Seq(Dec)]
    <2>1. dec \in [Tuner!Receivers -> Seq(Dec)]
        BY <1>3 DEF TunerTypes, DecTypes
    <2> QED BY <1>2, <2>1, NoneListed
<1>5. DecTypes'
    BY <1>1, <1>3, <1>4 DEF TunerTypes, DecTypes, Centre
<1>6. FollowTypes'
    BY <1>2, <1>3, NoFollowIs DEF TunerTypes, FollowTypes
<1>7. TunerTypes'
    BY <1>1, <1>3, <1>5, <1>6 DEF TunerTypes, Centre
<1>8. OnlyVoiceFollowed'
    BY <1>2 DEF TunerInv, OnlyVoiceFollowed
<1>9. NoVoiceSaved'
    BY <1>1 DEF TunerInv, NoVoiceSaved
<1>10. CentreInv' /\ HomeInv' /\ KeptOnA'
    BY <1>1 DEF CentreInv, HomeInv, KeptOnA
<1>11. QED BY <1>7, <1>8, <1>9, <1>10 DEF TunerInv

-----------------------------------------------------------------------------
(* The workers, and what only the flags show.                              *)

LEMMA FlagsStep ==
    /\ TunerInv
    /\ \/ \E band \in Bands : Tuner!Assigned(band)
       \/ Tuner!ClearAssignments \/ Tuner!Frames \/ Tuner!Silence \/ Tuner!ToggleFollow
    => TunerInv'
<1> SUFFICES ASSUME TunerInv,
                    \/ \E band \in Bands : Tuner!Assigned(band)
                    \/ Tuner!ClearAssignments \/ Tuner!Frames \/ Tuner!Silence
                    \/ Tuner!ToggleFollow
             PROVE  TunerInv'
    OBVIOUS
<1>1. /\ UNCHANGED <<dual, running, center, conf, dec, chosenBand, edited, kept, panel, saved>>
    BY DEF Tuner!Assigned, Tuner!ClearAssignments, Tuner!Frames, Tuner!Silence,
       Tuner!ToggleFollow, Tuner!user
<1>2. FollowTypes /\ assigned \in [fresh : BOOLEAN, band : Centre] /\ TunerTypes
    BY DEF TunerInv, TunerTypes
<1>3. /\ FollowTypes' /\ follow'.on = follow.on /\ follow'.retuned = follow.retuned
      /\ follow'.homeCenter = follow.homeCenter /\ follow'.home = follow.home
    <2>1. \/ follow' = follow \/ follow' = [follow EXCEPT !.frames = TRUE]
          \/ follow' = [follow EXCEPT !.idle = TRUE]
        BY DEF Tuner!Assigned, Tuner!ClearAssignments, Tuner!Frames, Tuner!Silence,
           Tuner!ToggleFollow
    <2> QED BY <1>2, <2>1 DEF FollowTypes
<1>4. assigned' \in [fresh : BOOLEAN, band : Centre]
    <2>1. \/ assigned' = assigned \/ assigned' = [assigned EXCEPT !.band = Tuner!NoBand]
          \/ \E band \in Bands : assigned' = [fresh |-> TRUE, band |-> band]
        BY DEF Tuner!Assigned, Tuner!ClearAssignments, Tuner!Frames, Tuner!Silence,
           Tuner!ToggleFollow
    <2>2. Tuner!NoBand \in Centre /\ Bands \subseteq Centre
        BY DEF Centre
    <2>3. CASE assigned' = [assigned EXCEPT !.band = Tuner!NoBand]
        BY <1>2, <2>2, <2>3
    <2>4. CASE \E band \in Bands : assigned' = [fresh |-> TRUE, band |-> band]
        BY <2>2, <2>4
    <2> QED BY <1>2, <2>1, <2>3, <2>4
<1>5. Tuner!Away' = Tuner!Away
    BY <1>1, <1>3 DEF Tuner!Away
<1>6. DecTypes' /\ OnlyVoiceFollowed' /\ CentreInv' /\ HomeInv' /\ KeptOnA'
    BY <1>1, <1>3, <1>5, StaysTuned
<1>7. TunerTypes'
    BY <1>1, <1>2, <1>3, <1>4, <1>6 DEF TunerTypes
<1>8. NoVoiceSaved'
    BY <1>1 DEF TunerInv, NoVoiceSaved
<1>9. QED BY <1>6, <1>7, <1>8 DEF TunerInv

-----------------------------------------------------------------------------
(* A frame of updateVoiceFollow.                                           *)

\* What the follow leaves, before the list for the next start is made.
Followed ==
    /\ DecTypes /\ FollowTypes /\ OnlyVoiceFollowed /\ CentreInv /\ HomeInv /\ KeptOnA

\* One decoder of a call, where it is.
LEMMA OneEntry ==
    ASSUME NEW T, NEW d \in T
    PROVE  <<d>> \in Seq(T) /\ \A i \in DOMAIN <<d>> : <<d>>[i] = d
OBVIOUS

LEMMA CallDecoder ==
    ASSUME NEW band \in Centre, NEW at \in Centre
    PROVE  /\ Tuner!Decoder(band, TRUE, TRUE, at) \in Dec
           /\ <<Tuner!Decoder(band, TRUE, TRUE, at)>> \in Seq(Dec)
           /\ Fits(<<Tuner!Decoder(band, TRUE, TRUE, at)>>, at)
<1> PICK d : d = Tuner!Decoder(band, TRUE, TRUE, at)
    OBVIOUS
<1>1. d \in Dec /\ d.made = at /\ d.voice
    BY DEF Tuner!Decoder, Dec
<1>2. <<d>> \in Seq(Dec) /\ \A i \in DOMAIN <<d>> : <<d>>[i] = d
    BY <1>1, OneEntry
<1>3. Fits(<<d>>, at)
    BY <1>1, <1>2 DEF Fits
<1>4. QED BY <1>1, <1>2, <1>3

LEMMA ReceiversAre == "A" \in Tuner!Receivers /\ "B" \in Tuner!Receivers
BY DEF Tuner!Receivers

LEMMA BeginsIs ==
    ASSUME NEW retuned \in BOOLEAN, NEW homeCenter \in Centre, NEW home \in Seq(Item),
           Tuner!Begins(retuned, homeCenter, home)
    PROVE  /\ FollowTypes' /\ follow'.on /\ follow'.retuned = retuned
           /\ follow'.homeCenter = homeCenter /\ follow'.home = home
BY DEF Tuner!Begins, FollowTypes

LEMMA FollowOnBStep ==
    ASSUME NEW band \in Centre
    PROVE  TunerInv /\ dual /\ running /\ ~follow.on /\ UNCHANGED <<dual, running>>
           /\ Tuner!FollowOnB(band) => Followed'
<1> SUFFICES ASSUME TunerInv, dual, running, ~follow.on, UNCHANGED <<dual, running>>,
                    Tuner!FollowOnB(band)
             PROVE  Followed'
    OBVIOUS
<1> PICK s \in Seq(Dec) : s = <<Tuner!Decoder(band, TRUE, TRUE, band)>>
    BY CallDecoder
<1>1. Tuner!Retune("B", band, s) /\ Fits(s, band)
    BY CallDecoder DEF Tuner!FollowOnB
<1>2. /\ DecTypes' /\ OnlyVoiceFollowed' /\ CentreInv'
      /\ dec'["A"] = dec["A"] /\ center'["A"] = center["A"] /\ edited'["A"] = edited["A"]
    BY <1>1, ReceiversAre, RetuneIs
<1>3. FollowTypes'
    <2>1. Tuner!Begins(TRUE, Tuner!NoBand, <<>>)
        BY DEF Tuner!FollowOnB
    <2>2. Tuner!NoBand \in Centre /\ <<>> \in Seq(Item)
        BY DEF Centre
    <2> QED BY <2>1, <2>2, BeginsIs
<1>4. ~Tuner!Away /\ ~Tuner!Away'
    BY DEF Tuner!Away
<1>5. chosenBand' = chosenBand /\ kept' = kept
    BY DEF Tuner!FollowOnB
<1>6. HomeInv' /\ KeptOnA'
    BY <1>2, <1>4, <1>5 DEF TunerInv, HomeInv, KeptOnA
<1>7. QED BY <1>2, <1>3, <1>6 DEF Followed

LEMMA FollowInBandStep ==
    ASSUME NEW band \in Centre
    PROVE  TunerInv /\ ~dual /\ running /\ ~follow.on /\ UNCHANGED <<dual, running>>
           /\ Tuner!FollowInBand(band) => Followed'
<1> SUFFICES ASSUME TunerInv, ~dual, running, ~follow.on, UNCHANGED <<dual, running>>,
                    Tuner!FollowInBand(band)
             PROVE  Followed'
    OBVIOUS
<1>0. dec["A"] \in Seq(Dec) /\ conf["A"] \in Centre /\ panel["A"] \in Centre
    BY ReceiversAre, StatusOfA
<1>1. PICK d \in Dec : /\ d = Tuner!Decoder(band, TRUE, TRUE, conf["A"])
                       /\ d.made = conf["A"] /\ d.voice
    BY <1>0, CallDecoder DEF Tuner!Decoder
<1> PICK D \in Seq(Dec) : D = dec["A"]
    BY <1>0
<1> PICK s : s = Append(D, d)
    OBVIOUS
<1>2. /\ s \in Seq(Dec)
      /\ \A i \in DOMAIN s : s[i] = d \/ (i \in DOMAIN D /\ s[i] = D[i])
      /\ DataBands(D) \subseteq DataBands(s)
    BY AppendIs
<1>3. Grown(s, dec["A"], conf["A"])
    BY <1>1, <1>2 DEF Grown
<1>4. /\ dec' = [dec EXCEPT !["A"] = s]
      /\ UNCHANGED <<center, conf, panel, edited, chosenBand, kept>>
    BY <1>1, <1>2 DEF Tuner!FollowInBand
<1>5. DecTypes' /\ OnlyVoiceFollowed' /\ CentreInv' /\ dec'["A"] = s
    BY <1>2, <1>3, <1>4, ReceiversAre, RelistIs
<1>6. FollowTypes' /\ ~follow'.retuned
    <2>1. Tuner!Begins(FALSE, panel["A"], <<>>)
        BY DEF Tuner!FollowInBand
    <2>2. <<>> \in Seq(Item)
        OBVIOUS
    <2> QED BY <1>0, <2>1, <2>2, BeginsIs
<1>7. ~Tuner!Away /\ ~Tuner!Away'
    BY <1>6 DEF Tuner!Away
<1>8. HomeInv' /\ KeptOnA'
    BY <1>2, <1>4, <1>5, <1>7 DEF TunerInv, HomeInv, KeptOnA
<1>9. QED BY <1>5, <1>6, <1>8 DEF Followed

LEMMA FollowAwayStep ==
    ASSUME NEW band \in Centre
    PROVE  TunerInv /\ ~dual /\ running /\ ~follow.on /\ UNCHANGED <<dual, running>>
           /\ Tuner!FollowAway(band) => Followed'
<1> SUFFICES ASSUME TunerInv, ~dual, running, ~follow.on, UNCHANGED <<dual, running>>,
                    Tuner!FollowAway(band)
             PROVE  Followed'
    OBVIOUS
<1>0. /\ Tuner!Status("A") \in Seq(Item) /\ panel["A"] \in Centre
      /\ DataBands(Tuner!Status("A")) = DataBands(dec["A"])
    BY ReceiversAre, StatusOfA
<1> PICK s \in Seq(Dec) : s = <<Tuner!Decoder(band, TRUE, TRUE, band)>>
    BY CallDecoder
<1>1. Tuner!Retune("A", band, s) /\ Fits(s, band)
    BY CallDecoder DEF Tuner!FollowAway
<1>2. DecTypes' /\ OnlyVoiceFollowed' /\ CentreInv'
    BY <1>1, ReceiversAre, RetuneIs
<1>3. /\ FollowTypes' /\ follow'.on /\ follow'.retuned = TRUE
      /\ follow'.homeCenter = panel["A"] /\ follow'.home = Tuner!Status("A")
    <2>1. Tuner!Begins(TRUE, panel["A"], Tuner!Status("A"))
        BY DEF Tuner!FollowAway
    <2> QED BY <1>0, <2>1, BeginsIs
<1>4. ~Tuner!Away /\ Tuner!Away'
    BY <1>3 DEF Tuner!Away
<1>5. chosenBand' = chosenBand /\ kept' = kept
    BY DEF Tuner!FollowAway
<1>6. HomeInv' /\ KeptOnA'
    BY <1>0, <1>3, <1>4, <1>5 DEF TunerInv, HomeInv, KeptOnA
<1>7. QED BY <1>2, <1>3, <1>6 DEF Followed

\* What EndFollow leaves of a list.
Unfollowed(s) == Selected(s, {i \in DOMAIN s : ~s[i].followed})

LEMMA NotFollowed ==
    ASSUME NEW s \in Seq(Dec)
    PROVE  /\ Unfollowed(s) \in Seq(Dec)
           /\ \A i \in DOMAIN Unfollowed(s) : \E p \in DOMAIN s : Unfollowed(s)[i] = s[p]
           /\ \A p \in DOMAIN s : ~s[p].followed =>
                 \E i \in DOMAIN Unfollowed(s) : Unfollowed(s)[i] = s[p]
<1> PICK I \in SUBSET (DOMAIN s) : I = {i \in DOMAIN s : ~s[i].followed}
    OBVIOUS
<1> PICK t : t = Selected(s, I)
    OBVIOUS
<1>1. /\ t \in Seq(Dec)
      /\ \A i \in DOMAIN t : \E p \in I : t[i] = s[p]
      /\ \A p \in I : \E i \in DOMAIN t : t[i] = s[p]
    BY SelectedAre, ZenonT(40)
<1>2. t = Unfollowed(s)
    BY DEF Unfollowed
<1>3. QED BY <1>1, <1>2

LEMMA EndFollowStep ==
    TunerInv /\ running /\ UNCHANGED <<dual, running>> /\ Tuner!EndFollow => Followed'
<1> SUFFICES ASSUME TunerInv, running, UNCHANGED <<dual, running>>, Tuner!EndFollow
             PROVE  Followed'
    OBVIOUS
<1>1. follow' = Tuner!NoFollow /\ chosenBand' = chosenBand /\ kept' = kept
    BY DEF Tuner!EndFollow
<1>2. FollowTypes' /\ ~Tuner!Away'
    BY <1>1, NoFollowIs DEF FollowTypes, Tuner!Away
<1>3. CASE Tuner!Away
    <2> PICK at \in Centre : at = follow.homeCenter
        BY FollowFields
    <2> PICK h \in Seq(Item) : h = follow.home
        BY FollowFields
    <2>1. PICK s \in Seq(Dec) :
              /\ s = Tuner!Added(h, at) /\ DOMAIN s = DOMAIN h
              /\ \A i \in DOMAIN h : s[i].made = at /\ ~s[i].followed
              /\ DataBands(s) = DataBands(h)
        BY AddedIs
    <2>2. Tuner!Retune("A", at, s)
        BY <1>3, <2>1 DEF Tuner!EndFollow, Tuner!Returns
    <2>3. Fits(s, at)
        BY <2>1 DEF Fits
    <2>4. /\ DecTypes' /\ OnlyVoiceFollowed' /\ CentreInv'
          /\ dec'["A"] = s /\ center'["A"] = at /\ panel'["A"] = at
        BY <2>2, <2>3, ReceiversAre, RetuneIs
    <2>5. HomeInv' /\ KeptOnA'
        BY <1>1, <1>2, <1>3, <2>1, <2>4 DEF TunerInv, HomeInv, KeptOnA
    <2> QED BY <1>2, <2>4, <2>5 DEF Followed
<1>4. CASE ~Tuner!Away
    <2> PICK r \in Tuner!Receivers : r = Tuner!VoiceRadio
        BY ReceiversAre DEF Tuner!VoiceRadio
    <2>1. dec[r] \in Seq(Dec)
        BY StatusOfA
    <2> PICK s : s = Unfollowed(dec[r])
        OBVIOUS
    <2>2. /\ s \in Seq(Dec)
          /\ \A i \in DOMAIN s : \E p \in DOMAIN dec[r] : s[i] = dec[r][p]
          /\ \A p \in DOMAIN dec[r] : ~dec[r][p].followed =>
                \E i \in DOMAIN s : s[i] = dec[r][p]
        BY <2>1, NotFollowed
    <2>3. Grown(s, dec[r], conf[r])
        BY <2>2 DEF Grown
    <2>4. dec' = [dec EXCEPT ![r] = s] /\ UNCHANGED <<center, conf, panel, edited>>
        BY <1>4, <2>2, TunerSelected DEF Tuner!EndFollow, Unfollowed
    <2>5. /\ DecTypes' /\ OnlyVoiceFollowed' /\ CentreInv' /\ dec'[r] = s
          /\ \A q \in Tuner!Receivers : q # r => dec'[q] = dec[q]
        BY <2>2, <2>3, <2>4, RelistIs, ZenonT(40)
    <2>6. DataBands(dec[r]) \subseteq DataBands(s)
        <3>1. \A p \in DOMAIN dec[r] : ~dec[r][p].voice => ~dec[r][p].followed
            BY DEF TunerInv, OnlyVoiceFollowed
        <3>2. \A p \in DOMAIN dec[r] : ~dec[r][p].voice =>
                 \E i \in DOMAIN s : s[i] = dec[r][p]
            BY <2>2, <3>1
        <3> QED BY <3>2 DEF DataBands
    <2>7. DataBands(dec["A"]) \subseteq DataBands(dec'["A"])
        BY <2>5, <2>6, ReceiversAre
    <2>8. HomeInv' /\ KeptOnA'
        BY <1>1, <1>2, <1>4, <2>4, <2>7 DEF TunerInv, HomeInv, KeptOnA
    <2> QED BY <1>2, <2>5, <2>8 DEF Followed
<1>5. QED BY <1>3, <1>4

LEMMA FrameStep == TunerInv /\ Tuner!Frame => TunerInv'
<1> SUFFICES ASSUME TunerInv, Tuner!Frame PROVE TunerInv'
    OBVIOUS
<1>1. running /\ UNCHANGED <<dual, running>>
    BY DEF Tuner!Frame
<1>2. assigned \in [fresh : BOOLEAN, band : Centre] /\ FollowTypes
    BY DEF TunerInv, TunerTypes
<1>3. ASSUME UNCHANGED <<center, conf, panel, dec, edited, chosenBand, kept>>,
             \/ follow' = follow
             \/ follow' = Tuner!Hears(follow)
      PROVE  Followed'
    <2>1. /\ FollowTypes' /\ follow'.on = follow.on /\ follow'.retuned = follow.retuned
          /\ follow'.homeCenter = follow.homeCenter /\ follow'.home = follow.home
        BY <1>2, <1>3 DEF FollowTypes, Tuner!Hears
    <2>2. Tuner!Away' = Tuner!Away
        BY <1>1, <2>1 DEF Tuner!Away
    <2>3. DecTypes' /\ OnlyVoiceFollowed' /\ CentreInv' /\ HomeInv' /\ KeptOnA'
        BY <1>1, <1>3, <2>1, <2>2, StaysTuned
    <2> QED BY <2>1, <2>3 DEF Followed
<1>4. Followed'
    <2> PICK band \in Centre : band = assigned.band
        BY <1>2
    <2>1. CASE Tuner!PickCall
        <3>1. ~follow.on
            BY <2>1 DEF Tuner!PickCall
        <3>2. \/ dual /\ Tuner!FollowOnB(band)
              \/ ~dual /\ Tuner!FollowInBand(band)
              \/ ~dual /\ Tuner!FollowAway(band)
              \/ UNCHANGED <<center, conf, panel, dec, edited, chosenBand, kept, follow>>
            BY <2>1, Zenon DEF Tuner!PickCall
        <3> QED BY <1>1, <1>3, <3>1, <3>2, FollowOnBStep, FollowInBandStep, FollowAwayStep
    <2>2. CASE Tuner!Stays
        BY <1>3, <2>2 DEF Tuner!Stays
    <2>3. CASE Tuner!EndFollow
        BY <1>1, <2>3, EndFollowStep
    <2>4. CASE Tuner!GoesOn
        BY <1>3, <2>4 DEF Tuner!GoesOn
    <2> QED BY <2>1, <2>2, <2>3, <2>4 DEF Tuner!Frame
<1>5. DecTypes' /\ FollowTypes' /\ OnlyVoiceFollowed' /\ CentreInv' /\ HomeInv' /\ KeptOnA'
    BY <1>4 DEF Followed
<1>6. saved' = [r \in Tuner!Receivers |-> Tuner!Data(StatusOf(dec'[r]))]
    BY DEF Tuner!Frame, StatusOf
<1>7. ASSUME NEW r \in Tuner!Receivers
      PROVE  saved'[r] \in Seq(Item) /\ \A i \in DOMAIN saved'[r] : ~saved'[r][i].voice
    <2>1. dec'[r] \in Seq(Dec)
        BY <1>5 DEF DecTypes
    <2>2. StatusOf(dec'[r]) \in Seq(Item)
        BY <2>1, StatusIs
    <2> PICK d : d = Tuner!Data(StatusOf(dec'[r]))
        OBVIOUS
    <2>3. d \in Seq(Item) /\ \A i \in DOMAIN d : ~d[i].voice
        BY <2>2, DataIs
    <2>4. saved'[r] = d
        BY <1>6
    <2> QED BY <2>3, <2>4
<1>8. saved' \in [Tuner!Receivers -> Seq(Item)] /\ NoVoiceSaved'
    BY <1>6, <1>7 DEF NoVoiceSaved
<1>9. assigned' \in [fresh : BOOLEAN, band : Centre]
    BY <1>2, NoAssignmentIs DEF Tuner!Frame
<1>10. chosenBand' \in Centre /\ kept' \subseteq Centre
    <2>1. chosenBand' = chosenBand /\ kept' = kept
        BY Zenon DEF Tuner!Frame, Tuner!PickCall, Tuner!Stays, Tuner!EndFollow, Tuner!GoesOn,
           Tuner!FollowOnB, Tuner!FollowInBand, Tuner!FollowAway
    <2> QED BY <2>1 DEF TunerInv, TunerTypes
<1>11. TunerTypes'
    BY <1>1, <1>5, <1>8, <1>9, <1>10 DEF TunerInv, TunerTypes
<1>12. QED BY <1>5, <1>8, <1>11 DEF TunerInv

-----------------------------------------------------------------------------
(* The user.                                                               *)

LEMMA AddDecoderStep ==
    ASSUME NEW r \in Tuner!Receivers, NEW band \in Bands
    PROVE  TunerInv /\ Tuner!AddDecoder(r, band) => TunerInv'
<1> SUFFICES ASSUME TunerInv, Tuner!AddDecoder(r, band) PROVE TunerInv'
    OBVIOUS
<1>1. /\ UNCHANGED <<dual, running, center, conf, panel, assigned, follow, saved, chosenBand,
                     edited>>
      /\ running
    BY DEF Tuner!AddDecoder
<1>2. dec[r] \in Seq(Dec) /\ conf[r] \in Centre /\ band \in Centre
    BY StatusOfA DEF Centre
<1> PICK d : d = Tuner!Decoder(band, FALSE, FALSE, conf[r])
    OBVIOUS
<1>3. d \in Dec /\ d.made = conf[r] /\ ~d.followed /\ ~d.voice /\ d.band = band
    BY <1>2 DEF Tuner!Decoder, Dec
<1> PICK s : s = Append(dec[r], d)
    OBVIOUS
<1>4. /\ s \in Seq(Dec)
      /\ \A i \in DOMAIN s : s[i] = d \/ (i \in DOMAIN dec[r] /\ s[i] = dec[r][i])
      /\ DataBands(dec[r]) \subseteq DataBands(s) /\ band \in DataBands(s)
    BY <1>2, <1>3, AppendIs
<1>5. Grown(s, dec[r], conf[r])
    BY <1>3, <1>4 DEF Grown
<1>6. dec' = [dec EXCEPT ![r] = s]
    BY DEF Tuner!AddDecoder
<1>7. /\ DecTypes' /\ OnlyVoiceFollowed' /\ CentreInv' /\ dec'[r] = s
      /\ \A q \in Tuner!Receivers : q # r => dec'[q] = dec[q]
    BY <1>1, <1>4, <1>5, <1>6, RelistIs
<1>8. Tuner!Away' = Tuner!Away
    BY <1>1 DEF Tuner!Away
<1>9. HomeInv'
    BY <1>1, <1>8 DEF TunerInv, HomeInv
<1>10. kept' = IF r = "A" /\ ~Tuner!Away THEN kept \cup {band} ELSE kept
    BY DEF Tuner!AddDecoder
<1>11. KeptOnA'
    <2>1. CASE Tuner!Away
        BY <1>1, <1>8, <1>10, <2>1 DEF TunerInv, KeptOnA
    <2>2. CASE ~Tuner!Away
        <3>1. kept \subseteq DataBands(dec["A"])
            BY <1>1, <2>2 DEF TunerInv, KeptOnA
        <3>2. kept' \subseteq DataBands(dec'["A"])
            BY <1>4, <1>7, <1>10, <2>2, <3>1, ReceiversAre
        <3> QED BY <1>8, <2>2, <3>2 DEF KeptOnA
    <2> QED BY <2>1, <2>2
<1>12. TunerTypes'
    BY <1>1, <1>2, <1>7, <1>10 DEF TunerInv, TunerTypes, FollowTypes
<1>13. NoVoiceSaved'
    BY <1>1 DEF TunerInv, NoVoiceSaved
<1>14. QED BY <1>7, <1>9, <1>11, <1>12, <1>13 DEF TunerInv

LEMMA RemoveDecoderStep ==
    ASSUME NEW r \in Tuner!Receivers, NEW i
    PROVE  TunerInv /\ Tuner!RemoveDecoder(r, i) => TunerInv'
<1> SUFFICES ASSUME TunerInv, Tuner!RemoveDecoder(r, i) PROVE TunerInv'
    OBVIOUS
<1>1. /\ UNCHANGED <<dual, running, center, conf, panel, assigned, follow, saved, chosenBand,
                     edited>>
      /\ i \in DOMAIN dec[r]
    BY DEF Tuner!RemoveDecoder
<1>2. dec[r] \in Seq(Dec) /\ Tuner!Status(r) = StatusOf(dec[r])
    BY StatusOfA
<1> PICK s : s = Tuner!RemoveAt(dec[r], i)
    OBVIOUS
<1>3. /\ s \in Seq(Dec) /\ Tuner!RemoveAt(StatusOf(dec[r]), i) = StatusOf(s)
      /\ \A j \in DOMAIN s : \E k \in DOMAIN dec[r] : s[j] = dec[r][k]
    BY <1>1, <1>2, RemovedIs
<1>4. Grown(s, dec[r], conf[r])
    BY <1>3 DEF Grown
<1>5. dec' = [dec EXCEPT ![r] = s]
    BY DEF Tuner!RemoveDecoder
<1>6. /\ DecTypes' /\ OnlyVoiceFollowed' /\ CentreInv' /\ dec'[r] = s
      /\ \A q \in Tuner!Receivers : q # r => dec'[q] = dec[q]
    BY <1>1, <1>3, <1>4, <1>5, RelistIs
<1>7. Tuner!Away' = Tuner!Away
    BY <1>1 DEF Tuner!Away
<1>8. HomeInv'
    BY <1>1, <1>7 DEF TunerInv, HomeInv
<1>9. /\ r = "A" /\ ~Tuner!Away => kept' = DataBands(s)
      /\ ~(r = "A" /\ ~Tuner!Away) => kept' = kept
    <2>1. /\ r = "A" /\ ~Tuner!Away =>
                kept' = Tuner!BandsOf(Tuner!Data(Tuner!RemoveAt(Tuner!Status("A"), i)))
          /\ ~(r = "A" /\ ~Tuner!Away) => kept' = kept
        BY DEF Tuner!RemoveDecoder
    <2>2. StatusOf(s) \in Seq(Item) /\ DataBands(StatusOf(s)) = DataBands(s)
        BY <1>3, StatusIs
    <2>3. Tuner!BandsOf(Tuner!Data(StatusOf(s))) = DataBands(s)
        BY <2>2, DataIs
    <2> QED BY <1>2, <1>3, <2>1, <2>3
<1>10. KeptOnA'
    <2>1. CASE Tuner!Away
        BY <1>1, <1>7, <1>9, <2>1 DEF TunerInv, KeptOnA
    <2>2. CASE ~Tuner!Away
        <3>1. running => kept \subseteq DataBands(dec["A"])
            BY <2>2 DEF TunerInv, KeptOnA
        <3>2. running => kept' \subseteq DataBands(dec'["A"])
            BY <1>6, <1>9, <2>2, <3>1, ReceiversAre
        <3> QED BY <1>1, <1>7, <2>2, <3>2 DEF KeptOnA
    <2> QED BY <2>1, <2>2
<1>11. kept' \subseteq Centre
    BY <1>3, <1>9, DataBandsType DEF TunerInv, TunerTypes
<1>12. TunerTypes'
    BY <1>1, <1>6, <1>11 DEF TunerInv, TunerTypes, FollowTypes
<1>13. NoVoiceSaved'
    BY <1>1 DEF TunerInv, NoVoiceSaved
<1>14. QED BY <1>6, <1>8, <1>10, <1>12, <1>13 DEF TunerInv

LEMMA RemoveAllStep == TunerInv /\ Tuner!RemoveAll => TunerInv'
<1> SUFFICES ASSUME TunerInv, Tuner!RemoveAll PROVE TunerInv'
    OBVIOUS
<1>1. /\ UNCHANGED <<dual, running, center, conf, panel, assigned, follow, saved, chosenBand,
                     edited>>
      /\ dec' = [r \in Tuner!Receivers |-> IF r = "A" \/ dual THEN <<>> ELSE dec[r]]
      /\ kept' = IF Tuner!Away THEN kept ELSE {}
    BY DEF Tuner!RemoveAll
<1>2. DecTypes /\ OnlyVoiceFollowed /\ CentreInv
    BY DEF TunerInv, TunerTypes
<1>3. \A r \in Tuner!Receivers : dec'[r] \in Seq(Dec)
    <2>1. <<>> \in Seq(Dec)
        OBVIOUS
    <2> QED BY <1>1, <1>2, <2>1 DEF DecTypes
<1>4. dec' \in [Tuner!Receivers -> Seq(Dec)]
    BY <1>1, <1>3
<1>5. DecTypes'
    BY <1>1, <1>2, <1>4 DEF DecTypes
<1>6. OnlyVoiceFollowed' /\ CentreInv'
    <2>1. \A r \in Tuner!Receivers : \A i \in DOMAIN dec'[r] :
             i \in DOMAIN dec[r] /\ dec'[r][i] = dec[r][i]
        <3>1. ASSUME NEW r \in Tuner!Receivers
              PROVE  dec'[r] = dec[r] \/ DOMAIN dec'[r] = {}
            <4>1. dec'[r] = dec[r] \/ dec'[r] = <<>>
                BY <1>1
            <4> QED BY <4>1
        <3> QED BY <3>1
    <2>2. OnlyVoiceFollowed'
        BY <1>2, <2>1 DEF OnlyVoiceFollowed
    <2>3. CentreInv'
        BY <1>1, <1>2, <2>1 DEF CentreInv
    <2> QED BY <2>2, <2>3
<1>7. Tuner!Away' = Tuner!Away
    BY <1>1 DEF Tuner!Away
<1>8. HomeInv' /\ KeptOnA'
    BY <1>1, <1>7 DEF TunerInv, HomeInv, KeptOnA
<1>9. TunerTypes'
    BY <1>1, <1>5 DEF TunerInv, TunerTypes, FollowTypes
<1>10. NoVoiceSaved'
    BY <1>1 DEF TunerInv, NoVoiceSaved
<1>11. QED BY <1>6, <1>8, <1>9, <1>10 DEF TunerInv

\* The decoders of a list, made again at a centre, fit it.
LEMMA AddedFits ==
    ASSUME NEW s \in Seq(Item), NEW at \in Centre
    PROVE  /\ Tuner!Added(s, at) \in Seq(Dec) /\ Fits(Tuner!Added(s, at), at)
           /\ DataBands(Tuner!Added(s, at)) = DataBands(s)
<1> PICK t : t = Tuner!Added(s, at)
    OBVIOUS
<1>1. /\ t \in Seq(Dec) /\ DOMAIN t = DOMAIN s
      /\ \A i \in DOMAIN s : t[i].made = at /\ ~t[i].followed
      /\ DataBands(t) = DataBands(s)
    BY AddedIs
<1>2. Fits(t, at)
    BY <1>1 DEF Fits
<1>3. QED BY <1>1, <1>2

\* A's tuning, with a choice of the user, at home or away.
LEMMA RetuneAStep ==
    ASSUME NEW at \in Centre, NEW s \in Seq(Dec), Fits(s, at),
           DataBands(dec["A"]) \subseteq DataBands(s)
    PROVE  TunerInv /\ Tuner!Retune("A", at, s) /\ chosenBand' = Tuner!Chosen(at)
           /\ UNCHANGED <<dual, running, assigned, follow, saved, kept>> => TunerInv'
<1> SUFFICES ASSUME TunerInv, Tuner!Retune("A", at, s), chosenBand' = Tuner!Chosen(at),
                    UNCHANGED <<dual, running, assigned, follow, saved, kept>>
             PROVE  TunerInv'
    OBVIOUS
<1>1. /\ DecTypes' /\ OnlyVoiceFollowed' /\ CentreInv'
      /\ dec'["A"] = s /\ center'["A"] = at /\ panel'["A"] = at
    BY ReceiversAre, RetuneIs
<1>2. Tuner!Away' = Tuner!Away
    BY DEF Tuner!Away
<1>3. chosenBand' = IF Tuner!Away THEN chosenBand ELSE at
    BY DEF Tuner!Chosen
<1>4. HomeInv' /\ KeptOnA'
    BY <1>1, <1>2, <1>3 DEF TunerInv, HomeInv, KeptOnA
<1>5. TunerTypes'
    BY <1>1, <1>3 DEF TunerInv, TunerTypes, FollowTypes
<1>6. NoVoiceSaved'
    BY DEF TunerInv, NoVoiceSaved
<1>7. QED BY <1>1, <1>4, <1>5, <1>6 DEF TunerInv

LEMMA EditCenterStep ==
    ASSUME NEW band \in Bands
    PROVE  TunerInv /\ Tuner!EditCenter(band) => TunerInv'
<1> SUFFICES ASSUME TunerInv, Tuner!EditCenter(band) PROVE TunerInv'
    OBVIOUS
<1>1. UNCHANGED <<dual, running, assigned, follow, saved, kept>>
    BY DEF Tuner!EditCenter
<1>2. \/ /\ ~running /\ Tuner!EditField("A", band) /\ UNCHANGED <<edited, chosenBand>>
      \/ Tuner!RetunePreserving(band)
      \/ /\ panel' = [panel EXCEPT !["A"] = band]
         /\ \/ center' = center
            \/ center' = [center EXCEPT !["A"] = band]
         /\ edited' = [edited EXCEPT !["A"] = TRUE]
         /\ chosenBand' = Tuner!Chosen(band)
         /\ UNCHANGED <<conf, dec>>
    BY Zenon DEF Tuner!EditCenter
<1>3. DecTypes /\ band \in Centre
    BY DEF TunerInv, TunerTypes, Centre
<1>4. Tuner!Away' = Tuner!Away
    BY <1>1 DEF Tuner!Away
<1>5. NoVoiceSaved'
    BY <1>1 DEF TunerInv, NoVoiceSaved
<1>6. CASE ~running /\ Tuner!EditField("A", band) /\ UNCHANGED <<edited, chosenBand>>
    <2>1. DecTypes' /\ OnlyVoiceFollowed'
        BY <1>3, <1>6 DEF Tuner!EditField, TunerInv, DecTypes, OnlyVoiceFollowed
    <2>2. CentreInv' /\ HomeInv' /\ KeptOnA'
        BY <1>1, <1>6 DEF CentreInv, HomeInv, KeptOnA
    <2>3. TunerTypes'
        BY <1>1, <1>6, <2>1 DEF TunerInv, TunerTypes, FollowTypes
    <2> QED BY <1>5, <2>1, <2>2, <2>3 DEF TunerInv
<1>7. CASE Tuner!RetunePreserving(band)
    <2> PICK s : s = Tuner!Added(Tuner!Status("A"), band)
        OBVIOUS
    <2>1. /\ Tuner!Status("A") \in Seq(Item)
          /\ DataBands(Tuner!Status("A")) = DataBands(dec["A"])
        BY ReceiversAre, StatusOfA
    <2>2. s \in Seq(Dec) /\ Fits(s, band) /\ DataBands(s) = DataBands(dec["A"])
        BY <1>3, <2>1, AddedFits
    <2>3. Tuner!Retune("A", band, s) /\ chosenBand' = Tuner!Chosen(band)
        BY <1>7 DEF Tuner!RetunePreserving
    <2> QED BY <1>1, <1>3, <2>2, <2>3, RetuneAStep
<1>8. CASE /\ panel' = [panel EXCEPT !["A"] = band]
           /\ \/ center' = center
              \/ center' = [center EXCEPT !["A"] = band]
           /\ edited' = [edited EXCEPT !["A"] = TRUE]
           /\ chosenBand' = Tuner!Chosen(band)
           /\ UNCHANGED <<conf, dec>>
    <2>1. DecTypes' /\ OnlyVoiceFollowed'
        BY <1>3, <1>8 DEF TunerInv, DecTypes, OnlyVoiceFollowed
    <2>2. /\ edited'["A"] /\ panel'["A"] = band
          /\ \A q \in Tuner!Receivers : q # "A" => center'[q] = center[q] /\ edited'[q] = edited[q]
        BY <1>3, <1>8, ReceiversAre DEF DecTypes
    <2>3. CentreInv'
        BY <1>1, <1>8, <2>2 DEF TunerInv, CentreInv
    <2>4. chosenBand' = IF Tuner!Away THEN chosenBand ELSE band
        BY <1>8 DEF Tuner!Chosen
    <2>5. HomeInv'
        BY <1>1, <1>4, <2>2, <2>4 DEF TunerInv, HomeInv
    <2>6. KeptOnA'
        BY <1>1, <1>4, <1>8 DEF TunerInv, KeptOnA
    <2>7. TunerTypes'
        BY <1>1, <1>3, <2>1, <2>4 DEF TunerInv, TunerTypes, FollowTypes
    <2> QED BY <1>5, <2>1, <2>3, <2>5, <2>6, <2>7 DEF TunerInv
<1>9. QED BY <1>2, <1>6, <1>7, <1>8

LEMMA EditCenterBStep ==
    ASSUME NEW band \in Bands
    PROVE  TunerInv /\ Tuner!EditCenterB(band) => TunerInv'
<1> SUFFICES ASSUME TunerInv, Tuner!EditCenterB(band) PROVE TunerInv'
    OBVIOUS
<1>1. UNCHANGED <<dual, running, assigned, follow, saved, chosenBand, kept, dec>>
    BY Zenon DEF Tuner!EditCenterB, Tuner!EditField
<1>2. /\ panel' = [panel EXCEPT !["B"] = band]
      /\ \/ UNCHANGED <<center, conf, edited>>
         \/ /\ center' = [center EXCEPT !["B"] = band] /\ conf' = [conf EXCEPT !["B"] = band]
            /\ edited' = [edited EXCEPT !["B"] = TRUE]
    BY Zenon DEF Tuner!EditCenterB, Tuner!EditField
<1>3. DecTypes /\ band \in Centre
    BY DEF TunerInv, TunerTypes, Centre
<1>4. Tuner!Away' = Tuner!Away
    BY <1>1 DEF Tuner!Away
<1>5. DecTypes' /\ OnlyVoiceFollowed' /\ NoVoiceSaved'
    <2>1. DecTypes'
        BY <1>1, <1>2, <1>3 DEF DecTypes
    <2>2. OnlyVoiceFollowed' /\ NoVoiceSaved'
        BY <1>1 DEF TunerInv, OnlyVoiceFollowed, NoVoiceSaved
    <2> QED BY <2>1, <2>2
<1>6. /\ UNCHANGED <<center, conf, edited>> \/ edited'["B"]
      /\ \A q \in Tuner!Receivers : q # "B" =>
            /\ center'[q] = center[q] /\ conf'[q] = conf[q] /\ edited'[q] = edited[q]
            /\ panel'[q] = panel[q]
    BY <1>2, <1>3, ReceiversAre DEF DecTypes
<1>7. CentreInv'
    BY <1>1, <1>6 DEF TunerInv, CentreInv
<1>8. HomeInv' /\ KeptOnA'
    BY <1>1, <1>4, <1>6, ReceiversAre DEF TunerInv, HomeInv, KeptOnA
<1>9. TunerTypes'
    BY <1>1, <1>5 DEF TunerInv, TunerTypes, FollowTypes
<1>10. QED BY <1>5, <1>7, <1>8, <1>9 DEF TunerInv

\* B's tuning, and whatever else leaves A, its follow and the user's choice alone.
LEMMA BrowseStep ==
    ASSUME NEW r \in Tuner!Receivers, NEW band \in Bands
    PROVE  TunerInv /\ Tuner!Browse(r, band) => TunerInv'
<1> SUFFICES ASSUME TunerInv, Tuner!Browse(r, band) PROVE TunerInv'
    OBVIOUS
<1>1. UNCHANGED <<dual, running, assigned, follow, saved, kept>> /\ band \in Centre
    BY DEF Tuner!Browse, Centre
<1> PICK s : s = Tuner!Added(Tuner!Status(r), band)
    OBVIOUS
<1>2. /\ Tuner!Status(r) \in Seq(Item)
      /\ DataBands(Tuner!Status(r)) = DataBands(dec[r])
    BY StatusOfA
<1>3. s \in Seq(Dec) /\ Fits(s, band) /\ DataBands(s) = DataBands(dec[r])
    BY <1>1, <1>2, AddedFits
<1>4. CASE r = "A"
    <2>1. Tuner!Retune("A", band, s) /\ chosenBand' = Tuner!Chosen(band)
        BY <1>4 DEF Tuner!Browse, Tuner!RetunePreserving
    <2> QED BY <1>1, <1>3, <1>4, <2>1, RetuneAStep
<1>5. CASE r # "A"
    <2>1. r = "B" /\ Tuner!Retune(r, band, s) /\ chosenBand' = chosenBand
        BY <1>5 DEF Tuner!Browse, Tuner!Receivers
    <2>2. /\ DecTypes' /\ OnlyVoiceFollowed' /\ CentreInv'
          /\ dec'["A"] = dec["A"] /\ center'["A"] = center["A"] /\ panel'["A"] = panel["A"]
          /\ edited'["A"] = edited["A"]
        BY <1>1, <1>3, <2>1, ReceiversAre, RetuneIs
    <2>3. Tuner!Away' = Tuner!Away
        BY <1>1 DEF Tuner!Away
    <2>4. HomeInv' /\ KeptOnA'
        BY <1>1, <2>1, <2>2, <2>3 DEF TunerInv, HomeInv, KeptOnA
    <2>5. TunerTypes' /\ NoVoiceSaved'
        BY <1>1, <2>1, <2>2 DEF TunerInv, TunerTypes, FollowTypes, NoVoiceSaved
    <2> QED BY <2>2, <2>4, <2>5 DEF TunerInv
<1>6. QED BY <1>4, <1>5

LEMMA TuneToVoiceStep ==
    ASSUME NEW band \in Bands
    PROVE  TunerInv /\ Tuner!TuneToVoice(band) => TunerInv'
<1> SUFFICES ASSUME TunerInv, Tuner!TuneToVoice(band) PROVE TunerInv'
    OBVIOUS
<1>1. UNCHANGED <<dual, running, assigned, follow, saved, kept>> /\ band \in Centre /\ running
    BY DEF Tuner!TuneToVoice, Centre
<1>2. /\ dec["A"] \in Seq(Dec) /\ conf["A"] \in Centre /\ Tuner!Status("A") \in Seq(Item)
      /\ DataBands(Tuner!Status("A")) = DataBands(dec["A"])
    BY ReceiversAre, StatusOfA
<1>3. CASE band = center["A"]
    <2>1. PICK d \in Dec :
              /\ d = [Tuner!Decoder(band, TRUE, FALSE, band) EXCEPT !.made = conf["A"]]
              /\ d.made = conf["A"] /\ ~d.followed
        <3> PICK d : d = [Tuner!Decoder(band, TRUE, FALSE, band) EXCEPT !.made = conf["A"]]
            OBVIOUS
        <3>1. d \in Dec /\ d.made = conf["A"] /\ ~d.followed
            BY <1>1, <1>2 DEF Tuner!Decoder, Dec
        <3> QED BY <3>1
    <2> PICK D \in Seq(Dec) : D = dec["A"]
        BY <1>2
    <2> PICK s : s = Append(D, d)
        OBVIOUS
    <2>2. /\ s \in Seq(Dec)
          /\ \A i \in DOMAIN s : s[i] = d \/ (i \in DOMAIN D /\ s[i] = D[i])
          /\ DataBands(D) \subseteq DataBands(s)
        <3>1. d \in Dec
            BY <2>1
        <3> QED BY <3>1, AppendIs
    <2>3. Grown(s, dec["A"], conf["A"])
        BY <2>1, <2>2 DEF Grown
    <2>4. /\ dec' = [dec EXCEPT !["A"] = s]
          /\ UNCHANGED <<center, conf, panel, edited, chosenBand>>
        BY <1>3, <2>1 DEF Tuner!TuneToVoice
    <2>5. DecTypes' /\ OnlyVoiceFollowed' /\ CentreInv' /\ dec'["A"] = s
        BY <1>1, <2>2, <2>3, <2>4, ReceiversAre, RelistIs
    <2>6. Tuner!Away' = Tuner!Away
        BY <1>1 DEF Tuner!Away
    <2>7. HomeInv' /\ KeptOnA'
        BY <1>1, <2>2, <2>4, <2>5, <2>6 DEF TunerInv, HomeInv, KeptOnA
    <2>8. TunerTypes' /\ NoVoiceSaved'
        BY <1>1, <2>4, <2>5 DEF TunerInv, TunerTypes, FollowTypes, NoVoiceSaved
    <2> QED BY <2>5, <2>7, <2>8 DEF TunerInv
<1>4. CASE band # center["A"]
    <2> PICK d : d = Tuner!Decoder(band, TRUE, FALSE, band)
        OBVIOUS
    <2>1. d \in Dec /\ d.made = band /\ ~d.followed
        BY <1>1 DEF Tuner!Decoder, Dec
    <2> PICK t : t = Tuner!Added(Tuner!Status("A"), band)
        OBVIOUS
    <2>2. t \in Seq(Dec) /\ Fits(t, band) /\ DataBands(t) = DataBands(dec["A"])
        BY <1>1, <1>2, AddedFits
    <2> PICK s : s = Append(t, d)
        OBVIOUS
    <2>3. /\ s \in Seq(Dec)
          /\ \A i \in DOMAIN s : s[i] = d \/ (i \in DOMAIN t /\ s[i] = t[i])
          /\ DataBands(t) \subseteq DataBands(s)
        BY <2>1, <2>2, AppendIs
    <2>4. Fits(s, band)
        <3>1. \A i \in DOMAIN t : t[i].made = band /\ (t[i].followed => t[i].voice)
            BY <2>2 DEF Fits
        <3>2. ASSUME NEW i \in DOMAIN s
              PROVE  s[i].made = band /\ (s[i].followed => s[i].voice)
            <4>1. s[i] = d \/ (i \in DOMAIN t /\ s[i] = t[i])
                BY <2>3
            <4> QED BY <2>1, <3>1, <4>1
        <3> QED BY <3>2 DEF Fits
    <2>5. Tuner!Retune("A", band, s) /\ chosenBand' = Tuner!Chosen(band)
        BY <1>4 DEF Tuner!TuneToVoice
    <2> QED BY <1>1, <2>2, <2>3, <2>4, <2>5, RetuneAStep
<1>5. QED BY <1>3, <1>4

LEMMA TuneBandPlanStep ==
    ASSUME NEW r \in Tuner!Receivers, NEW band \in Bands, NEW channels \in BOOLEAN
    PROVE  TunerInv /\ Tuner!TuneBandPlan(r, band, channels) => TunerInv'
<1> SUFFICES ASSUME TunerInv, Tuner!TuneBandPlan(r, band, channels) PROVE TunerInv'
    OBVIOUS
<1>0. band \in Centre
    BY DEF Centre
<1> PICK status : status = IF channels THEN <<[band |-> band, voice |-> FALSE]>>
                           ELSE Selected(Tuner!Status(r), {i \in DOMAIN dec[r] : dec[r][i].band = band})
    OBVIOUS
<1>1. /\ UNCHANGED <<dual, running, saved>> /\ running /\ (r = "B" => dual)
      /\ Tuner!Retune(r, band, Tuner!Added(status, band))
      /\ follow' = Tuner!NoFollow /\ assigned' = Tuner!NoAssignment
      /\ chosenBand' = IF r = "A" THEN band ELSE center["A"]
      /\ kept' = Tuner!BandsOf(Tuner!Data(IF r = "A" THEN status ELSE Tuner!Status("A")))
    BY TunerSelected DEF Tuner!TuneBandPlan
<1>2. status \in Seq(Item)
    <2>1. CASE channels
        <3>1. [band |-> band, voice |-> FALSE] \in Item
            BY <1>0 DEF Item
        <3> QED BY <2>1, <3>1, OneEntry
    <2>2. CASE ~channels
        <3>1. Tuner!Status(r) \in Seq(Item) /\ DOMAIN Tuner!Status(r) = DOMAIN dec[r]
            BY StatusOfA
        <3> PICK I \in SUBSET (DOMAIN Tuner!Status(r)) :
                I = {i \in DOMAIN dec[r] : dec[r][i].band = band}
            BY <3>1
        <3>2. Selected(Tuner!Status(r), I) \in Seq(Item)
            BY <3>1, SelectedAre
        <3> QED BY <2>2, <3>2
    <2> QED BY <2>1, <2>2
<1> PICK s : s = Tuner!Added(status, band)
    OBVIOUS
<1>3. s \in Seq(Dec) /\ Fits(s, band) /\ DataBands(s) = DataBands(status)
    BY <1>0, <1>2, AddedFits
<1>4. /\ DecTypes' /\ OnlyVoiceFollowed' /\ CentreInv'
      /\ dec'[r] = s /\ center'[r] = band /\ panel'[r] = band
      /\ \A q \in Tuner!Receivers : q # r =>
            dec'[q] = dec[q] /\ center'[q] = center[q]
    BY <1>0, <1>1, <1>3, RetuneIs
<1>5. FollowTypes' /\ ~Tuner!Away'
    BY <1>1, NoFollowIs DEF FollowTypes, Tuner!Away
<1>6. r # "A" => dual /\ dec'["A"] = dec["A"] /\ center'["A"] = center["A"]
    BY <1>1, <1>4, ReceiversAre DEF Tuner!Receivers
<1>7. HomeInv'
    BY <1>1, <1>4, <1>5, <1>6 DEF HomeInv
<1>8. kept' = DataBands(dec'["A"]) /\ dec'["A"] \in Seq(Dec)
    <2>1. /\ Tuner!Status("A") \in Seq(Item) /\ dec["A"] \in Seq(Dec)
          /\ DataBands(Tuner!Status("A")) = DataBands(dec["A"])
        BY ReceiversAre, StatusOfA
    <2>2. CASE r = "A"
        <3>1. Tuner!BandsOf(Tuner!Data(status)) = DataBands(status)
            BY <1>2, DataIs
        <3> QED BY <1>1, <1>3, <1>4, <2>2, <3>1
    <2>3. CASE r # "A"
        <3>1. Tuner!BandsOf(Tuner!Data(Tuner!Status("A"))) = DataBands(Tuner!Status("A"))
            BY <2>1, DataIs
        <3> QED BY <1>1, <1>6, <2>1, <2>3, <3>1
    <2> QED BY <2>2, <2>3
<1>9. KeptOnA' /\ kept' \subseteq Centre
    BY <1>5, <1>8, DataBandsType DEF KeptOnA
<1>10. chosenBand' \in Centre
    BY <1>0, <1>1, ReceiversAre, StatusOfA
<1>11. TunerTypes'
    BY <1>1, <1>4, <1>5, <1>9, <1>10, NoAssignmentIs DEF TunerInv, TunerTypes
<1>12. NoVoiceSaved'
    BY <1>1 DEF TunerInv, NoVoiceSaved
<1>13. QED BY <1>4, <1>7, <1>9, <1>11, <1>12 DEF TunerInv

LEMMA TunerStep == TunerInv /\ Tuner!Next => TunerInv'
<1> SUFFICES ASSUME TunerInv, Tuner!Next PROVE TunerInv'
    OBVIOUS
<1>1. CASE Tuner!StartActive \/ Tuner!PressStop \/ Tuner!StreamFails \/ Tuner!Frame \/ Tuner!RemoveAll
    BY <1>1, StartActiveStep, StopStep, FrameStep, RemoveAllStep
<1>2. CASE \/ \E band \in Bands : Tuner!Assigned(band)
           \/ Tuner!ClearAssignments \/ Tuner!Frames \/ Tuner!Silence \/ Tuner!ToggleFollow
    BY <1>2, FlagsStep
<1>3. CASE \E r \in Tuner!Receivers, band \in Bands :
              Tuner!AddDecoder(r, band) \/ Tuner!Browse(r, band)
    BY <1>3, AddDecoderStep, BrowseStep
<1>4. CASE \E r \in Tuner!Receivers, i \in 1 .. (MaxDecoders + 1) : Tuner!RemoveDecoder(r, i)
    BY <1>4, RemoveDecoderStep
<1>5. CASE \E band \in Bands :
              Tuner!EditCenter(band) \/ Tuner!EditCenterB(band) \/ Tuner!TuneToVoice(band)
    BY <1>5, EditCenterStep, EditCenterBStep, TuneToVoiceStep
<1>6. CASE \E r \in Tuner!Receivers, band \in Bands, channels \in BOOLEAN :
              Tuner!TuneBandPlan(r, band, channels)
    BY <1>6, TuneBandPlanStep
<1>7. QED BY <1>1, <1>2, <1>3, <1>4, <1>5, <1>6, Zenon DEF Tuner!Next

LEMMA TunerKeeps == TunerInv => Tuner!StationKeepsTuned
<1> SUFFICES ASSUME TunerInv PROVE Tuner!StationKeepsTuned
    OBVIOUS
<1>1. Tuner!DecodersMatchRadio
    BY DEF TunerInv, CentreInv, Tuner!DecodersMatchRadio
<1>2. /\ Tuner!BandsOf(Tuner!Data(follow.home)) = DataBands(follow.home)
      /\ Tuner!BandsOf(Tuner!Data(Tuner!Status("A"))) = DataBands(dec["A"])
    BY FollowFields, ReceiversAre, StatusOfA, DataIs
<1>3. ~follow.on => ~Tuner!Away
    BY DEF Tuner!Away
<1>4. Tuner!HomeAfterFollow
    BY <1>2, <1>3 DEF TunerInv, HomeInv, KeptOnA, Tuner!HomeAfterFollow
<1>5. QED BY <1>1, <1>4 DEF Tuner!StationKeepsTuned

TunerPart == part = "tuning" => TunerInv

\* Through every sequence of follows, tunings, band plans, starts and stops a decoder fits
\* the centre its radio is on, and receiver A, its channels and the user's choice of a
\* centre survive every call that takes it away.
THEOREM KeepsTuned == SumSpec => []StationKeepsTuned
<1>1. SumInit => TunerPart
    BY TunerInit DEF SumInit, TunerPart
<1>2. TunerPart /\ [SumNext]_sumVars => TunerPart'
    <2> SUFFICES ASSUME TunerPart, [SumNext]_sumVars, part' = "tuning"
                 PROVE  TunerInv'
        BY DEF TunerPart
    <2>1. CASE UNCHANGED sumVars
        BY <2>1 DEF sumVars, tuning, TunerPart, TunerInv, TunerTypes, DecTypes, FollowTypes,
           OnlyVoiceFollowed, NoVoiceSaved, CentreInv, HomeInv, KeptOnA, Tuner!Away
    <2>2. CASE SumNext
        <3>1. part = "tuning" /\ Tuner!Next
            BY <2>2 DEF SumNext
        <3> QED BY <3>1, TunerStep DEF TunerPart
    <2> QED BY <2>1, <2>2
<1>3. TunerPart => StationKeepsTuned
    BY TunerKeeps DEF TunerPart, StationKeepsTuned
<1>4. QED BY <1>1, <1>2, <1>3, PTL DEF SumSpec

-----------------------------------------------------------------------------
(* The call hunter                                                         *)

HunterDec == [id : Nat, ch : Channels, by : {"user", "hunter"}, quiet : Nat]
Cand == [ch : Channels, confirm : Nat, lost : Nat, id : 0 .. MaxIdA]

HunterTypes ==
    /\ huntDec \in [Hunter!Receivers -> SUBSET HunterDec]
    /\ huntId \in [Hunter!Receivers -> Nat \ {0}] /\ huntId["A"] <= MaxIdA + 1
    /\ cands \in Seq(Cand) /\ huntDual \in BOOLEAN

\* A manager never gives an id twice.
IdsAreOwn ==
    /\ \A r \in Hunter!Receivers : \A d \in huntDec[r] : d.id \in 1 .. huntId[r] - 1
    /\ \A d, e \in huntDec["A"] : d.id = e.id => d = e

\* One candidate for a channel; one that has a decoder has it for itself, and not for
\* longer than the hunter looks for it.
CandsAreOwn ==
    /\ \A i, j \in DOMAIN cands : cands[i].ch = cands[j].ch => i = j
    /\ \A i, j \in DOMAIN cands : cands[i].id = cands[j].id /\ cands[i].id # 0 => i = j
    /\ \A i \in DOMAIN cands : cands[i].id < huntId["A"]
    /\ \A i \in DOMAIN cands : cands[i].id # 0 => cands[i].lost < Lost

\* A decoder of the hunter has the candidate that remembers it; the decoders of others
\* have none.
DecodersHaveCands ==
    \A d \in huntDec["A"] :
        /\ d.by = "hunter" => \E i \in DOMAIN cands :
              /\ cands[i].id = d.id /\ cands[i].ch = d.ch
              /\ ~huntDual => d.quiet <= cands[i].lost
        /\ d.by = "user" => \A i \in DOMAIN cands : cands[i].id # d.id

OneForACall ==
    \A d, e \in huntDec["A"] : d.by = "hunter" /\ e.id < d.id => e.ch # d.ch

HunterInv == HunterTypes /\ IdsAreOwn /\ CandsAreOwn /\ DecodersHaveCands /\ OneForACall

LEMMA HunterOrdered ==
    /\ \A S : Hunter!Cardinality(S) = Cardinality(S)
    /\ \A S, x : Hunter!Rank(S, x) = Rank(S, x)
    /\ \A S : Hunter!Sorted(S) = Sorted(S)
    /\ \A s, I : Hunter!Selected(s, I) = Selected(s, I)
BY Zenon DEF Hunter!Selected, Hunter!Sorted, Hunter!Rank, Hunter!Cardinality, Selected, Sorted,
   Rank, Cardinality

LEMMA HunterConstants ==
    /\ Hunter!NoDecoder = 0 /\ Hunter!Covered = MaxIdA + 1 /\ MaxIdA \in Nat
    /\ Lost \in Nat \ {0} /\ Confirm \in Nat \ {0} /\ Channels \subseteq Nat /\ IsFiniteSet(Channels)
    /\ "A" \in Hunter!Receivers
BY HunterAssumption DEF Hunter!NoDecoder, Hunter!Covered, Hunter!Receivers

LEMMA HunterInit == Hunter!Init => HunterInv
<1> SUFFICES ASSUME Hunter!Init PROVE HunterInv
    OBVIOUS
<1>1. /\ huntDec = [r \in Hunter!Receivers |-> {}] /\ huntId = [r \in Hunter!Receivers |-> 1]
      /\ cands = <<>> /\ huntDual \in BOOLEAN
    BY DEF Hunter!Init
<1>2. huntDec \in [Hunter!Receivers -> SUBSET HunterDec]
    BY <1>1
<1>3. huntId \in [Hunter!Receivers -> Nat \ {0}] /\ huntId["A"] = 1
    BY <1>1, HunterConstants
<1>4. HunterTypes
    BY <1>1, <1>2, <1>3, HunterConstants DEF HunterTypes
<1>5. DOMAIN cands = {} /\ \A r \in Hunter!Receivers : huntDec[r] = {}
    BY <1>1
<1>6. IdsAreOwn /\ CandsAreOwn /\ DecodersHaveCands /\ OneForACall
    BY <1>5, HunterConstants DEF IdsAreOwn, CandsAreOwn, DecodersHaveCands, OneForACall
<1>7. QED BY <1>4, <1>6 DEF HunterInv

-----------------------------------------------------------------------------
(* A frame of the hunter.                                                  *)

\* The list with the candidates of new peaks.
AllOwn(all) ==
    /\ all \in Seq(Cand)
    /\ \A i, j \in DOMAIN all : all[i].ch = all[j].ch => i = j
    /\ \A i \in DOMAIN all : all[i].id # 0 => i \in DOMAIN cands
    /\ \A i \in DOMAIN cands : i \in DOMAIN all /\ all[i] = cands[i]

LEMMA ConcatIs ==
    ASSUME NEW T, NEW s \in Seq(T), NEW t \in Seq(T),
           NEW m \in Nat, m = Len(s), NEW n \in Nat, n = Len(t)
    PROVE  /\ s \o t \in Seq(T) /\ DOMAIN (s \o t) = 1 .. m + n
           /\ \A i \in 1 .. m : (s \o t)[i] = s[i]
           /\ \A i \in 1 .. m + n : i \notin 1 .. m => i - m \in 1 .. n /\ (s \o t)[i] = t[i - m]
<1> PICK u : u = s \o t
    OBVIOUS
<1>1. /\ s \o t \in Seq(T) /\ Len(s \o t) = Len(s) + Len(t)
      /\ \A j \in 1 .. Len(s) + Len(t) :
            (s \o t)[j] = IF j <= Len(s) THEN s[j] ELSE t[j - Len(s)]
    BY ConcatProperties, Zenon
<1>2. /\ u \in Seq(T) /\ Len(u) = m + n
      /\ \A j \in 1 .. m + n : u[j] = IF j <= m THEN s[j] ELSE t[j - m]
    BY <1>1
<1>3. QED BY <1>2

\* The candidates of new peaks.
NewCands(S) ==
    [i \in DOMAIN Sorted(S) |-> [ch |-> Sorted(S)[i], confirm |-> 0, lost |-> 0, id |-> 0]]

LEMMA NewCandsAre ==
    ASSUME NEW S \in SUBSET Channels, NEW n \in Nat, n = Cardinality(S)
    PROVE  /\ NewCands(S) \in Seq(Cand) /\ Len(NewCands(S)) = n
           /\ \A i \in 1 .. n : NewCands(S)[i].id = 0 /\ NewCands(S)[i].ch \in S
           /\ \A i, j \in 1 .. n : NewCands(S)[i].ch = NewCands(S)[j].ch => i = j
<1>1. S \in SUBSET Nat /\ IsFiniteSet(S)
    BY HunterConstants, FS_Subset
<1> PICK new : new = Sorted(S)
    OBVIOUS
<1>2. /\ new \in [1 .. n -> S]
      /\ \A i, j \in 1 .. n : i < j => new[i] < new[j]
    BY <1>1, SortedIsSorted
<1> PICK add : add = NewCands(S)
    OBVIOUS
<1>3. add = [i \in 1 .. n |-> [ch |-> new[i], confirm |-> 0, lost |-> 0, id |-> 0]]
    BY <1>2 DEF NewCands
<1>4. \A i \in 1 .. n : add[i] \in Cand /\ add[i].ch = new[i] /\ add[i].id = 0
    <2> TAKE i \in 1 .. n
    <2>0. new[i] \in S
        BY <1>2
    <2>1. new[i] \in Channels
        BY <2>0
    <2>3. 0 \in Nat /\ 0 \in 0 .. MaxIdA
        BY HunterConstants
    <2>2. [ch |-> new[i], confirm |-> 0, lost |-> 0, id |-> 0] \in Cand
        BY <2>1, <2>3 DEF Cand
    <2>4. add[i] = [ch |-> new[i], confirm |-> 0, lost |-> 0, id |-> 0]
        BY <1>3
    <2> QED BY <2>2, <2>4
<1>5. add \in [1 .. n -> Cand]
    BY <1>3, <1>4
<1>6. add \in Seq(Cand) /\ Len(add) = n
    BY <1>5
<1>7. \A i, j \in 1 .. n : new[i] = new[j] => i = j
    <2> SUFFICES ASSUME NEW i \in 1 .. n, NEW j \in 1 .. n, i < j
                 PROVE  new[i] # new[j]
        BY Z3
    <2>1. new[i] < new[j] /\ new[i] \in Nat /\ new[j] \in Nat
        BY <1>1, <1>2
    <2> QED BY <2>1
<1>8. QED BY <1>2, <1>4, <1>6, <1>7

LEMMA WithNewIs ==
    ASSUME NEW peaks \in SUBSET Channels
    PROVE  HunterInv => AllOwn(Hunter!WithNew(peaks))
<1> SUFFICES ASSUME HunterInv PROVE AllOwn(Hunter!WithNew(peaks))
    OBVIOUS
<1>0. cands \in Seq(Cand) /\ \A i, j \in DOMAIN cands : cands[i].ch = cands[j].ch => i = j
    BY DEF HunterInv, HunterTypes, CandsAreOwn
<1>1. PICK S \in SUBSET Channels : S = peaks \ {cands[i].ch : i \in DOMAIN cands}
    OBVIOUS
<1>2. \A i \in DOMAIN cands : cands[i].ch \notin S
    BY <1>1
<1>3. Hunter!WithNew(peaks) = cands \o NewCands(S)
    BY <1>1, HunterOrdered, HunterConstants DEF Hunter!WithNew, NewCands
<1>4. PICK n \in Nat : n = Cardinality(S)
    BY HunterConstants, FS_Subset, FS_CardinalityType
<1> PICK add : add = NewCands(S)
    OBVIOUS
<1>5. /\ add \in Seq(Cand) /\ Len(add) = n
      /\ \A i \in 1 .. n : add[i].id = 0 /\ add[i].ch \in S
      /\ \A i, j \in 1 .. n : add[i].ch = add[j].ch => i = j
    BY <1>4, NewCandsAre
<1>6. PICK m \in Nat : m = Len(cands) /\ DOMAIN cands = 1 .. m
    BY <1>0
<1> PICK all : all = cands \o add
    OBVIOUS
<1>7. /\ all \in Seq(Cand) /\ DOMAIN all = 1 .. m + n
      /\ \A i \in 1 .. m : all[i] = cands[i]
      /\ \A i \in 1 .. m + n : i \notin 1 .. m => i - m \in 1 .. n /\ all[i] = add[i - m]
    BY <1>0, <1>5, <1>6, ConcatIs
<1>8. ASSUME NEW i \in DOMAIN all, NEW j \in DOMAIN all, all[i].ch = all[j].ch
      PROVE  i = j
    <2>0. i \in 1 .. m + n /\ j \in 1 .. m + n
        BY <1>7
    <2>1. CASE i \in 1 .. m /\ j \in 1 .. m
        BY <1>0, <1>6, <1>7, <1>8, <2>1
    <2>2. CASE i \in 1 .. m /\ j \notin 1 .. m
        <3>1. all[i].ch \notin S /\ all[j].ch \in S
            BY <1>2, <1>5, <1>6, <1>7, <2>0, <2>2
        <3> QED BY <1>8, <3>1
    <2>3. CASE i \notin 1 .. m /\ j \in 1 .. m
        <3>1. all[j].ch \notin S /\ all[i].ch \in S
            BY <1>2, <1>5, <1>6, <1>7, <2>0, <2>3
        <3> QED BY <1>8, <3>1
    <2>4. CASE i \notin 1 .. m /\ j \notin 1 .. m
        <3>1. i - m \in 1 .. n /\ j - m \in 1 .. n /\ add[i - m].ch = add[j - m].ch
            BY <1>7, <1>8, <2>0, <2>4
        <3>2. i - m = j - m
            BY <1>5, <3>1
        <3> QED BY <2>0, <3>2
    <2> QED BY <2>1, <2>2, <2>3, <2>4
<1>9. \A i \in DOMAIN all : all[i].id # 0 => i \in DOMAIN cands
    BY <1>5, <1>6, <1>7
<1>10. \A i \in DOMAIN cands : i \in DOMAIN all /\ all[i] = cands[i]
    BY <1>6, <1>7
<1>11. AllOwn(all)
    BY <1>7, <1>8, <1>9, <1>10 DEF AllOwn
<1>12. QED BY <1>3, <1>11

LEMMA SeenIs ==
    ASSUME NEW c \in Cand, NEW sees, NEW locks
    PROVE  /\ Hunter!SeenAs(c, sees, locks) \in Cand
           /\ Hunter!SeenAs(c, sees, locks).ch = c.ch
           /\ Hunter!SeenAs(c, sees, locks).id = c.id
<1>1. c.ch \in Channels /\ c.confirm \in Nat /\ c.lost \in Nat /\ c.id \in 0 .. MaxIdA
    BY DEF Cand
<1> PICK e : e = Hunter!SeenAs(c, sees, locks)
    OBVIOUS
<1>2. e = c \/ \E k, l \in Nat : e = [c EXCEPT !.confirm = k, !.lost = l]
    <2>1. \/ e = [c EXCEPT !.confirm = IF c.confirm < Confirm THEN c.confirm + 1 ELSE c.confirm,
                           !.lost = 0]
          \/ e = c
          \/ e = [c EXCEPT !.confirm = 0, !.lost = c.lost + 1]
        BY Zenon DEF Hunter!SeenAs
    <2>2. PICK k \in Nat, l \in Nat :
              /\ k = IF c.confirm < Confirm THEN c.confirm + 1 ELSE c.confirm
              /\ l = c.lost + 1
        BY <1>1
    <2>3. 0 \in Nat
        OBVIOUS
    <2> QED BY <2>1, <2>2, <2>3, Zenon
<1>3. ASSUME NEW k \in Nat, NEW l \in Nat, e = [c EXCEPT !.confirm = k, !.lost = l]
      PROVE  e \in Cand /\ e.ch = c.ch /\ e.id = c.id
    BY <1>3 DEF Cand
<1>4. QED BY <1>2, <1>3

LEMMA LostIs ==
    ASSUME NEW c \in Cand, NEW k, NEW l
    PROVE  [c EXCEPT !.confirm = k, !.lost = l].lost = l
BY DEF Cand

\* While one radio runs, a decoder is without a sign of its call for no longer than its
\* candidate is.
LEMMA QuietIs ==
    ASSUME NEW c \in Cand, NEW sees \in Hunter!Spectra, NEW locks, NEW d \in HunterDec,
           d \in huntDec["A"], c.id = d.id, c.ch = d.ch, c.id # 0, ~huntDual, d.quiet <= c.lost
    PROVE  Hunter!Quieter(d, sees, locks).quiet <= Hunter!SeenAs(c, sees, locks).lost
<1>1. /\ c.confirm \in Nat /\ c.lost \in Nat /\ d.quiet \in Nat
      /\ c = [ch |-> c.ch, confirm |-> c.confirm, lost |-> c.lost, id |-> c.id]
      /\ d = [id |-> d.id, ch |-> d.ch, by |-> d.by, quiet |-> d.quiet]
    BY DEF Cand, HunterDec
<1>2. sees.peaks \subseteq sees.visible
    BY DEF Hunter!Spectra
<1> PICK q : q = Hunter!Quieter(d, sees, locks)
    OBVIOUS
<1> PICK e : e = Hunter!SeenAs(c, sees, locks)
    OBVIOUS
<1>3. /\ (<<"A", d.id>> \in locks \/ d.ch \in sees.visible) => q.quiet = 0
      /\ ~(<<"A", d.id>> \in locks \/ d.ch \in sees.visible) => q.quiet <= d.quiet + 1
      /\ q.quiet \in Nat
    BY <1>1, HunterConstants DEF Hunter!Quieter
<1>4. e.lost \in Nat
    BY SeenIs DEF Cand
<1>5. CASE <<"A", d.id>> \in locks \/ d.ch \in sees.visible
    BY <1>3, <1>4, <1>5
<1>6. CASE ~(<<"A", d.id>> \in locks \/ d.ch \in sees.visible)
    <2>1. c.ch \notin sees.peaks /\ c.ch \notin sees.visible
        BY <1>2, <1>6
    <2>2. ~Hunter!IsLocked(c.id, locks)
        BY <1>6 DEF Hunter!IsLocked
    <2>3. e = [c EXCEPT !.confirm = 0, !.lost = c.lost + 1]
        BY <2>1, <2>2, Zenon DEF Hunter!SeenAs
    <2>4. e.lost = c.lost + 1
        <3>1. [c EXCEPT !.confirm = 0, !.lost = c.lost + 1].lost = c.lost + 1
            BY LostIs
        <3> QED BY <2>3, <3>1
    <2> QED BY <1>1, <1>3, <1>6, <2>4
<1>7. QED BY <1>5, <1>6

LEMMA SpawnedIs ==
    ASSUME NEW c \in Cand, NEW id \in 0 .. MaxIdA + 1
    PROVE  LET e == Hunter!Spawned(c, id) IN
           /\ e.ch = c.ch /\ e.confirm = c.confirm /\ e.lost = c.lost
           /\ e \in [ch : Channels, confirm : Nat, lost : Nat, id : 0 .. MaxIdA + 1]
           /\ Hunter!Spawns(c) => e.id = id /\ ~Hunter!HasDecoder(c.ch)
           /\ ~Hunter!Spawns(c) => e.id = c.id \/ e.id = MaxIdA + 1
           /\ c.id # 0 => e = c /\ ~Hunter!Spawns(c)
<1>1. c.ch \in Channels /\ c.confirm \in Nat /\ c.lost \in Nat /\ c.id \in 0 .. MaxIdA
    BY DEF Cand
<1>2. c \in [ch : Channels, confirm : Nat, lost : Nat, id : 0 .. MaxIdA + 1]
    BY HunterConstants DEF Cand
<1> PICK e : e = Hunter!Spawned(c, id)
    OBVIOUS
<1>3. ASSUME NEW x \in 0 .. MaxIdA + 1, e = [c EXCEPT !.id = x]
      PROVE  /\ e.ch = c.ch /\ e.confirm = c.confirm /\ e.lost = c.lost /\ e.id = x
             /\ e \in [ch : Channels, confirm : Nat, lost : Nat, id : 0 .. MaxIdA + 1]
    BY <1>2, <1>3
<1>4. CASE Hunter!Spawns(c)
    <2>1. e = [c EXCEPT !.id = id] /\ ~Hunter!HasDecoder(c.ch) /\ c.id = 0
        BY <1>1, <1>4, HunterConstants DEF Hunter!Spawns, Hunter!Spawned
    <2> QED BY <1>3, <1>4, <2>1
<1>5. CASE ~Hunter!Spawns(c)
    <2>1. e = c \/ (e = [c EXCEPT !.id = MaxIdA + 1] /\ c.id = 0)
        BY <1>1, <1>5, HunterConstants DEF Hunter!Spawns, Hunter!Spawned
    <2>2. MaxIdA + 1 \in 0 .. MaxIdA + 1
        BY HunterConstants
    <2> QED BY <1>2, <1>3, <1>5, <2>1, <2>2
<1>6. QED BY <1>4, <1>5

\* Removed is what the candidates that ended had.
WideCand == [ch : Channels, confirm : Nat, lost : Nat, id : 0 .. MaxIdA + 1]

\* The list after the spawns of a frame.
ListOwn(after, spawning, sees, locks) ==
    /\ after \in Seq(WideCand)
    /\ \A i, j \in DOMAIN after : after[i].ch = after[j].ch => i = j
    /\ spawning \in SUBSET (DOMAIN after)
    /\ \A i \in spawning :
          /\ after[i].id \in huntId["A"] .. huntId["A"] + Cardinality(spawning) - 1
          /\ ~Hunter!HasDecoder(after[i].ch)
    /\ \A i, j \in spawning : after[i].id = after[j].id => i = j
    /\ \A i \in DOMAIN after : i \notin spawning /\ after[i].id \notin {0, MaxIdA + 1} =>
          i \in DOMAIN cands /\ after[i].id = cands[i].id
    /\ \A i \in DOMAIN cands : cands[i].id # 0 =>
          /\ i \in DOMAIN after /\ i \notin spawning
          /\ after[i].id = cands[i].id /\ after[i].ch = cands[i].ch
          /\ \A d \in huntDec["A"] :
                cands[i].id = d.id /\ cands[i].ch = d.ch /\ ~huntDual /\ d.quiet <= cands[i].lost
                => Hunter!Quieter(d, sees, locks).quiet <= after[i].lost

\* How Hunt makes it.
SeenMade(seen, all, sees, locks) ==
    DOMAIN seen = DOMAIN all /\ \A i \in DOMAIN all : seen[i] = Hunter!SeenAs(all[i], sees, locks)
SpawningMade(spawning, seen) ==
    spawning \in SUBSET (DOMAIN seen) /\ \A i \in DOMAIN seen : i \in spawning <=> Hunter!Spawns(seen[i])
ListMade(after, seen, spawning) ==
    /\ DOMAIN after = DOMAIN seen /\ after = [i \in DOMAIN after |-> after[i]]
    /\ \A i \in DOMAIN seen :
          after[i] = Hunter!Spawned(seen[i], huntId["A"] + Rank(spawning, i) - 1)

LEMMA SpawnedFree ==
    ASSUME NEW c \in Cand, NEW id, NEW k, ~Hunter!Spawns(c)
    PROVE  Hunter!Spawned(c, id) = Hunter!Spawned(c, k)
<1>1. c.confirm \in Nat
    BY DEF Cand
<1>2. c.id # Hunter!NoDecoder \/ c.confirm < Confirm \/ Hunter!HasDecoder(c.ch)
    BY <1>1, HunterConstants DEF Hunter!Spawns
<1>3. QED BY <1>2, Zenon DEF Hunter!Spawned

LEMMA ListIs ==
    ASSUME NEW sees \in Hunter!Spectra, NEW locks,
           NEW all, NEW seen, NEW spawning, NEW after,
           AllOwn(all),
           SeenMade(seen, all, sees, locks), SpawningMade(spawning, seen),
           ListMade(after, seen, spawning),
           huntId["A"] + Cardinality(spawning) <= MaxIdA + 1
    PROVE  HunterInv => ListOwn(after, spawning, sees, locks)
<1> SUFFICES ASSUME HunterInv PROVE ListOwn(after, spawning, sees, locks)
    OBVIOUS
<1>1. /\ all \in Seq(Cand)
      /\ \A i, j \in DOMAIN all : all[i].ch = all[j].ch => i = j
      /\ \A i \in DOMAIN all : all[i].id # 0 => i \in DOMAIN cands
      /\ \A i \in DOMAIN cands : i \in DOMAIN all /\ all[i] = cands[i]
    BY DEF AllOwn
<1>2. PICK m \in Nat : m = Len(all) /\ DOMAIN all = 1 .. m
    BY <1>1
<1>3. \A i \in 1 .. m : seen[i] \in Cand /\ seen[i].ch = all[i].ch /\ seen[i].id = all[i].id
    <2> TAKE i \in 1 .. m
    <2>1. all[i] \in Cand /\ seen[i] = Hunter!SeenAs(all[i], sees, locks)
        BY <1>1, <1>2 DEF SeenMade
    <2> QED BY <2>1, SeenIs
<1>4. DOMAIN seen = 1 .. m /\ DOMAIN after = 1 .. m /\ spawning \in SUBSET (1 .. m)
    BY <1>2 DEF SeenMade, ListMade, SpawningMade
<1>5. spawning \in SUBSET Nat /\ IsFiniteSet(spawning)
    <2>1. IsFiniteSet(1 .. m)
        BY FS_Interval
    <2>2. spawning \in SUBSET Nat
        BY <1>4
    <2> QED BY <1>4, <2>1, <2>2, FS_Subset
<1>6. PICK n \in Nat : n = Cardinality(spawning)
    BY <1>5, FS_CardinalityType
<1>7. PICK N \in Nat \ {0} : N = huntId["A"]
    BY HunterConstants DEF HunterInv, HunterTypes
<1>8. N + n <= MaxIdA + 1
    BY <1>6, <1>7
<1>9. ASSUME NEW i \in spawning
      PROVE  /\ N + Rank(spawning, i) - 1 \in N .. N + n - 1
             /\ N + Rank(spawning, i) - 1 \in 0 .. MaxIdA + 1
    <2>1. Rank(spawning, i) \in 1 .. n
        BY <1>5, <1>6, RankType
    <2> QED BY <1>8, <2>1, HunterConstants
<1>10. ASSUME NEW i \in 1 .. m
       PROVE  /\ after[i] \in WideCand /\ after[i].ch = all[i].ch /\ after[i].lost = seen[i].lost
              /\ i \in spawning => /\ after[i].id = N + Rank(spawning, i) - 1
                                   /\ ~Hunter!HasDecoder(after[i].ch)
              /\ i \notin spawning /\ after[i].id # MaxIdA + 1 => after[i].id = all[i].id
              /\ all[i].id # 0 => i \notin spawning /\ after[i].id = all[i].id
    <2>1. after[i] = Hunter!Spawned(seen[i], N + Rank(spawning, i) - 1)
        BY <1>4, <1>7 DEF ListMade
    <2>2. i \in spawning <=> Hunter!Spawns(seen[i])
        BY <1>4 DEF SpawningMade
    <2>3. CASE i \in spawning
        <3>1. N + Rank(spawning, i) - 1 \in 0 .. MaxIdA + 1
            BY <1>9, <2>3
        <3> QED BY <1>3, <2>1, <2>2, <2>3, <3>1, SpawnedIs DEF WideCand
    <2>4. CASE i \notin spawning
        <3>1. PICK id : id = N + Rank(spawning, i) - 1
            OBVIOUS
        <3>2. ~Hunter!Spawns(seen[i]) /\ after[i] = Hunter!Spawned(seen[i], id) /\ seen[i] \in Cand
            BY <1>3, <2>1, <2>2, <2>4, <3>1
        <3>3. after[i] = Hunter!Spawned(seen[i], 0)
            BY <3>2, SpawnedFree
        <3>4. 0 \in 0 .. MaxIdA + 1
            BY HunterConstants
        <3>5. /\ after[i].ch = seen[i].ch /\ after[i].lost = seen[i].lost
              /\ after[i].id = seen[i].id \/ after[i].id = MaxIdA + 1
              /\ after[i] \in WideCand
              /\ seen[i].id # 0 => after[i] = seen[i]
            BY <3>2, <3>3, <3>4, SpawnedIs DEF WideCand
        <3> QED BY <1>3, <2>4, <3>5
    <2> QED BY <2>3, <2>4
<1>11. after \in Seq(WideCand)
    <2>1. after \in [1 .. m -> WideCand]
        BY <1>4, <1>10 DEF ListMade
    <2> QED BY <2>1
<1>12. \A i, j \in DOMAIN after : after[i].ch = after[j].ch => i = j
    BY <1>1, <1>2, <1>4, <1>10
<1>13. \A i \in spawning : /\ after[i].id \in huntId["A"] .. huntId["A"] + Cardinality(spawning) - 1
                           /\ ~Hunter!HasDecoder(after[i].ch)
    BY <1>4, <1>6, <1>7, <1>9, <1>10
<1>14. ASSUME NEW i \in spawning, NEW j \in spawning, after[i].id = after[j].id
       PROVE  i = j
    <2>1. i \in Nat /\ j \in Nat /\ Rank(spawning, i) \in 1 .. n /\ Rank(spawning, j) \in 1 .. n
        BY <1>5, <1>6, RankType
    <2>2. N + Rank(spawning, i) - 1 = N + Rank(spawning, j) - 1
        BY <1>4, <1>10, <1>14
    <2>3. Rank(spawning, i) = Rank(spawning, j)
        BY <2>1, <2>2
    <2>4. ~(i < j) /\ ~(j < i)
        <3>1. i < j => Rank(spawning, i) < Rank(spawning, j)
            BY <1>5, RankGrows
        <3>2. j < i => Rank(spawning, j) < Rank(spawning, i)
            BY <1>5, RankGrows
        <3> QED BY <2>1, <2>3, <3>1, <3>2
    <2> QED BY <2>1, <2>4
<1>15. \A i \in DOMAIN after : i \notin spawning /\ after[i].id \notin {0, MaxIdA + 1} =>
          i \in DOMAIN cands /\ after[i].id = cands[i].id
    BY <1>1, <1>2, <1>4, <1>10
<1>16. ASSUME NEW i \in DOMAIN cands, cands[i].id # 0
       PROVE  /\ i \in DOMAIN after /\ i \notin spawning
              /\ after[i].id = cands[i].id /\ after[i].ch = cands[i].ch
              /\ \A d \in huntDec["A"] :
                    cands[i].id = d.id /\ cands[i].ch = d.ch /\ ~huntDual /\ d.quiet <= cands[i].lost
                    => Hunter!Quieter(d, sees, locks).quiet <= after[i].lost
    <2>1. i \in 1 .. m /\ all[i] = cands[i]
        BY <1>1, <1>2
    <2>2. /\ i \in DOMAIN after /\ i \notin spawning
          /\ after[i].id = cands[i].id /\ after[i].ch = cands[i].ch
        BY <1>4, <1>10, <1>16, <2>1
    <2>3. after[i].lost = Hunter!SeenAs(cands[i], sees, locks).lost /\ cands[i] \in Cand
        <3>1. seen[i] = Hunter!SeenAs(all[i], sees, locks)
            BY <1>2, <2>1 DEF SeenMade
        <3> QED BY <1>1, <1>2, <1>10, <2>1, <3>1
    <2>4. \A d \in huntDec["A"] : d \in HunterDec
        BY HunterConstants DEF HunterInv, HunterTypes
    <2>5. \A d \in huntDec["A"] :
             cands[i].id = d.id /\ cands[i].ch = d.ch /\ ~huntDual /\ d.quiet <= cands[i].lost
             => Hunter!Quieter(d, sees, locks).quiet <= after[i].lost
        BY <1>16, <2>3, <2>4, QuietIs
    <2> QED BY <2>2, <2>5
<1>17. QED BY <1>4, <1>11, <1>12, <1>13, <1>14, <1>15, <1>16 DEF ListOwn

\* The candidates that stay.
Staying(after) == {i \in DOMAIN after : ~Hunter!Ended(after[i]) /\ ~Hunter!GivenUp(after[i])}

LEMMA StayingIs ==
    ASSUME NEW after \in Seq(WideCand), NEW i \in DOMAIN after
    PROVE  /\ i \in Staying(after) => /\ after[i] \in Cand
                                      /\ after[i].id # 0 => after[i].lost < Lost
           /\ after[i].id \notin {0, MaxIdA + 1} /\ i \notin Staying(after) =>
                 after[i].id \in Hunter!Removed(after)
<1>1. /\ after[i].ch \in Channels /\ after[i].confirm \in Nat /\ after[i].lost \in Nat
      /\ after[i].id \in 0 .. MaxIdA + 1 /\ after[i] \in WideCand
    <2>1. after[i] \in WideCand
        OBVIOUS
    <2> QED BY <2>1 DEF WideCand
<1>2. ASSUME i \in Staying(after)
      PROVE  after[i] \in Cand /\ (after[i].id # 0 => after[i].lost < Lost)
    <2>1. ~Hunter!Ended(after[i]) /\ ~Hunter!GivenUp(after[i])
        BY <1>2 DEF Staying
    <2>2. after[i].id # MaxIdA + 1
        BY <2>1, HunterConstants DEF Hunter!GivenUp
    <2>3. after[i].id # 0 => after[i].lost < Lost
        BY <1>1, <2>1, <2>2, HunterConstants DEF Hunter!Ended
    <2>4. after[i].id \in 0 .. MaxIdA
        BY <1>1, <2>2, HunterConstants
    <2>5. after[i] \in Cand
        BY <1>1, <2>4 DEF WideCand, Cand
    <2> QED BY <2>3, <2>5
<1>3. ASSUME after[i].id \notin {0, MaxIdA + 1}, i \notin Staying(after)
      PROVE  after[i].id \in Hunter!Removed(after)
    <2>1. Hunter!Ended(after[i]) \/ Hunter!GivenUp(after[i])
        BY <1>3 DEF Staying
    <2>2. ~Hunter!GivenUp(after[i])
        BY <1>3, HunterConstants DEF Hunter!GivenUp
    <2> QED BY <2>1, <2>2 DEF Hunter!Removed
<1>4. QED BY <1>2, <1>3

\* The ids the list has are those it had and those just given.
LEMMA ListIds ==
    ASSUME NEW after, NEW spawning, NEW sees, NEW locks, ListOwn(after, spawning, sees, locks),
           NEW n \in Nat, n = Cardinality(spawning)
    PROVE  HunterInv =>
           /\ \A i \in spawning : after[i].id \in huntId["A"] .. huntId["A"] + n - 1
           /\ \A i \in DOMAIN after : i \notin spawning /\ after[i].id \notin {0, MaxIdA + 1} =>
                 after[i].id \in 1 .. huntId["A"] - 1
           /\ \A i, j \in DOMAIN after :
                 after[i].id = after[j].id /\ after[i].id \notin {0, MaxIdA + 1} => i = j
<1> SUFFICES ASSUME HunterInv
             PROVE  /\ \A i \in spawning : after[i].id \in huntId["A"] .. huntId["A"] + n - 1
                    /\ \A i \in DOMAIN after :
                          i \notin spawning /\ after[i].id \notin {0, MaxIdA + 1} =>
                          after[i].id \in 1 .. huntId["A"] - 1
                    /\ \A i, j \in DOMAIN after :
                          after[i].id = after[j].id /\ after[i].id \notin {0, MaxIdA + 1} => i = j
    OBVIOUS
<1>1. PICK N \in Nat \ {0} : N = huntId["A"]
    BY HunterConstants DEF HunterInv, HunterTypes
<1>2. /\ \A i, j \in DOMAIN cands : cands[i].id = cands[j].id /\ cands[i].id # 0 => i = j
      /\ \A i \in DOMAIN cands : cands[i].id < N
    BY <1>1 DEF HunterInv, CandsAreOwn
<1>3. \A i \in spawning : after[i].id \in N .. N + n - 1
    BY <1>1 DEF ListOwn
<1>4. ASSUME NEW i \in DOMAIN after, i \notin spawning, after[i].id \notin {0, MaxIdA + 1}
      PROVE  i \in DOMAIN cands /\ after[i].id = cands[i].id /\ after[i].id \in 1 .. N - 1
    <2>1. i \in DOMAIN cands /\ after[i].id = cands[i].id
        BY <1>4 DEF ListOwn
    <2>2. after[i].id \in Nat /\ after[i].id # 0
        <3>1. after[i] \in WideCand
            BY DEF ListOwn
        <3> QED BY <1>4, <3>1 DEF WideCand
    <2> QED BY <1>2, <2>1, <2>2
<1>5. ASSUME NEW i \in DOMAIN after, NEW j \in DOMAIN after,
             after[i].id = after[j].id, after[i].id \notin {0, MaxIdA + 1}
      PROVE  i = j
    <2>1. CASE i \in spawning /\ j \in spawning
        BY <1>5, <2>1 DEF ListOwn
    <2>2. CASE i \notin spawning /\ j \notin spawning
        BY <1>2, <1>4, <1>5, <2>2
    <2>3. CASE i \in spawning /\ j \notin spawning
        BY <1>3, <1>4, <1>5, <2>3
    <2>4. CASE i \notin spawning /\ j \in spawning
        BY <1>3, <1>4, <1>5, <2>4
    <2> QED BY <2>1, <2>2, <2>3, <2>4
<1>6. QED BY <1>1, <1>3, <1>4, <1>5

LEMMA CandsStay ==
    ASSUME NEW after, NEW spawning, NEW sees, NEW locks, ListOwn(after, spawning, sees, locks),
           NEW stay, stay = Selected(after, Staying(after)),
           NEW n \in Nat, n = Cardinality(spawning)
    PROVE  HunterInv =>
           /\ stay \in Seq(Cand)
           /\ \A i, j \in DOMAIN stay : stay[i].ch = stay[j].ch => i = j
           /\ \A i, j \in DOMAIN stay : stay[i].id = stay[j].id /\ stay[i].id # 0 => i = j
           /\ \A i \in DOMAIN stay : stay[i].id < huntId["A"] + n
           /\ \A i \in DOMAIN stay : stay[i].id # 0 => stay[i].lost < Lost
           /\ \A i \in DOMAIN stay : \E p \in Staying(after) : stay[i] = after[p]
           /\ \A p \in Staying(after) : \E i \in DOMAIN stay : stay[i] = after[p]
<1> SUFFICES ASSUME HunterInv
             PROVE  /\ stay \in Seq(Cand)
                    /\ \A i, j \in DOMAIN stay : stay[i].ch = stay[j].ch => i = j
                    /\ \A i, j \in DOMAIN stay :
                          stay[i].id = stay[j].id /\ stay[i].id # 0 => i = j
                    /\ \A i \in DOMAIN stay : stay[i].id < huntId["A"] + n
                    /\ \A i \in DOMAIN stay : stay[i].id # 0 => stay[i].lost < Lost
                    /\ \A i \in DOMAIN stay : \E p \in Staying(after) : stay[i] = after[p]
                    /\ \A p \in Staying(after) : \E i \in DOMAIN stay : stay[i] = after[p]
    OBVIOUS
<1>1. PICK N \in Nat \ {0} : N = huntId["A"]
    BY HunterConstants DEF HunterInv, HunterTypes
<1>2. after \in Seq(WideCand) /\ Staying(after) \in SUBSET (DOMAIN after)
    BY DEF ListOwn, Staying
<1>3. /\ stay \in Seq(WideCand)
      /\ \A i \in DOMAIN stay : \E p \in Staying(after) : stay[i] = after[p]
      /\ \A p \in Staying(after) : \E i \in DOMAIN stay : stay[i] = after[p]
    BY <1>2, SelectedAre
<1>4. \A i, j \in DOMAIN stay : \E p, q \in Staying(after) :
         stay[i] = after[p] /\ stay[j] = after[q] /\ (p = q => i = j)
    BY <1>2, SelectedOnce
<1>5. \A p \in Staying(after) : /\ p \in DOMAIN after /\ after[p] \in Cand
                                /\ after[p].id # 0 => after[p].lost < Lost
    BY <1>2, StayingIs
<1>6. \A i \in DOMAIN stay : stay[i] \in Cand /\ (stay[i].id # 0 => stay[i].lost < Lost)
    BY <1>3, <1>5
<1>7. stay \in Seq(Cand)
    <2>1. PICK m \in Nat : stay \in [1 .. m -> WideCand] /\ DOMAIN stay = 1 .. m
        BY <1>3
    <2>2. stay \in [1 .. m -> Cand]
        BY <1>6, <2>1
    <2> QED BY <2>2
<1>8. \A i, j \in DOMAIN stay : stay[i].ch = stay[j].ch => i = j
    <2>1. \A p, q \in DOMAIN after : after[p].ch = after[q].ch => p = q
        BY DEF ListOwn
    <2> QED BY <1>4, <1>5, <2>1
<1>9. \A i \in DOMAIN stay : stay[i].id \in 0 .. MaxIdA
    BY <1>6 DEF Cand
<1>10. \A i, j \in DOMAIN stay : stay[i].id = stay[j].id /\ stay[i].id # 0 => i = j
    <2> SUFFICES ASSUME NEW i \in DOMAIN stay, NEW j \in DOMAIN stay,
                        stay[i].id = stay[j].id, stay[i].id # 0
                 PROVE  i = j
        OBVIOUS
    <2>1. PICK p \in Staying(after), q \in Staying(after) :
              stay[i] = after[p] /\ stay[j] = after[q] /\ (p = q => i = j)
        BY <1>4
    <2>2. after[p].id \notin {0, MaxIdA + 1} /\ after[p].id = after[q].id
        BY <1>9, <2>1, HunterConstants
    <2>3. p = q
        BY <1>5, <2>2, ListIds
    <2> QED BY <2>1, <2>3
<1>11. ASSUME NEW i \in DOMAIN stay
       PROVE  stay[i].id < N + n
    <2>1. PICK p \in Staying(after) : stay[i] = after[p]
        BY <1>3
    <2>2. stay[i].id \in 0 .. MaxIdA
        BY <1>9
    <2>3. CASE p \in spawning
        <3>1. after[p].id \in N .. N + n - 1
            BY <1>1, <2>3, ListIds
        <3> QED BY <2>1, <3>1
    <2>4. CASE p \notin spawning /\ stay[i].id # 0
        <3>1. after[p].id \in 1 .. N - 1
            BY <1>1, <1>5, <2>1, <2>2, <2>4, ListIds, HunterConstants
        <3> QED BY <2>1, <3>1
    <2>5. CASE stay[i].id = 0
        BY <2>5
    <2> QED BY <2>3, <2>4, <2>5
<1>12. QED BY <1>1, <1>3, <1>6, <1>7, <1>8, <1>10, <1>11

LEMMA QuieterIs ==
    ASSUME NEW d \in HunterDec, NEW sees, NEW locks
    PROVE  LET q == Hunter!Quieter(d, sees, locks) IN
           q \in HunterDec /\ q.id = d.id /\ q.ch = d.ch /\ q.by = d.by
<1>1. d.quiet \in Nat
    BY DEF HunterDec
<1> PICK q : q = Hunter!Quieter(d, sees, locks)
    OBVIOUS
<1>2. PICK k \in Nat : q = [d EXCEPT !.quiet = k]
    <2>1. PICK k \in Nat : k = IF <<"A", d.id>> \in locks \/ d.ch \in sees.visible THEN 0
                              ELSE IF d.quiet <= Lost THEN d.quiet + 1 ELSE d.quiet
        BY <1>1
    <2>2. q = [d EXCEPT !.quiet = k]
        BY <2>1, Zenon DEF Hunter!Quieter
    <2> QED BY <2>2
<1>3. q \in HunterDec /\ q.id = d.id /\ q.ch = d.ch /\ q.by = d.by
    BY <1>2 DEF HunterDec
<1>4. QED BY <1>3

\* A decoder after a frame was there before it, or is that of a candidate just confirmed.
OldDec(d, sees, locks) ==
    \E e \in huntDec["A"] : /\ d = Hunter!Quieter(e, sees, locks)
                            /\ d.id = e.id /\ d.ch = e.ch /\ d.by = e.by
NewDec(d, after, spawning) ==
    \E i \in spawning : d.id = after[i].id /\ d.ch = after[i].ch /\ d.by = "hunter" /\ d.quiet = 0

DecsMade(now, after, spawning, sees, locks) ==
    \A d \in now : /\ d \in HunterDec /\ d.id \notin Hunter!Removed(after)
                   /\ OldDec(d, sees, locks) \/ NewDec(d, after, spawning)

LEMMA DecsAre ==
    ASSUME NEW after, NEW spawning, NEW sees, NEW locks, ListOwn(after, spawning, sees, locks)
    PROVE  HunterInv =>
           DecsMade({d \in {Hunter!Quieter(d, sees, locks) : d \in huntDec["A"]}
                         \cup {Hunter!Decoder(after[i].id, after[i].ch, "hunter") : i \in spawning} :
                      d.id \notin Hunter!Removed(after)}, after, spawning, sees, locks)
<1> SUFFICES ASSUME HunterInv,
                    NEW d \in {Hunter!Quieter(d, sees, locks) : d \in huntDec["A"]}
                         \cup {Hunter!Decoder(after[i].id, after[i].ch, "hunter") : i \in spawning}
             PROVE  d \in HunterDec /\ (OldDec(d, sees, locks) \/ NewDec(d, after, spawning))
    BY DEF DecsMade
<1>1. CASE \E e \in huntDec["A"] : d = Hunter!Quieter(e, sees, locks)
    <2>1. PICK e \in huntDec["A"] : d = Hunter!Quieter(e, sees, locks)
        BY <1>1
    <2>2. e \in HunterDec
        BY HunterConstants DEF HunterInv, HunterTypes
    <2> QED BY <2>1, <2>2, QuieterIs DEF OldDec
<1>2. CASE \E i \in spawning : d = Hunter!Decoder(after[i].id, after[i].ch, "hunter")
    <2>1. PICK i \in spawning : d = Hunter!Decoder(after[i].id, after[i].ch, "hunter")
        BY <1>2
    <2>2. after[i].id \in Nat /\ after[i].ch \in Channels
        <3>1. after[i] \in WideCand
            BY DEF ListOwn
        <3> QED BY <3>1 DEF WideCand
    <2> QED BY <2>1, <2>2 DEF Hunter!Decoder, HunterDec, NewDec
<1>3. QED BY <1>1, <1>2

LEMMA DecsOwn ==
    ASSUME NEW after, NEW spawning, NEW sees, NEW locks, ListOwn(after, spawning, sees, locks),
           NEW now, DecsMade(now, after, spawning, sees, locks),
           NEW n \in Nat, n = Cardinality(spawning)
    PROVE  HunterInv =>
           /\ \A d \in now : d.id \in 1 .. huntId["A"] + n - 1
           /\ \A d, e \in now : d.id = e.id => d = e
           /\ \A d, e \in now : d.by = "hunter" /\ e.id < d.id => e.ch # d.ch
<1> SUFFICES ASSUME HunterInv
             PROVE  /\ \A d \in now : d.id \in 1 .. huntId["A"] + n - 1
                    /\ \A d, e \in now : d.id = e.id => d = e
                    /\ \A d, e \in now : d.by = "hunter" /\ e.id < d.id => e.ch # d.ch
    OBVIOUS
<1>1. PICK N \in Nat \ {0} : N = huntId["A"]
    BY HunterConstants DEF HunterInv, HunterTypes
<1>2. /\ \A d \in huntDec["A"] : d.id \in 1 .. N - 1
      /\ \A d, e \in huntDec["A"] : d.id = e.id => d = e
      /\ \A d, e \in huntDec["A"] : d.by = "hunter" /\ e.id < d.id => e.ch # d.ch
    BY <1>1, HunterConstants DEF HunterInv, IdsAreOwn, OneForACall
<1>3. /\ \A i \in spawning : after[i].id \in N .. N + n - 1 /\ ~Hunter!HasDecoder(after[i].ch)
      /\ \A i, j \in spawning : after[i].id = after[j].id => i = j
      /\ \A i, j \in spawning : after[i].ch = after[j].ch => i = j
    BY <1>1 DEF ListOwn
<1>4. \A d \in now : /\ OldDec(d, sees, locks) \/ NewDec(d, after, spawning)
                     /\ OldDec(d, sees, locks) => d.id \in 1 .. N - 1
                     /\ NewDec(d, after, spawning) => d.id \in N .. N + n - 1
    BY <1>2, <1>3 DEF DecsMade, OldDec, NewDec
<1>5. \A d \in now : d.id \in 1 .. N + n - 1
    BY <1>4
<1>6. ASSUME NEW d \in now, NEW e \in now, d.id = e.id
      PROVE  d = e
    <2>1. d \in HunterDec /\ e \in HunterDec
        BY DEF DecsMade
    <2>2. CASE OldDec(d, sees, locks) /\ OldDec(e, sees, locks)
        BY <1>2, <1>6, <2>2 DEF OldDec
    <2>3. CASE NewDec(d, after, spawning) /\ NewDec(e, after, spawning)
        <3>1. d.ch = e.ch /\ d.by = e.by /\ d.quiet = e.quiet
            BY <1>3, <1>6, <2>3 DEF NewDec
        <3> QED BY <1>6, <2>1, <3>1 DEF HunterDec
    <2> QED BY <1>4, <1>6, <2>2, <2>3
<1>7. ASSUME NEW d \in now, NEW e \in now, d.by = "hunter", e.id < d.id
      PROVE  e.ch # d.ch
    <2>1. CASE OldDec(d, sees, locks)
        <3>1. OldDec(e, sees, locks)
            BY <1>4, <1>7, <2>1
        <3> QED BY <1>2, <1>7, <2>1, <3>1 DEF OldDec
    <2>2. CASE NewDec(d, after, spawning) /\ OldDec(e, sees, locks)
        <3>1. PICK i \in spawning : d.ch = after[i].ch
            BY <2>2 DEF NewDec
        <3>2. PICK f \in huntDec["A"] : e.ch = f.ch
            BY <2>2 DEF OldDec
        <3>3. ~Hunter!HasDecoder(after[i].ch)
            BY <1>3
        <3>4. f.ch # after[i].ch
            BY <3>3, HunterConstants DEF Hunter!HasDecoder
        <3> QED BY <3>1, <3>2, <3>4
    <2>3. CASE NewDec(d, after, spawning) /\ NewDec(e, after, spawning)
        <3>1. PICK i \in spawning : d.ch = after[i].ch /\ d.id = after[i].id
            BY <2>3 DEF NewDec
        <3>2. PICK j \in spawning : e.ch = after[j].ch /\ e.id = after[j].id
            BY <2>3 DEF NewDec
        <3>3. i # j
            BY <1>4, <1>7, <3>1, <3>2
        <3> QED BY <1>3, <3>1, <3>2, <3>3
    <2> QED BY <1>4, <2>1, <2>2, <2>3
<1>8. QED BY <1>1, <1>5, <1>6, <1>7

LEMMA CandsOfDecs ==
    ASSUME NEW after, NEW spawning, NEW sees, NEW locks, ListOwn(after, spawning, sees, locks),
           NEW now, DecsMade(now, after, spawning, sees, locks),
           NEW stay, stay = Selected(after, Staying(after)),
           NEW n \in Nat, n = Cardinality(spawning), huntId["A"] + n <= MaxIdA + 1
    PROVE  HunterInv =>
           \A d \in now :
              /\ d.by = "hunter" => \E i \in DOMAIN stay :
                    /\ stay[i].id = d.id /\ stay[i].ch = d.ch
                    /\ ~huntDual => d.quiet <= stay[i].lost
              /\ d.by = "user" => \A i \in DOMAIN stay : stay[i].id # d.id
<1> SUFFICES ASSUME HunterInv, NEW d \in now
             PROVE  /\ d.by = "hunter" => \E i \in DOMAIN stay :
                          /\ stay[i].id = d.id /\ stay[i].ch = d.ch
                          /\ ~huntDual => d.quiet <= stay[i].lost
                    /\ d.by = "user" => \A i \in DOMAIN stay : stay[i].id # d.id
    OBVIOUS
<1>1. PICK N \in Nat \ {0} : N = huntId["A"]
    BY HunterConstants DEF HunterInv, HunterTypes
<1>2. /\ \A e \in huntDec["A"] : e.id \in 1 .. N - 1
      /\ DecodersHaveCands
    BY <1>1, HunterConstants DEF HunterInv, IdsAreOwn
<1>3. d \in HunterDec /\ d.id \notin Hunter!Removed(after)
    BY DEF DecsMade
<1>4. after \in Seq(WideCand) /\ spawning \in SUBSET (DOMAIN after)
    BY DEF ListOwn
<1>5. /\ \A i \in DOMAIN stay : \E p \in Staying(after) : stay[i] = after[p]
      /\ \A p \in Staying(after) : \E i \in DOMAIN stay : stay[i] = after[p]
    BY CandsStay
<1>6. \A i \in spawning : after[i].id \in N .. N + n - 1
    BY <1>1, ListIds
<1>7. ASSUME NEW i \in DOMAIN after, after[i].id = d.id, d.id \notin {0, MaxIdA + 1}
      PROVE  \E j \in DOMAIN stay : stay[j] = after[i]
    <2>1. i \in Staying(after)
        BY <1>3, <1>4, <1>7, StayingIs
    <2> QED BY <1>5, <2>1
<1>8. CASE OldDec(d, sees, locks)
    <2>1. PICK e \in huntDec["A"] : /\ d = Hunter!Quieter(e, sees, locks)
                                    /\ d.id = e.id /\ d.ch = e.ch /\ d.by = e.by
        BY <1>8 DEF OldDec
    <2>2. d.id \in 1 .. N - 1 /\ d.id \notin {0, MaxIdA + 1}
        BY <1>1, <1>2, <2>1, HunterConstants
    <2>3. ASSUME d.by = "hunter"
          PROVE  \E i \in DOMAIN stay :
                    /\ stay[i].id = d.id /\ stay[i].ch = d.ch
                    /\ ~huntDual => d.quiet <= stay[i].lost
        <3>1. PICK i \in DOMAIN cands : /\ cands[i].id = e.id /\ cands[i].ch = e.ch
                                        /\ ~huntDual => e.quiet <= cands[i].lost
            BY <1>2, <2>1, <2>3 DEF DecodersHaveCands
        <3>2. /\ i \in DOMAIN after /\ after[i].id = d.id /\ after[i].ch = d.ch
              /\ ~huntDual => d.quiet <= after[i].lost
            BY <2>1, <2>2, <3>1 DEF ListOwn
        <3>3. PICK j \in DOMAIN stay : stay[j] = after[i]
            BY <1>7, <2>2, <3>2
        <3> QED BY <3>2, <3>3
    <2>4. ASSUME d.by = "user", NEW i \in DOMAIN stay, stay[i].id = d.id
          PROVE  FALSE
        <3>1. PICK p \in Staying(after) : stay[i] = after[p]
            BY <1>5
        <3>2. p \in DOMAIN after
            BY DEF Staying
        <3>3. p \notin spawning
            BY <1>6, <2>2, <2>4, <3>1
        <3>4. p \in DOMAIN cands /\ after[p].id = cands[p].id
            BY <2>2, <2>4, <3>1, <3>2, <3>3 DEF ListOwn
        <3>5. e.by = "user" /\ cands[p].id = e.id
            BY <2>1, <2>4, <3>1, <3>4
        <3> QED BY <1>2, <3>4, <3>5 DEF DecodersHaveCands
    <2> QED BY <2>3, <2>4
<1>9. CASE NewDec(d, after, spawning)
    <2>1. PICK i \in spawning : d.id = after[i].id /\ d.ch = after[i].ch /\ d.by = "hunter"
                                /\ d.quiet = 0
        BY <1>9 DEF NewDec
    <2>2. d.id \in N .. N + n - 1 /\ d.id \notin {0, MaxIdA + 1} /\ i \in DOMAIN after
        BY <1>1, <1>4, <1>6, <2>1, HunterConstants
    <2>3. PICK j \in DOMAIN stay : stay[j] = after[i]
        BY <1>7, <2>1, <2>2
    <2>4. after[i].lost \in Nat
        <3>1. after[i] \in WideCand
            BY <1>4, <2>2
        <3> QED BY <3>1 DEF WideCand
    <2> QED BY <2>1, <2>3, <2>4
<1>10. QED BY <1>8, <1>9 DEF DecsMade

LEMMA HuntStep ==
    ASSUME NEW sees \in Hunter!Spectra, NEW locks
    PROVE  HunterInv /\ Hunter!Hunt(sees, locks) => HunterInv'
<1> SUFFICES ASSUME HunterInv, Hunter!Hunt(sees, locks) PROVE HunterInv'
    OBVIOUS
<1>all. PICK all : all = Hunter!WithNew(sees.peaks)
    OBVIOUS
<1>seen. PICK seen : seen = [i \in DOMAIN all |-> Hunter!SeenAs(all[i], sees, locks)]
    OBVIOUS
<1>spawning. PICK spawning : spawning = {i \in DOMAIN seen : Hunter!Spawns(seen[i])}
    OBVIOUS
<1>after. PICK after : after = [i \in DOMAIN seen |->
              Hunter!Spawned(seen[i], huntId["A"] + Hunter!Rank(spawning, i) - 1)]
    OBVIOUS
<1>1. /\ huntId["A"] + Hunter!Cardinality(spawning) <= MaxIdA + 1
      /\ huntDec' = [huntDec EXCEPT !["A"] =
              {d \in {Hunter!Quieter(d, sees, locks) : d \in huntDec["A"]}
                     \cup {Hunter!Decoder(after[i].id, after[i].ch, "hunter") : i \in spawning} :
                  d.id \notin Hunter!Removed(after)}]
      /\ huntId' = [huntId EXCEPT !["A"] = huntId["A"] + Hunter!Cardinality(spawning)]
      /\ cands' = Hunter!Selected(after, {i \in DOMAIN after : ~Hunter!Ended(after[i])
                                                               /\ ~Hunter!GivenUp(after[i])})
      /\ huntDual' = huntDual
    BY <1>all, <1>seen, <1>spawning, <1>after, ZenonT(40) DEF Hunter!Hunt
<1>2. AllOwn(all)
    <2>1. sees.peaks \in SUBSET Channels
        BY DEF Hunter!Spectra
    <2> QED BY <1>all, <2>1, WithNewIs
<1>3. SeenMade(seen, all, sees, locks) /\ SpawningMade(spawning, seen)
    BY <1>seen, <1>spawning DEF SeenMade, SpawningMade
<1>4. ListMade(after, seen, spawning)
    BY <1>after, HunterOrdered DEF ListMade
<1>5. /\ huntId["A"] + Cardinality(spawning) <= MaxIdA + 1
      /\ huntId' = [huntId EXCEPT !["A"] = huntId["A"] + Cardinality(spawning)]
    BY <1>1, HunterOrdered
<1>6. ListOwn(after, spawning, sees, locks)
    BY <1>2, <1>3, <1>4, <1>5, ListIs
<1>7. PICK n \in Nat : n = Cardinality(spawning)
    <2>1. spawning \in SUBSET (DOMAIN after) /\ after \in Seq(WideCand)
        BY <1>6 DEF ListOwn
    <2>2. DOMAIN after = 1 .. Len(after) /\ Len(after) \in Nat
        BY <2>1
    <2>3. IsFiniteSet(DOMAIN after)
        BY <2>2, FS_Interval
    <2> QED BY <2>1, <2>3, FS_Subset, FS_CardinalityType
<1>8. PICK now : now = {d \in {Hunter!Quieter(d, sees, locks) : d \in huntDec["A"]}
                         \cup {Hunter!Decoder(after[i].id, after[i].ch, "hunter") : i \in spawning} :
                      d.id \notin Hunter!Removed(after)}
    OBVIOUS
<1>9. DecsMade(now, after, spawning, sees, locks)
    BY <1>6, <1>8, DecsAre
<1>10. PICK stay : stay = Selected(after, Staying(after))
    OBVIOUS
<1>11. cands' = stay
    BY <1>1, <1>10, HunterOrdered DEF Staying
<1>12. PICK N \in Nat \ {0} : N = huntId["A"]
    BY HunterConstants DEF HunterInv, HunterTypes
<1>13. /\ \A r \in Hunter!Receivers : huntDec[r] \in SUBSET HunterDec /\ huntId[r] \in Nat \ {0}
       /\ huntDec \in [Hunter!Receivers -> SUBSET HunterDec]
       /\ huntId \in [Hunter!Receivers -> Nat \ {0}] /\ huntDual \in BOOLEAN
       /\ \A r \in Hunter!Receivers : \A d \in huntDec[r] : d.id \in 1 .. huntId[r] - 1
    BY DEF HunterInv, HunterTypes, IdsAreOwn
<1>14. N + n <= MaxIdA + 1 /\ huntId' = [huntId EXCEPT !["A"] = N + n]
    BY <1>5, <1>7, <1>12
<1>15. /\ huntId' \in [Hunter!Receivers -> Nat \ {0}] /\ huntId'["A"] = N + n
       /\ \A r \in Hunter!Receivers : r # "A" => huntId'[r] = huntId[r]
    <2>1. N + n \in Nat \ {0}
        BY <1>7, <1>12
    <2> QED BY <1>13, <1>14, <2>1, HunterConstants
<1>16. huntDec' = [huntDec EXCEPT !["A"] = now]
    BY <1>1, <1>8
<1>17. /\ huntDec' \in [Hunter!Receivers -> SUBSET HunterDec] /\ huntDec'["A"] = now
       /\ \A r \in Hunter!Receivers : r # "A" => huntDec'[r] = huntDec[r]
    <2>1. now \in SUBSET HunterDec
        BY <1>9 DEF DecsMade
    <2> QED BY <1>13, <1>16, <2>1, HunterConstants
<1>18. /\ stay \in Seq(Cand)
       /\ \A i, j \in DOMAIN stay : stay[i].ch = stay[j].ch => i = j
       /\ \A i, j \in DOMAIN stay : stay[i].id = stay[j].id /\ stay[i].id # 0 => i = j
       /\ \A i \in DOMAIN stay : stay[i].id < N + n
       /\ \A i \in DOMAIN stay : stay[i].id # 0 => stay[i].lost < Lost
    BY <1>6, <1>7, <1>10, <1>12, CandsStay
<1>19. /\ \A d \in now : d.id \in 1 .. N + n - 1
       /\ \A d, e \in now : d.id = e.id => d = e
       /\ \A d, e \in now : d.by = "hunter" /\ e.id < d.id => e.ch # d.ch
    BY <1>6, <1>7, <1>9, <1>12, DecsOwn
<1>20. \A d \in now :
          /\ d.by = "hunter" => \E i \in DOMAIN stay :
                /\ stay[i].id = d.id /\ stay[i].ch = d.ch
                /\ ~huntDual => d.quiet <= stay[i].lost
          /\ d.by = "user" => \A i \in DOMAIN stay : stay[i].id # d.id
    BY <1>6, <1>7, <1>9, <1>10, <1>12, <1>14, CandsOfDecs
<1>21. HunterTypes'
    BY <1>1, <1>11, <1>13, <1>14, <1>15, <1>17, <1>18 DEF HunterTypes
<1>22. IdsAreOwn'
    <2>1. \A r \in Hunter!Receivers : \A d \in huntDec'[r] : d.id \in 1 .. huntId'[r] - 1
        <3> TAKE r \in Hunter!Receivers
        <3>1. CASE r = "A"
            BY <1>15, <1>17, <1>19, <3>1
        <3>2. CASE r # "A"
            BY <1>13, <1>15, <1>17, <3>2
        <3> QED BY <3>1, <3>2
    <2> QED BY <1>17, <1>19, <2>1 DEF IdsAreOwn
<1>23. CandsAreOwn'
    BY <1>11, <1>15, <1>18 DEF CandsAreOwn
<1>24. DecodersHaveCands'
    BY <1>1, <1>11, <1>17, <1>20, ZenonT(40) DEF DecodersHaveCands
<1>25. OneForACall'
    BY <1>17, <1>19 DEF OneForACall
<1>26. QED BY <1>21, <1>22, <1>23, <1>24, <1>25 DEF HunterInv

-----------------------------------------------------------------------------
(* The others, who change the decoders behind the hunter's back.           *)

LEMMA RemoveDecoderKeeps ==
    ASSUME NEW r \in Hunter!Receivers, NEW d \in huntDec[r]
    PROVE  HunterInv /\ Hunter!RemoveDecoder(r, d) => HunterInv'
<1> SUFFICES ASSUME HunterInv, Hunter!RemoveDecoder(r, d) PROVE HunterInv'
    OBVIOUS
<1>1. /\ huntDec' = [huntDec EXCEPT ![r] = huntDec[r] \ {d}]
      /\ UNCHANGED <<huntDual, huntId, cands>>
    BY DEF Hunter!RemoveDecoder
<1>2. HunterTypes
    BY DEF HunterInv
<1>3. /\ huntDec' \in [Hunter!Receivers -> SUBSET HunterDec]
      /\ \A q \in Hunter!Receivers : huntDec'[q] \subseteq huntDec[q]
    BY <1>1, <1>2 DEF HunterTypes
<1>4. HunterTypes' /\ CandsAreOwn'
    BY <1>1, <1>2, <1>3 DEF HunterInv, HunterTypes, CandsAreOwn
<1>5. IdsAreOwn' /\ DecodersHaveCands' /\ OneForACall'
    BY <1>1, <1>3, HunterConstants DEF HunterInv, IdsAreOwn, DecodersHaveCands, OneForACall
<1>6. QED BY <1>4, <1>5 DEF HunterInv

LEMMA AddDecoderKeeps ==
    ASSUME NEW r \in Hunter!Receivers, NEW ch \in Channels
    PROVE  HunterInv /\ Hunter!AddDecoder(r, ch) => HunterInv'
<1> SUFFICES ASSUME HunterInv, Hunter!AddDecoder(r, ch) PROVE HunterInv'
    OBVIOUS
<1>1. HunterTypes
    BY DEF HunterInv
<1>2. PICK N \in Nat \ {0} : N = huntId[r]
    BY <1>1 DEF HunterTypes
<1>3. PICK d \in HunterDec :
          d = Hunter!Decoder(N, ch, "user") /\ d.id = N /\ d.by = "user"
    <2>1. PICK d : d = Hunter!Decoder(N, ch, "user")
        OBVIOUS
    <2>2. d \in HunterDec /\ d.id = N /\ d.by = "user"
        BY <2>1 DEF Hunter!Decoder, HunterDec
    <2> QED BY <2>1, <2>2
<1>4. /\ huntDec' = [huntDec EXCEPT ![r] = huntDec[r] \cup {d}]
      /\ huntId' = [huntId EXCEPT ![r] = N + 1]
      /\ UNCHANGED <<huntDual, cands>> /\ N <= Hunter!MaxId(r)
    BY <1>2, <1>3 DEF Hunter!AddDecoder
<1>5. /\ huntDec' \in [Hunter!Receivers -> SUBSET HunterDec]
      /\ huntId' \in [Hunter!Receivers -> Nat \ {0}]
      /\ huntDec'[r] = huntDec[r] \cup {d} /\ huntId'[r] = N + 1
      /\ \A q \in Hunter!Receivers : q # r => huntDec'[q] = huntDec[q] /\ huntId'[q] = huntId[q]
    BY <1>1, <1>4 DEF HunterTypes
<1>6. huntId'["A"] <= MaxIdA + 1 /\ huntId["A"] <= huntId'["A"]
      /\ huntId["A"] \in Nat /\ huntId'["A"] \in Nat
    <2>1. CASE r = "A"
        BY <1>2, <1>4, <1>5, <2>1, HunterConstants DEF Hunter!MaxId
    <2>2. CASE r # "A"
        BY <1>1, <1>5, <2>2, HunterConstants DEF HunterTypes
    <2> QED BY <2>1, <2>2
<1>7. HunterTypes'
    BY <1>1, <1>4, <1>5, <1>6 DEF HunterTypes
<1>8. \A q \in Hunter!Receivers : \A e \in huntDec[q] : e.id \in 1 .. huntId[q] - 1
    BY DEF HunterInv, IdsAreOwn
<1>9. \A q \in Hunter!Receivers : \A e \in huntDec'[q] : e.id \in 1 .. huntId'[q] - 1
    <2> TAKE q \in Hunter!Receivers
    <2>1. CASE q = r
        BY <1>2, <1>3, <1>5, <1>8, <2>1
    <2>2. CASE q # r
        BY <1>5, <1>8, <2>2
    <2> QED BY <2>1, <2>2
<1>10. \A e \in huntDec'["A"] :
          \/ e \in huntDec["A"] /\ (r = "A" => e.id \in 1 .. N - 1)
          \/ e = d /\ r = "A"
    BY <1>2, <1>5, <1>8, HunterConstants
<1>11. IdsAreOwn'
    <2>1. \A e, f \in huntDec["A"] : e.id = f.id => e = f
        BY DEF HunterInv, IdsAreOwn
    <2>2. \A e, f \in huntDec'["A"] : e.id = f.id => e = f
        BY <1>3, <1>10, <2>1
    <2> QED BY <1>9, <2>2 DEF IdsAreOwn
<1>12. CandsAreOwn'
    <2>1. \A i \in DOMAIN cands : cands[i].id \in Nat
        <3>1. \A i \in DOMAIN cands : cands[i] \in Cand
            BY <1>1 DEF HunterTypes
        <3> QED BY <3>1 DEF Cand
    <2>2. \A i \in DOMAIN cands : cands[i].id < huntId'["A"]
        BY <1>6, <2>1 DEF HunterInv, CandsAreOwn
    <2> QED BY <1>4, <2>2 DEF HunterInv, CandsAreOwn
<1>13. DecodersHaveCands'
    <2>1. r = "A" => \A i \in DOMAIN cands : cands[i].id # d.id
        BY <1>2, <1>3 DEF HunterInv, CandsAreOwn
    <2> QED BY <1>3, <1>4, <1>10, <2>1 DEF HunterInv, DecodersHaveCands
<1>14. OneForACall'
    BY <1>3, <1>10 DEF HunterInv, OneForACall
<1>15. QED BY <1>7, <1>11, <1>12, <1>13, <1>14 DEF HunterInv

LEMMA RetuneKeeps ==
    ASSUME NEW r \in Hunter!Receivers, NEW again \in SUBSET huntDec[r]
    PROVE  HunterInv /\ Hunter!Retune(r, again) => HunterInv'
<1> SUFFICES ASSUME HunterInv, Hunter!Retune(r, again) PROVE HunterInv'
    OBVIOUS
<1>1. HunterTypes
    BY DEF HunterInv
<1>2. PICK N \in Nat \ {0} : N = huntId[r]
    BY <1>1 DEF HunterTypes
<1>3. PICK ids : ids = {d.id : d \in again}
    OBVIOUS
<1>4. PICK again2 : again2 = {Hunter!Decoder(N + Rank(ids, d.id) - 1, d.ch, "user") : d \in again}
    OBVIOUS
<1>5. /\ huntDec' = [huntDec EXCEPT ![r] = again2]
      /\ huntId' = [huntId EXCEPT ![r] = N + Cardinality(ids)]
      /\ UNCHANGED <<huntDual, cands>> /\ N + Cardinality(ids) <= MaxIdA + 1
    BY <1>2, <1>3, <1>4, HunterOrdered DEF Hunter!Retune
<1>6. \A q \in Hunter!Receivers : \A e \in huntDec[q] : e.id \in 1 .. huntId[q] - 1
    BY DEF HunterInv, IdsAreOwn
<1>7. ids \in SUBSET Nat /\ IsFiniteSet(ids)
    <2>1. ids \in SUBSET (1 .. N - 1)
        BY <1>2, <1>3, <1>6
    <2>2. IsFiniteSet(1 .. N - 1)
        BY FS_Interval
    <2> QED BY <2>1, <2>2, FS_Subset
<1>8. PICK n \in Nat : n = Cardinality(ids)
    BY <1>7, FS_CardinalityType
<1>9. \A d \in again : d.id \in ids /\ Rank(ids, d.id) \in 1 .. n
    BY <1>3, <1>7, <1>8, RankType
<1>10. \A e \in again2 : /\ e \in HunterDec /\ e.id \in N .. N + n - 1 /\ e.by = "user"
                         /\ \E d \in again : e.id = N + Rank(ids, d.id) - 1 /\ e.ch = d.ch
                                             /\ e.quiet = 0
    <2> TAKE e \in again2
    <2>1. PICK d \in again : e = Hunter!Decoder(N + Rank(ids, d.id) - 1, d.ch, "user")
        BY <1>4
    <2>2. PICK k \in 1 .. n : k = Rank(ids, d.id)
        BY <1>9
    <2>3. d.ch \in Channels
        <3>1. d \in HunterDec
            BY <1>1 DEF HunterTypes
        <3> QED BY <3>1 DEF HunterDec
    <2>4. N + k - 1 \in Nat /\ N + k - 1 \in N .. N + n - 1
        BY <2>2
    <2> QED BY <2>1, <2>2, <2>3, <2>4 DEF Hunter!Decoder, HunterDec
<1>11. /\ huntDec' \in [Hunter!Receivers -> SUBSET HunterDec]
       /\ huntId' \in [Hunter!Receivers -> Nat \ {0}]
       /\ huntDec'[r] = again2 /\ huntId'[r] = N + n
       /\ \A q \in Hunter!Receivers : q # r => huntDec'[q] = huntDec[q] /\ huntId'[q] = huntId[q]
    <2>1. again2 \in SUBSET HunterDec
        BY <1>10
    <2>2. N + n \in Nat \ {0}
        OBVIOUS
    <2> QED BY <1>1, <1>5, <1>8, <2>1, <2>2 DEF HunterTypes
<1>12. huntId'["A"] <= MaxIdA + 1 /\ huntId["A"] <= huntId'["A"]
       /\ huntId["A"] \in Nat /\ huntId'["A"] \in Nat
    <2>1. CASE r = "A"
        BY <1>2, <1>5, <1>8, <1>11, <2>1, HunterConstants
    <2>2. CASE r # "A"
        BY <1>1, <1>11, <2>2, HunterConstants DEF HunterTypes
    <2> QED BY <2>1, <2>2
<1>13. HunterTypes'
    BY <1>1, <1>5, <1>11, <1>12 DEF HunterTypes
<1>14. \A q \in Hunter!Receivers : \A e \in huntDec'[q] : e.id \in 1 .. huntId'[q] - 1
    <2> TAKE q \in Hunter!Receivers
    <2>1. CASE q = r
        BY <1>10, <1>11, <2>1
    <2>2. CASE q # r
        BY <1>6, <1>11, <2>2
    <2> QED BY <2>1, <2>2
<1>15. IdsAreOwn'
    <2>1. ASSUME r = "A", NEW e \in again2, NEW f \in again2, e.id = f.id
          PROVE  e = f
        <3>1. PICK d \in again : e.id = N + Rank(ids, d.id) - 1 /\ e.ch = d.ch /\ e.quiet = 0
            BY <1>10
        <3>2. PICK c \in again : f.id = N + Rank(ids, c.id) - 1 /\ f.ch = c.ch /\ f.quiet = 0
            BY <1>10
        <3>3. Rank(ids, d.id) = Rank(ids, c.id)
            <4>1. PICK k \in 1 .. n, l \in 1 .. n : k = Rank(ids, d.id) /\ l = Rank(ids, c.id)
                BY <1>9
            <4>2. N + k - 1 = N + l - 1
                BY <2>1, <3>1, <3>2, <4>1
            <4>3. k = l
                BY <4>2
            <4> QED BY <4>1, <4>3
        <3>4. d.id \in ids /\ c.id \in ids /\ d.id \in Nat /\ c.id \in Nat
            BY <1>7, <1>9
        <3>5. ~(d.id < c.id) /\ ~(c.id < d.id)
            <4>1. Rank(ids, d.id) \in Nat
                BY <1>9
            <4>2. d.id < c.id => Rank(ids, d.id) < Rank(ids, c.id)
                BY <1>7, <3>4, RankGrows
            <4>3. c.id < d.id => Rank(ids, c.id) < Rank(ids, d.id)
                BY <1>7, <3>4, RankGrows
            <4> QED BY <3>3, <4>1, <4>2, <4>3
        <3>6. d = c
            <4>1. d.id = c.id
                BY <3>4, <3>5
            <4> QED BY <2>1, <4>1 DEF HunterInv, IdsAreOwn
        <3>7. e \in HunterDec /\ f \in HunterDec /\ e.by = "user" /\ f.by = "user"
            BY <1>10
        <3> QED BY <2>1, <3>1, <3>2, <3>6, <3>7 DEF HunterDec
    <2>2. \A e, f \in huntDec'["A"] : e.id = f.id => e = f
        <3>1. CASE r = "A"
            BY <1>11, <2>1, <3>1
        <3>2. CASE r # "A"
            BY <1>11, <3>2, HunterConstants DEF HunterInv, IdsAreOwn
        <3> QED BY <3>1, <3>2
    <2> QED BY <1>14, <2>2 DEF IdsAreOwn
<1>16. \A i \in DOMAIN cands : cands[i].id \in Nat /\ cands[i].id < huntId["A"]
    <2>1. \A i \in DOMAIN cands : cands[i] \in Cand
        BY <1>1 DEF HunterTypes
    <2> QED BY <2>1 DEF Cand, HunterInv, CandsAreOwn
<1>17. CandsAreOwn'
    <2>1. \A i \in DOMAIN cands : cands[i].id < huntId'["A"]
        BY <1>12, <1>16
    <2> QED BY <1>5, <2>1 DEF HunterInv, CandsAreOwn
<1>18. CASE r = "A"
    <2>1. \A e \in huntDec'["A"] : e.by = "user" /\ \A i \in DOMAIN cands : cands[i].id # e.id
        BY <1>2, <1>10, <1>11, <1>16, <1>18
    <2>2. DecodersHaveCands' /\ OneForACall'
        BY <1>5, <2>1 DEF DecodersHaveCands, OneForACall
    <2> QED BY <1>13, <1>15, <1>17, <2>2 DEF HunterInv
<1>19. CASE r # "A"
    <2>1. huntDec'["A"] = huntDec["A"]
        BY <1>11, <1>19, HunterConstants
    <2>2. DecodersHaveCands' /\ OneForACall'
        BY <1>5, <2>1 DEF HunterInv, DecodersHaveCands, OneForACall
    <2> QED BY <1>13, <1>15, <1>17, <2>2 DEF HunterInv
<1>20. QED BY <1>18, <1>19

LEMMA HunterStep == HunterInv /\ Hunter!Next => HunterInv'
<1> SUFFICES ASSUME HunterInv, Hunter!Next PROVE HunterInv'
    OBVIOUS
<1>1. CASE \E sees \in Hunter!Spectra : \E locks \in Hunter!Locks : Hunter!Hunt(sees, locks)
    BY <1>1, HuntStep
<1>2. CASE Hunter!Settle \/ Hunter!ToggleHunter
    <2>1. UNCHANGED <<huntDual, huntDec, huntId, cands>>
        BY <1>2, Zenon DEF Hunter!Settle, Hunter!ToggleHunter
    <2> QED BY <2>1 DEF HunterInv, HunterTypes, IdsAreOwn, CandsAreOwn, DecodersHaveCands,
               OneForACall
<1>3. CASE \E r \in Hunter!Receivers, ch \in Channels : Hunter!AddDecoder(r, ch)
    BY <1>3, AddDecoderKeeps
<1>4. CASE \E r \in Hunter!Receivers : \E d \in huntDec[r] : Hunter!RemoveDecoder(r, d)
    BY <1>4, RemoveDecoderKeeps
<1>5. CASE \E r \in Hunter!Receivers : \E again \in SUBSET huntDec[r] : Hunter!Retune(r, again)
    BY <1>5, RetuneKeeps
<1>6. QED BY <1>1, <1>2, <1>3, <1>4, <1>5, Zenon DEF Hunter!Next

LEMMA HunterKeeps == HunterInv => Hunter!HunterKeepsToItsOwn
<1> SUFFICES ASSUME HunterInv PROVE Hunter!HunterKeepsToItsOwn
    OBVIOUS
<1>1. ASSUME NEW d \in huntDec["A"]
      PROVE  Cardinality({i \in DOMAIN cands : cands[i].id = d.id})
                = IF d.by = "hunter" THEN 1 ELSE 0
    <2>1. d.id # 0 /\ d.by \in {"user", "hunter"}
        <3>1. d \in HunterDec /\ d.id \in 1 .. huntId["A"] - 1 /\ huntId["A"] \in Nat
            BY HunterConstants DEF HunterInv, HunterTypes, IdsAreOwn
        <3> QED BY <3>1 DEF HunterDec
    <2>2. CASE d.by = "hunter"
        <3>1. PICK i \in DOMAIN cands : cands[i].id = d.id
            BY <2>2 DEF HunterInv, DecodersHaveCands
        <3>2. {j \in DOMAIN cands : cands[j].id = d.id} = {i}
            BY <2>1, <3>1 DEF HunterInv, CandsAreOwn
        <3> QED BY <2>2, <3>2, FS_Singleton
    <2>3. CASE d.by = "user"
        <3>1. {j \in DOMAIN cands : cands[j].id = d.id} = {}
            BY <2>3 DEF HunterInv, DecodersHaveCands
        <3> QED BY <2>3, <3>1, FS_EmptySet
    <2> QED BY <2>1, <2>2, <2>3
<1>2. Hunter!HunterTracksItsOwn
    BY <1>1, HunterOrdered DEF Hunter!HunterTracksItsOwn
<1>3. ASSUME NEW d \in huntDec["A"], d.by = "hunter", ~huntDual
      PROVE  d.quiet < Lost
    <2>1. PICK i \in DOMAIN cands : cands[i].id = d.id /\ d.quiet <= cands[i].lost
        BY <1>3 DEF HunterInv, DecodersHaveCands
    <2>2. d \in HunterDec /\ d.id \in 1 .. huntId["A"] - 1 /\ huntId["A"] \in Nat
          /\ cands[i] \in Cand
        BY HunterConstants DEF HunterInv, HunterTypes, IdsAreOwn
    <2>3. cands[i].lost < Lost
        BY <2>1, <2>2 DEF HunterInv, CandsAreOwn
    <2> QED BY <2>1, <2>2, <2>3, HunterConstants DEF HunterDec, Cand
<1>4. Hunter!OneDecoderWhileHeard
    BY <1>3 DEF HunterInv, OneForACall, Hunter!OneDecoderWhileHeard
<1>5. QED BY <1>2, <1>4 DEF Hunter!HunterKeepsToItsOwn

HunterPart == part = "hunter" => HunterInv

\* Whatever tunings, follows, restarts and the user do to the decoders behind its back, each
\* decoder of the hunter has the one candidate that will take it away, no candidate names
\* somebody else's, a call gets no second decoder, and a silent one is not kept.
THEOREM HunterKeepsItsOwn == SumSpec => []HunterKeepsToItsOwn
<1>1. SumInit => HunterPart
    BY HunterInit DEF SumInit, HunterPart
<1>2. HunterPart /\ [SumNext]_sumVars => HunterPart'
    <2> SUFFICES ASSUME HunterPart, [SumNext]_sumVars, part' = "hunter"
                 PROVE  HunterInv'
        BY DEF HunterPart
    <2>1. CASE UNCHANGED sumVars
        BY <2>1 DEF sumVars, hunter, HunterPart, HunterInv, HunterTypes, IdsAreOwn, CandsAreOwn,
           DecodersHaveCands, OneForACall
    <2>2. CASE SumNext
        <3>1. part = "hunter" /\ Hunter!Next
            BY <2>2 DEF SumNext
        <3> QED BY <3>1, HunterStep DEF HunterPart
    <2> QED BY <2>1, <2>2
<1>3. HunterPart => HunterKeepsToItsOwn
    BY HunterKeeps DEF HunterPart, HunterKeepsToItsOwn
<1>4. QED BY <1>1, <1>2, <1>3, PTL DEF SumSpec

-----------------------------------------------------------------------------
(* Audio output                                                            *)

\* A ring has room for at least one sample.
CapOK == Cap \in Nat \ {0}

LEMMA RingHasRoom == CapOK
BY AudioAssumption DEF CapOK

\* An index less than twice the capacity wraps once.
Wrap(n) == IF n < Cap THEN n ELSE n - Cap

LEMMA PlaceWraps ==
    ASSUME CapOK
    PROVE  \A n \in 0 .. 2 * Cap - 1 : Place(n) = Wrap(n) /\ Place(n) \in 0 .. Cap - 1
<1> TAKE n \in 0 .. 2 * Cap - 1
<1>1. CASE n < Cap
    BY <1>1, SMT DEF CapOK, Place, Wrap
<1>2. CASE n >= Cap
    BY <1>2, SMTT(30) DEF CapOK, Place, Wrap
<1>3. QED BY <1>1, <1>2 DEF CapOK

\* What is queued is a sequence of decoders, as long as count says.
LEMMA QueuedIsSeq ==
    ASSUME CapOK, RingOK
    PROVE  /\ Queued \in Seq(Decoders) /\ Len(Queued) = count
           /\ \A i \in 1 .. count : Queued[i] = ring[Place(rd + i - 1)]
<1>1. count \in Nat
    BY DEF CapOK, RingOK, TypeOK
<1>2. Queued \in [1 .. count -> Decoders]
    BY DEF RingOK, Queued
<1>3. Queued \in Seq(Decoders)
    BY <1>1, <1>2, SeqDef
<1>4. QED BY <1>1, <1>2, <1>3, LenProperties DEF Queued

\* A round of push() is a Put of the bounded queue.
LEMMA PutIsPut ==
    ASSUME CapOK, RingOK, NEW s \in Decoders, PutInRing(s)
    PROVE  RingOK' /\ Queue!Put(s)
<1> DEFINE Kept == IF Len(Queued) = Cap THEN Tail(Queued) ELSE Queued
           New  == Append(Kept, s)
           k    == IF count = Cap THEN 1 ELSE 0
<1>1. /\ Cap \in Nat \ {0} /\ rd \in 0 .. Cap - 1 /\ wr \in 0 .. Cap - 1
      /\ count \in 0 .. Cap
    BY DEF CapOK, RingOK, TypeOK
<1>r. /\ wr = Place(rd + count)
      /\ ring \in [0 .. Cap - 1 -> Decoders \cup {Silence}]
    BY DEF RingOK, TypeOK
<1>w. \A n \in 0 .. 2 * Cap - 1 : Place(n) = Wrap(n) /\ Place(n) \in 0 .. Cap - 1
    BY PlaceWraps
<1>k. /\ k \in 0 .. 1 /\ (count = Cap => k = 1) /\ (count # Cap => k = 0)
      /\ count - k + 1 \in 1 .. Cap
    BY <1>1
<1>2. /\ Queued \in Seq(Decoders) /\ Len(Queued) = count
      /\ \A i \in 1 .. count : Queued[i] = ring[Place(rd + i - 1)] /\ Queued[i] \in Decoders
    BY QueuedIsSeq DEF RingOK
<1>3. /\ rd' = Place(rd + k) /\ count' = count - k + 1 /\ wr' = Place(wr + 1)
      /\ ring' = [ring EXCEPT ![wr] = s]
    <2>1. CASE count = Cap
        BY <1>1, <2>1 DEF PutInRing
    <2>2. CASE count # Cap
        <3>1. Place(rd) = rd
            BY <1>1, PlaceWraps DEF Wrap
        <3>2. QED BY <1>1, <2>2, <3>1 DEF PutInRing
    <2>3. QED BY <2>1, <2>2
<1> HIDE DEF k
<1>n. count' \in 1 .. Cap /\ count' = count - k + 1
    BY <1>3, <1>k
<1>4. TypeOK'
    <2>1. rd + k \in 0 .. 2 * Cap - 1 /\ wr + 1 \in 0 .. 2 * Cap - 1
        BY <1>1, <1>k
    <2>2. rd' \in 0 .. Cap - 1 /\ wr' \in 0 .. Cap - 1
        BY <1>3, <1>w, <2>1
    <2>3. QED BY <1>1, <1>3, <1>r, <1>n, <2>2 DEF TypeOK
\* The three indices, without the remainder.
<1>5. /\ wr = Wrap(rd + count)
      /\ wr' = Wrap(wr + 1)
      /\ rd' = Wrap(rd + k)
    <2>1. /\ rd + count \in 0 .. 2 * Cap - 1
          /\ wr + 1 \in 0 .. 2 * Cap - 1 /\ rd + k \in 0 .. 2 * Cap - 1
        BY <1>1, <1>k
    <2>2. /\ Place(rd + count) = Wrap(rd + count)
          /\ Place(wr + 1) = Wrap(wr + 1)
          /\ Place(rd + k) = Wrap(rd + k)
        BY <1>w, <2>1, Zenon
    <2>3. wr = Place(rd + count) /\ wr' = Place(wr + 1) /\ rd' = Place(rd + k)
        BY <1>r, <1>3
    <2>4. QED BY <2>2, <2>3
<1>m. rd' \in 0 .. Cap - 1 /\ wr' \in 0 .. Cap - 1
    BY <1>4 DEF TypeOK
<1>e. wr' = Place(rd' + count')
    <2>1. rd' + count' \in 0 .. 2 * Cap - 1
        BY <1>1, <1>n, <1>m
    <2>2. Place(rd' + count') = Wrap(rd' + count')
        BY <1>w, <2>1, Zenon
    <2>3. QED BY <1>1, <1>n, <1>m, <1>k, <1>5, <2>2 DEF Wrap
\* The places that keep their sample, and the new one.
<1>6. \A i \in 1 .. count' - 1 : ring'[Place(rd' + i - 1)] = ring[Place(rd + k + i - 1)]
    <2> TAKE i \in 1 .. count' - 1
    <2> DEFINE a == rd' + i - 1
               b == rd + k + i - 1
    <2>0. i \in Nat /\ 1 <= i /\ i <= count - k
        BY <1>1, <1>n, <1>k
    <2>1. a \in 0 .. 2 * Cap - 1 /\ b \in 0 .. 2 * Cap - 1
        <3>1. \A x \in 0 .. Cap - 1, j \in 1 .. Cap : x + j - 1 \in 0 .. 2 * Cap - 1
            BY <1>1
        <3>2. i \in 1 .. Cap /\ k + i \in 1 .. Cap /\ rd + k + i - 1 = rd + (k + i) - 1
            BY <1>1, <1>k, <2>0
        <3>3. a \in 0 .. 2 * Cap - 1
            BY <1>m, <3>1, <3>2, Zenon
        <3>4. rd + (k + i) - 1 \in 0 .. 2 * Cap - 1
            BY <1>1, <3>1, <3>2, Zenon
        <3>5. QED BY <3>2, <3>3, <3>4
    <2>2. /\ a = (IF rd + k < Cap THEN b ELSE b - Cap)
          /\ rd <= b /\ b < rd + count /\ rd + count - b < Cap
        BY <1>1, <1>m, <1>k, <1>5, <2>0 DEF Wrap
    <2> HIDE DEF a, b
    <2>4. /\ Place(a) = Wrap(a)
          /\ Place(b) = Wrap(b)
          /\ Place(a) \in 0 .. Cap - 1
        BY <1>w, <2>1
    <2>5. Place(a) = Place(b)
        BY <1>1, <1>k, <2>1, <2>2, <2>4 DEF Wrap
    <2>6. Place(b) # wr
        BY <1>1, <1>5, <2>1, <2>2, <2>4 DEF Wrap
    <2>7. ring'[Place(a)] = ring[Place(b)]
        BY <1>1, <1>r, <1>3, <2>4, <2>5, <2>6
    <2>8. QED BY <2>7 DEF a, b
<1>7. ring'[Place(rd' + count' - 1)] = s
    <2>1. rd' + count' - 1 \in 0 .. 2 * Cap - 1
        BY <1>1, <1>n, <1>m
    <2>2. Place(rd' + count' - 1) = Wrap(rd' + count' - 1)
        BY <1>w, <2>1, Zenon
    <2>3. Place(rd' + count' - 1) = wr
        BY <1>1, <1>n, <1>m, <1>k, <1>5, <2>2 DEF Wrap
    <2>4. QED BY <1>1, <1>3, <1>r, <2>3
<1>8. Kept \in Seq(Decoders) /\ Len(Kept) = count' - 1
      /\ \A i \in 1 .. count' - 1 : Kept[i] = ring[Place(rd + k + i - 1)]
    <2>1. CASE count = Cap
        <3>1. Queued # <<>>
            BY <1>1, <1>2, <2>1, EmptySeq
        <3>2. /\ Tail(Queued) \in Seq(Decoders) /\ Len(Tail(Queued)) = count - 1
              /\ \A i \in 1 .. count - 1 : Tail(Queued)[i] = Queued[i + 1]
            BY <1>2, <3>1, HeadTailProperties
        <3>3. \A i \in 1 .. count - 1 : Queued[i + 1] = ring[Place(rd + 1 + i - 1)]
            <4> TAKE i \in 1 .. count - 1
            <4>1. i + 1 \in 1 .. count /\ rd + (i + 1) - 1 = rd + 1 + i - 1
                BY <1>1
            <4>2. QED BY <1>2, <4>1
        <3>4. count' - 1 = count - 1 /\ k = 1
            BY <1>1, <1>n, <1>k, <2>1
        <3>5. Kept = Tail(Queued)
            BY <1>2, <2>1
        <3>6. QED BY <3>2, <3>3, <3>4, <3>5
    <2>2. CASE count # Cap
        <3>1. \A i \in 1 .. count : rd + 0 + i - 1 = rd + i - 1
            BY <1>1
        <3>2. count' - 1 = count /\ k = 0 /\ Kept = Queued
            BY <1>1, <1>2, <1>n, <1>k, <2>2
        <3>3. QED BY <1>2, <3>1, <3>2
    <2>3. QED BY <2>1, <2>2
<1> HIDE DEF Kept
<1>9. /\ New \in Seq(Decoders) /\ Len(New) = count'
      /\ \A i \in 1 .. count' - 1 : New[i] = Kept[i]
      /\ New[count'] = s
    <2>1. count' \in Nat /\ count' - 1 + 1 = count'
        BY <1>n, <1>1
    <2>2. /\ New \in Seq(Decoders) /\ Len(New) = Len(Kept) + 1
          /\ \A i \in 1 .. Len(Kept) : New[i] = Kept[i]
          /\ New[Len(Kept) + 1] = s
        BY <1>8, AppendProperties
    <2>3. QED BY <1>8, <2>1, <2>2
<1> HIDE DEF New
<1>10. \A i \in 1 .. count' : ring'[Place(rd' + i - 1)] = New[i]
    <2> TAKE i \in 1 .. count'
    <2>1. CASE i \in 1 .. count' - 1
        BY <2>1, <1>6, <1>8, <1>9
    <2>2. CASE i = count'
        BY <2>2, <1>7, <1>9
    <2>3. i \in 1 .. count' - 1 \/ i = count'
        <3>1. count' \in Nat
            BY <1>n, <1>1
        <3>2. \A m \in Nat : \A j \in 1 .. m : j \in 1 .. m - 1 \/ j = m
            OBVIOUS
        <3>3. QED BY <3>1, <3>2, Zenon
    <2>4. QED BY <2>1, <2>2, <2>3, Zenon
<1>11. Queued' = New
    <2>1. New \in [1 .. count' -> Decoders]
        BY <1>9, LenProperties
    <2>2. Queued' = [i \in 1 .. count' |-> ring'[Place(rd' + i - 1)]]
        BY DEF Queued
    <2>3. Queued' = [i \in 1 .. count' |-> New[i]]
        BY <1>10, <2>2, Zenon
    <2>4. QED BY <2>1, <2>3
<1>12. \A i \in 1 .. count' : Queued'[i] \in Decoders
    BY <1>9, <1>11, ElementOfSeq
<1>13. Queue!Put(s)
    BY <1>11 DEF Queue!Put, New, Kept
<1>14. QED BY <1>4, <1>e, <1>12, <1>13 DEF RingOK

\* A round of pullInto() that finds a sample is a Take.
LEMMA TakeIsTake ==
    ASSUME CapOK, RingOK, TakeFromRing
    PROVE  RingOK' /\ Queue!Take
<1>1. /\ Cap \in Nat \ {0} /\ rd \in 0 .. Cap - 1 /\ wr \in 0 .. Cap - 1
      /\ count \in 1 .. Cap
    BY DEF CapOK, RingOK, TypeOK, TakeFromRing
<1>2. /\ Queued \in Seq(Decoders) /\ Len(Queued) = count
      /\ \A i \in 1 .. count : Queued[i] = ring[Place(rd + i - 1)] /\ Queued[i] \in Decoders
    BY QueuedIsSeq DEF RingOK
<1>3. rd' = Place(rd + 1) /\ count' = count - 1 /\ wr' = wr /\ ring' = ring
    BY DEF TakeFromRing
<1>w. \A n \in 0 .. 2 * Cap - 1 : Place(n) = Wrap(n) /\ Place(n) \in 0 .. Cap - 1
    BY PlaceWraps
<1>s. \A x \in 0 .. Cap - 1, j \in 1 .. Cap : x + j - 1 \in 0 .. 2 * Cap - 1 /\ x + j - 1 + 1 = x + j
    BY <1>1
<1>4. rd + 1 \in 0 .. 2 * Cap - 1 /\ rd' = Wrap(rd + 1) /\ rd' \in 0 .. Cap - 1
    <2>1. rd + 1 \in 0 .. 2 * Cap - 1
        BY <1>1
    <2>2. QED BY <1>3, <1>w, <2>1, Zenon
<1>5. TypeOK'
    BY <1>1, <1>3, <1>4 DEF RingOK, TypeOK
<1>6. wr' = Place(rd' + count')
    <2>1. rd + count \in 0 .. 2 * Cap - 1 /\ rd' + count' \in 0 .. 2 * Cap - 1
        BY <1>1, <1>3, <1>4
    <2>2. Place(rd + count) = Wrap(rd + count) /\ Place(rd' + count') = Wrap(rd' + count')
        BY <1>w, <2>1, Zenon
    <2>3. Wrap(rd + count) = Wrap(rd' + count')
        BY <1>1, <1>3, <1>4 DEF Wrap
    <2>4. QED BY <1>3, <2>2, <2>3 DEF RingOK
<1>7. \A i \in 1 .. count' : ring'[Place(rd' + i - 1)] = Queued[i + 1]
    <2> TAKE i \in 1 .. count'
    <2>0. i \in 1 .. Cap /\ i + 1 \in 1 .. count /\ i + 1 \in 1 .. Cap
        BY <1>1, <1>3
    <2> DEFINE a == rd' + i - 1
               b == rd + (i + 1) - 1
    <2>1. a \in 0 .. 2 * Cap - 1 /\ b \in 0 .. 2 * Cap - 1
        BY <1>1, <1>4, <1>s, <2>0, Zenon
    <2>2. a = IF rd + 1 < Cap THEN b ELSE b - Cap
        BY <1>1, <1>4, <2>0 DEF Wrap
    <2>3. rd <= b /\ b < rd + Cap
        BY <1>1, <2>0
    <2> HIDE DEF a, b
    <2>4. Place(a) = Wrap(a) /\ Place(b) = Wrap(b)
        BY <1>w, <2>1
    <2>5. Place(a) = Place(b)
        BY <1>1, <2>1, <2>2, <2>3, <2>4 DEF Wrap
    <2>6. Queued[i + 1] = ring[Place(b)]
        BY <1>2, <2>0 DEF b
    <2>7. QED BY <1>3, <2>5, <2>6 DEF a
<1>8. Queued # <<>>
    BY <1>1, <1>2, EmptySeq
<1> DEFINE Rest == Tail(Queued)
<1>9. /\ Rest \in Seq(Decoders) /\ Len(Rest) = count'
      /\ \A i \in 1 .. count' : Rest[i] = Queued[i + 1]
    BY <1>2, <1>3, <1>8, HeadTailProperties
<1> HIDE DEF Rest
<1>10. Queued' = Rest
    <2>1. Rest \in [1 .. count' -> Decoders]
        BY <1>9, LenProperties
    <2>2. Queued' = [i \in 1 .. count' |-> ring'[Place(rd' + i - 1)]]
        BY DEF Queued
    <2>3. Queued' = [i \in 1 .. count' |-> Rest[i]]
        BY <1>7, <1>9, <2>2, Zenon
    <2>4. QED BY <2>1, <2>3
<1>11. \A i \in 1 .. count' : Queued'[i] \in Decoders
    BY <1>9, <1>10, ElementOfSeq
<1>12. QED BY <1>5, <1>6, <1>8, <1>10, <1>11 DEF RingOK, Queue!Take, Rest

\* A ring that is reset is the empty queue, whatever its places hold.
LEMMA EmptyIsClear ==
    ASSUME CapOK, Empty, ring' \in [0 .. Cap - 1 -> Decoders \cup {Silence}]
    PROVE  RingOK' /\ Queue!Clear
<1>1. rd' = 0 /\ wr' = 0 /\ count' = 0 /\ Cap \in Nat \ {0}
    BY DEF Empty, CapOK
<1>2. TypeOK'
    BY <1>1 DEF TypeOK
<1>3. 0 \in 0 .. 2 * Cap - 1 /\ 0 < Cap /\ 0 + 0 = 0
    BY <1>1
<1>4. wr' = Place(rd' + count')
    BY <1>1, <1>3, PlaceWraps DEF Wrap
<1>5. 1 .. count' = {}
    BY <1>1
<1>6. Queued' = <<>>
    <2>1. Queued' = [i \in 1 .. count' |-> ring'[Place(rd' + i - 1)]]
        BY DEF Queued
    <2>2. QED BY <1>5, <2>1
<1>7. QED BY <1>2, <1>4, <1>5, <1>6 DEF RingOK, Queue!Clear

\* The steps that leave the ring alone.
LEMMA SameRing ==
    ASSUME RingOK, UNCHANGED samples
    PROVE  RingOK' /\ UNCHANGED Queued
<1>1. ring' = ring /\ rd' = rd /\ wr' = wr /\ count' = count
    BY DEF samples
<1>2. Queued' = Queued
    BY <1>1 DEF Queued
<1>3. QED BY <1>1, <1>2 DEF RingOK, TypeOK

\* Every step keeps the ring and is a step of the bounded queue, or none.
LEMMA StepIsQueueStep ==
    ASSUME CapOK, RingOK, [Next]_vars
    PROVE  RingOK' /\ [Queue!Next]_Queued
<1>e. Empty /\ ring' \in [0 .. Cap - 1 -> Decoders \cup {Silence}]
      => RingOK' /\ [Queue!Next]_Queued
    BY EmptyIsClear DEF Queue!Next
<1>s. UNCHANGED samples => RingOK' /\ [Queue!Next]_Queued
    BY SameRing
<1>r. ring \in [0 .. Cap - 1 -> Decoders \cup {Silence}]
    BY DEF RingOK, TypeOK
<1>1. CASE Start
    <2>1. ring' \in [0 .. Cap - 1 -> Decoders \cup {Silence}]
        BY <1>1 DEF Start
    <2>2. QED BY <1>1, <1>e, <2>1 DEF Start
<1>2. CASE ReopenDevice
    BY <1>2, <1>e, <1>r DEF ReopenDevice
<1>3. CASE ClearRing
    BY <1>3, <1>e, <1>r DEF ClearRing
<1>4. CASE \E d \in Decoders : PushSample(d)
    <2>1. PICK d \in Decoders : PushSample(d)
        BY <1>4
    <2>2. RingOK' /\ Queue!Put(d)
        BY <2>1, PutIsPut DEF PushSample
    <2>3. QED BY <2>2 DEF Queue!Next
<1>5. CASE CallbackTakes
    BY <1>5, TakeIsTake DEF CallbackTakes, Queue!Next
<1>6. CASE Stop \/ OpenFails \/ ChangeDevice \/ ToggleMute \/ Opened
    BY <1>6, <1>s DEF Stop, OpenFails, ChangeDevice, ToggleMute, Opened
<1>7. CASE \E d \in Decoders : SetFlag(d) \/ AddDecoder(d) \/ RemoveDecoder(d)
    BY <1>7, <1>s DEF SetFlag, AddDecoder, RemoveDecoder
<1>8. CASE \E d \in Decoders : AutoMonitor(d) \/ SetVoiceMonitor(d)
    BY <1>8, <1>s DEF AutoMonitor, SetVoiceMonitor
<1>9. CASE DeviceStep \/ CallbackBegins
    BY <1>9, <1>s DEF DeviceStep, DeviceStarts, CallbackLocks, CallbackEnds, CallbackBegins
<1>10. CASE \E d \in Decoders : WorkerStep(d) \/ PushTests(d)
    BY <1>10, <1>s DEF WorkerStep, PushLocks, PushEnds, PushTests
<1>11. CASE UNCHANGED vars
    BY <1>11, <1>s DEF vars
<1>12. QED BY <1>1, <1>2, <1>3, <1>4, <1>5, <1>6, <1>7, <1>8, <1>9, <1>10, <1>11
           DEF Next, UiStep

LEMMA InitIsQueueInit ==
    ASSUME CapOK, Init
    PROVE  RingOK /\ Queue!Init
<1>1. rd = 0 /\ wr = 0 /\ count = 0 /\ Cap \in Nat \ {0}
      /\ ring \in [0 .. Cap - 1 -> Decoders \cup {Silence}]
    BY DEF Init, CapOK
<1>2. 0 \in 0 .. 2 * Cap - 1 /\ 0 < Cap /\ 0 + 0 = 0
    BY <1>1
<1>3. wr = Place(rd + count)
    BY <1>1, <1>2, PlaceWraps DEF Wrap
<1>4. 1 .. count = {}
    BY <1>1
<1>5. Queued = <<>>
    BY <1>4 DEF Queued
<1>6. QED BY <1>1, <1>3, <1>4, <1>5 DEF RingOK, TypeOK, Queue!Init

\* In every state the indices of the ring agree with each other and its places in use
\* hold samples (AudioOutputImpl's rd, wr, count and ring).
THEOREM RingCorrect == Spec => []RingOK
<1>1. Init => RingOK
    BY RingHasRoom, InitIsQueueInit
<1>2. RingOK /\ [Next]_vars => RingOK'
    BY RingHasRoom, StepIsQueueStep
<1>3. QED BY <1>1, <1>2, PTL DEF Spec

\* The voice path implements the bounded queue that drops its oldest sample: push(),
\* pullInto(), clear(), start() and setDevice() of AudioOutput do nothing else to it.
THEOREM AudioOutputIsVoiceQueue == Spec => RingIsVoiceQueue
<1>1. Init => Queue!Init
    BY RingHasRoom, InitIsQueueInit
<1>2. RingOK /\ [Next]_vars => [Queue!Next]_Queued
    BY RingHasRoom, StepIsQueueStep
<1>3. Spec => []RingOK
    BY RingCorrect
<1>4. QED BY <1>1, <1>2, <1>3, PTL DEF Spec, RingIsVoiceQueue, Queue!Spec

-----------------------------------------------------------------------------
(* Who is in the ring.                                                     *)

\* The mutex of the ring has the holder that says so, and the UI thread holds it only
\* while setDevice() opens the device.
MutexHeld ==
    /\ mtx \in Decoders \cup {None, "cb", "ui"}
    /\ worker \in [Decoders -> {"idle", "waiting", "pushing"}]
    /\ cb \in {"out", "waiting", "pulling"}
    /\ \A d \in Decoders : worker[d] = "pushing" <=> mtx = d
    /\ cb = "pulling" <=> mtx = "cb"
    /\ mtx = "ui" => ui = "opening"

\* The callback runs on a device that is open, and only a running manager has one.
DeviceOfManager ==
    /\ cb # "out" => dev \in {"on", "filling"}
    /\ dev \in {"starting", "filling"} => ui = "opening"
    /\ ui = "locking" => dev = "none"
    /\ dev # "none" \/ ui \in {"locking", "opening"} \/ started => run
    /\ ~run => \A d \in Decoders : worker[d] = "idle"

\* start() resets the ring without its mutex: nobody else is in it, or waits for it.
ResetsAlone ==
    ~run => mtx = None /\ cb = "out" /\ \A d \in Decoders : worker[d] = "idle"

LockInv == MutexHeld /\ DeviceOfManager

LEMMA LockInit == Init => LockInv
BY AudioAssumption DEF Init, LockInv, MutexHeld, DeviceOfManager, None

LEMMA LockStep ==
    ASSUME LockInv, [Next]_vars
    PROVE  LockInv'
<1> USE AudioAssumption DEF LockInv, MutexHeld, DeviceOfManager, None
<1>1. CASE Start
    BY <1>1 DEF Start
<1>2. CASE Stop
    BY <1>2 DEF Stop
<1>3. CASE OpenFails \/ ChangeDevice \/ ToggleMute
    BY <1>3 DEF OpenFails, ChangeDevice, ToggleMute
<1>4. CASE ReopenDevice
    <2>1. /\ mtx = "none" /\ mtx' = "ui" /\ ui = "locking" /\ ui' = "opening" /\ dev' = "starting"
          /\ UNCHANGED <<run, cb, worker, started>>
        BY <1>4 DEF ReopenDevice
    <2>2. cb = "out"
        BY <2>1
    <2>3. \A d \in Decoders : worker[d] # "pushing"
        BY <2>1
    <2>4. QED BY <2>1, <2>2, <2>3
<1>13. CASE ClearRing
    BY <1>13 DEF ClearRing
<1>12. CASE Opened
    <2>1. mtx' = (IF mtx = "ui" THEN "none" ELSE mtx) /\ UNCHANGED <<run, dev, cb, worker>>
          /\ ui = "opening" /\ ui' = "idle" /\ dev = "on"
        BY <1>12 DEF Opened
    <2>2. MutexHeld'
        BY <2>1
    <2>3. DeviceOfManager'
        BY <2>1
    <2>4. QED BY <2>2, <2>3
<1>5. ASSUME NEW d \in Decoders,
             SetFlag(d) \/ AddDecoder(d) \/ RemoveDecoder(d) \/ AutoMonitor(d) \/ SetVoiceMonitor(d)
      PROVE  LockInv'
    BY <1>5 DEF SetFlag, AddDecoder, RemoveDecoder, AutoMonitor, SetVoiceMonitor
<1>6. CASE DeviceStarts \/ CallbackBegins \/ CallbackTakes
    BY <1>6 DEF DeviceStarts, CallbackBegins, CallbackTakes
<1>7. CASE CallbackLocks \/ CallbackEnds
    BY <1>7 DEF CallbackLocks, CallbackEnds
<1>8. ASSUME NEW d \in Decoders, PushTests(d) \/ PushSample(d)
      PROVE  LockInv'
    BY <1>8 DEF PushTests, PushSample
<1>9. ASSUME NEW d \in Decoders, PushLocks(d) \/ PushEnds(d)
      PROVE  LockInv'
    BY <1>9 DEF PushLocks, PushEnds
<1>10. CASE UNCHANGED vars
    BY <1>10 DEF vars
<1>11. QED
    BY <1>1, <1>2, <1>3, <1>4, <1>5, <1>6, <1>7, <1>8, <1>9, <1>10, <1>12, <1>13
       DEF Next, UiStep, DeviceStep, WorkerStep

\* Who is inside the ring holds its mutex, and a device runs only under a manager that
\* runs or while its start is under way.
THEOREM LocksCorrect == Spec => []LockInv
BY LockInit, LockStep, PTL DEF Spec

\* When DecoderManager::start() resets the ring without its mutex, neither the callback
\* of a device nor a worker is in push() or pullInto().
THEOREM StartIsAlone == Spec => []ResetsAlone
<1>1. LockInv => ResetsAlone
    BY DEF LockInv, MutexHeld, DeviceOfManager, ResetsAlone
<1>2. QED BY <1>1, LocksCorrect, PTL

\* The only two threads of the voice path that can wait for each other are setDevice(),
\* with the mutex of the ring, and the callback of the device it starts.
THEOREM OnlyDeviceChangeSticks == Spec => []StuckOnlyChangingDevice
<1>1. LockInv => StuckOnlyChangingDevice
    BY AudioAssumption
       DEF LockInv, MutexHeld, StuckOnlyChangingDevice, WaitsFor, None
<1>2. QED BY <1>1, LocksCorrect, PTL

-----------------------------------------------------------------------------
(* What is queued.                                                         *)

\* After the first sample of m every sample is one of m.
EndsWith(s, m) == \A i, j \in 1 .. Len(s) : i < j /\ s[i] = m => s[j] = m
OnlyFrom(s, S) == \A i \in 1 .. Len(s) : s[i] \in S

LEMMA AppendCall ==
    ASSUME NEW s \in Seq(Decoders), NEW m \in Decoders, EndsWith(s, m)
    PROVE  /\ EndsWith(Append(s, m), m)
           /\ \A S : OnlyFrom(s, S) /\ m \in S => OnlyFrom(Append(s, m), S)
<1> DEFINE t == Append(s, m)
<1>1. /\ Len(s) \in Nat /\ Len(t) = Len(s) + 1 /\ t[Len(s) + 1] = m
      /\ \A i \in 1 .. Len(s) : t[i] = s[i]
    BY AppendProperties, LenProperties
<1> HIDE DEF t
<1>2. EndsWith(t, m)
    BY <1>1 DEF EndsWith
<1>3. \A S : OnlyFrom(s, S) /\ m \in S => OnlyFrom(t, S)
    BY <1>1 DEF OnlyFrom
<1>4. QED BY <1>2, <1>3 DEF t

LEMMA TailCall ==
    ASSUME NEW s \in Seq(Decoders), s # <<>>
    PROVE  /\ Tail(s) \in Seq(Decoders)
           /\ \A m : EndsWith(s, m) => EndsWith(Tail(s), m)
           /\ \A S : OnlyFrom(s, S) => OnlyFrom(Tail(s), S)
<1> DEFINE t == Tail(s)
<1>1. /\ t \in Seq(Decoders) /\ Len(s) \in Nat /\ Len(t) = Len(s) - 1
      /\ \A i \in 1 .. Len(t) : t[i] = s[i + 1]
    BY HeadTailProperties, LenProperties
<1> HIDE DEF t
<1>2. \A i \in 1 .. Len(t) : i + 1 \in 1 .. Len(s)
    BY <1>1
<1>3. \A m : EndsWith(s, m) => EndsWith(t, m)
    <2> TAKE m
    <2> SUFFICES ASSUME EndsWith(s, m), NEW i \in 1 .. Len(t), NEW j \in 1 .. Len(t), i < j, t[i] = m
                 PROVE  t[j] = m
        BY DEF EndsWith
    <2>1. i + 1 \in 1 .. Len(s) /\ j + 1 \in 1 .. Len(s) /\ i + 1 < j + 1
        BY <1>2
    <2>2. s[i + 1] = m /\ t[j] = s[j + 1]
        BY <1>1
    <2>3. QED BY <2>1, <2>2 DEF EndsWith
<1>4. \A S : OnlyFrom(s, S) => OnlyFrom(t, S)
    BY <1>1, <1>2 DEF OnlyFrom
<1>5. QED BY <1>1, <1>3, <1>4 DEF t

\* monitored_ is set on the monitor only, and on those setVoiceMonitor() has still to
\* reach; a worker is in push() only while its decoder is monitored.
FlagOfMonitor ==
    /\ live \subseteq Decoders /\ live \cap past = {} /\ monitor \in live \cup {None}
    /\ flag \in [Decoders -> BOOLEAN]
    /\ \A d \in Decoders :
        /\ flag[d] => d \in live /\ (d = monitor \/ (ui = "monitor" /\ d \in todo))
        /\ worker[d] # "idle" => flag[d]
    /\ chosen => monitor # None

\* Unless setVoiceMonitor() is at work, the ring holds the samples of removed decoders,
\* then those of the monitor; of the monitor alone when the user has picked it.
QueueOfMonitor ==
    ui # "monitor" =>
        /\ OnlyFrom(Queued, past \cup {monitor}) /\ EndsWith(Queued, monitor)
        /\ chosen => OnlyFrom(Queued, {monitor})

CallInv == RingOK /\ LockInv /\ FlagOfMonitor /\ QueueOfMonitor

LEMMA FlagStep ==
    ASSUME LockInv, FlagOfMonitor, [Next]_vars
    PROVE  FlagOfMonitor'
<1> USE AudioAssumption DEF LockInv, MutexHeld, FlagOfMonitor, None
<1>1. CASE Start
    BY <1>1 DEF Start, calls
<1>2. CASE Stop
    BY <1>2 DEF Stop
<1>3. CASE OpenFails \/ ChangeDevice \/ ToggleMute \/ Opened \/ ReopenDevice
    BY <1>3 DEF OpenFails, ChangeDevice, ToggleMute, Opened, ReopenDevice, calls
<1>4. CASE ClearRing
    BY <1>4 DEF ClearRing, calls
<1>5. ASSUME NEW d \in Decoders, SetFlag(d)
      PROVE  FlagOfMonitor'
    <2>1. /\ flag' \in [Decoders -> BOOLEAN] /\ flag'[d] = (d = monitor)
          /\ \A e \in Decoders \ {d} : flag'[e] = flag[e]
          /\ todo' = todo \ {d} /\ worker[d] = "idle"
        BY <1>5 DEF SetFlag
    <2>2. UNCHANGED <<live, past, monitor, chosen, worker, ui>>
        BY <1>5 DEF SetFlag
    <2>3. QED BY <2>1, <2>2
<1>6. ASSUME NEW d \in Decoders, AddDecoder(d)
      PROVE  FlagOfMonitor'
    <2>1. live' = live \cup {d} /\ d \notin past /\ UNCHANGED <<past, worker, ui, todo>>
        BY <1>6 DEF AddDecoder
    <2>2. CASE monitor = None /\ monitor' = d /\ flag' = [flag EXCEPT ![d] = TRUE]
        BY <1>6, <2>1, <2>2 DEF AddDecoder
    <2>3. CASE UNCHANGED <<monitor, flag, chosen>>
        BY <2>1, <2>3
    <2>4. QED BY <1>6, <2>2, <2>3 DEF AddDecoder
<1>12. ASSUME NEW d \in Decoders, AutoMonitor(d)
      PROVE  FlagOfMonitor'
    BY <1>12 DEF AutoMonitor
<1>13. ASSUME NEW d \in Decoders, SetVoiceMonitor(d)
      PROVE  FlagOfMonitor'
    BY <1>13 DEF SetVoiceMonitor
<1>7. ASSUME NEW d \in Decoders, RemoveDecoder(d)
      PROVE  FlagOfMonitor'
    BY <1>7 DEF RemoveDecoder
<1>8. CASE DeviceStep \/ CallbackBegins \/ CallbackTakes
    BY <1>8 DEF DeviceStep, DeviceStarts, CallbackLocks, CallbackEnds, CallbackBegins,
        CallbackTakes, calls
<1>9. ASSUME NEW d \in Decoders, PushTests(d) \/ PushSample(d) \/ WorkerStep(d)
      PROVE  FlagOfMonitor'
    BY <1>9 DEF PushTests, PushSample, WorkerStep, PushLocks, PushEnds, calls
<1>10. CASE UNCHANGED vars
    BY <1>10 DEF vars, calls
<1>11. QED
    BY <1>1, <1>2, <1>3, <1>4, <1>5, <1>6, <1>7, <1>8, <1>9, <1>10, <1>12, <1>13
       DEF Next, UiStep

LEMMA CallStep ==
    ASSUME CallInv, [Next]_vars
    PROVE  CallInv'
<1>r. RingOK' /\ [Queue!Next]_Queued
    BY RingHasRoom, StepIsQueueStep DEF CallInv
<1>l. LockInv' /\ FlagOfMonitor'
    BY LockStep, FlagStep DEF CallInv
<1> SUFFICES QueueOfMonitor'
    BY <1>r, <1>l DEF CallInv
<1>q. /\ Queued \in Seq(Decoders) /\ \A i \in 1 .. Len(Queued) : Queued[i] \in Decoders
      /\ None \notin Decoders
    BY RingHasRoom, QueuedIsSeq, AudioAssumption, ElementOfSeq DEF CallInv
<1>f. /\ monitor \in live \cup {None} /\ live \subseteq Decoders /\ live \cap past = {}
      /\ \A d \in Decoders : worker[d] = "pushing" => flag[d]
      /\ \A d \in Decoders : flag[d] => d = monitor \/ (ui = "monitor" /\ d \in todo)
      /\ chosen => monitor # None
    BY DEF CallInv, FlagOfMonitor
<1>k. /\ EndsWith(Queued, None)
      /\ ui # "monitor" =>
            /\ OnlyFrom(Queued, past \cup {monitor}) /\ EndsWith(Queued, monitor)
            /\ chosen => OnlyFrom(Queued, {monitor})
    BY <1>q DEF CallInv, QueueOfMonitor, EndsWith
\* Steps that leave the ring, the monitor and the past decoders alone.
<1>1. ASSUME UNCHANGED <<samples, monitor, past, chosen>>, ui' # "monitor" => ui # "monitor"
      PROVE  QueueOfMonitor'
    <2>1. Queued' = Queued
        BY <1>1, SameRing DEF CallInv
    <2>2. QED BY <1>1, <1>k, <2>1 DEF QueueOfMonitor
\* Steps that empty the ring.
<1>2. ASSUME Empty
      PROVE  QueueOfMonitor'
    <2>1. count' = 0
        BY <1>2 DEF Empty
    <2>2. Len(Queued') = 0 
        <3>1. Queued' = [i \in 1 .. 0 |-> ring'[Place(rd' + i - 1)]]
            BY <2>1 DEF Queued
        <3>2. Queued' = <<>>
            BY <3>1
        <3>3. QED BY <3>2
    <2>3. QED BY <2>2 DEF QueueOfMonitor, OnlyFrom, EndsWith
<1>3. CASE Start \/ ReopenDevice \/ ClearRing
    BY <1>2, <1>3 DEF Start, ReopenDevice, ClearRing
<1>4. CASE Stop \/ \E d \in Decoders : RemoveDecoder(d)
    <2>1. /\ UNCHANGED samples
          /\ monitor' \in {monitor, None} /\ past \subseteq past' /\ UNCHANGED ui
          /\ monitor' = None => chosen' = FALSE \/ monitor = None
          /\ monitor' = monitor /\ monitor # None => chosen' = chosen
          /\ monitor' # monitor => monitor \in past'
          /\ ui # "monitor"
        BY <1>4, <1>f DEF Stop, RemoveDecoder
    <2>2. Queued' = Queued
        BY <2>1, SameRing DEF CallInv
    <2>3. OnlyFrom(Queued, past' \cup {monitor'})
        BY <1>k, <2>1 DEF OnlyFrom
    <2>4. EndsWith(Queued, monitor')
        BY <1>k, <2>1
    <2>5. chosen' => monitor' # None
        BY <1>l DEF FlagOfMonitor
    <2>6. chosen' => OnlyFrom(Queued, {monitor'})
        BY <1>k, <1>f, <2>1, <2>5
    <2>7. QED BY <2>2, <2>3, <2>4, <2>6 DEF QueueOfMonitor
<1>5. ASSUME NEW d \in Decoders, AddDecoder(d) \/ AutoMonitor(d)
      PROVE  QueueOfMonitor'
    <2>1. UNCHANGED <<samples, past, ui>> /\ ui # "monitor"
        BY <1>5 DEF AddDecoder, AutoMonitor
    <2>2. Queued' = Queued
        BY <2>1, SameRing DEF CallInv
    <2>3. CASE UNCHANGED <<monitor, chosen>>
        BY <1>1, <2>1, <2>3
    <2>4. CASE monitor = None /\ monitor' = d /\ ~chosen' /\ d \notin past
        <3>1. OnlyFrom(Queued, past)
            BY <1>k, <1>q, <2>1, <2>4 DEF OnlyFrom
        <3>2. OnlyFrom(Queued, past \cup {d}) /\ EndsWith(Queued, d)
            BY <2>4, <3>1 DEF OnlyFrom, EndsWith
        <3>3. QED BY <2>1, <2>2, <2>4, <3>2 DEF QueueOfMonitor
    <2>5. QED BY <1>5, <1>f, <2>3, <2>4 DEF AddDecoder, AutoMonitor, CallInv, FlagOfMonitor
<1>6. ASSUME NEW d \in Decoders, SetVoiceMonitor(d)
      PROVE  QueueOfMonitor'
    BY <1>6 DEF SetVoiceMonitor, QueueOfMonitor
<1>7. ASSUME NEW d \in Decoders, PushSample(d)
      PROVE  QueueOfMonitor'
    <2>1. worker[d] = "pushing" /\ UNCHANGED <<monitor, past, chosen, ui>>
        BY <1>7 DEF PushSample, calls
    <2>2. Queue!Put(d)
        BY <1>7, RingHasRoom, PutIsPut DEF PushSample, CallInv
    <2>3. CASE ui = "monitor"
        BY <2>1, <2>3 DEF QueueOfMonitor
    <2>4. CASE ui # "monitor"
        <3>1. d = monitor
            BY <1>f, <2>1, <2>4
        <3> DEFINE rest == IF Len(Queued) = Cap THEN Tail(Queued) ELSE Queued
        <3>2. /\ rest \in Seq(Decoders)
              /\ OnlyFrom(rest, past \cup {monitor}) /\ EndsWith(rest, monitor)
              /\ chosen => OnlyFrom(rest, {monitor})
            <4>1. Len(Queued) = Cap => Queued # <<>>
                <5>1. Len(<<>>) = 0 /\ Cap # 0
                    BY AudioAssumption
                <5>2. QED BY <5>1
            <4>2. QED BY <1>q, <1>k, <2>4, <4>1, TailCall
        <3>3. Queued' = Append(rest, d)
            BY <2>2 DEF Queue!Put
        <3> HIDE DEF rest
        <3>4. /\ OnlyFrom(Queued', past \cup {monitor}) /\ EndsWith(Queued', monitor)
              /\ chosen => OnlyFrom(Queued', {monitor})
            BY <3>1, <3>2, <3>3, AppendCall
        <3>5. QED BY <2>1, <3>4 DEF QueueOfMonitor
    <2>5. QED BY <2>3, <2>4
<1>8. CASE CallbackTakes
    <2>1. UNCHANGED <<monitor, past, chosen, ui>>
        BY <1>8 DEF CallbackTakes, calls
    <2>2. Queued # <<>> /\ Queued' = Tail(Queued)
        BY <1>8, RingHasRoom, TakeIsTake DEF CallbackTakes, CallInv, Queue!Take
    <2>3. QED BY <1>q, <1>k, <2>1, <2>2, TailCall DEF QueueOfMonitor
<1>9. CASE OpenFails \/ ChangeDevice \/ ToggleMute \/ Opened \/ \E d \in Decoders : SetFlag(d)
    BY <1>1, <1>9 DEF OpenFails, ChangeDevice, ToggleMute, Opened, SetFlag, calls
<1>10. CASE DeviceStep \/ CallbackBegins
    BY <1>1, <1>10 DEF DeviceStep, DeviceStarts, CallbackLocks, CallbackEnds, CallbackBegins, calls
<1>11. CASE \E d \in Decoders : WorkerStep(d) \/ PushTests(d)
    BY <1>1, <1>11 DEF WorkerStep, PushLocks, PushEnds, PushTests, calls
<1>12. CASE UNCHANGED vars
    BY <1>1, <1>12 DEF vars, calls
<1>13. QED
    BY <1>3, <1>4, <1>5, <1>6, <1>7, <1>8, <1>9, <1>10, <1>11, <1>12 DEF Next, UiStep

\* The speakers never mix two calls, however a worker is caught by a change of the
\* monitor and whatever the capacity of the ring: after a sample of the monitored call
\* none of another is queued, and none at all once the user has picked the call.
THEOREM NeverTwoCalls == Spec => []OneCallAtATime
<1>1. Init => CallInv
    <2> SUFFICES ASSUME Init PROVE CallInv
        OBVIOUS
    <2>1. RingOK /\ Queued = <<>>
        BY RingHasRoom, InitIsQueueInit DEF Queue!Init
    <2>2. FlagOfMonitor
        BY DEF Init, FlagOfMonitor
    <2>3. Len(<<>>) = 0
        OBVIOUS
    <2>4. QueueOfMonitor
        BY <2>1, <2>3 DEF QueueOfMonitor, OnlyFrom, EndsWith
    <2>5. QED BY <2>1, <2>2, <2>4, LockInit DEF CallInv
<1>2. CallInv /\ [Next]_vars => CallInv'
    BY CallStep
<1>3. CallInv => OneCallAtATime
    <2> SUFFICES ASSUME CallInv PROVE OneCallAtATime
        OBVIOUS
    <2>1. Len(Queued) = count
        BY RingHasRoom, QueuedIsSeq DEF CallInv
    <2>2. QED BY <2>1 DEF CallInv, QueueOfMonitor, OneCallAtATime, OnlyFrom, EndsWith
<1>4. QED BY <1>1, <1>2, <1>3, PTL DEF Spec

\* The variables of AudioOutput behave as it says in every behaviour of the sum, so that what
\* is proved of Spec holds of what the run checks.
THEOREM AudioInSum == SumSpec => Spec
<1>1. SumInit => Init
    BY Zenon DEF SumInit
<1>2. [SumNext]_sumVars => [Next]_vars
    <2>1. UNCHANGED audio => UNCHANGED vars
        BY Zenon DEF audio, vars, calls, samples
    <2>2. UNCHANGED sumVars => UNCHANGED audio
        BY Zenon DEF sumVars
    <2>3. SumNext => Next \/ UNCHANGED audio
        BY Zenon DEF SumNext
    <2> QED BY <2>1, <2>2, <2>3
<1>3. QED BY <1>1, <1>2, PTL DEF SumSpec, Spec
=============================================================================
