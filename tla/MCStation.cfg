\* Six parts of the station, each on its own: three decoders and a ring of two frames for
\* the audio, a few of everything for the other parts.
SPECIFICATION SumSpec
CONSTANTS
    Decoders = {"d1", "d2", "d3"}
    Cap = 2
    Fills = TRUE
    Bands = {b1, b2}
    MaxMoves = 5
    MaxDecoders = 1
    Channels = {1, 2}
    Confirm = 1
    Lost = 1
    MaxIdA = 2
    MaxIdB = 1
    Freqs = {0, 9, 10}
    Calls = {"c1", "c2"}
SYMMETRY BandSymmetry
INVARIANTS
    
    
    SettingsInEffect
    StationKeepsTuned
    HunterKeepsToItsOwn
    LiveAudioFollowsBox
PROPERTIES
    RingIsVoiceQueue
    DecodersComeBack
\* Every part is bounded, and the program ends.
CHECK_DEADLOCK FALSE
