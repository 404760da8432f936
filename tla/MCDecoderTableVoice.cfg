\* Monitoring: voice decoders of a listed, an unlisted and an unknown aircraft.
SPECIFICATION FairSpec
CONSTANTS
    a1 = a1
    c1 = c1
    NWorkers = 1
    Freqs = {0, 1}
    HalfWindow = 1
    OverloadSize = 4
    Bauds = {1, 8400}
    Aes = {a1, a2}
    NoAes = NoAes
    Countries = {c1}
    CountryOf <- MCCountryOf
    MaxId = 3
INVARIANTS
    OneVoiceOnSpeakers
    MonitorNamesLiveVoice
PROPERTIES
    SomeCallIsMonitored
