SPECIFICATION FairSpec
CONSTANTS
    a1 = a1
    c1 = c1
    NWorkers = 1
    Freqs = {0}
    HalfWindow = 1
    OverloadSize = 4
    Bauds = {8400}
    Aes = {a1}
    NoAes = NoAes
    Countries = {c1}
    CountryOf <- MCCountryOf
    MaxId = 1
PROPERTIES
    BlacklistedCallIsMuted
