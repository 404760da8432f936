SPECIFICATION Spec
CONSTANTS
    a1 = a1
    c1 = c1
    NWorkers = 1
    Freqs = {0}
    HalfWindow = 1
    OverloadSize = 4
    Bauds = {600}
    Aes = {}
    NoAes = NoAes
    Countries = {}
    CountryOf <- MCCountryOf
    MaxId = 2
INVARIANTS
    WeightIsLoad
