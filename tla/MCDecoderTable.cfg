\* Placement: overlapping sub-bands (a decoder on 1 fits the bands on 0 and 2),
\* overload after two decoders, two workers.  No aircraft, no blacklist.
SPECIFICATION Spec
CONSTANTS
    a1 = a1
    c1 = c1
    NWorkers = 2
    Freqs = {0, 1, 2}
    HalfWindow = 2
    OverloadSize = 2
    Bauds = {600, 8400}
    Aes = {}
    NoAes = NoAes
    Countries = {}
    CountryOf <- MCCountryOf
    MaxId = 4
INVARIANTS
    BandsExact
    CountExact
    WeightCoversLoad
