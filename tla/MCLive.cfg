\* Every source of the program and two free descriptors; and what must eventually happen
\* in five parts of the station, under fair threads and frames.
SPECIFICATION SumFairSpec
CONSTANTS
    Modes = {"rtl", "dual", "rtltcp", "server", "wav", "hackrf", "airspy", "pluto",
             "sdrplay", "sdrplay2"}
    Fds = {1, 2}
INVARIANTS
    OneRadioPerReceiver
    HandlesAreTheirOwn
PROPERTIES
    
    RateSettles
    FollowEnds
    EachChannelGetsOne
    DashboardServes
\* The program ends: after Exit nothing runs.
CHECK_DEADLOCK FALSE
