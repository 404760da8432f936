\* Two RTL receivers.
SPECIFICATION Spec
CONSTANTS
    Radios = {"A", "B"}
    RingSizes = {0, 2}
    MaxBlocks = 2
    MaxFiles = 1
INVARIANT CapturesAOnly
CHECK_DEADLOCK FALSE
