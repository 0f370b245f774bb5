CONSTANTS
    w1 = w1
    w2 = w2
    Timer = Timer
    Writers <- MCWriters
    AVG = 2
    T0 = 1
    MaxTime = 2
    Speeds = {0}
    Nums = {3}
    MaxCalls = 1
    INITIAL = 3
    INC_PER = 150
    DEC_PER = 50
    SHAPER_MIN = 1
SPECIFICATION Spec
INVARIANT WriteLenValid
