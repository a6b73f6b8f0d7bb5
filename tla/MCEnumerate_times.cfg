SPECIFICATION Spec
CONSTANTS
    Upcase <- Upper
    Scenes <- LinuxTimings
    Needles <- SomeNeedles
    MinI64 <- LeastI64
    MaxI64 = 127
    NanosPerSec = 10
    NanosPerTick = 2
    Epoch = 3
INVARIANT TimesSaturate
