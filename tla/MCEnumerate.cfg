SPECIFICATION Spec
CONSTANTS
    Upcase <- Upper
    Scenes <- SmallScenes
    Needles <- SomeNeedles
    MinI64 <- LeastI64
    MaxI64 = 127
    NanosPerSec = 10
    NanosPerTick = 2
    Epoch = 3
INVARIANTS AccountsForEachName NoSilentTruncation LazyFetchIsSound FollowedLinkHasIdentity NamesOpenThemselves TimesKeepOrder NameLeavesMean
