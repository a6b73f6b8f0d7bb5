SPECIFICATION Spec
CONSTANTS
    w1 = w1  w2 = w2  home = home  top = top  sub = sub  side = side  out = out
    s = s  t = t  u = u  x = x  y = y  deep = deep  shallow = shallow  i = i  k = k  none = none
    Workers = {w1, w2}
    Capacity = 1
    Names <- AllNames
    FileIds = {i, k}
    NoFileId = none
    Dirs <- AllDirs
    Entries <- Fork
    RealPath <- NoPaths
    MayDeny = {}
    MayLose = {}
    RootDirs <- OneRoot
    Patterns = {deep}
    PatternRoots <- AtFirst
    Hit <- GlobHit
    Viable <- GlobViable
    Admits <- AdmitAll
    FollowLinks = FALSE
    CycleDetection = TRUE
    Confine = FALSE
    MaxOps = 0
    MaxContainers = 3
    MaxDepth = 2
PROPERTY BottomUpEnds
