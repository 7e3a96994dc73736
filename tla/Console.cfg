SPECIFICATION FairSpec
CONSTANTS
    Jobs = {"single", "batch", "wiki"}
    Dirs = {"material", "runs", "child", "wiki_rag"}
    Kind <- KindOf
    DirOf <- WorkdirOf
    BatchDir = "runs"
    ChildDir = "child"
    None = None
    MaxLaunches = 1
    MaxEvents = 1
INVARIANTS
    SettledIsGone

    
CHECK_DEADLOCK FALSE
