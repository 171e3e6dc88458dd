\* Two slots, three arenas, two programs; both consoles launch and kill, one
\* call at a time.
SPECIFICATION Spec
CONSTANTS
    APP_MAX = 2
    ARENA_MAX = 3
    Regions = {r1, r2, r3}
    Progs = {ping, pong}
    Launchers = {"shell", "touch"}
    Killers = {"shell", "touch"}
    NONE = NONE
    Preempts = FALSE
SYMMETRY Symmetry
INVARIANTS
    ArenasAccounted
    RunsInOwnMemory
    NothingInherited
    ViewsAgree
