\* The same programs, and the timer may switch tasks between any two steps.
SPECIFICATION Spec
CONSTANTS
    APP_MAX = 2
    ARENA_MAX = 3
    Regions = {r1, r2, r3}
    Progs = {ping, pong}
    Launchers = {"shell"}
    Killers = {}
    NONE = NONE
    Preempts = TRUE
SYMMETRY Symmetry
INVARIANT ArenasAccounted
