\* One slot after another: what a program leaves in its slot for the next one.
SPECIFICATION Spec
CONSTANTS
    APP_MAX = 2
    ARENA_MAX = 3
    Regions = {r1, r2, r3}
    Progs = {ping, pong}
    Launchers = {"shell"}
    Killers = {}
    NONE = NONE
    Preempts = FALSE
SYMMETRY Symmetry
INVARIANT HandlerIsOwn
