\* A region of 152 bytes that is not aligned at either end; two tasks; requests
\* of every size class: one word, an odd size, one that cannot be split off, the
\* whole heap, and one whose rounding wraps.
SPECIFICATION Spec
CONSTANTS
    Callers = {c1, c2}
    ADDR_MOD = 256
    HEAP_ALIGN = 8
    HDR_BYTES = 16
    _heap_start = 12
    _heap_end = 172
    Requests = {0, 1, 20, 40, 136, 255}
INVARIANTS
    HeapSound
PROPERTIES
    ImplementsAllocator
