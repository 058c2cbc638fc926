\* Rings of three cells, so that lines and input wrap, overflow and are edited.
CONSTANTS
    a = a
    b = b
    Char = {a, b}
    CR = CR
    DEL = DEL
    LdSize = 3
    InbSize = 3
    MaxTyped = 6
SPECIFICATION Spec
SYMMETRY Symmetric
INVARIANTS
    LineKept
    ReadsWhatWasTyped
    NothingLeftBehind
CHECK_DEADLOCK FALSE
