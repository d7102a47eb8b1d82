SPECIFICATION Spec
CONSTANTS
    Addr = {a1, a2, a3, a4}
    Null = null
    Elem = {e1, e2}
INVARIANT NoLeak
INVARIANT TailIsLast
PROPERTY ImplementsQueue
SYMMETRY HeapSymmetry
