SPECIFICATION Spec
CONSTANTS
    Enqueuers = {e1, r1}
    Dequeuers = {d1, r1}
    Removers = {r1}
    Nodes = {n1, n2, n3}
    NULL = NULL
    CountRange = 8
SYMMETRY NodeSymmetry
INVARIANTS TypeOK Chained OnePlace CountExact SpinsForSomeone
PROPERTY ImplementsFifoQueue
