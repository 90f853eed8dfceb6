SPECIFICATION Spec
CONSTANTS
    Handles = {p1, p2, p3, p4}
    Sizes = {1, 3, 6}
    PoolSize = 25
    Header = 2
    MinAlloc = 1
SYMMETRY Alike
INVARIANTS BlocksTile FreeListIsTheFree NoFreeNeighbours AvailableIsTheFree PointersAreSafe
