CONSTANTS
    BITS = 2
    T = 10
    BUFFER = 1
    SIZE = 4
    EARLY = 6
    LATE = 4
    Data = {d0, d1}
    Zero = d0
SPECIFICATION MCSpec
INVARIANT PointersAgree
PROPERTIES ImplementsByteLine Arrives ImplementsQueue
