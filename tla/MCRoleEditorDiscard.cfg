CONSTANTS
    n1 = n1
    n2 = n2
    Empty = Empty
    Names <- MCNames
    MaxSaves = 2

SPECIFICATION Spec

INVARIANT NoSilentDiscard
