CONSTANTS
    Size = 8
    SubDivisions = 1
    Reach = 4
    MaxObjects = 3
    Boxes <- MCCrossed
    Rays <- MCUpwards
    Frusta = {}
SPECIFICATION Spec
INVARIANT FirstIsNearest
