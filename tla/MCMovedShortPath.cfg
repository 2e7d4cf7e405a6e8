SPECIFICATION Spec
CONSTANTS
    Builder = {b1, b2}
    Region = {r1}
    Name = {n1}
    ShortText = {short}
    LongText = {long}
    None = None
    Garbage = Garbage
    Dead = Dead
    Unspecified = Unspecified
    MaxRegions = 1
SYMMETRY Symmetry
INVARIANT PathAsAsked
