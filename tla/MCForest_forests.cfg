SPECIFICATION Spec
SYMMETRY Symmetry
CONSTANTS
    Forests = {f1, f2}
    Nodes = {n1, n2, n3, n4}
    Odd = {n4}
    Value <- OddValue
    SizeMax = 15
INVARIANTS
    LinksPaired
    SizeExact
    IteratorsAgree
    EqualExact
PROPERTIES
    KeepsOrder
