SPECIFICATION Spec
CONSTANTS
    b1 = b1
    b2 = b2
    b3 = b3
    o1 = o1
    o2 = o2
    o3 = o3
    Bindings = {b1, b2, b3}
    Owners = {o1, o2, o3}
    StaticBytes <- MCStaticBytes
    Inputs <- MCInputs
    None = None
    Junk = "junk"
    SizeMax = 7
    MaxLength = 3
    Capacity <- MCCapacity
    AliasedOperands = FALSE
INVARIANTS ReferencesMatchHolders ViewsReadable
PROPERTIES ExtendsOnlyUnshared ImplementsValues
CHECK_DEADLOCK FALSE
SYMMETRY NameSymmetry
