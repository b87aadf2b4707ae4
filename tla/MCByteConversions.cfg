SPECIFICATION ConversionsSpec
CONSTANTS
    b1 = b1
    b2 = b2
    o1 = o1
    o2 = o2
    h1 = h1
    h2 = h2
    u1 = u1
    Bindings = {b1, b2}
    Owners = {o1, o2}
    Handles = {h1, h2}
    Buffers = {u1}
    StaticBytes <- MCStaticBytes
    Inputs = {}
    NewBytes = {"s"}
    None = None
    Junk = "junk"
    SizeMax = 7
    MaxLength = 3
    InlineBytes = 1
    Minimum = 1
    Capacity <- MCCapacity
    AliasedOperands = FALSE
INVARIANTS ConversionsTypeOK CountsMatch BuffersStored
PROPERTIES ImplementsByteValues
CHECK_DEADLOCK FALSE
SYMMETRY NameSymmetry
