SPECIFICATION Spec
CONSTANTS
    x1 = x1
    x2 = x2
    u1 = u1
    u2 = u2
    Objects = {x1, x2}
    Buffers = {u1, u2}
    Junk = Junk
    MaxHeld = 2
    MaxCount = 3
INVARIANTS TypeOK ReferencesMatchElements ElementsUsable
SYMMETRY ObjectSymmetry
