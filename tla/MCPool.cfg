SPECIFICATION Spec
CONSTANTS
    x1 = x1
    x2 = x2
    Objects = {x1, x2}
    Vacant = Vacant
    Zeroed = Zeroed
    BitsPerByte = 2
    SizeMax = 5
    GrowthCapacity <- MCGrowthCapacity
    MaxHeld = 2
INVARIANTS PoolTypeOK LiveWithinCapacity ReferencesMatchCarriers
PROPERTIES ImplementsPoolValues
CHECK_DEADLOCK FALSE
SYMMETRY ObjectSymmetry
