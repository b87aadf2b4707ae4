SPECIFICATION Spec
CONSTANTS
    MaxAddress = 15
    Budget = 5
    Reserve = 5
    ActivationSize = 1
    Fallback = 4
    main = main
    outer = outer
    inner = inner
    leaf = leaf
    helper = helper
    wide = wide
    narrow = narrow
    single = single
    Units <- MCUnits
    Root = main
    FrameSites = {wide, narrow, single}
    UnitOf <- MCUnitOf
    FrameSize <- MCFrameSize
    NativeCalls <- DirectCalls
    NativeVersions = {inner}
    Mappings <- MCMappings
    InitialCapacity = 3
    SizeMax = 13
    Builds = {TRUE, FALSE}
INVARIANTS TypeOK FrameAddressesCurrent FramesWithinStorage NativeStackKept
PROPERTIES ImplementsControlStack
CHECK_DEADLOCK FALSE
