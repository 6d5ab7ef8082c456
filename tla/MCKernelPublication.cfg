SPECIFICATION Spec
CONSTANTS
    t1 = t1
    t2 = t2
    s1 = s1
    s2 = s2
    search = search
    register = register
    aggregate = aggregate
    refused = refused
    Threads = {t1, t2}
    Slots = {s1, s2}
    Images = {search, register, aggregate, refused}
    abi <- MCAbi
    sound <- MCSound
    fixed <- MCFixed
    NoSlot = NoSlot
    NoImage = NoImage
    Zero = Zero
    Corrupt = Corrupt
SYMMETRY Symmetric
INVARIANTS
    RunsItsImage
    MappedIsOwned
    SessionFits
