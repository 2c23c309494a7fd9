SPECIFICATION Spec
CONSTANTS
    h1 = h1
    h2 = h2
    r1 = r1
    Hooks <- TwoHooks
    Requests <- OneRequest
    MaxEvents = 5
INVARIANTS
    TypeOK
    StatusIsTrue
    SeenWasDelivered
PROPERTIES
    ImplementsStore
    FirstNameStays
SYMMETRY Overlap
