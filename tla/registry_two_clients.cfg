\* Two clients that bridge one keyboard, two handles, room for one reported death.
SPECIFICATION Spec
CONSTANTS
    Clients = {c1, c2}
    NamedClients = {}
    Keyboards = {kbd}
    Mice = {}
    Addrs = {a1}
    MaxId = 2
    NotifyCap = 1
    None = None
CONSTRAINT StartupFirst
SYMMETRY ClientAddrSymmetry
INVARIANTS TypeOK NoLostDeath DepartureLeavesNothing StuckTakesACrowd
PROPERTIES WithdrawnForCause AnswerAfterBreak ImplementsLifecycle
