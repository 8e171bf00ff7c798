\* Two bridges with three keys between them and one host that takes two, while the
\* host subscribes, unsubscribes and is removed.
SPECIFICATION Spec
CONSTANTS
    b1 = b1
    b2 = b2
    h1 = h1
    h2 = h2
    None = None
    Hosts = {h1}
    Bridges = {b1, b2}
    Target <- OneHost
    Keys = {a, b, c}
    Modifiers = {}
    Slots = 2
    QueueCap = 1
CONSTRAINT ReportProtocolOnly
SYMMETRY Symmetry
INVARIANTS TypeOK NoKeyStuck
PROPERTIES SlotsAreASet
\* A server that panicked is not started again.
CHECK_DEADLOCK FALSE
