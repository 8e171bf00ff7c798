\* One bridge with a key and a modifier; its host switches between the protocols.
SPECIFICATION FairSpec
CONSTANTS
    b1 = b1
    b2 = b2
    h1 = h1
    h2 = h2
    None = None
    Hosts = {h1}
    Bridges = {b1}
    Target <- OneHost
    Keys = {a}
    Modifiers = {m}
    Slots = 1
    QueueCap = 2
INVARIANTS HostIsCurrent
PROPERTIES QueueGetsRoom
\* A server that panicked is not started again.
CHECK_DEADLOCK FALSE
