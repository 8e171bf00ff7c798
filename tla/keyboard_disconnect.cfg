\* Two hosts, one of which goes away.
SPECIFICATION Spec
CONSTANTS
    b1 = b1
    b2 = b2
    h1 = h1
    h2 = h2
    None = None
    Hosts = {h1, h2}
    Bridges = {b1, b2}
    Target <- TwoHosts
    Keys = {a}
    Modifiers = {}
    Slots = 2
    QueueCap = 2
INVARIANTS ServiceOutlivesHosts
\* A server that panicked is not started again.
CHECK_DEADLOCK FALSE
