\* One host that comes and goes, with room for two unread events of a server.
SPECIFICATION FairSpec
CONSTANTS
    Hosts = {h1}
    EventCap = 2
    MaxEvents = 4
    None = None
INVARIANTS TypeOK ListIsRight PowerIsRight
PROPERTIES GetsListed
\* The hosts may be silent, and the daemon may have stopped.
CHECK_DEADLOCK FALSE
