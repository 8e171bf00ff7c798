\* Keyboards only and one handle more than in registry_one_client: the daemon really stops.
SPECIFICATION FairSpec
CONSTANTS
    Clients = {c1}
    NamedClients = {}
    Keyboards = {kbd}
    Mice = {}
    Addrs = {a1}
    MaxId = 3
    NotifyCap = 1
    None = None
PROPERTY CancelReturns
CHECK_DEADLOCK FALSE
