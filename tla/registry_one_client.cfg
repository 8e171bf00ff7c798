\* One client with a well-known name, a keyboard and a mouse; calls, departures and
\* removals before the daemon listens to them; as many handles as the channel of
\* deaths has room for plus one.
SPECIFICATION FairSpec
CONSTANTS
    Clients = {c1}
    NamedClients = {c1}
    Keyboards = {kbd}
    Mice = {mouse}
    Addrs = {a1}
    MaxId = 2
    NotifyCap = 1
    None = None
INVARIANTS DepartureLeavesNothing
PROPERTIES CallsAnswered CancelReturns DeathsCleared DeparturesCleaned
