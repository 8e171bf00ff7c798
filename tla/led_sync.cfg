\* Two hosts, two LEDs, room for two unread events; the keyboard is bridged to either
\* host, again and again.
SPECIFICATION FairSpec
CONSTANTS
    Hosts = {h1, h2}
    NLeds = 2
    EventCap = 2
    None = None
INVARIANTS TypeOK LedsAgree
PROPERTIES LedsConverge
