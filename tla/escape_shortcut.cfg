\* Six shortcuts swapped at any time, every order of presses and releases.
SPECIFICATION Spec
CONSTANTS
    meta = meta
    esc = esc
    wide = wide
    fn = fn
    None = None
    Keys <- MCKeys
    Usage <- MCUsage
    Width <- MCWidth
    Shortcuts <- MCShortcuts
INVARIANTS TypeOK ProgressHeld EscapeLetsGo RemoteIsHeld
PROPERTIES EscapeNeedsAllKeys FreshWhenIdle
\* The loop ends and the bridge with it.
CHECK_DEADLOCK FALSE
