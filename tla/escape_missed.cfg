\* The default shortcut only.
SPECIFICATION Spec
CONSTANTS
    meta = meta
    esc = esc
    wide = wide
    fn = fn
    None = None
    Keys <- MCKeys
    Usage <- MCUsage
    Width <- MCWidth
    Shortcuts <- OneShortcut
PROPERTY HeldShortcutEscapes
\* The loop ends and the bridge with it.
CHECK_DEADLOCK FALSE
