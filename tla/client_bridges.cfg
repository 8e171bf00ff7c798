\* A mouse and a keyboard, and one bridge of another client; a line, or text that ends in
\* no newline, as by Ctrl-D after it (the end of the input does what a line does).
SPECIFICATION FairSpec
CONSTANTS
    Handles = {0, 1, 2}
    Wanted = {"mouse", "keyboard"}
    Inputs = {"line", "text"}
    None = None
INVARIANTS TypeOK CleanExit BreakIsUnread
PROPERTIES BreakIsHeard EscapeFreesAll
CONSTRAINT OneOther
