--------------------------- MODULE MCEscapeShortcut ---------------------------
(* Four keys: two plain ones, one whose usage does not fit (and is truncated to *)
(* that of meta), one without a usage.                                          *)
EXTENDS EscapeShortcut

CONSTANTS meta, esc, wide, fn

MCKeys  == {meta, esc, wide, fn}
MCWidth == 4
MCUsage == [k \in MCKeys |-> CASE k = meta -> 1
                               [] k = esc  -> 2
                               [] k = wide -> MCWidth + 1
                               [] k = fn   -> None]

\* One key, two, a repeated key, a key that is not forwarded, one that cannot be,
\* and the empty list, which the property does not refuse.
MCShortcuts == {<<meta, esc>>, <<esc>>, <<meta, meta>>, <<fn, esc, meta>>,
                <<esc, wide>>, <<>>}

\* The default shortcut and a keyboard without surprises.
OneShortcut == {<<meta, esc>>}
=============================================================================
