---------------------------- MODULE MCFileExecutor ----------------------------
(* Small instances of FileExecutor.                                        *)
EXTENDS FileExecutor

CONSTANTS a, b, c, r1, r2

MCChar == {a, b, c}

MCTexts == {<<a, b>>, <<a, a, b>>}

\* The edits overlap in what they look for, and one looks for a longer text.
MCOps ==
  { [kind |-> "read"],
    [kind |-> "write", text |-> <<c>>],
    [kind |-> "write", text |-> <<b, a, b>>],
    [kind |-> "edit", old |-> <<a>>, new |-> <<c>>],
    [kind |-> "edit", old |-> <<a, b>>, new |-> <<>>],
    [kind |-> "edit", old |-> <<b>>, new |-> <<c, c>>] }
==============================================================================
