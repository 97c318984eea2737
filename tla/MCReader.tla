------------------------------ MODULE MCReader ------------------------------
(* Trees of three changes with every undo, switch of branch and forgetting;  *)
(* four changes where 'undolevels' frees old headers, branches or the whole *)
(* tree; and changes of two edits on texts of up to three lines that go     *)
(* beyond a limit of the reader, the empty buffer included.                 *)
EXTENDS Reader

OneLine == {<<1>>}
TwoLines == {<<1, 2>>, Dummy}

MCSessions == {
    [files |-> OneLine,  levels |-> 2, changes |-> 3, lines |-> 2, doubled |-> {}],
    [files |-> OneLine,  levels |-> 1, changes |-> 4, lines |-> 2, doubled |-> {}],
    [files |-> TwoLines, levels |-> 2, changes |-> 2, lines |-> 3, doubled |-> {2}]}
=============================================================================
