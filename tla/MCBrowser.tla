----------------------------- MODULE MCBrowser -----------------------------
(* The browser on two loads of small histories: a reload can move a node    *)
(* to another row, add or remove one, and change the reference.             *)
EXTENDS Browser

MCNodeId == 0 .. 2

MCHistories ==
    {[ids |-> <<0, 1>>, reference |-> 2],
     [ids |-> <<0, 2, 1>>, reference |-> 2]}
=============================================================================
