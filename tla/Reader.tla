------------------------------- MODULE Reader -------------------------------
(***************************************************************************)
(* An undo file from the editor that writes it to the text xunhen shows.   *)
(* Editor makes and moves in an undo tree and writes it; History accepts   *)
(* the file; Replay reconstructs one of its states.  The editor remembers  *)
(* the text it had in each state, which is what a snapshot has to be.      *)
(***************************************************************************)
EXTENDS Editor, Replay

\* Neither leaves a buffer without a line.
ASSUME ReaderAssumption == Dummy = <<EmptyLine>>

vars == <<editorVars, historyVars, replayVars>>

\* The undo file of the tree: u_serialize_uhp() for each header that is kept.
Sibling(h, d) ==
    LET row == children[parent[h]]
    IN IF Rank(h) + d \in DOMAIN row THEN row[Rank(h) + d] ELSE 0
Serialized(h) ==
    [sequence |-> h, parent |-> parent[h], preferred |-> First(children[h]),
     next |-> Sibling(h, 1), previous |-> Sibling(h, -1),
     save |-> NoSave, entries |-> entries[h]]
Written ==
    LET listed == SetToSeq(Headers)
    IN [records |-> [i \in DOMAIN listed |-> Serialized(listed[i])],
        oldest |-> First(children[Root]), newest |-> newest, nextRedo |-> nextRedo,
        last |-> last, timeline |-> Current, lastSave |-> NoSave]

NoFile == [records |-> <<>>, oldest |-> 0, newest |-> 0, nextRedo |-> 0,
           last |-> 0, timeline |-> 0, lastSave |-> NoSave]

Init ==
    /\ EditorInit
    /\ file = NoFile /\ pass = "unread" /\ stack = <<>> /\ order = <<>> /\ reference = 0
    /\ NoRequest

Edit == pass = "unread" /\ EditorNext /\ UNCHANGED <<historyVars, replayVars>>

\* The editor writes the file and is done; New reads it.
Write ==
    /\ pass = "unread"
    /\ Open(Written)
    /\ UNCHANGED <<editorVars, replayVars>>

Read == HistoryNext /\ UNCHANGED <<editorVars, replayVars>>

\* The base is the text the hash in the file was taken of: the buffer's.
Verified == Bind(buffer) /\ UNCHANGED <<editorVars, historyVars>>

Rebuild == ReplayNext /\ UNCHANGED <<editorVars, historyVars>>

Next == Edit \/ Write \/ Read \/ Verified \/ Rebuild
Spec == Init /\ [][Next]_vars

-----------------------------------------------------------------------------
(* Properties. *)

\* A snapshot is the text the editor had in the state it is asked for, whatever
\* was changed, undone, redone on another branch, forgotten or pruned before
\* the file was written, and wherever the buffer stood then.
SnapshotIsTheState == phase = "done" => text = seen[target]

\* And so is the workspace between two headers: after a header on the way up
\* the text of its parent, after one on the way down its own.
StateAfter(i) == IF i <= Len(path) - Len(down) THEN Parent(path[i]) ELSE path[i]
EveryHeaderLandsOnAState ==
    phase = "apply" /\ entry = 1 =>
        text = IF header = 1 THEN seen[reference] ELSE seen[StateAfter(header - 1)]

\* A replay goes the one way there is between two states, from text to text.
GoesTheWayBetween == EveryHeaderLandsOnAState /\ OnlyTheHeadersBetween

\* No file the editor writes is refused, neither its links nor the range of an
\* entry.
NothingWrittenIsRefused == pass # "invalid" /\ phase # "invalid"

\* Nothing but a limit stops a reader of what an editor wrote, and that in time.
OnlyLimitsRefuse == NothingWrittenIsRefused /\ WithinLimits
=============================================================================
