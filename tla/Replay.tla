------------------------------- MODULE Replay -------------------------------
(***************************************************************************)
(* internal/history/replay.go: Reconstruct turns the verified reference    *)
(* text into the text of another state.  It goes up from the reference to  *)
(* the ancestor the two states share, then down to the target, and applies *)
(* the entries of each header on the way once, as they are stored.         *)
(*                                                                         *)
(* Text.tla has the chunked workspace; here it is the lines it holds.      *)
(***************************************************************************)
EXTENDS History

CONSTANTS StateLines, StateBytes,   \* limits of one state
          EmptyLine                 \* the line with no bytes

ASSUME ReplayAssumption == StateLines \in Nat /\ StateBytes \in Nat

VARIABLES phase,      \* where Reconstruct is, or how it ended
          base,       \* the verified lines of the reference state
          target,     \* the state asked for
          at,         \* the node a loop of replayPath looks at
          ancestor,   \* the nearest state above both
          onPath,     \* replayPath's onReferencePath
          down,       \* headers from the target to the ancestor
          path,       \* headers from the reference to the ancestor, then all
          header, entry,   \* the places of the next header and entry to apply
          text        \* the workspace
replayVars == <<phase, base, target, at, ancestor, onPath, down, path, header, entry, text>>
request == <<base, target>>


\* Each line has its bytes, one for each line that is not empty, and a
\* terminator.
Bytes(lines) == Len(lines) + Cardinality({i \in DOMAIN lines : lines[i] # EmptyLine})

\* No request yet: New has not accepted the file, or nothing was bound to it.
NoRequest == /\ phase = "unbound" /\ base = <<>> /\ target = 0 /\ at = 0 /\ ancestor = 0
             /\ onPath = {} /\ down = <<>> /\ path = <<>>
             /\ header = 1 /\ entry = 1 /\ text = <<>>

\* Bind: the base is the one that was verified for this file.
Bind(lines) ==
    /\ pass = "valid" /\ phase = "unbound"
    /\ phase' = IF Len(lines) > StateLines \/ Bytes(lines) > StateBytes
                THEN "limit" ELSE "bound"
    /\ base' = lines
    /\ UNCHANGED <<target, at, ancestor, onPath, down, path, header, entry, text>>

\* A request starts with a workspace of its own.
Reconstruct(t) ==
    /\ phase = "bound"
    /\ phase' = "mark" /\ target' = t /\ at' = reference
    /\ text' = base
    /\ UNCHANGED <<base, ancestor, onPath, down, path, header, entry>>

-----------------------------------------------------------------------------
(* replayPath. *)

\* Fault: only the root is marked.
MarkRootOnly ==
    /\ phase = "mark"
    /\ onPath' = {0}
    /\ phase' = "down" /\ at' = target
    /\ UNCHANGED <<request, ancestor, down, path, header, entry, text>>

\* Mark the states from the reference to the root.
Mark ==
    /\ phase = "mark"
    /\ onPath' = onPath \cup {at}
    /\ IF at = 0 THEN phase' = "down" /\ at' = target
                 ELSE at' = Parent(at) /\ UNCHANGED phase
    /\ UNCHANGED <<request, ancestor, down, path, header, entry, text>>

\* Collect headers from the target up to the first state that is marked, the
\* ancestor.
Descend ==
    /\ phase = "down" /\ at \notin onPath
    /\ down' = Append(down, at)
    /\ at' = Parent(at)
    /\ UNCHANGED <<phase, request, ancestor, onPath, path, header, entry, text>>

Meet ==
    /\ phase = "down" /\ at \in onPath
    /\ phase' = "up" /\ ancestor' = at /\ at' = reference
    /\ UNCHANGED <<request, onPath, down, path, header, entry, text>>

\* Collect the headers from the reference to the ancestor, then the others the
\* other way round.
Ascend ==
    /\ phase = "up" /\ at # ancestor
    /\ path' = Append(path, at)
    /\ at' = Parent(at)
    /\ UNCHANGED <<phase, request, ancestor, onPath, down, header, entry, text>>


Turn ==
    /\ phase = "up" /\ at = ancestor
    /\ path' = path \o Reverse(down)
    /\ phase' = "apply"
    /\ UNCHANGED <<request, at, ancestor, onPath, down, header, entry, text>>

-----------------------------------------------------------------------------
(* applyHeader and applyEntry. *)

Entries(h) == NodeInfo(h).entries
BottomOf(e, lines) == IF e.bottom = 0 THEN Len(lines) + 1 ELSE e.bottom

\* Fault: an entry may not reach past the last line.
InRangeOfLines(e, lines) ==
    0 <= e.top /\ e.top < BottomOf(e, lines) /\ BottomOf(e, lines) <= Len(lines)
InRange(e, lines) ==
    0 <= e.top /\ e.top < BottomOf(e, lines) /\ BottomOf(e, lines) <= Len(lines) + 1

\* What the entry leaves; Neovim keeps one dummy empty line.
Size(e, lines) == Len(lines) - (BottomOf(e, lines) - 1 - e.top) + Len(e.lines)
Replaced(e, lines) ==
    IF Size(e, lines) = 0 THEN <<EmptyLine>>
    ELSE SubSeq(lines, 1, e.top) \o e.lines \o SubSeq(lines, BottomOf(e, lines), Len(lines))

\* Fault: the entries are applied last to first.
ApplyBackwards ==
    /\ phase = "apply" /\ header <= Len(path)
    /\ entry <= Len(Entries(path[header]))
    /\ LET list == Entries(path[header])
           e == list[Len(list) + 1 - entry]
       IN IF ~InRange(e, text) THEN phase' = "invalid" /\ UNCHANGED <<text, entry>>
          ELSE text' = Replaced(e, text) /\ entry' = entry + 1 /\ UNCHANGED phase
    /\ UNCHANGED <<request, at, ancestor, onPath, down, path, header>>

ApplyEntry ==
    /\ phase = "apply" /\ header <= Len(path)
    /\ entry <= Len(Entries(path[header]))
    /\ LET e == Entries(path[header])[entry] IN
       IF ~InRange(e, text) THEN phase' = "invalid" /\ UNCHANGED <<text, entry>>
       ELSE IF Size(e, text) > StateLines \/ Bytes(Replaced(e, text)) > StateBytes
       THEN phase' = "limit" /\ UNCHANGED <<text, entry>>
       ELSE text' = Replaced(e, text) /\ entry' = entry + 1 /\ UNCHANGED phase
    /\ UNCHANGED <<request, at, ancestor, onPath, down, path, header>>

EndHeader ==
    /\ phase = "apply" /\ header <= Len(path)
    /\ entry > Len(Entries(path[header]))
    /\ header' = header + 1 /\ entry' = 1
    /\ UNCHANGED <<phase, request, at, ancestor, onPath, down, path, text>>

\* Every header is applied: the workspace is the snapshot.
Finish ==
    /\ phase = "apply" /\ header > Len(path)
    /\ phase' = "done"
    /\ UNCHANGED <<request, at, ancestor, onPath, down, path, header, entry, text>>

CancelReplay ==
    /\ phase \in {"mark", "down", "up", "apply"}
    /\ phase' = "canceled"
    /\ UNCHANGED <<request, at, ancestor, onPath, down, path, header, entry, text>>

ReplayNext ==
    \/ \E t \in Nodes : Reconstruct(t)
    \/ Mark \/ Descend \/ Meet \/ Ascend \/ Turn
    \/ ApplyEntry \/ EndHeader \/ Finish
    \/ CancelReplay
-----------------------------------------------------------------------------
(* Properties. *)

\* Each header on the way is applied once, and no other: those above exactly
\* one of the two states.
Above(id) == LET above[k \in Nat] == IF k = 0 THEN {id} \ {0}
                                    ELSE above[k-1] \cup ({Parent(a) : a \in above[k-1]} \ {0})
             IN above[Len(file.records)]
OnlyTheHeadersBetween ==
    phase = "apply" =>
        /\ IsInjective(path)
        /\ ToSet(path) = (Above(reference) \ Above(target)) \cup (Above(target) \ Above(reference))

\* No workspace grows beyond the limits, at any entry of any header.
WithinLimits ==
    phase \in {"mark", "down", "up", "apply", "done"} =>
        Len(text) \in 1..StateLines /\ Bytes(text) <= StateBytes
=============================================================================
