------------------------------ MODULE History -------------------------------
(***************************************************************************)
(* internal/history/history.go: New turns a decoded undo file into a tree  *)
(* it trusts.  The records of the file name each other by sequence number  *)
(* and 0 is the retained root; nothing else about the links is known until *)
(* the four passes have run.                                               *)
(*                                                                         *)
(* A node stands for itself where the code goes through its index: indexing *)
(* refuses a number that two records share.                                *)
(***************************************************************************)
EXTENDS Integers, Sequences, SequencesExt, FiniteSets

CONSTANTS NodeLimit,    \* limits.Nodes
          NoSave        \* a save number that is not known

ASSUME HistoryAssumption == NodeLimit \in Nat /\ NoSave \notin Nat

VARIABLES file,        \* the decoded file, which never changes
          pass,        \* the pass New is in, or how it ended
          stack,       \* walk: the nodes to visit, the next one last
          order,       \* the nodes in recorded branch order
          reference    \* the state the file was written in
historyVars == <<file, pass, stack, order, reference>>

Passes == {"records", "links", "walk", "reference"}

Sequences == {file.records[i].sequence : i \in DOMAIN file.records}
Nodes == Sequences \cup {0}
NodeInfo(id) ==
    IF id = 0 THEN [parent |-> 0, preferred |-> file.oldest, next |-> 0, previous |-> 0]
              ELSE file.records[CHOOSE i \in DOMAIN file.records :
                                    file.records[i].sequence = id]
Parent(id) == NodeInfo(id).parent

\* New takes a file and checks its size before it starts.
FirstPass == IF Len(file.records) > NodeLimit THEN "limit" ELSE "records"
Opened == pass = FirstPass /\ stack = <<0>> /\ order = <<>> /\ reference = 0
Open(f) ==
    /\ file' = f /\ pass' = FirstPass'
    /\ stack' = <<0>> /\ order' = <<>> /\ reference' = 0

-----------------------------------------------------------------------------
(* The passes. *)

To(next, ok) == pass' = IF ok THEN next ELSE "invalid"

\* indexRecords: numbers are unique, allocated and not the root's, and no save
\* is later than the last one.
RecordHolds(i) ==
    LET r == file.records[i] IN
    /\ r.sequence # 0
    /\ \A j \in 1..i-1 : file.records[j].sequence # r.sequence
    /\ r.sequence <= file.last
    /\ r.save # NoSave /\ file.lastSave # NoSave => r.save <= file.lastSave

IndexRecords ==
    /\ pass = "records"
    /\ To("links", \A i \in DOMAIN file.records : RecordHolds(i))
    /\ UNCHANGED <<file, stack, order, reference>>

\* The checks validateLinks makes of one node.
LinksHold(id) ==
    LET n == NodeInfo(id) IN
    /\ {n.parent, n.preferred, n.next, n.previous} \subseteq Nodes
    /\ id # 0 => /\ n.parent < id
                 /\ n.previous = 0 => NodeInfo(n.parent).preferred = id
    /\ n.preferred # 0 => /\ NodeInfo(n.preferred).parent = id
                          /\ NodeInfo(n.preferred).previous = 0
    /\ n.next # 0 => /\ n.next # id
                     /\ NodeInfo(n.next).parent = n.parent
                     /\ NodeInfo(n.next).previous = id
    /\ n.previous # 0 => /\ n.previous # id
                         /\ NodeInfo(n.previous).parent = n.parent
                         /\ NodeInfo(n.previous).next = id

ValidateLinks ==
    /\ pass = "links"
    /\ To("walk", \A id \in Nodes : LinksHold(id))
    /\ UNCHANGED <<file, stack, order, reference>>

\* One turn of walk's loop: visit the node on top of the stack, unless it was
\* visited before, and leave its next sibling under its preferred child.
Present(id) == IF id = 0 THEN <<>> ELSE <<id>>

\* Fault: the sibling is visited before the child.
VisitSiblingFirst ==
    /\ pass = "walk" /\ stack # <<>>
    /\ LET id == Last(stack)
           n == NodeInfo(id)
       IN /\ order' = Append(order, id)
          /\ stack' = Front(stack) \o Present(n.preferred) \o Present(n.next)
    /\ UNCHANGED <<file, pass, reference>>

Visit ==
    /\ pass = "walk" /\ stack # <<>>
    /\ LET id == Last(stack)
           n == NodeInfo(id)
       IN IF Contains(order, id)
          THEN /\ pass' = "invalid" /\ UNCHANGED order
               /\ stack' = Front(stack)
          ELSE /\ order' = Append(order, id) /\ UNCHANGED pass
               /\ stack' = Front(stack) \o Present(n.next) \o Present(n.preferred)
    /\ UNCHANGED <<file, reference>>

\* Fault: what the walk missed is not counted.
EndWalkUncounted ==
    /\ pass = "walk" /\ stack = <<>>
    /\ To("reference", TRUE)
    /\ UNCHANGED <<file, stack, order, reference>>

EndWalk ==
    /\ pass = "walk" /\ stack = <<>>
    /\ To("reference", Len(order) = Cardinality(Nodes))
    /\ UNCHANGED <<file, stack, order, reference>>

\* The states on the preferred path, the root first.
PreferredPath ==
    LET reached[k \in Nat] ==
            IF k = 0 THEN {0}
            ELSE reached[k-1] \cup {NodeInfo(id).preferred : id \in reached[k-1]}
    IN reached[Cardinality(Nodes)]

\* bindReference: the reference is the newest header, which must be a leaf, or
\* the parent of the next redo; either must be on the preferred path.
PositionHolds ==
    /\ {file.newest, file.nextRedo} \subseteq Nodes
    /\ file.timeline <= file.last
    /\ IF file.nextRedo # 0
       THEN file.nextRedo \in PreferredPath
       ELSE NodeInfo(file.newest).preferred = 0 /\ file.newest \in PreferredPath

BindReference ==
    /\ pass = "reference"
    /\ To("valid", PositionHolds)
    /\ reference' = IF pass' # "valid" THEN reference
                    ELSE IF file.nextRedo # 0 THEN Parent(file.nextRedo) ELSE file.newest
    /\ UNCHANGED <<file, stack, order>>

\* The context ends; a pass notices before or between its steps.
CancelNew ==
    /\ pass \in Passes
    /\ pass' = "canceled"
    /\ UNCHANGED <<file, stack, order, reference>>

HistoryNext == IndexRecords \/ ValidateLinks \/ Visit \/ EndWalk \/ BindReference \/ CancelNew
-----------------------------------------------------------------------------
(* Properties. *)

\* What a well-formed file is, without the passes: the children of each state
\* can be put in one order that its preferred child starts and the sibling
\* links follow in both directions, changes are allocated after the state they
\* change, and the position is on the path of preferred children.
Children(id) == {c \in Sequences : Parent(c) = id}
LinkedAs(id, s) ==
    /\ NodeInfo(id).preferred = (IF s = <<>> THEN 0 ELSE s[1])
    /\ \A i \in DOMAIN s :
         /\ NodeInfo(s[i]).previous = (IF i = 1 THEN 0 ELSE s[i-1])
         /\ NodeInfo(s[i]).next = (IF i = Len(s) THEN 0 ELSE s[i+1])
WellFormed ==
    /\ Cardinality(Sequences) = Len(file.records)
    /\ Sequences \subseteq 1..file.last
    /\ \A i \in DOMAIN file.records :
         file.records[i].save = NoSave \/ file.lastSave = NoSave
            \/ file.records[i].save <= file.lastSave
    /\ \A id \in Sequences : Parent(id) \in Nodes /\ Parent(id) < id
    /\ \A id \in Nodes : \E s \in SetToSeqs(Children(id)) : LinkedAs(id, s)
    /\ file.timeline <= file.last
    /\ file.newest \in Nodes
    /\ \/ file.nextRedo \in PreferredPath \ {0}
       \/ file.nextRedo = 0 /\ file.newest \in PreferredPath /\ Children(file.newest) = {}

\* New accepts a well-formed file only: the local checks of validateLinks and
\* one walk leave no ring of siblings, no stranded branch, no second parent.
AcceptsTreesOnly == pass = "valid" => WellFormed

\* And it refuses none: no check is stricter than the tree Neovim writes.
RefusesNoTree == pass = "invalid" => ~WellFormed

AcceptsExactlyTrees == AcceptsTreesOnly /\ RefusesNoTree

\* The "cycle or repeated child" answer of walk is a precaution: links that
\* pass validateLinks cannot lead to a node twice.
NoNodeIsReachedTwice ==
    pass = "walk" => IsInjective(order \o stack)

\* The order At serves is recorded branch order: a state, then the whole of
\* its preferred child's branch, then the branch of each alternative.
Below(id) ==
    LET below[k \in Nat] == IF k = 0 THEN {id}
                            ELSE below[k-1] \cup UNION {Children(c) : c \in below[k-1]}
    IN below[Cardinality(Nodes)]
Place(id) == CHOOSE i \in DOMAIN order : order[i] = id
RecordedOrder ==
    pass = "valid" =>
        /\ order[1] = 0 /\ ToSet(order) = Nodes
        /\ \A id \in Nodes :
             LET n == NodeInfo(id) IN
             /\ n.preferred # 0 => Place(n.preferred) = Place(id) + 1
             /\ n.next # 0 => Place(n.next) = Place(id) + Cardinality(Below(id))

\* The reference is a state of the preferred path, and the change to redo from
\* there is the one the file names.
ReferenceIsThePosition ==
    pass = "valid" =>
        /\ reference \in PreferredPath
        /\ NodeInfo(reference).preferred = file.nextRedo

\* The walk is a traversal of the tree in recorded order, and the position the
\* file names is a state on its way.
WalkIsATraversal == NoNodeIsReachedTwice /\ RecordedOrder /\ ReferenceIsThePosition
=============================================================================
