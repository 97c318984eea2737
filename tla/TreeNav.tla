------------------------------ MODULE TreeNav -------------------------------
(***************************************************************************)
(* internal/tui/tree.go and the tree keys of model.go: the index of a      *)
(* history by row position, the folds, and the cursor and first row of the *)
(* tree pane.                                                              *)
(***************************************************************************)
EXTENDS Integers, Sequences, SequencesExt, FiniteSets, FiniteSetsExt

CONSTANTS Orders,      \* histories: <<id, parent id>> in recorded branch order
          Heights      \* the rows the tree pane may have

ASSUME TreeNavAssumption ==
    Heights \subseteq Nat /\ \A o \in Orders : Len(o) > 0 /\ o[1] = <<0, 0>>

VARIABLES nodes,       \* the history, which never changes
          index,       \* tree: parent and end positions, and levels
          folds,       \* the positions that are folded
          selected,    \* the selected position
          top,         \* the position drawn in the first row
          rows         \* bodyRows
navVars == <<nodes, index, folds, selected, top, rows>>

Len0 == Len(nodes)
Positions == 0..Len0 - 1
Id(p) == nodes[p + 1][1]
NoParent == -1

-----------------------------------------------------------------------------
(* indexTree. *)

\* The ancestors that are still open when a child of parent comes.
Closing(ancestors, order, parent) ==
    LET keep == CHOOSE k \in 0..Len(ancestors) :
                    /\ k > 0 => order[ancestors[k] + 1][1] = parent
                    /\ \A j \in k+1..Len(ancestors) : order[ancestors[j] + 1][1] # parent
    IN SubSeq(ancestors, 1, keep)

\* The nodes whose subtrees end where a child of another open node comes.
Closed(before, open) == ToSet(before) \ ToSet(open)

\* The first child goes on its parent's line, every other starts a branch.
Level(above, parent, p) == IF parent + 1 = p THEN above ELSE above + 1

\* One position after another, with the positions from the root to the last
\* node open; a node whose parent is further up closes those below it.
Index(order) ==
    LET n == Len(order)
        at[p \in 0..n-1] ==
            IF p = 0
            THEN [parent |-> (0 :> NoParent), level |-> (0 :> 0), end |-> (0 :> n), open |-> <<0>>]
            ELSE LET t == at[p-1]
                     open == Closing(t.open, order, order[p+1][2])
                     closed == Closed(t.open, open)
                 IN [parent |-> t.parent @@ (p :> Last(open)),
                     level |-> t.level @@ (p :> Level(t.level[Last(open)], Last(open), p)),
                     end |-> [q \in closed |-> p] @@ t.end @@ (p :> n),
                     open |-> Append(open, p)]
    IN [x \in {"parent", "level", "end"} |-> at[n-1][x]]

-----------------------------------------------------------------------------
(* Rows. *)

Parent(p) == index.parent[p]
End(p) == index.end[p]
HasChildren(p) == End(p) > p + 1

\* The proper ancestors of p.
Ancestors(p) ==
    LET above[q \in {NoParent} \cup Positions] ==
            IF q = NoParent THEN {} ELSE {q} \cup above[Parent(q)]
    IN above[Parent(p)]

\* The row before the visible row p, or p: its parent, or the last row drawn
\* of the branch before it, whose outermost folded node stands for its end.
\* Fault: the innermost.
PreviousInnermost(f, p) ==
    IF p = 0 THEN 0
    ELSE LET folded == (Ancestors(p - 1) \cap f) \ ({Parent(p)} \cup Ancestors(p))
         IN IF p - 1 = Parent(p) \/ folded = {} THEN p - 1 ELSE Max(folded)
Previous(f, p) ==
    IF p = 0 THEN 0
    ELSE LET folded == (Ancestors(p - 1) \cap f) \ ({Parent(p)} \cup Ancestors(p))
         IN IF p - 1 = Parent(p) \/ folded = {} THEN p - 1 ELSE Min(folded)

\* The row after the visible row p, or p.
Following(f, p) ==
    LET q == IF p \in f THEN End(p) ELSE p + 1
    IN IF q >= Len0 THEN p ELSE q

\* The last row, and the row that stands for p.
Shown(f, p) == LET folded == Ancestors(p) \cap f
               IN IF folded = {} THEN p ELSE Min(folded)
LastRow(f) == Shown(f, Len0 - 1)

\* k rows further down or up.
Down(f, p, k) == LET d[i \in Nat] == IF i = 0 THEN p ELSE Following(f, d[i-1]) IN d[k]
Up(f, p, k) == LET u[i \in Nat] == IF i = 0 THEN p ELSE Previous(f, u[i-1]) IN u[k]

\* settle: the first row for a selection, folds and height.  Kept if it is
\* visible and the selection is in its window, else moved as little as needed.
Settled(f, p, t, height) ==
    LET first == Shown(f, t)
        window == {Down(f, first, k) : k \in 0..height - 1}
    IN IF height <= 0 \/ p < first THEN p
       ELSE IF p \in window THEN first ELSE Up(f, p, height - 1)

-----------------------------------------------------------------------------
NavInit ==
    /\ nodes \in Orders
    /\ index = Index(nodes)
    /\ folds = {}
    /\ selected \in Positions        \* the reference, or the one carried over
    /\ rows \in Heights
    /\ top = Settled({}, selected, 0, rows)

\* choose: a row other than the selected one is selected and brought in view.
Choose(p) ==
    /\ selected' = p
    /\ top' = IF p = selected THEN top ELSE Settled(folds, p, top, rows)
    /\ UNCHANGED <<nodes, index, folds, rows>>

Page == IF rows - 1 > 1 THEN rows - 1 ELSE 1

KeyUp == Choose(Previous(folds, selected))
KeyDown == Choose(Following(folds, selected))
KeyPageUp == Choose(Up(folds, selected, Page))
KeyPageDown == Choose(Down(folds, selected, Page))
KeyHome == Choose(0)
KeyEnd == Choose(LastRow(folds))

\* Left folds an open branch, and goes to the parent from any other row.
Fold ==
    /\ HasChildren(selected) /\ selected \notin folds
    /\ folds' = folds \cup {selected}
    /\ top' = Settled(folds', selected, Shown(folds', top), rows)
    /\ UNCHANGED <<nodes, index, selected, rows>>
KeyLeft ==
    \/ Fold
    \/ /\ ~HasChildren(selected) \/ selected \in folds
       /\ Parent(selected) # NoParent
       /\ Choose(Parent(selected))

\* Right unfolds a folded branch, and goes to the first child of an open one.
KeyRight ==
    \/ /\ selected \in folds
       /\ folds' = folds \ {selected}
       /\ UNCHANGED <<nodes, index, selected, top, rows>>
    \/ /\ selected \notin folds /\ HasChildren(selected)
       /\ Choose(selected + 1)

\* The prompt: a node by its number, with its ancestors unfolded.
Jump(id) ==
    \E p \in Positions :
        /\ Id(p) = id
        /\ folds' = folds \ Ancestors(p)
        /\ selected' = p
        /\ top' = Settled(folds', p, top, rows)
        /\ UNCHANGED <<nodes, index, rows>>

Resize(height) ==
    /\ rows' = height
    /\ top' = Settled(folds, selected, top, height)
    /\ UNCHANGED <<nodes, index, folds, selected>>

NavNext ==
    \/ KeyUp \/ KeyDown \/ KeyPageUp \/ KeyPageDown \/ KeyHome \/ KeyEnd
    \/ KeyLeft \/ KeyRight
    \/ \E p \in Positions : Jump(Id(p))
    \/ \E height \in Heights : Resize(height)

NavSpec == NavInit /\ [][NavNext]_navVars

-----------------------------------------------------------------------------
(* Properties. *)

\* The descendants of a node, from the history's parents alone, and the rows
\* that no folded ancestor hides.
ParentIn(p) == CHOOSE q \in Positions : Id(q) = nodes[p + 1][2]
Below(p) ==
    LET under[q \in Positions] == q = p \/ (q # 0 /\ under[ParentIn(q)])
    IN {q \in Positions : under[q]}
Visible == {p \in Positions : \A q \in folds : p = q \/ p \notin Below(q)}

\* A branch is the range of positions that the index says it is.
BranchesAreRanges == \A p \in Positions : Below(p) = p..End(p) - 1

\* An alternate branch is drawn one level deeper than the state it starts from,
\* and everything else at the level of its parent.
LevelsCountBranches ==
    \A p \in Positions \ {0} :
        index.level[p] = Cardinality({q \in (Ancestors(p) \cup {p}) \ {0} : q # ParentIn(q) + 1})

\* The row functions agree with the rows that are visible: whatever is folded,
\* below folds or above them, next, previous, last and shown never give a
\* hidden row nor leave out a visible one.
RowFunctionsAgree ==
    /\ \A p \in Visible :
         /\ Following(folds, p) = IF p = Max(Visible) THEN p
                                  ELSE Min({q \in Visible : q > p})
         /\ Previous(folds, p) = IF p = 0 THEN 0 ELSE Max({q \in Visible : q < p})
    /\ LastRow(folds) = Max(Visible)
    /\ \A p \in Positions : Shown(folds, p) = Max({q \in Visible : q <= p /\ p \in Below(q)})

\* The selection and the first row are rows that are drawn, and the selection
\* is one of the rows on screen, after every key, fold, jump and change of
\* height.
SelectionIsOnScreen ==
    /\ {selected, top} \subseteq Visible
    /\ rows > 0 => /\ selected >= top
                   /\ Cardinality({q \in Visible : top <= q /\ q < selected}) < rows

\* The rows drawn are the visible states in order, each at the level of its
\* branch, and the cursor is on one of those on screen, whatever was folded,
\* unfolded, jumped to or resized.
RowsAreTheVisibleOnes ==
    BranchesAreRanges /\ LevelsCountBranches /\ RowFunctionsAgree /\ SelectionIsOnScreen
=============================================================================
