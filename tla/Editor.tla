------------------------------- MODULE Editor -------------------------------
(***************************************************************************)
(* The producer of undo files: a Neovim buffer with its undo tree, as far  *)
(* as src/internal/history and src/docs/undo-format.md depend on it.  The  *)
(* editor is not part of the repository, so every definition is external:  *)
(* it is what History and Replay have to be right about.                   *)
(*                                                                         *)
(* A header is a change, named by its sequence number; 0 is the retained   *)
(* root.  The entries of a header are swapped with the buffer each time    *)
(* the header is undone or redone, so a header above the buffer's state    *)
(* holds undo text and a header that is undone holds redo text.            *)
(***************************************************************************)
EXTENDS Integers, Sequences, SequencesExt, FiniteSets

CONSTANTS Sessions,     \* what a user of the editor may do: see SessionType
          MaxInsert     \* bound: lines a change puts in place of a range

\* A session has the texts its buffer may start with, 'undolevels' (the headers
\* kept before the oldest goes), and three bounds: the sequence numbers that are
\* allocated, the lines of the buffer, and the changes that may edit twice.
SessionType == [files : SUBSET (Seq(Nat) \ {<<>>}), levels : Nat \ {0},
                changes : Nat, lines : Nat \ {0}, doubled : SUBSET Nat]

ASSUME EditorAssumption == Sessions \subseteq SessionType /\ MaxInsert \in Nat

VARIABLES session,   \* the session it is
          buffer,    \* the lines of the buffer
          parent,    \* header |-> header, on the headers that are kept
          children,  \* state |-> its children, the preferred one first
          entries,   \* header |-> its entries, in list order
          newest,    \* the header last added or reached as a leaf, or 0
          nextRedo,  \* the header undone last, or 0
          last,      \* the last sequence number allocated
          seen       \* history: state |-> the lines the buffer had there
editorVars == <<session, buffer, parent, children, entries, newest, nextRedo, last, seen>>

Headers == DOMAIN parent
Root == 0
Dummy == <<0>>            \* the one empty line of an empty buffer

\* The state the buffer is in.
Current == IF nextRedo = 0 THEN newest ELSE parent[nextRedo]
First(s) == IF s = <<>> THEN 0 ELSE s[1]
Leaf(h) == children[h] = <<>>

\* The place of h among the alternatives of its parent.
Rank(h) == LET row == children[parent[h]] IN CHOOSE i \in DOMAIN row : row[i] = h

\* h and every header below it: what no set with h and with the children of its
\* members is without.
Branch(h) ==
    {g \in Headers : \A S \in SUBSET Headers :
        (h \in S /\ \A c \in Headers : parent[c] \in S => c \in S) => g \in S}

EditorInit ==
    /\ session \in Sessions
    /\ buffer \in session.files
    /\ parent = <<>> /\ entries = <<>>
    /\ children = [n \in {Root} |-> <<>>]
    /\ newest = 0 /\ nextRedo = 0 /\ last = 0
    /\ seen = [n \in {Root} |-> buffer]

-----------------------------------------------------------------------------
(* Swapping text: u_undoredo(). *)

\* The lines of text with those strictly between top and bottom replaced.
\* What would leave no line leaves the dummy one.
Splice(text, top, bottom, lines) ==
    LET spliced == SubSeq(text, 1, top) \o lines \o SubSeq(text, bottom, Len(text))
    IN IF spliced = <<>> THEN Dummy ELSE spliced

Bottom(e, text) == IF e.bottom = 0 THEN Len(text) + 1 ELSE e.bottom

\* One entry: the text after the swap, and the inverse entry.
Swap(e, text) ==
    [text  |-> Splice(text, e.top, Bottom(e, text), e.lines),
     entry |-> [top |-> e.top, bottom |-> e.top + Len(e.lines) + 1,
                lines |-> SubSeq(text, e.top + 1, Bottom(e, text) - 1)]]

\* A header: its entries in list order, the inverse list built back to front.
UndoRedo(list, text) ==
    LET done[k \in 0..Len(list)] ==
            IF k = 0 THEN [text |-> text, entries |-> <<>>]
            ELSE LET s == Swap(list[k], done[k-1].text)
                 IN [text |-> s.text, entries |-> <<s.entry>> \o done[k-1].entries]
    IN done[Len(list)]

-----------------------------------------------------------------------------
(* Changes: u_savecommon() and the edit that follows it. *)

\* The texts an edit makes from text, each with the entry that undoes it.  The
\* new lines are name + 1, name + 2...  A range that reaches the end of the
\* buffer is recorded with bottom 0.
Edits(text, name) ==
    {[text  |-> Splice(text, r[1], r[2], [i \in 1..n |-> name + i]),
      entry |-> [top |-> r[1],
                 bottom |-> IF r[2] > Len(text) THEN 0 ELSE r[1] + n + 1,
                 lines |-> SubSeq(text, r[1] + 1, r[2] - 1)]] :
        r \in {q \in (0..Len(text)) \X (1..Len(text) + 1) : q[1] < q[2]},
        n \in 0..MaxInsert}

\* A change saves and edits once, or twice under one header; the later entry
\* comes first in the list.
Changes(text, h) ==
    LET once == {[text |-> e.text, entries |-> <<e.entry>>] : e \in Edits(text, 10 * h)}
        twice == UNION {{[text |-> f.text, entries |-> <<f.entry>> \o c.entries] :
                            f \in Edits(c.text, 10 * h + 5)} : c \in once}
    IN {c \in once \cup (IF h \in session.doubled THEN twice ELSE {}) : Len(c.text) <= session.lines}

\* The headers freed to keep 'undolevels', before a header is added: all of
\* them if the oldest is undone, the oldest if it has no alternative, else the
\* branch of its last alternative.
Freed ==
    LET roots == children[Root] IN
    IF Cardinality(Headers) <= session.levels THEN {}
    ELSE IF nextRedo = roots[1]               THEN Headers
    ELSE IF Len(roots) = 1                    THEN {roots[1]}
    ELSE                                           Branch(Last(roots))

\* The freed ones of a row of children are its last.
KeptOf(row, kept) ==
    SubSeq(row, 1, CHOOSE n \in 0..Len(row) : \A i \in DOMAIN row : i <= n <=> row[i] \in kept)

\* A change adds header h in front of the alternatives at the current state.
\* Freeing the oldest header makes its children the roots.
Change ==
    LET h == last + 1
        kept == Headers \ Freed
        rooted(n) == IF n \in kept THEN n ELSE Root
        at == rooted(Current)
        oldest == IF Freed = {First(children[Root])} THEN First(children[Root]) ELSE Root
        left(n) == KeptOf(children[IF n = Root THEN oldest ELSE n], kept)
    IN /\ last < session.changes
       /\ \E c \in Changes(buffer, h) :
            /\ buffer' = c.text
            /\ entries' = [k \in kept \cup {h} |-> IF k = h THEN c.entries ELSE entries[k]]
            /\ seen' = [k \in kept \cup {Root, h} |->
                          IF k = h THEN c.text ELSE seen[IF k = Root THEN oldest ELSE k]]
       /\ parent' = [k \in kept \cup {h} |-> IF k = h THEN at ELSE rooted(parent[k])]
       /\ children' = [n \in kept \cup {Root, h} |->
                         IF n = h THEN <<>> ELSE IF n = at THEN <<h>> \o left(n) ELSE left(n)]
       /\ last' = h /\ newest' = h /\ nextRedo' = 0

-----------------------------------------------------------------------------
(* Moving in the tree: u_undo(), u_redo(), undo_time(), u_undo_and_forget(). *)

Move(h) ==
    LET r == UndoRedo(entries[h], buffer)
    IN /\ buffer' = r.text
       /\ entries' = [entries EXCEPT ![h] = r.entries]

\* Undo the header that made the current state.
Undo ==
    /\ Current # Root
    /\ Move(Current)
    /\ nextRedo' = Current
    /\ UNCHANGED <<parent, children, newest, last, seen>>

\* Redo a child of the current state.  Choosing an alternative moves it to
\* the front; newest follows only when a leaf is reached.
Redo(h) ==
    /\ parent[h] = Current
    /\ Move(h)
    /\ children' = [children EXCEPT ![Current] = <<h>> \o RemoveAt(@, Rank(h))]
    /\ nextRedo' = First(children[h])
    /\ newest' = IF Leaf(h) THEN h ELSE newest
    /\ UNCHANGED <<parent, last, seen>>

\* Undo-and-forget: the change undone leaves the tree with what is below it.
\* Only below the oldest headers.
Forget ==
    LET h == Current
        p == parent[h]
        gone == Branch(h)
        keep(f) == [k \in DOMAIN f \ gone |-> f[k]]
    IN /\ h # Root /\ p # Root
       /\ buffer' = UndoRedo(entries[h], buffer).text
       /\ parent' = keep(parent) /\ entries' = keep(entries)
       /\ children' = [keep(children) EXCEPT ![p] = Tail(@)]
       /\ seen' = keep(seen)
       /\ newest' = p
       /\ nextRedo' = First(children'[p])
       /\ last' = IF last = h THEN last - 1 ELSE last

EditorNext ==
    /\ \/ Change
       \/ Undo
       \/ \E h \in Headers : Redo(h)
       \/ Forget
    /\ UNCHANGED session

=============================================================================
