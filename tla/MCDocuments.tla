---------------------------- MODULE MCDocuments ----------------------------
(* What the worker makes documents from, side by side.                      *)
(*                                                                          *)
(* New runs on files: every linking of two records, and trees of up to four *)
(* records with fields replaced, some of which are still trees. The         *)
(* workspace of a replay goes through every edit of a text of up to six     *)
(* lines in chunks of four. The cache runs over two sessions and documents  *)
(* of which no three, some two, and one not even alone fit the budget.      *)
EXTENDS History, Cache, Text, TLC

CONSTANTS s1, s2

VARIABLE family

\* The trees of n changes, as the ordered children of each state.
Trees[n \in Nat] ==
    IF n = 0 THEN {[p \in {0} |-> <<>>]}
    ELSE UNION {{[p \in 0..n |-> IF p = n THEN <<>>
                                 ELSE IF p = q THEN InsertAt(t[p], i, n) ELSE t[p]] :
                    i \in 1..Len(t[q]) + 1} : <<t, q>> \in Trees[n-1] \X (0..n-1)}

At(s, i) == IF i \in DOMAIN s THEN s[i] ELSE 0

TreeRecord(t, id) ==
    LET p == CHOOSE q \in DOMAIN t : Contains(t[q], id)
        i == CHOOSE j \in DOMAIN t[p] : t[p][j] = id
    IN [sequence |-> id, parent |-> p, preferred |-> At(t[id], 1), save |-> NoSave,
        next |-> At(t[p], i + 1), previous |-> At(t[p], i - 1)]

Leaf(t, n) ==
    LET f[k \in Nat] == IF k = 0 THEN 0 ELSE IF t[f[k-1]] = <<>> THEN f[k-1] ELSE t[f[k-1]][1]
    IN f[n]

TreeFile(t, n) ==
    [records |-> [i \in 1..n |-> TreeRecord(t, i)], oldest |-> At(t[0], 1),
     newest |-> Leaf(t, n), nextRedo |-> 0, last |-> n, timeline |-> n, lastSave |-> NoSave]

Linked(n) == {TreeFile(t, n) : t \in Trees[n]}

\* A field of a record, or the file's oldest root (record 0), with another value.
Fields == {"parent", "preferred", "next", "previous", "sequence"}
Places(n) == {<<0, "oldest">>} \cup ((1..n) \X Fields)
With(f, at, v) == IF at[1] = 0 THEN [f EXCEPT !.oldest = v]
                               ELSE [f EXCEPT !.records[at[1]][at[2]] = v]

\* Every linking of two records.
TwoRecords ==
    \E p, c, x, y \in [1..2 -> 0..2], o, newest \in 0..2 :
       file = [records |-> [i \in 1..2 |->
                 [sequence |-> i, parent |-> p[i], preferred |-> c[i], next |-> x[i],
                  previous |-> y[i], save |-> NoSave]],
               oldest |-> o, newest |-> newest, nextRedo |-> 0, last |-> 2, timeline |-> 2,
               lastSave |-> NoSave]

\* A tree of three with two fields replaced, and one of four with one.
Corrupted ==
    \/ \E f \in Linked(3), a, b \in Places(3), v, w \in 0..4 :
          file = With(With(f, a, v), b, w)
    \/ \E f \in Linked(4), a \in Places(4), v \in 0..5 : file = With(f, a, v)

\* Every position in a tree, and limits that the file goes beyond.
Placed ==
    \E n \in 0..4 : \E f \in Linked(n), a, b \in 0..n+1 :
        file = [f EXCEPT !.newest = a, !.nextRedo = b]
Dated ==
    \E f \in Linked(2) :
        \/ \E l \in 0..2, t \in 0..3 : file = [f EXCEPT !.last = l, !.timeline = t]
        \/ \E a, b \in {NoSave, 1, 2} : file = [f EXCEPT !.records[1].save = a, !.lastSave = b]
TooLarge == file \in Linked(5)

-----------------------------------------------------------------------------
MCSession == {s1, s2}
MCNode == 1 .. 5
MCCharge == [n \in MCNode |-> <<1, 2, 2, 4, 6>>[n]]
MCLine == {0, 1}
MCTexts == {<<0, 1>>}
MCStored == {<<>>, <<1>>, <<0, 1>>, <<1, 0, 0, 1, 1>>}

Files == TwoRecords \/ Corrupted \/ Placed \/ Dated \/ TooLarge
NoChanges == file = TreeFile([p \in {0} |-> <<>>], 0)

MCInit ==
    /\ \/ family = "history" /\ Files
       \/ family \in {"cache", "text"} /\ NoChanges
    /\ Opened /\ CacheInit /\ TextInit

Ended == pass \in {"valid", "invalid", "limit", "canceled"}

MCNext ==
    /\ UNCHANGED family
    /\ \/ family = "history" /\ (HistoryNext \/ (Ended /\ UNCHANGED historyVars))
          /\ UNCHANGED <<cacheVars, textVars>>
       \/ family = "cache" /\ CacheNext /\ UNCHANGED <<historyVars, textVars>>
       \/ family = "text" /\ TextNext /\ UNCHANGED <<historyVars, cacheVars>>
MCSpec == MCInit /\ [][MCNext]_<<family, historyVars, cacheVars, textVars>>
=============================================================================
