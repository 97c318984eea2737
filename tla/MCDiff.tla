------------------------------- MODULE MCDiff --------------------------------
(* Every pair of states of up to MaxLines lines over three texts, which are *)
(* numbered in the order they are met, and five lines in every order.       *)
EXTENDS Diff

CONSTANT MaxLines

States == UNION {[1..n -> 1..3] : n \in 0..MaxLines}
Canonical(s) == \A i \in DOMAIN s : s[i] <= 1 + Cardinality({s[h] : h \in 1..(i - 1)})
Five == [i \in 1..5 |-> i]
Shuffles == {s \in [1..5 -> 1..5] : \A i, j \in 1..5 : i # j => s[i] # s[j]}

MCInputs ==
    {p \in States \X States : Canonical(p[1] \o p[2])} \cup {<<Five, s>> : s \in Shuffles}

(* All exact; anchors and small regions; anchors only; nothing; and limits  *)
(* that are reached on the way.                                             *)
MCEfforts == {[exact |-> 1000, total |-> 1000], [exact |-> 0, total |-> 1000],
              [exact |-> 0, total |-> 1], [exact |-> 0, total |-> 0], [exact |-> 12, total |-> 60]}

==============================================================================
