------------------------------ MODULE MCSearch -------------------------------
(* The name of a source, and the search for its history.                     *)
(*                                                                          *)
(* Two directories, the first beside the source; two arguments that may lead *)
(* to one directory, to two or nowhere; two files, hard links included.     *)
EXTENDS Search, Names, TLC

CONSTANTS d1, d2, p1, p2, f1, f2

MCDir == {d1, d2}
MCArgs == <<p1, p2>>
MCFile == {f1, f2}
MCSize == (f1 :> 1) @@ (f2 :> 2)

(* Nothing changes during a search with a budget of two or three, enough for *)
(* one file or just for both, and everything may be as it likes to begin    *)
(* with. With a budget of four there are changes, and to begin with every   *)
(* directory and name can be looked at, the first path leads to the first   *)
(* directory, both files are histories and one of them is the one that      *)
(* matches.                                                                 *)
Changing == limit = 4

Readily ==
    /\ names[p1] = d1
    /\ \A p \in Path : names[p] # NoDir
    /\ \A s \in Slot : entry[s] # Denied
    /\ kind[f1] = "match"
    /\ kind[f2] \in {"match", "other"}
    /\ base

(* Four places for files, links and directories, at two levels.             *)
MCLocation == {<<"a">>, <<"b">>, <<"a", "a">>, <<"a", "b">>}
MCLinked ==
    {<<"a">>, <<"b">>, <<"..">>, <<".">>, <<"/", "a">>, <<"..", "/", "b">>, <<"a", "/", "b">>,
     <<"a", "/">>, <<"~", "/", "a">>}
MCSources ==
    {<<"a">>, <<"b">>, <<".">>, <<"..">>, <<"~">>, <<"/">>, <<"/", "b">>, <<"b", "/">>,
     <<"a", "/", "b">>, <<"b", "/", "a">>, <<"b", "/", "..">>, <<"..", "/", "a">>, <<"~", "/", "a">>,
     <<"/", "a", "/", "b">>, <<"a", "/", "/", ".">>, <<"b", "/", "..", "/", "b">>}

Naming == source # <<>>

(* One of the two at a time.                                                *)
MCInit ==
    \/ Init /\ (Changing => Readily) /\ tree = <<>> /\ cwd = <<>> /\ source = <<>> /\ resolved = Nowhere
    \/ /\ names = [p \in Path |-> d1] /\ entry = [s \in Slot |-> Absent]
       /\ kind = [f \in File |-> "match"] /\ limit = 2 /\ needBase = FALSE /\ base = FALSE
       /\ Init /\ NamesInit
MCNext ==
    \/ ~Naming /\ (Step \/ (Changing /\ Edit) \/ Finished) /\ UNCHANGED nameVars
    \/ Naming /\ NamesNext /\ UNCHANGED vars
    \/ Naming /\ resolved # Nowhere /\ UNCHANGED <<vars, nameVars>>
MCSpec == MCInit /\ [][MCNext]_<<vars, nameVars>>

==============================================================================
