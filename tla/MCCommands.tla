----------------------------- MODULE MCCommands ------------------------------
(* Three families of runs: every short sequence of arguments; loads whose    *)
(* files are changed twice; and commands on files that stay as they are, of *)
(* every text and with every failure to write.                              *)
EXTENDS Commands, TLC

CONSTANTS t1, t2

MCTarget == {t1, t2}
MCBlock == {"0", "1"}
MCStarts == {<<"0", "1">>, <<"1">>}
MCUnsupported == {<<"1">>}

Word(name) == [malformed |-> FALSE, name |-> name, attached |-> FALSE, value |-> "true"]
Pair(name, value) == [malformed |-> FALSE, name |-> name, attached |-> TRUE, value |-> value]
MCFlag ==
    "--undo" :> Word("undo") @@ "--undo=u" :> Pair("undo", "u") @@ "--undo=" :> Pair("undo", "")
    @@ "--base=b" :> Pair("base", "b") @@ "--source=f" :> Pair("source", "f")
    @@ "--undo-dir" :> Word("undo-dir") @@ "--undo-dir=d" :> Pair("undo-dir", "d")
    @@ "--node" :> Word("node") @@ "--node=0" :> Pair("node", "0") @@ "--node=1" :> Pair("node", "1")
    @@ "--from=0" :> Pair("from", "0") @@ "--to" :> Word("to") @@ "--to=1" :> Pair("to", "1")
    @@ "--raw" :> Word("raw") @@ "--raw=false" :> Pair("raw", "false")
    @@ "--final-newline=include" :> Pair("final-newline", "include")
    @@ "--final-newline=omit" :> Pair("final-newline", "omit")
    @@ "--help" :> Word("help") @@ "-h" :> Word("h")
    @@ "---undo-dir" :> [Word("undo-dir") EXCEPT !.malformed = TRUE]

Common == {"f", "--", "--undo-dir", "--undo-dir=d", "--undo=u"}
Upto(n, c, tokens) == {<<c>> \o s : s \in SeqOf(tokens, n)}

\* Short ones of many arguments, longer ones of few.
ArgumentWords ==
    Upto(3, "inspect", Common \cup {"-", "", "--undo", "--undo=", "---undo-dir", "--source=f", "--help", "-h"})
    \cup Upto(3, "browse", Common \cup {"--base=b", "--source=f", "--undo"})
    \cup Upto(4, "diff", {"f", "--", "--undo-dir", "--undo=u", "--base=b", "--from=0", "--to", "1"})
    \cup Upto(4, "show", {"f", "--", "--undo-dir=d", "--undo=u", "--base=b", "--node", "--node=1", "1"})
    \cup Upto(4, "show", {"f", "--", "--node=1", "--raw", "--raw=false", "--final-newline=include"})
    \cup {<<>>, <<"version">>, <<"--version", "f">>, <<"--help">>, <<"-h", "f">>, <<"help">>, <<"help", "show">>,
          <<"help", "f">>, <<"help", "show", "f">>, <<"f">>}
MCEnvs == {<<"">>, <<"d", "", "e">>, <<"d", "e", "g">>}

BySource(c, more) == <<c, "f", "--undo-dir=d">> \o more
Explicit(c, more) == <<c, "--undo=u", "--base=b">> \o more
Loads(more) == {<<"inspect", "--undo=u">>, <<"inspect", "f", "--undo-dir=d">>,
                BySource("show", more), Explicit("show", more)}

Raw(policy) == <<"--raw", "--final-newline=" \o policy>>
Pipelines ==
    {Explicit("show", <<"--node=1">> \o more) : more \in {<<>>, Raw("include"), Raw("omit")}}
    \cup {Explicit("diff", <<"--from=0", "--to=1">>), <<"inspect", "--undo=u">>, Explicit("browse", <<>>)}

Lines == {<<>>, <<"a", "a">>, <<NUL>>, <<"a", CR>>, <<BOM>>}
MCCharacter == {"a", NUL, CR, BOM}
MCTexts == SeqOf(Lines, 2) \ {<<>>}
Compared == SeqOf({<<>>, <<"a", "a">>, <<NUL>>}, 2) \ {<<>>}
Plain == [n \in Block |-> <<<<>>>>]

\* The family of a run: its environment tells.
Disturbing == env = <<"disturbed">>
Running == env = <<"running">>

NoFiles == names = [p \in Path |-> None] /\ disk = <<>>
Prepared ==
    /\ Contents("undo") = <<"0", "1">>
    /\ names[<<"undo", t2>>] = None
    /\ \A t \in Target : names[<<"text", t>>] # None
Matching == Prepared /\ \A t \in Target : Contents("text") = <<"0", "1">>

MCInit ==
    \/ /\ words \in ArgumentWords /\ env \in MCEnvs
       /\ terminal = "no" /\ texts = Plain /\ CommandsInit
       /\ link = t1 /\ NoFiles /\ LoadInit
    \/ /\ words \in Loads(<<"--node=0">>) /\ env = <<"disturbed">>
       /\ link = t1 /\ target = t1 /\ Files /\ Prepared
       /\ terminal = "no" /\ texts = Plain /\ CommandsInit /\ LoadInit
    \/ /\ words \in Pipelines /\ env = <<"running">>
       /\ link = t1 /\ target = t1 /\ Files /\ Matching
       /\ texts \in [Block -> MCTexts]
       /\ texts["0"] \in (IF Command = "diff" THEN Compared ELSE {<<<<>>>>})
       /\ Command = "diff" => texts["1"] \in Compared
       /\ CommandsInit /\ LoadInit

MCNext ==
    \/ ~Disturbing /\ CommandsNext
    \/ Disturbing /\ (Dispatch \/ LoadStep)
    \/ Disturbing /\ stage = "load" /\ Edit /\ UNCHANGED commandVars
    \/ (stage = "end" \/ (Disturbing /\ Ended)) /\ UNCHANGED allVars
MCSpec == MCInit /\ [][MCNext]_allVars

==============================================================================
