------------------------------ MODULE Arguments ------------------------------
(***************************************************************************)
(* The arguments of a command: cmd/xunhen/args.go with the flags that      *)
(* show.go, diff.go, inspect.go and browse.go register.                    *)
(*                                                                         *)
(* An argument is a string taken as a whole; Flag says what it is if it    *)
(* begins with a dash and is neither "-" nor "--".                         *)
(***************************************************************************)
EXTENDS Naturals, Sequences, SequencesExt, FiniteSets

CONSTANTS
    Flag,         \* argument -> [malformed, name, attached, value]
    Decimal,      \* the values that are node IDs
    SearchDirs    \* limit

ASSUME ArgumentsAssumption ==
    /\ {"-", "--", ""} \cap DOMAIN Flag = {}
    /\ "" \notin Decimal
    /\ SearchDirs \in Nat \ {0}

Reading == {"inspect", "show", "diff", "browse"}    \* the commands with inputs
Reconstructing == Reading \ {"inspect"}

Paths(c) == {"undo", "source"} \cup (IF c \in Reconstructing THEN {"base"} ELSE {})
Selectors(c) == CASE c = "show" -> <<"node">> [] c = "diff" -> <<"from", "to">> [] OTHER -> <<>>
Defined(c) ==
    Paths(c) \cup ToSet(Selectors(c)) \cup {"undo-dir"}
    \cup (IF c = "show" THEN {"raw", "final-newline"} ELSE {})
TakesValue(c, name) == name \in Defined(c) \ {"raw"}

-----------------------------------------------------------------------------
(* The flag package. *)

\* FlagSet.Parse: it stops at the first argument that is not a flag.
ReadFlags(c, args) ==
    LET read(so, arg) ==
            IF so.at = "rest" THEN [so EXCEPT !.rest = Append(@, arg)]
            ELSE IF so.at = "value"
            THEN [so EXCEPT !.at = "flag", !.given = Append(@, [name |-> so.name, value |-> arg])]
            ELSE IF arg = "--" THEN [so EXCEPT !.at = "rest", !.ended = TRUE]
            ELSE IF arg \notin DOMAIN Flag THEN [so EXCEPT !.at = "rest", !.rest = <<arg>>]
            ELSE LET f == Flag[arg]
                     known == so.known /\ ~f.malformed /\ f.name \in Defined(c)
                 IN IF known /\ TakesValue(c, f.name) /\ ~f.attached
                    THEN [so EXCEPT !.at = "value", !.name = f.name]
                    ELSE [so EXCEPT !.known = known,
                                    !.given = Append(@, [name |-> f.name, value |-> f.value])]
    IN FoldLeft(read, [at |-> "flag", name |-> "", known |-> TRUE, given |-> <<>>,
                       rest |-> <<>>, ended |-> FALSE], args)

\* A flag is not defined, or has no value that it needs.
Failed(flags) == ~flags.known \/ flags.at = "value"

\* The setters: paths are not empty, and only a directory or a Boolean may be
\* given again.
Settable(given) ==
    /\ \A i \in DOMAIN given :
        LET v == given[i].value
        IN CASE given[i].name \in {"node", "from", "to"} -> v \in Decimal
             [] given[i].name = "final-newline" -> v \in {"include", "omit"}
             [] given[i].name = "raw" -> v \in {"true", "false"}
             [] OTHER -> v # ""
    /\ \A i, j \in DOMAIN given :
        given[i].name = given[j].name => i = j \/ given[i].name \in {"undo-dir", "raw"}

-----------------------------------------------------------------------------
(* parseArgs. *)

\* The flags with their values, and the rest.  After a flag that needs a
\* value comes its value, whatever it looks like; after "--" only files.
Sorted(c, so, arg, valued) ==
    CASE so.next = "value" -> [so EXCEPT !.named = Append(@, arg), !.next = "flag"]
      [] so.next = "files" -> [so EXCEPT !.positional = Append(@, arg)]
      [] so.next = "flag" /\ arg = "--" -> [so EXCEPT !.next = "files"]
      [] so.next = "flag" /\ arg \in DOMAIN Flag ->
            [so EXCEPT !.named = Append(@, arg),
                       !.next = IF valued /\ TakesValue(c, Flag[arg].name) THEN "value" ELSE "flag"]
      [] OTHER -> [so EXCEPT !.positional = Append(@, arg)]
Unsorted == [named |-> <<>>, positional |-> <<>>, next |-> "flag"]

\* Fault: a flag with an attached value takes the next argument too.
SplitAttached(c, args) == FoldLeft(LAMBDA so, arg : Sorted(c, so, arg, TRUE), Unsorted, args)

SplitArgs(c, args) ==
    FoldLeft(LAMBDA so, arg : Sorted(c, so, arg, arg \in DOMAIN Flag /\ ~Flag[arg].attached),
             Unsorted, args)

ParseArgs(c, args) ==
    LET split == SplitArgs(c, args)
        flags == ReadFlags(c, split.named)
    IN [given |-> flags.given, files |-> split.positional,
        failed |-> Failed(flags) \/ ~Settable(flags.given) \/ flags.rest # <<>>]

-----------------------------------------------------------------------------
(* parseInputs, check, and what each command asks for besides. *)

ValuesOf(name, given) ==
    LET named == SelectSeq(given, LAMBDA g : g.name = name) IN [i \in DOMAIN named |-> named[i].value]
ValueOf(name, given) ==
    LET values == ValuesOf(name, given) IN IF values = <<>> THEN "" ELSE Last(values)

\* splitUndoDirs of a variable with these entries.
Listed(entries) == SelectSeq(entries, LAMBDA e : e # "")

Inputs(parsed, env) ==
    LET source == IF Len(parsed.files) = 1 THEN Head(parsed.files) ELSE ValueOf("source", parsed.given)
        dirs == ValuesOf("undo-dir", parsed.given)
    IN [undo |-> ValueOf("undo", parsed.given), base |-> ValueOf("base", parsed.given), source |-> source,
        dirs |-> IF source # "" /\ dirs = <<>> THEN Listed(env) ELSE dirs]

\* A FILE takes the place of every other input.
FileAlone(parsed) ==
    parsed.files # <<>> =>
        /\ Len(parsed.files) = 1 /\ Head(parsed.files) # ""
        /\ \A name \in {"source", "undo", "base"} : ValueOf(name, parsed.given) = ""

Checked(c, in) ==
    /\ Len(in.dirs) <= SearchDirs
    /\ IF in.source # "" THEN in.undo = "" /\ in.base = "" /\ in.dirs # <<>>
       ELSE in.dirs = <<>> /\ in.undo # "" /\ (c \in Reconstructing => in.base # "")

Complete(c, given) ==
    /\ \A s \in ToSet(Selectors(c)) : ValueOf(s, given) # ""
    /\ (ValueOf("raw", given) = "true") = (ValueOf("final-newline", given) # "")

\* What a command is run with; refused if its arguments are a usage error.
Options(c, args, env) ==
    LET parsed == ParseArgs(c, args)
        in == Inputs(parsed, env)
    IN [in |-> in,
        nodes |-> [i \in DOMAIN Selectors(c) |-> ValueOf(Selectors(c)[i], parsed.given)],
        raw |-> ValueOf("raw", parsed.given) = "true",
        policy |-> ValueOf("final-newline", parsed.given),
        refused |-> ~(~parsed.failed /\ FileAlone(parsed) /\ Checked(c, in) /\ Complete(c, parsed.given))]

-----------------------------------------------------------------------------
(* The same by the flag package alone, and the invocations that the help   *)
(* texts allow.                                                            *)

\* Parsed again and again, with the argument it stopped at set aside.
Interleaved(c, args) ==
    LET parts[i \in 1..Len(args) + 1] ==
            LET flags == ReadFlags(c, SubSeq(args, i, Len(args)))
            IN <<flags>> \o IF Failed(flags) \/ flags.ended \/ flags.rest = <<>> THEN <<>>
                            ELSE parts[Len(args) - Len(flags.rest) + 2]
        all == parts[1]
        given == FlattenSeq([i \in DOMAIN all |-> all[i].given])
    IN [given |-> given,
        files |-> [i \in 1..Len(all) - 1 |-> Head(all[i].rest)] \o Last(all).rest,
        failed |-> Failed(Last(all)) \/ ~Settable(given)]

Allowed(c, all, env) ==
    LET times(name) == Len(ValuesOf(name, all.given))
        dirs == IF times("undo-dir") = 0 THEN Cardinality({i \in DOMAIN env : env[i] # ""})
                ELSE times("undo-dir")
        byFile == /\ times("source") + Len(all.files) = 1 /\ "" \notin ToSet(all.files)
                  /\ times("undo") + times("base") = 0
                  /\ dirs \in 1..SearchDirs
        explicit == /\ times("source") + Len(all.files) + times("undo-dir") = 0
                    /\ times("undo") = 1
                    /\ times("base") = IF c \in Reconstructing THEN 1 ELSE 0
    IN /\ ~all.failed
       /\ byFile \/ explicit
       /\ \A s \in ToSet(Selectors(c)) : times(s) = 1
       /\ (times("raw") > 0 /\ ValueOf("raw", all.given) = "true") = (times("final-newline") = 1)

\* Flags before and after FILE mean what they mean to the flag package, which
\* parses up to the next argument that is not one; and a command runs only on
\* one source with at least one and at most so many directories to search, or
\* on an explicit undo file, with its base if it needs one.  (Quantified to be
\* evaluated once.)
ParsesRight(c, args, env, options) ==
    \A parsed \in {ParseArgs(c, args)}, plain \in {Interleaved(c, args)} :
        /\ parsed.failed = plain.failed
        /\ ~parsed.failed => parsed = plain
        /\ options.refused = ~Allowed(c, plain, env)
=============================================================================
