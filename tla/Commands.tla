------------------------------ MODULE Commands -------------------------------
(***************************************************************************)
(* A run of xunhen from its arguments to its exit status: cmd/xunhen, with *)
(* the load of Load, the arguments of Arguments and the raw text of        *)
(* DiskText.  Writes to standard output and standard error may fail at any *)
(* byte.                                                                   *)
(*                                                                         *)
(* What the browser does is Program's and Screen's; how a history is       *)
(* validated, replayed and compared is Reader's and Diff's.                *)
(***************************************************************************)
EXTENDS Load, Arguments, DiskText

CONSTANTS
    Character,
    Texts,            \* texts a state may have: sequences of lines
    OutputBuffer      \* bytes of newOutput's buffer

ASSUME CommandsAssumption ==
    /\ Block \subseteq Decimal
    /\ OutputBuffer \in Nat \ {0}
    /\ Texts \subseteq Seq(Seq(Character))
    /\ \A t \in Texts :
        /\ Len(t) \in 1..StateLineLimit
        /\ \A i \in DOMAIN t : Len(t[i]) <= LineByteLimit /\ ~Contains(t[i], LF)

VARIABLES
    words, env,       \* the arguments; the entries of XUNHEN_UNDO_DIR
    options,          \* what they say
    terminal,         \* TCGETS of standard output: "yes", "no", or "error"
    texts,            \* the text of each node
    stage,
    rebuilt,          \* nodes reconstructed
    left,             \* pieces of output still to be written
    buffered, broken, \* the bufio.Writer
    stdout,
    status

invocation == <<words, env, options, terminal, texts>>
output == <<left, buffered, broken, stdout>>
commandVars == <<invocation, stage, rebuilt, output, status>>
allVars == <<vars, commandVars>>

Command == IF words = <<>> THEN "help" ELSE Head(words)
TextOf(n) == texts[n]
NoOptions == [refused |-> TRUE]

CommandsInit ==
    /\ options = IF Command \in Reading THEN Options(Command, Tail(words), env) ELSE NoOptions
    /\ mode = IF ~options.refused /\ options.in.source # "" THEN "source" ELSE "explicit"
    /\ needBase = (Command \in Reconstructing)
    /\ asked = IF options.refused THEN {} ELSE ToSet(options.nodes)
    /\ terminal \in {"yes", "no", "error"}
    /\ texts \in [Block -> Texts]
    /\ stage = "start" /\ rebuilt = 0
    /\ left = <<>> /\ buffered = <<>> /\ broken = FALSE
    /\ stdout = <<>>
    /\ status = -1

-----------------------------------------------------------------------------
(* run. *)

HelpWords == {"-h", "--help"}
HelpText == <<"help", LF>>

\* What run does with its arguments.
Reply ==
    CASE words = <<>> -> "text"
      [] Command \in HelpWords \cup {"version", "--version"} /\ words # <<>> ->
            IF Len(words) = 1 THEN "text" ELSE "usage"
      [] Command = "help" /\ words # <<>> ->
            IF Len(words) = 1 \/ (Len(words) = 2 /\ words[2] \in Reading \cup {"help", "version"})
            THEN "text" ELSE "usage"
      [] Command \in Reading ->
            IF Len(words) = 2 /\ words[2] \in HelpWords THEN "text"
            ELSE IF options.refused THEN "usage" ELSE "run"
      [] OTHER -> "usage"

\* A diagnostic, with the status it is reported with unless it is lost.
Diagnose(s) ==
    /\ stage' = "end"
    /\ status' \in {s, 1}
    /\ UNCHANGED <<rebuilt, output>>

Dispatch ==
    /\ stage = "start"
    /\ \/ Reply = "usage" /\ Diagnose(2)
       \/ /\ Reply = "text"
          /\ stage' = "text"
          /\ UNCHANGED <<rebuilt, output, status>>
       \/ /\ Reply = "run"
          /\ stage' = IF Command = "browse" \/ options.raw THEN "terminal" ELSE "load"
          /\ UNCHANGED <<rebuilt, output, status>>
    /\ UNCHANGED <<vars, invocation>>

\* writeOutput: without a buffer.
WriteText ==
    /\ stage = "text"
    /\ \E n \in 0..Len(HelpText) :
        /\ stdout' = SubSeq(HelpText, 1, n)
        /\ broken' = (n < Len(HelpText))
        /\ status' = IF n = Len(HelpText) THEN 0 ELSE 1
    /\ stage' = "end"
    /\ UNCHANGED <<vars, invocation, rebuilt, left, buffered>>

\* Raw output is for files and pipes, the browser for terminals.
CheckTerminal ==
    /\ stage = "terminal"
    /\ IF terminal = (IF Command = "browse" THEN "yes" ELSE "no")
       THEN /\ stage' = IF Command = "browse" THEN "browser" ELSE "load"
            /\ UNCHANGED <<rebuilt, output, status>>
       ELSE Diagnose(1)
    /\ UNCHANGED <<vars, invocation>>

\* The status of browse by how tui.Run ended: quit, failed, interrupted by a
\* key, hung up or terminated.
Browse ==
    /\ stage = "browser"
    /\ stage' = "end"
    /\ status' \in {0, 1, 130, 129, 143}
    /\ UNCHANGED <<vars, invocation, rebuilt, output>>

LoadStep == stage = "load" /\ Step /\ UNCHANGED commandVars

-----------------------------------------------------------------------------
(* recoverStates, and what comes of the states. *)

Loaded ==
    /\ stage = "load" /\ Ended
    /\ IF pc = "failed" THEN Diagnose(1)
       ELSE stage' = "rebuild" /\ UNCHANGED <<rebuilt, output, status>>
    /\ UNCHANGED <<vars, invocation>>

\* A replay that leaves the text or a limit fails.
Rebuild ==
    /\ stage = "rebuild" /\ rebuilt < Len(options.nodes)
    /\ \/ rebuilt' = rebuilt + 1 /\ UNCHANGED <<stage, output, status>>
       \/ Diagnose(1)
    /\ UNCHANGED <<vars, invocation>>

\* A unified diff: here all lines of one text go and those of the other come.
DiffPieces(from, to) ==
    LET lines(op, text) == FlattenSeq([i \in DOMAIN text |-> <<<<op>>, EscapeDisplay(text[i]), <<LF>>>>])
    IN IF from = to THEN <<>>
       ELSE <<<<"header", LF>>, <<"hunk", LF>>>> \o lines("-", from) \o lines("+", to)

Report(nodes) == <<<<"report", LF>>>> \o [i \in DOMAIN nodes |-> <<nodes[i], LF>>]

Pieces ==
    CASE Command = "inspect" -> Report(got.undo.blocks)
      [] Command = "diff" -> DiffPieces(TextOf(options.nodes[1]), TextOf(options.nodes[2]))
      [] OTHER -> StatePieces(TextOf(options.nodes[1]), options.raw, options.policy)

\* Everything else that can fail comes before the first write: the lines of a
\* raw export, the effort of a comparison.
Exportable ==
    Command = "show" /\ options.raw => \A i \in DOMAIN TextOf(options.nodes[1]) : RawLine(TextOf(options.nodes[1])[i])

Compose ==
    /\ stage = "rebuild" /\ rebuilt = Len(options.nodes)
    /\ \/ /\ Exportable
          /\ stage' = "write" /\ left' = Pieces
          /\ UNCHANGED <<rebuilt, buffered, broken, stdout, status>>
       \/ (~Exportable \/ Command = "diff") /\ Diagnose(1)
    /\ UNCHANGED <<vars, invocation>>

-----------------------------------------------------------------------------
(* output: a bufio.Writer. *)

\* The first n of these bytes are written if the sink takes them.
Emit(bytes, n) ==
    \E taken \in 0..n :
        /\ stdout' = stdout \o SubSeq(bytes, 1, taken)
        /\ broken' = (taken < n)
        /\ buffered' = SubSeq(bytes, taken + 1, Len(bytes))

\* What does not fit fills the buffer, which is written; a rest that is larger
\* than the buffer goes out past it.
Write ==
    /\ stage = "write" /\ left # <<>>
    /\ LET bytes == buffered \o Head(left)
           rest == Len(bytes) - OutputBuffer
       IN IF broken THEN UNCHANGED <<buffered, broken, stdout>>
          ELSE IF rest <= 0 THEN buffered' = bytes /\ UNCHANGED <<broken, stdout>>
          ELSE Emit(bytes, IF buffered = <<>> \/ rest > OutputBuffer THEN Len(bytes) ELSE OutputBuffer)
    /\ left' = Tail(left)
    /\ UNCHANGED <<vars, invocation, stage, rebuilt, status>>

\* Fault: only the last write counts.
FinishAnyway ==
    /\ stage = "write" /\ left = <<>>
    /\ IF broken THEN UNCHANGED <<buffered, broken, stdout>> ELSE Emit(buffered, Len(buffered))
    /\ stage' = "end"
    /\ status' = IF broken' /\ ~broken THEN 1 ELSE 0
    /\ UNCHANGED <<vars, invocation, rebuilt, left>>

\* finish: an earlier error is the error of Flush.
Finish ==
    /\ stage = "write" /\ left = <<>>
    /\ IF broken THEN UNCHANGED <<buffered, broken, stdout>> ELSE Emit(buffered, Len(buffered))
    /\ stage' = "end"
    /\ status' = IF broken' THEN 1 ELSE 0
    /\ UNCHANGED <<vars, invocation, rebuilt, left>>

CommandsNext ==
    \/ Dispatch \/ WriteText \/ CheckTerminal \/ Browse
    \/ LoadStep \/ Loaded \/ Rebuild \/ Compose \/ Write \/ Finish

\* A run, while others change the files.
CommandsSpec ==
    /\ words \in Seq(STRING) /\ env \in Seq(STRING) /\ CommandsInit
    /\ Files /\ LoadInit
    /\ [][CommandsNext \/ (Edit /\ UNCHANGED commandVars)]_allVars

-----------------------------------------------------------------------------
(* Properties. *)

\* The arguments of every command are read as Arguments says.
ArgumentsAreRead == stage = "start" /\ Command \in Reading => ParsesRight(Command, Tail(words), env, options)

Whole == IF Reply = "text" THEN HelpText ELSE FlattenSeq(Pieces)
LastIsEmpty(lines) == Len(lines) > 1 /\ Last(lines) = <<>>
Awkward(line) == line # <<>> /\ (Last(line) = CR \/ Head(line) = BOM)

\* Exit status 0 promises the whole output, and only a failed write leaves a
\* part of it: a run that fails in any other way, before or after the inputs
\* were read, prints nothing.
WholeOrNothing ==
    stage = "end" =>
        /\ IF status = 0 THEN Command = "browse" \/ stdout = Whole
           ELSE stdout # <<>> => broken /\ status = 1 /\ IsStrictPrefix(stdout, Whole)
        /\ status = 2 => file = None

\* A raw export reads back as a base with the lines of the state, which an
\* omitted newline takes an empty last line from; it is refused as one only for
\* a byte-order mark or a CR at the end of a line.
ExportIsABase ==
    stage = "end" /\ status = 0 /\ Reply = "run" /\ Command = "show" /\ options.raw =>
        LET lines == TextOf(options.nodes[1])
            back == SplitBase(stdout)
        IN IF back.refused THEN \E i \in DOMAIN lines : Awkward(lines[i])
           ELSE back.lines = IF options.policy # "include" /\ LastIsEmpty(lines) THEN Front(lines) ELSE lines

\* A node that an explicit undo file does not have is reported without opening
\* the base.
CheckedBeforeTheBase ==
    mode = "explicit" /\ reading = "text" => asked \subseteq ToSet(got.undo.blocks)

OutputIsWhole == WholeOrNothing /\ ExportIsABase /\ CheckedBeforeTheBase
=============================================================================
