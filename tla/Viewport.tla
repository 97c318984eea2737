------------------------------ MODULE Viewport ------------------------------
(***************************************************************************)
(* How a line of untrusted text becomes cells of the terminal:             *)
(* internal/termtext (viewport.go and escape.go), and the quoting of       *)
(* internal/tui/text.go, which promises what the viewport will draw.       *)
(*                                                                         *)
(* A line is a sequence of runes.  Offsets count runes here and bytes in   *)
(* the code, so a rune is never cut.  Runes are told apart by what they do *)
(* to the cells around them; the prepended marks of some scripts, which    *)
(* join the character after them, are left out.                            *)
(***************************************************************************)
EXTENDS Integers, Sequences, SequencesExt, FiniteSets, FiniteSetsExt

CONSTANTS TabWidth, Stride, MaxCluster      \* indexStride and maxCluster

ASSUME ViewportAssumption == {TabWidth, Stride, MaxCluster} \subseteq Nat \ {0}

Methods == {"runes", "clusters"}
Tab == "tab"
Wide == "wide"               \* an ideograph
Symbol == "symbol"           \* narrow, or wide with a selector
Mark == "mark"               \* a combining mark, of no width
Selector == "selector"       \* the emoji presentation selector
Spacing == "spacing"         \* a spacing mark, of one cell
Joiner == "joiner"           \* a format character: joins the symbols around it
Control == "control"         \* a control or an invalid byte: joins nothing

Joining == {Mark, Selector, Spacing, Joiner}
Foreign == Joining \cup {Wide, Symbol}
Readable(r) == r \notin {Control, Joiner}
Ascii(r) == r \notin Foreign \cup {Tab, Control}

\* The digits that name a rune in an escape.
Code(r) == CASE r = Tab -> "t" [] r = Wide -> "w" [] r = Symbol -> "s" [] r = Mark -> "m"
             [] r = Selector -> "e" [] r = Spacing -> "p" [] r = Joiner -> "j"
             [] r = Control -> "c"
Quoted(r) == <<"\\", "u", Code(r)>>

-----------------------------------------------------------------------------
(* The renderer. *)

\* The first cluster of a text: a rune and what joins it.
Cluster(text) ==
    LET joined(i) == \/ text[i] \in Joining
                     \/ /\ text[1] = Symbol
                        /\ text[i - 1] = Joiner
                        /\ text[i] = Symbol
        length(k) == k = 1 \/ (text[1] \notin {Tab, Control} /\ \A i \in 2..k : joined(i))
        n == Max({k \in 1..Len(text) : length(k)})
    IN SubSeq(text, 1, n)

RuneWidth(r) == IF r = Wide THEN 2 ELSE IF r \in Joining \ {Spacing} THEN 0 ELSE 1

\* The cells of a cluster: its first rune that has a width, or all of it.
ClusterWidth(text, method) ==
    IF method = "clusters" /\ text[1] = Symbol /\ Contains(text, Selector) THEN 2
    ELSE IF \E i \in DOMAIN text : RuneWidth(text[i]) > 0
         THEN RuneWidth(text[SelectInSeq(text, LAMBDA r : RuneWidth(r) > 0)])
         ELSE 0

\* What the renderer takes a text of no tabs and controls to be wide.
RenderedWidth(text, method) ==
    LET from[i \in Nat] ==
            IF i > Len(text) THEN 0
            ELSE LET c == Cluster(SubSeq(text, i, Len(text)))
                 IN ClusterWidth(c, method) + from[i + Len(c)]
    IN from[1]

-----------------------------------------------------------------------------
(* Escape and EscapeDisplay. *)

Shows(r, display) ==
    IF display THEN Readable(r) ELSE Ascii(r) /\ r \notin {"\"", "\\"}
Escaped(text, display) ==
    FlattenSeq([i \in DOMAIN text |-> IF Shows(text[i], display) THEN <<text[i]>> ELSE Quoted(text[i])])

-----------------------------------------------------------------------------
(* next: the unit at an offset, which starts at a column. *)

Drawn(size, width, text, kind) == [size |-> size, width |-> width, text |-> text, kind |-> kind]

\* escaped: printable ASCII stays, everything else is named.
Escape(raw) ==
    LET text == FlattenSeq([i \in DOMAIN raw |-> IF Ascii(raw[i]) THEN <<raw[i]>> ELSE Quoted(raw[i])])
    IN Drawn(Len(raw), Len(text), text, "ascii")

Joins(cluster) == cluster[1] \in Joining
Continues(rest) == rest # <<>> /\ rest[1] # Tab /\ Readable(rest[1])

\* A cluster that reaches the limit may go on after it, where the renderer
\* would measure it otherwise.
CutOff(line, end, limit) == end = limit /\ Continues(SubSeq(line, limit, Len(line)))

\* Printable ASCII with nothing that could join it is a unit, an unreadable rune
\* is escaped alone, and any other cluster ends at its first tab or unreadable
\* rune and is measured on at most MaxCluster runes.  The code cuts the cluster
\* once it has found it; as its end depends on nothing after it, the cut is made
\* first here.
Unit(line, offset, column, method) ==
    LET breaks == {i \in offset + 1 .. Len(line) : line[i] = Tab \/ ~Readable(line[i])}
        limit == Min({offset + MaxCluster, Len(line) + 1} \cup breaks)
        cluster == Cluster(SubSeq(line, offset, limit - 1))
        width == ClusterWidth(cluster, method)
        single == Ascii(line[offset]) /\ (offset = Len(line) \/ line[offset + 1] \notin Foreign)
    IN IF line[offset] = Tab
       THEN Drawn(1, TabWidth - (column % TabWidth), <<>>, "tab")
       ELSE IF single
       THEN Drawn(1, 1, <<line[offset]>>, "ascii")
       ELSE IF ~Readable(line[offset])
       THEN Escape(<<line[offset]>>)
       ELSE IF width = 0 \/ CutOff(line, offset + Len(cluster), limit) \/ Joins(cluster)
       THEN Escape(cluster)
       ELSE Drawn(Len(cluster), width, cluster, "cluster")

\* The units from an offset and column on, each with where it starts.
UnitsFrom(line, start, method) ==
    LET units[at \in (Nat \ {0}) \X Nat] ==
            IF at[1] > Len(line) THEN <<>>
            ELSE LET u == Unit(line, at[1], at[2], method)
                 IN <<[offset |-> at[1], column |-> at[2], unit |-> u]>>
                        \o units[<<at[1] + u.size, at[2] + u.width>>]
    IN units[start]

EndColumn(units) ==
    IF units = <<>> THEN 0 ELSE Last(units).column + Last(units).unit.width

-----------------------------------------------------------------------------
(* Columns. *)

NoColumns == [method |-> "none"]

\* Index: a checkpoint at the first unit at or past every Stride runes.
\* Fault: every checkpoint is Stride after the last one that was due.
IndexByStride(line, method) ==
    LET index(so, u) ==
            [so EXCEPT !.width = u.column + u.unit.width, !.due = @ + Stride,
                       !.checkpoints = IF so.due > Len(line) THEN @ ELSE Append(@, <<so.due, u.column>>)]
    IN IF Len(line) <= Stride THEN NoColumns
       ELSE FoldLeft(index, [method |-> method, width |-> 0, checkpoints |-> <<>>, due |-> 1],
                     UnitsFrom(line, <<1, 0>>, method))

\* A checkpoint is due Stride runes after the last one.
Due(checkpoints, offset) ==
    checkpoints = <<>> \/ offset >= Last(checkpoints)[1] + Stride

ColumnsOf(line, method) ==
    LET units == UnitsFrom(line, <<1, 0>>, method)
        after[n \in 0..Len(units)] ==
            IF n = 0 THEN [method |-> method, width |-> 0, checkpoints |-> <<>>]
            ELSE LET u == units[n]
                 IN [after[n-1] EXCEPT
                        !.width = u.column + u.unit.width,
                        !.checkpoints = IF Due(@, u.offset) THEN Append(@, <<u.offset, u.column>>) ELSE @]
    IN IF Len(line) <= Stride THEN NoColumns ELSE after[Len(units)]

\* seek: the last checkpoint at or before a column.
Seek(index, column) ==
    Last(SelectSeq(index.checkpoints, LAMBDA c : c[2] <= column))

Width(line, index, method) ==
    IF index.method = method THEN index.width ELSE EndColumn(UnitsFrom(line, <<1, 0>>, method))

-----------------------------------------------------------------------------
(* Clip. *)

Spaces(n) == [i \in 1..n |-> " "]

\* What is visible of a unit in the cells from low up to high.
Seen(u, low, high) ==
    LET end == u.column + u.unit.width
    IN IF u.unit.kind # "tab" /\ low = u.column /\ high = end THEN u.unit.text
       ELSE IF u.unit.kind = "ascii" THEN SubSeq(u.unit.text, low - u.column + 1, high - u.column)
       ELSE Spaces(high - low)

Clip(line, index, method, from, width) ==
    LET end == from + width
        start == IF index.method = method THEN Seek(index, from) ELSE <<1, 0>>
        clip(so, u) ==
            LET low == Max({u.column, from})
                high == Min({u.column + u.unit.width, end})
            IN IF low >= high THEN so
               ELSE [text |-> so.text \o Seen(u, low, high), cells |-> so.cells + high - low]
    IN FoldLeft(clip, [text |-> <<>>, cells |-> 0],
                IF width <= 0 THEN <<>> ELSE UnitsFrom(line, start, method))

-----------------------------------------------------------------------------
(* shellQuote and drawnAsIs. *)

Bare == {"a", "x", "u", "w", "m"}       \* path characters, of those that occur
NeedsByte(r) == ~Ascii(r)

DrawnAsIs(quoted) ==
    \A line \in {<<" ">> \o quoted \o <<" ">>}, method \in Methods :
        Clip(line, NoColumns, method, 0, Width(line, NoColumns, method)).text = line

SingleQuoted(arg) ==
    <<"'">> \o FlattenSeq([i \in DOMAIN arg |->
        IF arg[i] = "'" THEN <<"'", "\\", "'", "'">> ELSE <<arg[i]>>]) \o <<"'">>

ByteQuoted(arg) ==
    <<"$", "'">> \o FlattenSeq([i \in DOMAIN arg |->
        IF arg[i] \in {"'", "\\"} THEN <<"\\", arg[i]>>
        ELSE IF NeedsByte(arg[i]) THEN <<"\\", "x", Code(arg[i])>>
        ELSE <<arg[i]>>]) \o <<"'">>

Printable(arg) == \A i \in DOMAIN arg : arg[i] # Tab /\ Readable(arg[i])

\* Fault: printable text is taken to be drawn as it is.
ShellQuotePrintable(arg) ==
    IF arg # <<>> /\ Range(arg) \subseteq Bare THEN arg
    ELSE IF Printable(arg) THEN SingleQuoted(arg)
    ELSE ByteQuoted(arg)

ShellQuote(arg) ==
    IF arg # <<>> /\ Range(arg) \subseteq Bare THEN arg
    ELSE IF Printable(arg) /\ DrawnAsIs(SingleQuoted(arg)) THEN SingleQuoted(arg)
    ELSE ByteQuoted(arg)

-----------------------------------------------------------------------------
(* References for what the viewport shows, used by the properties of Screen. *)

\* Every cell of a line, measured from its start: a unit's text lies in its
\* first cell and fills the others.
CellsOf(line, method) ==
    FoldLeft(LAMBDA cells, u :
                 cells \o [c \in 1..u.unit.width |-> [start |-> u.column, unit |-> u.unit, cell |-> c]],
             <<>>, UnitsFrom(line, <<1, 0>>, method))

\* What those from a column up to an end show: whole units as they are, the
\* cells of an escape one by one, and spaces for tabs and what is cut.
Window(line, method, from, width) ==
    LET cells == CellsOf(line, method)
        last == Min({from + width, Len(cells)})
        whole(c) == c.start >= from /\ c.start + c.unit.width <= from + width
    IN FlattenSeq([i \in 1..Max({last - from, 0}) |->
           LET c == cells[from + i]
           IN IF c.unit.kind = "ascii" THEN <<c.unit.text[c.cell]>>
              ELSE IF c.unit.kind = "tab" \/ ~whole(c) THEN <<" ">>
              ELSE IF c.cell = 1 THEN c.unit.text ELSE <<>>])

\* What a POSIX shell with $'...' makes of a word: bare, quoted or backslashed.
Decode(code) == CHOOSE r \in Foreign \cup {Tab, Control} : Code(r) = code
ShellReads(word) ==
    LET read[at \in Nat \X {"bare", "single", "dollar"}] ==
            LET i == at[1]  in == at[2]
                r == word[i]
                more(mode, n) == read[<<i + n, mode>>]
            IN IF i > Len(word) THEN <<>>
               ELSE IF in = "bare" /\ r = "$" THEN more("dollar", 2)
               ELSE IF in = "bare" /\ r = "'" THEN more("single", 1)
               ELSE IF in # "bare" /\ r = "'" THEN more("bare", 1)
               ELSE IF in = "dollar" /\ r = "\\" /\ word[i+1] = "x"
                    THEN <<Decode(word[i+2])>> \o more(in, 3)
               ELSE IF in # "single" /\ r = "\\" THEN <<word[i+1]>> \o more(in, 2)
               ELSE <<r>> \o more(in, 1)
    IN read[<<1, "bare">>]
=============================================================================
