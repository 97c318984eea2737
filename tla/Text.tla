-------------------------------- MODULE Text --------------------------------
(***************************************************************************)
(* internal/history/text.go: the workspace of a replay.  The lines are in  *)
(* chunks that are views of a few backing arrays; an edit that fits writes *)
(* into a chunk in place, any other rebuilds the chunks it touches.        *)
(*                                                                         *)
(* The lines of a chunk are kept with the cells that back them: in         *)
(* array a, the len(lines) cells after the first from, and up to cap of    *)
(* them may be written.                                                    *)
(***************************************************************************)
EXTENDS Integers, Sequences, SequencesExt, FiniteSets

CONSTANTS MaxLines,     \* chunkLines
          Line,
          Texts,        \* the texts a replay starts with
          Stored,       \* the lines an entry may store
          EmptyLine,
          StateLines    \* limit, and the bound of the model

ASSUME TextAssumption ==
    /\ MaxLines \in Nat \ {0, 1} /\ StateLines \in Nat \ {0}
    /\ Texts \cup Stored \subseteq Seq(Line) /\ EmptyLine \in Line
    /\ \A t \in Texts : Len(t) \in 1..StateLines

VARIABLES chunks, lines, bytes,   \* the fields of text
          flat,                   \* history: the lines as one sequence
          promised                \* history: the bytes applyEntry expected
textVars == <<chunks, lines, bytes, flat, promised>>

\* textBytes: each line has a terminator; a line that is not empty has a byte.
Bytes(ls) == Len(ls) + Cardinality({i \in DOMAIN ls : ls[i] # EmptyLine})

Size(c) == Len(c.lines)
Half == MaxLines \div 2

\* Fault: a chunk may write to the end of the array.
SplitUncapped(ls, array) ==
    LET count == (Len(ls) + MaxLines - 1) \div MaxLines
        from(i) == (i * Len(ls)) \div count
    IN [i \in 1..count |->
          LET part == SubSeq(ls, from(i-1) + 1, from(i))
          IN [lines |-> part, bytes |-> Bytes(part), array |-> array,
              from |-> from(i-1), cap |-> Len(ls) - from(i-1)]]

\* The fewest chunks, evenly sized, of lines that fill one array.
Split(ls, array) ==
    LET count == (Len(ls) + MaxLines - 1) \div MaxLines
        from(i) == (i * Len(ls)) \div count
    IN [i \in 1..count |->
          LET part == SubSeq(ls, from(i-1) + 1, from(i))
          IN [lines |-> part, bytes |-> Bytes(part), array |-> array,
              from |-> from(i-1), cap |-> Len(part)]]

\* The sum of a row of counts.
Tally(counts) ==
    LET sum[n \in 0..Len(counts)] == IF n = 0 THEN 0 ELSE sum[n-1] + counts[n]
    IN sum[Len(counts)]

BytesOf(cs) == Tally([i \in DOMAIN cs |-> cs[i].bytes])

TextInit ==
    /\ flat \in Texts
    /\ chunks = Split(flat, 1)
    /\ lines = Len(flat)
    /\ bytes = BytesOf(chunks)
    /\ promised = bytes

-----------------------------------------------------------------------------
(* find and bytesIn. *)

\* The lines before chunk i.
Start(i) == Tally([k \in 1..i-1 |-> Size(chunks[k])])

\* The first chunk from i on that holds line n, or the last chunk.
Holding(n, i) ==
    CHOOSE j \in i..Len(chunks) :
        /\ n < Start(j + 1) \/ j = Len(chunks)
        /\ \A k \in i..j-1 : n >= Start(k + 1)

Find(top, end) ==
    LET first == Holding(top, 1)
        last == Holding(IF end - 1 > top THEN end - 1 ELSE top, first)
    IN [top |-> top, end |-> end, first |-> first, firstStart |-> Start(first),
        last |-> last, lastStart |-> Start(last)]

BytesIn(s) ==
    LET first == chunks[s.first].lines
        last == chunks[s.last].lines
    IN IF s.top = s.end THEN 0
       ELSE IF s.first = s.last
       THEN Bytes(SubSeq(first, s.top - s.firstStart + 1, s.end - s.firstStart))
       ELSE Bytes(SubSeq(first, s.top - s.firstStart + 1, Len(first)))
            + Bytes(SubSeq(last, 1, s.end - s.lastStart))
            + BytesOf(SubSeq(chunks, s.first + 1, s.last - 1))

-----------------------------------------------------------------------------
(* replace. *)

FreshArray == CHOOSE a \in 1..Len(chunks) + 1 :
                 /\ \A i \in DOMAIN chunks : chunks[i].array # a
                 /\ \A b \in 1..a-1 : \E i \in DOMAIN chunks : chunks[i].array = b

\* replaceWithin edits the chunk that holds the range if that leaves its size
\* within the bounds.
Fits(s, added) ==
    LET length == Size(chunks[s.first]) - (s.end - s.top) + Len(added)
    IN /\ s.first = s.last
       /\ length \in 1..MaxLines
       /\ Len(chunks) > 1 => length >= Half

\* In place if the array has room, else in an array with room for more.
Within(s, added) ==
    LET c == chunks[s.first]
        from == s.top - s.firstStart
        to == s.end - s.firstStart
        edited == SubSeq(c.lines, 1, from) \o added \o SubSeq(c.lines, to + 1, Size(c))
        resized == [c EXCEPT !.lines = edited,
                             !.bytes = @ + Bytes(added) - Bytes(SubSeq(c.lines, from + 1, to))]
    IN [chunks EXCEPT ![s.first] =
          IF Len(edited) <= c.cap THEN resized
          ELSE [resized EXCEPT !.array = FreshArray, !.from = 0, !.cap = MaxLines]]

\* The chunks to rebuild and their lines: the kept head of the first, the new
\* lines, the kept tail of the last, and a neighbour if those are too few.
Region(s, added) ==
    LET kept == SubSeq(chunks[s.first].lines, 1, s.top - s.firstStart) \o added
                \o SubSeq(chunks[s.last].lines, s.end - s.lastStart + 1, Size(chunks[s.last]))
    IN CASE Len(kept) < Half /\ s.last < Len(chunks) ->
              [first |-> s.first, last |-> s.last + 1, lines |-> kept \o chunks[s.last + 1].lines]
         [] Len(kept) < Half /\ s.last = Len(chunks) /\ s.first > 1 ->
              [first |-> s.first - 1, last |-> s.last, lines |-> chunks[s.first - 1].lines \o kept]
         [] OTHER -> [first |-> s.first, last |-> s.last, lines |-> kept]

Rebuilt(r) ==
    SubSeq(chunks, 1, r.first - 1) \o Split(r.lines, FreshArray)
        \o SubSeq(chunks, r.last + 1, Len(chunks))

\* applyEntry on a range that is within the text: the entry's lines replace
\* it, or the dummy line if none would be left.
Replace(top, end, stored) ==
    LET size == lines - (end - top) + Len(stored)
        added == IF size = 0 THEN <<EmptyLine>> ELSE stored
        s == Find(top, end)
        r == Region(s, added)
    IN /\ top <= end /\ end <= lines
       /\ size <= StateLines
       /\ promised' = IF size = 0 THEN 1 ELSE bytes - BytesIn(s) + Bytes(stored)
       /\ chunks' = IF Fits(s, added) THEN Within(s, added) ELSE Rebuilt(r)
       /\ bytes' = IF Fits(s, added)
                   THEN bytes + (chunks'[s.first].bytes - chunks[s.first].bytes)
                   ELSE bytes + BytesOf(Split(r.lines, 1)) - BytesOf(SubSeq(chunks, r.first, r.last))
       /\ lines' = lines - (end - top) + Len(added)
       /\ flat' = SubSeq(flat, 1, top) \o added \o SubSeq(flat, end + 1, Len(flat))

TextNext == \E top, end \in 0..StateLines, stored \in Stored : Replace(top, end, stored)
TextSpec == TextInit /\ [][TextNext]_textVars

-----------------------------------------------------------------------------
(* Properties. *)

\* Every total is that of its lines: the limits are checked against these.
TotalsAgree ==
    /\ lines = Len(flat) /\ bytes = Bytes(flat)
    /\ \A i \in DOMAIN chunks : chunks[i].bytes = Bytes(chunks[i].lines)

\* No chunk is over full, and none is under half full unless it is alone; the
\* last check of replace never panics and the chunk list stays short.
ChunksStayBalanced ==
    \A i \in DOMAIN chunks :
        Size(chunks[i]) \in (IF Len(chunks) > 1 THEN Half ELSE 1)..MaxLines

\* An edit in place cannot reach the lines of another chunk: no two chunks may
\* write the same cell.
NoCellIsShared ==
    \A i, j \in DOMAIN chunks :
        i # j /\ chunks[i].array = chunks[j].array =>
            \/ chunks[i].from + chunks[i].cap <= chunks[j].from
            \/ chunks[j].from + chunks[j].cap <= chunks[i].from

\* The chunks hold the text that the edits make of a flat sequence of lines,
\* with its totals, after any mix of edits in place and rebuilds; the size
\* applyEntry checks before an edit is the size the edit gives; and the chunks
\* stay balanced and out of each other's cells.
ChunksHoldTheText ==
    /\ FlattenSeq([i \in DOMAIN chunks |-> chunks[i].lines]) = flat
    /\ TotalsAgree
    /\ promised = bytes
    /\ ChunksStayBalanced
    /\ NoCellIsShared
=============================================================================
