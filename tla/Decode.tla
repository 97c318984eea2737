------------------------------- MODULE Decode --------------------------------
(* Decoding an undo file, internal/undofile/decode.go and v3.go: a reader    *)
(* with a sticky error, the lengths and markers of the format, and the      *)
(* limits they are held to.                                                 *)
(*                                                                          *)
(* A file is a sequence of cells, each a byte of text or a scalar of any    *)
(* width, and sizes count cells. Neighbouring scalars of which only the     *)
(* sign is checked are one cell, and those nothing checks are left out, as  *)
(* is the place an error names. What is decoded is kept whole, with the     *)
(* fields DecodedFile drops: Encode needs them.                             *)
EXTENDS Integers, Sequences, SequencesExt

CONSTANTS
    Wires,        \* what readers deliver: cells, and how the reading ends
    Files,        \* well-formed files, within the limits or not
    Nodes, Entries, StoredLines, StateLines, LineBytes, InputBytes,
    Scratch,      \* len(d.scratch), the most text one read takes
    None

Ending == {"end of file", "failure"}
Error == {"cancelled", "limit", "invalid", "unsupported", "truncated", "read failure"}

ASSUME DecodeAssumption ==
    /\ \A w \in Wires : w.cells \in Seq(Int) /\ w.ending \in Ending
    /\ {Nodes, Entries, StoredLines, StateLines, LineBytes, InputBytes, Scratch} \subseteq Nat \ {0}
    /\ None \notin Int \cup Error

VARIABLES
    wire,         \* the reader's cells and how they end
    cancelled,    \* ctx.Err
    pc,
    d,            \* decoder: offset, err, entries, lines
    file,         \* the file as decoded so far
    record,       \* the record being read
    entry,        \* the entry being read
    text,         \* the text being read: what is left to come, what has come
    left          \* records and lines of their loops still to read

vars == <<wire, cancelled, pc, d, file, record, entry, text, left>>
built == <<file, record, entry>>

Magic == 1000
HeaderStart == 24528       \* 0x5fd0
EntryStart == 62744        \* 0xf518
EntryEnd == 13697          \* 0x3581
HeadersEnd == 59306        \* 0xe7aa
Newline == 10

------------------------------------------------------------------------------
(* The format, read the other way round: the cells that spell a file.       *)

EncodeText(t) == <<Len(t)>> \o [i \in 1..Len(t) |-> IF t[i] = 0 THEN Newline ELSE t[i]]
EncodeSave(save) == IF save = None THEN <<0>> ELSE <<4, 1, save, 0>>

EncodeEntry(e) ==
    <<EntryStart>> \o e.range \o <<Len(e.lines)>>
    \o FlattenSeq([i \in 1..Len(e.lines) |-> EncodeText(e.lines[i])])

EncodeRecord(r) ==
    <<HeaderStart>> \o r.fixed \o EncodeSave(r.save)
    \o FlattenSeq([i \in 1..Len(r.entries) |-> EncodeEntry(r.entries[i])]) \o <<EntryEnd>>
    \o FlattenSeq([i \in 1..Len(r.extmarks) |-> <<EntryStart>> \o r.extmarks[i]]) \o <<EntryEnd>>

Encode(f) ==
    <<Magic, 3, f.base>> \o EncodeText(f.saved)
    \o <<f.position, f.links, Len(f.records), f.last>> \o EncodeSave(f.save)
    \o FlattenSeq([i \in 1..Len(f.records) |-> EncodeRecord(f.records[i])]) \o <<HeadersEnd>>

(* The limits of docs/undo-format.md over a whole file.                     *)
EntriesOf(f) == FlattenSeq([i \in 1..Len(f.records) |-> f.records[i].entries])
LinesOf(f) == FlattenSeq([i \in 1..Len(EntriesOf(f)) |-> EntriesOf(f)[i].lines])
ExtmarksOf(f) == FlattenSeq([i \in 1..Len(f.records) |-> f.records[i].extmarks])

Within(f) ==
    /\ f.base <= StateLines
    /\ Len(f.records) <= Nodes
    /\ Len(EntriesOf(f)) + Len(ExtmarksOf(f)) <= Entries
    /\ Len(LinesOf(f)) <= StoredLines
    /\ \A t \in {f.saved} \cup ToSet(LinesOf(f)) : Len(t) <= LineBytes
    /\ \A e \in ToSet(EntriesOf(f)) :
          e.range[1] <= StateLines /\ e.range[2] <= StateLines + 1 /\ e.range[3] <= StateLines
    /\ Len(Encode(f)) <= InputBytes

------------------------------------------------------------------------------
(* The decoder: every operator returns it as the read leaves it.            *)

Refuse(c, wrong, kind) == IF c.err = None /\ wrong THEN [c EXCEPT !.err = kind] ELSE c
Checked(c) == Refuse(c, cancelled, "cancelled")

(* read: nothing after an error, nothing past the limit, and of a field cut *)
(* short as much as there is.                                               *)
Read(c, n) ==
    IF c.err # None THEN c
    ELSE IF n > InputBytes - c.offset THEN [c EXCEPT !.err = "limit"]
    ELSE IF c.offset + n <= Len(wire.cells) THEN [c EXCEPT !.offset = @ + n]
    ELSE [c EXCEPT !.offset = Len(wire.cells),
                   !.err = IF wire.ending = "failure" THEN "read failure" ELSE "truncated"]

(* The scalar a read of one cell gets; zero if it gets none.                *)
Value(c) == IF Read(c, 1).err = None THEN wire.cells[c.offset + 1] ELSE 0

Nonnegative(c) == Refuse(Read(c, 1), Value(c) < 0, "invalid")
Count(c, limit) == Refuse(Nonnegative(c), Value(c) > limit, "limit")
Counted(c, limit) == IF Count(c, limit).err = None THEN Value(c) ELSE 0
Marker(c, want) == Refuse(Read(c, 1), Value(c) # want, "invalid")

TextLength(c) ==
    LET counted == Count(c, LineBytes) IN
    Refuse(counted, Counted(c, LineBytes) > InputBytes - counted.offset, "limit")

TextOf(c) ==
    [left |-> IF TextLength(c).err = None THEN Value(c) ELSE 0, got |-> <<>>]

(* Fault: extmark entries are read beyond the limit.                        *)
NoRoomForText(c) == pc = "text entries" /\ c.entries = Entries

(* nextEntry: text entries and extmark entries share one limit.             *)
NoRoom(c) == c.entries = Entries

NextEntry(c) ==
    LET opened == Read(Checked(c), 1)
        marker == Value(Checked(c))
        more == Refuse(Refuse(opened, marker # EntryStart, "invalid"), NoRoom(c), "limit")
    IN IF opened.err # None \/ marker = EntryEnd
       THEN [c |-> opened, more |-> FALSE]
       ELSE [c |-> [more EXCEPT !.entries = IF more.err = None THEN @ + 1 ELSE @],
             more |-> more.err = None]

------------------------------------------------------------------------------
NoRecord == [fixed |-> <<>>, save |-> None, entries |-> <<>>, extmarks |-> <<>>]
NoEntry == [range |-> <<>>, lines |-> <<>>]

Init ==
    /\ wire \in Wires
    /\ cancelled = FALSE
    /\ pc = "start"
    /\ d = [offset |-> 0, err |-> None, entries |-> 0, lines |-> 0]
    /\ file = [base |-> 0, saved |-> <<>>, position |-> 0, links |-> 0, last |-> 0,
               save |-> None, records |-> <<>>]
    /\ record = NoRecord
    /\ entry = NoEntry
    /\ text = [left |-> 0, got |-> <<>>]
    /\ left = [records |-> 0, lines |-> 0]

Go(there) == pc' = there /\ UNCHANGED <<wire, cancelled>>

Cancel ==
    /\ pc # "ended"
    /\ ~cancelled
    /\ cancelled' = TRUE
    /\ UNCHANGED <<wire, pc, d, built, text, left>>

(* Decode and decodeV3: magic and version end it at once; then the base's   *)
(* lines and the length of the saved U line.                                *)
Start ==
    /\ pc = "start"
    /\ LET magic == Marker(Checked(d), Magic)
           version == Refuse(Read(magic, 1), Value(magic) # 3, "unsupported")
           base == Counted(version, StateLines)
           based == Refuse(Count(version, StateLines), base = 0, "invalid")
       IN /\ d' = IF version.err # None THEN version ELSE TextLength(based)
          /\ file' = [file EXCEPT !.base = base]
          /\ text' = TextOf(based)
          /\ Go(IF version.err # None THEN "ended" ELSE "metadata")
    /\ UNCHANGED <<record, entry, left>>

(* text: one chunk. Cancellation, a failed read and a NUL end it.           *)
TextComes == text.left > 0 /\ d.err = None

TextChunk ==
    /\ TextComes
    /\ LET size == IF text.left < Scratch THEN text.left ELSE Scratch
           read == Read(Checked(d), size)
           chunk == IF read.err = None THEN SubSeq(wire.cells, d.offset + 1, d.offset + size) ELSE <<>>
           nul == \E i \in 1..Len(chunk) : chunk[i] = 0
       IN /\ d' = Refuse(read, nul, "invalid")
          /\ text' = IF read.err # None \/ nul THEN text
                     ELSE [left |-> text.left - size,
                           got |-> text.got \o [i \in 1..size |-> IF chunk[i] = Newline THEN 0 ELSE chunk[i]]]
    /\ Go(pc)
    /\ UNCHANGED <<built, left>>

(* decodeV3: what follows the saved U line, up to the optional fields.      *)
Metadata ==
    /\ pc = "metadata"
    /\ ~TextComes
    /\ LET position == Nonnegative(d)
           links == Nonnegative(position)
           count == Count(links, Nodes)
           last == Nonnegative(count)
       IN /\ d' = last
          /\ file' = [file EXCEPT !.saved = text.got, !.position = Value(d), !.links = Value(position),
                                  !.last = Value(count)]
          /\ left' = [left EXCEPT !.records = Counted(links, Nodes)]
    /\ Go("last save")
    /\ UNCHANGED <<record, entry, text>>

(* optional: one field, or the end of the list.                             *)
Optional(save, gone) ==
    LET sized == Read(d, 1)
        size == Value(d)
        named == Refuse(Read(sized, 1), Value(sized) # 1, "unsupported")
        framed == Refuse(Refuse(named, save # None, "invalid"), size # 4, "invalid")
    IN IF sized.err # None \/ size = 0
       THEN d' = sized /\ Go(gone) /\ UNCHANGED <<file, record>>
       ELSE /\ d' = Nonnegative(framed)
            /\ Go(IF named.err # None THEN gone ELSE pc)
            /\ file' = IF pc = "last save" /\ named.err = None
                       THEN [file EXCEPT !.save = Value(framed)] ELSE file
            /\ record' = IF pc = "save" /\ named.err = None
                         THEN [record EXCEPT !.save = Value(framed)] ELSE record

LastSave == pc = "last save" /\ Optional(file.save, "records") /\ UNCHANGED <<entry, text, left>>
Save == pc = "save" /\ Optional(record.save, "text entries") /\ UNCHANGED <<entry, text, left>>

------------------------------------------------------------------------------
(* decodeV3's loop and recordV3: the start marker and the block of fixed    *)
(* size, read in one and then checked field by field.  The first cell also  *)
(* stands for signs checked behind the flags, so where both are wrong the   *)
(* code may refuse the flags and this the sign.                             *)
Record ==
    /\ pc = "records"
    /\ left.records > 0
    /\ Checked(d).err = None
    /\ LET block == Read(Marker(d, HeaderStart), 4)
           fixed == SubSeq(wire.cells, d.offset + 2, d.offset + 5)
           signs == Refuse(block, fixed[1] < 0 \/ fixed[2] <= 0 \/ fixed[3] < -1, "invalid")
       IN IF block.err # None
          THEN d' = block /\ Go("records") /\ UNCHANGED record
          ELSE /\ d' = Refuse(signs, fixed[4] \notin 0..7, "unsupported")
               /\ record' = [NoRecord EXCEPT !.fixed = fixed]
               /\ Go("save")
    /\ UNCHANGED <<file, entry, text, left>>

(* recordV3: nextEntry, then entryV3 up to its lines.                       *)
Entry ==
    /\ pc = "text entries"
    /\ NextEntry(d).more
    /\ LET c == NextEntry(d).c
           top == Count(c, StateLines)
           bottom == Count(top, StateLines + 1)
           saved == Count(bottom, StateLines)
           ranged == Refuse(saved, Counted(top, StateLines + 1) \in 1..Counted(c, StateLines), "invalid")
           count == Counted(ranged, StoredLines - d.lines)
       IN /\ d' = [Count(ranged, StoredLines - d.lines) EXCEPT !.lines = @ + count]
          /\ entry' = [range |-> <<Value(c), Value(top), Value(bottom)>>, lines |-> <<>>]
          /\ left' = [left EXCEPT !.lines = count]
    /\ Go("lines")
    /\ UNCHANGED <<file, record, text>>

(* entryV3's loop: a line begins with its length.                           *)
Line ==
    /\ pc = "lines"
    /\ left.lines > 0
    /\ Checked(d).err = None
    /\ d' = TextLength(d)
    /\ text' = TextOf(d)
    /\ Go("line")
    /\ UNCHANGED <<built, left>>

LineEnd ==
    /\ pc = "line"
    /\ ~TextComes
    /\ entry' = IF d.err = None THEN [entry EXCEPT !.lines = Append(@, text.got)] ELSE entry
    /\ left' = [left EXCEPT !.lines = @ - 1]
    /\ Go("lines")
    /\ UNCHANGED <<d, file, record, text>>

(* An entry whose lines have all come, or that failed, which is not kept.   *)
EntryDone ==
    /\ pc = "lines"
    /\ left.lines = 0 \/ Checked(d).err # None
    /\ d' = IF left.lines = 0 THEN d ELSE Checked(d)
    /\ record' = IF d'.err = None THEN [record EXCEPT !.entries = Append(@, entry)] ELSE record
    /\ Go("text entries")
    /\ UNCHANGED <<file, entry, text, left>>

EntriesDone ==
    /\ pc = "text entries"
    /\ ~NextEntry(d).more
    /\ d' = NextEntry(d).c
    /\ Go("extmarks")
    /\ UNCHANGED <<built, text, left>>

(* recordV3: nextEntry, then extmarkV3.                                     *)
Extmark ==
    /\ pc = "extmarks"
    /\ NextEntry(d).more
    /\ LET c == NextEntry(d).c
           kind == Refuse(Read(c, 1), Value(c) \notin {0, 1}, "unsupported")
       IN /\ d' = Read(kind, 1)
          /\ record' = IF d'.err = None
                       THEN [record EXCEPT !.extmarks = Append(@, <<Value(c), Value(kind)>>)] ELSE record
    /\ Go("extmarks")
    /\ UNCHANGED <<file, entry, text, left>>

(* A record that has come whole is kept.                                    *)
RecordDone ==
    /\ pc = "extmarks"
    /\ ~NextEntry(d).more
    /\ d' = NextEntry(d).c
    /\ file' = IF d'.err = None THEN [file EXCEPT !.records = Append(@, record)] ELSE file
    /\ left' = [left EXCEPT !.records = @ - 1]
    /\ Go("records")
    /\ UNCHANGED <<record, entry, text>>

(* The end of decodeV3 and of Decode: the marker, and nothing behind it.    *)
End ==
    /\ pc = "records"
    /\ left.records = 0 \/ Checked(d).err # None
    /\ LET marked == Marker(IF left.records = 0 THEN d ELSE Checked(d), HeadersEnd)
           checked == Checked(marked)
           more == checked.offset < Len(wire.cells)
           broken == ~more /\ wire.ending = "failure"
       IN d' = Refuse(Refuse(checked, more, IF checked.offset = InputBytes THEN "limit" ELSE "invalid"),
                      broken, "read failure")
    /\ Go("ended")
    /\ UNCHANGED <<built, text, left>>

Next ==
    \/ Cancel \/ Start \/ TextChunk \/ Metadata \/ LastSave \/ Record \/ Save
    \/ Entry \/ Line \/ LineEnd \/ EntryDone \/ EntriesDone \/ Extmark \/ RecordDone \/ End

Spec == Init /\ [][Next]_vars

------------------------------------------------------------------------------
Formed == {Encode(f) : f \in Files}
Accepted == {Encode(f) : f \in {g \in Files : Within(g)}}

(* Neither what was read nor what is kept, nor the lines and entries that    *)
(* are charged, ever pass a limit, whatever lengths the input announces; and *)
(* what is still to come of a loop or a text fits as well.                  *)
NoLimitIsPassed ==
    /\ d.offset <= InputBytes /\ d.lines <= StoredLines /\ d.entries <= Entries
    /\ Len(file.records) + left.records <= Nodes
    /\ Len(record.entries) + Len(record.extmarks) <= d.entries
    /\ Len(entry.lines) + left.lines <= d.lines
    /\ Len(text.got) + text.left <= LineBytes
    /\ d.err = None => text.left <= InputBytes - d.offset

(* Decode accepts the files of the format that keep the limits and no       *)
(* others, and never goes beyond one on the way. What it returns spells the *)
(* input again, cell by cell, so no count, marker or text was taken for     *)
(* another; and a file that breaks only limits is refused for that.         *)
DecodesTheFormat ==
    /\ NoLimitIsPassed
    /\ pc = "ended" =>
          /\ d.err = None => Encode(file) = wire.cells /\ Within(file) /\ wire.ending = "end of file"
          /\ wire.ending = "end of file" /\ ~cancelled =>
                /\ wire.cells \in Accepted => d.err = None
                /\ wire.cells \in Formed => d.err \in {None, "limit"}

==============================================================================
