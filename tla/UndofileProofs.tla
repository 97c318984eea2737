---------------------------- MODULE UndofileProofs ----------------------------
(* The decoder stays within its limits on every input, for every limit, and *)
(* a text verifies exactly if it is the one the file was written for.       *)
(*                                                                          *)
(* Decode: a read moves the decoder forward, within the input and the limit *)
(* on it, and an error stays; so what is charged, kept or still to come is  *)
(* bounded wherever an announced length was accepted, until it has all come.*)
(*                                                                          *)
(* Base: what a text is hashed as has each line at its place with an end    *)
(* that no byte of a line without LF equals, so it tells texts apart.       *)
EXTENDS Decode, Base, Foundations

EntryType == [range : Seq(Int), lines : Seq(Seq(Int))]
RecordType == [fixed : Seq(Int), save : Int \cup {None},
               entries : Seq(EntryType), extmarks : Seq(Seq(Int))]
FileType == [base : Int, saved : Seq(Int), position : Int, links : Int, last : Int,
             save : Int \cup {None}, records : Seq(RecordType)]

(* A decoder within the input and its limits.                               *)
Sane(c) ==
    /\ c \in [offset : Nat, err : Error \cup {None}, entries : Nat, lines : Nat]
    /\ c.offset <= InputBytes /\ c.offset <= Len(wire.cells)
    /\ c.entries <= Entries /\ c.lines <= StoredLines

(* What a read or a check makes of decoder c.                               *)
Follows(c, after) ==
    /\ Sane(after)
    /\ c.offset <= after.offset
    /\ after.entries = c.entries /\ after.lines = c.lines
    /\ after.err = None => c.err = None

-----------------------------------------------------------------------------
(* The operators of the decoder.                                            *)

LEMMA Constants ==
    /\ Nodes \in Nat /\ Entries \in Nat /\ StoredLines \in Nat /\ StateLines \in Nat
    /\ LineBytes \in Nat /\ InputBytes \in Nat /\ Scratch \in Nat \ {0}
    /\ None \notin Int /\ None \notin Error
    /\ wire \in Wires => wire.cells \in Seq(Int) /\ Len(wire.cells) \in Nat
<1>1. wire \in Wires => wire.cells \in Seq(Int)
  BY DecodeAssumption
<1>2. wire \in Wires => Len(wire.cells) \in Nat
  BY <1>1, LenProperties
<1>3. QED
  BY <1>1, <1>2, DecodeAssumption

LEMMA FollowsTransitive ==
    ASSUME NEW c, NEW e, NEW g, Sane(c), Follows(c, e), Follows(e, g)
    PROVE  Follows(c, g)
BY DEF Follows, Sane

(* What Refuse makes of decoder c.                                          *)
LEMMA RefuseFollows ==
    ASSUME NEW c, Sane(c), NEW kind \in Error
    PROVE  /\ Follows(c, c)
           /\ Follows(c, [c EXCEPT !.err = kind])
           /\ [c EXCEPT !.err = kind].err # None
           /\ [c EXCEPT !.err = kind].offset = c.offset
<1>1. kind # None
  BY Constants
<1>2. QED
  BY <1>1 DEF Follows, Sane

LEMMA CheckedFollows ==
    ASSUME NEW c, Sane(c)
    PROVE  Follows(c, Checked(c)) /\ Checked(c).offset = c.offset
BY RefuseFollows DEF Checked, Refuse, Error

LEMMA ReadFollows ==
    ASSUME wire \in Wires, NEW c, Sane(c), NEW n \in Nat
    PROVE  /\ Follows(c, Read(c, n))
           /\ Read(c, n).err = None =>
                /\ Read(c, n).offset = c.offset + n
                /\ c.offset + n <= Len(wire.cells)
                /\ c.offset + n <= InputBytes
<1>1. CASE c.err # None
  <2>1. Read(c, n) = c
    BY <1>1 DEF Read
  <2>2. QED
    BY <1>1, <2>1 DEF Follows, Sane
<1>2. CASE c.err = None /\ n > InputBytes - c.offset
  <2>1. Read(c, n) = [c EXCEPT !.err = "limit"]
    BY <1>2 DEF Read
  <2>2. QED
    BY <2>1, RefuseFollows DEF Error
<1>3. CASE c.err = None /\ n <= InputBytes - c.offset /\ c.offset + n <= Len(wire.cells)
  <2>1. /\ c \in [offset : Nat, err : Error \cup {None}, entries : Nat, lines : Nat]
        /\ Read(c, n) = [c EXCEPT !.offset = @ + n]
    BY <1>3, Constants DEF Read, Sane
  <2>2. Read(c, n) = [c EXCEPT !.offset = c.offset + n, !.err = None]
    BY <1>3, <2>1
  <2>3. /\ c.offset + n \in Nat /\ c.offset <= c.offset + n
        /\ c.offset + n <= InputBytes
    BY <1>3, <2>1, Constants
  <2>4. /\ Read(c, n) \in [offset : Nat, err : Error \cup {None}, entries : Nat, lines : Nat]
        /\ Read(c, n).offset = c.offset + n /\ Read(c, n).err = None
        /\ Read(c, n).entries = c.entries /\ Read(c, n).lines = c.lines
    BY <2>1, <2>2, <2>3
  <2>5. QED
    BY <1>3, <2>3, <2>4 DEF Follows, Sane
<1>4. CASE c.err = None /\ n <= InputBytes - c.offset /\ c.offset + n > Len(wire.cells)
  <2> DEFINE kind == IF wire.ending = "failure" THEN "read failure" ELSE "truncated"
  <2>1. Read(c, n) = [c EXCEPT !.offset = Len(wire.cells), !.err = kind]
    BY <1>4, Constants DEF Read, Sane
  <2>2. kind \in Error /\ kind # None
    BY Constants DEF Error
  <2> HIDE DEF kind
  <2>3. /\ Len(wire.cells) \in Nat /\ Len(wire.cells) <= InputBytes
        /\ c.offset <= Len(wire.cells)
    BY <1>4, Constants DEF Sane
  <2>4. c \in [offset : Nat, err : Error \cup {None}, entries : Nat, lines : Nat]
    BY DEF Sane
  <2>5. /\ Read(c, n) \in [offset : Nat, err : Error \cup {None}, entries : Nat, lines : Nat]
        /\ Read(c, n).offset = Len(wire.cells) /\ Read(c, n).err = kind
        /\ Read(c, n).entries = c.entries /\ Read(c, n).lines = c.lines
    BY <2>1, <2>2, <2>3, <2>4
  <2>6. QED
    BY <2>2, <2>3, <2>5 DEF Follows, Sane
<1>5. QED
  BY <1>1, <1>2, <1>3, <1>4, Constants DEF Sane

LEMMA ValueInt ==
    ASSUME wire \in Wires, NEW c, Sane(c)
    PROVE  Value(c) \in Int
<1>1. CASE Read(c, 1).err = None
  <2>1. c.offset + 1 \in 1..Len(wire.cells)
    BY <1>1, ReadFollows, Constants DEF Sane
  <2>2. QED
    BY <1>1, <2>1, Constants, ElementOfSeq DEF Value
<1>2. QED
  BY <1>1 DEF Value

LEMMA NonnegativeFollows ==
    ASSUME wire \in Wires, NEW c, Sane(c)
    PROVE  /\ Follows(c, Nonnegative(c))
           /\ Nonnegative(c).err = None => Value(c) \in Nat
<1>1. Follows(c, Read(c, 1))
  BY ReadFollows
<1>2. /\ Follows(Read(c, 1), Nonnegative(c))
      /\ Nonnegative(c).err = None => ~(Value(c) < 0)
  BY <1>1, RefuseFollows DEF Nonnegative, Refuse, Error, Follows
<1>3. QED
  BY <1>1, <1>2, FollowsTransitive, ValueInt

LEMMA MarkerFollows ==
    ASSUME wire \in Wires, NEW c, Sane(c), NEW want
    PROVE  Follows(c, Marker(c, want))
<1>1. Follows(c, Read(c, 1))
  BY ReadFollows
<1>2. Follows(Read(c, 1), Marker(c, want))
  BY <1>1, RefuseFollows DEF Marker, Refuse, Error, Follows
<1>3. QED
  BY <1>1, <1>2, FollowsTransitive

LEMMA CountFollows ==
    ASSUME wire \in Wires, NEW c, Sane(c), NEW limit \in Nat
    PROVE  /\ Follows(c, Count(c, limit))
           /\ Counted(c, limit) \in 0..limit
           /\ Count(c, limit).err = None => Counted(c, limit) = Value(c)
<1>1. Follows(c, Nonnegative(c))
  BY NonnegativeFollows
<1>2. /\ Follows(Nonnegative(c), Count(c, limit))
      /\ Count(c, limit).err = None => ~(Value(c) > limit)
  BY <1>1, RefuseFollows DEF Count, Refuse, Error, Follows
<1>3. Count(c, limit).err = None => Value(c) \in 0..limit
  BY <1>2, NonnegativeFollows DEF Follows
<1>4. QED
  BY <1>1, <1>2, <1>3, FollowsTransitive DEF Counted

LEMMA TextLengthFollows ==
    ASSUME wire \in Wires, NEW c, Sane(c)
    PROVE  /\ Follows(c, TextLength(c))
           /\ TextOf(c) \in [left : Nat, got : Seq(Int)]
           /\ TextOf(c).got = <<>>
           /\ TextOf(c).left <= LineBytes
           /\ TextLength(c).err = None => TextOf(c).left <= InputBytes - TextLength(c).offset
<1> DEFINE counted == Count(c, LineBytes)
           more == Counted(c, LineBytes) > InputBytes - counted.offset
<1>1. /\ Follows(c, counted)
      /\ Counted(c, LineBytes) \in 0..LineBytes
      /\ counted.err = None => Counted(c, LineBytes) = Value(c)
  BY CountFollows, Constants
<1>2. TextLength(c) = Refuse(counted, more, "limit")
  BY DEF TextLength
<1> HIDE DEF counted, more
<1>3. /\ Follows(counted, TextLength(c))
      /\ TextLength(c).offset = counted.offset
      /\ TextLength(c).err = None => ~more
  <2>1. CASE counted.err = None /\ more
    <3>1. TextLength(c) = [counted EXCEPT !.err = "limit"]
      BY <1>2, <2>1 DEF Refuse
    <3>2. Sane(counted) /\ "limit" \in Error
      BY <1>1 DEF Follows, Error
    <3>3. QED
      BY <3>1, <3>2, RefuseFollows
  <2>2. CASE ~(counted.err = None /\ more)
    BY <1>1, <1>2, <2>2, RefuseFollows DEF Refuse, Follows, Error
  <2>3. QED
    BY <2>1, <2>2
<1>4. TextLength(c).err = None => /\ Value(c) \in 0..LineBytes
                                  /\ Value(c) <= InputBytes - TextLength(c).offset
  BY <1>1, <1>3, Constants DEF Follows, Sane, more
<1>5. Follows(c, TextLength(c))
  BY <1>1, <1>3, FollowsTransitive
<1>6. <<>> \in Seq(Int)
  BY EmptySeq
<1>7. QED
  BY <1>4, <1>5, <1>6, Constants DEF TextOf

LEMMA NextEntryFollows ==
    ASSUME wire \in Wires, NEW c, Sane(c)
    PROVE  /\ NextEntry(c).more \in BOOLEAN
           /\ ~NextEntry(c).more => Follows(c, NextEntry(c).c)
           /\ NextEntry(c).more =>
                /\ Sane(NextEntry(c).c)
                /\ c.err = None
                /\ NextEntry(c).c.entries = c.entries + 1
                /\ NextEntry(c).c.lines = c.lines
<1> DEFINE opened == Read(Checked(c), 1)
           marker == Value(Checked(c))
           started == Refuse(opened, marker # EntryStart, "invalid")
           more == Refuse(started, NoRoom(c), "limit")
<1>1. Follows(c, Checked(c))
  BY CheckedFollows
<1>2. Follows(Checked(c), opened)
  BY <1>1, ReadFollows DEF Follows
<1>3. Follows(opened, started)
  BY <1>2, RefuseFollows DEF Refuse, Follows, Error
<1> HIDE DEF opened, marker, started, more
<1>4. /\ Follows(started, more)
      /\ more.err = None => c.entries # Entries
  <2>1. CASE started.err = None /\ NoRoom(c)
    <3>1. more = [started EXCEPT !.err = "limit"]
      BY <2>1 DEF Refuse, more
    <3>2. Sane(started) /\ "limit" \in Error
      BY <1>3 DEF Follows, Error
    <3>3. QED
      BY <3>1, <3>2, RefuseFollows
  <2>2. CASE ~(started.err = None /\ NoRoom(c))
    <3>1. more = started
      BY <2>2 DEF Refuse, more
    <3>2. QED
      BY <1>3, <2>2, <3>1 DEF Follows, Sane, NoRoom
  <2>3. QED
    BY <2>1, <2>2
<1>5. Follows(c, opened)
  BY <1>1, <1>2, FollowsTransitive
<1>6. Follows(c, more)
  <2>1. Follows(c, started)
    BY <1>3, <1>5, FollowsTransitive
  <2>2. QED
    BY <1>4, <2>1, FollowsTransitive
<1> DEFINE after == IF more.err = None THEN [more EXCEPT !.entries = more.entries + 1] ELSE more
<1>7. NextEntry(c) = IF opened.err # None \/ marker = EntryEnd
                     THEN [c |-> opened, more |-> FALSE]
                     ELSE [c |-> [more EXCEPT !.entries = IF more.err = None THEN @ + 1 ELSE @],
                           more |-> more.err = None]
  BY DEF NextEntry, opened, marker, started, more
<1>8. [more EXCEPT !.entries = IF more.err = None THEN @ + 1 ELSE @] = after
  BY <1>6 DEF Follows, Sane
<1> HIDE DEF after
<1>9. CASE opened.err # None \/ marker = EntryEnd
  <2>1. NextEntry(c) = [c |-> opened, more |-> FALSE]
    BY <1>7, <1>9
  <2>2. NextEntry(c).c = opened /\ NextEntry(c).more = FALSE
    BY <2>1
  <2>3. QED
    BY <1>5, <2>2
<1>10. CASE ~(opened.err # None \/ marker = EntryEnd)
  <2>1. NextEntry(c) = [c |-> after, more |-> more.err = None]
    BY <1>7, <1>8, <1>10
  <2>2. NextEntry(c).c = after /\ NextEntry(c).more = (more.err = None)
    BY <2>1
  <2>3. CASE more.err = None
    <3>1. c.entries + 1 <= Entries
      BY <1>4, <2>3, Constants DEF Sane
    <3>2. after = [more EXCEPT !.entries = more.entries + 1]
      BY <2>3 DEF after
    <3>3. Sane(after) /\ after.entries = c.entries + 1 /\ after.lines = c.lines
      BY <1>6, <3>1, <3>2 DEF Follows, Sane
    <3>4. QED
      BY <1>6, <2>2, <2>3, <3>3 DEF Follows
  <2>4. CASE more.err # None
    BY <1>6, <2>2, <2>4 DEF after
  <2>5. QED
    BY <2>3, <2>4
<1>11. QED
  BY <1>9, <1>10

-----------------------------------------------------------------------------
(* The inductive invariant.                                                 *)

TypeIInv ==
    /\ wire \in Wires /\ cancelled \in BOOLEAN
    /\ Sane(d)
    /\ file \in FileType /\ record \in RecordType /\ entry \in EntryType
    /\ text \in [left : Nat, got : Seq(Int)]
    /\ left \in [records : Nat, lines : Nat]

(* What is kept is charged, with what is still to come.                     *)
KeptIInv ==
    /\ Len(file.records) + left.records <= Nodes
    /\ Len(record.entries) + Len(record.extmarks) <= d.entries
    /\ pc \in {"lines", "line"} => Len(record.entries) + Len(record.extmarks) + 1 <= d.entries
    /\ Len(entry.lines) + left.lines <= d.lines
    /\ Len(text.got) + text.left <= LineBytes

(* The loops the decoder is in, and the text: none is left to come outside  *)
(* the places that read one.                                                *)
LoopIInv ==
    /\ pc \in {"start", "metadata"} => Len(file.records) = 0
    /\ pc \in {"save", "text entries", "lines", "line", "extmarks"} => left.records > 0
    /\ pc = "line" => left.lines > 0
    /\ d.err = None => /\ pc \in {"metadata", "line"} => text.left <= InputBytes - d.offset
                       /\ pc \notin {"metadata", "line"} => text.left = 0

IInv == TypeIInv /\ KeptIInv /\ LoopIInv

(* What the invariant says of the types, one by one.                        *)
LEMMA Typed ==
    ASSUME IInv
    PROVE  /\ wire \in Wires /\ Sane(d)
           /\ d.offset \in Nat /\ d.entries \in Nat /\ d.lines \in Nat /\ d.offset <= InputBytes
           /\ file.records \in Seq(RecordType) /\ record.entries \in Seq(EntryType)
           /\ record.extmarks \in Seq(Seq(Int)) /\ entry.lines \in Seq(Seq(Int))
           /\ text.got \in Seq(Int)
           /\ Len(file.records) \in Nat /\ Len(record.entries) \in Nat
           /\ Len(record.extmarks) \in Nat /\ Len(entry.lines) \in Nat /\ Len(text.got) \in Nat
           /\ text.left \in Nat /\ left.records \in Nat /\ left.lines \in Nat
<1>1. /\ file.records \in Seq(RecordType) /\ record.entries \in Seq(EntryType)
      /\ record.extmarks \in Seq(Seq(Int)) /\ entry.lines \in Seq(Seq(Int)) /\ text.got \in Seq(Int)
  BY DEF IInv, TypeIInv, FileType, RecordType, EntryType
<1>2. wire \in Wires /\ Sane(d) /\ text.left \in Nat /\ left.records \in Nat /\ left.lines \in Nat
  BY DEF IInv, TypeIInv
<1>3. QED
  BY <1>1, <1>2, LenProperties DEF Sane

LEMMA IInvWithin == IInv => NoLimitIsPassed
<1> SUFFICES ASSUME IInv PROVE NoLimitIsPassed
  OBVIOUS
<1>1. KeptIInv /\ LoopIInv
  BY DEF IInv
<1>2. d.err = None => text.left <= InputBytes - d.offset
  <2>1. d.offset \in Nat /\ d.offset <= InputBytes /\ InputBytes \in Nat
    BY Typed, Constants
  <2>2. CASE pc \in {"metadata", "line"}
    BY <1>1, <2>2 DEF LoopIInv
  <2>3. CASE pc \notin {"metadata", "line"}
    <3>1. d.err = None => text.left = 0
      BY <1>1, <2>3 DEF LoopIInv
    <3>2. 0 <= InputBytes - d.offset
      BY <2>1
    <3>3. QED
      BY <3>1, <3>2
  <2>4. QED
    BY <2>2, <2>3
<1>3. QED
  BY <1>1, <1>2, Typed DEF KeptIInv, NoLimitIsPassed, Sane

LEMMA InitIInv == Init => IInv
<1> SUFFICES ASSUME Init PROVE IInv
  OBVIOUS
<1>1. \A S : <<>> \in Seq(S) /\ Len(<<>>) = 0
  BY EmptySeq
<1>2. TypeIInv
  <2>1. Sane(d)
    BY Constants DEF Init, Sane
  <2>2. /\ file \in FileType /\ record \in RecordType /\ entry \in EntryType
        /\ text \in [left : Nat, got : Seq(Int)] /\ left \in [records : Nat, lines : Nat]
    BY <1>1 DEF Init, FileType, RecordType, EntryType, NoRecord, NoEntry
  <2>3. QED
    BY <2>1, <2>2 DEF Init, TypeIInv
<1>3. KeptIInv
  BY <1>1, Constants DEF Init, KeptIInv, NoRecord, NoEntry
<1>4. LoopIInv
  BY <1>1 DEF Init, LoopIInv
<1>5. QED
  BY <1>2, <1>3, <1>4 DEF IInv

LEMMA CancelIInv == ASSUME IInv, Cancel PROVE IInv'
<1>1. TypeIInv'
  BY DEF IInv, TypeIInv, Cancel, built, Sane
<1>2. KeptIInv' /\ LoopIInv'
  BY DEF IInv, KeptIInv, LoopIInv, Cancel, built
<1>3. QED
  BY <1>1, <1>2 DEF IInv

LEMMA StartIInv == ASSUME IInv, Start PROVE IInv'
<1> DEFINE magic == Marker(Checked(d), Magic)
           named == Read(magic, 1)
           version == Refuse(named, Value(magic) # 3, "unsupported")
           base == Counted(version, StateLines)
           counted == Count(version, StateLines)
           based == Refuse(counted, base = 0, "invalid")
<1>1. /\ d' = IF version.err # None THEN version ELSE TextLength(based)
      /\ file' = [file EXCEPT !.base = base]
      /\ text' = TextOf(based)
      /\ pc = "start"
      /\ pc' = IF version.err # None THEN "ended" ELSE "metadata"
      /\ UNCHANGED <<wire, cancelled, record, entry, left>>
  BY DEF Start, Go
<1>2. wire \in Wires /\ Sane(d)
  BY Typed
<1>3. Follows(d, magic)
  <2>1. Follows(d, Checked(d))
    BY <1>2, CheckedFollows
  <2>2. Follows(Checked(d), magic)
    BY <1>2, <2>1, MarkerFollows DEF Follows
  <2>3. QED
    BY <1>2, <2>1, <2>2, FollowsTransitive
<1> HIDE DEF magic
<1>4. Follows(d, version)
  <2>1. Follows(magic, named)
    BY <1>2, <1>3, ReadFollows DEF Follows
  <2> HIDE DEF named
  <2>2. Follows(named, version)
    BY <2>1, RefuseFollows DEF Refuse, Error, Follows
  <2>3. QED
    BY <1>2, <1>3, <2>1, <2>2, FollowsTransitive
<1> HIDE DEF version
<1>5. Follows(d, based) /\ base \in Nat
  <2>1. Sane(version) /\ StateLines \in Nat
    BY <1>4, Constants DEF Follows
  <2>2. Follows(version, counted) /\ base \in 0..StateLines
    BY <1>2, <2>1, CountFollows
  <2> HIDE DEF counted, base
  <2>3. Follows(counted, based)
    BY <2>2, RefuseFollows DEF Refuse, Error, Follows
  <2>4. QED
    BY <1>2, <1>4, <2>1, <2>2, <2>3, FollowsTransitive
<1> HIDE DEF base, counted, based
<1>6. /\ Follows(d, TextLength(based))
      /\ TextOf(based) \in [left : Nat, got : Seq(Int)]
      /\ TextOf(based).got = <<>>
      /\ TextOf(based).left <= LineBytes
      /\ TextLength(based).err = None => TextOf(based).left <= InputBytes - TextLength(based).offset
  <2>1. Sane(based)
    BY <1>5 DEF Follows
  <2>2. QED
    BY <1>2, <1>5, <2>1, TextLengthFollows, FollowsTransitive
<1>7. Follows(d, d')
  BY <1>1, <1>4, <1>6
<1>8. file' \in FileType /\ file'.records = file.records
  <2>1. file \in FileType /\ base \in Int
    BY <1>5 DEF IInv, TypeIInv
  <2>2. QED
    BY <1>1, <2>1 DEF FileType
<1>9. TypeIInv'
  BY <1>1, <1>6, <1>7, <1>8 DEF IInv, TypeIInv, Follows, Sane
<1>10. KeptIInv'
  <2>1. Len(text'.got) = 0
    BY <1>1, <1>6, EmptySeq
  <2>2. Len(text'.got) + text'.left <= LineBytes
    BY <1>1, <1>6, <2>1
  <2>3. pc' \notin {"lines", "line"} /\ d'.entries = d.entries /\ d'.lines = d.lines
    BY <1>1, <1>7 DEF Follows
  <2>4. QED
    BY <1>1, <1>8, <2>2, <2>3 DEF IInv, KeptIInv
<1>11. LoopIInv'
  BY <1>1, <1>6, <1>8 DEF IInv, LoopIInv
<1>12. QED
  BY <1>9, <1>10, <1>11 DEF IInv

LEMMA TextChunkIInv == ASSUME IInv, TextChunk PROVE IInv'
<1> DEFINE size == IF text.left < Scratch THEN text.left ELSE Scratch
           read == Read(Checked(d), size)
           chunk == IF read.err = None THEN SubSeq(wire.cells, d.offset + 1, d.offset + size) ELSE <<>>
           nul == \E i \in 1..Len(chunk) : chunk[i] = 0
           shown == [i \in 1..size |-> IF chunk[i] = Newline THEN 0 ELSE chunk[i]]
<1>1. /\ d' = Refuse(read, nul, "invalid")
      /\ text' = IF read.err # None \/ nul THEN text
                 ELSE [left |-> text.left - size, got |-> text.got \o shown]
      /\ text.left > 0 /\ d.err = None
      /\ UNCHANGED <<wire, cancelled, pc, file, record, entry, left>>
  BY DEF TextChunk, TextComes, Go, built
<1>2. wire \in Wires /\ Sane(d) /\ wire.cells \in Seq(Int) /\ d.offset \in Nat
  BY Typed, Constants
<1>3. size \in Nat /\ size > 0 /\ size <= text.left
  <2>1. text.left \in Nat /\ text.left > 0 /\ Scratch \in Nat \ {0}
    BY <1>1, Typed, Constants
  <2>2. QED
    BY <2>1
<1> HIDE DEF size
<1>4. /\ Follows(d, read)
      /\ read.err = None => /\ read.offset = d.offset + size
                            /\ d.offset + size <= Len(wire.cells)
  <2>1. Follows(d, Checked(d)) /\ Checked(d).offset = d.offset
    BY <1>2, CheckedFollows
  <2>2. Sane(Checked(d))
    BY <2>1 DEF Follows
  <2>3. QED
    BY <1>2, <1>3, <2>1, <2>2, ReadFollows, FollowsTransitive
<1> HIDE DEF read
<1>5. read.err = None => shown \in Seq(Int) /\ Len(shown) = size
  <2> SUFFICES ASSUME read.err = None PROVE shown \in Seq(Int) /\ Len(shown) = size
    OBVIOUS
  <2>1. d.offset + size <= Len(wire.cells) /\ Len(wire.cells) \in Nat
    BY <1>2, <1>4, Constants
  <2>2. \A i \in d.offset + 1 .. d.offset + size : wire.cells[i] \in Int
    <3>1. d.offset + 1 .. d.offset + size \subseteq 1..Len(wire.cells)
      BY <1>2, <1>3, <2>1
    <3>2. QED
      BY <1>2, <3>1, ElementOfSeq
  <2>3. chunk = SubSeq(wire.cells, d.offset + 1, d.offset + size)
    OBVIOUS
  <2>4. chunk \in Seq(Int) /\ Len(chunk) = size
    BY <1>2, <1>3, <2>2, <2>3, SubSeqProperties
  <2> HIDE DEF chunk
  <2>5. \A i \in 1..size : (IF chunk[i] = Newline THEN 0 ELSE chunk[i]) \in Int
    BY <2>4, ElementOfSeq
  <2>6. QED
    BY <1>3, <2>5
<1> HIDE DEF chunk, nul, shown
<1>6. /\ Follows(read, d')
      /\ d'.err = None => read.err = None /\ ~nul
      /\ d'.offset = read.offset
  <2>1. CASE read.err = None /\ nul
    <3>1. d' = [read EXCEPT !.err = "invalid"]
      BY <1>1, <2>1 DEF Refuse
    <3>2. Sane(read) /\ "invalid" \in Error
      BY <1>4 DEF Follows, Error
    <3>3. QED
      BY <3>1, <3>2, RefuseFollows
  <2>2. CASE ~(read.err = None /\ nul)
    <3>1. d' = read
      BY <1>1, <2>2 DEF Refuse
    <3>2. Sane(read)
      BY <1>4 DEF Follows
    <3>3. QED
      BY <2>2, <3>1, <3>2 DEF Follows, Sane
  <2>3. QED
    BY <2>1, <2>2
<1>7. Follows(d, d')
  BY <1>2, <1>4, <1>6, FollowsTransitive
<1>8. CASE read.err # None \/ nul
  <2>1. text' = text /\ d'.err # None
    BY <1>1, <1>6, <1>8
  <2>2. TypeIInv'
    BY <1>1, <1>7, <2>1 DEF IInv, TypeIInv, Follows, Sane
  <2>3. KeptIInv'
    BY <1>1, <1>7, <2>1 DEF IInv, KeptIInv, Follows
  <2>4. LoopIInv'
    BY <1>1, <2>1 DEF IInv, LoopIInv
  <2>5. QED
    BY <2>2, <2>3, <2>4 DEF IInv
<1>9. CASE ~(read.err # None \/ nul)
  <2>1. text' = [left |-> text.left - size, got |-> text.got \o shown]
    BY <1>1, <1>9
  <2>2. /\ text.got \in Seq(Int) /\ text.left \in Nat /\ Len(text.got) \in Nat
        /\ shown \in Seq(Int) /\ Len(shown) = size
    BY <1>5, <1>9, Typed
  <2>3. /\ text'.got \in Seq(Int) /\ Len(text'.got) = Len(text.got) + size
        /\ text'.left = text.left - size /\ text'.left \in Nat
        /\ text' \in [left : Nat, got : Seq(Int)]
    <3>1. text.got \o shown \in Seq(Int) /\ Len(text.got \o shown) = Len(text.got) + size
      BY <2>2, ConcatProperties
    <3>2. text.left - size \in Nat
      BY <1>3, <2>2
    <3>3. QED
      BY <2>1, <3>1, <3>2
  <2>4. TypeIInv'
    BY <1>1, <1>7, <2>3 DEF IInv, TypeIInv, Follows, Sane
  <2>5. KeptIInv'
    <3>1. Len(text'.got) + text'.left = Len(text.got) + text.left
      BY <1>3, <2>2, <2>3
    <3>2. QED
      BY <1>1, <1>7, <3>1 DEF IInv, KeptIInv, Follows
  <2>6. LoopIInv'
    <3>1. d'.offset = d.offset + size
      BY <1>4, <1>6, <1>9
    <3>2. pc \in {"metadata", "line"} /\ text.left <= InputBytes - d.offset
      <4>1. text.left # 0 /\ d.err = None
        BY <1>1, <2>2
      <4>2. QED
        BY <4>1 DEF IInv, LoopIInv
    <3>3. text'.left <= InputBytes - d'.offset
      BY <1>2, <1>3, <2>2, <2>3, <3>1, <3>2, Constants
    <3>4. QED
      BY <1>1, <3>2, <3>3 DEF IInv, LoopIInv
  <2>7. QED
    BY <2>4, <2>5, <2>6 DEF IInv
<1>10. QED
  BY <1>8, <1>9

LEMMA MetadataIInv == ASSUME IInv, Metadata PROVE IInv'
<1> DEFINE position == Nonnegative(d)
           links == Nonnegative(position)
           count == Count(links, Nodes)
           last == Nonnegative(count)
<1>1. /\ d' = last
      /\ file' = [file EXCEPT !.saved = text.got, !.position = Value(d), !.links = Value(position),
                              !.last = Value(count)]
      /\ left' = [left EXCEPT !.records = Counted(links, Nodes)]
      /\ pc = "metadata" /\ pc' = "last save"
      /\ ~(text.left > 0 /\ d.err = None)
      /\ UNCHANGED <<wire, cancelled, record, entry, text>>
  BY DEF Metadata, Go, TextComes
<1>2. wire \in Wires /\ Sane(d) /\ text.left \in Nat /\ Nodes \in Nat /\ text.got \in Seq(Int)
  BY Typed, Constants
<1>3. Follows(d, position) /\ Value(d) \in Int
  BY <1>2, NonnegativeFollows, ValueInt
<1> HIDE DEF position
<1>4. Follows(position, links) /\ Value(position) \in Int
  BY <1>2, <1>3, NonnegativeFollows, ValueInt DEF Follows
<1> HIDE DEF links
<1>5. Follows(links, count) /\ Counted(links, Nodes) \in 0..Nodes
  BY <1>2, <1>4, CountFollows DEF Follows
<1> HIDE DEF count
<1>6. Follows(count, last) /\ Value(count) \in Int
  BY <1>2, <1>5, NonnegativeFollows, ValueInt DEF Follows
<1> HIDE DEF last
<1>7. Follows(d, d')
  BY <1>1, <1>2, <1>3, <1>4, <1>5, <1>6, FollowsTransitive
<1>8. file' \in FileType /\ file'.records = file.records
  <2>1. file \in FileType
    BY DEF IInv, TypeIInv
  <2>2. QED
    BY <1>1, <1>2, <1>3, <1>4, <1>6, <2>1 DEF FileType
<1>9. /\ left' \in [records : Nat, lines : Nat]
      /\ left'.lines = left.lines /\ left'.records = Counted(links, Nodes)
  <2>1. left \in [records : Nat, lines : Nat]
    BY DEF IInv, TypeIInv
  <2>2. Counted(links, Nodes) \in Nat
    BY <1>2, <1>5
  <2>3. QED
    BY <1>1, <2>1, <2>2
<1>10. TypeIInv'
  BY <1>1, <1>7, <1>8, <1>9 DEF IInv, TypeIInv, Follows, Sane
<1>11. KeptIInv'
  <2>1. Len(file'.records) + left'.records <= Nodes
    <3>1. Len(file.records) = 0
      BY <1>1 DEF IInv, LoopIInv
    <3>2. QED
      BY <1>2, <1>5, <1>8, <1>9, <3>1
  <2>2. QED
    BY <1>1, <1>7, <1>9, <2>1 DEF IInv, KeptIInv, Follows
<1>12. LoopIInv'
  <2>1. d'.err = None => text'.left = 0
    <3>1. d'.err = None => d.err = None
      BY <1>7 DEF Follows
    <3>2. d.err = None => text.left = 0
      <4>1. text.left \in Nat /\ ~(text.left > 0 /\ d.err = None)
        BY <1>1, <1>2
      <4>2. QED
        BY <4>1
    <3>3. QED
      BY <1>1, <3>1, <3>2
  <2>2. QED
    BY <1>1, <2>1 DEF LoopIInv
<1>13. QED
  BY <1>10, <1>11, <1>12 DEF IInv

LEMMA OptionalKeeps ==
    ASSUME IInv, NEW save, NEW gone, Optional(save, gone)
    PROVE  /\ Follows(d, d')
           /\ pc' \in {gone, pc} /\ UNCHANGED <<wire, cancelled>>
           /\ file' \in FileType /\ file'.records = file.records
           /\ record' \in RecordType /\ record'.entries = record.entries
           /\ record'.extmarks = record.extmarks
<1> DEFINE sized == Read(d, 1)
           size == Value(d)
           numbered == Read(sized, 1)
           named == Refuse(numbered, Value(sized) # 1, "unsupported")
           fresh == Refuse(named, save # None, "invalid")
           framed == Refuse(fresh, size # 4, "invalid")
<1>1. wire \in Wires /\ Sane(d) /\ file \in FileType /\ record \in RecordType
  BY DEF IInv, TypeIInv
<1>2. \/ /\ d' = sized /\ pc' = gone /\ UNCHANGED <<wire, cancelled, file, record>>
      \/ /\ d' = Nonnegative(framed)
         /\ pc' \in {gone, pc} /\ UNCHANGED <<wire, cancelled>>
         /\ file' \in {file, [file EXCEPT !.save = Value(framed)]}
         /\ record' \in {record, [record EXCEPT !.save = Value(framed)]}
  BY DEF Optional, Go
<1>3. Follows(d, sized)
  BY <1>1, ReadFollows
<1> HIDE DEF sized, size
<1>4. Follows(sized, numbered)
  BY <1>1, <1>3, ReadFollows DEF Follows
<1> HIDE DEF numbered
<1>5. Follows(numbered, named)
  BY <1>4, RefuseFollows DEF Refuse, Error, Follows
<1> HIDE DEF named
<1>6. Follows(named, fresh)
  BY <1>5, RefuseFollows DEF Refuse, Error, Follows
<1> HIDE DEF fresh
<1>7. Follows(fresh, framed)
  BY <1>6, RefuseFollows DEF Refuse, Error, Follows
<1> HIDE DEF framed
<1>8. Follows(framed, Nonnegative(framed)) /\ Value(framed) \in Int
  BY <1>1, <1>7, NonnegativeFollows, ValueInt DEF Follows
<1>9. Follows(d, Nonnegative(framed))
  <2>1. Follows(d, named)
    BY <1>1, <1>3, <1>4, <1>5, FollowsTransitive
  <2>2. QED
    BY <1>1, <1>6, <1>7, <1>8, <2>1, FollowsTransitive
<1>10. /\ [file EXCEPT !.save = Value(framed)] \in FileType
       /\ [file EXCEPT !.save = Value(framed)].records = file.records
  BY <1>1, <1>8 DEF FileType
<1>11. /\ [record EXCEPT !.save = Value(framed)] \in RecordType
       /\ [record EXCEPT !.save = Value(framed)].entries = record.entries
       /\ [record EXCEPT !.save = Value(framed)].extmarks = record.extmarks
  BY <1>1, <1>8 DEF RecordType
<1>12. QED
  BY <1>1, <1>2, <1>3, <1>9, <1>10, <1>11

LEMMA SaveIInv == ASSUME IInv, LastSave \/ Save PROVE IInv'
<1>1. /\ \/ pc = "last save" /\ pc' \in {"last save", "records"}
         \/ pc = "save" /\ pc' \in {"save", "text entries"}
      /\ Follows(d, d')
      /\ UNCHANGED <<wire, cancelled, entry, text, left>>
      /\ file' \in FileType /\ file'.records = file.records
      /\ record' \in RecordType /\ record'.entries = record.entries
      /\ record'.extmarks = record.extmarks
  <2>1. CASE LastSave
    <3>1. pc = "last save" /\ Optional(file.save, "records") /\ UNCHANGED <<entry, text, left>>
      BY <2>1 DEF LastSave
    <3>2. /\ Follows(d, d')
          /\ pc' \in {"records", pc} /\ UNCHANGED <<wire, cancelled>>
          /\ file' \in FileType /\ file'.records = file.records
          /\ record' \in RecordType /\ record'.entries = record.entries
          /\ record'.extmarks = record.extmarks
      BY <3>1, OptionalKeeps
    <3>3. QED
      BY <3>1, <3>2
  <2>2. CASE Save
    <3>1. pc = "save" /\ Optional(record.save, "text entries") /\ UNCHANGED <<entry, text, left>>
      BY <2>2 DEF Save
    <3>2. QED
      BY <3>1, OptionalKeeps
  <2>3. QED
    BY <2>1, <2>2
<1>2. TypeIInv'
  BY <1>1 DEF IInv, TypeIInv, Follows, Sane
<1>3. KeptIInv'
  BY <1>1 DEF IInv, KeptIInv, Follows
<1>4. LoopIInv'
  BY <1>1 DEF IInv, LoopIInv, Follows
<1>5. QED
  BY <1>2, <1>3, <1>4 DEF IInv

LEMMA RecordIInv == ASSUME IInv, Record PROVE IInv'
<1> DEFINE marked == Marker(d, HeaderStart)
           block == Read(marked, 4)
           fixed == SubSeq(wire.cells, d.offset + 2, d.offset + 5)
           signs == Refuse(block, fixed[1] < 0 \/ fixed[2] <= 0 \/ fixed[3] < -1, "invalid")
           kinds == Refuse(signs, fixed[4] \notin 0..7, "unsupported")
<1>1. /\ \/ block.err # None /\ d' = block /\ pc' = "records" /\ UNCHANGED record
         \/ /\ block.err = None /\ d' = kinds /\ pc' = "save"
            /\ record' = [NoRecord EXCEPT !.fixed = fixed]
      /\ pc = "records" /\ left.records > 0
      /\ UNCHANGED <<wire, cancelled, file, entry, text, left>>
  BY DEF Record, Go
<1>2. wire \in Wires /\ Sane(d) /\ wire.cells \in Seq(Int) /\ Len(wire.cells) \in Nat /\ d.offset \in Nat
  BY Typed, Constants
<1>3. Follows(d, marked) /\ (marked.err = None => marked.offset = d.offset + 1)
  <2>1. /\ Follows(d, Read(d, 1))
        /\ Read(d, 1).err = None => Read(d, 1).offset = d.offset + 1
    BY <1>2, ReadFollows
  <2>2. /\ Follows(Read(d, 1), marked)
        /\ marked.offset = Read(d, 1).offset
    BY <2>1, RefuseFollows DEF Marker, Refuse, Error, Follows
  <2> HIDE DEF marked
  <2>3. QED
    BY <1>2, <2>1, <2>2, FollowsTransitive DEF Follows
<1> HIDE DEF marked
<1>4. /\ Follows(d, block) /\ Sane(block)
      /\ block.err = None => d.offset + 5 <= Len(wire.cells)
  <2>1. /\ Follows(marked, block)
        /\ block.err = None => marked.offset + 4 <= Len(wire.cells)
    BY <1>2, <1>3, ReadFollows DEF Follows
  <2>2. Follows(d, block)
    BY <1>2, <1>3, <2>1, FollowsTransitive
  <2>3. block.err = None => d.offset + 5 <= Len(wire.cells)
    <3>1. block.err = None => marked.err = None
      BY <2>1 DEF Follows
    <3>2. QED
      BY <1>2, <1>3, <2>1, <3>1
  <2>4. QED
    BY <2>2, <2>3 DEF Follows
<1> HIDE DEF block
<1>5. block.err = None => fixed \in Seq(Int)
  <2> SUFFICES ASSUME block.err = None PROVE fixed \in Seq(Int)
    OBVIOUS
  <2>1. \A i \in d.offset + 2 .. d.offset + 5 : wire.cells[i] \in Int
    <3>1. d.offset + 2 .. d.offset + 5 \subseteq 1..Len(wire.cells)
      BY <1>2, <1>4, SMTT(30)
    <3>2. QED
      BY <1>2, <3>1, ElementOfSeq
  <2>2. QED
    BY <1>2, <2>1, SubSeqProperties
<1> HIDE DEF fixed
<1>6. Follows(d, kinds)
  <2>1. Follows(block, signs)
    <3> DEFINE wrong == fixed[1] < 0 \/ fixed[2] <= 0 \/ fixed[3] < -1
    <3>1. signs = Refuse(block, wrong, "invalid")
      OBVIOUS
    <3> HIDE DEF wrong, signs
    <3>2. QED
      BY <1>4, <3>1, RefuseFollows DEF Refuse, Error
  <2> HIDE DEF signs
  <2>2. Follows(signs, kinds)
    BY <2>1, RefuseFollows DEF Refuse, Error, Follows
  <2>3. QED
    BY <1>2, <1>4, <2>1, <2>2, FollowsTransitive
<1> HIDE DEF kinds
<1>7. Follows(d, d')
  BY <1>1, <1>4, <1>6
<1>8. CASE UNCHANGED record /\ pc' = "records"
  <2>1. TypeIInv'
    BY <1>1, <1>7, <1>8 DEF IInv, TypeIInv, Follows, Sane
  <2>2. KeptIInv'
    BY <1>1, <1>7, <1>8 DEF IInv, KeptIInv, Follows
  <2>3. LoopIInv'
    BY <1>1, <1>7, <1>8 DEF IInv, LoopIInv, Follows
  <2>4. QED
    BY <2>1, <2>2, <2>3 DEF IInv
<1>9. CASE block.err = None /\ pc' = "save" /\ record' = [NoRecord EXCEPT !.fixed = fixed]
  <2>1. /\ record' \in RecordType /\ record'.entries = <<>> /\ record'.extmarks = <<>>
    BY <1>5, <1>9, EmptySeq DEF NoRecord, RecordType
  <2>2. TypeIInv'
    BY <1>1, <1>7, <2>1 DEF IInv, TypeIInv, Follows, Sane
  <2>3. KeptIInv'
    <3>1. Len(record'.entries) = 0 /\ Len(record'.extmarks) = 0
      BY <2>1, EmptySeq
    <3>2. d'.entries \in Nat
      BY <1>7 DEF Follows, Sane
    <3>3. Len(record'.entries) + Len(record'.extmarks) <= d'.entries
      BY <3>1, <3>2
    <3>4. QED
      BY <1>1, <1>7, <1>9, <3>3 DEF IInv, KeptIInv, Follows
  <2>4. LoopIInv'
    BY <1>1, <1>7, <1>9 DEF IInv, LoopIInv, Follows
  <2>5. QED
    BY <2>2, <2>3, <2>4 DEF IInv
<1>10. QED
  BY <1>1, <1>8, <1>9

(* Sums of lengths and what is charged for them.                            *)
LEMMA Shift ==
    ASSUME NEW a \in Nat, NEW b \in Nat, NEW e \in Nat, a + b <= e
    PROVE  a + b + 1 <= e + 1 /\ a + b <= e + 1
OBVIOUS

LEMMA EntryIInv == ASSUME IInv, Entry PROVE IInv'
<1> DEFINE c == NextEntry(d).c
           top == Count(c, StateLines)
           bottom == Count(top, StateLines + 1)
           saved == Count(bottom, StateLines)
           ranged == Refuse(saved, Counted(top, StateLines + 1) \in 1..Counted(c, StateLines), "invalid")
           room == StoredLines - d.lines
           count == Counted(ranged, room)
           filled == Count(ranged, room)
<1>1. /\ pc = "text entries" /\ pc' = "lines" /\ NextEntry(d).more
      /\ d' = [filled EXCEPT !.lines = @ + count]
      /\ entry' = [range |-> <<Value(c), Value(top), Value(bottom)>>, lines |-> <<>>]
      /\ left' = [left EXCEPT !.lines = count]
      /\ UNCHANGED <<wire, cancelled, file, record, text>>
  BY DEF Entry, Go
<1>2. wire \in Wires /\ Sane(d) /\ d.lines \in Nat /\ d.entries \in Nat /\ d.lines <= StoredLines
  BY Typed DEF Sane
<1>3. StateLines \in Nat /\ StateLines + 1 \in Nat /\ room \in Nat
  BY <1>2, Constants
<1> HIDE DEF room
<1>4. Sane(c) /\ d.err = None /\ c.entries = d.entries + 1 /\ c.lines = d.lines
  BY <1>1, <1>2, NextEntryFollows
<1> HIDE DEF c
<1>5. Follows(c, top) /\ Value(c) \in Int
  BY <1>2, <1>3, <1>4, CountFollows, ValueInt
<1>6. Sane(top)
  BY <1>5 DEF Follows
<1> HIDE DEF top
<1>7. Follows(top, bottom) /\ Value(top) \in Int
  BY <1>2, <1>3, <1>6, CountFollows, ValueInt
<1>8. Sane(bottom)
  BY <1>7 DEF Follows
<1> HIDE DEF bottom
<1>9. Follows(bottom, saved) /\ Value(bottom) \in Int
  BY <1>2, <1>3, <1>8, CountFollows, ValueInt
<1> HIDE DEF saved
<1>10. Follows(saved, ranged)
  BY <1>9, RefuseFollows DEF Refuse, Error, Follows
<1> HIDE DEF ranged
<1>11. Follows(ranged, filled) /\ count \in 0..room
  BY <1>2, <1>3, <1>10, CountFollows DEF Follows
<1> HIDE DEF filled, count
<1>12. Follows(c, filled)
  <2>1. Follows(c, saved)
    BY <1>4, <1>5, <1>7, <1>9, FollowsTransitive
  <2>2. QED
    BY <1>4, <1>10, <1>11, <2>1, FollowsTransitive
<1>13. Sane(filled) /\ filled.entries = d.entries + 1 /\ filled.lines = d.lines
  BY <1>4, <1>12 DEF Follows
<1>14. count \in Nat /\ d.lines + count <= StoredLines
  BY <1>2, <1>3, <1>11, Constants DEF room
<1>15. /\ Sane(d')
       /\ d'.entries = d.entries + 1 /\ d'.lines = d.lines + count
  <2>1. d' = [filled EXCEPT !.lines = d.lines + count]
    BY <1>1, <1>13 DEF Sane
  <2>2. QED
    BY <1>2, <1>13, <1>14, <2>1 DEF Sane
<1>16. entry' \in EntryType /\ entry'.lines = <<>> /\ Len(entry'.lines) = 0
  <2>1. <<Value(c), Value(top), Value(bottom)>> \in Seq(Int)
    BY <1>5, <1>7, <1>9
  <2>2. QED
    BY <1>1, <2>1, EmptySeq DEF EntryType
<1>17. left' \in [records : Nat, lines : Nat] /\ left'.records = left.records /\ left'.lines = count
  BY <1>1, <1>14 DEF IInv, TypeIInv
<1>18. TypeIInv'
  BY <1>1, <1>15, <1>16, <1>17 DEF IInv, TypeIInv, Sane
<1>19. KeptIInv'
  <2>1. Len(entry'.lines) + left'.lines <= d'.lines
    BY <1>2, <1>14, <1>15, <1>16, <1>17
  <2>2. /\ Len(record.entries) + Len(record.extmarks) <= d.entries
        /\ Len(record.entries) \in Nat /\ Len(record.extmarks) \in Nat
    BY Typed DEF IInv, KeptIInv
  <2>3. Len(record.entries) + Len(record.extmarks) + 1 <= d.entries + 1
    BY <1>2, <2>2, Shift
  <2>4. Len(record.entries) + Len(record.extmarks) <= d.entries + 1
    BY <1>2, <2>2, Shift
  <2>5. record' = record /\ d'.entries = d.entries + 1
    BY <1>1, <1>15
  <2>6. QED
    BY <1>1, <1>17, <2>1, <2>3, <2>4, <2>5 DEF IInv, KeptIInv
<1>20. LoopIInv'
  BY <1>1, <1>4, <1>17 DEF IInv, LoopIInv
<1>21. QED
  BY <1>18, <1>19, <1>20 DEF IInv

LEMMA LineIInv == ASSUME IInv, Line PROVE IInv'
<1>1. /\ pc = "lines" /\ pc' = "line" /\ left.lines > 0
      /\ d' = TextLength(d) /\ text' = TextOf(d)
      /\ UNCHANGED <<wire, cancelled, file, record, entry, left>>
  BY DEF Line, Go, built
<1>2. /\ Follows(d, d')
      /\ text' \in [left : Nat, got : Seq(Int)]
      /\ text'.got = <<>> /\ text'.left <= LineBytes
      /\ d'.err = None => text'.left <= InputBytes - d'.offset
  BY <1>1, Typed, TextLengthFollows
<1>3. TypeIInv'
  BY <1>1, <1>2 DEF IInv, TypeIInv, Follows, Sane
<1>4. KeptIInv'
  <2>1. Len(text'.got) = 0
    BY <1>2, EmptySeq
  <2>2. Len(text'.got) + text'.left <= LineBytes
    BY <1>2, <2>1
  <2>3. QED
    BY <1>1, <1>2, <2>2 DEF IInv, KeptIInv, Follows
<1>5. LoopIInv'
  BY <1>1, <1>2 DEF IInv, LoopIInv
<1>6. QED
  BY <1>3, <1>4, <1>5 DEF IInv

LEMMA LineEndIInv == ASSUME IInv, LineEnd PROVE IInv'
<1>1. /\ pc = "line" /\ pc' = "lines"
      /\ ~(text.left > 0 /\ d.err = None)
      /\ entry' \in {entry, [entry EXCEPT !.lines = Append(entry.lines, text.got)]}
      /\ left' = [left EXCEPT !.lines = left.lines - 1]
      /\ UNCHANGED <<wire, cancelled, d, file, record, text>>
  BY DEF LineEnd, Go, TextComes
<1>2. /\ entry \in EntryType /\ left \in [records : Nat, lines : Nat]
      /\ entry.lines \in Seq(Seq(Int)) /\ text.got \in Seq(Int) /\ text.left \in Nat
      /\ Len(entry.lines) \in Nat /\ d.lines \in Nat
  BY Typed DEF IInv, TypeIInv
<1>3. left.lines > 0 /\ left.lines \in Nat /\ left.records > 0
  BY <1>1, <1>2 DEF IInv, LoopIInv
<1>4. left' \in [records : Nat, lines : Nat] /\ left'.records = left.records /\ left'.lines = left.lines - 1
  <2>1. left.lines - 1 \in Nat
    BY <1>3
  <2>2. QED
    BY <1>1, <1>2, <2>1
<1>5. entry' \in EntryType /\ Len(entry'.lines) \in {Len(entry.lines), Len(entry.lines) + 1}
  <2>1. Append(entry.lines, text.got) \in Seq(Seq(Int))
        /\ Len(Append(entry.lines, text.got)) = Len(entry.lines) + 1
    BY <1>2, AppendProperties
  <2> DEFINE kept == Append(entry.lines, text.got)
  <2> HIDE DEF kept
  <2>2. entry' = entry \/ entry' = [entry EXCEPT !.lines = kept]
    BY <1>1 DEF kept
  <2>3. [entry EXCEPT !.lines = kept] \in EntryType /\ [entry EXCEPT !.lines = kept].lines = kept
    BY <1>2, <2>1 DEF kept, EntryType
  <2>4. QED
    BY <1>2, <2>1, <2>2, <2>3 DEF kept
<1>6. TypeIInv'
  BY <1>1, <1>4, <1>5 DEF IInv, TypeIInv, Sane
<1>7. KeptIInv'
  <2>1. Len(entry.lines) + left.lines <= d.lines
    BY DEF IInv, KeptIInv
  <2>2. Len(entry'.lines) + left'.lines <= d'.lines
    BY <1>1, <1>2, <1>3, <1>4, <1>5, <2>1, SMTT(30)
  <2>3. QED
    BY <1>1, <1>4, <2>2 DEF IInv, KeptIInv
<1>8. LoopIInv'
  <2>1. d.err = None => text.left = 0
    <3>1. ~(text.left > 0 /\ d.err = None)
      BY <1>1
    <3>2. QED
      BY <1>2, <3>1
  <2>2. QED
    BY <1>1, <1>3, <1>4, <2>1 DEF LoopIInv
<1>9. QED
  BY <1>6, <1>7, <1>8 DEF IInv

LEMMA Grown ==
    ASSUME NEW a \in Nat, NEW b \in Nat, NEW e \in Nat, NEW x \in {a, a + 1}
    PROVE  /\ a + b + 1 <= e => x + b <= e
           /\ b + a <= e => b + x <= e + 1
           /\ x \in Nat
OBVIOUS

LEMMA EntryDoneIInv == ASSUME IInv, EntryDone PROVE IInv'
<1>1. /\ pc = "lines" /\ pc' = "text entries"
      /\ d' = d \/ d' = Checked(d)
      /\ \/ UNCHANGED record
         \/ record' = [record EXCEPT !.entries = Append(record.entries, entry)]
      /\ UNCHANGED <<wire, cancelled, file, entry, text, left>>
  BY DEF EntryDone, Go
<1>2. /\ wire \in Wires /\ Sane(d) /\ record \in RecordType /\ entry \in EntryType
      /\ record.entries \in Seq(EntryType) /\ d.entries \in Nat
      /\ Len(record.entries) \in Nat /\ Len(record.extmarks) \in Nat
  BY Typed DEF IInv, TypeIInv
<1>3. Follows(d, d')
  <2>1. Follows(d, d)
    BY <1>2 DEF Follows, Sane
  <2>2. Follows(d, Checked(d))
    BY <1>2, CheckedFollows
  <2>3. QED
    BY <1>1, <2>1, <2>2
<1>4. /\ record' \in RecordType /\ record'.extmarks = record.extmarks
      /\ Len(record'.entries) \in {Len(record.entries), Len(record.entries) + 1}
  <2> DEFINE kept == Append(record.entries, entry)
  <2>1. kept \in Seq(EntryType) /\ Len(kept) = Len(record.entries) + 1
    BY <1>2, AppendProperties
  <2>2. record' = record \/ record' = [record EXCEPT !.entries = kept]
    BY <1>1
  <2> HIDE DEF kept
  <2>3. /\ [record EXCEPT !.entries = kept] \in RecordType
        /\ [record EXCEPT !.entries = kept].entries = kept
        /\ [record EXCEPT !.entries = kept].extmarks = record.extmarks
    BY <1>2, <2>1 DEF RecordType
  <2>4. QED
    BY <1>2, <2>1, <2>2, <2>3
<1>5. TypeIInv'
  BY <1>1, <1>3, <1>4 DEF IInv, TypeIInv, Follows, Sane
<1>6. KeptIInv'
  <2>1. Len(record.entries) + Len(record.extmarks) + 1 <= d.entries
    BY <1>1 DEF IInv, KeptIInv
  <2>2. d'.entries = d.entries
    BY <1>3 DEF Follows
  <2>3. Len(record'.entries) + Len(record'.extmarks) <= d'.entries
    <3>1. Len(record'.entries) + Len(record.extmarks) <= d.entries
      BY <1>2, <1>4, <2>1, Grown
    <3>2. QED
      BY <1>4, <2>2, <3>1
  <2>4. QED
    BY <1>1, <1>3, <2>3 DEF IInv, KeptIInv, Follows
<1>7. LoopIInv'
  BY <1>1, <1>3 DEF IInv, LoopIInv, Follows
<1>8. QED
  BY <1>5, <1>6, <1>7 DEF IInv

LEMMA EntriesDoneIInv == ASSUME IInv, EntriesDone PROVE IInv'
<1>1. /\ pc = "text entries" /\ pc' = "extmarks"
      /\ d' = NextEntry(d).c /\ ~NextEntry(d).more
      /\ UNCHANGED <<wire, cancelled, file, record, entry, text, left>>
  BY DEF EntriesDone, Go, built
<1>2. Follows(d, d')
  BY <1>1, Typed, NextEntryFollows
<1>3. TypeIInv'
  BY <1>1, <1>2 DEF IInv, TypeIInv, Follows, Sane
<1>4. KeptIInv'
  BY <1>1, <1>2 DEF IInv, KeptIInv, Follows
<1>5. LoopIInv'
  BY <1>1, <1>2 DEF IInv, LoopIInv, Follows
<1>6. QED
  BY <1>3, <1>4, <1>5 DEF IInv

LEMMA ExtmarkIInv == ASSUME IInv, Extmark PROVE IInv'
<1> DEFINE c == NextEntry(d).c
           read == Read(c, 1)
           kind == Refuse(read, Value(c) \notin {0, 1}, "unsupported")
           mark == <<Value(c), Value(kind)>>
<1>1. /\ pc = "extmarks" /\ pc' = "extmarks" /\ NextEntry(d).more
      /\ d' = Read(kind, 1)
      /\ \/ UNCHANGED record
         \/ record' = [record EXCEPT !.extmarks = Append(record.extmarks, mark)]
      /\ UNCHANGED <<wire, cancelled, file, entry, text, left>>
  BY DEF Extmark, Go
<1>2. /\ wire \in Wires /\ Sane(d) /\ record \in RecordType
      /\ record.extmarks \in Seq(Seq(Int)) /\ d.entries \in Nat
      /\ Len(record.entries) \in Nat /\ Len(record.extmarks) \in Nat
  BY Typed DEF IInv, TypeIInv
<1>3. Sane(c) /\ d.err = None /\ c.entries = d.entries + 1 /\ c.lines = d.lines
  BY <1>1, <1>2, NextEntryFollows
<1> HIDE DEF c
<1>4. Follows(c, read) /\ Value(c) \in Int
  BY <1>2, <1>3, ReadFollows, ValueInt
<1> HIDE DEF read
<1>5. Follows(read, kind)
  BY <1>4, RefuseFollows DEF Refuse, Error, Follows
<1> HIDE DEF kind
<1>6. Follows(kind, d') /\ Value(kind) \in Int
  BY <1>1, <1>2, <1>5, ReadFollows, ValueInt DEF Follows
<1>7. Follows(c, d')
  BY <1>3, <1>4, <1>5, <1>6, FollowsTransitive
<1>8. Sane(d') /\ d'.entries = d.entries + 1 /\ d'.lines = d.lines
  BY <1>3, <1>7 DEF Follows
<1>9. mark \in Seq(Int)
  BY <1>4, <1>6
<1> HIDE DEF mark
<1>10. /\ record' \in RecordType /\ record'.entries = record.entries
       /\ Len(record'.extmarks) \in {Len(record.extmarks), Len(record.extmarks) + 1}
  <2> DEFINE kept == Append(record.extmarks, mark)
  <2>1. kept \in Seq(Seq(Int)) /\ Len(kept) = Len(record.extmarks) + 1
    BY <1>2, <1>9, AppendProperties
  <2>2. record' = record \/ record' = [record EXCEPT !.extmarks = kept]
    BY <1>1
  <2> HIDE DEF kept
  <2>3. /\ [record EXCEPT !.extmarks = kept] \in RecordType
        /\ [record EXCEPT !.extmarks = kept].extmarks = kept
        /\ [record EXCEPT !.extmarks = kept].entries = record.entries
    BY <1>2, <2>1 DEF RecordType
  <2>4. QED
    BY <1>2, <2>1, <2>2, <2>3
<1>11. TypeIInv'
  BY <1>1, <1>8, <1>10 DEF IInv, TypeIInv, Sane
<1>12. KeptIInv'
  <2>1. Len(record.entries) + Len(record.extmarks) <= d.entries
    BY DEF IInv, KeptIInv
  <2>2. /\ Len(record.entries) + Len(record.extmarks) + 1 <= d.entries + 1
        /\ Len(record.entries) + Len(record.extmarks) <= d.entries + 1
    BY <1>2, <2>1, Shift
  <2>3. Len(record'.entries) + Len(record'.extmarks) <= d'.entries
    <3>1. /\ Len(record.entries) + Len(record'.extmarks) <= d.entries + 1
          /\ Len(record'.extmarks) \in Nat
      BY <1>2, <1>10, <2>1, Grown
    <3>2. QED
      BY <1>2, <1>8, <1>10, <3>1
  <2>4. QED
    BY <1>1, <1>8, <2>3 DEF IInv, KeptIInv
<1>13. LoopIInv'
  BY <1>1, <1>3 DEF IInv, LoopIInv
<1>14. QED
  BY <1>11, <1>12, <1>13 DEF IInv

LEMMA RecordDoneIInv == ASSUME IInv, RecordDone PROVE IInv'
<1>1. /\ pc = "extmarks" /\ pc' = "records"
      /\ d' = NextEntry(d).c /\ ~NextEntry(d).more
      /\ \/ UNCHANGED file
         \/ file' = [file EXCEPT !.records = Append(file.records, record)]
      /\ left' = [left EXCEPT !.records = left.records - 1]
      /\ UNCHANGED <<wire, cancelled, record, entry, text>>
  BY DEF RecordDone, Go
<1>2. /\ wire \in Wires /\ Sane(d) /\ file \in FileType /\ record \in RecordType
      /\ file.records \in Seq(RecordType) /\ Len(file.records) \in Nat
      /\ left \in [records : Nat, lines : Nat] /\ left.records \in Nat /\ Nodes \in Nat
  BY Typed, Constants DEF IInv, TypeIInv
<1>3. left.records > 0
  BY <1>1 DEF IInv, LoopIInv
<1>4. Follows(d, d')
  BY <1>1, <1>2, NextEntryFollows
<1>5. /\ left' \in [records : Nat, lines : Nat]
      /\ left'.lines = left.lines /\ left'.records = left.records - 1
  <2>1. left.records - 1 \in Nat
    BY <1>2, <1>3
  <2>2. QED
    BY <1>1, <1>2, <2>1
<1>6. /\ file' \in FileType
      /\ Len(file'.records) \in {Len(file.records), Len(file.records) + 1}
  <2> DEFINE kept == Append(file.records, record)
  <2>1. kept \in Seq(RecordType) /\ Len(kept) = Len(file.records) + 1
    BY <1>2, AppendProperties
  <2>2. file' = file \/ file' = [file EXCEPT !.records = kept]
    BY <1>1
  <2> HIDE DEF kept
  <2>3. /\ [file EXCEPT !.records = kept] \in FileType
        /\ [file EXCEPT !.records = kept].records = kept
    BY <1>2, <2>1 DEF FileType
  <2>4. QED
    BY <1>2, <2>1, <2>2, <2>3
<1>7. TypeIInv'
  BY <1>1, <1>4, <1>5, <1>6 DEF IInv, TypeIInv, Follows, Sane
<1>8. KeptIInv'
  <2>1. Len(file.records) + left.records <= Nodes
    BY DEF IInv, KeptIInv
  <2>2. Len(file'.records) + left'.records <= Nodes
    BY <1>2, <1>3, <1>5, <1>6, <2>1
  <2>3. QED
    BY <1>1, <1>4, <1>5, <2>2 DEF IInv, KeptIInv, Follows
<1>9. LoopIInv'
  BY <1>1, <1>4 DEF IInv, LoopIInv, Follows
<1>10. QED
  BY <1>7, <1>8, <1>9 DEF IInv

LEMMA EndIInv == ASSUME IInv, End PROVE IInv'
<1> DEFINE at == IF left.records = 0 THEN d ELSE Checked(d)
           marked == Marker(at, HeadersEnd)
           checked == Checked(marked)
           more == checked.offset < Len(wire.cells)
           broken == ~more /\ wire.ending = "failure"
           kind == IF checked.offset = InputBytes THEN "limit" ELSE "invalid"
           refused == Refuse(checked, more, kind)
<1>1. /\ pc = "records" /\ pc' = "ended"
      /\ d' = Refuse(refused, broken, "read failure")
      /\ UNCHANGED <<wire, cancelled, file, record, entry, text, left>>
  BY DEF End, Go, built
<1>2. wire \in Wires /\ Sane(d)
  BY Typed
<1>3. Follows(d, at)
  <2>1. Follows(d, d)
    BY <1>2 DEF Follows, Sane
  <2>2. Follows(d, Checked(d))
    BY <1>2, CheckedFollows
  <2>3. QED
    BY <2>1, <2>2
<1> HIDE DEF at
<1>4. Follows(at, marked)
  BY <1>2, <1>3, MarkerFollows DEF Follows
<1> HIDE DEF marked
<1>5. Follows(marked, checked)
  BY <1>4, CheckedFollows DEF Follows
<1> HIDE DEF checked
<1>6. Follows(checked, refused)
  <2>1. kind \in Error
    BY DEF Error
  <2>2. Sane(checked)
    BY <1>5 DEF Follows
  <2> HIDE DEF kind, more
  <2>3. refused = checked \/ refused = [checked EXCEPT !.err = kind]
    BY DEF Refuse
  <2> HIDE DEF refused
  <2>4. QED
    BY <2>1, <2>2, <2>3, RefuseFollows
<1> HIDE DEF refused, broken
<1>7. Follows(refused, d')
  <2>1. Sane(refused) /\ "read failure" \in Error
    BY <1>6 DEF Follows, Error
  <2>2. d' = refused \/ d' = [refused EXCEPT !.err = "read failure"]
    BY <1>1 DEF Refuse
  <2>3. QED
    BY <2>1, <2>2, RefuseFollows
<1>8. Follows(d, d')
  <2>1. Follows(d, checked)
    BY <1>2, <1>3, <1>4, <1>5, FollowsTransitive
  <2>2. QED
    BY <1>2, <1>6, <1>7, <2>1, FollowsTransitive
<1>9. TypeIInv'
  BY <1>1, <1>8 DEF IInv, TypeIInv, Follows, Sane
<1>10. KeptIInv'
  BY <1>1, <1>8 DEF IInv, KeptIInv, Follows
<1>11. LoopIInv'
  BY <1>1, <1>8 DEF IInv, LoopIInv, Follows
<1>12. QED
  BY <1>9, <1>10, <1>11 DEF IInv

LEMMA NextIInv == IInv /\ [Next]_vars => IInv'
<1> SUFFICES ASSUME IInv, [Next]_vars PROVE IInv'
  OBVIOUS
<1>1. CASE UNCHANGED vars
  BY <1>1 DEF vars, IInv, TypeIInv, KeptIInv, LoopIInv, Sane
<1>2. CASE Cancel
  BY <1>2, CancelIInv
<1>3. CASE Start
  BY <1>3, StartIInv
<1>4. CASE TextChunk
  BY <1>4, TextChunkIInv
<1>5. CASE Metadata
  BY <1>5, MetadataIInv
<1>6. CASE LastSave \/ Save
  BY <1>6, SaveIInv
<1>7. CASE Record
  BY <1>7, RecordIInv
<1>8. CASE Entry
  BY <1>8, EntryIInv
<1>9. CASE Line
  BY <1>9, LineIInv
<1>10. CASE LineEnd
  BY <1>10, LineEndIInv
<1>11. CASE EntryDone
  BY <1>11, EntryDoneIInv
<1>12. CASE EntriesDone
  BY <1>12, EntriesDoneIInv
<1>13. CASE Extmark
  BY <1>13, ExtmarkIInv
<1>14. CASE RecordDone
  BY <1>14, RecordDoneIInv
<1>15. CASE End
  BY <1>15, EndIInv
<1>16. QED
  BY <1>1, <1>2, <1>3, <1>4, <1>5, <1>6, <1>7, <1>8, <1>9, <1>10, <1>11, <1>12, <1>13, <1>14,
     <1>15 DEF Next

(* The decoder never passes a limit (decode.go, v3.go), whatever the input   *)
(* announces and wherever it is damaged, cut short or cancelled: what it     *)
(* reads, keeps and charges, and what it has accepted but not yet read, fits.*)
THEOREM WithinLimits == Spec => []NoLimitIsPassed
BY InitIInv, NextIInv, IInvWithin, PTL DEF Spec

------------------------------------------------------------------------------
(* Base: what the lines of a text are hashed as, and that only one text is   *)
(* hashed as that.                                                          *)

(* A line as it is hashed.                                                  *)

Text == Seq(Seq(Character))
NoLF(line) == ~Contains(line, LF)

LEMMA Signs == NUL \in Character /\ LF \in Character /\ NUL # LF
BY BaseAssumption DEF NUL, LF

LEMMA TerminatedIs ==
    ASSUME NEW line \in Seq(Character)
    PROVE  /\ Terminated(line) \in Seq(Character) /\ Len(Terminated(line)) = Len(line) + 1
           /\ \A i \in 1..Len(line) : Terminated(line)[i] = IF line[i] = NUL THEN LF ELSE line[i]
           /\ Terminated(line)[Len(line) + 1] = NUL
<1> DEFINE n == Len(line)
           s == [i \in DOMAIN line |-> IF line[i] = NUL THEN LF ELSE line[i]]
           e == <<NUL>>
           t == s \o e
<1>1. n \in Nat /\ DOMAIN line = 1..n /\ \A i \in 1..n : line[i] \in Character
  BY LenProperties, ElementOfSeq
<1> HIDE DEF n
<1>2. \A i \in 1..n : (IF line[i] = NUL THEN LF ELSE line[i]) \in Character
  BY <1>1, Signs
<1>3. s \in Seq(Character) /\ Len(s) = n
  <2>1. s \in [1..n -> Character]
    BY <1>1, <1>2
  <2>2. s \in Seq(Character)
    BY <1>1, <2>1, IsASeq
  <2>3. QED
    BY <1>1, <2>1, <2>2, LenProperties, SameLength
<1>4. /\ e \in Seq(Character)
      /\ Len(e) = 1 /\ e[1] = NUL
  BY Signs
<1>5. \A i \in 1..n : s[i] = IF line[i] = NUL THEN LF ELSE line[i]
  BY <1>1
<1> HIDE DEF s, e
<1>6. t \in Seq(Character) /\ Len(t) = n + 1 /\ \A i \in 1..n+1 : t[i] = IF i <= n THEN s[i] ELSE e[i - n]
  <2>1. /\ s \o e \in Seq(Character) /\ Len(s \o e) = Len(s) + Len(e)
        /\ \A i \in 1..Len(s)+Len(e) : (s \o e)[i] = IF i <= Len(s) THEN s[i] ELSE e[i - Len(s)]
    BY <1>3, <1>4, ConcatProperties
  <2>2. QED
    BY <1>3, <1>4, <2>1
<1>7. Terminated(line) = t
  BY DEF Terminated, s, e
<1> HIDE DEF t
<1>8. \A i \in 1..n : i \in 1..n+1 /\ i <= n
  BY <1>1
<1>9. n + 1 \in 1..n+1 /\ ~(n + 1 <= n) /\ (n + 1) - n = 1
  BY <1>1
<1>10. t[n+1] = NUL /\ \A i \in 1..n : t[i] = s[i]
  BY <1>4, <1>6, <1>8, <1>9
<1>11. QED
  BY <1>5, <1>6, <1>7, <1>10 DEF n

-----------------------------------------------------------------------------
(* What the first lines of a text are hashed as: g[k] for k lines.          *)

Told(g, t, n) ==
    /\ t \in Text /\ n \in 0..Len(t)
    /\ g \in [0..n -> Seq(Character)] /\ g[0] = <<>>
    /\ \A k \in 1..n : g[k] = g[k-1] \o Terminated(t[k])

IsTold(h, t, n) == \E g \in [0..n -> Seq(Character)] : Told(g, t, n) /\ h = g[n]

\* Where each line is in it.
Added(g, t, k) ==
    /\ t[k] \in Seq(Character) /\ Len(t[k]) \in Nat
    /\ Len(g[k]) = Len(g[k-1]) + (Len(t[k]) + 1)
    /\ \A x \in 1..Len(g[k-1]) : g[k][x] = g[k-1][x]
    /\ \A x \in 1..Len(t[k]) + 1 : g[k][Len(g[k-1]) + x] = Terminated(t[k])[x]

Laid(g, t, n) ==
    /\ n \in Nat /\ Len(t) \in Nat /\ n <= Len(t)
    /\ \A k \in 0..n : g[k] \in Seq(Character) /\ Len(g[k]) \in Nat
    /\ Len(g[0]) = 0
    /\ \A k \in 1..n : Added(g, t, k)

LEMMA ToldLays == ASSUME NEW g, NEW t, NEW n, Told(g, t, n) PROVE Laid(g, t, n)
<1>1. /\ t \in Text /\ n \in Nat /\ Len(t) \in Nat /\ n <= Len(t)
      /\ g \in [0..n -> Seq(Character)] /\ g[0] = <<>>
      /\ \A k \in 1..n : g[k] = g[k-1] \o Terminated(t[k])
  <2> DEFINE R == Seq(Character)
  <2>1. t \in Seq(R)
    BY DEF Told, Text
  <2> HIDE DEF R
  <2>2. Len(t) \in Nat
    BY <2>1, LenProperties
  <2>3. n \in 0..Len(t)
    BY DEF Told
  <2>4. n \in Nat /\ n <= Len(t)
    BY <2>2, <2>3
  <2>5. QED
    BY <2>2, <2>4 DEF Told
<1>2. \A k \in 0..n : g[k] \in Seq(Character) /\ Len(g[k]) \in Nat
  BY <1>1, LenProperties
<1>3. ASSUME NEW k \in 1..n PROVE Added(g, t, k)
  <2> DEFINE p == g[k-1]
             e == Terminated(t[k])
             i == Len(p)
             j == Len(t[k]) + 1
             w == p \o e
  <2>1. k - 1 \in 0..n /\ k \in 1..Len(t)
    BY <1>1
  <2>2. t[k] \in Seq(Character)
    <3> DEFINE R == Seq(Character)
    <3>1. t \in Seq(R)
      BY <1>1 DEF Text
    <3> HIDE DEF R
    <3>2. t[k] \in R
      BY <2>1, <3>1, ElementOfSeq
    <3>3. QED
      BY <3>2 DEF R
  <2>3. Len(t[k]) \in Nat /\ e \in Seq(Character) /\ Len(e) = j
    BY <2>2, TerminatedIs, LenProperties
  <2>4. p \in Seq(Character) /\ i \in Nat
    BY <1>2, <2>1
  <2>5. g[k] = w
    BY <1>1
  <2> HIDE DEF p, e
  <2>6. w \in Seq(Character) /\ Len(w) = i + j /\ \A x \in 1..i+j : w[x] = IF x <= i THEN p[x] ELSE e[x - i]
    <3>1. /\ p \o e \in Seq(Character) /\ Len(p \o e) = Len(p) + Len(e)
          /\ \A x \in 1..Len(p)+Len(e) : (p \o e)[x] = IF x <= Len(p) THEN p[x] ELSE e[x - Len(p)]
      BY <2>3, <2>4, ConcatProperties
    <3>2. QED
      BY <2>3, <3>1
  <2>7. j \in Nat
    BY <2>3
  <2> HIDE DEF w, i, j
  <2>8. \A x \in 1..i : w[x] = p[x]
    <3>1. \A x \in 1..i : x \in 1..i+j /\ x <= i
      BY <2>4, <2>7 DEF i
    <3>2. QED
      BY <2>6, <3>1
  <2>9. \A x \in 1..j : w[i + x] = e[x]
    <3>1. \A x \in 1..j : i + x \in 1..i+j /\ ~(i + x <= i) /\ (i + x) - i = x
      BY <2>4, <2>7 DEF i
    <3>2. QED
      BY <2>6, <3>1
  <2>10. QED
    BY <2>2, <2>3, <2>5, <2>6, <2>8, <2>9 DEF Added, p, e, i, j
<1>4. Len(g[0]) = 0
  BY <1>1
<1>5. QED
  BY <1>1, <1>2, <1>3, <1>4 DEF Laid

\* What comes after leaves what was there.
LEMMA ToldPrefix ==
    ASSUME NEW g, NEW t, NEW n, Told(g, t, n), NEW k \in 0..n
    PROVE  Len(g[k]) <= Len(g[n]) /\ \A x \in 1..Len(g[k]) : g[n][x] = g[k][x]
<1> DEFINE Kept(i) == Len(g[k]) <= Len(g[i]) /\ \A x \in 1..Len(g[k]) : g[i][x] = g[k][x]
           S == {m \in Nat : k + m <= n => Kept(k + m)}
<1>1. /\ n \in Nat /\ k \in Nat /\ k <= n
      /\ \A i \in 0..n : g[i] \in Seq(Character) /\ Len(g[i]) \in Nat
      /\ \A i \in 1..n : Added(g, t, i)
  <2>1. Laid(g, t, n)
    BY ToldLays
  <2>2. QED
    BY <2>1 DEF Laid
<1>2. 0 \in S
  <2>1. k + 0 = k
    BY <1>1
  <2>2. QED
    BY <1>1, <2>1
<1>3. ASSUME NEW m \in Nat, m \in S PROVE m + 1 \in S
  <2> SUFFICES ASSUME k + (m + 1) <= n PROVE Kept(k + (m + 1))
    OBVIOUS
  <2> DEFINE i == k + (m + 1)
  <2>1. i \in 1..n /\ i - 1 = k + m /\ k + m <= n /\ i - 1 \in 0..n
    BY <1>1
  <2>2. Kept(i - 1)
    BY <1>3, <2>1
  <2> HIDE DEF i
  <2>3. Len(g[i-1]) <= Len(g[i]) /\ \A x \in 1..Len(g[i-1]) : g[i][x] = g[i-1][x]
    <3>1. Added(g, t, i) /\ Len(g[i-1]) \in Nat
      BY <1>1, <2>1
    <3> DEFINE a == Len(g[i-1])
               b == Len(g[i])
               c == Len(t[i])
    <3>2. c \in Nat /\ b = a + (c + 1) /\ a \in Nat
      BY <3>1 DEF Added
    <3> HIDE DEF a, b, c
    <3>3. a <= b
      BY ONLY <3>2
    <3> USE DEF a, b
    <3>4. QED
      BY <3>1, <3>3 DEF Added
  <2>4. Len(g[k]) \in Nat /\ Len(g[i-1]) \in Nat /\ Len(g[i]) \in Nat
    BY <1>1, <2>1
  <2>5. \A x \in 1..Len(g[k]) : x \in 1..Len(g[i-1])
    BY <2>2, <2>4
  <2>6. Kept(i)
    BY <2>2, <2>3, <2>4, <2>5
  <2>7. QED
    BY <2>6 DEF i
<1>4. Nat \subseteq S
  <2> HIDE DEF S
  <2>1. QED
    BY <1>2, <1>3, SetInduction
<1>5. n - k \in S /\ k + (n - k) = n
  <2>1. n - k \in Nat /\ k + (n - k) = n
    BY <1>1
  <2> HIDE DEF S
  <2>2. QED
    BY <1>4, <2>1
<1>6. QED
  BY <1>1, <1>5

-----------------------------------------------------------------------------
(* Hashing a line after those before it, and all of them.                   *)

LEMMA ToldStep ==
    ASSUME NEW h, NEW t, NEW n, IsTold(h, t, n), n < Len(t)
    PROVE  /\ IsTold(h \o Terminated(t[n+1]), t, n + 1)
           /\ h \in Seq(Character) /\ t[n+1] \in Seq(Character)
<1>1. PICK g \in [0..n -> Seq(Character)] : Told(g, t, n) /\ h = g[n]
  BY DEF IsTold
<1>2. Laid(g, t, n)
  BY <1>1, ToldLays
<1>3. n \in Nat /\ Len(t) \in Nat /\ n \in 0..n /\ h \in Seq(Character) /\ n + 1 \in 1..Len(t)
  BY <1>1, <1>2 DEF Laid
<1> DEFINE new == h \o Terminated(t[n+1])
           f == [k \in 0..n+1 |-> IF k <= n THEN g[k] ELSE new]
<1>4. t[n+1] \in Seq(Character)
  <2> DEFINE R == Seq(Character)
  <2>1. t \in Seq(R)
    BY <1>1 DEF Told, Text
  <2> HIDE DEF R
  <2>2. t[n+1] \in R
    BY <1>3, <2>1, ElementOfSeq
  <2>3. QED
    BY <2>2 DEF R
<1>5. new \in Seq(Character)
  <2>1. Terminated(t[n+1]) \in Seq(Character)
    BY <1>4, TerminatedIs
  <2>2. QED
    BY <1>3, <2>1, ConcatProperties
<1> HIDE DEF new
<1>6. /\ f \in [0..n+1 -> Seq(Character)] /\ f[n+1] = new
      /\ \A k \in 0..n : f[k] = g[k]
  BY <1>1, <1>3, <1>5
<1> HIDE DEF f
<1>7. \A k \in 1..n+1 : f[k] = f[k-1] \o Terminated(t[k])
  <2> TAKE k \in 1..n+1
  <2>1. CASE k <= n
    <3>1. k \in 1..n /\ k \in 0..n /\ k - 1 \in 0..n
      BY <1>3, <2>1
    <3>2. g[k] = g[k-1] \o Terminated(t[k])
      BY <1>1, <3>1 DEF Told
    <3>3. QED
      BY <1>6, <3>1, <3>2
  <2>2. CASE k = n + 1
    <3>1. k - 1 = n
      BY <1>3, <2>2
    <3>2. f[k-1] = h
      BY <1>1, <1>3, <1>6, <3>1
    <3>3. QED
      BY <1>6, <2>2, <3>2 DEF new
  <2>3. k <= n \/ k = n + 1
    BY <1>3
  <2>4. QED
    BY <2>1, <2>2, <2>3
<1>8. f[0] = <<>> /\ t \in Text
  <2>1. 0 \in 0..n
    BY <1>3
  <2>2. QED
    BY <1>1, <1>6, <2>1 DEF Told
<1>9. Told(f, t, n + 1)
  <2>1. n + 1 \in 0..Len(t)
    BY <1>3
  <2>2. QED
    BY <1>6, <1>7, <1>8, <2>1 DEF Told
<1>10. QED
  BY <1>3, <1>4, <1>6, <1>9 DEF IsTold, new

LEMMA ToldNone == ASSUME NEW t \in Text PROVE IsTold(<<>>, t, 0)
<1> DEFINE g == [k \in 0..0 |-> <<>>]
<1>1. g \in [0..0 -> Seq(Character)] /\ g[0] = <<>>
  BY EmptySeq
<1> HIDE DEF g
<1>2. 0 \in 0..Len(t)
  <2> DEFINE R == Seq(Character)
  <2>1. t \in Seq(R)
    BY DEF Text
  <2> HIDE DEF R
  <2>2. QED
    BY <2>1, LenProperties
<1>3. Told(g, t, 0)
  BY <1>1, <1>2 DEF Told
<1>4. QED
  BY <1>1, <1>3 DEF IsTold

\* The hash of some lines is continued to that of all.
LEMMA ToldOn ==
    ASSUME NEW h, NEW t, NEW n, IsTold(h, t, n)
    PROVE  \E w : IsTold(w, t, Len(t)) /\ Len(h) <= Len(w)
<1> DEFINE N == Len(t)
           S == {m \in Nat : n + m <= N => \E w : IsTold(w, t, n + m) /\ Len(h) <= Len(w)}
<1>1. n \in Nat /\ N \in Nat /\ n <= N
  BY ToldLays DEF IsTold, Laid
<1>2. \A w, m : IsTold(w, t, m) => Len(w) \in Nat
  <2> TAKE w, m
  <2> HAVE IsTold(w, t, m)
  <2>1. PICK g \in [0..m -> Seq(Character)] : Told(g, t, m) /\ w = g[m]
    BY DEF IsTold
  <2>2. Laid(g, t, m)
    BY <2>1, ToldLays
  <2>3. m \in 0..m
    BY <2>2 DEF Laid
  <2>4. QED
    BY <2>1, <2>2, <2>3 DEF Laid
<1> HIDE DEF N
<1>3. 0 \in S
  <2>1. n + 0 = n /\ Len(h) <= Len(h)
    BY <1>1, <1>2
  <2>2. QED
    BY <2>1
<1>4. ASSUME NEW m \in Nat, m \in S PROVE m + 1 \in S
  <2> SUFFICES ASSUME n + (m + 1) <= N PROVE \E w : IsTold(w, t, n + (m + 1)) /\ Len(h) <= Len(w)
    OBVIOUS
  <2>1. PICK w : IsTold(w, t, n + m) /\ Len(h) <= Len(w)
    BY <1>1, <1>4
  <2> DEFINE k == n + m
             v == w \o Terminated(t[k+1])
  <2>2. k + 1 = n + (m + 1) /\ k < N
    BY <1>1
  <2>3. IsTold(w, t, k)
    BY <2>1
  <2> HIDE DEF k
  <2>4. IsTold(v, t, k + 1) /\ w \in Seq(Character) /\ t[k+1] \in Seq(Character)
    BY <2>2, <2>3, ToldStep DEF N
  <2>5. Len(w) <= Len(v)
    <3> DEFINE e == Terminated(t[k+1])
    <3>1. e \in Seq(Character)
      BY <2>4, TerminatedIs
    <3> HIDE DEF e
    <3>2. Len(w \o e) = Len(w) + Len(e) /\ Len(w) \in Nat /\ Len(e) \in Nat
      BY <2>4, <3>1, ConcatProperties, LenProperties
    <3>3. QED
      BY <3>2 DEF e
  <2>6. Len(h) \in Nat /\ Len(w) \in Nat /\ Len(v) \in Nat
    BY <1>2, <2>1, <2>4
  <2> HIDE DEF v
  <2>7. Len(h) <= Len(v)
    BY <2>1, <2>5, <2>6
  <2>8. QED
    BY <2>2, <2>4, <2>7
<1>5. N - n \in S /\ n + (N - n) = N
  <2>1. Nat \subseteq S
    <3> HIDE DEF S
    <3>1. QED
      BY <1>3, <1>4, SetInduction
  <2>2. N - n \in Nat /\ n + (N - n) = N
    BY <1>1
  <2> HIDE DEF S
  <2>3. QED
    BY <2>1, <2>2
<1>6. QED
  BY <1>1, <1>5 DEF N

\* It is what the whole text is hashed as.
LEMMA ToldIsHashed ==
    ASSUME NEW h, NEW t, IsTold(h, t, Len(t))
    PROVE  Hashed(t) = h
<1> DEFINE n == Len(t)
           ss == [i \in DOMAIN t |-> Terminated(t[i])]
           R == Seq(Character)
<1>1. PICK g \in [0..n -> Seq(Character)] : Told(g, t, n) /\ h = g[n]
  BY DEF IsTold
<1>2. t \in Seq(R) /\ n \in Nat /\ DOMAIN t = 1..n /\ \A i \in 1..n : t[i] \in R
  <2>1. t \in Seq(R)
    BY <1>1 DEF Told, Text
  <2> HIDE DEF R
  <2>2. QED
    BY <2>1, LenProperties, ElementOfSeq
<1> HIDE DEF n
<1>3. \A i \in 1..n : Terminated(t[i]) \in R
  BY <1>2, TerminatedIs
<1>4. ss \in Seq(R) /\ Len(ss) = n /\ \A i \in 1..n : ss[i] = Terminated(t[i])
  <2>1. ss \in [1..n -> R] /\ \A i \in 1..n : ss[i] = Terminated(t[i])
    BY <1>2, <1>3
  <2> HIDE DEF ss, R
  <2>2. ss \in Seq(R)
    BY <1>2, <2>1, IsASeq
  <2>3. QED
    BY <1>2, <2>1, <2>2, LenProperties, SameLength
<1> HIDE DEF ss
<1>5. g[0] = <<>> /\ \A k \in 1..n : g[k] = g[k-1] \o ss[k]
  BY <1>1, <1>4 DEF Told
<1>6. FlattenSeq(ss) = g[n]
  BY <1>1, <1>2, <1>4, <1>5, FlattenIs
<1>7. QED
  BY <1>1, <1>6 DEF Hashed, ss

-----------------------------------------------------------------------------
(* Two texts that are hashed as the same are the same: the first end of a   *)
(* line that differs would be no end in the other.                          *)

LEMMA LineOf ==
    ASSUME NEW g, NEW t, NEW n, Told(g, t, n), NEW k \in 1..n, NEW x \in 1..Len(t[k])+1,
           NEW p, p = Len(g[k-1]), NEW y, p + x = y
    PROVE  g[n][y] = Terminated(t[k])[x]
<1>1. Laid(g, t, n)
  BY ToldLays
<1>2. n \in Nat /\ k \in 0..n /\ k - 1 \in 0..n
  BY <1>1 DEF Laid
<1>3. Added(g, t, k) /\ p \in Nat
  BY <1>1, <1>2 DEF Laid
<1> DEFINE j == Len(t[k])
           q == Len(g[k])
<1>4. j \in Nat /\ q = p + (j + 1) /\ x \in 1..j+1
  BY <1>3 DEF Added
<1>5. g[k][p + x] = Terminated(t[k])[x]
  BY <1>3 DEF Added
<1> HIDE DEF j, q
<1>6. p + x \in 1..q
  <2>1. p \in Nat /\ j \in Nat /\ q = p + (j + 1) /\ x \in 1..j+1
    BY <1>3, <1>4
  <2>2. QED
    BY ONLY <2>1
<1>7. g[n][p + x] = g[k][p + x]
  BY <1>2, <1>6, ToldPrefix DEF q
<1>8. QED
  BY <1>5, <1>7

SameByte(t, u, k, x) == Terminated(t[k])[x] = Terminated(u[k])[x]
SameLines(t, u, n) == \A k \in 1..n : t[k] = u[k]

LEMMA SameCell ==
    ASSUME NEW n, NEW g, NEW t, Told(g, t, n), NEW f, NEW u, Told(f, u, n), g[n] = f[n],
           NEW k \in 1..n, Len(g[k-1]) = Len(f[k-1]),
           NEW x, x \in 1..Len(t[k])+1, x \in 1..Len(u[k])+1
    PROVE  SameByte(t, u, k, x)
<1> DEFINE p == Len(g[k-1])
           y == p + x
<1>1. p = Len(g[k-1]) /\ p = Len(f[k-1]) /\ p + x = y
  OBVIOUS
<1> HIDE DEF p, y
<1>2. g[n][y] = Terminated(t[k])[x]
  <2>1. Told(g, t, n) /\ k \in 1..n /\ x \in 1..Len(t[k])+1 /\ p = Len(g[k-1]) /\ p + x = y
    BY <1>1
  <2>2. QED
    BY ONLY <2>1, LineOf
<1>3. f[n][y] = Terminated(u[k])[x]
  <2>1. Told(f, u, n) /\ k \in 1..n /\ x \in 1..Len(u[k])+1 /\ p = Len(f[k-1]) /\ p + x = y
    BY <1>1
  <2>2. QED
    BY ONLY <2>1, LineOf
<1>4. QED
  BY <1>2, <1>3 DEF SameByte

LEMMA NotShorter ==
    ASSUME NEW n, NEW g, NEW t, Told(g, t, n), NEW f, NEW u, Told(f, u, n), g[n] = f[n],
           NEW k \in 1..n, Len(g[k-1]) = Len(f[k-1])
    PROVE  ~(Len(t[k]) < Len(u[k]))
<1> SUFFICES ASSUME Len(t[k]) < Len(u[k]) PROVE FALSE
  OBVIOUS
<1> DEFINE x == Len(t[k]) + 1
<1>1. Laid(g, t, n) /\ Laid(f, u, n)
  BY ToldLays
<1>2. Added(g, t, k) /\ Added(f, u, k)
  BY <1>1 DEF Laid
<1>3. t[k] \in Seq(Character) /\ u[k] \in Seq(Character) /\ Len(t[k]) \in Nat /\ Len(u[k]) \in Nat
  BY <1>2 DEF Added
<1>4. x \in 1..Len(t[k])+1 /\ x \in 1..Len(u[k])+1 /\ x \in 1..Len(u[k])
  BY <1>3
<1> HIDE DEF x
<1>5. Terminated(t[k])[x] = Terminated(u[k])[x]
  <2>1. SameByte(t, u, k, x)
    BY <1>4, SameCell
  <2>2. QED
    BY <2>1 DEF SameByte
<1>6. Terminated(t[k])[x] = NUL
  BY <1>3, TerminatedIs DEF x
<1>7. Terminated(u[k])[x] = IF u[k][x] = NUL THEN LF ELSE u[k][x]
  BY <1>3, <1>4, TerminatedIs
<1>8. QED
  BY <1>5, <1>6, <1>7, Signs

LEMMA ToldUnique ==
    ASSUME NEW n, NEW g, NEW t, Told(g, t, n), NEW f, NEW u, Told(f, u, n), g[n] = f[n],
           \A k \in 1..n : NoLF(t[k]) /\ NoLF(u[k])
    PROVE  SameLines(t, u, n)
<1> DEFINE S == {k \in Nat : k <= n => Len(g[k]) = Len(f[k])}
<1>1. Laid(g, t, n) /\ Laid(f, u, n) /\ n \in Nat
  BY ToldLays DEF Laid
<1>2. ASSUME NEW k \in 1..n, Len(g[k-1]) = Len(f[k-1])
      PROVE  Len(t[k]) = Len(u[k]) /\ Len(g[k]) = Len(f[k])
  <2>1. ~(Len(t[k]) < Len(u[k]))
    BY <1>2, NotShorter
  <2>2. ~(Len(u[k]) < Len(t[k]))
    BY <1>2, NotShorter
  <2>3. Added(g, t, k) /\ Added(f, u, k)
    BY <1>1 DEF Laid
  <2> DEFINE a == Len(t[k])
             b == Len(u[k])
  <2>4. a \in Nat /\ b \in Nat /\ Len(g[k]) = Len(g[k-1]) + (a + 1) /\ Len(f[k]) = Len(f[k-1]) + (b + 1)
        /\ ~(a < b) /\ ~(b < a)
    BY <2>1, <2>2, <2>3 DEF Added
  <2> HIDE DEF a, b
  <2>5. a = b
    BY ONLY <2>4
  <2>6. QED
    BY <1>2, <2>4, <2>5 DEF a, b
<1>3. 0 \in S
  BY <1>1 DEF Laid
<1>4. ASSUME NEW k \in Nat, k \in S PROVE k + 1 \in S
  <2> SUFFICES ASSUME k + 1 <= n PROVE Len(g[k+1]) = Len(f[k+1])
    OBVIOUS
  <2> DEFINE i == k + 1
  <2>1. i \in 1..n /\ i - 1 = k /\ k <= n
    BY <1>1
  <2>2. Len(g[i-1]) = Len(f[i-1])
    BY <1>4, <2>1
  <2> HIDE DEF i
  <2>3. Len(g[i]) = Len(f[i])
    BY <1>2, <2>1, <2>2
  <2>4. QED
    BY <2>3 DEF i
<1>5. Nat \subseteq S
  <2> HIDE DEF S
  <2>1. QED
    BY <1>3, <1>4, SetInduction
<1> SUFFICES ASSUME NEW k \in 1..n PROVE t[k] = u[k]
  BY DEF SameLines
<1> DEFINE p == Len(g[k-1])
           j == Len(t[k])
<1>6. p = Len(f[k-1])
  <2>1. k - 1 \in Nat /\ k - 1 <= n
    BY <1>1
  <2>2. QED
    BY <1>5, <2>1
<1>7. Len(u[k]) = j
  BY <1>2, <1>6
<1>8. t[k] \in Seq(Character) /\ u[k] \in Seq(Character) /\ j \in Nat
  BY <1>1 DEF Laid, Added
<1> HIDE DEF p, j
<1>9. ASSUME NEW x \in 1..j PROVE t[k][x] = u[k][x]
  <2>1. x \in 1..Len(t[k])+1 /\ x \in 1..Len(u[k])+1
    BY <1>7, <1>8 DEF j
  <2>2. Terminated(t[k])[x] = Terminated(u[k])[x]
    <3>1. SameByte(t, u, k, x)
      BY <1>6, <2>1, SameCell DEF p
    <3>2. QED
      BY <3>1 DEF SameByte
  <2>3. /\ Terminated(t[k])[x] = IF t[k][x] = NUL THEN LF ELSE t[k][x]
        /\ Terminated(u[k])[x] = IF u[k][x] = NUL THEN LF ELSE u[k][x]
    BY <1>7, <1>8, TerminatedIs DEF j
  <2>4. t[k][x] # LF /\ u[k][x] # LF
    BY <1>7 DEF NoLF, Contains, j
  <2>5. QED
    BY <2>2, <2>3, <2>4
<1>10. QED
  BY <1>7, <1>8, <1>9, SeqEqual DEF j

LEMMA HashedUnique ==
    ASSUME NEW t \in Text, NEW u \in Text, Len(t) = Len(u), Hashed(t) = Hashed(u),
           \A k \in 1..Len(t) : NoLF(t[k]) /\ NoLF(u[k])
    PROVE  t = u
<1> DEFINE n == Len(t)
<1>1. PICK h : IsTold(h, t, n)
  BY ToldNone, ToldOn
<1>2. PICK w : IsTold(w, u, n)
  BY ToldNone, ToldOn
<1>3. h = w
  BY <1>1, <1>2, ToldIsHashed
<1>4. PICK g \in [0..n -> Seq(Character)] : Told(g, t, n) /\ h = g[n]
  BY <1>1 DEF IsTold
<1>5. PICK f \in [0..n -> Seq(Character)] : Told(f, u, n) /\ w = f[n]
  BY <1>2 DEF IsTold
<1>6. \A k \in 1..n : t[k] = u[k]
  <2>1. Told(g, t, n) /\ Told(f, u, n) /\ g[n] = f[n]
    BY <1>3, <1>4, <1>5
  <2> HIDE DEF n
  <2>2. \A k \in 1..n : NoLF(t[k]) /\ NoLF(u[k])
    BY DEF n
  <2>3. SameLines(t, u, n)
    BY <2>1, <2>2, ToldUnique
  <2>4. QED
    BY <2>3 DEF SameLines
<1>7. QED
  <2> DEFINE R == Seq(Character)
  <2>1. t \in Seq(R) /\ u \in Seq(R)
    BY DEF Text
  <2> HIDE DEF R
  <2>2. QED
    BY <1>6, <2>1, SeqEqual

LEMMA HashedSome ==
    ASSUME NEW t \in Text, Len(t) > 0
    PROVE  Hashed(t) # <<>>
<1> DEFINE n == Len(t)
<1>1. PICK h : IsTold(h, t, n)
  BY ToldNone, ToldOn
<1>2. PICK g \in [0..n -> Seq(Character)] : Told(g, t, n) /\ h = g[n]
  BY <1>1 DEF IsTold
<1>3. Laid(g, t, n)
  BY <1>2, ToldLays
<1> HIDE DEF n
<1>4. n \in Nat /\ n > 0 /\ Added(g, t, n) /\ n - 1 \in 0..n
  BY <1>3 DEF Laid, n
<1>5. Len(g[n-1]) \in Nat
  BY <1>3, <1>4 DEF Laid
<1> DEFINE a == Len(g[n-1])
           b == Len(t[n])
<1>6. a \in Nat /\ b \in Nat /\ Len(h) = a + (b + 1)
  BY <1>2, <1>4, <1>5 DEF Added
<1> HIDE DEF a, b
<1>7. Len(h) # 0
  BY <1>6
<1>8. h # <<>>
  BY <1>7
<1>9. QED
  BY <1>1, <1>8, ToldIsHashed DEF n

-----------------------------------------------------------------------------
(* The invariant: what the digest and the buffer hold is what the lines so  *)
(* far are hashed as, and none of those has LF in it.                       *)

PrepareIInv ==
    /\ digest \in Seq(Character) /\ pending \in Seq(Character)
    /\ IsTold(digest \o pending, candidate, hashed)
    /\ stateBytes = Len(digest \o pending)
    /\ \A k \in 1..hashed : NoLF(candidate[k])

VerifyIInv ==
    /\ digest = Hashed(candidate)
    /\ \A k \in 1..Len(candidate) : NoLF(candidate[k])

BaseIInv ==
    /\ candidate \in Candidates /\ buffer \in Buffers
    /\ \E automatic \in BOOLEAN : meta = Reference(buffer, automatic)
    /\ verifying \in {"prepare", "verify", "verified", "mismatch", "refused", "canceled"}
    /\ verifying = "prepare" => PrepareIInv
    /\ verifying = "verify" => VerifyIInv
    /\ BaseIsTheReference

LEMMA Texts == candidate \in Candidates /\ buffer \in Buffers => candidate \in Text /\ buffer \in Text
BY BaseAssumption DEF Text

LEMMA BaseInitIInv == BaseInit => BaseIInv
<1> SUFFICES ASSUME BaseInit PROVE BaseIInv
  OBVIOUS
<1>1. candidate \in Text /\ buffer \in Text
  BY Texts DEF BaseInit
<1>2. <<>> \in Seq(Character) /\ <<>> \o <<>> = <<>> /\ Len(<<>>) = 0
  BY EmptySeq, ConcatEmptySeq
<1>3. IsTold(<<>>, candidate, 0)
  BY <1>1, ToldNone
<1>4. PrepareIInv
  <2>1. digest = <<>> /\ pending = <<>> /\ hashed = 0 /\ stateBytes = 0
    BY DEF BaseInit
  <2>2. \A k \in 1..hashed : NoLF(candidate[k])
    BY <2>1
  <2>3. digest \o pending = <<>>
    BY <1>2, <2>1
  <2>4. QED
    BY <1>2, <1>3, <2>1, <2>2, <2>3 DEF PrepareIInv
<1>5. verifying = IF Len(candidate) > StateLineLimit THEN "refused" ELSE "prepare"
  BY DEF BaseInit
<1>6. BaseIsTheReference
  BY <1>5 DEF BaseIsTheReference
<1>7. QED
  BY <1>4, <1>5, <1>6 DEF BaseInit, BaseIInv

\* Where the bytes of a line are kept does not matter.
Same(v, w) == v = w

LEMMA Flushed ==
    ASSUME NEW v \in Seq(Character), NEW w \in Seq(Character), NEW e \in Seq(Character)
    PROVE  /\ Same((v \o (w \o e)) \o <<>>, (v \o w) \o e)
           /\ Same(v \o (w \o e), (v \o w) \o e)
           /\ w \o e \in Seq(Character) /\ v \o (w \o e) \in Seq(Character)
<1>1. w \o e \in Seq(Character)
  BY ConcatProperties
<1> DEFINE a == w \o e
<1>2. (v \o w) \o e = v \o a
  BY ConcatAssociative
<1> HIDE DEF a
<1>3. v \o a \in Seq(Character)
  BY <1>1, ConcatProperties DEF a
<1> DEFINE b == v \o a
<1> HIDE DEF b
<1>4. b \o <<>> = b
  BY <1>3, ConcatEmptySeq DEF b
<1>5. QED
  BY <1>1, <1>2, <1>3, <1>4 DEF Same, a, b

\* More is hashed than a state may have: the text is that large.
LEMMA TooLargeText ==
    ASSUME NEW h, NEW t, NEW n, IsTold(h, t, n), n < Len(t),
           Len(t[n+1]) + 1 > StateByteLimit - Len(h)
    PROVE  Len(Hashed(t)) > StateByteLimit
<1> DEFINE e == Terminated(t[n+1])
           v == h \o e
<1>1. IsTold(v, t, n + 1) /\ h \in Seq(Character) /\ t[n+1] \in Seq(Character)
  BY ToldStep
<1>2. e \in Seq(Character) /\ Len(e) = Len(t[n+1]) + 1
  BY <1>1, TerminatedIs
<1>3. PICK w : IsTold(w, t, Len(t)) /\ Len(v) <= Len(w)
  BY <1>1, ToldOn
<1>4. Hashed(t) = w
  BY <1>3, ToldIsHashed
<1>5. w \in Seq(Character)
  <2>1. PICK g \in [0..Len(t) -> Seq(Character)] : Told(g, t, Len(t)) /\ w = g[Len(t)]
    BY <1>3 DEF IsTold
  <2>2. Len(t) \in 0..Len(t)
    BY <2>1 DEF Told
  <2>3. QED
    BY <2>1, <2>2
<1> HIDE DEF e
<1>6. Len(v) = Len(h) + Len(e) /\ Len(h) \in Nat /\ Len(e) \in Nat /\ Len(w) \in Nat
  BY <1>1, <1>2, <1>5, ConcatProperties, LenProperties
<1> HIDE DEF v
<1>7. StateByteLimit \in Nat
  BY BaseAssumption
<1> DEFINE a == Len(h)
           b == Len(e)
           c == Len(w)
           i == Len(v)
<1>8. a \in Nat /\ b \in Nat /\ c \in Nat /\ i = a + b /\ i <= c /\ b > StateByteLimit - a
  BY <1>2, <1>3, <1>6
<1> HIDE DEF a, b, c, i
<1>9. c > StateByteLimit
  BY ONLY <1>7, <1>8
<1>10. QED
  BY <1>4, <1>9 DEF c

LEMMA PrepareLineIInv == ASSUME BaseIInv, PrepareLine PROVE BaseIInv'
<1> DEFINE line == candidate[hashed + 1]
           e == Terminated(line)
           full == pending \o e
           h == digest \o pending
           no == TooLarge(line) \/ Contains(line, LF)
<1>1. /\ verifying = "prepare" /\ hashed < Len(candidate)
      /\ UNCHANGED <<candidate, buffer, meta>>
      /\ IF no THEN verifying' = "refused" /\ UNCHANGED <<hashed, stateBytes, pending, digest>>
         ELSE /\ hashed' = hashed + 1
              /\ stateBytes' = stateBytes + Len(line) + 1
              /\ IF Len(full) >= HashBuffer THEN pending' = <<>> /\ digest' = digest \o full
                 ELSE pending' = full /\ UNCHANGED digest
              /\ UNCHANGED verifying
  BY DEF PrepareLine
<1>2. /\ digest \in Seq(Character) /\ pending \in Seq(Character)
      /\ IsTold(h, candidate, hashed) /\ stateBytes = Len(h)
      /\ \A k \in 1..hashed : NoLF(candidate[k])
  BY <1>1 DEF BaseIInv, PrepareIInv
<1>3. hashed \in Nat /\ Len(candidate) \in Nat /\ hashed + 1 \in 1..Len(candidate) /\ DOMAIN candidate = 1..Len(candidate)
  <2>1. Len(candidate) \in Nat /\ DOMAIN candidate = 1..Len(candidate)
    <3> DEFINE R == Seq(Character)
    <3>1. candidate \in Seq(R)
      BY Texts DEF BaseIInv, Text
    <3> HIDE DEF R
    <3>2. QED
      BY <3>1, LenProperties
  <2>2. hashed \in 0..Len(candidate)
    BY <1>2 DEF IsTold, Told
  <2>3. QED
    BY <1>1, <2>1, <2>2
<1>4. IsTold(h \o e, candidate, hashed + 1) /\ h \in Seq(Character) /\ line \in Seq(Character)
  BY <1>1, <1>2, ToldStep
<1>5. e \in Seq(Character) /\ Len(e) = Len(line) + 1 /\ Len(line) \in Nat
  BY <1>4, TerminatedIs, LenProperties
<1>6. CASE no
  <2>1. verifying' = "refused"
    BY <1>1, <1>6
  <2>2. \/ \E i \in DOMAIN candidate : Contains(candidate[i], LF) \/ Len(candidate[i]) > LineByteLimit
        \/ Len(Hashed(candidate)) > StateByteLimit
    <3>1. CASE Contains(line, LF) \/ Len(line) > LineByteLimit
      BY <1>3, <3>1
    <3>2. CASE Len(line) + 1 > StateByteLimit - stateBytes
      BY <1>1, <1>2, <3>2, TooLargeText
    <3>3. QED
      BY <1>6, <3>1, <3>2 DEF TooLarge
  <2> HIDE DEF no, line, e, full, h
  <2>3. BaseIsTheReference'
    BY <1>1, <2>1, <2>2 DEF BaseIsTheReference
  <2>4. QED
    BY <1>1, <2>1, <2>3 DEF BaseIInv
<1>7. CASE ~no
  <2>1. /\ digest' \in Seq(Character) /\ pending' \in Seq(Character)
        /\ digest' \o pending' = h \o e
    <3>1. /\ Same((digest \o full) \o <<>>, h \o e) /\ Same(digest \o full, h \o e)
          /\ full \in Seq(Character) /\ digest \o full \in Seq(Character)
      BY <1>2, <1>5, Flushed
    <3> HIDE DEF no, line, e, full, h
    <3>2. CASE Len(full) >= HashBuffer
      <4>1. digest' = digest \o full /\ pending' = <<>>
        BY <1>1, <1>7, <3>2
      <4>2. digest' \o pending' = (digest \o full) \o <<>>
        BY <4>1
      <4>3. <<>> \in Seq(Character)
        BY EmptySeq
      <4>4. QED
        BY <3>1, <4>1, <4>2, <4>3 DEF Same
    <3>3. CASE ~(Len(full) >= HashBuffer)
      BY <1>1, <1>2, <1>7, <3>1, <3>3 DEF Same
    <3>4. QED
      BY <3>2, <3>3
  <2>2. Len(h \o e) = stateBytes + Len(line) + 1
    <3> HIDE DEF h, e
    <3>1. Len(h \o e) = Len(h) + Len(e) /\ Len(h) \in Nat
      BY <1>4, <1>5, ConcatProperties, LenProperties
    <3> DEFINE a == Len(h)
               b == Len(line)
    <3>2. a \in Nat /\ b \in Nat /\ stateBytes = a /\ Len(h \o e) = a + (b + 1)
      BY <1>2, <1>5, <3>1
    <3> HIDE DEF a, b
    <3>3. a + (b + 1) = stateBytes + b + 1
      BY <3>2
    <3>4. QED
      BY <3>2, <3>3 DEF b
  <2> HIDE DEF e, full, h
  <2>3. hashed' = hashed + 1 /\ stateBytes' = stateBytes + Len(line) + 1 /\ verifying' = "prepare"
    BY <1>1, <1>7
  <2>4. NoLF(line)
    BY <1>7 DEF NoLF
  <2>5. \A k \in 1..hashed' : NoLF(candidate[k])
    <3>1. \A k \in 1..hashed+1 : k \in 1..hashed \/ k = hashed + 1
      BY <1>3
    <3>2. QED
      BY <1>2, <2>3, <2>4, <3>1
  <2> HIDE DEF no, line
  <2>6. PrepareIInv'
    BY <1>1, <1>4, <2>1, <2>2, <2>3, <2>5 DEF PrepareIInv
  <2>7. BaseIsTheReference'
    BY <2>3 DEF BaseIsTheReference
  <2>8. QED
    BY <1>1, <2>3, <2>6, <2>7 DEF BaseIInv
<1>8. QED
  BY <1>6, <1>7

LEMMA PreparedIInv == ASSUME BaseIInv, Prepared PROVE BaseIInv'
<1>1. /\ verifying = "prepare" /\ hashed = Len(candidate) /\ digest' = digest \o pending
      /\ verifying' = "verify" /\ UNCHANGED <<candidate, buffer, meta>>
  BY DEF Prepared
<1>2. IsTold(digest \o pending, candidate, Len(candidate)) /\ \A k \in 1..Len(candidate) : NoLF(candidate[k])
  BY <1>1 DEF BaseIInv, PrepareIInv
<1>3. VerifyIInv'
  BY <1>1, <1>2, ToldIsHashed DEF VerifyIInv
<1>4. BaseIsTheReference'
  BY <1>1 DEF BaseIsTheReference
<1>5. QED
  BY <1>1, <1>3, <1>4 DEF BaseIInv

LEMMA VerifyStepIInv == ASSUME BaseIInv, Verify PROVE BaseIInv'
<1> DEFINE Fits == Len(candidate) = meta.lines /\ (digest = meta.hash \/ EmptyAutomaticSave)
<1>1. /\ verifying = "verify" /\ verifying' = IF Fits THEN "verified" ELSE "mismatch"
      /\ UNCHANGED <<candidate, buffer, meta>>
  BY DEF Verify
<1>2. candidate \in Text /\ buffer \in Text /\ Len(buffer) > 0 /\ \A k \in 1..Len(buffer) : NoLF(buffer[k])
  <2>1. candidate \in Text /\ buffer \in Text /\ buffer \in Buffers
    BY Texts DEF BaseIInv
  <2>2. DOMAIN buffer = 1..Len(buffer) /\ Len(buffer) \in Nat /\ (Len(buffer) = 0 => buffer = <<>>)
    <3> DEFINE R == Seq(Character)
    <3>1. buffer \in Seq(R)
      BY <2>1 DEF Text
    <3> HIDE DEF R
    <3>2. QED
      BY <3>1, LenProperties, EmptySeq
  <2>3. QED
    BY <2>1, <2>2, BaseAssumption DEF NoLF
<1>3. PICK automatic \in BOOLEAN : meta = Reference(buffer, automatic)
  BY DEF BaseIInv
<1>4. /\ meta.lines = Len(buffer)
      /\ (meta.hash = <<>> /\ buffer = <<<<>>>>) \/ meta.hash = Hashed(buffer)
  BY <1>3 DEF Reference
<1>5. digest = Hashed(candidate) /\ \A k \in 1..Len(candidate) : NoLF(candidate[k])
  BY <1>1 DEF BaseIInv, VerifyIInv
<1>6. Hashed(buffer) # <<>> /\ (Len(candidate) > 0 => Hashed(candidate) # <<>>)
  BY <1>2, HashedSome
<1>7. Fits => candidate = buffer
  <2> SUFFICES ASSUME Fits PROVE candidate = buffer
    OBVIOUS
  <2>1. Len(candidate) = Len(buffer)
    BY <1>4
  <2>2. CASE EmptyAutomaticSave
    BY <1>4, <1>6, <2>2 DEF EmptyAutomaticSave
  <2>3. CASE digest = meta.hash
    <3>1. Hashed(candidate) = Hashed(buffer)
      BY <1>2, <1>4, <1>5, <1>6, <2>1, <2>3
    <3>2. \A k \in 1..Len(candidate) : NoLF(candidate[k]) /\ NoLF(buffer[k])
      BY <1>2, <1>5, <2>1
    <3>3. QED
      BY <1>2, <2>1, <3>1, <3>2, HashedUnique
  <2>4. QED
    BY <2>2, <2>3
<1>8. ~Fits => candidate # buffer
  BY <1>4, <1>5 DEF EmptyAutomaticSave
<1> HIDE DEF Fits
<1>9. BaseIsTheReference'
  BY <1>1, <1>7, <1>8 DEF BaseIsTheReference
<1>10. QED
  BY <1>1, <1>9 DEF BaseIInv

LEMMA BaseNextIInv == BaseIInv /\ [BaseNext]_baseVars => BaseIInv'
<1> SUFFICES ASSUME BaseIInv, [BaseNext]_baseVars PROVE BaseIInv'
  OBVIOUS
<1>1. CASE UNCHANGED baseVars
  BY <1>1 DEF baseVars, BaseIInv, PrepareIInv, VerifyIInv, BaseIsTheReference
<1>2. CASE PrepareLine
  BY <1>2, PrepareLineIInv
<1>3. CASE CancelPrepare
  BY <1>3 DEF CancelPrepare, BaseIInv, BaseIsTheReference
<1>4. CASE Prepared
  BY <1>4, PreparedIInv
<1>5. CASE Verify
  BY <1>5, VerifyStepIInv
<1>6. QED
  BY <1>1, <1>2, <1>3, <1>4, <1>5 DEF BaseNext

(* PrepareBase and Verify (internal/undofile/base.go) accept a text exactly *)
(* if it is the one the editor wrote the undo file for, whatever its lines, *)
(* the size of the hash buffer and the limits; and refuse one only for its  *)
(* size or a line with LF. A context that is done at a poll ends it without *)
(* either. A hash stands for the bytes it was taken of.                     *)
THEOREM BaseVerifies == BaseSpec => []BaseIsTheReference
<1>1. BaseIInv => BaseIsTheReference
  BY DEF BaseIInv
<1>2. QED
  BY <1>1, BaseInitIInv, BaseNextIInv, PTL DEF BaseSpec
=============================================================================
