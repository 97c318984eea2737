------------------------------ MODULE MCDecode -------------------------------
(* Undo files to decode, and texts to verify against what they refer to.    *)
(*                                                                          *)
(* Files of up to three records, with entries and lines at, below and beyond *)
(* each limit. Readers deliver them whole, or with one cell replaced or     *)
(* another added or dropped, or as much as came before the end of the file  *)
(* or a failure.                                                            *)
EXTENDS Decode, Base

Text(n) == [i \in 1..n |-> IF i = 1 THEN 0 ELSE 7]

MCEntries ==
    {[range |-> <<0, 0, 1>>, lines |-> <<>>],
     [range |-> <<1, 3, 2>>, lines |-> <<Text(2), Text(0)>>],
     [range |-> <<0, 1, 1>>, lines |-> <<Text(1)>>],
     [range |-> <<3, 0, 1>>, lines |-> <<>>],
     [range |-> <<0, 4, 1>>, lines |-> <<Text(3)>>]}

MCRecords ==
    {[fixed |-> <<0, 1, -1, 7>>, save |-> s, entries |-> e, extmarks |-> x] :
        s \in {None, 1},
        e \in {<<>>} \cup {<<a>> : a \in MCEntries} \cup (MCEntries \X MCEntries),
        x \in {<<>>, <<<<0, 5>>>>, <<<<1, 5>>, <<0, 5>>>>}}

Plain == [base |-> 1, saved |-> Text(2), position |-> 0, links |-> 1, last |-> 1, save |-> None,
          records |-> <<>>]
With(records) == [Plain EXCEPT !.records = records]

Small == {r \in MCRecords : r.save = None /\ Len(r.entries) <= 1}

MCFiles ==
    {Plain}
    \cup {[Plain EXCEPT !.base = b, !.saved = Text(n), !.save = s] :
             b \in 1..3, n \in 0..3, s \in {None, 0}}
    \cup {With(<<r>>) : r \in MCRecords}
    \cup {With(<<r, s>>) : r, s \in Small}
    \cup {With(<<r, r, r>>) : r \in Small}

(* The files that are also delivered in a damaged way.                      *)
Full == [fixed |-> <<0, 1, -1, 7>>, save |-> 1, extmarks |-> <<<<1, 5>>>>,
         entries |-> <<[range |-> <<1, 3, 2>>, lines |-> <<Text(2), Text(0)>>]>>]
Light == [Full EXCEPT !.save = None, !.entries = <<>>]

Damaged ==
    {[Plain EXCEPT !.save = 0], With(<<Full>>), With(<<Light, Light>>),
     With(<<[Full EXCEPT !.save = None, !.extmarks = <<>>], Light>>)}
    \cup {With(<<r>>) : r \in Small}

Cells == {-2, -1, 0, 1, 3, 4, 8, Newline, Magic, HeaderStart, EntryStart, EntryEnd, HeadersEnd}

Whole(cells) == [cells |-> cells, ending |-> "end of file"]
Altered(cells) ==
    {[cells EXCEPT ![i] = v] : i \in DOMAIN cells, v \in Cells}
    \cup {RemoveAt(cells, i) : i \in DOMAIN cells} \cup {cells \o cells, Append(cells, 0)}
Cut(cells) == {[cells |-> SubSeq(cells, 1, n), ending |-> e] : n \in 0..Len(cells), e \in Ending}

MCWires ==
    {Whole(Encode(f)) : f \in MCFiles}
    \cup UNION {{Whole(c) : c \in Altered(Encode(f))} \cup Cut(Encode(f)) : f \in Damaged}

(* Texts of up to three lines, of up to two characters each, and of more     *)
(* lines or longer ones than the limits allow.                              *)
LinesOver(chars) == SeqOf(chars, 2)
TextsOf(n, lines) == SeqOf(lines, n) \ {<<>>}
MCCharacter == {"a", NUL, LF}
MCCandidates == TextsOf(2, LinesOver(MCCharacter)) \cup TextsOf(4, LinesOver({"a"}))
                \cup TextsOf(2, {<<>>, <<"a", "a", "a">>})
MCBuffers == TextsOf(2, LinesOver({"a", NUL})) \cup TextsOf(3, {<<>>, <<"a">>})

Verifying == candidate # <<>>

MCInit ==
    \/ /\ Init
       /\ candidate = <<>> /\ buffer = <<>> /\ meta = <<>> /\ verifying = "nothing"
       /\ hashed = 0 /\ stateBytes = 0 /\ pending = <<>> /\ digest = <<>>
    \/ wire = [cells |-> <<>>, ending |-> "end of file"] /\ Init /\ BaseInit

MCNext ==
    \/ ~Verifying /\ Next /\ UNCHANGED baseVars
    \/ Verifying /\ BaseNext /\ UNCHANGED vars
MCSpec == MCInit /\ [][MCNext]_<<vars, baseVars>>

==============================================================================
