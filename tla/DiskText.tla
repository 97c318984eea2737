------------------------------- MODULE DiskText ------------------------------
(***************************************************************************)
(* The UTF-8/LF profile of files, in and out: splitBase of                 *)
(* cmd/xunhen/input.go and the raw export of show.go.                      *)
(*                                                                         *)
(* Text is a sequence of characters of one byte, apart from the byte-order *)
(* mark and the invalid byte, which are characters here too.               *)
(***************************************************************************)
EXTENDS Naturals, Sequences, SequencesExt, FiniteSetsExt

CONSTANTS StateLineLimit, LineByteLimit

ASSUME DiskTextAssumption == {StateLineLimit, LineByteLimit} \subseteq Nat \ {0}

LF == "LF"
NUL == "NUL"
CR == "CR"
BOM == "BOM"
Invalid == "invalid"

Refused == [refused |-> TRUE, lines |-> <<>>]

\* The parts of a text between separators.
PartsOf(text, separator) ==
    LET parts[n \in 0..Len(text)] ==
            IF n = 0 THEN <<<<>>>>
            ELSE IF text[n] = separator THEN Append(parts[n-1], <<>>)
            ELSE Append(Front(parts[n-1]), Append(Last(parts[n-1]), text[n]))
    IN parts[Len(text)]

OutsideProfile(data) ==
    \/ data # <<>> /\ Head(data) = BOM
    \/ Contains(data, Invalid) \/ Contains(data, NUL)
    \/ \E i \in DOMAIN data : i < Len(data) /\ data[i] = CR /\ data[i + 1] = LF

SplitBase(data) ==
    LET text == IF data # <<>> /\ Last(data) = LF THEN Front(data) ELSE data
        lines == PartsOf(text, LF)
    IN IF \/ OutsideProfile(data)
          \/ Len(lines) > StateLineLimit
          \/ \E i \in DOMAIN lines : Len(lines[i]) > LineByteLimit
       THEN Refused ELSE [refused |-> FALSE, lines |-> lines]

\* checkRawLine.
RawLine(line) == ~Contains(line, Invalid) /\ ~Contains(line, NUL)

Escapes(c) == IF c \in {NUL, CR, BOM, Invalid} THEN "escape" ELSE c
EscapeDisplay(line) == [i \in DOMAIN line |-> Escapes(line[i])]

\* writeState: the pieces it hands to the output.
StatePieces(lines, raw, policy) ==
    FlattenSeq([i \in DOMAIN lines |->
        <<IF raw THEN lines[i] ELSE EscapeDisplay(lines[i])>>
        \o IF i < Len(lines) \/ ~raw \/ policy = "include" THEN <<<<LF>>>> ELSE <<>>])
=============================================================================
