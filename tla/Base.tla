-------------------------------- MODULE Base ---------------------------------
(***************************************************************************)
(* Verifying a text as the reference of an undo file:                      *)
(* internal/undofile/base.go.  The lines are hashed through a buffer, as   *)
(* the editor hashed its own: NUL stored as LF, NUL after each line.       *)
(*                                                                         *)
(* A hash is the sequence of bytes it was taken of: SHA-256 tells them     *)
(* apart.                                                                  *)
(***************************************************************************)
EXTENDS DiskText

CONSTANTS
    Character,
    Candidates,      \* texts to verify
    Buffers,         \* texts an editor wrote an undo file for
    StateByteLimit,
    HashBuffer,      \* bytes of the buffer, as it starts
    PollLines        \* the context is polled once in as many lines

ASSUME BaseAssumption ==
    /\ {StateByteLimit, HashBuffer, PollLines} \subseteq Nat \ {0}
    /\ {NUL, LF} \subseteq Character /\ Candidates \cup Buffers \subseteq Seq(Seq(Character))
    /\ \A b \in Buffers : b # <<>> /\ \A i \in DOMAIN b : ~Contains(b[i], LF)

VARIABLES
    candidate,
    buffer,          \* history: the editor's text
    meta,            \* what the undo file says of it: lines and hash
    verifying,       \* "prepare", "verify", or how it ended
    hashed, stateBytes,
    pending,         \* bytes in the hash buffer
    digest           \* bytes hashed
baseVars == <<candidate, buffer, meta, verifying, hashed, stateBytes, pending, digest>>

Terminated(line) == [i \in DOMAIN line |-> IF line[i] = NUL THEN LF ELSE line[i]] \o <<NUL>>

\* Every line of a text, terminated: what is hashed, and the bytes of a state.
Hashed(text) == FlattenSeq([i \in DOMAIN text |-> Terminated(text[i])])

\* The editor's: u_compute_hash, which an automatic save calls with no line for
\* an empty buffer.
Reference(text, automatic) ==
    [lines |-> Len(text),
     hash |-> IF automatic /\ text = <<<<>>>> THEN <<>> ELSE Hashed(text)]

BaseInit ==
    /\ candidate \in Candidates
    /\ buffer \in Buffers
    /\ \E automatic \in BOOLEAN : meta = Reference(buffer, automatic)
    /\ verifying = IF Len(candidate) > StateLineLimit THEN "refused" ELSE "prepare"
    /\ hashed = 0 /\ stateBytes = 0
    /\ pending = <<>> /\ digest = <<>>

TooLarge(line) ==
    Len(line) > LineByteLimit \/ Len(line) + 1 > StateByteLimit - stateBytes

\* Fault: a line may hold LF.
PrepareAnyLine ==
    /\ verifying = "prepare" /\ hashed < Len(candidate)
    /\ LET line == candidate[hashed + 1] IN
       IF TooLarge(line) THEN verifying' = "refused" /\ UNCHANGED <<hashed, stateBytes, pending, digest>>
       ELSE /\ hashed' = hashed + 1
            /\ stateBytes' = stateBytes + Len(line) + 1
            /\ pending' = <<>> /\ digest' = digest \o pending \o Terminated(line)
            /\ UNCHANGED verifying
    /\ UNCHANGED <<candidate, buffer, meta>>

\* PrepareBase, for one line: a full buffer goes to the digest.
PrepareLine ==
    /\ verifying = "prepare" /\ hashed < Len(candidate)
    /\ LET line == candidate[hashed + 1]
           full == pending \o Terminated(line)
       IN IF TooLarge(line) \/ Contains(line, LF)
          THEN verifying' = "refused" /\ UNCHANGED <<hashed, stateBytes, pending, digest>>
          ELSE /\ hashed' = hashed + 1
               /\ stateBytes' = stateBytes + Len(line) + 1
               /\ IF Len(full) >= HashBuffer
                  THEN pending' = <<>> /\ digest' = digest \o full
                  ELSE pending' = full /\ UNCHANGED digest
               /\ UNCHANGED verifying
    /\ UNCHANGED <<candidate, buffer, meta>>

\* The poll before a line, on a context that is done.
CancelPrepare ==
    /\ verifying = "prepare" /\ hashed < Len(candidate) /\ hashed % PollLines = 0
    /\ verifying' = "canceled"
    /\ UNCHANGED <<candidate, buffer, meta, hashed, stateBytes, pending, digest>>

Prepared ==
    /\ verifying = "prepare" /\ hashed = Len(candidate)
    /\ digest' = digest \o pending
    /\ verifying' = "verify"
    /\ UNCHANGED <<candidate, buffer, meta, hashed, stateBytes, pending>>

EmptyAutomaticSave == candidate = <<<<>>>> /\ meta.hash = <<>>

Verify ==
    /\ verifying = "verify"
    /\ verifying' = IF /\ Len(candidate) = meta.lines
                       /\ digest = meta.hash \/ EmptyAutomaticSave
                    THEN "verified" ELSE "mismatch"
    /\ UNCHANGED <<candidate, buffer, meta, hashed, stateBytes, pending, digest>>

BaseNext == PrepareLine \/ CancelPrepare \/ Prepared \/ Verify
BaseSpec == BaseInit /\ [][BaseNext]_baseVars

-----------------------------------------------------------------------------
(* Properties. *)

\* A text verifies exactly if it is the one the undo file was written for, an
\* empty buffer saved by itself included: not even a line with LF, which hashes
\* as one with NUL.  Only texts beyond a limit and lines with LF are refused.
BaseIsTheReference ==
    /\ verifying = "verified" => candidate = buffer
    /\ verifying = "mismatch" => candidate # buffer
    /\ verifying = "refused" =>
        \/ Len(candidate) > StateLineLimit
        \/ \E i \in DOMAIN candidate : Contains(candidate[i], LF) \/ Len(candidate[i]) > LineByteLimit
        \/ Len(Hashed(candidate)) > StateByteLimit
=============================================================================
