------------------------------- MODULE Search --------------------------------
(* Discovery, internal/discover/search.go and choose.go: the candidate names *)
(* of one source are looked up in every supplied directory, the regular     *)
(* files among them are read, and one history is chosen or none. Editors    *)
(* retarget paths, create, replace and rewrite files meanwhile.             *)
(*                                                                          *)
(* A read is one step here: Load models how a read that raced a writer is   *)
(* refused. Each path, name and file is changed at most once: the package   *)
(* documents that an input edited and restored goes unnoticed.              *)
EXTENDS Naturals, Sequences, FiniteSets, FiniteSetsExt, SequencesExt

CONSTANTS
    Dir,
    NoDir,        \* a path that names no directory
    Args,         \* the undo directories as supplied, a sequence of paths
    SourceDir,    \* the directory that holds the source
    File,
    Absent,       \* a name that does not exist
    Denied,       \* a name whose lookup fails
    Size,
    Budgets,      \* values of Limits.SearchBytes
    MaxChanges    \* bound on what editors do during the search

Path == ToSet(Args)
Slot == {s \in Dir \X {"undo", "sidecar"} : s[2] = "undo" \/ s[1] = SourceDir}
Readable == {"match", "other", "malformed"}
Kind == Readable \cup {"symlink", "special", "toolarge"}

ASSUME SearchAssumption ==
    /\ NoDir \notin Dir
    /\ Args \in Seq(Path) /\ Args # << >>
    /\ SourceDir \in Dir \cup {NoDir}
    /\ IsFiniteSet(File)
    /\ {Absent, Denied} \cap (File \cup (File \X BOOLEAN)) = {} /\ Absent # Denied
    /\ Size \in [File -> Nat]
    /\ Budgets \subseteq Nat
    /\ MaxChanges \in Nat

VARIABLES
    names,        \* Path -> the directory it leads to
    entry,        \* Slot -> Absent, Denied or the file there
    kind,         \* File -> what it is
    touched,      \* what changed since the search began
    needBase,     \* the command reconstructs: KeepUnverified is its negation
    base,         \* the source can serve as a base: req.Base # nil
    limit,        \* Limits.SearchBytes
    pc,
    next,         \* index of the next directory argument
    todo,         \* names still to look up in the directory opened last
    opened,       \* held directories and aliases: [path, dir]
    unavailable,  \* some Scope is Unavailable
    probes,       \* what each looked-up name was
    reports,      \* outcome and file of each candidate, duplicates left out
    remaining,    \* bytes the search may still read
    kept,         \* Result.verified and Result.unverified: sets of at most one
    reading,      \* the probe being read, << >> if none
    unchecked,    \* what recheck still has to look at
    answer,
    expected      \* what the file system called for when recheck began (history)

fs == <<names, entry, kind, touched>>
request == <<needBase, base, limit>>
search == <<pc, next, todo, opened, unavailable, probes, reports, remaining,
            kept, reading, unchecked, answer, expected>>
vars == <<fs, request, search>>

Stamp(f) == <<f, f \in touched>>
Seen(s) == IF entry[s] \in File THEN Stamp(entry[s]) ELSE entry[s]

Init ==
    /\ names \in [Path -> Dir \cup {NoDir}]
    /\ entry \in [Slot -> File \cup {Absent, Denied}]
    /\ kind \in [File -> Kind]
    /\ touched = {}
    /\ needBase \in BOOLEAN
    /\ base \in BOOLEAN
    /\ needBase => base
    /\ limit \in Budgets
    /\ pc = "search"
    /\ next = 1
    /\ todo = << >>
    /\ opened = {}
    /\ unavailable = FALSE
    /\ probes = {}
    /\ reports = {}
    /\ remaining = limit
    /\ kept = [verified |-> {}, unverified |-> {}]
    /\ reading = << >>
    /\ unchecked = {}
    /\ answer = "none"
    /\ expected = "none"

------------------------------------------------------------------------------
(* The directories.                                                         *)

BetweenDirs == pc = "search" /\ todo = << >> /\ next <= Len(Args)

OpenFails ==
    /\ BetweenDirs
    /\ names[Args[next]] = NoDir
    /\ next' = next + 1
    /\ unavailable' = TRUE
    /\ UNCHANGED <<fs, request, pc, todo, opened, probes, reports, remaining,
                   kept, reading, unchecked, answer, expected>>

Held == {o.dir : o \in opened}

(* A directory already held is not searched again, but its path is          *)
(* rechecked. The sidecar name applies beside the source only.              *)
Open ==
    /\ BetweenDirs
    /\ LET d == names[Args[next]] IN
        /\ d # NoDir
        /\ opened' = opened \cup {[path |-> Args[next], dir |-> d]}
        /\ todo' = IF d \in Held THEN << >>
                   ELSE IF d = SourceDir THEN <<<<d, "undo">>, <<d, "sidecar">>>>
                   ELSE <<<<d, "undo">>>>
    /\ next' = next + 1
    /\ UNCHANGED <<fs, request, pc, unavailable, probes, reports, remaining,
                   kept, reading, unchecked, answer, expected>>

------------------------------------------------------------------------------
(* examine, up to the read.                                                 *)

Report(f, outcome) == reports' = reports \cup {[file |-> f, outcome |-> outcome]}

(* Fault: a name that does not exist is not kept for the recheck.           *)
ProbesPresent(s) == IF entry[s] = Absent THEN probes ELSE probes \cup {[slot |-> s, seen |-> Seen(s)]}

Probes(s) == probes \cup {[slot |-> s, seen |-> Seen(s)]}

LookUpFails ==
    /\ pc = "search"
    /\ todo # << >>
    /\ entry[Head(todo)] = Denied
    /\ todo' = Tail(todo)
    /\ Report(Denied, "unexamined")
    /\ UNCHANGED <<fs, request, pc, next, opened, unavailable, probes, remaining,
                   kept, reading, unchecked, answer, expected>>

(* Fault: a candidate beyond the budget is passed over in silence.          *)
SkipsOverBudget(f) ==
    CASE kind[f] = "symlink" -> Report(f, "unexamined")
      [] kind[f] = "special" -> Report(f, "rejected")
      [] OTHER -> UNCHANGED reports

Reported(f) == \E r \in reports : r.file = f

(* A candidate that is reported without being read. A duplicate is reported *)
(* too, but no rule looks at it.                                            *)
Settled(f) ==
    CASE kind[f] = "symlink" -> Report(f, "unexamined")
      [] kind[f] = "special" -> Report(f, "rejected")
      [] OTHER -> IF Reported(f) THEN UNCHANGED reports ELSE Report(f, "unexamined")

Worth(f) == kind[f] \notin {"symlink", "special"} /\ ~Reported(f) /\ Size[f] <= remaining

LookUp ==
    /\ pc = "search"
    /\ todo # << >>
    /\ LET s == Head(todo)
           f == entry[s] IN
        /\ f # Denied
        /\ probes' = Probes(s)
        /\ \/ /\ f = Absent
              /\ UNCHANGED <<reports, remaining, pc, reading>>
           \/ /\ f \in File
              /\ ~Worth(f)
              /\ Settled(f)
              /\ UNCHANGED <<remaining, pc, reading>>
           \/ /\ f \in File
              /\ Worth(f)
              /\ remaining' = remaining - Size[f]
              /\ reading' = [slot |-> s, seen |-> Stamp(f)]
              /\ pc' = "read"
              /\ UNCHANGED reports
    /\ todo' = Tail(todo)
    /\ UNCHANGED <<fs, request, next, opened, unavailable, kept, unchecked, answer, expected>>

------------------------------------------------------------------------------
(* load: the read, its verification and what is kept.                       *)

(* Any error of the search itself: no result.                               *)
Abandon(why) ==
    /\ pc' = "done"
    /\ answer' = why
    /\ UNCHANGED <<fs, request, next, todo, opened, unavailable, probes, reports,
                   remaining, kept, reading, unchecked, expected>>

Continue ==
    /\ pc' = "search"
    /\ reading' = << >>
    /\ UNCHANGED <<fs, request, next, todo, opened, unavailable, probes, remaining,
                   unchecked, answer, expected>>

Outcomes(outcome) == {r \in reports : r.outcome = outcome}

(* Nothing is kept once there are two: s.verified counts the reports.       *)
KeepVerified(f) ==
    kept' = [verified |-> IF Outcomes("verified") = {} THEN {f} ELSE {}, unverified |-> {}]

KeepUnverified(f) ==
    kept' = [kept EXCEPT !.unverified =
        IF ~needBase /\ Outcomes("verified") \cup Outcomes("unverified") = {} THEN {f} ELSE {}]

(* The name is gone or a symbolic link by the time it is opened.            *)
ReadFails ==
    /\ pc = "read"
    /\ LET f == entry[reading.slot] IN
        /\ f \in File => kind[f] = "symlink"
        /\ Report(reading.seen[1], "unexamined")
    /\ UNCHANGED kept
    /\ Continue

(* Another file, or the same with another size or time: not what was        *)
(* charged. The changed input ends the search.                              *)
ReadChanged ==
    /\ pc = "read"
    /\ LET f == entry[reading.slot] IN
        /\ f \in File
        /\ kind[f] # "symlink"
        /\ Stamp(f) # reading.seen
    /\ Abandon("changed")

Read ==
    /\ pc = "read"
    /\ LET f == entry[reading.slot] IN
        /\ f \in File
        /\ kind[f] # "symlink"
        /\ Stamp(f) = reading.seen
        /\ CASE kind[f] = "toolarge" -> Report(f, "unexamined") /\ UNCHANGED kept
             [] kind[f] = "malformed" -> Report(f, "rejected") /\ UNCHANGED kept
             [] kind[f] = "match" /\ base -> Report(f, "verified") /\ KeepVerified(f)
             [] OTHER -> Report(f, "unverified") /\ KeepUnverified(f)
    /\ Continue

(* Between directories and before a read.                                   *)
Canceled ==
    /\ BetweenDirs \/ pc = "read"
    /\ Abandon("canceled")

------------------------------------------------------------------------------
(* What the file system calls for, if it is looked at in one moment: the    *)
(* documented rules, without an order, a count or a budget to draw down.    *)

Candidates ==
    {entry[s] : s \in {s \in Slot : \E p \in Path : names[p] = s[1]}} \ {Absent}
OfKind(kinds) == {f \in Candidates \cap File : kind[f] \in kinds}
Charged == MapThenSumSet(LAMBDA f : Size[f], OfKind(Readable \cup {"toolarge"}))

Unexaminable ==
    \/ \E p \in Path : names[p] = NoDir
    \/ Denied \in Candidates
    \/ OfKind({"symlink", "toolarge"}) # {}
    \/ Charged > limit

Matching == IF base THEN OfKind({"match"}) ELSE {}
Unmatched == OfKind({"match", "other"}) \ Matching

Called ==
    IF Unexaminable THEN "incomplete"
    ELSE IF Cardinality(Matching) > 1 THEN "ambiguous"
    ELSE IF Cardinality(Matching) = 1 THEN CHOOSE f \in Matching : TRUE
    ELSE IF Unmatched # {} /\ needBase THEN "mismatch"
    ELSE IF Cardinality(Unmatched) > 1 THEN "ambiguous"
    ELSE IF Cardinality(Unmatched) = 1 THEN CHOOSE f \in Unmatched : TRUE
    ELSE IF OfKind({"malformed", "special"}) # {} THEN "invalid"
    ELSE "notfound"

------------------------------------------------------------------------------
(* recheck, one look at a time, and the choice.                             *)

BeginRecheck ==
    /\ pc = "search"
    /\ todo = << >>
    /\ next > Len(Args)
    /\ pc' = "recheck"
    /\ unchecked' = opened \cup probes
    /\ expected' = Called
    /\ UNCHANGED <<fs, request, next, todo, opened, unavailable, probes, reports,
                   remaining, kept, reading, answer>>

Stands(u) == IF u \in opened THEN names[u.path] = u.dir ELSE Seen(u.slot) = u.seen

(* Paths are looked at before names; the order within either is the         *)
(* search's own.                                                            *)
Turn(u) == u \in opened \/ unchecked \cap opened = {}

RecheckHolds(u) ==
    /\ pc = "recheck"
    /\ Turn(u)
    /\ Stands(u)
    /\ unchecked' = unchecked \ {u}
    /\ UNCHANGED <<fs, request, pc, next, todo, opened, unavailable, probes, reports,
                   remaining, kept, reading, answer, expected>>

RecheckFails(u) ==
    /\ pc = "recheck"
    /\ Turn(u)
    /\ ~Stands(u)
    /\ Abandon("changed")

(* A kept history, or the panic of a choice that was not kept.              *)
Taken(loads) == IF loads = {} THEN "panic" ELSE CHOOSE f \in loads : TRUE

(* choose with its callers Verified, when a base is needed, and             *)
(* ForInspection.                                                           *)
Choice ==
    IF unavailable \/ Outcomes("unexamined") # {} THEN "incomplete"
    ELSE IF Cardinality(Outcomes("verified")) > 1 THEN "ambiguous"
    ELSE IF Cardinality(Outcomes("verified")) = 1 THEN Taken(kept.verified)
    ELSE IF ~needBase /\ Cardinality(Outcomes("unverified")) > 1 THEN "ambiguous"
    ELSE IF ~needBase /\ Cardinality(Outcomes("unverified")) = 1 THEN Taken(kept.unverified)
    ELSE IF Outcomes("unverified") # {} THEN IF base THEN "mismatch" ELSE "nobase"
    ELSE IF Outcomes("rejected") # {} THEN "invalid"
    ELSE "notfound"

Choose ==
    /\ pc = "recheck"
    /\ unchecked = {}
    /\ Abandon(Choice)

Step ==
    \/ OpenFails
    \/ Open
    \/ LookUpFails
    \/ LookUp
    \/ ReadFails
    \/ ReadChanged
    \/ Read
    \/ Canceled
    \/ BeginRecheck
    \/ \E u \in unchecked : RecheckHolds(u) \/ RecheckFails(u)
    \/ Choose

------------------------------------------------------------------------------
(* Editors and users, while the search runs.                                *)

Change(what) ==
    /\ pc # "done"
    /\ what \notin touched
    /\ Cardinality(touched) < MaxChanges
    /\ touched' = touched \cup {what}
    /\ UNCHANGED <<request, search>>

(* A symbolic link in a supplied path is pointed elsewhere.                 *)
Retarget(p, d) ==
    /\ Change(p)
    /\ names' = [names EXCEPT ![p] = d]
    /\ UNCHANGED <<entry, kind>>

(* A file is created, removed, or renamed over another.                     *)
Place(s, e) ==
    /\ Change(s)
    /\ entry' = [entry EXCEPT ![s] = e]
    /\ UNCHANGED <<names, kind>>

(* A file is rewritten in place: another size or time.                      *)
Rewrite(f, k) ==
    /\ kind[f] \in Readable
    /\ Change(f)
    /\ kind' = [kind EXCEPT ![f] = k]
    /\ UNCHANGED <<names, entry>>

Edit ==
    \/ \E p \in Path : \E d \in (Dir \cup {NoDir}) \ {names[p]} : Retarget(p, d)
    \/ \E s \in Slot : \E e \in (File \cup {Absent, Denied}) \ {entry[s]} : Place(s, e)
    \/ \E f \in File, k \in Readable : Rewrite(f, k)

Finished == pc = "done" /\ UNCHANGED vars

Next == Step \/ Edit \/ Finished

Spec == Init /\ [][Next]_vars

------------------------------------------------------------------------------
(* An answer other than "the search is incomplete" is what the documented   *)
(* rules say of the file system in one moment, the one when recheck begins, *)
(* however directories, names and files changed while they were looked at   *)
(* one by one: nothing changed, appeared or was hidden unnoticed.           *)
AnswerIsALook ==
    pc = "done" /\ answer \notin {"changed", "canceled", "incomplete"} => answer = expected

(* While nothing changes the search is never blamed on a change, and the    *)
(* answer follows from the files alone: not from the order of the           *)
(* directories, repeated arguments, hard links, or what was read before the *)
(* budget ran out; and the history it names was kept.                       *)
SameForEveryOrder ==
    pc = "done" /\ touched = {} /\ answer # "canceled" => answer = expected

==============================================================================
