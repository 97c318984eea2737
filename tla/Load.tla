-------------------------------- MODULE Load ---------------------------------
(* Loading an undo file and its text, cmd/xunhen/load.go, with the reads of  *)
(* internal/input/input.go, while editors write, replace and remove the     *)
(* files and retarget the source.                                           *)
(*                                                                          *)
(* Discovery is one directory and one name here; Search models how many are *)
(* searched. Every change to a file gives it a new stamp, its times: an     *)
(* edit finer than the clock is out of the program's reach.                 *)
EXTENDS Naturals, Sequences, SequencesExt, FiniteSets

CONSTANTS
    Target,       \* what the source path may resolve to
    None,
    Block,        \* pieces of a file; what one read call returns. In an undo file, its nodes
    Starts,       \* contents files have to begin with and when replaced
    Unsupported,  \* contents splitBase refuses
    MaxBlocks,    \* Limits.InputBytes and BaseBytes, in blocks
    MaxEdits      \* bound on what editors do during a load

ASSUME LoadAssumption ==
    /\ IsFiniteSet(Target)
    /\ None \notin Target
    /\ None \notin Nat
    /\ None \notin [inode : Nat, size : Nat, stamp : Nat]
    /\ Starts \subseteq Seq(Block)
    /\ MaxBlocks \in Nat
    /\ MaxEdits \in Nat

VARIABLES
    link,         \* what the source path resolves to
    names,        \* Path -> inode, or None
    disk,         \* inode -> blocks and stamp
    edits,        \* how many changes there were
    mode,         \* "explicit" or "source"
    needBase,
    asked,        \* the nodes need.check looks up
    pc,
    target,       \* Resolve when the load began
    reading,      \* "undo" or "text": the file readOpen runs on
    file,         \* the open file: its inode, the size and stamp before, the blocks read
    probe,        \* what the search looked up under the undo name, or None
    got,          \* what was read: contents and identity, or None
    moments       \* what the inputs looked like since the load began (history)

fs == <<link, names, disk, edits>>
request == <<mode, needBase, asked, target>>
vars == <<fs, request, pc, reading, file, probe, got, moments>>

Path == {"undo", "text"} \X Target

(* An explicit load names its undo file, and its base path follows the      *)
(* link as a source path does. In a search the name follows from the        *)
(* target.                                                                  *)
PathOf(what) == IF what = "undo" THEN <<"undo", target>> ELSE <<"text", link>>

(* fstat(2) and stat(2): the file, its size and its times.                  *)
Identity(i) == [inode |-> i, size |-> Len(disk[i].blocks), stamp |-> disk[i].stamp]
Stat(what) == IF names[PathOf(what)] = None THEN None ELSE Identity(names[PathOf(what)])

Contents(what) ==
    IF names[PathOf(what)] = None THEN None ELSE disk[names[PathOf(what)]].blocks
Look == [undo |-> Contents("undo"), text |-> Contents("text"), link |-> link]

Files ==
    /\ link \in Target
    /\ \E c \in [Path -> Starts \cup {None}] :
        LET ps == SetToSeq({p \in Path : c[p] # None}) IN
        /\ disk = [i \in 1..Len(ps) |-> [blocks |-> c[ps[i]], stamp |-> 0]]
        /\ names = [p \in Path |-> IF c[p] = None THEN None
                                   ELSE CHOOSE i \in 1..Len(ps) : ps[i] = p]

LoadInit ==
    /\ edits = 0
    /\ mode \in {"explicit", "source"}
    /\ needBase \in BOOLEAN
    /\ asked \in SUBSET Block
    /\ target = link
    /\ pc = "open"
    /\ reading = IF mode = "explicit" THEN "undo" ELSE "text"
    /\ file = None
    /\ probe = None
    /\ got = [undo |-> None, text |-> None]
    /\ moments = {Look}

Init == Files /\ LoadInit

Ended == pc \in {"loaded", "failed"}

------------------------------------------------------------------------------
(* ReadFile and ReadEntry.                                                  *)

At(where) == pc = where /\ UNCHANGED <<fs, request, moments>>
Fail == pc' = "failed" /\ UNCHANGED <<reading, file, probe, got>>

(* A source that cannot be read leaves an inspection without a base; any    *)
(* other read error ends the load.                                          *)
ReadError ==
    IF mode = "source" /\ reading = "text" /\ ~needBase
    THEN pc' = "lookup" /\ reading' = "undo" /\ UNCHANGED <<file, probe, got>>
    ELSE Fail

(* The search looks its candidate up before it opens it.                    *)
LookUp ==
    /\ At("lookup")
    /\ IF Stat("undo") = None THEN Fail
       ELSE pc' = "open" /\ probe' = Stat("undo") /\ UNCHANGED <<reading, file, got>>

Open ==
    /\ At("open")
    /\ IF Stat(reading) = None THEN ReadError
       ELSE /\ pc' = "before"
            /\ file' = [inode |-> Stat(reading).inode, before |-> None, blocks |-> << >>]
            /\ UNCHANGED <<reading, probe, got>>

AsLookedUp(now) == reading = "undo" /\ mode = "source" => now = probe

StatBefore ==
    /\ At("before")
    /\ LET now == Identity(file.inode) IN
        IF ~AsLookedUp(now) THEN Fail
        ELSE IF now.size > MaxBlocks THEN ReadError
        ELSE /\ pc' = "read"
             /\ file' = [file EXCEPT !.before = now]
             /\ UNCHANGED <<reading, probe, got>>

(* The reader stops at the size seen at open, or where the file ends now.   *)
HasMore ==
    /\ Len(file.blocks) < file.before.size
    /\ Len(file.blocks) < Len(disk[file.inode].blocks)

ReadBlock ==
    /\ At("read")
    /\ HasMore
    /\ file' = [file EXCEPT !.blocks =
                   Append(@, disk[file.inode].blocks[Len(@) + 1])]
    /\ UNCHANGED <<pc, reading, probe, got>>

(* An undo file that does not decode fails before it is looked at again.    *)
ReadEnd ==
    /\ At("read")
    /\ ~HasMore
    /\ IF reading = "undo" /\ file.blocks = << >> THEN Fail
       ELSE pc' = "after" /\ UNCHANGED <<reading, file, probe, got>>

Undisturbed(now) == now = file.before

StatAfter ==
    /\ At("after")
    /\ IF Undisturbed(Identity(file.inode))
       THEN pc' = "named" /\ UNCHANGED <<reading, file, probe, got>>
       ELSE Fail

(* What a finished read leads to.                                           *)
AfterRead ==
    CASE reading = "undo" /\ mode = "explicit" /\ ~needBase -> pc' = "loaded" /\ UNCHANGED reading
      [] reading = "undo" /\ mode = "explicit" /\ needBase -> pc' = "open" /\ reading' = "text"
      [] reading = "text" /\ mode = "source" -> pc' = "lookup" /\ reading' = "undo"
      [] OTHER -> pc' = "verify" /\ UNCHANGED reading

(* The history has every node asked for.                                    *)
Known(blocks) == asked \subseteq ToSet(blocks)

(* A rename over the path leaves the open file intact; only the same file   *)
(* is asked for. Then readText splits what it read, and an explicit load    *)
(* looks the nodes up before it opens the base.                             *)
StatName ==
    /\ At("named")
    /\ IF Stat(reading) = None \/ Stat(reading).inode # file.inode THEN Fail
       ELSE IF reading = "text" /\ file.blocks \in Unsupported THEN ReadError
       ELSE IF reading = "undo" /\ mode = "explicit" /\ ~Known(file.blocks) THEN Fail
       ELSE /\ AfterRead
            /\ got' = [got EXCEPT ![reading] = [blocks |-> file.blocks, identity |-> file.before]]
            /\ UNCHANGED <<file, probe>>

------------------------------------------------------------------------------
(* loadExplicit and loadFromSource, once the files are read.                *)

(* The hash in an undo file identifies a text; here the undo file that      *)
(* belongs to a text has the same blocks.                                   *)
Verified == got.undo # None /\ got.text # None /\ got.undo.blocks = got.text.blocks

Verify ==
    /\ At("verify")
    /\ IF needBase /\ ~Verified THEN Fail
       ELSE pc' = "recheck" /\ UNCHANGED <<reading, file, probe, got>>

Passes(holds, where) ==
    IF holds THEN pc' = where /\ UNCHANGED <<reading, file, probe, got>> ELSE Fail

(* Fault: an explicit load ends once the base verifies.                     *)
RecheckNothing == At("recheck") /\ Passes(mode = "source" => Stat("undo") = probe,
                                        IF mode = "source" THEN "source" ELSE "loaded")

(* input.Recheck of an explicit undo file; the search's own recheck of its  *)
(* candidate.                                                               *)
RecheckUndo == At("recheck") /\ Passes(Stat("undo") = got.undo.identity,
                                     IF mode = "source" THEN "source" ELSE "loaded")

RecheckSource ==
    /\ At("source")
    /\ Passes(got.text # None => Stat("text") = got.text.identity, "resolve")

ResolveAgain == At("resolve") /\ Passes(link = target /\ Known(got.undo.blocks), "loaded")

(* Cancellation, or an undo file whose records are no history.               *)
GiveUp == ~Ended /\ At(pc) /\ Fail

Step ==
    \/ LookUp \/ Open \/ StatBefore \/ ReadBlock \/ ReadEnd \/ StatAfter \/ StatName
    \/ Verify \/ RecheckUndo \/ RecheckSource \/ ResolveAgain
    \/ GiveUp

------------------------------------------------------------------------------
(* Editors and users.                                                       *)

Change ==
    /\ ~Ended
    /\ edits < MaxEdits
    /\ edits' = edits + 1
    /\ UNCHANGED <<request, pc, reading, file, probe, got>>
    /\ moments' = moments \cup {Look'}

Stored(i, bs) == disk' = [disk EXCEPT ![i] = [blocks |-> bs, stamp |-> @.stamp + 1]]

Overwrite(i, k, b) ==
    /\ Stored(i, [disk[i].blocks EXCEPT ![k] = b])
    /\ UNCHANGED <<link, names>>
    /\ Change

Extend(i, b) ==
    /\ Stored(i, Append(disk[i].blocks, b))
    /\ UNCHANGED <<link, names>>
    /\ Change

Truncate(i) ==
    /\ Stored(i, << >>)
    /\ UNCHANGED <<link, names>>
    /\ Change

(* A file written elsewhere and renamed over the path.                      *)
Replace(p, c) ==
    /\ disk' = Append(disk, [blocks |-> c, stamp |-> 0])
    /\ names' = [names EXCEPT ![p] = Len(disk) + 1]
    /\ UNCHANGED link
    /\ Change

Unlink(p) ==
    /\ names[p] # None
    /\ names' = [names EXCEPT ![p] = None]
    /\ UNCHANGED <<link, disk>>
    /\ Change

(* The source is pointed elsewhere, and not back again: the package         *)
(* documents that an input edited and restored between two checks goes      *)
(* unnoticed, and Recheck and Resolve look at the link one after the other. *)
Retarget(t) ==
    /\ link = target
    /\ t # link
    /\ link' = t
    /\ UNCHANGED <<names, disk>>
    /\ Change

Edit ==
    \/ \E i \in DOMAIN disk : \E b \in Block :
        \/ \E k \in DOMAIN disk[i].blocks : Overwrite(i, k, b)
        \/ Extend(i, b)
    \/ \E i \in DOMAIN disk : Truncate(i)
    \/ \E p \in Path : \E c \in Starts : Replace(p, c)
    \/ \E p \in Path : Unlink(p)
    \/ \E t \in Target : Retarget(t)

Finished == Ended /\ UNCHANGED vars

Next == Step \/ Edit \/ Finished

Spec == Init /\ [][Next]_vars

------------------------------------------------------------------------------
(* A load that succeeds saw its inputs as they were together in one moment: *)
(* the undo file, the text it was verified against and the file the source  *)
(* resolved to, each of one version, although blocks and files were read    *)
(* one after the other.                                                     *)
LoadIsALook ==
    pc = "loaded" =>
        \E m \in moments :
            /\ m.undo = got.undo.blocks
            /\ got.text # None => m.text = got.text.blocks
            /\ mode = "source" => m.link = target

==============================================================================
