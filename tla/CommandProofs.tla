----------------------------- MODULE CommandProofs ---------------------------
(* For every number of edits, blocks and targets, every text and every size *)
(* of the output's buffer: a load that succeeds saw its inputs in one       *)
(* moment, and the output of a command is whole or said not to be.          *)
(*                                                                          *)
(* What holds of a file does so under a condition that the load is still to *)
(* check: if the path leads to the file now, or its identity is the one     *)
(* read, then so it did and was at the moment in question. Editors can only *)
(* make such a condition false, never true again: a stamp never comes back, *)
(* and neither does a file to a path.                                       *)
(*                                                                          *)
(* What was written, what is buffered and what is left make the whole, at   *)
(* every step. That a raw export reads back as its text is shown one line   *)
(* at a time: what the separators split a text into when one more line, or  *)
(* a newline, is put behind it.                                             *)
EXTENDS Commands, Foundations, TLAPS, FiniteSetTheorems, SequenceTheorems

-----------------------------------------------------------------------------
(* A load.                                                                  *)

Inode == 1..Len(disk)
StoredFile == [blocks : Seq(Block), stamp : Nat]
IdentityType == [inode : Nat, size : Nat, stamp : Nat]

(* The file system: no two paths share a file.                              *)
DiskIInv ==
    /\ disk \in Seq(StoredFile)
    /\ names \in [Path -> Inode \cup {None}]
    /\ \A p, q \in Path : names[p] # None /\ names[p] = names[q] => p = q
    /\ link \in Target /\ target \in Target
    /\ Look \in moments

(* What an editor does to the file system.                                  *)
Drift ==
    /\ UNCHANGED <<request, pc, reading, file, probe, got>>
    /\ DiskIInv'
    /\ Len(disk) <= Len(disk')
    /\ \A i \in Inode : /\ disk[i].stamp <= disk'[i].stamp
                        /\ disk'[i].stamp = disk[i].stamp => disk'[i] = disk[i]
    /\ \A p \in Path : names'[p] \in {names[p], None} \cup (Len(disk) + 1 .. Len(disk'))
    /\ link' # link => link = target /\ link' # target
    /\ moments \subseteq moments'

LEMMA StoredDrift ==
    ASSUME DiskIInv, NEW i \in Inode, NEW bs \in Seq(Block), Stored(i, bs),
           UNCHANGED <<link, names>>, Change
    PROVE  Drift
<1> DEFINE d == [disk EXCEPT ![i] = [blocks |-> bs, stamp |-> disk[i].stamp + 1]]
<1>1. /\ Len(disk) \in Nat
      /\ \A j \in Inode : disk[j] \in StoredFile
  BY LenProperties, ElementOfSeq DEF DiskIInv, Inode
<1>2. disk' = d
  BY DEF Stored
<1>3. [blocks |-> bs, stamp |-> disk[i].stamp + 1] \in StoredFile
  BY <1>1 DEF StoredFile
<1>4. /\ d \in Seq(StoredFile)
      /\ Len(d) = Len(disk)
      /\ \A j \in Inode : d[j] = IF j = i THEN [blocks |-> bs, stamp |-> disk[i].stamp + 1] ELSE disk[j]
  BY <1>3, ExceptSeq DEF DiskIInv, Inode
<1>5. \A j \in Inode : /\ disk[j].stamp <= disk'[j].stamp
                       /\ disk'[j].stamp = disk[j].stamp => disk'[j] = disk[j]
  BY <1>1, <1>2, <1>4 DEF StoredFile
<1>6. DiskIInv'
  BY <1>2, <1>4 DEF DiskIInv, Inode, Change, request, Path
<1>7. QED
  BY <1>1, <1>2, <1>4, <1>5, <1>6 DEF Drift, Change, DiskIInv

LEMMA EditDrift ==
    ASSUME DiskIInv, Edit
    PROVE  Drift
<1>1. /\ Len(disk) \in Nat
      /\ \A j \in Inode : disk[j] \in StoredFile
      /\ DOMAIN disk = Inode
  BY LenProperties, ElementOfSeq DEF DiskIInv, Inode
<1>2. ASSUME NEW i \in Inode, NEW b \in Block, NEW k \in DOMAIN disk[i].blocks, Overwrite(i, k, b)
      PROVE  Drift
  <2>1. disk[i].blocks \in Seq(Block)
    BY <1>1 DEF StoredFile
  <2>2. [disk[i].blocks EXCEPT ![k] = b] \in Seq(Block)
    BY <2>1
  <2>3. QED
    BY <1>2, <2>2, StoredDrift DEF Overwrite
<1>3. ASSUME NEW i \in Inode, NEW b \in Block, Extend(i, b) PROVE Drift
  <2>1. disk[i].blocks \in Seq(Block)
    BY <1>1 DEF StoredFile
  <2>2. Append(disk[i].blocks, b) \in Seq(Block)
    BY <2>1
  <2>3. QED
    BY <1>3, <2>2, StoredDrift DEF Extend
<1>4. ASSUME NEW i \in Inode, Truncate(i) PROVE Drift
  <2>1. << >> \in Seq(Block)
    OBVIOUS
  <2>2. QED
    BY <1>4, <2>1, StoredDrift DEF Truncate
<1>5. ASSUME NEW p \in Path, NEW c \in Starts, Replace(p, c) PROVE Drift
  <2>1. [blocks |-> c, stamp |-> 0] \in StoredFile
    BY LoadAssumption DEF StoredFile
  <2>2. /\ disk' \in Seq(StoredFile) /\ Len(disk') = Len(disk) + 1
        /\ \A j \in Inode : disk'[j] = disk[j]
    BY <1>1, <1>5, <2>1 DEF Replace, DiskIInv, Inode
  <2>3. \A q \in Path : names'[q] = IF q = p THEN Len(disk) + 1 ELSE names[q]
    BY <1>5 DEF Replace, DiskIInv
  <2>4. /\ names' \in [Path -> Inode' \cup {None}]
        /\ \A q, r \in Path : names'[q] # None /\ names'[q] = names'[r] => q = r
    BY <1>1, <1>5, <2>2, <2>3, LoadAssumption DEF Replace, DiskIInv, Inode
  <2>5. DiskIInv'
    BY <1>5, <2>2, <2>4 DEF Replace, DiskIInv, Change, request
  <2>6. QED
    BY <1>1, <1>5, <2>2, <2>3, <2>5 DEF Replace, Drift, Change, StoredFile
<1>6. ASSUME NEW p \in Path, Unlink(p) PROVE Drift
  <2>1. /\ names' \in [Path -> Inode' \cup {None}]
        /\ \A q \in Path : names'[q] = IF q = p THEN None ELSE names[q]
    BY <1>6 DEF Unlink, DiskIInv, Inode
  <2>2. DiskIInv'
    BY <1>6, <2>1 DEF Unlink, DiskIInv, Change, request
  <2>3. QED
    BY <1>1, <1>6, <2>1, <2>2 DEF Unlink, Drift, Change, StoredFile
<1>7. ASSUME NEW t \in Target, Retarget(t) PROVE Drift
  <2>1. DiskIInv'
    BY <1>7 DEF Retarget, DiskIInv, Change, request, Inode
  <2>2. QED
    BY <1>1, <1>7, <2>1 DEF Retarget, Drift, Change, StoredFile
<1>8. QED
  BY <1>1, <1>2, <1>3, <1>4, <1>5, <1>6, <1>7 DEF Edit

------------------------------------------------------------------------------
(* The invariant.                                                           *)

(* A version that was read: as long as a file has this identity, it has     *)
(* these blocks.                                                            *)
Kept(id, blocks) ==
    /\ id \in IdentityType /\ id.inode \in Inode
    /\ id.stamp <= disk[id.inode].stamp
    /\ Identity(id.inode) = id => disk[id.inode].blocks = blocks

(* What was read of the open file is what it begins with, and in the end    *)
(* all of it, if it is still the one looked at before. A text that a link   *)
(* led to is not where the link leads once it was pointed elsewhere.        *)
OpenIInv ==
    /\ pc \in {"before", "read", "after", "named"} =>
        /\ file \in [inode : Inode, before : IdentityType \cup {None}, blocks : Seq(Block)]
        /\ reading = "text" =>
              \A t \in Target : names[<<"text", t>>] = file.inode => t \in {link, target}
    /\ pc = "before" => file.blocks = << >>
    /\ pc \in {"read", "after", "named"} =>
        file.before \in IdentityType /\ file.before.inode = file.inode
    /\ pc = "read" =>
        /\ file.before.stamp <= disk[file.inode].stamp
        /\ Identity(file.inode) = file.before =>
              /\ Len(file.blocks) <= Len(disk[file.inode].blocks)
              /\ \A k \in 1..Len(file.blocks) : file.blocks[k] = disk[file.inode].blocks[k]
    /\ pc \in {"after", "named"} => Kept(file.before, file.blocks)

ControlIInv ==
    /\ reading \in {"undo", "text"} /\ mode \in {"explicit", "source"}
    /\ got = [undo |-> got.undo, text |-> got.text]
    /\ pc \in {"source", "resolve"} => mode = "source"
    /\ pc = "lookup" => mode = "source" /\ reading = "undo"
    /\ pc \in {"verify", "recheck", "source", "resolve"} /\ mode = "explicit" => reading = "text"
    /\ mode = "explicit" /\ reading = "undo" => got.text = None

UndoIsRead ==
    pc \in {"verify", "recheck", "source", "resolve"} \/ (mode = "explicit" /\ reading = "text")

GotIInv ==
    /\ UndoIsRead => Kept(got.undo.identity, got.undo.blocks)
    /\ got.text # None => Kept(got.text.identity, got.text.blocks)

(* The moment there was if what is still to be checked holds.               *)
LookOf(undo, text) == \E m \in moments : m.undo = undo /\ m.text = text
SourceLook ==
    \E m \in moments : /\ m.undo = got.undo.blocks
                       /\ got.text # None => m.text = got.text.blocks
                       /\ m.link = target

MomentIInv ==
    /\ pc = "named" /\ mode = "explicit" /\ reading = "undo" /\ names[PathOf("undo")] = file.inode =>
          \E m \in moments : m.undo = file.blocks
    /\ pc = "named" /\ mode = "explicit" /\ reading = "text" /\ names[PathOf("text")] = file.inode
          /\ Stat("undo") = got.undo.identity => LookOf(got.undo.blocks, file.blocks)
    /\ pc \in {"verify", "recheck"} /\ mode = "explicit" /\ Stat("undo") = got.undo.identity =>
          LookOf(got.undo.blocks, got.text.blocks)
    /\ pc = "source" /\ link = target /\ (got.text # None => Stat("text") = got.text.identity) =>
          SourceLook
    /\ pc = "resolve" /\ link = target => SourceLook
    /\ LoadIsALook

IInv == DiskIInv /\ OpenIInv /\ ControlIInv /\ GotIInv /\ MomentIInv

------------------------------------------------------------------------------
(* Editors.                                                                 *)

LEMMA DiskTypes ==
    ASSUME DiskIInv
    PROVE  /\ Len(disk) \in Nat
           /\ \A i \in Inode : /\ disk[i].blocks \in Seq(Block) /\ disk[i].stamp \in Nat
                               /\ Identity(i) \in IdentityType /\ Identity(i).inode = i
<1>1. Len(disk) \in Nat /\ \A i \in Inode : disk[i] \in StoredFile
  BY LenProperties, ElementOfSeq DEF DiskIInv, Inode
<1>2. ASSUME NEW i \in Inode
      PROVE  /\ disk[i].blocks \in Seq(Block) /\ disk[i].stamp \in Nat
             /\ Identity(i) \in IdentityType /\ Identity(i).inode = i
  <2>1. disk[i].blocks \in Seq(Block) /\ disk[i].stamp \in Nat /\ i \in Nat
    BY <1>1, <1>2 DEF StoredFile, Inode
  <2>2. Len(disk[i].blocks) \in Nat
    BY <2>1
  <2>3. QED
    BY <2>1, <2>2 DEF Identity, IdentityType
<1>3. QED
  BY <1>1, <1>2

(* A file does not come back to a path.                                     *)
LEMMA DriftPath ==
    ASSUME DiskIInv, Drift, NEW p \in Path, NEW i \in Inode, names'[p] = i
    PROVE  names[p] = i
BY DiskTypes, LoadAssumption DEF Drift, Inode

LEMMA DriftIdentity ==
    ASSUME DiskIInv, Drift, NEW id \in IdentityType, id.inode \in Inode,
           id.stamp <= disk[id.inode].stamp
    PROVE  /\ id.inode \in Inode' /\ id.stamp <= disk'[id.inode].stamp
           /\ Identity(id.inode)' = id => disk'[id.inode] = disk[id.inode] /\ Identity(id.inode) = id
<1>1. /\ disk[id.inode].stamp \in Nat /\ disk'[id.inode].stamp \in Nat
      /\ disk[id.inode].stamp <= disk'[id.inode].stamp
      /\ id.inode \in Inode'
  <2>1. Len(disk) \in Nat /\ Len(disk') \in Nat /\ Len(disk) <= Len(disk')
    BY DiskTypes, LenProperties DEF Drift, DiskIInv
  <2>2. id.inode \in Inode'
    BY <2>1 DEF Inode
  <2>3. disk'[id.inode] \in StoredFile
    BY <2>2, ElementOfSeq DEF Drift, DiskIInv, Inode
  <2>4. QED
    BY <2>2, <2>3, DiskTypes DEF Drift, StoredFile
<1>2. ASSUME Identity(id.inode)' = id
      PROVE  disk'[id.inode] = disk[id.inode] /\ Identity(id.inode) = id
  <2>1. disk'[id.inode].stamp = id.stamp
    BY <1>2 DEF Identity
  <2>2. disk'[id.inode].stamp = disk[id.inode].stamp
    BY <1>1, <2>1 DEF IdentityType
  <2>3. disk'[id.inode] = disk[id.inode]
    BY <2>2 DEF Drift
  <2>4. QED
    BY <1>2, <2>3 DEF Identity
<1>3. QED
  BY <1>1, <1>2 DEF IdentityType

LEMMA DriftKept ==
    ASSUME DiskIInv, Drift, NEW id, NEW blocks, Kept(id, blocks)
    PROVE  Kept(id, blocks)'
BY DriftIdentity DEF Kept, Identity

(* An identity does not come back either.                                   *)
LEMMA DriftStat ==
    ASSUME DiskIInv, Drift, NEW id, NEW blocks, Kept(id, blocks),
           NEW what \in {"undo", "text"}, PathOf(what)' = PathOf(what), Stat(what)' = id
    PROVE  Stat(what) = id
<1> DEFINE p == PathOf(what)
<1>1. p \in Path
  BY DEF PathOf, Path, DiskIInv
<1>2. id \in IdentityType /\ id.inode \in Inode /\ id.stamp <= disk[id.inode].stamp
  BY DEF Kept
<1>3. names'[p] # None
  BY <1>2, LoadAssumption DEF Stat, IdentityType
<1>4. Identity(names[p])' = id
  BY <1>3 DEF Stat
<1>5. names'[p] = id.inode
  BY <1>4 DEF Identity
<1>6. names[p] = id.inode
  BY <1>1, <1>2, <1>5, DriftPath
<1>7. Identity(id.inode)' = id
  BY <1>4, <1>5 DEF Identity
<1>8. Identity(id.inode) = id
  BY <1>2, <1>7, DriftIdentity
<1>9. QED
  BY <1>2, <1>6, <1>8, LoadAssumption DEF Stat, Inode

LEMMA DriftOpen ==
    ASSUME IInv, Drift
    PROVE  OpenIInv'
<1>1. UNCHANGED <<pc, reading, file, target>> /\ DiskIInv
  BY DEF Drift, request, IInv
<1>2. Len(disk) \in Nat /\ Len(disk') \in Nat /\ Inode \subseteq Inode'
  BY DiskTypes, LenProperties DEF Drift, DiskIInv, Inode
<1>3. ASSUME pc \in {"before", "read", "after", "named"}
      PROVE  /\ file \in [inode : Inode', before : IdentityType \cup {None}, blocks : Seq(Block)]
             /\ reading = "text" =>
                  \A t \in Target : names'[<<"text", t>>] = file.inode => t \in {link', target}
  <2>1. file.inode \in Inode /\ file \in [inode : Inode, before : IdentityType \cup {None}, blocks : Seq(Block)]
    BY <1>3 DEF IInv, OpenIInv
  <2>2. ASSUME NEW t \in Target, reading = "text", names'[<<"text", t>>] = file.inode
        PROVE  t \in {link', target}
    <3>1. <<"text", t>> \in Path
      BY DEF Path
    <3>2. names[<<"text", t>>] = file.inode
      BY <1>1, <2>1, <2>2, <3>1, DriftPath
    <3>3. t \in {link, target}
      BY <1>3, <2>2, <3>2 DEF IInv, OpenIInv
    <3>4. QED
      BY <3>3 DEF Drift
  <2>3. QED
    BY <1>2, <2>1, <2>2
<1>4. ASSUME pc = "read"
      PROVE  /\ file.before.stamp <= disk'[file.inode].stamp
             /\ Identity(file.inode)' = file.before =>
                  /\ Len(file.blocks) <= Len(disk'[file.inode].blocks)
                  /\ \A k \in 1..Len(file.blocks) : file.blocks[k] = disk'[file.inode].blocks[k]
  <2>1. /\ file.before \in IdentityType /\ file.before.inode = file.inode /\ file.inode \in Inode
        /\ file.before.stamp <= disk[file.inode].stamp
    BY <1>4 DEF IInv, OpenIInv
  <2>2. /\ file.before.stamp <= disk'[file.inode].stamp
        /\ Identity(file.inode)' = file.before =>
              disk'[file.inode] = disk[file.inode] /\ Identity(file.inode) = file.before
    BY <1>1, <2>1, DriftIdentity DEF Identity
  <2>3. QED
    BY <1>4, <2>2 DEF IInv, OpenIInv
<1>5. ASSUME pc \in {"after", "named"} PROVE Kept(file.before, file.blocks)'
  BY <1>1, <1>5, DriftKept DEF IInv, OpenIInv, Kept, Identity
<1>6. QED
  BY <1>1, <1>3, <1>4, <1>5 DEF IInv, OpenIInv, Identity

LEMMA DriftGot ==
    ASSUME IInv, Drift
    PROVE  GotIInv'
<1>1. UNCHANGED <<pc, reading, mode, got>> /\ DiskIInv /\ GotIInv
  BY DEF Drift, request, IInv
<1>2. UndoIsRead' = UndoIsRead
  BY <1>1 DEF UndoIsRead
<1>3. QED
  BY <1>1, <1>2, DriftKept DEF GotIInv, Kept, Identity

LEMMA DriftMoment ==
    ASSUME IInv, Drift
    PROVE  MomentIInv'
<1>1. /\ UNCHANGED <<pc, reading, mode, got, file, target>>
      /\ DiskIInv /\ OpenIInv /\ ControlIInv /\ GotIInv /\ MomentIInv
      /\ moments \subseteq moments'
      /\ link \in Target /\ link' \in Target /\ target \in Target
  BY DEF Drift, request, IInv, DiskIInv
<1>2. PathOf("undo")' = PathOf("undo") /\ PathOf("undo") \in Path
  BY <1>1 DEF PathOf, Path
<1>3. ASSUME UndoIsRead, Stat("undo")' = got.undo.identity PROVE Stat("undo") = got.undo.identity
  BY <1>1, <1>2, <1>3, DriftStat DEF GotIInv
<1>4. ASSUME pc = "named", mode = "explicit", reading = "undo", names'[PathOf("undo")] = file.inode
      PROVE  \E m \in moments' : m.undo = file.blocks
  <2>1. file.inode \in Inode
    BY <1>1, <1>4 DEF OpenIInv
  <2>2. names[PathOf("undo")] = file.inode
    BY <1>1, <1>2, <1>4, <2>1, DriftPath
  <2>3. QED
    BY <1>1, <1>4, <2>2 DEF MomentIInv
<1>5. ASSUME pc = "named", mode = "explicit", reading = "text", names'[PathOf("text")'] = file.inode,
             Stat("undo")' = got.undo.identity
      PROVE  \E m \in moments' : m.undo = got.undo.blocks /\ m.text = file.blocks
  <2>1. file.inode \in Inode
    BY <1>1, <1>5 DEF OpenIInv
  <2>2. names[<<"text", link'>>] = file.inode
    <3>1. <<"text", link'>> \in Path /\ PathOf("text")' = <<"text", link'>>
      BY <1>1 DEF Path, PathOf
    <3>2. QED
      BY <1>1, <1>5, <2>1, <3>1, DriftPath
  <2>3. link' = link
    <3>1. link' \in {link, target}
      BY <1>1, <1>5, <2>2 DEF OpenIInv
    <3>2. QED
      BY <3>1 DEF Drift
  <2>4. names[PathOf("text")] = file.inode
    BY <2>2, <2>3 DEF PathOf
  <2>5. QED
    BY <1>1, <1>3, <1>5, <2>4 DEF MomentIInv, UndoIsRead, LookOf
<1>6. ASSUME pc \in {"verify", "recheck"}, mode = "explicit", Stat("undo")' = got.undo.identity
      PROVE  \E m \in moments' : m.undo = got.undo.blocks /\ m.text = got.text.blocks
  BY <1>1, <1>3, <1>6 DEF MomentIInv, UndoIsRead, LookOf
<1>7. link' = target => link = target
  BY DEF Drift
<1>8. SourceLook => SourceLook'
  BY <1>1 DEF SourceLook
<1>9. ASSUME pc = "source", link' = target, got.text # None => Stat("text")' = got.text.identity
      PROVE  SourceLook
  <2>1. PathOf("text")' = PathOf("text") /\ link = target
    BY <1>7, <1>9 DEF PathOf
  <2>2. got.text # None => Stat("text") = got.text.identity
    BY <1>1, <1>9, <2>1, DriftStat DEF GotIInv
  <2>3. QED
    BY <1>1, <1>9, <2>1, <2>2 DEF MomentIInv
<1>10. LoadIsALook'
  BY <1>1 DEF MomentIInv, LoadIsALook
<1>11. QED
  <2>1. /\ PathOf("undo")' = PathOf("undo")
        /\ Stat("undo")' = got.undo.identity => Stat("undo")' = got'.undo.identity
    BY <1>1, <1>2
  <2> HIDE DEF IInv, Drift
  <2>2. pc' = "named" /\ mode' = "explicit" /\ reading' = "undo" /\ names'[PathOf("undo")'] = file'.inode =>
          \E m \in moments' : m.undo = file'.blocks
    BY <1>1, <1>2, <1>4
  <2>3. pc' = "named" /\ mode' = "explicit" /\ reading' = "text" /\ names'[PathOf("text")'] = file'.inode
          /\ Stat("undo")' = got'.undo.identity => LookOf(got.undo.blocks, file.blocks)'
    BY <1>1, <1>5 DEF LookOf
  <2>4. pc' \in {"verify", "recheck"} /\ mode' = "explicit" /\ Stat("undo")' = got'.undo.identity =>
          LookOf(got.undo.blocks, got.text.blocks)'
    BY <1>1, <1>6 DEF LookOf
  <2>5. pc' = "source" /\ link' = target' /\ (got'.text # None => Stat("text")' = got'.text.identity) =>
          SourceLook'
    BY <1>1, <1>8, <1>9
  <2>6. pc' = "resolve" /\ link' = target' => SourceLook'
    BY <1>1, <1>7, <1>8 DEF MomentIInv
  <2>7. QED
    BY <1>10, <2>2, <2>3, <2>4, <2>5, <2>6 DEF MomentIInv

LEMMA EditIInv == IInv /\ Edit => IInv'
<1> SUFFICES ASSUME IInv, Edit PROVE IInv'
  OBVIOUS
<1>1. Drift
  BY EditDrift DEF IInv
<1>2. DiskIInv' /\ ControlIInv'
  BY <1>1 DEF Drift, request, IInv, ControlIInv
<1>3. QED
  BY <1>1, <1>2, DriftOpen, DriftGot, DriftMoment DEF IInv

------------------------------------------------------------------------------
(* The load.                                                                *)

(* What a step of the load leaves alone, whichever it is.                   *)
Quiet == UNCHANGED <<fs, request, moments>>

LEMMA QuietDisk ==
    ASSUME IInv, Quiet
    PROVE  /\ DiskIInv'
           /\ UNCHANGED <<disk, names, link, target, mode, needBase, asked, moments>>
           /\ Stat("undo")' = Stat("undo") /\ Stat("text")' = Stat("text")
           /\ \A id, blocks : Kept(id, blocks) => Kept(id, blocks)'
           /\ PathOf("undo")' = PathOf("undo") /\ PathOf("text")' = PathOf("text")
<1>1. UNCHANGED <<disk, names, link, target, mode, needBase, asked, moments>>
  BY DEF Quiet, fs, request
<1>2. DiskIInv'
  BY <1>1 DEF IInv, DiskIInv, Inode, Look, Contents, PathOf
<1>3. QED
  BY <1>1, <1>2 DEF Stat, PathOf, Identity, Kept, Inode

(* A failed load keeps what was read.                                       *)
LEMMA FailIInv ==
    ASSUME IInv, Quiet, Fail
    PROVE  IInv'
BY QuietDisk DEF Fail, IInv, OpenIInv, ControlIInv, GotIInv, UndoIsRead, MomentIInv, LoadIsALook

LEMMA LookUpIInv ==
    ASSUME IInv, LookUp
    PROVE  IInv'
<1>1. Quiet
  BY DEF LookUp, At, Quiet
<1>2. CASE Stat("undo") = None
  BY <1>1, <1>2, FailIInv DEF LookUp
<1>3. CASE Stat("undo") # None
  <2>1. pc = "lookup" /\ pc' = "open" /\ UNCHANGED <<reading, file, got>>
    BY <1>3 DEF LookUp, At
  <2>2. QED
    BY <1>1, <2>1, QuietDisk
       DEF IInv, OpenIInv, ControlIInv, GotIInv, UndoIsRead, MomentIInv, LoadIsALook
<1>4. QED
  BY <1>2, <1>3

LEMMA ReadErrorIInv ==
    ASSUME IInv, Quiet, ReadError
    PROVE  IInv'
<1>1. CASE mode = "source" /\ reading = "text" /\ ~needBase
  <2>1. pc' = "lookup" /\ reading' = "undo" /\ UNCHANGED <<file, probe, got>>
    BY <1>1 DEF ReadError
  <2>2. QED
    BY <1>1, <2>1, QuietDisk
       DEF IInv, OpenIInv, ControlIInv, GotIInv, UndoIsRead, MomentIInv, LoadIsALook
<1>2. QED
  BY <1>1, FailIInv DEF ReadError

LEMMA OpenFileIInv ==
    ASSUME IInv, Open
    PROVE  IInv'
<1>1. Quiet /\ pc = "open"
  BY DEF Open, At, Quiet
<1>2. CASE Stat(reading) = None
  BY <1>1, <1>2, ReadErrorIInv DEF Open
<1>3. CASE Stat(reading) # None
  <2>1. /\ pc' = "before" /\ UNCHANGED <<reading, probe, got>>
        /\ file' = [inode |-> Stat(reading).inode, before |-> None, blocks |-> << >>]
    BY <1>3 DEF Open
  <2>2. PathOf(reading) \in Path /\ names[PathOf(reading)] # None
    BY <1>3 DEF Stat, PathOf, Path, IInv, DiskIInv, ControlIInv
  <2>3. Stat(reading).inode = names[PathOf(reading)] /\ names[PathOf(reading)] \in Inode
    BY <2>2 DEF Stat, Identity, IInv, DiskIInv
  <2>4. file' \in [inode : Inode, before : IdentityType \cup {None}, blocks : Seq(Block)]
    BY <2>1, <2>3
  <2>5. ASSUME reading = "text", NEW t \in Target, names[<<"text", t>>] = file'.inode
        PROVE  t \in {link, target}
    <3>1. <<"text", t>> \in Path /\ PathOf(reading) = <<"text", link>>
      BY <2>5 DEF PathOf, Path
    <3>2. <<"text", t>> = <<"text", link>>
      BY <2>1, <2>2, <2>3, <2>5, <3>1 DEF IInv, DiskIInv
    <3>3. QED
      BY <3>2
  <2>6. OpenIInv'
    BY <1>1, <2>1, <2>4, <2>5, QuietDisk DEF OpenIInv, Inode
  <2>7. QED
    BY <1>1, <2>1, <2>6, QuietDisk
       DEF IInv, ControlIInv, GotIInv, UndoIsRead, MomentIInv, LoadIsALook
<1>4. QED
  BY <1>2, <1>3

LEMMA StatBeforeIInv ==
    ASSUME IInv, StatBefore
    PROVE  IInv'
<1> DEFINE now == Identity(file.inode)
<1>1. Quiet /\ pc = "before"
  BY DEF StatBefore, At, Quiet
<1>2. CASE ~AsLookedUp(now)
  BY <1>1, <1>2, FailIInv DEF StatBefore
<1>3. CASE AsLookedUp(now) /\ now.size > MaxBlocks
  BY <1>1, <1>3, ReadErrorIInv DEF StatBefore
<1>4. CASE AsLookedUp(now) /\ ~(now.size > MaxBlocks)
  <2>1. /\ pc' = "read" /\ UNCHANGED <<reading, probe, got>>
        /\ file' = [file EXCEPT !.before = now]
    BY <1>4 DEF StatBefore
  <2>2. /\ file \in [inode : Inode, before : IdentityType \cup {None}, blocks : Seq(Block)]
        /\ reading = "text" =>
              \A t \in Target : names[<<"text", t>>] = file.inode => t \in {link, target}
        /\ now \in IdentityType /\ now.inode = file.inode /\ now.stamp = disk[file.inode].stamp
    BY <1>1, DiskTypes DEF IInv, OpenIInv, Identity
  <2>3. /\ file' \in [inode : Inode, before : IdentityType \cup {None}, blocks : Seq(Block)]
        /\ file'.inode = file.inode /\ file'.before = now
    BY <2>1, <2>2
  <2>4. file'.blocks = << >> /\ Len(file'.blocks) = 0
    BY <1>1, <2>1, <2>2 DEF IInv, OpenIInv
  <2>5. Identity(file.inode)' = now /\ now.stamp \in Nat /\ Len(disk[file.inode].blocks) \in Nat
    BY <1>1, <2>2, <2>3, QuietDisk, DiskTypes DEF Identity, IInv
  <2>6. OpenIInv'
    <3>1. disk' = disk /\ names' = names /\ link' = link /\ target' = target /\ Inode' = Inode
      BY <1>1, QuietDisk DEF Inode
    <3>2. file'.before.stamp <= disk'[file'.inode].stamp
      BY <2>2, <2>3, <2>5, <3>1
    <3>3. Len(file'.blocks) <= Len(disk'[file'.inode].blocks)
      BY <2>3, <2>4, <2>5, <3>1
    <3>4. QED
      BY <2>1, <2>2, <2>3, <2>4, <3>1, <3>2, <3>3 DEF OpenIInv
  <2>7. QED
    BY <1>1, <2>1, <2>6, QuietDisk
       DEF IInv, ControlIInv, GotIInv, UndoIsRead, MomentIInv, LoadIsALook
<1>5. QED
  BY <1>2, <1>3, <1>4

LEMMA ReadBlockIInv ==
    ASSUME IInv, ReadBlock
    PROVE  IInv'
<1> DEFINE stored == disk[file.inode].blocks
           next == Len(file.blocks) + 1
<1>1. Quiet /\ pc = "read" /\ UNCHANGED <<pc, reading, probe, got>>
  BY DEF ReadBlock, At, Quiet
<1>2. file' = [file EXCEPT !.blocks = Append(@, stored[next])]
  BY DEF ReadBlock
<1>3. /\ file \in [inode : Inode, before : IdentityType \cup {None}, blocks : Seq(Block)]
      /\ stored \in Seq(Block)
      /\ Len(file.blocks) < Len(stored)
  BY <1>1, DiskTypes DEF IInv, OpenIInv, ReadBlock, HasMore
<1>4. /\ Len(file.blocks) \in Nat /\ Len(stored) \in Nat /\ stored[next] \in Block
  BY <1>3
<1>5. /\ file'.inode = file.inode /\ file'.before = file.before
      /\ file'.blocks = Append(file.blocks, stored[next])
      /\ file' \in [inode : Inode, before : IdentityType \cup {None}, blocks : Seq(Block)]
  <2>1. Append(file.blocks, stored[next]) \in Seq(Block)
    BY <1>3, <1>4
  <2> HIDE DEF stored, next
  <2>2. QED
    BY <1>2, <1>3, <2>1
<1>6. /\ Len(file'.blocks) = next
      /\ \A k \in 1..Len(file.blocks) : file'.blocks[k] = file.blocks[k]
      /\ file'.blocks[next] = stored[next]
  BY <1>3, <1>4, <1>5
<1>7. disk' = disk /\ names' = names /\ link' = link /\ target' = target /\ Inode' = Inode
  BY <1>1, QuietDisk DEF Inode
<1>8. Identity(file.inode)' = Identity(file.inode)
  BY <1>5, <1>7 DEF Identity
<1>9. ASSUME Identity(file.inode) = file.before
      PROVE  Len(file'.blocks) <= Len(stored) /\ \A k \in 1..Len(file'.blocks) : file'.blocks[k] = stored[k]
  <2>1. \A k \in 1..Len(file.blocks) : file.blocks[k] = stored[k]
    BY <1>1, <1>9 DEF IInv, OpenIInv
  <2>2. QED
    BY <1>3, <1>4, <1>6, <2>1
<1>10. OpenIInv'
  BY <1>1, <1>5, <1>7, <1>8, <1>9 DEF IInv, OpenIInv
<1>11. QED
  BY <1>1, <1>10, QuietDisk
     DEF IInv, ControlIInv, GotIInv, UndoIsRead, MomentIInv, LoadIsALook

LEMMA ReadEndIInv ==
    ASSUME IInv, ReadEnd
    PROVE  IInv'
<1>1. Quiet /\ pc = "read" /\ ~HasMore
  BY DEF ReadEnd, At, Quiet
<1>2. CASE reading = "undo" /\ file.blocks = << >>
  BY <1>1, <1>2, FailIInv DEF ReadEnd
<1>3. CASE ~(reading = "undo" /\ file.blocks = << >>)
  <2>1. pc' = "after" /\ UNCHANGED <<reading, file, probe, got>>
    BY <1>3 DEF ReadEnd
  <2>2. /\ file.inode \in Inode /\ file.blocks \in Seq(Block) /\ disk[file.inode].blocks \in Seq(Block)
        /\ file.before \in IdentityType /\ file.before.inode = file.inode
        /\ file.before.stamp <= disk[file.inode].stamp
    BY <1>1, DiskTypes DEF IInv, OpenIInv
  <2>3. ASSUME Identity(file.inode) = file.before PROVE disk[file.inode].blocks = file.blocks
    <3>1. file.before.size = Len(disk[file.inode].blocks)
      BY <2>3 DEF Identity
    <3>2. /\ Len(file.blocks) <= Len(disk[file.inode].blocks)
          /\ \A k \in 1..Len(file.blocks) : file.blocks[k] = disk[file.inode].blocks[k]
      BY <1>1, <2>3 DEF IInv, OpenIInv
    <3>3. Len(file.blocks) = Len(disk[file.inode].blocks)
      BY <1>1, <2>2, <3>1, <3>2 DEF HasMore
    <3>4. QED
      BY <2>2, <3>2, <3>3, SeqEqual
  <2>4. Kept(file.before, file.blocks)
    BY <2>2, <2>3 DEF Kept
  <2>5. OpenIInv'
    BY <1>1, <2>1, <2>4, QuietDisk DEF IInv, OpenIInv, Inode
  <2>6. QED
    BY <1>1, <2>1, <2>5, QuietDisk
       DEF IInv, ControlIInv, GotIInv, UndoIsRead, MomentIInv, LoadIsALook
<1>4. QED
  BY <1>2, <1>3

(* While the file is the one that was opened, what was read is what it has, *)
(* so if its path leads to it still, this is the moment.                    *)
LEMMA StatAfterIInv ==
    ASSUME IInv, StatAfter
    PROVE  IInv'
<1>1. Quiet /\ pc = "after"
  BY DEF StatAfter, At, Quiet
<1>2. CASE ~Undisturbed(Identity(file.inode))
  BY <1>1, <1>2, FailIInv DEF StatAfter
<1>3. CASE Undisturbed(Identity(file.inode))
  <2>1. pc' = "named" /\ UNCHANGED <<reading, file, probe, got>>
    BY <1>3 DEF StatAfter
  <2>2. file.inode \in Inode /\ disk[file.inode].blocks = file.blocks
    BY <1>1, <1>3 DEF IInv, OpenIInv, Undisturbed, Kept
  <2>3. Look \in moments /\ None \notin Inode
    BY LoadAssumption DEF IInv, DiskIInv, Inode
  <2>4. names[PathOf("undo")] = file.inode => Look.undo = file.blocks
    BY <2>2, <2>3 DEF Look, Contents
  <2>5. names[PathOf("text")] = file.inode => Look.text = file.blocks
    BY <2>2, <2>3 DEF Look, Contents
  <2>6. ASSUME UndoIsRead, Stat("undo") = got.undo.identity PROVE Look.undo = got.undo.blocks
    BY <2>6, LoadAssumption DEF IInv, GotIInv, Kept, Stat, Identity, IdentityType, Look, Contents
  <2>7. OpenIInv'
    BY <1>1, <2>1, QuietDisk DEF IInv, OpenIInv, Inode
  <2>8. MomentIInv'
    BY <1>1, <2>1, <2>3, <2>4, <2>5, <2>6, QuietDisk
       DEF IInv, MomentIInv, LoadIsALook, UndoIsRead, LookOf
  <2>9. QED
    BY <1>1, <2>1, <2>7, <2>8, QuietDisk DEF IInv, ControlIInv, GotIInv, UndoIsRead
<1>4. QED
  BY <1>2, <1>3

LEMMA StatNameIInv ==
    ASSUME IInv, StatName
    PROVE  IInv'
<1> DEFINE version == [blocks |-> file.blocks, identity |-> file.before]
           quits == Stat(reading) = None \/ Stat(reading).inode # file.inode
           refused == reading = "text" /\ file.blocks \in Unsupported
           unknown == reading = "undo" /\ mode = "explicit" /\ ~Known(file.blocks)
<1>1. Quiet /\ pc = "named"
  BY DEF StatName, At, Quiet
<1>2. CASE quits
  BY <1>1, <1>2, FailIInv DEF StatName
<1>3. CASE ~quits /\ refused
  BY <1>1, <1>3, ReadErrorIInv DEF StatName
<1>4. CASE ~quits /\ ~refused /\ unknown
  BY <1>1, <1>4, FailIInv DEF StatName
<1>5. CASE ~quits /\ ~refused /\ ~unknown
  <2>1. AfterRead /\ got' = [got EXCEPT ![reading] = version] /\ UNCHANGED <<file, probe>>
    BY <1>5 DEF StatName
  <2>2. names[PathOf(reading)] = file.inode
    BY <1>5 DEF Stat, Identity
  <2>3. /\ reading \in {"undo", "text"} /\ mode \in {"explicit", "source"}
        /\ got = [undo |-> got.undo, text |-> got.text]
        /\ mode = "explicit" /\ reading = "undo" => got.text = None
        /\ Kept(file.before, file.blocks)
    BY <1>1 DEF IInv, ControlIInv, OpenIInv
  <2>4. got' = IF reading = "undo" THEN [undo |-> version, text |-> got.text]
                                   ELSE [undo |-> got.undo, text |-> version]
    <3> DEFINE u == got.undo
               t == got.text
    <3>1. got = [undo |-> u, text |-> t]
      BY <2>3
    <3>2. got' = [got EXCEPT ![reading] = version] /\ reading \in {"undo", "text"}
      BY <2>1, <2>3
    <3> HIDE DEF u, t, version
    <3>3. reading = "undo" => got' = [undo |-> version, text |-> t]
      BY <3>1, <3>2
    <3>4. reading = "text" => got' = [undo |-> u, text |-> version]
      BY <3>1, <3>2
    <3>5. QED
      BY <3>2, <3>3, <3>4 DEF u, t
  <2> HIDE DEF quits, refused, unknown
  <2>5. CASE reading = "undo" /\ mode = "explicit" /\ ~needBase
    <3>1. pc' = "loaded" /\ reading' = reading
      BY <2>1, <2>5 DEF AfterRead
    <3>2. \E m \in moments : m.undo = file.blocks
      BY <1>1, <2>2, <2>5 DEF IInv, MomentIInv
    <3>3. LoadIsALook'
      BY <1>1, <2>3, <2>4, <2>5, <3>2, QuietDisk DEF LoadIsALook
    <3>4. QED
      BY <1>1, <2>3, <2>4, <2>5, <3>1, <3>3, QuietDisk
         DEF IInv, OpenIInv, ControlIInv, GotIInv, UndoIsRead, MomentIInv
  <2>6. CASE reading = "undo" /\ mode = "explicit" /\ needBase
    <3>1. pc' = "open" /\ reading' = "text"
      BY <2>1, <2>6 DEF AfterRead
    <3>2. GotIInv'
      BY <1>1, <2>3, <2>4, <2>6, QuietDisk DEF GotIInv
    <3>3. QED
      BY <1>1, <2>3, <2>4, <2>6, <3>1, <3>2, QuietDisk
         DEF IInv, OpenIInv, ControlIInv, MomentIInv, LoadIsALook
  <2>7. CASE reading = "text" /\ mode = "source"
    <3>1. pc' = "lookup" /\ reading' = "undo"
      BY <2>1, <2>7 DEF AfterRead
    <3>2. GotIInv'
      BY <1>1, <2>3, <2>4, <2>7, <3>1, QuietDisk DEF GotIInv, UndoIsRead
    <3>3. QED
      BY <1>1, <2>3, <2>4, <2>7, <3>1, <3>2, QuietDisk
         DEF IInv, OpenIInv, ControlIInv, MomentIInv, LoadIsALook
  <2>8. CASE reading = "text" /\ mode = "explicit"
    <3>1. pc' = "verify" /\ reading' = reading
      BY <2>1, <2>8 DEF AfterRead
    <3>2. GotIInv'
      BY <1>1, <2>3, <2>4, <2>8, QuietDisk DEF IInv, GotIInv, UndoIsRead
    <3>3. Stat("undo") = got.undo.identity => LookOf(got.undo.blocks, file.blocks)
      BY <1>1, <2>2, <2>8 DEF IInv, MomentIInv
    <3>4. MomentIInv'
      BY <1>1, <2>4, <2>8, <3>1, <3>3, QuietDisk DEF MomentIInv, LoadIsALook, LookOf
    <3>5. QED
      BY <1>1, <2>3, <2>4, <2>8, <3>1, <3>2, <3>4, QuietDisk DEF IInv, OpenIInv, ControlIInv
  <2>9. CASE reading = "undo" /\ mode = "source"
    <3>1. pc' = "verify" /\ reading' = reading
      BY <2>1, <2>9 DEF AfterRead
    <3>2. GotIInv'
      BY <1>1, <2>3, <2>4, <2>9, QuietDisk DEF IInv, GotIInv
    <3>3. QED
      BY <1>1, <2>3, <2>4, <2>9, <3>1, <3>2, QuietDisk
         DEF IInv, OpenIInv, ControlIInv, MomentIInv, LoadIsALook
  <2>10. QED
    BY <2>3, <2>5, <2>6, <2>7, <2>8, <2>9
<1>6. QED
  BY <1>2, <1>3, <1>4, <1>5

LEMMA VerifyIInv ==
    ASSUME IInv, Verify
    PROVE  IInv'
<1>1. Quiet /\ pc = "verify"
  BY DEF Verify, At, Quiet
<1>2. CASE needBase /\ ~Verified
  BY <1>1, <1>2, FailIInv DEF Verify
<1>3. CASE ~(needBase /\ ~Verified)
  <2>1. pc' = "recheck" /\ UNCHANGED <<reading, file, probe, got>>
    BY <1>3 DEF Verify
  <2>2. QED
    BY <1>1, <2>1, QuietDisk
       DEF IInv, OpenIInv, ControlIInv, GotIInv, UndoIsRead, MomentIInv, LoadIsALook, LookOf
<1>4. QED
  BY <1>2, <1>3

(* The moment of a load by source is this one, if the text and the link     *)
(* are what they were when they are looked at again.                        *)
LEMMA RecheckUndoIInv ==
    ASSUME IInv, RecheckUndo
    PROVE  IInv'
<1>1. Quiet /\ pc = "recheck"
  BY DEF RecheckUndo, At, Quiet
<1>2. CASE Stat("undo") # got.undo.identity
  BY <1>1, <1>2, FailIInv DEF RecheckUndo, Passes
<1>3. CASE Stat("undo") = got.undo.identity
  <2>1. UNCHANGED <<reading, file, probe, got>>
        /\ pc' = IF mode = "source" THEN "source" ELSE "loaded"
    BY <1>3 DEF RecheckUndo, Passes
  <2>2. CASE mode = "explicit"
    <3>1. LookOf(got.undo.blocks, got.text.blocks)
      BY <1>1, <1>3, <2>2 DEF IInv, MomentIInv
    <3>2. LoadIsALook'
      BY <1>1, <2>1, <2>2, <3>1, QuietDisk DEF LoadIsALook, LookOf
    <3>3. QED
      BY <1>1, <2>1, <2>2, <3>2, QuietDisk
         DEF IInv, OpenIInv, ControlIInv, GotIInv, UndoIsRead, MomentIInv
  <2>3. CASE mode = "source"
    <3>1. Look \in moments /\ Kept(got.undo.identity, got.undo.blocks)
      BY <1>1 DEF IInv, DiskIInv, GotIInv, UndoIsRead
    <3>2. Look.undo = got.undo.blocks
      BY <1>3, <3>1, LoadAssumption DEF Kept, Stat, Identity, IdentityType, Look, Contents
    <3>3. ASSUME got.text # None, Stat("text") = got.text.identity PROVE Look.text = got.text.blocks
      <4>1. Kept(got.text.identity, got.text.blocks)
        BY <3>3 DEF IInv, GotIInv
      <4>2. QED
        BY <3>3, <4>1, LoadAssumption DEF Kept, Stat, Identity, IdentityType, Look, Contents
    <3>4. link = target /\ (got.text # None => Stat("text") = got.text.identity) => SourceLook
      BY <3>1, <3>2, <3>3 DEF SourceLook, Look
    <3>5. MomentIInv'
      BY <1>1, <2>1, <2>3, <3>4, QuietDisk DEF MomentIInv, LoadIsALook, SourceLook
    <3>6. QED
      BY <1>1, <2>1, <2>3, <3>5, QuietDisk DEF IInv, OpenIInv, ControlIInv, GotIInv, UndoIsRead
  <2>4. QED
    BY <2>2, <2>3 DEF IInv, ControlIInv
<1>4. QED
  BY <1>2, <1>3

LEMMA RecheckSourceIInv ==
    ASSUME IInv, RecheckSource
    PROVE  IInv'
<1> DEFINE same == got.text # None => Stat("text") = got.text.identity
<1>1. Quiet /\ pc = "source"
  BY DEF RecheckSource, At, Quiet
<1>2. CASE ~same
  BY <1>1, <1>2, FailIInv DEF RecheckSource, Passes
<1>3. CASE same
  <2>1. pc' = "resolve" /\ UNCHANGED <<reading, file, probe, got>>
    BY <1>3 DEF RecheckSource, Passes
  <2>2. link = target => SourceLook
    BY <1>1, <1>3 DEF IInv, MomentIInv
  <2>3. QED
    BY <1>1, <2>1, <2>2, QuietDisk
       DEF IInv, OpenIInv, ControlIInv, GotIInv, UndoIsRead, MomentIInv, LoadIsALook, SourceLook
<1>4. QED
  BY <1>2, <1>3

LEMMA ResolveAgainIInv ==
    ASSUME IInv, ResolveAgain
    PROVE  IInv'
<1> DEFINE same == link = target /\ Known(got.undo.blocks)
<1>1. Quiet /\ pc = "resolve"
  BY DEF ResolveAgain, At, Quiet
<1>2. CASE ~same
  BY <1>1, <1>2, FailIInv DEF ResolveAgain, Passes
<1>3. CASE same
  <2>1. pc' = "loaded" /\ UNCHANGED <<reading, file, probe, got>>
    BY <1>3 DEF ResolveAgain, Passes
  <2>2. SourceLook
    BY <1>1, <1>3 DEF IInv, MomentIInv
  <2>3. LoadIsALook'
    BY <1>1, <2>1, <2>2, QuietDisk DEF LoadIsALook, SourceLook
  <2>4. QED
    BY <1>1, <2>1, <2>3, QuietDisk
       DEF IInv, OpenIInv, ControlIInv, GotIInv, UndoIsRead, MomentIInv
<1>4. QED
  BY <1>2, <1>3

LEMMA NextIInv == IInv /\ [Next]_vars => IInv'
<1> SUFFICES ASSUME IInv, [Next]_vars PROVE IInv'
  OBVIOUS
<1>1. CASE Step
  <2>1. CASE GiveUp
    BY <2>1, FailIInv DEF GiveUp, At, Quiet
  <2>2. QED
    BY <1>1, <2>1, LookUpIInv, OpenFileIInv, StatBeforeIInv, ReadBlockIInv, ReadEndIInv, StatAfterIInv,
       StatNameIInv, VerifyIInv, RecheckUndoIInv, RecheckSourceIInv, ResolveAgainIInv DEF Step
<1>2. CASE Edit
  BY <1>2, EditIInv
<1>3. CASE UNCHANGED vars
  <2>1. Quiet /\ UNCHANGED <<pc, reading, file, probe, got>>
    BY <1>3 DEF vars, Quiet
  <2>2. ControlIInv' /\ GotIInv'
    BY <2>1, QuietDisk DEF IInv, ControlIInv, GotIInv, UndoIsRead
  <2>a. OpenIInv'
    <3>1. UNCHANGED <<pc, reading, file, disk, names, link, target>> /\ OpenIInv
      BY <2>1, QuietDisk DEF IInv
    <3>2. QED
      BY <3>1 DEF OpenIInv, Kept, Identity, Inode
  <2>3. MomentIInv'
    BY <2>1, QuietDisk DEF IInv, MomentIInv, LoadIsALook, SourceLook, LookOf
  <2>4. QED
    BY <2>1, <2>2, <2>a, <2>3, QuietDisk DEF IInv
<1>4. QED
  BY <1>1, <1>2, <1>3 DEF Next, Finished

------------------------------------------------------------------------------
(* How it begins.                                                           *)

LEMMA Enumerates ==
    ASSUME NEW S, IsFiniteSet(S)
    PROVE  /\ SetToSeq(S) \in [1..Cardinality(S) -> S]
           /\ Cardinality(S) \in Nat
           /\ \A x \in S : \E i \in 1..Cardinality(S) : SetToSeq(S)[i] = x
           /\ Len(SetToSeq(S)) = Cardinality(S)
<1> DEFINE n == Cardinality(S)
<1>1. n \in Nat /\ ExistsBijection(1..n, S)
  BY FS_CardinalityType
<1>2. PICK f \in Bijection(1..n, S) : TRUE
  BY <1>1 DEF ExistsBijection
<1>3. f \in [1..n -> S] /\ IsInjective(f)
  BY <1>2 DEF Bijection, Injection
<1>4. SetToSeq(S) \in [1..n -> S] /\ IsInjective(SetToSeq(S))
  BY <1>3 DEF SetToSeq
<1>5. SetToSeq(S) \in Injection(1..n, S)
  BY <1>4 DEF Injection
<1>6. IsFiniteSet(1..n) /\ Cardinality(1..n) = n
  BY <1>1, FS_Interval
<1>7. SetToSeq(S) \in Surjection(1..n, S)
  BY <1>5, <1>6, FS_Injection
<1>8. SetToSeq(S) \in Seq(S) /\ Len(SetToSeq(S)) = n
  BY <1>1, <1>4
<1>9. QED
  BY <1>1, <1>4, <1>7, <1>8 DEF Surjection

LEMMA InitIInv == Init => IInv
<1> SUFFICES ASSUME Init PROVE IInv
  OBVIOUS
<1>1. PICK c \in [Path -> Starts \cup {None}] :
        LET ps == SetToSeq({p \in Path : c[p] # None})
        IN /\ disk = [i \in 1..Len(ps) |-> [blocks |-> c[ps[i]], stamp |-> 0]]
           /\ names = [p \in Path |-> IF c[p] = None THEN None
                                      ELSE CHOOSE i \in 1..Len(ps) : ps[i] = p]
  BY DEF Init, Files
<1> DEFINE S == {p \in Path : c[p] # None}
           ps == SetToSeq(S)
           n == Cardinality(S)
<1>2. IsFiniteSet(S)
  <2>1. IsFiniteSet({"undo", "text"})
    <3>1. IsFiniteSet(({} \cup {"undo"}) \cup {"text"})
      BY FS_EmptySet, FS_AddElement
    <3>2. ({} \cup {"undo"}) \cup {"text"} = {"undo", "text"}
      OBVIOUS
    <3>3. QED
      BY <3>1, <3>2
  <2>2. IsFiniteSet(Path)
    BY <2>1, FS_Product, LoadAssumption DEF Path
  <2>3. QED
    BY <2>2, FS_Subset
<1>3. /\ ps \in [1..n -> S] /\ n \in Nat /\ Len(ps) = n
      /\ \A x \in S : \E i \in 1..n : ps[i] = x
  BY <1>2, Enumerates
<1>4. /\ disk = [i \in 1..n |-> [blocks |-> c[ps[i]], stamp |-> 0]]
      /\ names = [p \in Path |-> IF c[p] = None THEN None ELSE CHOOSE i \in 1..n : ps[i] = p]
  <2>1. /\ disk = [i \in 1..Len(ps) |-> [blocks |-> c[ps[i]], stamp |-> 0]]
        /\ names = [p \in Path |-> IF c[p] = None THEN None ELSE CHOOSE i \in 1..Len(ps) : ps[i] = p]
    BY <1>1
  <2> HIDE DEF ps, n
  <2>2. QED
    BY <1>3, <2>1
<1> HIDE DEF ps, n
<1>5. disk \in Seq(StoredFile) /\ Len(disk) = n
  <2>1. ASSUME NEW i \in 1..n PROVE [blocks |-> c[ps[i]], stamp |-> 0] \in StoredFile
    <3>1. c[ps[i]] \in Starts
      BY <1>3
    <3>2. QED
      BY <3>1, LoadAssumption DEF StoredFile
  <2>2. disk \in [1..n -> StoredFile]
    BY <1>4, <2>1
  <2>3. QED
    BY <1>3, <2>2
<1>6. \A p \in Path : (names[p] = None /\ c[p] = None) \/ (names[p] \in 1..n /\ ps[names[p]] = p)
  <2> SUFFICES ASSUME NEW p \in Path, c[p] # None PROVE names[p] \in 1..n /\ ps[names[p]] = p
    BY <1>4
  <2>1. names[p] = CHOOSE i \in 1..n : ps[i] = p
    BY <1>4
  <2>2. \E i \in 1..n : ps[i] = p
    BY <1>3
  <2>3. QED
    BY <2>1, <2>2
<1>7. names \in [Path -> Inode \cup {None}]
  BY <1>4, <1>5, <1>6 DEF Inode
<1>8. \A p, q \in Path : names[p] # None /\ names[p] = names[q] => p = q
  BY <1>6
<1>9. DiskIInv
  BY <1>5, <1>7, <1>8 DEF DiskIInv, Init, Files, LoadInit
<1>10. QED
  BY <1>9 DEF Init, LoadInit, IInv, OpenIInv, ControlIInv, GotIInv, UndoIsRead, MomentIInv, LoadIsALook

(* A load that succeeds saw its inputs together in one moment (load.go,     *)
(* input.go), although blocks, files and the link were read one after the   *)
(* other, however often and wherever they were changed between the reads.   *)
THEOREM OneMoment == Spec => []LoadIsALook
<1>1. IInv => LoadIsALook
  BY DEF IInv, MomentIInv
<1>2. QED
  BY <1>1, InitIInv, NextIInv, PTL DEF Spec

-----------------------------------------------------------------------------
(* Splitting a text at a separator.                                         *)

Lines(X) == Seq(Seq(X)) \ {<<>>}

\* What one more character makes of the parts.
Grown(parts, c, separator) ==
    IF c = separator THEN Append(parts, <<>>)
    ELSE Append(Front(parts), Append(Last(parts), c))

Splits(g, t, separator, X) ==
    /\ g \in [0..Len(t) -> Lines(X)]
    /\ g[0] = <<<<>>>>
    /\ \A n \in 1..Len(t) : g[n] = Grown(g[n-1], t[n], separator)

LEMMA LinesFacts ==
    ASSUME NEW X, NEW ls \in Lines(X)
    PROVE  /\ ls \in Seq(Seq(X)) /\ ls # <<>>
           /\ Front(ls) \in Seq(Seq(X)) /\ Last(ls) \in Seq(X)
           /\ ls = Append(Front(ls), Last(ls))
<1> DEFINE Q == Seq(X)
<1>1. ls \in Seq(Q) /\ ls # <<>>
  BY DEF Lines
<1>2. PICK s \in Seq(Q), e \in Q : ls = Append(s, e)
  BY <1>1, SequenceEmptyOrAppend
<1>3. Len(ls) = Len(s) + 1 /\ Len(s) \in Nat /\ ls[Len(s) + 1] = e /\ \A i \in 1..Len(s) : ls[i] = s[i]
  BY <1>2, AppendProperties, LenProperties
<1>4. Last(ls) = e
  BY <1>3 DEF Last
<1>5. Front(ls) = s
  <2>1. Len(ls) - 1 = Len(s) /\ Len(s) + 0 <= Len(ls)
    BY <1>3
  <2>2. SubSeq(ls, 0 + 1, 0 + Len(s)) = s
    <3>1. \A x \in 1..Len(s) : ls[0 + x] = s[x]
      BY <1>3
    <3>2. 0 + Len(s) <= Len(ls) /\ 0 \in Nat /\ Len(s) \in Nat
      BY <1>3
    <3>3. QED
      BY <1>1, <1>2, <3>1, <3>2, PartIs
  <2>3. 0 + 1 = 1 /\ 0 + Len(s) = Len(s)
    BY <1>3
  <2>4. QED
    BY <2>1, <2>2, <2>3 DEF Front
<1>6. QED
  BY <1>1, <1>2, <1>4, <1>5

LEMMA AppendLines ==
    ASSUME NEW X, NEW s \in Seq(Seq(X)), NEW e \in Seq(X)
    PROVE  Append(s, e) \in Lines(X) /\ Front(Append(s, e)) = s /\ Last(Append(s, e)) = e
<1> DEFINE Q == Seq(X)
           ls == Append(s, e)
<1>1. ls \in Seq(Q) /\ ls # <<>>
  BY AppendProperties
<1>2. ls \in Lines(X)
  BY <1>1 DEF Lines
<1>3. Append(Front(ls), Last(ls)) = Append(s, e) /\ Front(ls) \in Seq(Q) /\ Last(ls) \in Q
  <2> HIDE DEF ls
  <2>1. ls = Append(Front(ls), Last(ls)) /\ Front(ls) \in Seq(Q) /\ Last(ls) \in Q
    BY <1>2, LinesFacts
  <2>2. QED
    BY <2>1 DEF ls
<1>4. Front(ls) = s /\ Last(ls) = e
  <2> HIDE DEF ls
  <2>1. QED
    BY <1>3, AppendInjective
<1>5. QED
  BY <1>2, <1>4

LEMMA GrownType ==
    ASSUME NEW X, NEW ls \in Lines(X), NEW c \in X, NEW separator
    PROVE  Grown(ls, c, separator) \in Lines(X)
<1>1. /\ ls \in Seq(Seq(X)) /\ Front(ls) \in Seq(Seq(X)) /\ Last(ls) \in Seq(X)
  BY LinesFacts
<1>2. Append(Last(ls), c) \in Seq(X) /\ <<>> \in Seq(X)
  BY <1>1, AppendProperties, EmptySeq
<1>3. Append(ls, <<>>) \in Lines(X) /\ Append(Front(ls), Append(Last(ls), c)) \in Lines(X)
  BY <1>1, <1>2, AppendLines
<1>4. QED
  BY <1>3 DEF Grown

\* PartsOf is what any such function says.
LEMMA PartsAre ==
    ASSUME NEW X, NEW t \in Seq(X), NEW separator, NEW g, Splits(g, t, separator, X)
    PROVE  PartsOf(t, separator) = g[Len(t)]
<1>0. PICK n \in Nat : n = Len(t)
  BY LenProperties
<1> DEFINE Is(h) == h = [k \in 0..n |-> IF k = 0 THEN <<<<>>>>
                                        ELSE IF t[k] = separator THEN Append(h[k-1], <<>>)
                                        ELSE Append(Front(h[k-1]), Append(Last(h[k-1]), t[k]))]
           f == [k \in 0..n |-> g[k]]
           h == CHOOSE x : Is(x)
<1>1. g[0] = <<<<>>>> /\ \A k \in 1..n : g[k] = Grown(g[k-1], t[k], separator)
  BY <1>0 DEF Splits
<1>2. ASSUME NEW k \in 0..n
      PROVE  f[k] = IF k = 0 THEN <<<<>>>>
                    ELSE IF t[k] = separator THEN Append(f[k-1], <<>>)
                    ELSE Append(Front(f[k-1]), Append(Last(f[k-1]), t[k]))
  <2>1. CASE k = 0
    BY <1>1, <2>1
  <2>2. CASE k # 0
    <3>1. k \in 1..n /\ k - 1 \in 0..n
      BY <2>2
    <3>2. f[k] = g[k] /\ f[k-1] = g[k-1]
      BY <3>1
    <3>3. g[k] = Grown(g[k-1], t[k], separator)
      BY <1>1, <3>1
    <3> HIDE DEF f
    <3>4. QED
      BY <2>2, <3>2, <3>3 DEF Grown
  <2>3. QED
    BY <2>1, <2>2
<1>3. f = [k \in 0..n |-> f[k]] /\ \A k \in 0..n : f[k] = g[k]
  OBVIOUS
<1> HIDE DEF f
<1>4. Is(f)
  BY <1>2, <1>3
<1>5. Is(h)
  <2> HIDE DEF Is
  <2>1. QED
    BY <1>4
<1>6. PartsOf(t, separator) = h[n]
  BY <1>0 DEF PartsOf
<1> HIDE DEF h
<1>7. \A k \in 0..n : h[k] = IF k = 0 THEN <<<<>>>>
                             ELSE IF t[k] = separator THEN Append(h[k-1], <<>>)
                             ELSE Append(Front(h[k-1]), Append(Last(h[k-1]), t[k]))
  BY <1>5
<1> DEFINE T == {k \in Nat : k \in 0..n => h[k] = f[k]}
<1>8. 0 \in T
  BY <1>2, <1>7
<1>9. ASSUME NEW k \in Nat, k \in T PROVE k + 1 \in T
  <2> SUFFICES ASSUME k + 1 \in 0..n PROVE h[k+1] = f[k+1]
    OBVIOUS
  <2>1. (k + 1) - 1 = k /\ k + 1 # 0 /\ k \in 0..n
    OBVIOUS
  <2>2. h[k] = f[k]
    BY <1>9, <2>1
  <2>3. h[k+1] = IF t[k+1] = separator THEN Append(h[k], <<>>)
                 ELSE Append(Front(h[k]), Append(Last(h[k]), t[k+1]))
    BY <1>7, <2>1
  <2>4. f[k+1] = IF t[k+1] = separator THEN Append(f[k], <<>>)
                 ELSE Append(Front(f[k]), Append(Last(f[k]), t[k+1]))
    BY <1>2, <2>1
  <2>5. QED
    BY <2>2, <2>3, <2>4
<1>10. Nat \subseteq T
  <2> HIDE DEF T
  <2>1. QED
    BY <1>8, <1>9, SetInduction
<1>11. h[n] = f[n] /\ f[n] = g[n]
  <2>1. n \in 0..n
    OBVIOUS
  <2>2. QED
    BY <1>3, <1>10, <2>1
<1>12. QED
  BY <1>0, <1>6, <1>11

LEMMA PartsRun == ASSUME NEW X, NEW t \in Seq(X), NEW separator PROVE \E g : Splits(g, t, separator, X)
<1>0. PICK n \in Nat : n = Len(t)
  BY LenProperties
<1> DEFINE F == [p \in (1..n) \X Lines(X) |-> Grown(p[2], t[p[1]], separator)]
<1>1. F \in [(1..n) \X Lines(X) -> Lines(X)]
  <2>1. ASSUME NEW p \in (1..n) \X Lines(X) PROVE Grown(p[2], t[p[1]], separator) \in Lines(X)
    <3>1. p[2] \in Lines(X) /\ t[p[1]] \in X
      BY <1>0, ElementOfSeq
    <3>2. QED
      BY <3>1, GrownType
  <2>2. QED
    BY <2>1
<1>2. \A k \in 1..n, ls \in Lines(X) : F[<<k, ls>>] = Grown(ls, t[k], separator)
  OBVIOUS
<1>3. <<<<>>>> \in Lines(X)
  <2>1. <<>> \in Seq(X)
    BY EmptySeq
  <2>2. QED
    BY <2>1 DEF Lines
<1> HIDE DEF F
<1>4. PICK g \in [0..n -> Lines(X)] : IsRecursiveTo(n, g, <<<<>>>>, F)
  BY <1>1, <1>3, RecursionUpTo
<1>5. g[0] = <<<<>>>> /\ \A k \in 1..n : g[k] = F[<<k, g[k-1]>>]
  BY <1>4 DEF IsRecursiveTo
<1>6. ASSUME NEW k \in 1..n PROVE g[k] = Grown(g[k-1], t[k], separator)
  <2>1. k - 1 \in 0..n
    OBVIOUS
  <2>2. g[k-1] \in Lines(X)
    BY <2>1
  <2>3. QED
    BY <1>2, <1>5, <2>2
<1>7. QED
  BY <1>0, <1>5, <1>6 DEF Splits

LEMMA PartsNone == ASSUME NEW separator PROVE PartsOf(<<>>, separator) = <<<<>>>>
<1>1. <<>> \in Seq({}) /\ Len(<<>>) = 0
  BY EmptySeq
<1>2. PICK g : Splits(g, <<>>, separator, {})
  BY <1>1, PartsRun
<1>3. PartsOf(<<>>, separator) = g[Len(<<>>)]
  BY <1>1, <1>2, PartsAre
<1>4. QED
  BY <1>1, <1>2, <1>3 DEF Splits

LEMMA PartsAppend ==
    ASSUME NEW X, NEW t \in Seq(X), NEW c \in X, NEW separator
    PROVE  /\ PartsOf(Append(t, c), separator) = Grown(PartsOf(t, separator), c, separator)
           /\ PartsOf(t, separator) \in Lines(X)
<1> DEFINE u == Append(t, c)
<1>0. PICK n \in Nat : n = Len(t)
  BY LenProperties
<1>1. PICK g : Splits(g, t, separator, X)
  BY PartsRun
<1>2. /\ g \in [0..n -> Lines(X)] /\ g[0] = <<<<>>>>
      /\ \A k \in 1..n : g[k] = Grown(g[k-1], t[k], separator)
      /\ PartsOf(t, separator) = g[n]
  BY <1>0, <1>1, PartsAre DEF Splits
<1>3. g[n] \in Lines(X)
  BY <1>2
<1>4. u \in Seq(X) /\ Len(u) = n + 1 /\ (\A i \in 1..n : u[i] = t[i]) /\ u[n+1] = c
  BY <1>0, AppendProperties
<1>5. Grown(g[n], c, separator) \in Lines(X)
  BY <1>3, GrownType
<1> DEFINE f == [k \in 0..n+1 |-> IF k <= n THEN g[k] ELSE Grown(g[n], c, separator)]
<1>6. f \in [0..n+1 -> Lines(X)] /\ (\A k \in 0..n : f[k] = g[k]) /\ f[n+1] = Grown(g[n], c, separator)
  BY <1>2, <1>5
<1> HIDE DEF f, u
<1>7. ASSUME NEW k \in 1..n+1 PROVE f[k] = Grown(f[k-1], u[k], separator)
  <2>0. k <= n \/ k = n + 1
    OBVIOUS
  <2>1. CASE k <= n
    <3>1. k \in 1..n /\ k \in 0..n /\ k - 1 \in 0..n
      BY <2>1
    <3>2. QED
      BY <1>2, <1>4, <1>6, <3>1
  <2>2. CASE k = n + 1
    <3>1. k - 1 = n /\ n \in 0..n
      BY <2>2
    <3>2. QED
      BY <1>4, <1>6, <2>2, <3>1
  <2>3. QED
    BY <2>0, <2>1, <2>2
<1>8. f[0] = <<<<>>>>
  <2>1. 0 \in 0..n
    OBVIOUS
  <2>2. QED
    BY ONLY <1>2, <1>6, <2>1
<1>9. Splits(f, u, separator, X)
  BY <1>4, <1>6, <1>7, <1>8 DEF Splits
<1>10. PartsOf(u, separator) = f[n+1]
  BY <1>4, <1>9, PartsAre
<1>11. QED
  BY <1>2, <1>3, <1>6, <1>10 DEF u

\* The same, for where the whole is an expression.
OneMore(t, c, separator) == PartsOf(Append(t, c), separator) = Grown(PartsOf(t, separator), c, separator)
LEMMA PartsOneMore ==
    ASSUME NEW X, NEW t \in Seq(X), NEW c \in X, NEW separator
    PROVE  OneMore(t, c, separator)
BY PartsAppend DEF OneMore

LEMMA PartsType ==
    ASSUME NEW X, NEW t \in Seq(X), NEW separator
    PROVE  PartsOf(t, separator) \in Lines(X)
<1>1. PICK g : Splits(g, t, separator, X)
  BY PartsRun
<1>2. PartsOf(t, separator) = g[Len(t)] /\ Len(t) \in 0..Len(t)
  BY <1>1, PartsAre, LenProperties
<1>3. QED
  BY <1>1, <1>2 DEF Splits

\* A line behind a text goes on with its last part.
GoesOn(parts, w, longer) == longer = Append(Front(parts), Last(parts) \o w)

LEMMA PartsLine ==
    ASSUME NEW X, NEW t \in Seq(X), NEW separator, NEW w \in Seq(X), ~Contains(w, separator)
    PROVE  GoesOn(PartsOf(t, separator), w, PartsOf(t \o w, separator))
<1> DEFINE P(v) == PartsOf(v, separator)
           a == Front(P(t))
           z == Last(P(t))
           T == {v \in Seq(X) : Contains(v, separator) \/ P(t \o v) = Append(a, z \o v)}
<1>1. a \in Seq(Seq(X)) /\ z \in Seq(X) /\ P(t) = Append(a, z)
  BY PartsType, LinesFacts
<1>2. <<>> \in T
  <2>1. t \o <<>> = t /\ z \o <<>> = z
    BY <1>1, ConcatEmptySeq
  <2> HIDE DEF P, a, z
  <2>2. <<>> \in Seq(X)
    BY EmptySeq
  <2>3. QED
    BY <1>1, <2>1, <2>2
<1> HIDE DEF a, z
<1>3. ASSUME NEW v \in Seq(X), NEW c \in X, v \in T PROVE Append(v, c) \in T
  <2>1. /\ Append(v, c) \in Seq(X) /\ Len(Append(v, c)) = Len(v) + 1 /\ Len(v) \in Nat
        /\ (\A i \in 1..Len(v) : Append(v, c)[i] = v[i]) /\ Append(v, c)[Len(v)+1] = c
    BY AppendProperties, LenProperties
  <2> SUFFICES ASSUME ~Contains(Append(v, c), separator) PROVE P(t \o Append(v, c)) = Append(a, z \o Append(v, c))
    BY <2>1
  <2>2. \A i \in 1..Len(v)+1 : Append(v, c)[i] # separator
    BY <2>1 DEF Contains
  <2>3. c # separator
    BY <2>1, <2>2
  <2>4. ~Contains(v, separator)
    <3>1. ASSUME NEW i \in 1..Len(v) PROVE v[i] # separator
      <4>1. i \in 1..Len(v)+1
        BY <2>1
      <4>2. QED
        BY <2>1, <2>2, <4>1
    <3>2. QED
      BY <3>1 DEF Contains
  <2>5. P(t \o v) = Append(a, z \o v)
    BY <1>3, <2>4
  <2>6. t \o v \in Seq(X) /\ z \o v \in Seq(X)
    BY <1>1, ConcatProperties
  <2>7. t \o Append(v, c) = Append(t \o v, c) /\ z \o Append(v, c) = Append(z \o v, c)
    <3>1. Append(v, c) = v \o <<c>> /\ <<c>> \in Seq(X)
      BY AppendIsConcat
    <3>2. Append(t \o v, c) = (t \o v) \o <<c>> /\ Append(z \o v, c) = (z \o v) \o <<c>>
      BY <2>6, AppendIsConcat
    <3>3. t \in Seq(X) /\ v \in Seq(X) /\ z \in Seq(X)
      BY <1>1
    <3>4. Regroups(t, v, <<c>>) /\ Regroups(z, v, <<c>>)
      BY ONLY <3>1, <3>3, Regrouped
    <3>5. QED
      BY ONLY <3>1, <3>2, <3>4 DEF Regroups
  <2>8. P(Append(t \o v, c)) = Grown(P(t \o v), c, separator)
    <3>1. c \in X
      OBVIOUS
    <3>2. OneMore(t \o v, c, separator)
      BY ONLY <2>6, <3>1, PartsOneMore
    <3>3. QED
      BY <3>2 DEF OneMore
  <2>9. Front(Append(a, z \o v)) = a /\ Last(Append(a, z \o v)) = z \o v
    BY <1>1, <2>6, AppendLines
  <2>10. Grown(Append(a, z \o v), c, separator) = Append(a, Append(z \o v, c))
    BY <2>3, <2>9 DEF Grown
  <2> HIDE DEF P
  <2>11. QED
    BY <2>5, <2>7, <2>8, <2>10
<1>4. Seq(X) \subseteq T
  <2> HIDE DEF T
  <2>1. QED
    BY <1>2, <1>3, AppendInduction
<1>5. w \in T
  BY <1>4
<1>6. QED
  BY <1>5 DEF a, z, GoesOn

-----------------------------------------------------------------------------
(* A raw export, read as a base.                                            *)

Byte == Character \cup Block \cup {LF, "help", "report", "header", "hunk", "escape", "+", "-"}
Foul(ls) == \E i \in DOMAIN ls : Awkward(ls[i])
Profile(t, ls) == OutsideProfile(t) => Foul(ls)
Clean(t, ls) == t # <<>> /\ Last(t) = CR => Foul(ls)

\* Whole lines, the first k; and a text that ends within a line.
WholeLines(t, ls, k) ==
    /\ t \in Seq(Byte) /\ (t = <<>> \/ Last(t) = LF)
    /\ Profile(t, ls)
    /\ PartsOf(t, LF) = Append(SubSeq(ls, 1, k), <<>>)
WithinLine(t, ls, k) ==
    /\ t \in Seq(Byte)
    /\ Profile(t, ls) /\ Clean(t, ls)
    /\ PartsOf(t, LF) = SubSeq(ls, 1, k)
RawText(ls) ==
    /\ ls \in Seq(Seq(Byte)) /\ ls # <<>>
    /\ \A i \in 1..Len(ls) : RawLine(ls[i]) /\ ~Contains(ls[i], LF)

LEMMA LastOf ==
    ASSUME NEW X, NEW t \in Seq(X), NEW c \in X
    PROVE  /\ Last(Append(t, c)) = c /\ Front(Append(t, c)) = t
           /\ Append(t, c) \in Seq(X) /\ Append(t, c) # <<>>
<1> DEFINE u == Append(t, c)
<1>1. /\ u \in Seq(X) /\ Len(u) = Len(t) + 1 /\ Len(t) \in Nat /\ u # <<>>
      /\ (\A i \in 1..Len(t) : u[i] = t[i]) /\ u[Len(t)+1] = c
  BY AppendProperties, LenProperties
<1> HIDE DEF u
<1>2. Last(u) = c
  BY <1>1 DEF Last
<1>3. Front(u) = t
  <2>1. Len(u) - 1 = Len(t) /\ 0 + Len(t) = Len(t) /\ 0 + 1 = 1 /\ 0 + Len(t) <= Len(u)
    BY <1>1
  <2>2. \A x \in 1..Len(t) : u[0 + x] = t[x]
    BY <1>1
  <2>3. SubSeq(u, 0 + 1, 0 + Len(t)) = t
    BY <1>1, <2>1, <2>2, PartIs
  <2>4. QED
    BY <2>1, <2>3 DEF Front
<1>4. QED
  BY <1>1, <1>2, <1>3 DEF u

LEMMA LineOpens ==
    ASSUME NEW ls, RawText(ls), NEW k \in 1..Len(ls), NEW t, WholeLines(t, ls, k - 1)
    PROVE  WithinLine(t \o ls[k], ls, k)
<1> DEFINE w == ls[k]
           b == t \o w
<1>1. /\ ls \in Seq(Seq(Byte)) /\ w \in Seq(Byte) /\ RawLine(w) /\ ~Contains(w, LF)
      /\ DOMAIN ls = 1..Len(ls) /\ Len(ls) \in Nat
  BY ElementOfSeq, LenProperties DEF RawText
<1>2. t \in Seq(Byte) /\ (t = <<>> \/ Last(t) = LF) /\ Profile(t, ls)
  BY DEF WholeLines
<1>3. PICK m \in Nat, n \in Nat : m = Len(t) /\ n = Len(w)
  BY <1>1, <1>2, LenProperties
<1>4. /\ b \in Seq(Byte) /\ Len(b) = m + n
      /\ \A i \in 1..m+n : b[i] = IF i <= m THEN t[i] ELSE w[i - m]
  BY <1>1, <1>2, <1>3, ConcatProperties
<1>5. \A i \in 1..m : b[i] = t[i]
  BY <1>3, <1>4
<1>6. \A i \in 1..n : b[m + i] = w[i]
  <2> TAKE i \in 1..n
  <2>1. m + i \in 1..m+n /\ ~(m + i <= m) /\ (m + i) - m = i
    BY <1>3
  <2>2. QED
    BY <1>4, <2>1
<1>7. \A i \in 1..n : w[i] # LF /\ w[i] # Invalid /\ w[i] # NUL
  BY <1>1, <1>3 DEF RawLine, Contains
<1>8. Awkward(w) => Foul(ls)
  BY <1>1 DEF Foul
<1>9. m # 0 => t[m] = LF
  BY <1>2, <1>3, EmptySeq DEF Last
<1>10. (t = <<>> <=> m = 0) /\ (w = <<>> <=> n = 0) /\ (b = <<>> <=> m + n = 0)
  BY <1>1, <1>2, <1>3, <1>4, EmptySeq
<1> HIDE DEF b, w
<1>11. Clean(b, ls)
  <2> SUFFICES ASSUME b # <<>>, Last(b) = CR PROVE Foul(ls)
    BY DEF Clean
  <2>1. b[m + n] = CR
    BY <1>4 DEF Last
  <2>2. n # 0
    <3>1. ASSUME n = 0 PROVE FALSE
      <4>1. m # 0 /\ m + n = m
        BY <1>3, <1>10, <3>1
      <4>2. b[m] = LF
        BY <1>5, <1>9, <4>1
      <4>3. QED
        BY <2>1, <4>1, <4>2 DEF CR, LF
    <3>2. QED
      BY <3>1
  <2>3. w[n] = CR
    BY <1>3, <1>6, <2>1, <2>2
  <2>4. Awkward(w)
    BY <1>3, <1>10, <2>2, <2>3 DEF Awkward, Last
  <2>5. QED
    BY <1>8, <2>4
<1>12. Profile(b, ls)
  <2> SUFFICES ASSUME OutsideProfile(b) PROVE Foul(ls)
    BY DEF Profile
  <2>1. CASE b # <<>> /\ Head(b) = BOM
    <3>1. b[1] = BOM
      BY <2>1
    <3>2. CASE m = 0
      <4>1. n # 0 /\ w[1] = BOM
        BY <1>3, <1>6, <1>10, <2>1, <3>1, <3>2
      <4>2. w # <<>> /\ Head(w) = BOM
        BY <1>10, <4>1
      <4>3. QED
        BY <1>8, <4>2 DEF Awkward
    <3>3. CASE m # 0
      <4>1. t[1] = BOM /\ t # <<>>
        BY <1>3, <1>5, <1>10, <3>1, <3>3
      <4>2. OutsideProfile(t)
        BY <4>1 DEF OutsideProfile
      <4>3. QED
        BY <1>2, <4>2 DEF Profile
    <3>4. QED
      BY <3>2, <3>3
  <2>2. CASE Contains(b, Invalid) \/ Contains(b, NUL)
    <3>1. PICK i \in 1..m+n : b[i] \in {Invalid, NUL}
      BY <1>4, <2>2 DEF Contains
    <3>2. i <= m
      <4>1. ASSUME ~(i <= m) PROVE FALSE
        <5>1. i - m \in 1..n /\ b[i] = w[i - m]
          BY <1>3, <1>4, <4>1
        <5>2. QED
          BY <1>7, <3>1, <5>1
      <4>2. QED
        BY <4>1
    <3>3. i \in 1..m /\ t[i] \in {Invalid, NUL}
      BY <1>3, <1>5, <3>1, <3>2
    <3>4. Contains(t, Invalid) \/ Contains(t, NUL)
      BY <1>3, <3>3 DEF Contains
    <3>5. OutsideProfile(t)
      BY <3>4 DEF OutsideProfile
    <3>6. QED
      BY <1>2, <3>5 DEF Profile
  <2>3. CASE \E i \in DOMAIN b : i < Len(b) /\ b[i] = CR /\ b[i + 1] = LF
    <3>1. DOMAIN b = 1..m+n
      BY <1>4, LenProperties
    <3>2. PICK i \in 1..m+n : i < m + n /\ b[i] = CR /\ b[i + 1] = LF
      BY <1>4, <2>3, <3>1
    <3>3. i + 1 <= m
      <4>1. ASSUME ~(i + 1 <= m) PROVE FALSE
        <5>1. (i + 1) - m \in 1..n /\ m + ((i + 1) - m) = i + 1
          BY <1>3, <3>2, <4>1
        <5>2. b[i+1] = w[(i + 1) - m]
          BY <1>6, <5>1
        <5>3. QED
          BY <1>7, <3>2, <5>1, <5>2
      <4>2. QED
        BY <4>1
    <3>4. i \in 1..m /\ i + 1 \in 1..m /\ i < m
      BY <1>3, <3>2, <3>3
    <3>5. t[i] = CR /\ t[i+1] = LF
      BY <1>5, <3>2, <3>4
    <3>6. i \in DOMAIN t /\ i < Len(t)
      BY <1>2, <1>3, <3>4, LenProperties
    <3>7. OutsideProfile(t)
      BY <3>5, <3>6 DEF OutsideProfile
    <3>8. QED
      BY <1>2, <3>7 DEF Profile
  <2>4. QED
    BY <2>1, <2>2, <2>3 DEF OutsideProfile
<1>13. PartsOf(b, LF) = SubSeq(ls, 1, k)
  <2>1. SubSeq(ls, 1, k - 1) \in Seq(Seq(Byte))
    <3>1. k - 1 \in Nat /\ 1 <= (k - 1) + 1 /\ k - 1 <= Len(ls) /\ 1 \in Nat \ {0}
      BY <1>1
    <3>2. QED
      BY <1>1, <3>1, Part
  <2>2. <<>> \in Seq(Byte)
    BY EmptySeq
  <2>3. Front(PartsOf(t, LF)) = SubSeq(ls, 1, k - 1) /\ Last(PartsOf(t, LF)) = <<>>
    BY <2>1, <2>2, AppendLines DEF WholeLines
  <2>4. PartsOf(b, LF) = Append(SubSeq(ls, 1, k - 1), <<>> \o w)
    <3>1. GoesOn(PartsOf(t, LF), w, PartsOf(t \o w, LF))
      BY <1>1, <1>2, PartsLine
    <3>2. QED
      BY <2>3, <3>1 DEF b, GoesOn
  <2>5. <<>> \o w = w
    BY <1>1, ConcatEmptySeq
  <2>6. SubSeq(ls, 1, k) = SubSeq(ls, 1, k - 1) \o <<w>>
    <3>1. 1 \in 1..Len(ls) /\ k \in 1..Len(ls)
      BY <1>1
    <3>2. QED
      BY <1>1, <3>1, SubSeqRecursiveSecond DEF w
  <2>7. Append(SubSeq(ls, 1, k - 1), w) = SubSeq(ls, 1, k - 1) \o <<w>>
    BY <1>1, <2>1, AppendIsConcat
  <2>8. QED
    BY <2>4, <2>5, <2>6, <2>7
<1>14. QED
  BY <1>4, <1>11, <1>12, <1>13 DEF WithinLine, b, w

LEMMA LineEnds ==
    ASSUME NEW ls, RawText(ls), NEW k \in 1..Len(ls), NEW b, WithinLine(b, ls, k)
    PROVE  WholeLines(Append(b, LF), ls, k)
<1> DEFINE t == Append(b, LF)
<1>1. b \in Seq(Byte) /\ Profile(b, ls) /\ Clean(b, ls) /\ LF \in Byte
  BY DEF WithinLine, Byte
<1>2. PICK m \in Nat : m = Len(b)
  BY <1>1, LenProperties
<1>3. /\ t \in Seq(Byte) /\ Len(t) = m + 1 /\ (\A i \in 1..m : t[i] = b[i]) /\ t[m + 1] = LF
      /\ Last(t) = LF
  BY <1>1, <1>2, AppendProperties, LastOf
<1>4. (b = <<>> <=> m = 0)
  BY <1>1, <1>2, EmptySeq
<1>5. PartsOf(t, LF) = Append(SubSeq(ls, 1, k), <<>>)
  <2>1. PartsOf(t, LF) = Grown(PartsOf(b, LF), LF, LF)
    BY <1>1, PartsAppend
  <2>2. QED
    BY <2>1 DEF Grown, WithinLine
<1> HIDE DEF t
<1>6. Profile(t, ls)
  <2> SUFFICES ASSUME OutsideProfile(t) PROVE Foul(ls)
    BY DEF Profile
  <2>0. OutsideProfile(b) => Foul(ls)
    BY <1>1 DEF Profile
  <2>1. CASE t # <<>> /\ Head(t) = BOM
    <3>1. t[1] = BOM
      BY <2>1
    <3>2. m # 0
      <4>1. t[m+1] # BOM
        BY <1>3 DEF LF, BOM
      <4>2. QED
        BY <3>1, <4>1
    <3>3. b # <<>> /\ b[1] = BOM
      BY <1>2, <1>3, <1>4, <3>1, <3>2
    <3>4. QED
      BY <2>0, <3>3 DEF OutsideProfile
  <2>2. CASE Contains(t, Invalid) \/ Contains(t, NUL)
    <3>1. PICK i \in 1..m+1 : t[i] \in {Invalid, NUL}
      BY <1>3, <2>2 DEF Contains
    <3>2. i # m + 1
      BY <1>3, <3>1 DEF LF, Invalid, NUL
    <3>3. i \in 1..m /\ b[i] \in {Invalid, NUL}
      BY <1>3, <3>1, <3>2
    <3>4. Contains(b, Invalid) \/ Contains(b, NUL)
      BY <1>2, <3>3 DEF Contains
    <3>5. QED
      BY <2>0, <3>4 DEF OutsideProfile
  <2>3. CASE \E i \in DOMAIN t : i < Len(t) /\ t[i] = CR /\ t[i + 1] = LF
    <3>1. DOMAIN t = 1..m+1 /\ DOMAIN b = 1..m
      BY <1>1, <1>2, <1>3, LenProperties
    <3>2. PICK i \in 1..m+1 : i < m + 1 /\ t[i] = CR /\ t[i + 1] = LF
      BY <1>3, <2>3, <3>1
    <3>3. i \in 1..m /\ b[i] = CR
      BY <1>2, <1>3, <3>2
    <3>4. CASE i = m
      <4>1. b # <<>> /\ Last(b) = CR
        BY <1>2, <1>4, <3>3, <3>4 DEF Last
      <4>2. QED
        BY <1>1, <4>1 DEF Clean
    <3>5. CASE i # m
      <4>1. i < m /\ i + 1 \in 1..m
        BY <1>2, <3>3, <3>5
      <4>2. b[i+1] = LF
        BY <1>3, <3>2, <4>1
      <4>3. OutsideProfile(b)
        BY <1>2, <3>1, <3>3, <4>1, <4>2 DEF OutsideProfile
      <4>4. QED
        BY <2>0, <4>3
    <3>6. QED
      BY <3>4, <3>5
  <2>4. QED
    BY <2>1, <2>2, <2>3 DEF OutsideProfile
<1>7. QED
  BY <1>3, <1>5, <1>6 DEF WholeLines, t

LEMMA NothingEnds == ASSUME NEW ls, RawText(ls) PROVE WholeLines(<<>>, ls, 0)
<1>1. <<>> \in Seq(Byte) /\ Len(<<>>) = 0 /\ DOMAIN <<>> = {}
  BY EmptySeq
<1>2. ~OutsideProfile(<<>>)
  BY <1>1 DEF OutsideProfile, Contains
<1>3. SubSeq(ls, 1, 0) = <<>>
  BY SubSeqEmpty
<1>4. PartsOf(<<>>, LF) = <<<<>>>>
  BY PartsNone
<1>5. Append(<<>>, <<>>) = <<<<>>>>
  <2>1. <<>> \in Seq(Seq(Byte)) /\ <<<<>>>> \in Seq(Seq(Byte))
    BY <1>1, EmptySeq
  <2>2. Append(<<>>, <<>>) = <<>> \o <<<<>>>>
    BY <1>1, <2>1, AppendIsConcat
  <2>3. QED
    BY <2>1, <2>2, ConcatEmptySeq
<1>6. QED
  BY <1>1, <1>2, <1>3, <1>4, <1>5 DEF WholeLines, Profile

-----------------------------------------------------------------------------
(* The pieces of a state.                                                   *)

Closed(ls, raw, policy, k) == k < Len(ls) \/ ~raw \/ policy = "include"
ShownLine(ls, raw, k) == IF raw THEN ls[k] ELSE EscapeDisplay(ls[k])

\* What the pieces of the first k lines are together.
Writes(g, ls, raw, policy) ==
    /\ g \in [0..Len(ls) -> Seq(Byte)]
    /\ g[0] = <<>>
    /\ \A k \in 1..Len(ls) :
        g[k] = IF Closed(ls, raw, policy, k) THEN Append(g[k-1] \o ShownLine(ls, raw, k), LF)
               ELSE g[k-1] \o ShownLine(ls, raw, k)

LEMMA Escaped == ASSUME NEW w \in Seq(Byte) PROVE EscapeDisplay(w) \in Seq(Byte)
<1>1. PICK n \in Nat : n = Len(w)
  BY LenProperties
<1>2. DOMAIN w = 1..n /\ \A i \in 1..n : w[i] \in Byte
  BY <1>1, LenProperties, ElementOfSeq
<1>3. \A i \in 1..n : Escapes(w[i]) \in Byte
  BY <1>2 DEF Escapes, Byte
<1>4. EscapeDisplay(w) = [i \in 1..n |-> Escapes(w[i])]
  BY <1>2 DEF EscapeDisplay
<1>5. EscapeDisplay(w) \in [1..n -> Byte]
  BY <1>3, <1>4
<1>6. QED
  BY <1>5, SeqDef

LEMMA StateIs ==
    ASSUME NEW ls \in Seq(Seq(Byte)), NEW raw \in BOOLEAN, NEW policy
    PROVE  /\ StatePieces(ls, raw, policy) \in Seq(Seq(Byte))
           /\ \E g : /\ Writes(g, ls, raw, policy)
                     /\ FlattenSeq(StatePieces(ls, raw, policy)) = g[Len(ls)]
<1> DEFINE Q == Seq(Byte)
           line(k) == ShownLine(ls, raw, k)
           end(k) == IF Closed(ls, raw, policy, k) THEN <<<<LF>>>> ELSE <<>>
           ss == [i \in DOMAIN ls |->
                    <<IF raw THEN ls[i] ELSE EscapeDisplay(ls[i])>>
                    \o IF i < Len(ls) \/ ~raw \/ policy = "include" THEN <<<<LF>>>> ELSE <<>>]
<1>1. PICK n \in Nat : n = Len(ls)
  BY LenProperties
<1>2. DOMAIN ls = 1..n /\ \A k \in 1..n : ls[k] \in Q
  BY <1>1, LenProperties, ElementOfSeq
<1>3. LF \in Byte /\ <<LF>> \in Q /\ <<<<LF>>>> \in Seq(Q) /\ <<>> \in Seq(Q) /\ <<>> \in Q
  <2>1. LF \in Byte
    BY DEF Byte
  <2>2. <<LF>> \in Q /\ <<>> \in Q /\ <<>> \in Seq(Q)
    BY <2>1, EmptySeq
  <2>3. <<<<LF>>>> \in Seq(Q)
    <3> HIDE DEF Q
    <3>1. QED
      BY <2>2
  <2>4. QED
    BY <2>1, <2>2, <2>3
<1>4. ASSUME NEW k \in 1..n PROVE line(k) \in Q /\ <<line(k)>> \in Seq(Q) /\ end(k) \in Seq(Q)
  <2>1. line(k) \in Q
    BY <1>2, Escaped DEF ShownLine
  <2>2. end(k) \in Seq(Q)
    BY <1>3
  <2>3. <<line(k)>> \in Seq(Q)
    <3> HIDE DEF Q, line
    <3>1. QED
      BY <2>1
  <2>4. QED
    BY <2>1, <2>2, <2>3
<1>5. ss = [k \in 1..n |-> <<line(k)>> \o end(k)]
  BY <1>1, <1>2 DEF ShownLine, Closed
<1> HIDE DEF line, end
<1>6. \A k \in 1..n : <<line(k)>> \o end(k) \in Seq(Q)
  BY <1>4, ConcatProperties
<1>7. ss \in Seq(Seq(Q)) /\ Len(ss) = n /\ \A k \in 1..n : ss[k] = <<line(k)>> \o end(k)
  <2>1. ss \in [1..n -> Seq(Q)]
    BY <1>5, <1>6
  <2>2. ss \in Seq(Seq(Q))
    BY <2>1, SeqDef
  <2>3. DOMAIN ss = 1..n
    BY <1>5
  <2>4. Len(ss) = n
    BY <1>1, <2>2, <2>3, LenProperties
  <2>5. QED
    BY <1>5, <2>2, <2>4
<1>8. StatePieces(ls, raw, policy) = FlattenSeq(ss)
  BY DEF StatePieces
<1> HIDE DEF ss, Q
<1>9. PICK f : Flattens(f, ss, Q)
  BY <1>7, FlattenRuns
<1>10. /\ f \in [0..n -> Seq(Q)] /\ f[0] = <<>> /\ FlattenSeq(ss) = f[n]
       /\ \A k \in 1..n : f[k] = f[k-1] \o ss[k]
  BY <1>7, <1>9 DEF Flattens
<1> DEFINE g == [k \in 0..n |-> FlattenSeq(f[k])]
<1>11. \A k \in 0..n : f[k] \in Seq(Q) /\ FlattenSeq(f[k]) \in Q
  BY <1>10, FlattenType DEF Q
<1>12. g \in [0..n -> Seq(Byte)] /\ \A k \in 0..n : g[k] = FlattenSeq(f[k])
  BY <1>11 DEF Q
<1> HIDE DEF g
<1>13. g[0] = <<>>
  BY <1>10, <1>12, FlattenNone
<1>14. ASSUME NEW k \in 1..n
       PROVE  g[k] = IF Closed(ls, raw, policy, k) THEN Append(g[k-1] \o ShownLine(ls, raw, k), LF)
                     ELSE g[k-1] \o ShownLine(ls, raw, k)
  <2>1. k - 1 \in 0..n /\ k \in 0..n
    OBVIOUS
  <2>2. /\ f[k-1] \in Seq(Q) /\ g[k-1] \in Q /\ line(k) \in Q /\ <<line(k)>> \in Seq(Q) /\ end(k) \in Seq(Q)
        /\ f[k] = f[k-1] \o (<<line(k)>> \o end(k))
        /\ g[k] = FlattenSeq(f[k]) /\ g[k-1] = FlattenSeq(f[k-1])
    BY <1>4, <1>7, <1>10, <1>11, <1>12, <2>1
  <2>3. FlattenSeq(f[k-1] \o (<<line(k)>> \o end(k))) = FlattenSeq(f[k-1]) \o FlattenSeq(<<line(k)>> \o end(k))
    BY <1>6, <2>2, FlattenConcat DEF Q
  <2>4. FlattenSeq(<<line(k)>> \o end(k)) = FlattenSeq(<<line(k)>>) \o FlattenSeq(end(k))
    BY <2>2, FlattenConcat DEF Q
  <2>5. FlattenSeq(<<line(k)>>) = line(k)
    BY <2>2, FlattenOne DEF Q
  <2>6. g[k] = g[k-1] \o (line(k) \o FlattenSeq(end(k)))
    BY <2>2, <2>3, <2>4, <2>5
  <2>7. CASE Closed(ls, raw, policy, k)
    <3>1. FlattenSeq(end(k)) = <<LF>>
      <4>1. end(k) = <<<<LF>>>>
        BY <2>7 DEF end
      <4>2. FlattenSeq(<<<<LF>>>>) = <<LF>>
        BY <1>3, FlattenOne DEF Q
      <4>3. QED
        BY <4>1, <4>2
    <3>2. g[k-1] \o (line(k) \o <<LF>>) = (g[k-1] \o line(k)) \o <<LF>>
      <4>1. g[k-1] \in Seq(Byte) /\ line(k) \in Seq(Byte) /\ <<LF>> \in Seq(Byte)
        BY <1>3, <2>2 DEF Q
      <4>2. Regroups(g[k-1], line(k), <<LF>>)
        BY ONLY <4>1, Regrouped
      <4>3. QED
        BY <4>2 DEF Regroups
    <3>3. g[k-1] \o line(k) \in Seq(Byte)
      BY <2>2, ConcatProperties DEF Q
    <3>4. Append(g[k-1] \o line(k), LF) = (g[k-1] \o line(k)) \o <<LF>>
      BY <1>3, <3>3, AppendIsConcat
    <3>5. QED
      BY <2>6, <2>7, <3>1, <3>2, <3>4 DEF line
  <2>8. CASE ~Closed(ls, raw, policy, k)
    <3>1. end(k) = <<>>
      BY <2>8 DEF end
    <3>2. line(k) \o <<>> = line(k)
      BY <2>2, ConcatEmptySeq DEF Q
    <3>3. QED
      BY <2>6, <2>8, <3>1, <3>2, FlattenNone DEF line
  <2>9. QED
    BY <2>7, <2>8
<1>15. Writes(g, ls, raw, policy)
  BY <1>1, <1>12, <1>13, <1>14 DEF Writes
<1>16. FlattenSeq(StatePieces(ls, raw, policy)) = g[n]
  <2>1. n \in 0..n
    OBVIOUS
  <2>2. QED
    BY <1>8, <1>10, <1>12, <2>1
<1>17. StatePieces(ls, raw, policy) \in Seq(Seq(Byte))
  <2>1. n \in 0..n
    OBVIOUS
  <2>2. QED
    BY <1>8, <1>10, <1>11, <2>1 DEF Q
<1>18. QED
  BY <1>1, <1>15, <1>16, <1>17

LEMMA EndsWhole ==
    ASSUME NEW ls, RawText(ls), NEW policy, NEW g, Writes(g, ls, TRUE, policy)
    PROVE  \A k \in 0..Len(ls)-1 : WholeLines(g[k], ls, k)
<1>1. PICK n \in Nat : n = Len(ls) /\ n # 0
  BY LenProperties, EmptySeq DEF RawText
<1> DEFINE T == {k \in Nat : k \in 0..n-1 => WholeLines(g[k], ls, k)}
<1>2. 0 \in T
  BY NothingEnds DEF Writes
<1>3. ASSUME NEW k \in 0..n-2, k \in T PROVE k + 1 \in T
  <2>1. k + 1 \in 1..n /\ (k + 1) - 1 = k /\ k \in 0..n-1 /\ k + 1 < n /\ k + 1 \in Nat
    BY <1>1
  <2>2. Closed(ls, TRUE, policy, k + 1) /\ ShownLine(ls, TRUE, k + 1) = ls[k+1]
    BY <1>1, <2>1 DEF Closed, ShownLine
  <2>3. g[k+1] = Append(g[k] \o ls[k+1], LF)
    BY <1>1, <2>1, <2>2 DEF Writes
  <2>4. WithinLine(g[k] \o ls[k+1], ls, k + 1)
    <3>1. WholeLines(g[k], ls, (k + 1) - 1)
      BY <1>3, <2>1
    <3>2. QED
      BY <1>1, <2>1, <3>1, LineOpens
  <2>5. WholeLines(Append(g[k] \o ls[k+1], LF), ls, k + 1)
    BY <1>1, <2>1, <2>4, LineEnds
  <2>6. QED
    BY <2>1, <2>3, <2>5
<1>4. 0..n-1 \subseteq T
  <2> HIDE DEF T
  <2>1. n - 1 \in Nat /\ \A k \in 0..(n-1)-1 : k \in 0..n-2
    BY <1>1
  <2>2. \A k \in 0..(n-1)-1 : k \in T => k + 1 \in T
    BY <1>3, <2>1
  <2>3. QED
    BY <1>2, <2>1, <2>2, UpTo
<1>5. QED
  BY <1>1, <1>4

ReadsBack(ls, policy, data) ==
    LET back == SplitBase(data)
    IN IF back.refused THEN Foul(ls)
       ELSE back.lines = IF policy # "include" /\ LastIsEmpty(ls) THEN Front(ls) ELSE ls

\* A text without a final newline is split as it is, one with it before that.
LEMMA SplitsInto ==
    ASSUME NEW ls, RawText(ls), Len(ls) <= StateLineLimit, \A i \in 1..Len(ls) : Len(ls[i]) <= LineByteLimit,
           NEW k \in 1..Len(ls), NEW b, WithinLine(b, ls, k), NEW data, Profile(data, ls),
           \/ data = Append(b, LF)
           \/ data = b /\ (b = <<>> \/ Last(b) # LF)
    PROVE  IF SplitBase(data).refused THEN Foul(ls) ELSE SplitBase(data).lines = SubSeq(ls, 1, k)
<1> DEFINE text == IF data # <<>> /\ Last(data) = LF THEN Front(data) ELSE data
           parts == PartsOf(text, LF)
           bad == OutsideProfile(data) \/ Len(parts) > StateLineLimit
                  \/ \E i \in DOMAIN parts : Len(parts[i]) > LineByteLimit
<1>1. b \in Seq(Byte) /\ PartsOf(b, LF) = SubSeq(ls, 1, k) /\ LF \in Byte
  BY DEF WithinLine, Byte
<1>2. text = b
  <2>1. CASE data = Append(b, LF)
    BY <1>1, <2>1, LastOf
  <2>2. CASE data = b /\ (b = <<>> \/ Last(b) # LF)
    BY <2>2
  <2>3. QED
    BY <2>1, <2>2
<1>3. parts = SubSeq(ls, 1, k)
  BY <1>1, <1>2
<1>4. ls \in Seq(Seq(Byte)) /\ Len(ls) \in Nat
  BY LenProperties DEF RawText
<1>5. /\ SubSeq(ls, 1, k) \in Seq(Seq(Byte)) /\ Len(SubSeq(ls, 1, k)) = k
      /\ \A i \in 1..k : SubSeq(ls, 1, k)[i] = ls[i]
  <2>1. 1 \in Nat \ {0} /\ k \in Nat /\ 1 <= k + 1 /\ k <= Len(ls) /\ (k + 1) - 1 = k
        /\ \A x \in 1..k : (1 - 1) + x = x
    BY <1>4
  <2>2. QED
    BY <1>4, <2>1, Part
<1>6. SplitBase(data) = IF bad THEN Refused ELSE [refused |-> FALSE, lines |-> parts]
  BY DEF SplitBase
<1> HIDE DEF text, parts
<1>7. bad => OutsideProfile(data)
  <2>1. k <= StateLineLimit /\ ~(k > StateLineLimit)
    BY <1>4, DiskTextAssumption
  <2>2. ~(Len(parts) > StateLineLimit)
    BY <1>3, <1>5, <2>1
  <2>3. DOMAIN parts = 1..k
    BY <1>3, <1>5, LenProperties
  <2>4. ASSUME NEW i \in 1..k PROVE ~(Len(parts[i]) > LineByteLimit)
    <3>1. i \in 1..Len(ls)
      BY <1>4
    <3>2. ls[i] \in Seq(Byte) /\ Len(ls[i]) <= LineByteLimit
      BY <1>4, <3>1, ElementOfSeq
    <3>3. Len(ls[i]) \in Nat
      BY <3>2, LenProperties
    <3>4. parts[i] = ls[i]
      BY <1>3, <1>5
    <3>5. QED
      BY <3>2, <3>3, <3>4, DiskTextAssumption
  <2>5. QED
    BY <2>2, <2>3, <2>4
<1>8. CASE bad
  <2>1. Foul(ls)
    BY <1>7, <1>8 DEF Profile
  <2> HIDE DEF bad
  <2>2. SplitBase(data).refused
    BY <1>6, <1>8 DEF Refused
  <2>3. QED
    BY <2>1, <2>2
<1>9. CASE ~bad
  <2> HIDE DEF bad
  <2>1. SplitBase(data) = [refused |-> FALSE, lines |-> parts]
    BY <1>6, <1>9
  <2>2. ~SplitBase(data).refused /\ SplitBase(data).lines = parts
    BY <2>1
  <2>3. QED
    BY <1>3, <2>2
<1>10. QED
  BY <1>8, <1>9

LEMMA RawReadsBack ==
    ASSUME NEW ls, RawText(ls), Len(ls) <= StateLineLimit, \A i \in 1..Len(ls) : Len(ls[i]) <= LineByteLimit,
           NEW policy
    PROVE  ReadsBack(ls, policy, FlattenSeq(StatePieces(ls, TRUE, policy)))
<1> DEFINE data == FlattenSeq(StatePieces(ls, TRUE, policy))
<1>0. ls \in Seq(Seq(Byte)) /\ ls # <<>> /\ LF \in Byte
  BY DEF RawText, Byte
<1>1. PICK n \in Nat : n = Len(ls) /\ n # 0
  BY <1>0, LenProperties, EmptySeq
<1>2. PICK g : Writes(g, ls, TRUE, policy) /\ data = g[n]
  BY <1>0, <1>1, StateIs
<1> HIDE DEF data
<1> DEFINE b == g[n-1] \o ls[n]
<1>3. n \in 1..Len(ls) /\ n - 1 \in 0..Len(ls)-1 /\ n \in 1..n
  BY <1>1
<1>4. WholeLines(g[n-1], ls, n - 1)
  BY <1>2, <1>3, EndsWhole
<1>5. WithinLine(b, ls, n)
  BY <1>3, <1>4, LineOpens
<1>6. data = IF policy = "include" THEN Append(b, LF) ELSE b
  <2>1. g[n] = IF Closed(ls, TRUE, policy, n) THEN Append(g[n-1] \o ShownLine(ls, TRUE, n), LF)
               ELSE g[n-1] \o ShownLine(ls, TRUE, n)
    BY <1>2, <1>3 DEF Writes
  <2>2. ShownLine(ls, TRUE, n) = ls[n] /\ (Closed(ls, TRUE, policy, n) <=> policy = "include")
    BY <1>1 DEF ShownLine, Closed
  <2>3. QED
    BY <1>2, <2>1, <2>2
<1>7. SubSeq(ls, 1, n) = ls
  BY <1>0, <1>1, SubSeqFull
<1>8. Last(ls) = ls[n] /\ ls[n] \in Seq(Byte) /\ ~Contains(ls[n], LF)
  BY <1>0, <1>1, <1>3, ElementOfSeq DEF Last, RawText
<1>9. g[n-1] \in Seq(Byte) /\ (g[n-1] = <<>> \/ Last(g[n-1]) = LF)
  BY <1>4 DEF WholeLines
<1>10. CASE policy = "include"
  <2>1. data = Append(b, LF)
    BY <1>6, <1>10
  <2>2. Profile(data, ls)
    BY <1>3, <1>5, <2>1, LineEnds DEF WholeLines
  <2>3. IF SplitBase(data).refused THEN Foul(ls) ELSE SplitBase(data).lines = SubSeq(ls, 1, n)
    BY <1>3, <1>5, <2>1, <2>2, SplitsInto
  <2>4. QED
    BY <1>7, <1>10, <2>3 DEF ReadsBack, data
<1>11. CASE policy # "include" /\ ~(Len(ls) > 1 /\ Last(ls) = <<>>)
  <2>1. data = b /\ Profile(b, ls)
    BY <1>5, <1>6, <1>11 DEF WithinLine
  <2>2. b = <<>> \/ Last(b) # LF
    <3>1. CASE ls[n] = <<>>
      <4>1. n = 1
        BY <1>1, <1>8, <1>11, <3>1
      <4>2. g[n-1] = <<>>
        BY <1>2, <4>1 DEF Writes
      <4>3. b = <<>>
        BY <3>1, <4>2, <1>9, ConcatEmptySeq
      <4>4. QED
        BY <4>3
    <3>2. CASE ls[n] # <<>>
      <4>1. PICK c \in Nat, d \in Nat : c = Len(ls[n]) /\ d = Len(g[n-1])
        BY <1>8, <1>9, LenProperties
      <4>2. c # 0
        BY <1>8, <3>2, <4>1, EmptySeq
      <4>3. Len(b) = d + c /\ b[d + c] = ls[n][c]
        <5>0. c \in Nat \ {0} /\ d \in Nat
          BY <4>2
        <5>1. d + c \in 1..d + c /\ ~(d + c <= d) /\ (d + c) - d = c
          BY ONLY <5>0
        <5>2. Len(b) = d + c
          BY <1>8, <1>9, <4>1, ConcatProperties
        <5>3. b[d + c] = IF d + c <= d THEN g[n-1][d + c] ELSE ls[n][(d + c) - d]
          BY <1>8, <1>9, <4>1, <5>1, ConcatProperties
        <5>4. QED
          BY <5>1, <5>2, <5>3
      <4>4. ls[n][c] # LF
        BY <1>8, <4>1, <4>2 DEF Contains
      <4>5. Last(b) = ls[n][c]
        BY <4>3 DEF Last
      <4>6. QED
        BY <4>4, <4>5
    <3>3. QED
      BY <3>1, <3>2
  <2> HIDE DEF b
  <2>3. IF SplitBase(data).refused THEN Foul(ls) ELSE SplitBase(data).lines = SubSeq(ls, 1, n)
    BY <1>3, <1>5, <2>1, <2>2, SplitsInto
  <2>4. QED
    BY <1>7, <1>11, <2>3 DEF ReadsBack, LastIsEmpty, data
<1>12. CASE policy # "include" /\ Len(ls) > 1 /\ Last(ls) = <<>>
  <2> DEFINE e == g[n-2] \o ls[n-1]
  <2>1. /\ n > 1 /\ n - 1 \in 1..n /\ n - 1 \in 1..Len(ls) /\ (n - 1) - 1 = n - 2 /\ n - 2 \in 0..Len(ls)-1
        /\ n - 1 < Len(ls)
    BY <1>1, <1>12
  <2>2. b = g[n-1] /\ data = b
    BY <1>6, <1>8, <1>9, <1>12, ConcatEmptySeq
  <2>3. g[n-1] = Append(e, LF)
    <3>1. Closed(ls, TRUE, policy, n - 1) /\ ShownLine(ls, TRUE, n - 1) = ls[n-1]
      BY <2>1 DEF Closed, ShownLine
    <3>2. g[n-1] = Append(g[(n-1)-1] \o ShownLine(ls, TRUE, n - 1), LF)
      BY <1>2, <2>1, <3>1 DEF Writes
    <3>3. QED
      BY <2>1, <3>1, <3>2
  <2>4. WithinLine(e, ls, n - 1)
    <3>1. WholeLines(g[n-2], ls, (n - 1) - 1)
      BY <1>2, <2>1, EndsWhole
    <3>2. QED
      BY <2>1, <3>1, LineOpens
  <2>5. Profile(data, ls)
    BY <1>5, <2>2 DEF WithinLine
  <2> HIDE DEF e, b
  <2>6. IF SplitBase(data).refused THEN Foul(ls) ELSE SplitBase(data).lines = SubSeq(ls, 1, n - 1)
    BY <2>1, <2>2, <2>3, <2>4, <2>5, SplitsInto
  <2>7. Front(ls) = SubSeq(ls, 1, n - 1)
    BY <1>1 DEF Front
  <2>8. LastIsEmpty(ls)
    BY <1>12 DEF LastIsEmpty
  <2>9. QED
    BY <1>12, <2>6, <2>7, <2>8 DEF ReadsBack, data
<1>13. QED
  BY <1>10, <1>11, <1>12 DEF data

-----------------------------------------------------------------------------
(* What a command may rely on once its inputs were read.                    *)

HasAsked == got.undo.blocks \in Seq(Block) /\ Known(got.undo.blocks)
AskedIInv ==
    /\ mode = "explicit" /\ reading = "text" => HasAsked
    /\ pc \in {"verify", "recheck", "source", "resolve"} => got.undo.blocks \in Seq(Block)
    /\ pc = "loaded" => HasAsked

LEMMA StatNameAsked ==
    ASSUME IInv, AskedIInv, StatName
    PROVE  AskedIInv'
<1>1. /\ pc = "named" /\ UNCHANGED <<mode, asked, needBase>>
      /\ \/ Fail
         \/ ReadError
         \/ /\ ~(reading = "undo" /\ mode = "explicit" /\ ~Known(file.blocks))
            /\ AfterRead
            /\ got' = [got EXCEPT ![reading] = [blocks |-> file.blocks, identity |-> file.before]]
  BY DEF StatName, At, request
<1>2. file.blocks \in Seq(Block) /\ reading \in {"undo", "text"} /\ mode \in {"explicit", "source"}
      /\ got = [undo |-> got.undo, text |-> got.text]
  BY <1>1 DEF IInv, OpenIInv, ControlIInv
<1>4. CASE Fail
  BY <1>1, <1>4 DEF Fail, AskedIInv, HasAsked, Known
<1>5. CASE ReadError
  BY <1>1, <1>5 DEF ReadError, Fail, AskedIInv, HasAsked, Known
<1>6. CASE /\ ~(reading = "undo" /\ mode = "explicit" /\ ~Known(file.blocks))
           /\ AfterRead
           /\ got' = [got EXCEPT ![reading] = [blocks |-> file.blocks, identity |-> file.before]]
  <2>1. CASE reading = "undo"
    <3>1. got'.undo.blocks = file.blocks
      BY <1>2, <1>6, <2>1
    <3>2. mode = "explicit" => HasAsked'
      BY <1>1, <1>2, <1>6, <2>1, <3>1 DEF HasAsked, Known
    <3>3. got'.undo.blocks \in Seq(Block)
      BY <1>2, <3>1
    <3>4. pc' = "loaded" => mode = "explicit"
      BY <1>6, <2>1 DEF AfterRead
    <3>5. QED
      BY <1>1, <3>2, <3>3, <3>4 DEF AskedIInv
  <2>2. CASE reading = "text"
    <3>1. got'.undo = got.undo
      BY <1>2, <1>6, <2>2
    <3>2. HasAsked' = HasAsked
      BY <1>1, <3>1 DEF HasAsked, Known
    <3>3. (pc' \in {"lookup", "verify"}) /\ (pc' = "verify" => mode = "explicit" /\ reading' = reading)
          /\ (mode = "explicit" => pc' = "verify")
      BY <1>2, <1>6, <2>2 DEF AfterRead
    <3>4. mode = "explicit" => HasAsked
      BY <2>2 DEF AskedIInv
    <3>5. QED
      BY <1>1, <1>2, <3>2, <3>3, <3>4 DEF AskedIInv, HasAsked
  <2>3. QED
    BY <1>2, <2>1, <2>2
<1>7. QED
  BY <1>1, <1>4, <1>5, <1>6

LEMMA StepAsked ==
    ASSUME IInv, AskedIInv, Step
    PROVE  AskedIInv'
<1>1. UNCHANGED <<mode, asked>>
  BY DEF Step, LookUp, Open, StatBefore, ReadBlock, ReadEnd, StatAfter, StatName, Verify, RecheckUndo,
         RecheckSource, ResolveAgain, GiveUp, At, request
<1>2. CASE StatName
  BY <1>2, StatNameAsked
<1>3. CASE LookUp
  BY <1>1, <1>3 DEF LookUp, At, Fail, AskedIInv, HasAsked, Known
<1>4. CASE Open
  BY <1>1, <1>4 DEF Open, At, ReadError, Fail, AskedIInv, HasAsked, Known
<1>5. CASE StatBefore
  BY <1>1, <1>5 DEF StatBefore, At, ReadError, Fail, AskedIInv, HasAsked, Known
<1>6. CASE ReadBlock
  BY <1>1, <1>6 DEF ReadBlock, At, AskedIInv, HasAsked, Known
<1>7. CASE ReadEnd
  BY <1>1, <1>7 DEF ReadEnd, At, Fail, AskedIInv, HasAsked, Known
<1>8. CASE StatAfter
  BY <1>1, <1>8 DEF StatAfter, At, Fail, AskedIInv, HasAsked, Known
<1>9. CASE Verify
  BY <1>1, <1>9 DEF Verify, At, Fail, AskedIInv, HasAsked, Known
<1>10. CASE RecheckUndo
  <2>1. pc = "recheck" /\ mode \in {"explicit", "source"} /\ (mode = "explicit" => reading = "text")
    BY <1>10 DEF RecheckUndo, At, IInv, ControlIInv
  <2>2. QED
    BY <1>1, <1>10, <2>1 DEF RecheckUndo, At, Passes, Fail, AskedIInv, HasAsked, Known
<1>11. CASE RecheckSource
  BY <1>1, <1>11 DEF RecheckSource, At, Passes, Fail, AskedIInv, HasAsked, Known
<1>12. CASE ResolveAgain
  BY <1>1, <1>12 DEF ResolveAgain, At, Passes, Fail, AskedIInv, HasAsked, Known
<1>13. CASE GiveUp
  BY <1>1, <1>13 DEF GiveUp, At, Fail, AskedIInv, HasAsked, Known
<1>14. QED
  BY <1>2, <1>3, <1>4, <1>5, <1>6, <1>7, <1>8, <1>9, <1>10, <1>11, <1>12, <1>13 DEF Step

LEMMA EditAsked ==
    ASSUME AskedIInv, Edit
    PROVE  AskedIInv' /\ UNCHANGED <<request, pc, reading, file, probe, got>>
<1>1. UNCHANGED <<request, pc, reading, file, probe, got>>
  BY DEF Edit, Overwrite, Extend, Truncate, Replace, Unlink, Retarget, Change
<1>2. QED
  BY <1>1 DEF AskedIInv, HasAsked, Known, request

-----------------------------------------------------------------------------
(* The output.                                                              *)

LEMMA Extends ==
    ASSUME NEW X, NEW s \in Seq(X), NEW u \in Seq(X), u # <<>>
    PROVE  IsStrictPrefix(s, s \o u)
<1>1. PICK m \in Nat, n \in Nat : m = Len(s) /\ n = Len(u)
  BY LenProperties
<1>2. n # 0
  BY <1>1, EmptySeq
<1>3. /\ s \o u \in Seq(X) /\ Len(s \o u) = m + n
      /\ \A i \in 1..m+n : (s \o u)[i] = IF i <= m THEN s[i] ELSE u[i - m]
  BY <1>1, ConcatProperties
<1>4. SubSeq(s \o u, 0 + 1, 0 + m) = s
  <2>1. 0 + m <= Len(s \o u) /\ \A x \in 1..m : (s \o u)[0 + x] = s[x]
    BY <1>1, <1>3
  <2>2. QED
    BY <1>1, <1>3, <2>1, PartIs
<1>5. SubSeq(s, 1, Len(s)) = s
  BY SubSeqFull
<1>6. 0 + 1 = 1 /\ 0 + m = m /\ m <= m + n /\ m # m + n
  BY <1>1, <1>2
<1>7. s # s \o u
  BY <1>1, <1>3, <1>6
<1>8. QED
  BY <1>1, <1>3, <1>4, <1>5, <1>6, <1>7 DEF IsStrictPrefix, IsPrefix

\* What was written and what is still to be written make the whole.
Accounts(out, buf, rest, failed, whole) ==
    /\ out \in Seq(Byte) /\ buf \in Seq(Byte) /\ rest \in Seq(Byte) /\ failed \in BOOLEAN
    /\ IF failed THEN IsStrictPrefix(out, whole) ELSE (out \o buf) \o rest = whole

LEMMA EmitAccounts ==
    ASSUME NEW bytes \in Seq(Byte), NEW rest \in Seq(Byte), NEW n \in Nat, n <= Len(bytes),
           stdout \in Seq(Byte), NEW whole, (stdout \o bytes) \o rest = whole, Emit(bytes, n)
    PROVE  /\ Accounts(stdout', buffered', rest, broken', whole)
           /\ n = Len(bytes) /\ ~broken' => buffered' = <<>>
<1>1. PICK l \in Nat : l = Len(bytes)
  BY LenProperties
<1>2. PICK k \in 0..n :
        /\ stdout' = stdout \o SubSeq(bytes, 1, k)
        /\ broken' = (k < n)
        /\ buffered' = SubSeq(bytes, k + 1, l)
  BY <1>1 DEF Emit
<1> DEFINE a == SubSeq(bytes, 1, k)
           z == SubSeq(bytes, k + 1, l)
<1>3. /\ 1 \in Nat \ {0} /\ k \in Nat /\ 1 <= k + 1 /\ k <= l
      /\ k + 1 \in Nat \ {0} /\ k + 1 <= l + 1 /\ (l + 1) - (k + 1) = l - k
  BY <1>1
<1>4. a \in Seq(Byte) /\ z \in Seq(Byte) /\ Len(z) = l - k
  BY <1>1, <1>3, Part
<1>5. a \o z = bytes
  <2>1. /\ 1 \in 1..l+1 /\ k \in 1-1..l /\ l \in k..l
    BY <1>3
  <2>2. SubSeq(bytes, 1, k) \o SubSeq(bytes, k + 1, l) = SubSeq(bytes, 1, l)
    BY <1>1, <2>1, ConcatAdjacentSubSeq
  <2>3. SubSeq(bytes, 1, l) = bytes
    BY <1>1, SubSeqFull
  <2>4. QED
    BY <2>2, <2>3
<1> HIDE DEF a, z
<1> DEFINE out == stdout \o a
<1>6. stdout' = out /\ out \in Seq(Byte) /\ buffered' = z
  BY <1>2, <1>4, ConcatProperties DEF a, z
<1>7. stdout \o bytes = out \o z
  <2>1. (stdout \o a) \o z = stdout \o (a \o z)
    <3>1. Regroups(stdout, a, z)
      BY <1>4, Regrouped
    <3>2. QED
      BY <3>1 DEF Regroups
  <2>2. QED
    BY <1>5, <2>1
<1> HIDE DEF out
<1>8. CASE k < n
  <2>1. z # <<>>
    BY <1>1, <1>3, <1>4, <1>8, EmptySeq
  <2>2. z \o rest \in Seq(Byte) /\ z \o rest # <<>>
    BY <1>4, <2>1, ConcatProperties, ConcatEqualIffEmpty
  <2>3. (out \o z) \o rest = out \o (z \o rest)
    <3>1. Regroups(out, z, rest)
      BY <1>4, <1>6, Regrouped
    <3>2. QED
      BY <3>1 DEF Regroups
  <2>4. IsStrictPrefix(out, out \o (z \o rest))
    BY <1>6, <2>2, Extends
  <2>5. IsStrictPrefix(stdout', whole)
    BY <1>6, <1>7, <2>3, <2>4
  <2>6. broken' = TRUE
    BY <1>2, <1>8
  <2>7. QED
    BY <1>4, <1>6, <2>5, <2>6 DEF Accounts
<1>9. CASE ~(k < n)
  <2>1. n = l => z = <<>>
    <3>1. ASSUME n = l PROVE Len(z) = 0
      BY <1>1, <1>3, <1>4, <1>9, <3>1
    <3>2. QED
      BY <1>4, <3>1, EmptySeq
  <2>2. broken' = FALSE
    <3>1. (k < n) = FALSE
      BY <1>9
    <3>2. QED
      BY <1>2, <3>1
  <2>3. (stdout' \o buffered') \o rest = whole
    BY <1>6, <1>7
  <2>4. Accounts(stdout', buffered', rest, broken', whole)
    BY <1>4, <1>6, <2>2, <2>3 DEF Accounts
  <2>5. QED
    BY <1>1, <1>6, <2>1, <2>4
<1>10. QED
  BY <1>8, <1>9

-----------------------------------------------------------------------------
(* What a command prints.                                                   *)

LEMMA ReplyRuns == Reply = "run" => Command \in Reading /\ ~options.refused
BY DEF Reply, Reading

Invoked ==
    /\ options = IF Command \in Reading THEN Options(Command, Tail(words), env) ELSE NoOptions
    /\ asked = IF options.refused THEN {} ELSE ToSet(options.nodes)
    /\ texts \in [Block -> Texts]

LEMMA OptionsAre ==
    ASSUME Invoked, Reply = "run"
    PROVE  /\ Command \in Reading
           /\ DOMAIN options.nodes = DOMAIN Selectors(Command)
           /\ options.raw \in BOOLEAN
           /\ asked = ToSet(options.nodes)
<1>1. Command \in Reading /\ ~options.refused /\ options = Options(Command, Tail(words), env)
  BY ReplyRuns DEF Invoked
<1> DEFINE parsed == ParseArgs(Command, Tail(words))
           sel == Selectors(Command)
<1>2. /\ options.nodes = [i \in DOMAIN sel |-> ValueOf(sel[i], parsed.given)]
      /\ options.raw = (ValueOf("raw", parsed.given) = "true")
  BY <1>1 DEF Options
<1> HIDE DEF sel, parsed
<1>3. DOMAIN options.nodes = DOMAIN sel /\ options.raw \in BOOLEAN
  BY <1>2
<1>4. QED
  BY <1>1, <1>3 DEF Invoked, sel

LEMMA NodesAre ==
    ASSUME Invoked, Reply = "run", HasAsked
    PROVE  /\ Command = "show" => options.nodes[1] \in Block
           /\ Command = "diff" => options.nodes[1] \in Block /\ options.nodes[2] \in Block
<1>1. DOMAIN options.nodes = DOMAIN Selectors(Command) /\ asked = ToSet(options.nodes)
  BY OptionsAre
<1>2. \A i \in DOMAIN options.nodes : options.nodes[i] \in Block
  <2>1. ToSet(got.undo.blocks) \subseteq Block
    BY LenProperties DEF HasAsked, ToSet
  <2>2. ToSet(options.nodes) \subseteq Block
    BY <1>1, <2>1 DEF HasAsked, Known
  <2>3. QED
    BY <2>2 DEF ToSet
<1>3. Command = "show" => 1 \in DOMAIN options.nodes
  <2>1. Command = "show" => Selectors(Command) = <<"node">>
    BY DEF Selectors
  <2>2. QED
    BY <1>1, <2>1
<1>4. Command = "diff" => 1 \in DOMAIN options.nodes /\ 2 \in DOMAIN options.nodes
  <2>1. Command = "diff" => Selectors(Command) = <<"from", "to">>
    BY DEF Selectors
  <2>2. QED
    BY <1>1, <2>1
<1>5. QED
  BY <1>2, <1>3, <1>4

LEMMA TextIs ==
    ASSUME NEW n \in Block, texts \in [Block -> Texts]
    PROVE  /\ TextOf(n) \in Seq(Seq(Byte)) /\ TextOf(n) # <<>>
           /\ Len(TextOf(n)) <= StateLineLimit
           /\ \A i \in 1..Len(TextOf(n)) : Len(TextOf(n)[i]) <= LineByteLimit /\ ~Contains(TextOf(n)[i], LF)
<1>1. PICK t \in Texts : t = TextOf(n)
  BY DEF TextOf
<1>2. /\ t \in Seq(Seq(Character)) /\ Len(t) \in 1..StateLineLimit
      /\ \A i \in DOMAIN t : Len(t[i]) <= LineByteLimit /\ ~Contains(t[i], LF)
  BY CommandsAssumption
<1>3. t \in Seq(Seq(Byte))
  <2>1. Character \subseteq Byte
    BY DEF Byte
  <2>2. Seq(Character) \subseteq Seq(Byte)
    BY <2>1, SeqMonotonic
  <2>3. QED
    BY <1>2, <2>2, SeqMonotonic
<1>4. DOMAIN t = 1..Len(t)
  BY <1>3, LenProperties
<1>5. t # <<>>
  BY <1>2, EmptySeq
<1>6. Len(t) <= StateLineLimit
  BY <1>2
<1>7. QED
  BY <1>1, <1>2, <1>3, <1>4, <1>5, <1>6

LEMMA ReportIs == ASSUME NEW nodes \in Seq(Block) PROVE Report(nodes) \in Seq(Seq(Byte))
<1> DEFINE Q == Seq(Byte)
           rest == [i \in DOMAIN nodes |-> <<nodes[i], LF>>]
<1>1. PICK n \in Nat : DOMAIN nodes = 1..n /\ \A i \in 1..n : nodes[i] \in Block
  BY LenProperties, ElementOfSeq
<1>2. \A i \in 1..n : <<nodes[i], LF>> \in Q
  <2> TAKE i \in 1..n
  <2>1. nodes[i] \in Byte /\ LF \in Byte
    BY <1>1 DEF Byte
  <2>2. QED
    BY <2>1
<1>3. <<"report", LF>> \in Q
  <2>1. "report" \in Byte /\ LF \in Byte
    BY DEF Byte
  <2>2. QED
    BY <2>1
<1> HIDE DEF Q
<1>4. rest \in [1..n -> Q]
  BY <1>1, <1>2
<1>5. rest \in Seq(Q)
  BY <1>4, SeqDef
<1>6. <<<<"report", LF>>>> \in Seq(Q)
  BY <1>3
<1>7. Report(nodes) = <<<<"report", LF>>>> \o rest
  BY DEF Report
<1> HIDE DEF rest
<1>8. QED
  BY <1>5, <1>6, <1>7, ConcatProperties DEF Q

\* The lines of one side of a comparison.
LEMMA SideIs ==
    ASSUME NEW ls \in Seq(Seq(Byte)), NEW op \in Byte
    PROVE  FlattenSeq([i \in DOMAIN ls |-> <<<<op>>, EscapeDisplay(ls[i]), <<LF>>>>]) \in Seq(Seq(Byte))
<1> DEFINE Q == Seq(Byte)
           ss == [i \in DOMAIN ls |-> <<<<op>>, EscapeDisplay(ls[i]), <<LF>>>>]
<1>1. PICK n \in Nat : DOMAIN ls = 1..n /\ \A i \in 1..n : ls[i] \in Q
  BY LenProperties, ElementOfSeq
<1>2. <<op>> \in Q /\ <<LF>> \in Q
  <2>1. LF \in Byte
    BY DEF Byte
  <2>2. QED
    BY <2>1
<1>3. \A i \in 1..n : EscapeDisplay(ls[i]) \in Q
  BY <1>1, Escaped
<1> HIDE DEF Q
<1>4. \A i \in 1..n : <<<<op>>, EscapeDisplay(ls[i]), <<LF>>>> \in Seq(Q)
  BY <1>2, <1>3
<1>5. ss \in [1..n -> Seq(Q)]
  BY <1>1, <1>4
<1>6. ss \in Seq(Seq(Q))
  BY <1>5, SeqDef
<1> HIDE DEF ss
<1>7. FlattenSeq(ss) \in Seq(Q)
  BY <1>6, FlattenType
<1>8. QED
  BY <1>7 DEF ss, Q

LEMMA DiffIs ==
    ASSUME NEW from \in Seq(Seq(Byte)), NEW to \in Seq(Seq(Byte))
    PROVE  DiffPieces(from, to) \in Seq(Seq(Byte))
<1> DEFINE Q == Seq(Byte)
           old == FlattenSeq([i \in DOMAIN from |-> <<<<"-">>, EscapeDisplay(from[i]), <<LF>>>>])
           new == FlattenSeq([i \in DOMAIN to |-> <<<<"+">>, EscapeDisplay(to[i]), <<LF>>>>])
           head == <<<<"header", LF>>, <<"hunk", LF>>>>
<1>1. "-" \in Byte /\ "+" \in Byte /\ "header" \in Byte /\ "hunk" \in Byte /\ LF \in Byte
  BY DEF Byte
<1>2. old \in Seq(Q) /\ new \in Seq(Q)
  BY <1>1, SideIs
<1>3. <<"header", LF>> \in Q /\ <<"hunk", LF>> \in Q
  BY <1>1
<1>4. DiffPieces(from, to) = IF from = to THEN <<>> ELSE (head \o old) \o new
  BY DEF DiffPieces
<1> HIDE DEF Q, old, new
<1>5. head \in Seq(Q) /\ <<>> \in Seq(Q)
  BY <1>3, EmptySeq
<1> HIDE DEF head
<1>6. (head \o old) \o new \in Seq(Q)
  BY <1>2, <1>5, ConcatProperties
<1>7. QED
  BY <1>4, <1>5, <1>6 DEF Q

LEMMA PiecesAre ==
    ASSUME Invoked, Reply = "run", Command # "browse", HasAsked
    PROVE  Pieces \in Seq(Seq(Byte))
<1>1. Command \in {"inspect", "show", "diff"} /\ options.raw \in BOOLEAN /\ texts \in [Block -> Texts]
  BY OptionsAre DEF Reading, Invoked
<1>2. CASE Command = "inspect"
  <2>1. Pieces = Report(got.undo.blocks)
    BY <1>2 DEF Pieces
  <2>2. QED
    BY <2>1, ReportIs DEF HasAsked
<1>3. CASE Command = "diff"
  <2>1. Pieces = DiffPieces(TextOf(options.nodes[1]), TextOf(options.nodes[2]))
    BY <1>3 DEF Pieces
  <2>2. QED
    BY <1>1, <1>3, <2>1, NodesAre, TextIs, DiffIs
<1>4. CASE Command = "show"
  <2>1. Pieces = StatePieces(TextOf(options.nodes[1]), options.raw, options.policy)
    BY <1>4 DEF Pieces
  <2>2. QED
    BY <1>1, <1>4, <2>1, NodesAre, TextIs, StateIs
<1>5. QED
  BY <1>1, <1>2, <1>3, <1>4

-----------------------------------------------------------------------------
(* The invariant.                                                           *)

Stage == {"start", "text", "terminal", "browser", "load", "rebuild", "write", "end"}
StageIInv ==
    /\ Invoked /\ stage \in Stage
    /\ stage = "start" => file = None
    /\ stage = "text" => Reply = "text"
    /\ stage \in {"terminal", "browser", "load", "rebuild", "write"} => Reply = "run"
    /\ stage = "browser" => Command = "browse"
    /\ stage \in {"load", "rebuild", "write"} => Command # "browse"
    /\ stage \in {"rebuild", "write"} => pc = "loaded"

OutputIInv ==
    /\ stage \notin {"write", "end"} => stdout = <<>> /\ buffered = <<>> /\ broken = FALSE
    /\ stage = "write" =>
        /\ Exportable
        /\ left \in Seq(Seq(Byte))
        /\ Accounts(stdout, buffered, FlattenSeq(left), broken, Whole)

EndIInv ==
    stage = "end" =>
        /\ status = 2 => file = None
        /\ IF status = 0 THEN \/ Command = "browse"
                              \/ stdout = Whole /\ (Reply = "run" => Exportable /\ pc = "loaded")
           ELSE stdout # <<>> => broken /\ status = 1 /\ IsStrictPrefix(stdout, Whole)

RunIInv == StageIInv /\ OutputIInv /\ EndIInv
CommandsIInv == IInv /\ AskedIInv /\ RunIInv

LEMMA CommandsInitIInv ==
    ASSUME CommandsInit, Files, LoadInit PROVE CommandsIInv
<1>1. IInv
  BY InitIInv DEF Init
<1>2. AskedIInv
  BY DEF LoadInit, AskedIInv
<1>3. RunIInv
  BY DEF RunIInv, StageIInv, OutputIInv, EndIInv, CommandsInit, LoadInit, Invoked, Stage
<1>4. QED
  BY <1>1, <1>2, <1>3 DEF CommandsIInv

\* What a command is run with, and what it is to print, stays.
Settled == UNCHANGED <<invocation, mode, needBase, asked, got>>

LEMMA StaysSettled ==
    ASSUME Settled
    PROVE  /\ Reply' = Reply /\ Command' = Command /\ Invoked' = Invoked
           /\ Exportable' = Exportable /\ Whole' = Whole /\ HasAsked' = HasAsked
<1>1. UNCHANGED <<words, env, options, terminal, texts, asked, got>>
  BY DEF Settled, invocation
<1>2. Command' = Command
  BY <1>1 DEF Command
<1>3. Reply' = Reply
  BY <1>1, <1>2 DEF Reply
<1>4. Invoked' = Invoked
  BY <1>1, <1>2 DEF Invoked
<1>5. \A n : TextOf(n)' = TextOf(n)
  BY <1>1 DEF TextOf
<1>6. Exportable' = Exportable
  BY <1>1, <1>2 DEF Exportable, TextOf
<1>7. Pieces' = Pieces
  BY <1>1, <1>2 DEF Pieces, TextOf
<1>8. HasAsked' = HasAsked
  BY <1>1 DEF HasAsked, Known
<1>9. QED
  BY <1>2, <1>3, <1>4, <1>6, <1>7, <1>8 DEF Whole

\* A step of the command alone: the load stands still.
LEMMA LoadStands ==
    ASSUME IInv, AskedIInv, UNCHANGED vars
    PROVE  IInv' /\ AskedIInv' /\ UNCHANGED <<file, pc, got, mode, needBase, asked>>
<1>1. IInv'
  BY NextIInv
<1>2. UNCHANGED <<mode, needBase, asked, pc, reading, got, file>>
  BY DEF vars, request
<1>3. AskedIInv'
  BY <1>2 DEF AskedIInv, HasAsked, Known
<1>4. QED
  BY <1>1, <1>2, <1>3

LEMMA DiagnoseIInv ==
    ASSUME RunIInv, Settled, UNCHANGED <<file, pc>>, stage \notin {"write", "end"},
           NEW s \in {1, 2}, s = 2 => stage = "start", Diagnose(s)
    PROVE  RunIInv'
<1>1. /\ stage' = "end" /\ status' \in {s, 1} /\ stdout' = stdout /\ stdout = <<>>
      /\ (s = 2 => file = None) /\ Invoked
  BY DEF Diagnose, output, RunIInv, OutputIInv, StageIInv
<1>2. Invoked'
  BY <1>1, StaysSettled
<1>3. QED
  BY <1>1, <1>2 DEF RunIInv, StageIInv, OutputIInv, EndIInv, Stage

LEMMA DispatchIInv ==
    ASSUME CommandsIInv, Dispatch PROVE RunIInv'
<1>0. RunIInv /\ StageIInv /\ OutputIInv /\ stage = "start" /\ UNCHANGED <<vars, invocation>>
  BY DEF CommandsIInv, RunIInv, Dispatch
<1>1. Settled /\ UNCHANGED <<file, pc>>
  BY <1>0 DEF Settled, vars, request
<1>2. Invoked' /\ Reply' = Reply /\ Command' = Command
  BY <1>0, <1>1, StaysSettled DEF StageIInv
<1>3. CASE Reply = "usage" /\ Diagnose(2)
  BY <1>0, <1>1, <1>3, DiagnoseIInv
<1>4. CASE Reply = "text" /\ stage' = "text" /\ UNCHANGED <<rebuilt, output, status>>
  BY <1>0, <1>2, <1>4 DEF RunIInv, StageIInv, OutputIInv, EndIInv, Stage, output
<1>5. CASE /\ Reply = "run"
           /\ stage' = IF Command = "browse" \/ options.raw THEN "terminal" ELSE "load"
           /\ UNCHANGED <<rebuilt, output, status>>
  BY <1>0, <1>2, <1>5 DEF RunIInv, StageIInv, OutputIInv, EndIInv, Stage, output
<1>6. QED
  BY <1>3, <1>4, <1>5 DEF Dispatch

LEMMA WriteTextIInv ==
    ASSUME CommandsIInv, WriteText PROVE RunIInv'
<1>0. RunIInv /\ StageIInv /\ OutputIInv /\ stage = "text" /\ UNCHANGED <<vars, invocation>> /\ stage' = "end"
  BY DEF CommandsIInv, RunIInv, WriteText
<1>1. Settled /\ Reply = "text"
  BY <1>0 DEF Settled, vars, request, StageIInv
<1>2. Invoked' /\ Reply' = Reply /\ Whole' = Whole /\ Whole = HelpText
  BY <1>0, <1>1, StaysSettled DEF StageIInv, Whole
<1>3. HelpText \in Seq(Byte) /\ Len(HelpText) = 2
  <2>1. "help" \in Byte /\ LF \in Byte
    BY DEF Byte
  <2>2. QED
    BY <2>1 DEF HelpText
<1>4. PICK n \in 0..2 : /\ stdout' = SubSeq(HelpText, 1, n)
                        /\ broken' = (n < 2)
                        /\ status' = IF n = 2 THEN 0 ELSE 1
  BY <1>3 DEF WriteText
<1>5. CASE n = 2
  <2>1. stdout' = HelpText
    BY <1>3, <1>4, <1>5, SubSeqFull
  <2>2. status' = 0
    BY <1>4, <1>5
  <2>3. QED
    BY <1>0, <1>1, <1>2, <2>1, <2>2 DEF RunIInv, StageIInv, OutputIInv, EndIInv, Stage
<1>6. CASE n # 2
  <2>1. broken' = TRUE /\ status' = 1
    <3>1. n < 2
      BY <1>4, <1>6
    <3>2. (n < 2) = TRUE
      BY <3>1
    <3>3. QED
      BY <1>4, <1>6, <3>2
  <2>2. IsStrictPrefix(SubSeq(HelpText, 1, n), HelpText)
    <3>1. /\ 1 \in 1..2+1 /\ n \in 1-1..2 /\ 2 \in n..2
      BY <1>4
    <3>2. SubSeq(HelpText, 1, n) \o SubSeq(HelpText, n + 1, 2) = HelpText
      <4>1. SubSeq(HelpText, 1, n) \o SubSeq(HelpText, n + 1, 2) = SubSeq(HelpText, 1, 2)
        BY <1>3, <3>1, ConcatAdjacentSubSeq
      <4>2. SubSeq(HelpText, 1, 2) = HelpText
        BY <1>3, SubSeqFull
      <4>3. QED
        BY <4>1, <4>2
    <3>3. /\ SubSeq(HelpText, 1, n) \in Seq(Byte) /\ SubSeq(HelpText, n + 1, 2) \in Seq(Byte)
          /\ Len(SubSeq(HelpText, n + 1, 2)) = 2 - n
      <4>1. /\ 1 \in Nat \ {0} /\ n \in Nat /\ 1 <= n + 1 /\ n <= 2
            /\ n + 1 \in Nat \ {0} /\ 2 \in Nat /\ n + 1 <= 2 + 1 /\ (2 + 1) - (n + 1) = 2 - n
        BY <1>4
      <4>2. SubSeq(HelpText, 1, n) \in Seq(Byte)
        BY ONLY <1>3, <4>1, Part
      <4>3. SubSeq(HelpText, n + 1, 2) \in Seq(Byte) /\ Len(SubSeq(HelpText, n + 1, 2)) = 2 - n
        BY ONLY <1>3, <4>1, Part
      <4>4. QED
        BY <4>2, <4>3
    <3>4. SubSeq(HelpText, n + 1, 2) # <<>>
      <4>1. 2 - n # 0
        BY <1>4, <1>6
      <4>2. Len(SubSeq(HelpText, n + 1, 2)) # 0
        BY <3>3, <4>1
      <4>3. QED
        BY <4>2, EmptySeq
    <3>5. QED
      BY <3>2, <3>3, <3>4, Extends
  <2>3. QED
    BY <1>0, <1>1, <1>2, <1>4, <2>1, <2>2 DEF RunIInv, StageIInv, OutputIInv, EndIInv, Stage
<1>7. QED
  BY <1>5, <1>6

LEMMA CheckTerminalIInv ==
    ASSUME CommandsIInv, CheckTerminal PROVE RunIInv'
<1>0. RunIInv /\ StageIInv /\ OutputIInv /\ stage = "terminal" /\ UNCHANGED <<vars, invocation>>
  BY DEF CommandsIInv, RunIInv, CheckTerminal
<1>1. Settled /\ UNCHANGED <<file, pc>>
  BY <1>0 DEF Settled, vars, request
<1>2. Invoked' /\ Reply' = Reply /\ Command' = Command
  BY <1>0, <1>1, StaysSettled DEF StageIInv
<1>3. CASE Diagnose(1)
  BY <1>0, <1>1, <1>3, DiagnoseIInv
<1>4. CASE /\ stage' = IF Command = "browse" THEN "browser" ELSE "load"
           /\ UNCHANGED <<rebuilt, output, status>>
  BY <1>0, <1>2, <1>4 DEF RunIInv, StageIInv, OutputIInv, EndIInv, Stage, output
<1>5. QED
  BY <1>3, <1>4 DEF CheckTerminal

LEMMA BrowseIInv ==
    ASSUME CommandsIInv, Browse PROVE RunIInv'
<1>0. /\ RunIInv /\ StageIInv /\ OutputIInv /\ stage = "browser" /\ UNCHANGED <<vars, invocation, output>>
      /\ stage' = "end" /\ status' \in {0, 1, 130, 129, 143}
  BY DEF CommandsIInv, RunIInv, Browse
<1>1. Settled
  BY <1>0 DEF Settled, vars, request
<1>2. Invoked' /\ Reply' = Reply /\ Command' = Command
  BY <1>0, <1>1, StaysSettled DEF StageIInv
<1>3. stdout' = <<>> /\ status' # 2 /\ Command = "browse"
  BY <1>0 DEF OutputIInv, StageIInv, output
<1>4. QED
  BY <1>0, <1>2, <1>3 DEF RunIInv, StageIInv, OutputIInv, EndIInv, Stage

LEMMA LoadStepIInv ==
    ASSUME CommandsIInv, LoadStep PROVE CommandsIInv'
<1>0. /\ IInv /\ AskedIInv /\ RunIInv /\ StageIInv /\ OutputIInv
      /\ stage = "load" /\ Step /\ UNCHANGED commandVars
  BY DEF CommandsIInv, RunIInv, LoadStep
<1>1. IInv' /\ AskedIInv'
  BY <1>0, NextIInv, StepAsked DEF Next
<1>2. UNCHANGED <<words, env, options, terminal, texts, stage, left, buffered, broken, stdout>>
  BY <1>0 DEF commandVars, invocation, output
<1>3. asked' = asked
  BY <1>0 DEF Step, LookUp, Open, StatBefore, ReadBlock, ReadEnd, StatAfter, StatName, Verify, RecheckUndo,
         RecheckSource, ResolveAgain, GiveUp, At, request
<1>4. Command' = Command
  BY <1>2 DEF Command
<1>5. Reply' = Reply
  BY <1>2, <1>4 DEF Reply
<1>6. Invoked'
  BY <1>0, <1>2, <1>3, <1>4 DEF Invoked, StageIInv
<1>7. RunIInv'
  BY <1>0, <1>2, <1>4, <1>5, <1>6 DEF RunIInv, StageIInv, OutputIInv, EndIInv
<1>8. QED
  BY <1>1, <1>7 DEF CommandsIInv

LEMMA EditsIInv ==
    ASSUME CommandsIInv, Edit, UNCHANGED commandVars PROVE CommandsIInv'
<1>0. IInv /\ AskedIInv /\ RunIInv
  BY DEF CommandsIInv
<1>1. IInv' /\ AskedIInv' /\ UNCHANGED <<request, pc, reading, file, probe, got>>
  BY <1>0, NextIInv, EditAsked DEF Next
<1>2. UNCHANGED <<invocation, stage, output, status>>
  BY DEF commandVars
<1>3. Settled
  BY <1>1, <1>2 DEF Settled, request
<1>4. /\ Invoked' = Invoked /\ Reply' = Reply /\ Command' = Command /\ Exportable' = Exportable /\ Whole' = Whole
  BY <1>3, StaysSettled
<1>5. UNCHANGED <<left, buffered, broken, stdout, stage, status, file, pc>>
  BY <1>1, <1>2 DEF output
<1>6. StageIInv' /\ OutputIInv' /\ EndIInv'
  BY <1>0, <1>4, <1>5 DEF RunIInv, StageIInv, OutputIInv, EndIInv
<1>7. QED
  BY <1>1, <1>6 DEF CommandsIInv, RunIInv

LEMMA LoadedIInv ==
    ASSUME CommandsIInv, Loaded PROVE RunIInv'
<1>0. /\ RunIInv /\ StageIInv /\ OutputIInv /\ stage = "load" /\ pc \in {"loaded", "failed"}
      /\ UNCHANGED <<vars, invocation>>
  BY DEF CommandsIInv, RunIInv, Loaded, Ended
<1>1. Settled /\ UNCHANGED <<file, pc>>
  BY <1>0 DEF Settled, vars, request
<1>2. Invoked' /\ Reply' = Reply /\ Command' = Command
  BY <1>0, <1>1, StaysSettled DEF StageIInv
<1>3. CASE Diagnose(1)
  BY <1>0, <1>1, <1>3, DiagnoseIInv
<1>4. CASE pc # "failed" /\ stage' = "rebuild" /\ UNCHANGED <<rebuilt, output, status>>
  BY <1>0, <1>1, <1>2, <1>4 DEF RunIInv, StageIInv, OutputIInv, EndIInv, Stage, output
<1>5. QED
  BY <1>3, <1>4 DEF Loaded

LEMMA RebuildIInv ==
    ASSUME CommandsIInv, Rebuild PROVE RunIInv'
<1>0. RunIInv /\ StageIInv /\ OutputIInv /\ stage = "rebuild" /\ UNCHANGED <<vars, invocation>>
  BY DEF CommandsIInv, RunIInv, Rebuild
<1>1. Settled /\ UNCHANGED <<file, pc>>
  BY <1>0 DEF Settled, vars, request
<1>2. Invoked' /\ Reply' = Reply /\ Command' = Command
  BY <1>0, <1>1, StaysSettled DEF StageIInv
<1>3. CASE Diagnose(1)
  BY <1>0, <1>1, <1>3, DiagnoseIInv
<1>4. CASE UNCHANGED <<stage, output, status>>
  BY <1>0, <1>1, <1>2, <1>4 DEF RunIInv, StageIInv, OutputIInv, EndIInv, Stage, output
<1>5. QED
  BY <1>3, <1>4 DEF Rebuild

LEMMA ComposeIInv ==
    ASSUME CommandsIInv, Compose PROVE RunIInv'
<1>0. /\ RunIInv /\ StageIInv /\ OutputIInv /\ AskedIInv /\ stage = "rebuild" /\ UNCHANGED <<vars, invocation>>
  BY DEF CommandsIInv, RunIInv, Compose
<1>1. Settled /\ UNCHANGED <<file, pc>>
  BY <1>0 DEF Settled, vars, request
<1>2. /\ Invoked' /\ Invoked /\ Reply' = Reply /\ Command' = Command /\ Exportable' = Exportable /\ Whole' = Whole
  BY <1>0, <1>1, StaysSettled DEF StageIInv
<1>3. CASE Diagnose(1)
  BY <1>0, <1>1, <1>3, DiagnoseIInv
<1>4. CASE /\ Exportable
           /\ stage' = "write" /\ left' = Pieces
           /\ UNCHANGED <<rebuilt, buffered, broken, stdout, status>>
  <2>1. Reply = "run" /\ Command # "browse" /\ HasAsked
    BY <1>0 DEF StageIInv, AskedIInv
  <2>2. Pieces \in Seq(Seq(Byte)) /\ Whole = FlattenSeq(Pieces)
    BY <1>2, <2>1, PiecesAre DEF Whole
  <2>3. stdout' = <<>> /\ buffered' = <<>> /\ broken' = FALSE
    BY <1>0, <1>4 DEF OutputIInv
  <2>4. FlattenSeq(Pieces) \in Seq(Byte) /\ <<>> \in Seq(Byte) /\ (<<>> \o <<>>) \o FlattenSeq(Pieces) = FlattenSeq(Pieces)
    <3>1. FlattenSeq(Pieces) \in Seq(Byte) /\ <<>> \in Seq(Byte)
      BY <2>2, FlattenType, EmptySeq
    <3>2. <<>> \o <<>> = <<>>
      BY <3>1, ConcatEmptySeq
    <3>3. <<>> \o FlattenSeq(Pieces) = FlattenSeq(Pieces)
      BY <3>1, ConcatEmptySeq
    <3>4. QED
      BY <3>1, <3>2, <3>3
  <2>5. Accounts(<<>>, <<>>, FlattenSeq(Pieces), FALSE, Whole)
    BY <2>2, <2>4 DEF Accounts
  <2>6. Accounts(stdout', buffered', FlattenSeq(left'), broken', Whole')
    BY <1>2, <1>4, <2>3, <2>5
  <2>7. QED
    BY <1>0, <1>1, <1>2, <1>4, <2>2, <2>6 DEF RunIInv, StageIInv, OutputIInv, EndIInv, Stage
<1>5. QED
  BY <1>3, <1>4 DEF Compose

LEMMA WriteIInv ==
    ASSUME CommandsIInv, Write PROVE RunIInv'
<1> DEFINE bytes == buffered \o Head(left)
           rest == Len(bytes) - OutputBuffer
           more == FlattenSeq(Tail(left))
           n == IF buffered = <<>> \/ rest > OutputBuffer THEN Len(bytes) ELSE OutputBuffer
<1>0. /\ RunIInv /\ StageIInv /\ OutputIInv /\ stage = "write" /\ left # <<>>
      /\ UNCHANGED <<vars, invocation, stage, rebuilt, status>> /\ left' = Tail(left)
  BY DEF CommandsIInv, RunIInv, Write
<1>1. Settled /\ UNCHANGED <<file, pc>>
  BY <1>0 DEF Settled, vars, request
<1>2. /\ Invoked' /\ Reply' = Reply /\ Command' = Command /\ Exportable' = Exportable /\ Whole' = Whole
  BY <1>0, <1>1, StaysSettled DEF StageIInv
<1>3. /\ Exportable /\ left \in Seq(Seq(Byte))
      /\ Accounts(stdout, buffered, FlattenSeq(left), broken, Whole)
  BY <1>0 DEF OutputIInv
<1>4. /\ FlattenSeq(left) = Head(left) \o more
      /\ Head(left) \in Seq(Byte) /\ Tail(left) \in Seq(Seq(Byte)) /\ more \in Seq(Byte)
  BY <1>0, <1>3, FlattenFirst
<1>5. /\ IF broken THEN UNCHANGED <<buffered, broken, stdout>>
         ELSE IF rest <= 0 THEN buffered' = bytes /\ UNCHANGED <<broken, stdout>>
         ELSE Emit(bytes, n)
  BY DEF Write
<1>6. stdout \in Seq(Byte) /\ buffered \in Seq(Byte) /\ broken \in BOOLEAN
  BY <1>3 DEF Accounts
<1>7. bytes \in Seq(Byte)
  BY <1>4, <1>6, ConcatProperties
<1>8. Len(bytes) \in Nat
  BY <1>7, LenProperties
<1> HIDE DEF bytes, more
<1>9. Accounts(stdout', buffered', more, broken', Whole)
  <2>1. CASE broken
    <3>1. UNCHANGED <<buffered, broken, stdout>>
      BY <1>5, <2>1
    <3>2. QED
      BY <1>3, <1>4, <2>1, <3>1 DEF Accounts
  <2>2. CASE ~broken
    <3>0. broken = FALSE
      BY <1>6, <2>2
    <3>1. (stdout \o buffered) \o FlattenSeq(left) = Whole
      BY <1>3, <2>2 DEF Accounts
    <3>2. (stdout \o bytes) \o more = Whole
      <4>1. Regroups(stdout, buffered, Head(left)) /\ stdout \o buffered \in Seq(Byte)
        BY <1>4, <1>6, Regrouped
      <4>2. stdout \o bytes = (stdout \o buffered) \o Head(left)
        BY <4>1 DEF Regroups, bytes
      <4>3. Regroups(stdout \o buffered, Head(left), more)
        BY <1>4, <4>1, Regrouped
      <4>4. ((stdout \o buffered) \o Head(left)) \o more = (stdout \o buffered) \o (Head(left) \o more)
        BY <4>3 DEF Regroups
      <4>5. QED
        BY <1>4, <3>1, <4>2, <4>4
    <3>3. CASE rest <= 0
      <4>1. buffered' = bytes /\ UNCHANGED <<broken, stdout>>
        BY <1>5, <2>2, <3>3
      <4>2. QED
        BY <1>4, <1>6, <1>7, <3>0, <3>2, <4>1 DEF Accounts
    <3>4. CASE ~(rest <= 0)
      <4>1. Emit(bytes, n)
        BY <1>5, <2>2, <3>4
      <4>2. n \in Nat /\ n <= Len(bytes)
        BY <1>8, <3>4, CommandsAssumption
      <4> HIDE DEF n
      <4>3. QED
        BY <1>4, <1>6, <1>7, <3>2, <4>1, <4>2, EmitAccounts
    <3>5. QED
      BY <3>3, <3>4
  <2>3. QED
    BY <2>1, <2>2
<1>10. left' \in Seq(Seq(Byte)) /\ FlattenSeq(left') = more
  BY <1>0, <1>4 DEF more
<1>11. Accounts(stdout', buffered', FlattenSeq(left'), broken', Whole')
  BY <1>2, <1>9, <1>10
<1>12. QED
  BY <1>0, <1>1, <1>2, <1>3, <1>10, <1>11 DEF RunIInv, StageIInv, OutputIInv, EndIInv, Stage

LEMMA FinishIInv ==
    ASSUME CommandsIInv, Finish PROVE RunIInv'
<1>0. /\ RunIInv /\ StageIInv /\ OutputIInv /\ stage = "write" /\ left = <<>>
      /\ UNCHANGED <<vars, invocation, rebuilt, left>> /\ stage' = "end"
      /\ status' = IF broken' THEN 1 ELSE 0
      /\ IF broken THEN UNCHANGED <<buffered, broken, stdout>> ELSE Emit(buffered, Len(buffered))
  BY DEF CommandsIInv, RunIInv, Finish
<1>1. Settled /\ UNCHANGED <<file, pc>>
  BY <1>0 DEF Settled, vars, request
<1>2. /\ Invoked' /\ Reply' = Reply /\ Command' = Command /\ Exportable' = Exportable /\ Whole' = Whole
  BY <1>0, <1>1, StaysSettled DEF StageIInv
<1>3. /\ Exportable /\ pc = "loaded" /\ Accounts(stdout, buffered, <<>>, broken, Whole)
  BY <1>0, FlattenNone DEF OutputIInv, StageIInv
<1>4. stdout \in Seq(Byte) /\ buffered \in Seq(Byte) /\ <<>> \in Seq(Byte) /\ broken \in BOOLEAN
  BY <1>3 DEF Accounts
<1>5. CASE broken
  <2>1. stdout' = stdout /\ broken' = broken
    BY <1>0, <1>5
  <2>2. status' = 1 /\ IsStrictPrefix(stdout, Whole)
    BY <1>0, <1>3, <1>5, <2>1 DEF Accounts
  <2>3. QED
    BY <1>0, <1>1, <1>2, <1>5, <2>1, <2>2 DEF RunIInv, StageIInv, OutputIInv, EndIInv, Stage
<1>6. CASE ~broken
  <2>1. Emit(buffered, Len(buffered)) /\ Len(buffered) \in Nat /\ Len(buffered) <= Len(buffered)
    BY <1>0, <1>4, <1>6, LenProperties
  <2>2. (stdout \o buffered) \o <<>> = Whole
    BY <1>3, <1>6 DEF Accounts
  <2>3. /\ Accounts(stdout', buffered', <<>>, broken', Whole)
        /\ ~broken' => buffered' = <<>>
    BY <1>4, <2>1, <2>2, EmitAccounts
  <2>4. CASE broken'
    <3>1. status' = 1 /\ IsStrictPrefix(stdout', Whole)
      BY <1>0, <2>3, <2>4 DEF Accounts
    <3>2. QED
      BY <1>0, <1>1, <1>2, <2>4, <3>1 DEF RunIInv, StageIInv, OutputIInv, EndIInv, Stage
  <2>5. CASE ~broken'
    <3>1. status' = 0
      BY <1>0, <2>5
    <3>2. (stdout' \o <<>>) \o <<>> = Whole /\ stdout' \in Seq(Byte)
      BY <2>3, <2>5 DEF Accounts
    <3>3. stdout' \o <<>> = stdout'
      BY <3>2, ConcatEmptySeq
    <3>4. stdout' = Whole
      BY <3>2, <3>3
    <3>5. QED
      BY <1>0, <1>1, <1>2, <1>3, <3>1, <3>4 DEF RunIInv, StageIInv, OutputIInv, EndIInv, Stage
  <2>6. QED
    BY <2>4, <2>5
<1>7. QED
  BY <1>5, <1>6

LEMMA CommandsNextIInv ==
    CommandsIInv /\ [CommandsNext \/ (Edit /\ UNCHANGED commandVars)]_allVars => CommandsIInv'
<1> SUFFICES ASSUME CommandsIInv, [CommandsNext \/ (Edit /\ UNCHANGED commandVars)]_allVars
             PROVE  CommandsIInv'
  OBVIOUS
<1>0. IInv /\ AskedIInv /\ RunIInv
  BY DEF CommandsIInv
<1>1. UNCHANGED vars => IInv' /\ AskedIInv'
  BY <1>0, LoadStands
<1>2. CASE Dispatch
  BY <1>1, <1>2, DispatchIInv DEF CommandsIInv, Dispatch
<1>3. CASE WriteText
  BY <1>1, <1>3, WriteTextIInv DEF CommandsIInv, WriteText
<1>4. CASE CheckTerminal
  BY <1>1, <1>4, CheckTerminalIInv DEF CommandsIInv, CheckTerminal
<1>5. CASE Browse
  BY <1>1, <1>5, BrowseIInv DEF CommandsIInv, Browse
<1>6. CASE LoadStep
  BY <1>6, LoadStepIInv
<1>7. CASE Loaded
  BY <1>1, <1>7, LoadedIInv DEF CommandsIInv, Loaded
<1>8. CASE Rebuild
  BY <1>1, <1>8, RebuildIInv DEF CommandsIInv, Rebuild
<1>9. CASE Compose
  BY <1>1, <1>9, ComposeIInv DEF CommandsIInv, Compose
<1>10. CASE Write
  BY <1>1, <1>10, WriteIInv DEF CommandsIInv, Write
<1>11. CASE Finish
  BY <1>1, <1>11, FinishIInv DEF CommandsIInv, Finish
<1>12. CASE Edit /\ UNCHANGED commandVars
  BY <1>12, EditsIInv
<1>13. CASE UNCHANGED allVars
  <2>1. UNCHANGED vars /\ UNCHANGED <<invocation, stage, output, status, got, mode, needBase, asked, file, pc>>
    BY <1>13 DEF allVars, commandVars, vars, request
  <2>2. /\ Invoked' = Invoked /\ Reply' = Reply /\ Command' = Command /\ Exportable' = Exportable /\ Whole' = Whole
    BY <2>1, StaysSettled DEF Settled
  <2>3. UNCHANGED <<left, buffered, broken, stdout, stage, status, file, pc>>
    BY <2>1 DEF output
  <2>4. StageIInv' /\ OutputIInv' /\ EndIInv'
    BY <1>0, <2>2, <2>3 DEF RunIInv, StageIInv, OutputIInv, EndIInv
  <2>5. QED
    BY <1>1, <2>1, <2>4 DEF CommandsIInv, RunIInv
<1>14. QED
  BY <1>2, <1>3, <1>4, <1>5, <1>6, <1>7, <1>8, <1>9, <1>10, <1>11, <1>12, <1>13 DEF CommandsNext

LEMMA ExportIs ==
    ASSUME CommandsIInv PROVE ExportIsABase
<1> SUFFICES ASSUME stage = "end", status = 0, Reply = "run", Command = "show", options.raw PROVE
        LET lines == TextOf(options.nodes[1])
            back == SplitBase(stdout)
        IN IF back.refused THEN \E i \in DOMAIN lines : Awkward(lines[i])
           ELSE back.lines = IF options.policy # "include" /\ LastIsEmpty(lines) THEN Front(lines) ELSE lines
  BY DEF ExportIsABase
<1> DEFINE ls == TextOf(options.nodes[1])
<1>1. Invoked /\ stdout = Whole /\ Exportable /\ HasAsked
  BY DEF CommandsIInv, RunIInv, StageIInv, EndIInv, AskedIInv
<1>2. options.nodes[1] \in Block /\ texts \in [Block -> Texts]
  BY <1>1, NodesAre DEF Invoked
<1>3. /\ ls \in Seq(Seq(Byte)) /\ ls # <<>> /\ Len(ls) <= StateLineLimit
      /\ \A i \in 1..Len(ls) : Len(ls[i]) <= LineByteLimit /\ ~Contains(ls[i], LF)
  BY <1>2, TextIs
<1>4. options.raw = TRUE
  BY <1>1, OptionsAre
<1>5. Whole = FlattenSeq(StatePieces(ls, TRUE, options.policy))
  BY <1>4 DEF Whole, Pieces
<1>6. \A i \in DOMAIN ls : RawLine(ls[i])
  BY <1>1 DEF Exportable
<1> HIDE DEF ls
<1>7. RawText(ls)
  BY <1>3, <1>6, LenProperties DEF RawText
<1>8. ReadsBack(ls, options.policy, stdout)
  BY <1>1, <1>3, <1>5, <1>7, RawReadsBack
<1>9. QED
  BY <1>8 DEF ReadsBack, Foul, ls

LEMMA CommandsIInvIsWhole == CommandsIInv => OutputIsWhole
<1> SUFFICES ASSUME CommandsIInv PROVE OutputIsWhole
  OBVIOUS
<1>1. WholeOrNothing
  BY DEF CommandsIInv, RunIInv, EndIInv, WholeOrNothing
<1>2. CheckedBeforeTheBase
  BY DEF CommandsIInv, AskedIInv, HasAsked, Known, CheckedBeforeTheBase
<1>3. QED
  BY <1>1, <1>2, ExportIs DEF OutputIsWhole

(* Of every command (cmd/xunhen), with any arguments, however its inputs    *)
(* change while they are loaded and at whichever byte a write fails: status *)
(* 0 promises the whole output, anything printed otherwise is the beginning *)
(* of it before a failed write; a raw export reads back as a base (show.go, *)
(* input.go); and a node that the undo file of an explicit load does not    *)
(* have is found missing before the base is opened (load.go).               *)
THEOREM WholeOutput == CommandsSpec => []OutputIsWhole
<1>1. CommandsSpec => CommandsIInv /\ [][CommandsNext \/ (Edit /\ UNCHANGED commandVars)]_allVars
  BY CommandsInitIInv DEF CommandsSpec
<1>2. QED
  BY <1>1, CommandsNextIInv, CommandsIInvIsWhole, PTL

(* The load of every command (load.go, input.go) saw its inputs in one      *)
(* moment: OneMoment, of the files and nodes that the arguments ask for.    *)
THEOREM CommandsLook == CommandsSpec => []LoadIsALook
<1>1. CommandsSpec => CommandsIInv /\ [][CommandsNext \/ (Edit /\ UNCHANGED commandVars)]_allVars
  BY CommandsInitIInv DEF CommandsSpec
<1>2. CommandsIInv => LoadIsALook
  BY DEF CommandsIInv, IInv, MomentIInv
<1>3. QED
  BY <1>1, <1>2, CommandsNextIInv, PTL

==============================================================================
