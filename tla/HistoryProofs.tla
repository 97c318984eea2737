---------------------------- MODULE HistoryProofs ----------------------------
(* What New makes of any file: it accepts the files that are trees and no    *)
(* others, and the walk visits a tree in recorded branch order.  And what    *)
(* Replay makes of any file that New accepts: it goes the one way there is   *)
(* between two states, within the limits, from text to text.  And what both  *)
(* make of a file that an editor wrote: New takes it, and Replay ends in the *)
(* text that the editor had.                                                *)
EXTENDS Reader, Foundations

\* A decoded file has records with numbers; nothing is known of its links.
AnyFile ==
    /\ Len(file.records) \in Nat /\ DOMAIN file.records = 1..Len(file.records)
    /\ \A i \in DOMAIN file.records : file.records[i].sequence \in Nat
    /\ file.last \in Nat

HistorySpec == AnyFile /\ Opened /\ [][HistoryNext]_historyVars

LEMMA NodesAreNumbers ==
    ASSUME AnyFile
    PROVE  Nodes \subseteq Nat /\ 0 \in Nodes /\ IsFiniteSet(Nodes) /\ IsFiniteSet(Sequences)
<1>1. Nodes \subseteq Nat /\ 0 \in Nodes
  BY DEF AnyFile, Nodes, Sequences
<1>2. IsFiniteSet(Sequences)
  <2> DEFINE number(i) == file.records[i].sequence
             numbers == [i \in 1..Len(file.records) |-> number(i)]
  <2>1. IsFiniteSet(1..Len(file.records))
    BY FS_Interval DEF AnyFile
  <2>2. numbers \in Surjection(1..Len(file.records), Sequences)
    BY DEF AnyFile, Sequences, Surjection
  <2>3. QED
    BY <2>1, <2>2, FS_Surjection
<1>3. QED
  BY <1>1, <1>2, FS_AddElement DEF Nodes

-----------------------------------------------------------------------------
(* What the checks of the passes say of the file.                           *)

Indexed == \A i \in DOMAIN file.records : RecordHolds(i)

Linked == \A id \in Nodes : LinksHold(id)

\* indexRecords compares no two numbers of different records, and counts them
\* all the same.
LEMMA IndexedIs ==
    ASSUME AnyFile
    PROVE  Indexed <=> /\ Cardinality(Sequences) = Len(file.records)
                       /\ Sequences \subseteq 1..file.last
                       /\ \A i \in DOMAIN file.records :
                            file.records[i].save = NoSave \/ file.lastSave = NoSave
                               \/ file.records[i].save <= file.lastSave
<1> DEFINE n == Len(file.records)
           number(i) == file.records[i].sequence
           numbers == [i \in 1..n |-> number(i)]
<1>1. IsFiniteSet(1..n) /\ Cardinality(1..n) = n
  BY FS_Interval, SMTT(30) DEF AnyFile
<1>2. numbers \in Surjection(1..n, Sequences)
  BY DEF AnyFile, Sequences, Surjection
<1>3. Cardinality(Sequences) = n <=> numbers \in Injection(1..n, Sequences)
  BY <1>1, <1>2, FS_Surjection
<1>4. numbers \in Injection(1..n, Sequences) <=> \A i, j \in 1..n : number(i) = number(j) => i = j
  BY <1>2 DEF Injection, IsInjective, Surjection
<1>5. (\A i, j \in 1..n : number(i) = number(j) => i = j)
        <=> \A i \in 1..n : \A j \in 1..i-1 : number(j) # number(i)
  <2>1. n \in Nat
    BY DEF AnyFile
  <2> HIDE DEF number, n
  <2>2. QED
    BY <2>1
<1>6. Sequences \subseteq 1..file.last <=> \A i \in 1..n : number(i) # 0 /\ number(i) <= file.last
  BY DEF AnyFile, Sequences
<1>7. QED
  BY <1>3, <1>4, <1>5, <1>6 DEF Indexed, RecordHolds, AnyFile

LEMMA IndexedRoot == ASSUME AnyFile, Indexed PROVE 0 \notin Sequences
BY DEF AnyFile, Indexed, RecordHolds, Sequences

-----------------------------------------------------------------------------
(* The children of a state, from the preferred one along the links.         *)

IsChain(f, id) ==
    /\ f \in [Nat -> Nodes]
    /\ f[0] = NodeInfo(id).preferred
    /\ \A n \in Nat : f[n+1] = NodeInfo(f[n]).next

LEMMA ChainExists ==
    ASSUME AnyFile, Linked, NEW id \in Nodes
    PROVE  \E f : IsChain(f, id)
<1> DEFINE F == [p \in Nat \X Nodes |-> NodeInfo(p[2]).next]
           a == NodeInfo(id).preferred
<1>1. a \in Nodes /\ F \in [Nat \X Nodes -> Nodes]
  BY DEF Linked, LinksHold
<1>2. PICK f \in [Nat -> Nodes] : IsRecursive(f, a, F)
  <2> HIDE DEF a, F
  <2>1. QED
    BY <1>1, Recursion
<1>3. f[0] = a
  BY <1>2 DEF IsRecursive
<1>4. ASSUME NEW n \in Nat PROVE f[n+1] = NodeInfo(f[n]).next
  <2>1. n + 1 \in Nat /\ n + 1 # 0 /\ (n + 1) - 1 = n
    OBVIOUS
  <2>2. f[n+1] = F[<<n + 1, f[n]>>]
    <3> HIDE DEF F, a
    <3>1. QED
      BY <1>2, <2>1 DEF IsRecursive
  <2>3. QED
    BY <2>1, <2>2
<1>5. QED
  BY <1>3, <1>4 DEF IsChain

LEMMA ChainLinks ==
    ASSUME AnyFile, 0 \notin Sequences, Linked, NEW id \in Nodes, NEW f, IsChain(f, id),
           NEW n \in Nat, f[n] # 0
    PROVE  /\ f[n] \in Children(id)
           /\ n = 0 => NodeInfo(f[n]).previous = 0
           /\ n > 0 => f[n-1] # 0 /\ NodeInfo(f[n]).previous = f[n-1]
<1> DEFINE S == {k \in Nat : f[k] # 0 => f[k] \in Children(id)}
<1>1. 0 \in S
  BY DEF IsChain, Linked, LinksHold, Children, Parent, Nodes
<1>2. ASSUME NEW k \in Nat, f[k+1] # 0 PROVE f[k] # 0 /\ NodeInfo(f[k+1]).previous = f[k]
                                             /\ Parent(f[k+1]) = Parent(f[k])
  <2>1. f[k] # 0
    BY <1>2 DEF IsChain, NodeInfo
  <2>2. QED
    BY <1>2, <2>1 DEF IsChain, Linked, LinksHold, Parent
<1>3. ASSUME NEW k \in Nat, k \in S PROVE k + 1 \in S
  BY <1>2, <1>3 DEF IsChain, Children, Nodes
<1>4. Nat \subseteq S
  <2> HIDE DEF S
  <2>1. QED
    BY <1>1, <1>3, SetInduction
<1>5. CASE n = 0
  BY <1>4, <1>5 DEF IsChain, Linked, LinksHold
<1>6. CASE n > 0
  <2>1. n - 1 \in Nat /\ (n - 1) + 1 = n
    BY <1>6
  <2>2. QED
    BY <1>2, <1>4, <1>6, <2>1
<1>7. QED
  BY <1>5, <1>6

\* A chain does not come back to a child, so it ends.
LEMMA ChainOnce ==
    ASSUME AnyFile, 0 \notin Sequences, Linked, NEW id \in Nodes, NEW f, IsChain(f, id),
           NEW m \in Nat, NEW n \in Nat, m < n, f[n] # 0
    PROVE  f[m] # 0 /\ f[m] # f[n]
<1> DEFINE S == {k \in Nat : \A j \in Nat : k < j /\ f[j] # 0 => f[k] # 0 /\ f[k] # f[j]}
<1>1. ASSUME NEW k \in Nat, NEW j \in Nat, k < j, f[j] # 0 PROVE f[k] # 0
  <2> DEFINE Z == {i \in Nat : i <= j => f[j - i] # 0}
  <2>1. 0 \in Z
    BY <1>1
  <2>2. ASSUME NEW i \in Nat, i \in Z PROVE i + 1 \in Z
    <3> SUFFICES ASSUME i + 1 <= j PROVE f[j - (i + 1)] # 0
      OBVIOUS
    <3>1. j - i \in Nat /\ j - i > 0 /\ (j - i) - 1 = j - (i + 1) /\ f[j - i] # 0
      BY <2>2
    <3>2. QED
      BY <3>1, ChainLinks
  <2>3. Nat \subseteq Z
    <3> HIDE DEF Z
    <3>1. QED
      BY <2>1, <2>2, SetInduction
  <2>4. j - k \in Nat /\ j - k <= j /\ j - (j - k) = k
    BY <1>1
  <2>5. QED
    BY <2>3, <2>4
<1>2. 0 \in S
  BY <1>1, ChainLinks
<1>3. ASSUME NEW k \in Nat, k \in S PROVE k + 1 \in S
  <2> SUFFICES ASSUME NEW j \in Nat, k + 1 < j, f[j] # 0, f[k+1] = f[j] PROVE FALSE
    BY <1>1
  <2>1. j - 1 \in Nat /\ k < j - 1 /\ j > 0 /\ k + 1 > 0 /\ (k + 1) - 1 = k
    OBVIOUS
  <2>2. NodeInfo(f[k+1]).previous = f[k]
    BY <2>1, ChainLinks
  <2>3. NodeInfo(f[j]).previous = f[j-1] /\ f[j-1] # 0
    BY <2>1, ChainLinks
  <2>4. QED
    BY <1>3, <2>1, <2>2, <2>3
<1>4. Nat \subseteq S
  <2> HIDE DEF S
  <2>1. QED
    BY <1>2, <1>3, SetInduction
<1>5. QED
  BY <1>4

LEMMA ChainEnds ==
    ASSUME AnyFile, 0 \notin Sequences, Linked, NEW id \in Nodes, NEW f, IsChain(f, id)
    PROVE  \E k \in Nat : f[k] = 0 /\ \A n \in 0..k-1 : f[n] # 0
<1> DEFINE Z == {k \in Nat : f[k] = 0}
           n == Cardinality(Nodes)
<1>1. Z # {}
  <2> SUFFICES ASSUME \A k \in Nat : f[k] # 0 PROVE FALSE
    OBVIOUS
  <2>1. n \in Nat /\ IsFiniteSet(Nodes)
    BY NodesAreNumbers, FS_CardinalityType
  <2> HIDE DEF n
  <2>2. IsFiniteSet(0..n) /\ Cardinality(0..n) = n + 1
    BY <2>1, FS_Interval
  <2> DEFINE g == [k \in 0..n |-> f[k]]
  <2>3. g \in [0..n -> Nodes]
    BY <2>1 DEF IsChain
  <2> HIDE DEF g
  <2>4. PICK x, y \in 0..n : x # y /\ g[x] = g[y]
    BY <2>1, <2>2, <2>3, FS_PigeonHole DEF n
  <2>5. f[x] = f[y] /\ x \in Nat /\ y \in Nat /\ (x < y \/ y < x)
    BY <2>1, <2>4 DEF g
  <2>6. QED
    BY <2>5, ChainOnce
<1>2. PICK k \in Z : \A j \in Z : k <= j
  <2>1. Z \in SUBSET Nat
    OBVIOUS
  <2> HIDE DEF Z
  <2>2. QED
    BY <1>1, <2>1, LeastNumber
<1>3. QED
  BY <1>2

\* A chain that has every child puts the children in the order that WellFormed
\* asks for.
LEMMA OrderedChildren ==
    ASSUME AnyFile, 0 \notin Sequences, Linked, NEW id \in Nodes, NEW f, IsChain(f, id),
           \A c \in Children(id) : \E n \in Nat : f[n] = c
    PROVE  \E s \in SetToSeqs(Children(id)) : LinkedAs(id, s)
<1>1. PICK k \in Nat : f[k] = 0 /\ \A n \in 0..k-1 : f[n] # 0
  BY ChainEnds
<1> DEFINE s == [i \in 1..k |-> f[i-1]]
<1>2. \A n \in Nat : n > k => f[n] = 0
  BY <1>1, ChainOnce
<1>3. \A i \in 1..k : i - 1 \in Nat /\ s[i] = f[i-1] /\ f[i-1] # 0 /\ s[i] \in Children(id)
  BY <1>1, ChainLinks
<1>4. s \in [1..k -> Children(id)] /\ \A i, j \in 1..k : i # j => s[i] # s[j]
  <2>1. \A i, j \in 1..k : i < j => s[i] # s[j]
    BY <1>3, ChainOnce
  <2>2. \A i, j \in 1..k : i # j => i < j \/ j < i
    OBVIOUS
  <2>3. s \in [1..k -> Children(id)]
    BY <1>3
  <2> HIDE DEF s
  <2>4. QED
    BY <2>1, <2>2, <2>3
<1>5. \A c \in Children(id) : \E i \in 1..k : s[i] = c
  <2> TAKE c \in Children(id)
  <2>1. PICK n \in Nat : f[n] = c
    OBVIOUS
  <2>2. c # 0
    BY DEF Children
  <2>3. n < k
    BY <1>1, <1>2, <2>1, <2>2
  <2>4. n + 1 \in 1..k /\ (n + 1) - 1 = n
    BY <2>3
  <2>5. s[n + 1] = c
    BY <2>1, <2>4
  <2>6. QED
    BY <2>4, <2>5
<1>6. Cardinality(Children(id)) = k
  <2> HIDE DEF s
  <2>1. s \in Bijection(1..k, Children(id))
    BY <1>4, <1>5 DEF Bijection, Injection, Surjection, IsInjective
  <2>2. IsFiniteSet(1..k) /\ Cardinality(1..k) = k
    BY FS_Interval
  <2>3. QED
    BY <2>1, <2>2, FS_Bijection DEF ExistsBijection
<1>7. s \in SetToSeqs(Children(id))
  <2> HIDE DEF s
  <2>1. QED
    BY <1>4, <1>6 DEF SetToSeqs
<1>8. LinkedAs(id, s)
  <2>1. Len(s) = k /\ DOMAIN s = 1..k /\ (s = <<>> <=> k = 0)
    <3>1. s \in Seq(Children(id)) /\ DOMAIN s = 1..k
      <4> HIDE DEF s
      <4>1. QED
        BY <1>4, SeqDef
    <3> HIDE DEF s
    <3>2. Len(s) \in Nat /\ DOMAIN s = 1..Len(s)
      BY <3>1, LenProperties
    <3>3. Len(s) = k
      BY <3>1, <3>2, SameLength
    <3>4. QED
      BY <3>1, <3>3, EmptySeq
  <2>2. NodeInfo(id).preferred = (IF s = <<>> THEN 0 ELSE s[1])
    <3>1. CASE k = 0
      BY <1>1, <2>1, <3>1 DEF IsChain
    <3>2. CASE k # 0
      <4>1. 1 \in 1..k /\ s[1] = f[0]
        BY <3>2
      <4> HIDE DEF s
      <4>2. QED
        BY <2>1, <3>2, <4>1 DEF IsChain
    <3>3. QED
      BY <3>1, <3>2
  <2>3. ASSUME NEW i \in 1..k
        PROVE  /\ NodeInfo(s[i]).previous = (IF i = 1 THEN 0 ELSE s[i-1])
               /\ NodeInfo(s[i]).next = (IF i = Len(s) THEN 0 ELSE s[i+1])
    <3>1. i - 1 \in Nat /\ s[i] = f[i-1] /\ f[i-1] # 0 /\ (i - 1) + 1 = i
      BY <1>3
    <3>2. NodeInfo(s[i]).previous = (IF i = 1 THEN 0 ELSE s[i-1])
      <4>1. CASE i = 1
        BY <3>1, <4>1, ChainLinks
      <4>2. CASE i # 1
        <5>1. i - 1 > 0 /\ i - 1 \in 1..k
          BY <4>2
        <5>2. s[i-1] = f[(i-1)-1]
          BY <1>3, <5>1
        <5>3. QED
          BY <3>1, <4>2, <5>1, <5>2, ChainLinks
      <4>3. QED
        BY <4>1, <4>2
    <3>3. NodeInfo(s[i]).next = f[i]
      BY <3>1 DEF IsChain
    <3>4. i # k => i + 1 \in 1..k /\ (i + 1) - 1 = i
      OBVIOUS
    <3>5. i # k => s[i+1] = f[i]
      BY <1>3, <3>4
    <3> HIDE DEF s
    <3>6. QED
      BY <1>1, <2>1, <3>2, <3>3, <3>5
  <2> HIDE DEF s
  <2>4. QED
    BY <2>1, <2>2, <2>3 DEF LinkedAs
<1>9. QED
  BY <1>7, <1>8

\* A well-ordered list of children has them all, none twice.
LEMMA ListedChildren ==
    ASSUME AnyFile, NEW id, NEW s \in SetToSeqs(Children(id))
    PROVE  /\ Len(s) \in Nat /\ DOMAIN s = 1..Len(s) /\ (s = <<>> <=> Len(s) = 0)
           /\ \A i \in 1..Len(s) : s[i] \in Children(id)
           /\ \A i, j \in 1..Len(s) : i # j => s[i] # s[j]
           /\ \A c \in Children(id) : \E i \in 1..Len(s) : s[i] = c
<1> DEFINE n == Cardinality(Children(id))
<1>1. IsFiniteSet(Children(id)) /\ n \in Nat
  BY NodesAreNumbers, FS_Subset, FS_CardinalityType DEF Children
<1>2. s \in [1..n -> Children(id)] /\ \A i, j \in 1..n : i # j => s[i] # s[j]
  BY DEF SetToSeqs
<1> HIDE DEF n
<1>3. s \in Seq(Children(id))
  BY <1>1, <1>2, SeqDef
<1>4. Len(s) = n
  <2>1. Len(s) \in Nat /\ DOMAIN s = 1..Len(s) /\ DOMAIN s = 1..n
    BY <1>2, <1>3, LenProperties
  <2>2. QED
    BY <1>1, <2>1, SameLength
<1>5. s \in Surjection(1..n, Children(id))
  <2>1. s \in Injection(1..n, Children(id))
    BY <1>2 DEF Injection, IsInjective
  <2>2. Cardinality(1..n) = Cardinality(Children(id))
    BY <1>1, FS_Interval DEF n
  <2>3. QED
    BY <1>1, <2>1, <2>2, FS_Injection
<1>6. QED
  BY <1>1, <1>2, <1>3, <1>4, <1>5, EmptySeq DEF Surjection

\* The order of the children is all that the links say, so each check of
\* validateLinks follows from it.
LEMMA OrderedIsLinked ==
    ASSUME AnyFile, 0 \notin Sequences,
           \A id \in Sequences : Parent(id) \in Nodes /\ Parent(id) < id,
           \A id \in Nodes : \E s \in SetToSeqs(Children(id)) : LinkedAs(id, s)
    PROVE  Linked
<1> SUFFICES ASSUME NEW id \in Nodes PROVE LinksHold(id)
  BY DEF Linked
<1>a. \A p : Children(p) \subseteq Nodes \ {0} /\ \A c \in Children(p) : Parent(c) = p
  BY DEF Children, Nodes
<1>1. PICK s \in SetToSeqs(Children(id)) : LinkedAs(id, s)
  OBVIOUS
<1>2. NodeInfo(id).preferred # 0 =>
         /\ NodeInfo(id).preferred \in Nodes
         /\ Parent(NodeInfo(id).preferred) = id
         /\ NodeInfo(NodeInfo(id).preferred).previous = 0
  <2>1. /\ Len(s) \in Nat /\ DOMAIN s = 1..Len(s) /\ (s = <<>> <=> Len(s) = 0)
        /\ \A i \in 1..Len(s) : s[i] \in Children(id)
    BY ListedChildren
  <2> SUFFICES ASSUME NodeInfo(id).preferred # 0
               PROVE  /\ s[1] \in Nodes /\ Parent(s[1]) = id /\ NodeInfo(s[1]).previous = 0
                      /\ NodeInfo(id).preferred = s[1]
    OBVIOUS
  <2>2. NodeInfo(id).preferred = s[1] /\ s # <<>>
    BY <1>1 DEF LinkedAs
  <2>3. 1 \in DOMAIN s
    BY <2>1, <2>2
  <2>4. QED
    BY <1>1, <1>a, <2>1, <2>2, <2>3 DEF LinkedAs
<1>3. CASE id = 0
  <2>1. NodeInfo(0) = [parent |-> 0, preferred |-> file.oldest, next |-> 0, previous |-> 0]
    BY DEF NodeInfo
  <2>2. 0 \in Nodes
    BY DEF Nodes
  <2>3. QED
    BY <1>2, <1>3, <2>1, <2>2 DEF LinksHold, Parent
<1>4. CASE id # 0
  <2> DEFINE p == Parent(id)
  <2>1. id \in Children(p) /\ p \in Nodes /\ p < id
    BY <1>4 DEF Children, Nodes
  <2>2. PICK t \in SetToSeqs(Children(p)) : LinkedAs(p, t)
    BY <2>1
  <2>3. /\ Len(t) \in Nat /\ DOMAIN t = 1..Len(t) /\ (t = <<>> <=> Len(t) = 0)
        /\ \A i \in 1..Len(t) : t[i] \in Children(p)
        /\ \A i, j \in 1..Len(t) : i # j => t[i] # t[j]
        /\ \A c \in Children(p) : \E i \in 1..Len(t) : t[i] = c
    BY ListedChildren
  <2>4. PICK i \in 1..Len(t) : t[i] = id
    BY <2>1, <2>3
  <2>5. /\ NodeInfo(p).preferred = t[1]
        /\ \A j \in 1..Len(t) :
             /\ NodeInfo(t[j]).previous = (IF j = 1 THEN 0 ELSE t[j-1])
             /\ NodeInfo(t[j]).next = (IF j = Len(t) THEN 0 ELSE t[j+1])
    <3>1. t # <<>>
      BY <2>3, <2>4
    <3>2. QED
      BY <2>2, <2>3, <3>1 DEF LinkedAs
  <2>a. i \in Int /\ 1 <= i /\ i <= Len(t) /\ Len(t) \in Int
    BY <2>3, <2>4
  <2>6. NodeInfo(id).previous = 0 => NodeInfo(p).preferred = id
    <3>1. CASE i = 1
      BY <2>4, <2>5, <3>1
    <3>2. CASE i # 1
      <4>1. i - 1 \in 1..Len(t)
        BY <2>3, <3>2
      <4>2. QED
        BY <1>a, <2>3, <2>4, <2>5, <3>2, <4>1
    <3>3. QED
      BY <3>1, <3>2
  <2>7. NodeInfo(id).next # 0 =>
           /\ NodeInfo(id).next \in Nodes /\ NodeInfo(id).next # id
           /\ Parent(NodeInfo(id).next) = p
           /\ NodeInfo(NodeInfo(id).next).previous = id
    <3> SUFFICES ASSUME NodeInfo(id).next # 0
                 PROVE  /\ NodeInfo(id).next \in Nodes /\ NodeInfo(id).next # id
                        /\ Parent(NodeInfo(id).next) = p
                        /\ NodeInfo(NodeInfo(id).next).previous = id
      OBVIOUS
    <3>a. i # Len(t)
      BY <2>4, <2>5
    <3>1. NodeInfo(id).next = t[i+1]
      BY <2>4, <2>5
    <3>2. i + 1 \in 1..Len(t) /\ i + 1 # 1 /\ (i + 1) - 1 = i
      <4> HIDE DEF p
      <4>1. QED
        BY <2>a, <3>a
    <3>3. t[i+1] \in Children(p) /\ t[i+1] # t[i] /\ NodeInfo(t[i+1]).previous = t[i]
      <4> HIDE DEF p
      <4>1. NodeInfo(t[i+1]).previous = (IF i + 1 = 1 THEN 0 ELSE t[(i+1)-1])
        BY <2>5, <3>2
      <4>2. i + 1 # i
        BY <2>a
      <4>3. t[i+1] \in Children(p) /\ t[i+1] # t[i]
        BY <2>3, <3>2, <4>2
      <4>4. QED
        BY <3>2, <4>1, <4>3
    <3> HIDE DEF p
    <3>4. QED
      BY <1>a, <2>4, <3>1, <3>3
  <2>8. NodeInfo(id).previous # 0 =>
           /\ NodeInfo(id).previous \in Nodes /\ NodeInfo(id).previous # id
           /\ Parent(NodeInfo(id).previous) = p
           /\ NodeInfo(NodeInfo(id).previous).next = id
    <3> SUFFICES ASSUME NodeInfo(id).previous # 0
                 PROVE  /\ NodeInfo(id).previous \in Nodes /\ NodeInfo(id).previous # id
                        /\ Parent(NodeInfo(id).previous) = p
                        /\ NodeInfo(NodeInfo(id).previous).next = id
      OBVIOUS
    <3>a. i # 1
      BY <2>4, <2>5
    <3>1. NodeInfo(id).previous = t[i-1]
      BY <2>4, <2>5
    <3>2. i - 1 \in 1..Len(t) /\ i - 1 # Len(t) /\ (i - 1) + 1 = i
      <4> HIDE DEF p
      <4>1. QED
        BY <2>a, <3>a
    <3>3. t[i-1] \in Children(p) /\ t[i-1] # t[i] /\ NodeInfo(t[i-1]).next = t[i]
      <4> HIDE DEF p
      <4>1. NodeInfo(t[i-1]).next = (IF i - 1 = Len(t) THEN 0 ELSE t[(i-1)+1])
        BY <2>5, <3>2
      <4>2. i - 1 # i
        BY <2>a
      <4>3. t[i-1] \in Children(p) /\ t[i-1] # t[i]
        BY <2>3, <3>2, <4>2
      <4>4. QED
        BY <3>2, <4>1, <4>3
    <3> HIDE DEF p
    <3>4. QED
      BY <1>a, <2>4, <3>1, <3>3
  <2>9. 0 \in Nodes
    BY DEF Nodes
  <2>10. QED
    BY <1>2, <1>4, <2>1, <2>6, <2>7, <2>8, <2>9 DEF LinksHold, Parent
<1>5. QED
  BY <1>3, <1>4

-----------------------------------------------------------------------------
(* The preferred path and the branch of a state, as the sets their           *)
(* definitions by steps end in.                                             *)

IsPath(f) == f = [k \in Nat |-> IF k = 0 THEN {0}
                                ELSE f[k-1] \cup {NodeInfo(id).preferred : id \in f[k-1]}]

LEMMA PathExists ==
    ASSUME AnyFile, Linked
    PROVE  \E f : IsPath(f) /\ PreferredPath = f[Cardinality(Nodes)]
<1> DEFINE F == [p \in Nat \X SUBSET Nodes |-> p[2] \cup {NodeInfo(id).preferred : id \in p[2]}]
<1>1. F \in [Nat \X SUBSET Nodes -> SUBSET Nodes] /\ {0} \in SUBSET Nodes
  BY NodesAreNumbers DEF Linked, LinksHold
<1>2. PICK f \in [Nat -> SUBSET Nodes] : IsRecursive(f, {0}, F)
  <2> HIDE DEF F
  <2>1. QED
    BY <1>1, Recursion
<1>3. IsPath(f)
  <2>1. ASSUME NEW k \in Nat, k # 0
        PROVE  F[<<k, f[k-1]>>] = f[k-1] \cup {NodeInfo(id).preferred : id \in f[k-1]}
    <3>1. k - 1 \in Nat
      BY <2>1
    <3>2. <<k, f[k-1]>> \in Nat \X SUBSET Nodes
      BY <1>2, <3>1
    <3>3. QED
      BY <3>2
  <2>2. f = [k \in Nat |-> IF k = 0 THEN {0} ELSE F[<<k, f[k-1]>>]]
    BY <1>2 DEF IsRecursive
  <2> HIDE DEF F
  <2>3. \A k \in Nat : f[k] = IF k = 0 THEN {0}
                              ELSE f[k-1] \cup {NodeInfo(id).preferred : id \in f[k-1]}
    BY <2>1, <2>2
  <2>4. QED
    BY <1>2, <2>3 DEF IsPath
<1> DEFINE g == CHOOSE h : IsPath(h)
<1>4. IsPath(g)
  BY <1>3
<1>5. PreferredPath = g[Cardinality(Nodes)]
  BY DEF PreferredPath, IsPath
<1>6. QED
  BY <1>4, <1>5

\* Every state of the preferred path is the preferred child of another one.
LEMMA PathGoesBack ==
    ASSUME AnyFile, Linked
    PROVE  /\ PreferredPath \subseteq Nodes
           /\ \A x \in PreferredPath \ {0} :
                Parent(x) \in PreferredPath /\ NodeInfo(Parent(x)).preferred = x
<1>1. PICK f : IsPath(f) /\ PreferredPath = f[Cardinality(Nodes)]
  BY PathExists
<1>2. /\ f[0] = {0}
      /\ \A k \in Nat : f[k+1] = f[k] \cup {NodeInfo(id).preferred : id \in f[k]}
  <2>1. \A k \in Nat : k + 1 \in Nat /\ k + 1 # 0 /\ (k + 1) - 1 = k
    OBVIOUS
  <2>2. QED
    BY <1>1, <2>1 DEF IsPath
<1> DEFINE S == {k \in Nat : /\ f[k] \subseteq Nodes
                             /\ \A x \in f[k] \ {0} :
                                  Parent(x) \in f[k] /\ NodeInfo(Parent(x)).preferred = x}
<1>3. 0 \in S
  BY <1>2, NodesAreNumbers
<1>4. ASSUME NEW k \in Nat, k \in S PROVE k + 1 \in S
  <2>1. ASSUME NEW y \in f[k] 
        PROVE  /\ NodeInfo(y).preferred \in Nodes
               /\ NodeInfo(y).preferred # 0 => Parent(NodeInfo(y).preferred) = y
    BY <1>4, <2>1 DEF Linked, LinksHold, Parent
  <2>2. f[k+1] = f[k] \cup {NodeInfo(y).preferred : y \in f[k]}
    BY <1>2
  <2>3. f[k+1] \subseteq Nodes
    BY <1>4, <2>1, <2>2
  <2>4. ASSUME NEW x \in f[k+1] \ {0}
        PROVE  Parent(x) \in f[k+1] /\ NodeInfo(Parent(x)).preferred = x
    <3>1. CASE x \in f[k]
      BY <1>4, <2>2, <3>1
    <3>2. CASE x \notin f[k]
      <4>1. PICK y \in f[k] : x = NodeInfo(y).preferred
        BY <2>2, <3>2
      <4>2. QED
        BY <2>1, <2>2, <4>1
    <3>3. QED
      BY <3>1, <3>2
  <2>5. QED
    BY <2>3, <2>4
<1>5. Nat \subseteq S
  <2> HIDE DEF S
  <2>1. QED
    BY <1>3, <1>4, SetInduction
<1>6. Cardinality(Nodes) \in Nat
  BY NodesAreNumbers, FS_CardinalityType
<1>7. QED
  BY <1>1, <1>5, <1>6

-----------------------------------------------------------------------------
IsBranch(f, id) == f = [k \in Nat |-> IF k = 0 THEN {id}
                                      ELSE f[k-1] \cup UNION {Children(c) : c \in f[k-1]}]

LEMMA ChildrenAreNodes == \A p : Children(p) \subseteq Nodes
BY DEF Children, Nodes

LEMMA BranchExists ==
    ASSUME NEW id \in Nodes
    PROVE  \E f \in [Nat -> SUBSET Nodes] : IsBranch(f, id) /\ Below(id) = f[Cardinality(Nodes)]
<1> DEFINE F == [p \in Nat \X SUBSET Nodes |-> p[2] \cup UNION {Children(c) : c \in p[2]}]
<1>1. F \in [Nat \X SUBSET Nodes -> SUBSET Nodes] /\ {id} \in SUBSET Nodes
  BY ChildrenAreNodes
<1>2. PICK f \in [Nat -> SUBSET Nodes] : IsRecursive(f, {id}, F)
  <2> HIDE DEF F
  <2>1. QED
    BY <1>1, Recursion
<1>3. IsBranch(f, id)
  <2>1. ASSUME NEW k \in Nat, k # 0
        PROVE  F[<<k, f[k-1]>>] = f[k-1] \cup UNION {Children(c) : c \in f[k-1]}
    <3>1. k - 1 \in Nat
      BY <2>1
    <3>2. <<k, f[k-1]>> \in Nat \X SUBSET Nodes
      BY <1>2, <3>1
    <3>3. QED
      BY <3>2
  <2>2. f = [k \in Nat |-> IF k = 0 THEN {id} ELSE F[<<k, f[k-1]>>]]
    BY <1>2 DEF IsRecursive
  <2> HIDE DEF F
  <2>3. \A k \in Nat : f[k] = IF k = 0 THEN {id}
                              ELSE f[k-1] \cup UNION {Children(c) : c \in f[k-1]}
    BY <2>1, <2>2
  <2>4. QED
    BY <1>2, <2>3 DEF IsBranch
<1> DEFINE g == CHOOSE h : IsBranch(h, id)
<1>4. IsBranch(g, id)
  BY <1>3
<1>5. Below(id) = g[Cardinality(Nodes)]
  BY DEF Below, IsBranch
<1>6. g \in [Nat -> SUBSET Nodes]
  <2> HIDE DEF g
  <2>1. DOMAIN g = Nat /\ g = [k \in Nat |-> g[k]]
    BY <1>4 DEF IsBranch
  <2> DEFINE S == {k \in Nat : g[k] \in SUBSET Nodes}
  <2>2. 0 \in S
    BY <1>4 DEF IsBranch
  <2>3. ASSUME NEW k \in Nat, k \in S PROVE k + 1 \in S
    <3>1. k + 1 \in Nat /\ k + 1 # 0 /\ (k + 1) - 1 = k
      OBVIOUS
    <3>2. g[k+1] = g[k] \cup UNION {Children(c) : c \in g[k]}
      BY <1>4, <3>1 DEF IsBranch
    <3>3. QED
      BY <2>3, <3>1, <3>2, ChildrenAreNodes
  <2>4. Nat \subseteq S
    <3> HIDE DEF S
    <3>1. QED
      BY <2>2, <2>3, SetInduction
  <2>5. QED
    BY <2>1, <2>4
<1>7. QED
  BY <1>4, <1>5, <1>6

\* The branch of a state: closed under children, for it stops growing before it
\* has more states than there are.
LEMMA BranchIs ==
    ASSUME AnyFile, 0 \notin Sequences, Linked, NEW id \in Nodes
    PROVE  /\ id \in Below(id) /\ Below(id) \subseteq Nodes
           /\ \A y \in Below(id) : y >= id /\ Children(y) \subseteq Below(id)
           /\ \A y \in Below(id) \ {id} : y # 0 /\ Parent(y) \in Below(id)
           /\ \A z \in Below(id) : Below(z) \subseteq Below(id)
<1>1. \A c \in Sequences : c # 0 /\ c \in Nodes /\ Parent(c) \in Nodes /\ Parent(c) < c
  BY DEF Linked, LinksHold, Nodes, Parent
<1>2. Nodes \subseteq Nat /\ IsFiniteSet(Nodes) /\ Cardinality(Nodes) \in Nat
  BY NodesAreNumbers, FS_CardinalityType
<1> DEFINE n == Cardinality(Nodes)
<1>3. ASSUME NEW z \in Nodes, NEW f \in [Nat -> SUBSET Nodes], IsBranch(f, z)
      PROVE  /\ f[0] = {z}
             /\ \A k \in Nat : f[k+1] = f[k] \cup UNION {Children(c) : c \in f[k]}
  <2>1. \A k \in Nat : k + 1 \in Nat /\ k + 1 # 0 /\ (k + 1) - 1 = k
    OBVIOUS
  <2>2. QED
    BY <1>3, <2>1 DEF IsBranch
<1>4. PICK f \in [Nat -> SUBSET Nodes] : IsBranch(f, id) /\ Below(id) = f[n]
  BY BranchExists
<1>5. f[0] = {id} /\ \A k \in Nat : f[k+1] = f[k] \cup UNION {Children(c) : c \in f[k]}
  BY <1>3, <1>4
<1> HIDE DEF n
<1>6. \A k \in Nat : IsFiniteSet(f[k]) /\ Cardinality(f[k]) \in Nat /\ Cardinality(f[k]) <= n
  BY <1>2, FS_Subset, FS_CardinalityType DEF n
<1> DEFINE G == {k \in Nat : f[k+1] = f[k] \/ Cardinality(f[k+1]) >= k + 2}
<1>7. ASSUME NEW k \in Nat, f[k+1] # f[k] PROVE Cardinality(f[k+1]) >= Cardinality(f[k]) + 1
  <2>1. f[k] \subseteq f[k+1] /\ k + 1 \in Nat
    BY <1>5
  <2>2. Cardinality(f[k]) < Cardinality(f[k+1])
    BY <1>6, <1>7, <2>1, FS_Subset
  <2>3. QED
    BY <1>6, <2>1, <2>2
<1>8. 0 \in G
  <2>1. Cardinality(f[0]) = 1
    BY <1>5, FS_Singleton
  <2>2. f[0+1] # f[0] => Cardinality(f[0+1]) >= Cardinality(f[0]) + 1
    BY <1>7
  <2>3. QED
    BY <2>1, <2>2
<1>9. ASSUME NEW k \in Nat, k \in G PROVE k + 1 \in G
  <2>1. k + 1 \in Nat /\ (k + 1) + 1 \in Nat
    OBVIOUS
  <2>2. CASE f[k+1] = f[k]
    <3>1. f[(k+1)+1] = f[k+1]
      BY <1>5, <2>1, <2>2
    <3>2. QED
      BY <2>1, <3>1
  <2>3. CASE f[k+1] # f[k]
    <3>1. Cardinality(f[k+1]) >= k + 2
      BY <1>9, <2>3
    <3>2. f[(k+1)+1] # f[k+1] => Cardinality(f[(k+1)+1]) >= Cardinality(f[k+1]) + 1
      BY <1>7, <2>1
    <3>3. Cardinality(f[k+1]) \in Nat /\ Cardinality(f[(k+1)+1]) \in Nat
      BY <1>6, <2>1
    <3>4. f[(k+1)+1] # f[k+1] => Cardinality(f[(k+1)+1]) >= (k + 1) + 2
      BY <3>1, <3>2, <3>3
    <3>5. QED
      BY <2>1, <3>4
  <2>4. QED
    BY <2>2, <2>3
<1>10. Nat \subseteq G
  <2> HIDE DEF G
  <2>1. QED
    BY <1>8, <1>9, SetInduction
<1>11. f[n+1] = f[n]
  <2>1. n \in Nat /\ n + 1 \in Nat
    BY <1>2 DEF n
  <2>2. Cardinality(f[n+1]) <= n /\ Cardinality(f[n+1]) \in Nat
    BY <1>6, <2>1
  <2>3. ~ (Cardinality(f[n+1]) >= n + 2)
    BY <2>1, <2>2
  <2>4. QED
    BY <1>10, <2>1, <2>3
<1>12. \A y \in Below(id) : Children(y) \subseteq Below(id)
  BY <1>2, <1>4, <1>5, <1>11 DEF n
<1> DEFINE S == {k \in Nat : /\ id \in f[k]
                             /\ \A y \in f[k] : y >= id
                             /\ \A y \in f[k] \ {id} : y # 0 /\ Parent(y) \in f[k]}
<1>13. 0 \in S
  BY <1>2, <1>5
<1>14. ASSUME NEW k \in Nat, k \in S PROVE k + 1 \in S
  <2>1. ASSUME NEW c \in f[k], NEW y \in Children(c) PROVE y # 0 /\ Parent(y) = c /\ y >= id
    <3>1. y \in Sequences /\ Parent(y) = c
      BY DEF Children
    <3>2. y \in Nat /\ c \in Nat /\ id \in Nat /\ c < y /\ c >= id /\ y # 0
      BY <1>1, <1>2, <1>14, <3>1
    <3>3. QED
      BY <3>1, <3>2
  <2> HIDE DEF n
  <2>2. id \in f[k+1] /\ f[k] \subseteq f[k+1]
    BY <1>5, <1>14
  <2>3. \A y \in f[k+1] : y >= id
    BY <1>5, <1>14, <2>1
  <2>4. \A y \in f[k+1] \ {id} : y # 0 /\ Parent(y) \in f[k+1]
    BY <1>5, <1>14, <2>1, <2>2
  <2>5. QED
    BY <2>2, <2>3, <2>4
<1>15. Nat \subseteq S
  <2> HIDE DEF S
  <2>1. QED
    BY <1>13, <1>14, SetInduction
<1>16. /\ id \in Below(id) /\ Below(id) \subseteq Nodes
       /\ \A y \in Below(id) : y >= id
       /\ \A y \in Below(id) \ {id} : y # 0 /\ Parent(y) \in Below(id)
  BY <1>2, <1>4, <1>15, ZenonT(40) DEF n
<1>17. ASSUME NEW z \in Below(id) PROVE Below(z) \subseteq Below(id)
  <2>1. z \in Nodes
    BY <1>16
  <2>2. PICK g \in [Nat -> SUBSET Nodes] : IsBranch(g, z) /\ Below(z) = g[n]
    BY <2>1, BranchExists DEF n
  <2>3. g[0] = {z} /\ \A k \in Nat : g[k+1] = g[k] \cup UNION {Children(c) : c \in g[k]}
    BY <1>3, <2>1, <2>2
  <2> DEFINE T == {k \in Nat : g[k] \subseteq Below(id)}
  <2>4. 0 \in T
    BY <2>3
  <2>5. ASSUME NEW k \in Nat, k \in T PROVE k + 1 \in T
    BY <1>12, <2>3, <2>5
  <2>6. Nat \subseteq T
    <3> HIDE DEF T
    <3>1. QED
      BY <2>4, <2>5, SetInduction
  <2>7. QED
    BY <1>2, <2>2, <2>6 DEF n
<1>18. QED
  BY <1>12, <1>16, <1>17

-----------------------------------------------------------------------------
(* The stack with a state more, if there is one.                           *)

LEMMA PresentOnce ==
    ASSUME NEW S, NEW s \in Seq(S), NEW x \in S, Once(s), x = 0 \/ x \notin Elements(s)
    PROVE  /\ s \o Present(x) \in Seq(S) /\ Once(s \o Present(x))
           /\ Elements(s \o Present(x)) = Elements(s) \cup ({x} \ {0})
<1>1. CASE x = 0
  <2>1. s \o Present(x) = s
    BY <1>1, ConcatEmptySeq DEF Present
  <2>2. QED
    BY <1>1, <2>1
<1>2. CASE x # 0
  <2>1. s \o Present(x) = Append(s, x)
    BY <1>2, AppendIsConcat DEF Present
  <2>2. QED
    BY <1>2, <2>1, AppendOnce
<1>3. QED
  BY <1>1, <1>2

-----------------------------------------------------------------------------
(* The inductive invariant.                                                 *)

Numbers ==
    /\ AnyFile
    /\ pass \in {"records", "links"} => order = <<>> /\ stack = <<0>>
    /\ pass \in {"links", "walk", "reference", "valid"} => Indexed
    /\ pass \in {"walk", "reference", "valid"} => Linked

\* What was visited or waits: no state twice, and no state both.
WalkIInv ==
    /\ order \in Seq(Nodes) /\ stack \in Seq(Nodes)
    /\ Once(order) /\ Once(stack)
    /\ Elements(order) \cap Elements(stack) = {}

\* A state waits only once its parent and the sibling before it were visited.
FoundIInv ==
    \A id \in (Elements(order) \cup Elements(stack)) \ {0} :
        /\ Parent(id) \in Elements(order)
        /\ NodeInfo(id).previous # 0 => NodeInfo(id).previous \in Elements(order)
        /\ NodeInfo(Parent(id)).preferred # 0

OrderIInv ==
    /\ order = <<>> => stack = <<0>>
    /\ order # <<>> => order[1] = 0
    /\ \A i \in 1..Len(order) : order[i] # 0 =>
         LET n == NodeInfo(order[i]) IN
         /\ \E j \in 1..i-1 : order[j] = n.parent
         /\ n.previous # 0 => \E j \in 1..i-1 : order[j] = n.previous
         /\ n.previous = 0 => i > 1 /\ order[i-1] = n.parent

\* The walk leaves no link of a visited state.
ClosedIInv ==
    /\ 0 \in Elements(order) \cup Elements(stack)
    /\ \A x \in Elements(order) :
         {NodeInfo(x).preferred, NodeInfo(x).next} \subseteq Elements(order) \cup Elements(stack) \cup {0}

WaitingIInv ==
    \A k \in 1..Len(stack) : stack[k] # 0 =>
        LET z == NodeInfo(stack[k]).previous IN
        /\ z = 0 => k = Len(stack) /\ order # <<>> /\ order[Len(order)] = Parent(stack[k])
        /\ z # 0 => /\ \A i, j \in 1..Len(order) : order[j] = z /\ j <= i => order[i] \in Below(z)
                    /\ \A m \in k+1..Len(stack) : stack[m] \in Below(z)

DoneIInv ==
    \A i \in 1..Len(order) : order[i] # 0 =>
        LET z == NodeInfo(order[i]).previous IN
        z # 0 =>
          /\ \A j \in 1..Len(order) : order[j] = z => \A m \in j..i-1 : order[m] \in Below(z)
          /\ \A m \in i..Len(order) : order[m] \notin Below(z)
          /\ \A y \in Elements(stack) : y \notin Below(z)

Position == WalkIInv /\ FoundIInv /\ OrderIInv /\ ClosedIInv /\ WaitingIInv /\ DoneIInv

\* The walk reaches every state.
EveryStateIsReached == pass \in {"reference", "valid"} => Elements(order) = Nodes

\* How New ended is what the file is.
Verdict ==
    /\ pass = "valid" => PositionHolds /\ ReferenceIsThePosition
    /\ pass = "invalid" => ~WellFormed

IInv == Numbers /\ Position /\ EveryStateIsReached /\ Verdict

LEMMA InitIInv == AnyFile /\ Opened => IInv
<1> SUFFICES ASSUME AnyFile, Opened PROVE IInv
  OBVIOUS
<1>1. order = <<>> /\ stack = <<0>> /\ pass \in {"limit", "records"}
  BY DEF Opened, FirstPass
<1>2. /\ order \in Seq(Nodes) /\ stack \in Seq(Nodes)
      /\ Len(order) = 0 /\ Len(stack) = 1 /\ stack[1] = 0
  BY <1>1, NodesAreNumbers, EmptySeq
<1>3. Elements(order) = {} /\ Elements(stack) = {0} /\ Once(order) /\ Once(stack)
  BY <1>2 DEF Elements, Once
<1>4. Position
  <2>1. WalkIInv /\ FoundIInv /\ ClosedIInv
    BY <1>2, <1>3 DEF WalkIInv, FoundIInv, ClosedIInv
  <2>2. OrderIInv /\ DoneIInv
    BY <1>1, <1>2 DEF OrderIInv, DoneIInv
  <2>3. WaitingIInv
    BY <1>2 DEF WaitingIInv
  <2>4. QED
    BY <2>1, <2>2, <2>3 DEF Position
<1>5. QED
  BY <1>1, <1>4 DEF IInv, Numbers, EveryStateIsReached, Verdict

LEMMA FileStays ==
    ASSUME UNCHANGED file
    PROVE  /\ Nodes' = Nodes /\ Sequences' = Sequences
           /\ \A x : NodeInfo(x)' = NodeInfo(x) /\ Parent(x)' = Parent(x)
           /\ \A x : Below(x)' = Below(x) /\ Children(x)' = Children(x)
           /\ PreferredPath' = PreferredPath
           /\ AnyFile' = AnyFile /\ Indexed' = Indexed /\ Linked' = Linked
           /\ PositionHolds' = PositionHolds /\ WellFormed' = WellFormed
<1>1. Nodes' = Nodes /\ Sequences' = Sequences
  BY DEF Nodes, Sequences
<1>2. \A x : NodeInfo(x)' = NodeInfo(x)
  BY DEF NodeInfo
<1>3. \A x : Parent(x)' = Parent(x)
  BY <1>2 DEF Parent
<1>4. \A x : Children(x)' = Children(x)
  BY <1>1, <1>3 DEF Children
<1>5. \A x : Below(x)' = Below(x)
  BY DEF Below, Children, Parent, NodeInfo, Nodes, Sequences
<1>6. PreferredPath' = PreferredPath
  BY DEF PreferredPath, NodeInfo, Nodes, Sequences
<1>7. AnyFile' = AnyFile /\ Indexed' = Indexed
  BY DEF AnyFile, Indexed, RecordHolds
<1>8. Linked' = Linked
  <2>1. \A x : LinksHold(x)' = LinksHold(x)
    BY <1>1, <1>2 DEF LinksHold
  <2>2. QED
    BY <1>1, <2>1 DEF Linked
<1>9. PositionHolds' = PositionHolds
  BY <1>1, <1>2, <1>6 DEF PositionHolds
<1>10. WellFormed' = WellFormed
  <2>1. \A x, s : LinkedAs(x, s)' = LinkedAs(x, s)
    BY <1>2 DEF LinkedAs
  <2>2. \A x : (\E s \in SetToSeqs(Children(x)) : LinkedAs(x, s))'
                = (\E s \in SetToSeqs(Children(x)) : LinkedAs(x, s))
    BY <1>4, <2>1
  <2>3. QED
    BY <1>1, <1>3, <1>4, <1>6, <2>2 DEF WellFormed
<1>11. QED
  BY <1>1, <1>2, <1>3, <1>4, <1>5, <1>6, <1>7, <1>8, <1>9, <1>10

LEMMA StillPosition == ASSUME Position, UNCHANGED <<file, order, stack>> PROVE Position'
<1>1. /\ Nodes' = Nodes
      /\ \A x : NodeInfo(x)' = NodeInfo(x) /\ Parent(x)' = Parent(x) /\ Below(x)' = Below(x)
  BY FileStays
<1>2. Elements(order)' = Elements(order) /\ Elements(stack)' = Elements(stack)
  BY DEF Elements
<1>3. Once(order)' = Once(order) /\ Once(stack)' = Once(stack)
  BY DEF Once
<1>4. WalkIInv' /\ FoundIInv'
  BY <1>1, <1>2, <1>3 DEF Position, WalkIInv, FoundIInv
<1>5. OrderIInv' /\ ClosedIInv'
  BY <1>1, <1>2 DEF Position, OrderIInv, ClosedIInv
<1>6. WaitingIInv'
  BY <1>1 DEF Position, WaitingIInv
<1>7. DoneIInv'
  BY <1>1, <1>2 DEF Position, DoneIInv
<1>8. QED
  BY <1>4, <1>5, <1>6, <1>7 DEF Position

\* The invariant speaks of the file and the walk.
LEMMA StillIInv ==
    ASSUME IInv, UNCHANGED <<file, order, stack>>,
           pass' \in {"records", "links"} => pass \in {"records", "links"},
           pass' \in {"links", "walk", "reference", "valid"} => Indexed,
           pass' \in {"walk", "reference", "valid"} => Linked,
           pass' \in {"reference", "valid"} => Elements(order) = Nodes,
           pass' = "valid" => PositionHolds /\ ReferenceIsThePosition',
           pass' = "invalid" => ~WellFormed
    PROVE  IInv'
<1>1. Position'
  BY StillPosition DEF IInv
<1>2. Numbers'
  BY FileStays DEF IInv, Numbers
<1>3. EveryStateIsReached'
  <2>1. Elements(order)' = Elements(order)
    BY DEF Elements
  <2>2. QED
    BY <2>1, FileStays DEF EveryStateIsReached
<1>4. Verdict'
  BY FileStays DEF Verdict
<1>5. QED
  BY <1>1, <1>2, <1>3, <1>4 DEF IInv

LEMMA PresentEnd ==
    ASSUME NEW S, NEW s \in Seq(S), NEW x \in S
    PROVE  /\ Len(s \o Present(x)) = IF x = 0 THEN Len(s) ELSE Len(s) + 1
           /\ \A i \in 1..Len(s) : (s \o Present(x))[i] = s[i]
           /\ x # 0 => (s \o Present(x))[Len(s) + 1] = x
<1>1. CASE x = 0
  <2>1. s \o Present(x) = s
    BY <1>1, ConcatEmptySeq DEF Present
  <2>2. QED
    BY <1>1, <2>1
<1>2. CASE x # 0
  <2>1. s \o Present(x) = Append(s, x)
    BY <1>2, AppendIsConcat DEF Present
  <2>2. Len(Append(s, x)) = Len(s) + 1 /\ Append(s, x)[Len(s) + 1] = x
        /\ \A i \in 1..Len(s) : Append(s, x)[i] = s[i]
    BY AppendProperties
  <2>3. QED
    BY <1>2, <2>1, <2>2
<1>3. QED
  BY <1>1, <1>2

\* Of two children of one state the branch of neither has the other, and a
\* branch that begins above them has both.
LEMMA Siblings ==
    ASSUME AnyFile, 0 \notin Sequences, Linked, NEW a \in Nodes \ {0}, NEW b \in Nodes \ {0},
           a # b, Parent(a) = Parent(b)
    PROVE  /\ b \notin Below(a)
           /\ \A z \in Nodes : a \in Below(z) /\ a # z => b \in Below(z)
<1>1. a \in Sequences /\ b \in Sequences /\ b \in Children(Parent(a))
  BY DEF Nodes, Children
<1>2. Parent(a) \in Nat /\ a \in Nat /\ Parent(a) < a
  BY NodesAreNumbers DEF Linked, LinksHold, Parent
<1>3. b \notin Below(a)
  <2>1. b \in Below(a) => Parent(b) \in Below(a)
    BY BranchIs
  <2>2. Parent(b) \in Below(a) => Parent(b) >= a
    BY BranchIs
  <2>3. QED
    BY <1>2, <2>1, <2>2
<1>4. ASSUME NEW z \in Nodes, a \in Below(z), a # z PROVE b \in Below(z)
  <2>1. Parent(a) \in Below(z)
    BY <1>4, BranchIs
  <2>2. QED
    BY <1>1, <2>1, BranchIs
<1>5. QED
  BY <1>3, <1>4

\* A step of the walk: what it adds was neither visited nor waits, for a
\* preferred child leads back to its parent and a sibling to the one before it.
LEMMA VisitPosition == ASSUME Numbers, Position, Visit PROVE Position' /\ pass' = pass
<1> DEFINE id == Last(stack)
           n == NodeInfo(id)
           rest == Front(stack)
           below == rest \o Present(n.next)
<1>1. pass = "walk" /\ stack # <<>> /\ UNCHANGED <<file, reference>>
  BY DEF Visit
<1>2. /\ AnyFile /\ Linked /\ 0 \notin Sequences
      /\ Nodes \subseteq Nat /\ 0 \in Nodes
      /\ \A x \in Nodes : LinksHold(x)
      /\ order \in Seq(Nodes) /\ stack \in Seq(Nodes) /\ Once(order) /\ Once(stack)
      /\ Elements(order) \cap Elements(stack) = {}
  BY <1>1, NodesAreNumbers, IndexedRoot DEF Numbers, Position, WalkIInv, Linked
<1>3. /\ rest \in Seq(Nodes) /\ Once(rest) /\ Elements(rest) = Elements(stack) \ {id}
      /\ id \in Elements(stack) /\ id \in Nodes /\ id \notin Elements(order)
  BY <1>1, <1>2, FrontOnce
<1> HIDE DEF id, rest
<1>4. pass' = pass /\ order' = Append(order, id) /\ stack' = below \o Present(n.preferred)
  <2>1. ~Contains(order, id)
    BY <1>3 DEF Contains, Elements
  <2>2. QED
    BY <2>1 DEF Visit, id, rest
<1>5. Once(order') /\ order' \in Seq(Nodes) /\ Elements(order') = Elements(order) \cup {id}
  BY <1>2, <1>3, <1>4, AppendOnce
<1>6. /\ LinksHold(id) /\ n.next \in Nodes /\ n.preferred \in Nodes
  BY <1>2, <1>3 DEF LinksHold
<1>7. \A x \in (Elements(order) \cup Elements(stack)) \ {0} :
          /\ Parent(x) \in Elements(order)
          /\ NodeInfo(x).previous # 0 => NodeInfo(x).previous \in Elements(order)
          /\ NodeInfo(Parent(x)).preferred # 0
  BY DEF Position, FoundIInv
<1>8. n.preferred # 0 =>
          /\ Parent(n.preferred) = id /\ NodeInfo(n.preferred).previous = 0
          /\ n.preferred \notin Elements(order) \cup Elements(stack) /\ n.preferred # id
  <2> SUFFICES ASSUME n.preferred # 0
               PROVE  /\ Parent(n.preferred) = id /\ NodeInfo(n.preferred).previous = 0
                      /\ n.preferred \notin Elements(order) \cup Elements(stack)
                      /\ n.preferred # id
    OBVIOUS
  <2>1. Parent(n.preferred) = id /\ NodeInfo(n.preferred).previous = 0
    BY <1>6 DEF LinksHold, Parent
  <2>2. n.preferred \notin Elements(order) \cup Elements(stack)
    BY <1>3, <1>7, <2>1
  <2>3. QED
    BY <1>3, <2>1, <2>2
<1>9. n.next # 0 =>
          /\ id # 0 /\ Parent(n.next) = Parent(id) /\ NodeInfo(n.next).previous = id
          /\ n.next \notin Elements(order) \cup Elements(stack) /\ n.next # id
  <2> SUFFICES ASSUME n.next # 0
               PROVE  /\ id # 0 /\ Parent(n.next) = Parent(id) /\ NodeInfo(n.next).previous = id
                      /\ n.next \notin Elements(order) \cup Elements(stack) /\ n.next # id
    OBVIOUS
  <2>1. id # 0
    BY DEF NodeInfo
  <2>2. Parent(n.next) = Parent(id) /\ NodeInfo(n.next).previous = id
    BY <1>6 DEF LinksHold, Parent
  <2>3. n.next \notin Elements(order) \cup Elements(stack)
    BY <1>3, <1>7, <2>1, <2>2
  <2>4. QED
    BY <1>3, <2>1, <2>2, <2>3
<1>10. n.next # 0 /\ n.preferred # 0 => n.next # n.preferred
  BY <1>8, <1>9
<1> HIDE DEF n
<1>11. below \in Seq(Nodes) /\ Once(below) /\ Elements(below) = Elements(rest) \cup ({n.next} \ {0})
  BY <1>3, <1>6, <1>9, PresentOnce
<1> HIDE DEF below
<1>12. /\ stack' \in Seq(Nodes) /\ Once(stack')
       /\ Elements(stack') = Elements(rest) \cup ({n.next} \ {0}) \cup ({n.preferred} \ {0})
  <2>1. n.preferred = 0 \/ n.preferred \notin Elements(below)
    BY <1>3, <1>8, <1>10, <1>11
  <2>2. QED
    BY <1>4, <1>6, <1>11, <2>1, PresentOnce
<1>13. /\ Nodes' = Nodes
       /\ \A x : NodeInfo(x)' = NodeInfo(x) /\ Parent(x)' = Parent(x) /\ Below(x)' = Below(x)
  BY <1>1, FileStays
<1>14. Elements(order)' = Elements(order') /\ Elements(stack)' = Elements(stack')
  BY DEF Elements
<1>15. WalkIInv'
  <2>1. Elements(order') \cap Elements(stack') = {}
    BY <1>2, <1>3, <1>5, <1>8, <1>9, <1>12 DEF n
  <2>2. QED
    BY <1>5, <1>12, <1>13, <2>1 DEF WalkIInv, Once, Elements
<1>16. FoundIInv'
  <2> SUFFICES ASSUME NEW x \in (Elements(order') \cup Elements(stack')) \ {0}
               PROVE  /\ Parent(x) \in Elements(order')
                      /\ NodeInfo(x).previous # 0 => NodeInfo(x).previous \in Elements(order')
                      /\ NodeInfo(Parent(x)).preferred # 0
    BY <1>13, <1>14 DEF FoundIInv
  <2>1. CASE x \in Elements(order) \cup Elements(stack)
    BY <1>5, <1>7, <2>1
  <2>2. CASE n.preferred # 0 /\ x = n.preferred
    BY <1>5, <1>8, <2>2 DEF n
  <2>3. CASE n.next # 0 /\ x = n.next
    BY <1>3, <1>5, <1>7, <1>9, <2>3 DEF n
  <2>4. QED
    BY <1>3, <1>5, <1>12, <2>1, <2>2, <2>3
<1>17. ClosedIInv'
  <2>1. 0 \in Elements(order') \cup Elements(stack')
    BY <1>3, <1>5, <1>12 DEF Position, ClosedIInv
  <2>2. ASSUME NEW x \in Elements(order')
        PROVE  {NodeInfo(x).preferred, NodeInfo(x).next}
                 \subseteq Elements(order') \cup Elements(stack') \cup {0}
    <3>1. CASE x \in Elements(order)
      BY <1>3, <1>5, <1>12, <3>1 DEF Position, ClosedIInv
    <3>2. CASE x = id
      BY <1>12, <3>2 DEF n
    <3>3. QED
      BY <1>5, <3>1, <3>2
  <2>3. QED
    BY <1>13, <1>14, <2>1, <2>2 DEF ClosedIInv
<1> DEFINE N == Len(order)
           L == Len(rest)
<1>18. /\ N \in Nat /\ Len(order') = N + 1 /\ order'[N + 1] = id
       /\ \A i \in 1..N : order'[i] = order[i] /\ order[i] \in Nodes /\ order[i] \in Elements(order)
  BY <1>2, <1>3, <1>4, AppendProperties, LenProperties, ElementOfSeq DEF Elements
<1>19. /\ L \in Nat /\ Len(stack) = L + 1 /\ stack[L + 1] = id
       /\ \A k \in 1..L : rest[k] = stack[k] /\ stack[k] \in Elements(rest) /\ stack[k] \in Nodes
  <2>1. Len(stack) \in Nat \ {0} /\ id = stack[Len(stack)] /\ rest = SubSeq(stack, 1, Len(stack) - 1)
    BY <1>1, <1>2, EmptySeq DEF id, rest, Last, Front
  <2>2. Len(stack) - 1 \in Nat /\ \A i \in 1..Len(stack)-1 : stack[i] \in Nodes
    BY <1>2, <2>1, ElementOfSeq
  <2>3. Len(rest) = Len(stack) - 1 /\ \A i \in 1..Len(stack)-1 : rest[i] = stack[i]
    <3> DEFINE m == Len(stack) - 1
    <3>1. m \in Nat /\ \A i \in 1..m : stack[i] \in Nodes
      BY <2>2
    <3> HIDE DEF m
    <3>2. /\ Len(SubSeq(stack, 1, m)) = IF 1 <= m THEN m - 1 + 1 ELSE 0
          /\ \A i \in 1..m - 1 + 1 : SubSeq(stack, 1, m)[i] = stack[1 + i - 1]
      BY <3>1, SubSeqProperties
    <3>3. m - 1 + 1 = m /\ \A i \in Int : 1 + i - 1 = i
      BY <3>1
    <3>4. Len(SubSeq(stack, 1, m)) = m /\ \A i \in 1..m : SubSeq(stack, 1, m)[i] = stack[i]
      BY <3>1, <3>2, <3>3
    <3>5. QED
      BY <2>1, <3>4 DEF m
  <2>4. QED
    BY <1>3, <2>1, <2>2, <2>3 DEF Elements
<1>20. ASSUME NEW k \in 1..Len(stack')
       PROVE  \/ k \in 1..L /\ stack'[k] = stack[k]
              \/ n.next # 0 /\ stack'[k] = n.next /\ k = L + 1
                   /\ \A m \in k+1..Len(stack') : n.preferred # 0 /\ stack'[m] = n.preferred
              \/ n.preferred # 0 /\ stack'[k] = n.preferred /\ k = Len(stack')
  <2>1. /\ Len(below) = IF n.next = 0 THEN L ELSE L + 1
        /\ \A i \in 1..L : below[i] = rest[i]
        /\ n.next # 0 => below[L + 1] = n.next
    BY <1>3, <1>6, PresentEnd DEF below
  <2>2. /\ Len(stack') = IF n.preferred = 0 THEN Len(below) ELSE Len(below) + 1
        /\ \A i \in 1..Len(below) : stack'[i] = below[i]
        /\ n.preferred # 0 => stack'[Len(below) + 1] = n.preferred
    BY <1>4, <1>6, <1>11, PresentEnd
  <2>3. CASE k <= L
    BY <1>19, <2>1, <2>2, <2>3
  <2>4. CASE n.next # 0 /\ k = L + 1
    <3>1. stack'[k] = n.next
      BY <1>19, <2>1, <2>2, <2>4
    <3>2. \A m \in k+1..Len(stack') : n.preferred # 0 /\ m = Len(below) + 1
      BY <1>19, <2>1, <2>2, <2>4
    <3>3. QED
      BY <2>2, <2>4, <3>1, <3>2
  <2>5. CASE k > L /\ ~ (n.next # 0 /\ k = L + 1)
    <3>1. n.preferred # 0 /\ k = Len(below) + 1 /\ k = Len(stack')
      BY <1>19, <2>1, <2>2, <2>5
    <3>2. QED
      BY <2>2, <3>1
  <2>6. QED
    BY <1>19, <2>3, <2>4, <2>5
<1> HIDE DEF N, L
<1>21. id # 0 => LET z == n.previous IN
          /\ z \in Nodes
          /\ Parent(id) \in Elements(order)
          /\ z = 0 => N # 0 /\ order[N] = Parent(id)
          /\ z # 0 => /\ z # id /\ Parent(z) = Parent(id) /\ z \in Elements(order)
                      /\ \A i, j \in 1..N : order[j] = z /\ j <= i => order[i] \in Below(z)
  <2>1. L + 1 \in 1..Len(stack)
    BY <1>19
  <2>2. id # 0 => /\ n.previous = 0 => order # <<>> /\ order[N] = Parent(id)
                  /\ n.previous # 0 =>
                        \A i, j \in 1..N : order[j] = n.previous /\ j <= i
                                              => order[i] \in Below(n.previous)
    BY <1>19, <2>1 DEF Position, WaitingIInv, n, N
  <2>3. order # <<>> => N # 0
    BY <1>2, EmptySeq DEF N
  <2>4. id # 0 => /\ n.previous \in Nodes /\ Parent(id) \in Elements(order)
                  /\ n.previous # 0 => /\ n.previous # id /\ Parent(n.previous) = Parent(id)
                                       /\ n.previous \in Elements(order)
    BY <1>3, <1>6, <1>7 DEF LinksHold, Parent, n
  <2>5. QED
    BY <2>2, <2>3, <2>4
<1>22. OrderIInv'
  <2>1. order' # <<>> /\ order'[1] = 0
    <3>1. order' # <<>>
      BY <1>5, <1>18, EmptySeq
    <3>2. CASE N = 0
      <4>1. order = <<>>
        BY <1>2, <3>2, EmptySeq DEF N
      <4>2. stack = <<0>>
        BY <4>1 DEF Position, OrderIInv
      <4>3. id = 0
        BY <4>2 DEF id, Last
      <4>4. QED
        BY <1>18, <3>1, <3>2, <4>3
    <3>3. CASE N # 0
      <4>1. order # <<>> /\ 1 \in 1..N
        BY <1>2, <1>18, <3>3, EmptySeq DEF N
      <4>2. QED
        BY <1>18, <3>1, <4>1 DEF Position, OrderIInv
    <3>4. QED
      BY <3>2, <3>3
  <2>2. ASSUME NEW i \in 1..N+1, order'[i] # 0
        PROVE  /\ \E j \in 1..i-1 : order'[j] = NodeInfo(order'[i]).parent
               /\ NodeInfo(order'[i]).previous # 0 =>
                     \E j \in 1..i-1 : order'[j] = NodeInfo(order'[i]).previous
               /\ NodeInfo(order'[i]).previous = 0 =>
                     i > 1 /\ order'[i-1] = NodeInfo(order'[i]).parent
    <3>1. CASE i \in 1..N
      <4>1. order'[i] = order[i] /\ \A j \in 1..i-1 : order'[j] = order[j]
        BY <1>18, <3>1
      <4>2. i > 1 => i - 1 \in 1..i-1
        BY <3>1
      <4>3. /\ \E j \in 1..i-1 : order[j] = NodeInfo(order[i]).parent
            /\ NodeInfo(order[i]).previous # 0 =>
                  \E j \in 1..i-1 : order[j] = NodeInfo(order[i]).previous
            /\ NodeInfo(order[i]).previous = 0 =>
                  i > 1 /\ order[i-1] = NodeInfo(order[i]).parent
        BY <2>2, <3>1, <4>1 DEF Position, OrderIInv, N
      <4>4. QED
        BY <4>1, <4>2, <4>3
    <3>2. CASE i = N + 1
      <4>1. order'[i] = id /\ id # 0 /\ i - 1 = N
        BY <1>18, <2>2, <3>2
      <4>2. \A x \in Elements(order) : \E j \in 1..N : order'[j] = x
        BY <1>18 DEF Elements, N
      <4>3. N # 0 => N \in 1..N /\ N + 1 > 1
        BY <1>18
      <4>4. QED
        BY <1>18, <1>21, <3>2, <4>1, <4>2, <4>3 DEF n, Parent
    <3>3. QED
      BY <1>18, <3>1, <3>2
  <2>3. QED
    BY <1>13, <1>18, <2>1, <2>2 DEF OrderIInv
<1>23. /\ n.preferred # 0 => n.preferred \in Sequences /\ n.preferred \in Children(id)
       /\ n.next # 0 => n.next \in Sequences
       /\ id # 0 => id \in Sequences
  BY <1>3, <1>6, <1>8 DEF Nodes, Children
<1>24. ASSUME NEW z \in Elements(order)
       PROVE  /\ z \in Nodes /\ z # id
              /\ id \in Below(z) /\ n.preferred # 0 => n.preferred \in Below(z)
              /\ id \in Below(z) /\ n.next # 0 => n.next \in Below(z)
              /\ id \notin Below(z) /\ n.preferred # 0 => n.preferred \notin Below(z)
              /\ id \notin Below(z) /\ n.next # 0 => n.next \notin Below(z)
  <2>1. z \in Nodes /\ z # id
    BY <1>3, <1>18 DEF Elements, N
  <2>2. n.preferred # 0 => n.preferred # z
    BY <1>8
  <2>3. n.next # 0 => n.next # z /\ n.next # id /\ id # 0 /\ Parent(n.next) = Parent(id)
    BY <1>9
  <2>4. id \in Below(z) /\ n.preferred # 0 => n.preferred \in Below(z)
    BY <1>2, <1>23, <2>1, BranchIs
  <2>5. id \notin Below(z) /\ n.preferred # 0 => n.preferred \notin Below(z)
    BY <1>2, <1>8, <2>1, <2>2, BranchIs
  <2>6. id \in Below(z) /\ n.next # 0 => n.next \in Below(z)
    BY <1>2, <1>3, <1>6, <2>1, <2>3, Siblings
  <2>7. id \notin Below(z) /\ n.next # 0 => n.next \notin Below(z)
    BY <1>2, <1>3, <1>6, <2>1, <2>3, Siblings
  <2>8. QED
    BY <2>1, <2>4, <2>5, <2>6, <2>7
<1>25. WaitingIInv'
  <2> SUFFICES ASSUME NEW k \in 1..Len(stack'), stack'[k] # 0, NEW z, z = NodeInfo(stack'[k]).previous
               PROVE  /\ z = 0 => k = Len(stack') /\ order' # <<>>
                                   /\ order'[Len(order')] = Parent(stack'[k])
                      /\ z # 0 => /\ \A i, j \in 1..N+1 : order'[j] = z /\ j <= i => order'[i] \in Below(z)
                                  /\ \A m \in k+1..Len(stack') : stack'[m] \in Below(z)
    BY <1>13, <1>18 DEF WaitingIInv
  <2>1. CASE k \in 1..L /\ stack'[k] = stack[k]
    <3>1. k \in 1..Len(stack) /\ k # Len(stack) /\ L + 1 \in k+1..Len(stack) /\ stack[k] # 0
      BY <1>19, <2>1
    <3>2. z # 0
      BY <2>1, <3>1 DEF Position, WaitingIInv
    <3>3. /\ \A i, j \in 1..N : order[j] = z /\ j <= i => order[i] \in Below(z)
          /\ \A m \in k+1..Len(stack) : stack[m] \in Below(z)
      BY <2>1, <3>1, <3>2 DEF Position, WaitingIInv, N
    <3>4. z \in Elements(order) /\ id \in Below(z)
      <4>1. stack[k] \in Elements(stack)
        BY <3>1 DEF Elements
      <4>2. QED
        BY <1>7, <1>19, <2>1, <3>1, <3>2, <3>3, <4>1
    <3>5. ASSUME NEW i \in 1..N+1, NEW j \in 1..N+1, order'[j] = z, j <= i
          PROVE  order'[i] \in Below(z)
      <4>1. j # N + 1
        BY <1>18, <1>24, <3>4, <3>5
      <4>2. CASE i = N + 1
        BY <1>18, <3>4, <4>2
      <4>3. CASE i # N + 1
        <5>1. i \in 1..N /\ j \in 1..N
          BY <1>18, <4>1, <4>3
        <5>2. QED
          BY <1>18, <3>3, <3>5, <5>1
      <4>4. QED
        BY <4>2, <4>3
    <3>6. ASSUME NEW m \in k+1..Len(stack') PROVE stack'[m] \in Below(z)
      <4>1. m \in 1..Len(stack')
        BY <1>19, <2>1
      <4>2. \/ m \in 1..L /\ stack'[m] = stack[m]
            \/ n.next # 0 /\ stack'[m] = n.next
            \/ n.preferred # 0 /\ stack'[m] = n.preferred
        BY <1>20, <4>1
      <4>3. m \in 1..L => m \in k+1..Len(stack)
        BY <1>19, <2>1
      <4>4. QED
        BY <1>24, <3>3, <3>4, <4>2, <4>3
    <3>7. QED
      BY <3>2, <3>5, <3>6
  <2>2. CASE n.next # 0 /\ stack'[k] = n.next
             /\ \A m \in k+1..Len(stack') : n.preferred # 0 /\ stack'[m] = n.preferred
    <3>1. z = id /\ id # 0
      BY <1>9, <2>2
    <3>2. id \in Below(id) /\ (n.preferred # 0 => n.preferred \in Below(id))
      BY <1>2, <1>3, <1>23, BranchIs
    <3>3. ASSUME NEW i \in 1..N+1, NEW j \in 1..N+1, order'[j] = id, j <= i
          PROVE  order'[i] \in Below(id)
      <4>1. j = N + 1
        BY <1>3, <1>18, <3>3
      <4>2. i = N + 1
        BY <1>18, <3>3, <4>1
      <4>3. QED
        BY <1>18, <3>2, <4>2
    <3>4. QED
      BY <2>2, <3>1, <3>2, <3>3
  <2>3. CASE n.preferred # 0 /\ stack'[k] = n.preferred /\ k = Len(stack')
    <3>1. z = 0 /\ Parent(stack'[k]) = id
      BY <1>8, <2>3
    <3>2. order' # <<>>
      BY <1>5, <1>18, EmptySeq
    <3>3. QED
      BY <1>18, <2>3, <3>1, <3>2
  <2>4. QED
    BY <1>20, <2>1, <2>2, <2>3
<1>26. DoneIInv'
  <2> SUFFICES ASSUME NEW i \in 1..N+1, order'[i] # 0, NEW z, z = NodeInfo(order'[i]).previous, z # 0
               PROVE  /\ \A j \in 1..N+1 : order'[j] = z => \A m \in j..i-1 : order'[m] \in Below(z)
                      /\ \A m \in i..N+1 : order'[m] \notin Below(z)
                      /\ \A y \in Elements(stack') : y \notin Below(z)
    BY <1>13, <1>14, <1>18 DEF DoneIInv
  <2>1. CASE i \in 1..N
    <3>1. order'[i] = order[i] /\ order[i] \in Elements(order) /\ order[i] # 0
      BY <1>18, <2>1
    <3>2. z \in Elements(order)
      BY <1>7, <3>1
    <3>3. /\ \A j \in 1..N : order[j] = z => \A m \in j..i-1 : order[m] \in Below(z)
          /\ \A m \in i..N : order[m] \notin Below(z)
          /\ \A y \in Elements(stack) : y \notin Below(z)
      BY <2>1, <3>1 DEF Position, DoneIInv, N
    <3>4. id \notin Below(z)
      BY <1>3, <3>3
    <3>5. ASSUME NEW j \in 1..N+1, order'[j] = z, NEW m \in j..i-1 PROVE order'[m] \in Below(z)
      <4>1. j # N + 1
        BY <1>18, <1>24, <3>2, <3>5
      <4>2. j \in 1..N /\ m \in 1..N
        BY <1>18, <2>1, <4>1
      <4>3. QED
        BY <1>18, <3>3, <3>5, <4>2
    <3>6. ASSUME NEW m \in i..N+1 PROVE order'[m] \notin Below(z)
      <4>1. m = N + 1 \/ (m \in i..N /\ m \in 1..N)
        BY <1>18, <2>1
      <4>2. QED
        BY <1>18, <3>3, <3>4, <4>1
    <3>7. ASSUME NEW y \in Elements(stack') PROVE y \notin Below(z)
      BY <1>3, <1>12, <1>24, <3>2, <3>3, <3>4, <3>7
    <3>8. QED
      BY <3>5, <3>6, <3>7
  <2>2. CASE i = N + 1
    <3>1. order'[i] = id /\ id # 0 /\ z = n.previous
      BY <1>18, <2>2 DEF n
    <3>2. /\ z \in Nodes /\ z # id /\ Parent(z) = Parent(id) /\ z \in Elements(order)
          /\ \A a, j \in 1..N : order[j] = z /\ j <= a => order[a] \in Below(z)
      BY <1>21, <3>1
    <3>3. id \notin Below(z)
      BY <1>2, <1>3, <3>1, <3>2, Siblings
    <3>4. ASSUME NEW j \in 1..N+1, order'[j] = z, NEW m \in j..i-1 PROVE order'[m] \in Below(z)
      <4>1. j # N + 1
        BY <1>18, <3>2, <3>4
      <4>2. j \in 1..N /\ m \in 1..N /\ j <= m
        BY <1>18, <2>2, <4>1
      <4>3. QED
        BY <1>18, <3>2, <3>4, <4>2
    <3>5. ASSUME NEW m \in i..N+1 PROVE order'[m] \notin Below(z)
      <4>1. m = N + 1
        BY <1>18, <2>2
      <4>2. QED
        BY <1>18, <3>3, <4>1
    <3>6. ASSUME NEW y \in Elements(rest) PROVE y \notin Below(z)
      <4>1. PICK k \in 1..L : y = stack[k]
        BY <1>19, <3>6 DEF Elements, L
      <4>2. k \in 1..Len(stack) /\ k # Len(stack) /\ L + 1 \in k+1..Len(stack) /\ y \in Nodes
        BY <1>19, <4>1
      <4>3. y # z
        BY <1>2, <1>3, <3>2, <3>6
      <4> SUFFICES ASSUME y \in Below(z) PROVE FALSE
        OBVIOUS
      <4>4. y # 0
        BY <1>2, <3>2, <4>3, BranchIs
      <4> DEFINE w == NodeInfo(y).previous
      <4>5. w # 0
        BY <4>1, <4>2, <4>4 DEF Position, WaitingIInv
      <4>6. id \in Below(w)
        BY <1>19, <4>1, <4>2, <4>4, <4>5 DEF Position, WaitingIInv
      <4>7. w \in Nodes /\ w # y /\ Parent(w) = Parent(y)
        BY <1>2, <4>2, <4>5 DEF LinksHold, Parent
      <4> HIDE DEF w
      <4>8. w \in Below(z)
        BY <1>2, <3>2, <4>2, <4>3, <4>4, <4>5, <4>7, Siblings
      <4>9. Below(w) \subseteq Below(z)
        BY <1>2, <3>2, <4>8, BranchIs
      <4>10. QED
        BY <3>3, <4>6, <4>9
    <3>7. ASSUME NEW y \in Elements(stack') PROVE y \notin Below(z)
      BY <1>3, <1>12, <1>24, <3>2, <3>3, <3>6, <3>7
    <3>8. QED
      BY <3>4, <3>5, <3>7
  <2>3. QED
    BY <1>18, <2>1, <2>2
<1>27. QED
  BY <1>4, <1>15, <1>16, <1>17, <1>22, <1>25, <1>26 DEF Position

\* The chain from the preferred child of a state has every visited child.
LEMMA VisitedAreListed ==
    ASSUME Numbers, Position, Linked, 0 \notin Sequences, NEW id \in Nodes, NEW f, IsChain(f, id),
           NEW c \in Children(id), c \in Elements(order)
    PROVE  \E n \in Nat : f[n] = c
<1> DEFINE N == Len(order)
           Listed(x) == \E n \in Nat : f[n] = x
           S == {k \in Nat : \A i \in 1..N : i <= k /\ order[i] \in Children(id) => Listed(order[i])}
<1>1. AnyFile /\ order \in Seq(Nodes) /\ N \in Nat
  BY DEF Numbers, Position, WalkIInv
<1>b. \A n \in Nat : n + 1 \in Nat /\ f[n+1] = NodeInfo(f[n]).next
  BY DEF IsChain
<1>2. 0 \in S
  BY <1>1
<1>3. ASSUME NEW k \in Nat, k \in S PROVE k + 1 \in S
  <2> SUFFICES ASSUME NEW i \in 1..N, i = k + 1, order[i] \in Children(id) PROVE Listed(order[i])
    BY <1>1, <1>3
  <2> DEFINE x == order[i]
  <2>1. x # 0 /\ x \in Nodes /\ Parent(x) = id /\ LinksHold(x)
    BY DEF Children, Nodes, Linked
  <2>2. CASE NodeInfo(x).previous = 0
    <3>1. f[0] = x
      BY <2>1, <2>2 DEF LinksHold, IsChain, Parent
    <3>2. QED
      BY <3>1
  <2>3. CASE NodeInfo(x).previous # 0
    <3>1. PICK j \in 1..i-1 : order[j] = NodeInfo(x).previous
      BY <2>1, <2>3 DEF Position, OrderIInv
    <3>2. /\ order[j] \in Children(id) /\ NodeInfo(order[j]).next = x
      BY <2>1, <2>3, <3>1 DEF LinksHold, Children, Nodes, Parent
    <3>3. j \in 1..N /\ j <= k
      BY <1>1, <3>1
    <3>a. Listed(order[j])
      <4> HIDE DEF Listed
      <4>1. QED
        BY <1>3, <3>2, <3>3
    <3>4. PICK n \in Nat : f[n] = order[j]
      BY <3>a
    <3>5. n + 1 \in Nat /\ f[n + 1] = NodeInfo(f[n]).next
      BY <1>b
    <3> HIDE DEF x
    <3>6. f[n + 1] = x
      BY <3>2, <3>4, <3>5
    <3>7. QED
      BY <3>5, <3>6 DEF x
  <2>4. QED
    BY <2>2, <2>3
<1>4. Nat \subseteq S
  <2> HIDE DEF S
  <2>1. QED
    BY <1>2, <1>3, SetInduction
<1>5. PICK i \in 1..N : order[i] = c
  BY DEF Elements
<1>6. QED
  BY <1>1, <1>4, <1>5

\* What the checks and a walk that reached every state say together.
LEMMA AcceptedIsWellFormed ==
    ASSUME Numbers, Position, Elements(order) = Nodes, Indexed, Linked, PositionHolds
    PROVE  WellFormed
<1>1. AnyFile /\ 0 \notin Sequences
  BY IndexedRoot DEF Numbers
<1>2. \A id \in Sequences : Parent(id) \in Nodes /\ Parent(id) < id
  BY <1>1 DEF Linked, LinksHold, Nodes, Parent
<1>3. ASSUME NEW id \in Nodes PROVE \E s \in SetToSeqs(Children(id)) : LinkedAs(id, s)
  <2>1. PICK f : IsChain(f, id)
    BY <1>1, ChainExists
  <2>2. \A c \in Children(id) : \E n \in Nat : f[n] = c
    BY <1>1, <2>1, VisitedAreListed, ChildrenAreNodes
  <2>3. QED
    BY <1>1, <2>1, <2>2, OrderedChildren
<1>4. /\ Cardinality(Sequences) = Len(file.records)
      /\ Sequences \subseteq 1..file.last
      /\ \A i \in DOMAIN file.records :
           file.records[i].save = NoSave \/ file.lastSave = NoSave
              \/ file.records[i].save <= file.lastSave
  BY <1>1, IndexedIs
<1>5. \A id \in Nodes : NodeInfo(id).preferred = 0 => Children(id) = {}
  BY <1>1 DEF Position, FoundIInv, Children, Nodes
<1>6. QED
  BY <1>2, <1>3, <1>4, <1>5 DEF PositionHolds, WellFormed

-----------------------------------------------------------------------------
(* A walk of a tree reaches every state: the children are in the one list    *)
(* that the walk follows, and the parent of a child is less.                *)
LEMMA WalkReachesAll ==
    ASSUME Numbers, Position, Linked, 0 \notin Sequences, WellFormed, stack = <<>>
    PROVE  Elements(order) = Nodes
<1>1. AnyFile /\ order \in Seq(Nodes) /\ Nodes \subseteq Nat /\ 0 \in Nodes
  BY NodesAreNumbers DEF Numbers, Position, WalkIInv
<1>2. Elements(stack) = {}
  <2>1. Len(stack) = 0
    BY EmptySeq
  <2>2. QED
    BY <2>1 DEF Elements
<1>3. /\ 0 \in Elements(order)
      /\ \A x \in Elements(order) :
           {NodeInfo(x).preferred, NodeInfo(x).next} \subseteq Elements(order)
  BY <1>2 DEF Position, ClosedIInv
<1>4. Elements(order) \subseteq Nodes
  BY <1>1, ElementOfSeq DEF Elements
<1>5. ASSUME NEW x \in Nodes \ Elements(order), \A y \in Nodes \ Elements(order) : x <= y
      PROVE  FALSE
  <2>1. x \in Sequences /\ x \in Children(Parent(x))
    BY <1>3 DEF Nodes, Children
  <2>2. Parent(x) \in Elements(order)
    <3>1. Parent(x) \in Nodes /\ Parent(x) < x
      BY <2>1 DEF WellFormed
    <3>2. Parent(x) \in Nat /\ x \in Nat
      BY <1>1, <3>1
    <3>3. QED
      BY <1>5, <3>1, <3>2
  <2> DEFINE p == Parent(x)
  <2>3. PICK s \in SetToSeqs(Children(p)) : LinkedAs(p, s)
    BY <1>4, <2>2 DEF WellFormed
  <2>4. /\ Len(s) \in Nat /\ DOMAIN s = 1..Len(s) /\ (s = <<>> <=> Len(s) = 0)
        /\ \A i \in 1..Len(s) : s[i] \in Children(p)
        /\ \E i \in 1..Len(s) : s[i] = x
    BY <1>1, <2>1, ListedChildren
  <2> DEFINE S == {k \in Nat : k + 1 <= Len(s) => s[k+1] \in Elements(order)}
  <2>5. 0 \in S
    <3>1. 1 <= Len(s) => s # <<>>
      BY <2>4
    <3>2. 1 <= Len(s) => NodeInfo(p).preferred = s[1]
      BY <2>3, <3>1 DEF LinkedAs
    <3> HIDE DEF p
    <3>3. QED
      BY <1>3, <2>2, <3>2 DEF p
  <2>6. ASSUME NEW k \in Nat, k \in S PROVE k + 1 \in S
    <3> SUFFICES ASSUME (k + 1) + 1 <= Len(s) PROVE s[(k + 1) + 1] \in Elements(order)
      OBVIOUS
    <3>a. Len(s) \in Nat
      BY <2>4
    <3>1. k + 1 \in 1..Len(s) /\ k + 1 # Len(s)
      <4> HIDE DEF S, p
      <4>1. QED
        BY <3>a
    <3>2. NodeInfo(s[k+1]).next = s[(k + 1) + 1]
      <4> HIDE DEF p
      <4>1. QED
        BY <2>3, <2>4, <3>1 DEF LinkedAs
    <3>3. s[k+1] \in Elements(order)
      <4>1. k + 1 <= Len(s)
        <5> HIDE DEF S, p
        <5>1. QED
          BY <3>a, <3>1
      <4>2. QED
        BY <2>6, <4>1
    <3>4. QED
      BY <1>3, <3>2, <3>3
  <2>7. Nat \subseteq S
    <3> HIDE DEF S
    <3>1. QED
      BY <2>5, <2>6, SetInduction
  <2>8. PICK i \in 1..Len(s) : s[i] = x
    BY <2>4
  <2>9. i - 1 \in Nat /\ (i - 1) + 1 = i /\ (i - 1) + 1 <= Len(s)
    BY <2>4
  <2>10. s[i] \in Elements(order)
    BY <2>7, <2>9
  <2>11. QED
    BY <2>8, <2>10
<1>6. QED
  <2> SUFFICES ASSUME Nodes \ Elements(order) # {} PROVE FALSE
    BY <1>4
  <2>1. Nodes \ Elements(order) \in SUBSET Nat
    BY <1>1
  <2>2. \E x \in Nodes \ Elements(order) : \A y \in Nodes \ Elements(order) : x <= y
    BY <2>1, LeastNumber
  <2>3. QED
    BY <1>5, <2>2

LEMMA TreesAreInPosition ==
    ASSUME AnyFile, Linked, WellFormed
    PROVE  PositionHolds
<1>1. PreferredPath \subseteq Nodes /\ 0 \in Nodes
  BY PathGoesBack, NodesAreNumbers
<1>2. file.newest \in Nodes /\ file.timeline <= file.last
  BY DEF WellFormed
<1>3. CASE file.nextRedo # 0
  BY <1>1, <1>2, <1>3 DEF WellFormed, PositionHolds
<1>4. CASE file.nextRedo = 0
  <2>1. file.newest \in PreferredPath /\ Children(file.newest) = {}
    BY <1>4 DEF WellFormed
  <2>2. NodeInfo(file.newest).preferred = 0
    BY <1>2, <2>1 DEF Linked, LinksHold, Children, Parent, Nodes
  <2>3. QED
    BY <1>1, <1>2, <1>4, <2>1, <2>2 DEF PositionHolds
<1>5. QED
  BY <1>3, <1>4

LEMMA VisitIInv == ASSUME IInv, Visit PROVE IInv'
<1>1. pass = "walk" /\ pass' = "walk" /\ UNCHANGED file /\ Position'
  BY VisitPosition DEF Visit, IInv
<1>2. Numbers'
  BY <1>1, FileStays DEF IInv, Numbers
<1>3. QED
  BY <1>1, <1>2 DEF IInv, EveryStateIsReached, Verdict

LEMMA BindReferenceIInv == ASSUME IInv, BindReference PROVE IInv'
<1>1. /\ pass = "reference" /\ UNCHANGED <<file, order, stack>>
      /\ pass' = IF PositionHolds THEN "valid" ELSE "invalid"
  BY DEF BindReference, To
<1>2. AnyFile /\ Indexed /\ Linked /\ Elements(order) = Nodes
  BY <1>1 DEF IInv, Numbers, EveryStateIsReached
<1>3. pass' = "invalid" => ~WellFormed
  BY <1>1, <1>2, TreesAreInPosition
<1>4. ASSUME pass' = "valid" PROVE ReferenceIsThePosition'
  <2>1. PositionHolds
    BY <1>1, <1>4
  <2>2. reference' = IF file.nextRedo # 0 THEN Parent(file.nextRedo) ELSE file.newest
    BY <1>4 DEF BindReference
  <2>3. reference' \in PreferredPath /\ NodeInfo(reference').preferred = file.nextRedo
    BY <1>2, <2>1, <2>2, PathGoesBack DEF PositionHolds
  <2>4. PreferredPath' = PreferredPath /\ NodeInfo(reference)' = NodeInfo(reference')
    BY <1>1, FileStays
  <2>5. QED
    BY <1>1, <2>3, <2>4 DEF ReferenceIsThePosition
<1>5. QED
  BY <1>1, <1>2, <1>3, <1>4, StillIInv

LEMMA NextIInv == IInv /\ [HistoryNext]_historyVars => IInv'
<1> SUFFICES ASSUME IInv, [HistoryNext]_historyVars PROVE IInv'
  OBVIOUS
<1>a. AnyFile
  BY DEF IInv, Numbers
<1>1. CASE UNCHANGED historyVars
  <2>1. ReferenceIsThePosition' = ReferenceIsThePosition
    BY <1>1, FileStays DEF historyVars, ReferenceIsThePosition
  <2>2. QED
    BY <1>1, <2>1, StillIInv DEF historyVars, IInv, Numbers, EveryStateIsReached, Verdict
<1>2. CASE IndexRecords
  <2>1. /\ pass = "records" /\ UNCHANGED <<file, order, stack>>
        /\ pass' = IF Indexed THEN "links" ELSE "invalid"
    BY <1>2 DEF IndexRecords, To, Indexed
  <2>2. ~Indexed => ~WellFormed
    BY <1>a, IndexedIs DEF WellFormed
  <2>3. QED
    BY <2>1, <2>2, StillIInv
<1>3. CASE ValidateLinks
  <2>1. /\ pass = "links" /\ UNCHANGED <<file, order, stack>>
        /\ pass' = IF Linked THEN "walk" ELSE "invalid"
    BY <1>3 DEF ValidateLinks, To, Linked
  <2>2. Indexed /\ 0 \notin Sequences
    BY <1>a, <2>1, IndexedRoot DEF IInv, Numbers
  <2>3. ~Linked => ~WellFormed
    BY <1>a, <2>2, OrderedIsLinked DEF WellFormed
  <2>4. QED
    BY <2>1, <2>2, <2>3, StillIInv
<1>4. CASE Visit
  BY <1>4, VisitIInv
<1>5. CASE EndWalk
  <2>1. /\ pass = "walk" /\ UNCHANGED <<file, order, stack>> /\ stack = <<>>
        /\ pass' = IF Len(order) = Cardinality(Nodes) THEN "reference" ELSE "invalid"
    BY <1>5 DEF EndWalk, To
  <2>2. Numbers /\ Position /\ Indexed /\ Linked /\ 0 \notin Sequences
    BY <1>a, <2>1, IndexedRoot DEF IInv, Numbers
  <2>3. order \in Seq(Nodes) /\ Once(order)
    BY <2>2 DEF Position, WalkIInv
  <2>4. pass' = "reference" => Elements(order) = Nodes
    BY <1>a, <2>1, <2>3, NodesAreNumbers, AllOfThem
  <2>5. pass' = "invalid" => ~WellFormed
    BY <2>1, <2>2, <2>3, WalkReachesAll, AsManyAsElements
  <2>6. QED
    BY <2>1, <2>2, <2>4, <2>5, StillIInv
<1>6. CASE BindReference
  BY <1>6, BindReferenceIInv
<1>7. CASE CancelNew
  BY <1>7, StillIInv DEF CancelNew
<1>8. QED
  BY <1>1, <1>2, <1>3, <1>4, <1>5, <1>6, <1>7 DEF HistoryNext

LEMMA Inductive == HistorySpec => []IInv
BY InitIInv, NextIInv, PTL DEF HistorySpec

-----------------------------------------------------------------------------
(* New (history.go) accepts a file exactly when it is a tree whose position   *)
(* is on the preferred path, for files of any size: no check is missing, and *)
(* none is stricter than the tree that Neovim writes.                       *)
THEOREM ExactlyTheTrees == HistorySpec => []AcceptsExactlyTrees
<1>1. IInv => AcceptsExactlyTrees
  <2> SUFFICES ASSUME IInv PROVE AcceptsExactlyTrees
    OBVIOUS
  <2>1. ASSUME pass = "valid" PROVE WellFormed
    BY <2>1, AcceptedIsWellFormed DEF IInv, Numbers, EveryStateIsReached, Verdict
  <2>2. QED
    BY <2>1 DEF AcceptsExactlyTrees, AcceptsTreesOnly, RefusesNoTree, IInv, Verdict
<1>2. QED
  BY <1>1, Inductive, PTL

-----------------------------------------------------------------------------

LEMMA Places ==
    ASSUME Position, Elements(order) = Nodes, NEW x \in Nodes
    PROVE  /\ Place(x) \in 1..Len(order) /\ order[Place(x)] = x
           /\ \A i \in 1..Len(order) : order[i] = x => i = Place(x)
<1>1. DOMAIN order = 1..Len(order) /\ Once(order)
  BY LenProperties DEF Position, WalkIInv
<1>2. \E i \in DOMAIN order : order[i] = x
  BY <1>1 DEF Elements
<1>3. Place(x) \in DOMAIN order /\ order[Place(x)] = x
  BY <1>2 DEF Place
<1>4. QED
  BY <1>1, <1>3 DEF Once

\* The branch of a state is visited as a whole, from the state on.
LEMMA BranchIsContiguous ==
    ASSUME Numbers, Position, Elements(order) = Nodes, Linked, 0 \notin Sequences,
           NEW id \in Nodes, NodeInfo(id).next # 0
    PROVE  Place(NodeInfo(id).next) = Place(id) + Cardinality(Below(id))
<1> DEFINE N == Len(order)
           x == NodeInfo(id).next
           i == Place(x)
           j == Place(id)
<1>1. x \in Nodes /\ x # 0 /\ NodeInfo(x).previous = id /\ id # 0
  <2>1. id # 0
    BY DEF NodeInfo
  <2>2. QED
    BY <2>1 DEF Linked, LinksHold
<1> HIDE DEF x
<1>2. /\ i \in 1..N /\ order[i] = x /\ j \in 1..N /\ order[j] = id
      /\ \A k \in 1..N : order[k] = id => k = j
  BY <1>1, Places
<1> HIDE DEF i, j
<1>3. N \in Nat /\ AnyFile
  BY DEF Numbers, Position, WalkIInv
<1>4. j < i
  <2>1. PICK k \in 1..i-1 : order[k] = id
    BY <1>1, <1>2 DEF Position, OrderIInv
  <2>2. k \in 1..N /\ k < i
    BY <1>2, <1>3
  <2>3. QED
    BY <1>2, <2>1, <2>2
<1>5. /\ \A m \in j..i-1 : order[m] \in Below(id)
      /\ \A m \in i..N : order[m] \notin Below(id)
  BY <1>1, <1>2 DEF Position, DoneIInv
<1>6. \A m \in 1..j-1 : order[m] \notin Below(id)
  <2> DEFINE S == {m \in 1..j-1 : order[m] \in Below(id)}
  <2> SUFFICES ASSUME S # {} PROVE FALSE
    OBVIOUS
  <2>1. S \in SUBSET Nat
    BY <1>2
  <2>2. PICK m \in S : \A k \in S : m <= k
    <3> HIDE DEF S
    <3>1. QED
      BY <2>1, LeastNumber
  <2>3. m \in 1..N /\ m # j /\ order[m] \in Below(id)
    BY <1>2, <1>3
  <2>4. order[m] # id
    BY <1>2, <2>3
  <2>5. order[m] # 0 /\ Parent(order[m]) \in Below(id)
    BY <1>3, <2>3, <2>4, BranchIs
  <2>6. PICK k \in 1..m-1 : order[k] = Parent(order[m])
    BY <2>3, <2>5 DEF Position, OrderIInv, Parent
  <2>7. k \in S /\ k < m
    BY <1>2, <1>3, <2>5, <2>6
  <2>8. k \in Int /\ m \in Int
    BY <2>7
  <2>9. QED
    BY <2>2, <2>7, <2>8
<1>7. Below(id) = {order[m] : m \in j..i-1}
  <2>1. ASSUME NEW y \in Below(id) PROVE \E m \in j..i-1 : order[m] = y
    <3>1. y \in Nodes
      BY <1>3, BranchIs
    <3>2. PICK m \in 1..N : order[m] = y
      BY <3>1 DEF Elements
    <3>3. m \in j..i-1
      BY <1>2, <1>3, <1>5, <1>6, <3>2
    <3>4. QED
      BY <3>2, <3>3
  <2>2. QED
    BY <1>5, <2>1
<1>8. Cardinality(Below(id)) = i - j
  <2> DEFINE branch == [m \in j..i-1 |-> order[m]]
  <2>1. \A a, b \in j..i-1 : order[a] = order[b] => a = b
    <3>1. \A a \in j..i-1 : a \in 1..N
      BY <1>2, <1>3
    <3>2. QED
      BY <3>1 DEF Position, WalkIInv, Once
  <2>2. branch \in Bijection(j..i-1, Below(id))
    BY <1>7, <2>1 DEF Bijection, Injection, Surjection, IsInjective
  <2>3. j \in Int /\ i - 1 \in Int /\ i - 1 - j + 1 = i - j /\ j <= i - 1
    BY <1>2, <1>4
  <2>4. IsFiniteSet(j..i-1) /\ Cardinality(j..i-1) = i - j
    <3> DEFINE k == i - 1
    <3>1. j \in Int /\ k \in Int /\ ~ (j > k) /\ k - j + 1 = i - j
      BY <2>3
    <3> HIDE DEF k
    <3>2. IsFiniteSet(j..k) /\ Cardinality(j..k) = i - j
      BY <3>1, FS_Interval
    <3>3. QED
      BY <3>2 DEF k
  <2>5. QED
    BY <2>2, <2>4, FS_Bijection DEF ExistsBijection
<1>9. i = j + (i - j)
  BY <1>2
<1>10. QED
  BY <1>8, <1>9 DEF i, j, x

(* The answer "cycle or repeated child" of walk (history.go) is never given: *)
(* whatever the records link, what passes validateLinks leads to no state    *)
(* twice.                                                                   *)
THEOREM NoRepetition == HistorySpec => []NoNodeIsReachedTwice
<1>1. IInv => NoNodeIsReachedTwice
  BY ConcatOnce DEF IInv, Position, WalkIInv, NoNodeIsReachedTwice
<1>2. QED
  BY <1>1, Inductive, PTL

(* The order in which walk (history.go) leaves the states is the recorded     *)
(* order: a state, then the whole branch of its preferred child, then that   *)
(* of each alternative; and the reference is where the file says redo starts. *)
THEOREM Traversal == HistorySpec => []WalkIsATraversal
<1>1. IInv => NoNodeIsReachedTwice
  BY ConcatOnce DEF IInv, Position, WalkIInv, NoNodeIsReachedTwice
<1>2. IInv => ReferenceIsThePosition
  BY DEF IInv, Verdict, ReferenceIsThePosition
<1>3. IInv => RecordedOrder
  <2> SUFFICES ASSUME IInv, pass = "valid" PROVE RecordedOrder
    BY DEF RecordedOrder
  <2>1. /\ Numbers /\ Position /\ Elements(order) = Nodes /\ Linked /\ 0 \notin Sequences /\ 0 \in Nodes
    BY IndexedRoot, NodesAreNumbers DEF IInv, Numbers, EveryStateIsReached
  <2>2. order[1] = 0 /\ ToSet(order) = Nodes
    <3>1. DOMAIN order = 1..Len(order) /\ order # <<>>
      BY <2>1, LenProperties, EmptySeq DEF Position, WalkIInv, Elements
    <3>2. QED
      BY <2>1, <3>1 DEF Position, OrderIInv, ToSet, Elements
  <2>3. ASSUME NEW id \in Nodes, NodeInfo(id).preferred # 0
        PROVE  Place(NodeInfo(id).preferred) = Place(id) + 1
    <3> DEFINE p == NodeInfo(id).preferred
               i == Place(p)
    <3>1. p \in Nodes /\ p # 0 /\ NodeInfo(p).previous = 0 /\ NodeInfo(p).parent = id
      BY <2>1, <2>3 DEF Linked, LinksHold
    <3> HIDE DEF p
    <3>2. i \in 1..Len(order) /\ order[i] = p
      BY <2>1, <3>1, Places
    <3> HIDE DEF i
    <3>3. i > 1 /\ order[i-1] = id
      BY <2>1, <3>1, <3>2 DEF Position, OrderIInv
    <3>4. i - 1 \in 1..Len(order) /\ (i - 1) + 1 = i
      BY <3>2, <3>3
    <3>5. Place(id) = i - 1
      BY <2>1, <3>3, <3>4, Places
    <3>6. QED
      BY <3>4, <3>5 DEF i, p
  <2>4. \A id \in Nodes : NodeInfo(id).next # 0 =>
          Place(NodeInfo(id).next) = Place(id) + Cardinality(Below(id))
    BY <2>1, BranchIsContiguous
  <2>5. QED
    BY <2>2, <2>3, <2>4 DEF RecordedOrder
<1>4. IInv => WalkIsATraversal
  BY <1>1, <1>2, <1>3 DEF WalkIsATraversal
<1>5. QED
  BY <1>4, Inductive, PTL

(* A file that walk passes (history.go) has every state on the way, so no    *)
(* ring of siblings and no branch is cut off from the root.                 *)
THEOREM AllReached == HistorySpec => []EveryStateIsReached
<1>1. IInv => EveryStateIsReached
  BY DEF IInv
<1>2. QED
  BY <1>1, Inductive, PTL

(* A state of which no preferred child is recorded has no children at all, so *)
(* bindReference (history.go) is right to take it for a leaf.               *)
NoChildIsHidden ==
    pass \in {"reference", "valid"} =>
        \A id \in Nodes : NodeInfo(id).preferred = 0 => Children(id) = {}

THEOREM LeavesAreLeaves == HistorySpec => []NoChildIsHidden
<1>1. IInv => NoChildIsHidden
  <2> SUFFICES ASSUME IInv, pass \in {"reference", "valid"}, NEW c \in Sequences
               PROVE  NodeInfo(Parent(c)).preferred # 0
    BY DEF NoChildIsHidden, Children
  <2>1. c \in Elements(order) \ {0}
    <3>1. c \in Elements(order)
      BY DEF IInv, EveryStateIsReached, Nodes
    <3>2. c # 0
      BY IndexedRoot DEF IInv, Numbers
    <3>3. QED
      BY <3>1, <3>2
  <2>2. QED
    BY <2>1 DEF IInv, Position, FoundIInv
<1>2. QED
  BY <1>1, Inductive, PTL

-----------------------------------------------------------------------------
(* What is above a state of the tree that New accepted: the way to the root. *)

\* The function that Above is read from.
IsLine(f, id) == f = [k \in Nat |-> IF k = 0 THEN {id} \ {0}
                                    ELSE f[k-1] \cup ({Parent(a) : a \in f[k-1]} \ {0})]

LEMMA LineExists ==
    ASSUME AnyFile, Linked, NEW id \in Nodes
    PROVE  \E f \in [Nat -> SUBSET Sequences] : IsLine(f, id) /\ Above(id) = f[Len(file.records)]
<1> DEFINE F == [p \in Nat \X SUBSET Sequences |-> p[2] \cup ({Parent(a) : a \in p[2]} \ {0})]
<1>0. \A a \in Sequences : Parent(a) \in Sequences \cup {0}
  BY DEF Linked, LinksHold, Nodes, Parent
<1>1. F \in [Nat \X SUBSET Sequences -> SUBSET Sequences] /\ {id} \ {0} \in SUBSET Sequences
  BY <1>0 DEF Nodes
<1>2. PICK f \in [Nat -> SUBSET Sequences] : IsRecursive(f, {id} \ {0}, F)
  <2> HIDE DEF F
  <2>1. QED
    BY <1>1, Recursion
<1>3. IsLine(f, id)
  <2>1. ASSUME NEW k \in Nat, k # 0
        PROVE  F[<<k, f[k-1]>>] = f[k-1] \cup ({Parent(a) : a \in f[k-1]} \ {0})
    <3>1. k - 1 \in Nat
      BY <2>1
    <3>2. <<k, f[k-1]>> \in Nat \X SUBSET Sequences
      BY <1>2, <3>1
    <3>3. QED
      BY <3>2
  <2>2. f = [k \in Nat |-> IF k = 0 THEN {id} \ {0} ELSE F[<<k, f[k-1]>>]]
    BY <1>2 DEF IsRecursive
  <2> HIDE DEF F
  <2>3. \A k \in Nat : f[k] = IF k = 0 THEN {id} \ {0}
                              ELSE f[k-1] \cup ({Parent(a) : a \in f[k-1]} \ {0})
    BY <2>1, <2>2
  <2>4. QED
    BY <1>2, <2>3 DEF IsLine
<1> DEFINE g == CHOOSE h : IsLine(h, id)
<1>4. IsLine(g, id)
  BY <1>3
<1>5. Above(id) = g[Len(file.records)]
  BY DEF Above, IsLine
<1>6. g \in [Nat -> SUBSET Sequences]
  <2> HIDE DEF g
  <2>1. DOMAIN g = Nat /\ g = [k \in Nat |-> g[k]]
    BY <1>4 DEF IsLine
  <2> DEFINE S == {k \in Nat : g[k] \in SUBSET Sequences}
  <2>2. 0 \in S
    BY <1>4 DEF IsLine, Nodes
  <2>3. ASSUME NEW k \in Nat, k \in S PROVE k + 1 \in S
    <3>1. k + 1 \in Nat /\ k + 1 # 0 /\ (k + 1) - 1 = k
      OBVIOUS
    <3>2. g[k+1] = g[k] \cup ({Parent(a) : a \in g[k]} \ {0})
      BY <1>4, <3>1 DEF IsLine
    <3>3. QED
      BY <1>0, <2>3, <3>1, <3>2
  <2>4. Nat \subseteq S
    <3> HIDE DEF S
    <3>1. QED
      BY <2>2, <2>3, SetInduction
  <2>5. QED
    BY <2>1, <2>4
<1>7. QED
  BY <1>4, <1>5, <1>6

\* The states above one another: what is above the parent, and the state itself.
LEMMA Ancestors ==
    ASSUME AnyFile, Indexed, Linked
    PROVE  /\ Above(0) = {}
           /\ \A id \in Sequences : /\ Parent(id) \in Nodes
                                    /\ Above(id) = {id} \cup Above(Parent(id))
                                    /\ id \notin Above(Parent(id))
           /\ \A id \in Nodes : Above(id) \subseteq Sequences
           /\ \A id \in Nodes : \A a \in Above(id) : Above(a) \subseteq Above(id)
<1> DEFINE n == Len(file.records)
           Steps(f) == \A k \in Nat : f[k+1] = f[k] \cup ({Parent(a) : a \in f[k]} \ {0})
<1>1. 0 \notin Sequences /\ IsFiniteSet(Sequences) /\ Cardinality(Sequences) = n /\ n \in Nat
  BY IndexedRoot, IndexedIs, NodesAreNumbers DEF AnyFile
<1>2. \A a \in Sequences : Parent(a) \in Nodes /\ Parent(a) < a /\ a # 0
  BY <1>1 DEF Linked, LinksHold, Nodes, Parent
<1>3. Nodes \subseteq Nat /\ Sequences = Nodes \ {0}
  BY <1>1, NodesAreNumbers DEF Nodes
<1> HIDE DEF n
<1>4. ASSUME NEW f, NEW z, IsLine(f, z) PROVE f[0] = {z} \ {0} /\ Steps(f)
  <2>1. \A k \in Nat : k + 1 \in Nat /\ k + 1 # 0 /\ (k + 1) - 1 = k
    OBVIOUS
  <2>2. QED
    BY <1>4, <2>1 DEF IsLine
<1>5. ASSUME NEW id \in Nodes
      PROVE  \E f \in [Nat -> SUBSET Sequences] :
               f[0] = {id} \ {0} /\ Steps(f) /\ Above(id) = f[n]
  <2>1. PICK f \in [Nat -> SUBSET Sequences] : IsLine(f, id) /\ Above(id) = f[n]
    BY LineExists DEF n
  <2> HIDE DEF Steps
  <2>2. QED
    BY <1>4, <2>1

\* It stops growing before there are more than there are.
<1>6. ASSUME NEW id \in Nodes, NEW f \in [Nat -> SUBSET Sequences], f[0] = {id} \ {0}, Steps(f)
      PROVE  f[n+1] = f[n]
  <2>1. \A k \in Nat : k + 1 \in Nat /\ f[k] \subseteq f[k+1]
    BY <1>6
  <2>2. \A k \in Nat : IsFiniteSet(f[k]) /\ Cardinality(f[k]) \in Nat /\ Cardinality(f[k]) <= n
    BY <1>1, FS_Subset, FS_CardinalityType
  <2>3. ASSUME NEW k \in Nat, f[k+1] # f[k] PROVE Cardinality(f[k+1]) >= Cardinality(f[k]) + 1
    <3>1. Cardinality(f[k]) < Cardinality(f[k+1])
      BY <2>1, <2>2, <2>3, FS_Subset, SMTT(30)
    <3>2. QED
      BY <2>1, <2>2, <3>1
  <2> DEFINE G == {k \in Nat : f[k+1] = f[k] \/ Cardinality(f[k+1]) >= k + 1}
  <2>4. 0 \in G
    <3>1. f[0+1] # f[0] => Cardinality(f[0+1]) >= Cardinality(f[0]) + 1
      BY <2>3
    <3>2. Cardinality(f[0]) \in Nat /\ Cardinality(f[0+1]) \in Nat
      BY <2>1, <2>2
    <3>3. QED
      BY <3>1, <3>2
  <2>5. ASSUME NEW k \in Nat, k \in G PROVE k + 1 \in G
    <3>1. CASE f[k+1] = f[k]
      <4>1. f[(k+1)+1] = f[k+1]
        BY <1>6, <2>1, <3>1
      <4>2. QED
        BY <2>1, <4>1
    <3>2. CASE f[k+1] # f[k]
      <4>1. Cardinality(f[k+1]) >= k + 1
        BY <2>5, <3>2
      <4>2. f[(k+1)+1] # f[k+1] => Cardinality(f[(k+1)+1]) >= Cardinality(f[k+1]) + 1
        BY <2>1, <2>3
      <4>3. Cardinality(f[k+1]) \in Nat /\ Cardinality(f[(k+1)+1]) \in Nat
        BY <2>1, <2>2
      <4>4. f[(k+1)+1] # f[k+1] => Cardinality(f[(k+1)+1]) >= (k + 1) + 1
        BY <4>1, <4>2, <4>3
      <4>5. QED
        BY <2>1, <4>4
    <3>3. QED
      BY <3>1, <3>2
  <2>6. Nat \subseteq G
    <3> HIDE DEF G
    <3>1. QED
      BY <2>4, <2>5, SetInduction
  <2>7. Cardinality(f[n+1]) <= n /\ Cardinality(f[n+1]) \in Nat
    BY <1>1, <2>1, <2>2
  <2>8. ~(Cardinality(f[n+1]) >= n + 1)
    BY <1>1, <2>7
  <2>9. QED
    BY <1>1, <2>6, <2>8
<1>7. ASSUME NEW id \in Nodes
      PROVE  /\ Above(id) \subseteq Sequences
             /\ id # 0 => id \in Above(id)
             /\ \A a \in Above(id) : Parent(a) # 0 => Parent(a) \in Above(id)
             /\ \A a \in Above(id) : a <= id
             /\ \A a \in Above(id) : id = 0 \/ a = id \/ a \in Above(Parent(id))
  <2>1. PICK f \in [Nat -> SUBSET Sequences] :
           f[0] = {id} \ {0} /\ Steps(f) /\ Above(id) = f[n]
    BY <1>5
  <2>2. f[n+1] = f[n]
    BY <1>6, <2>1
  <2>3. f[n+1] = f[n] \cup ({Parent(a) : a \in f[n]} \ {0})
    BY <1>1, <2>1
  <2> DEFINE U == IF id = 0 THEN {} ELSE Above(Parent(id))
             S == {k \in Nat : /\ {id} \ {0} \subseteq f[k]
                               /\ \A a \in f[k] : a <= id
                               /\ \A a \in f[k] : a = id \/ a \in U}
  <2>4. ASSUME id # 0
        PROVE  /\ Parent(id) # 0 => Parent(id) \in U
               /\ \A a \in U : Parent(a) # 0 => Parent(a) \in U
    <3>1. Parent(id) \in Nodes
      BY <1>2, <1>3, <2>4
    <3>2. PICK g \in [Nat -> SUBSET Sequences] :
             g[0] = {Parent(id)} \ {0} /\ Steps(g) /\ Above(Parent(id)) = g[n]
      BY <1>5, <3>1
    <3>3. g[n+1] = g[n] /\ g[n+1] = g[n] \cup ({Parent(a) : a \in g[n]} \ {0})
      BY <1>1, <1>6, <3>1, <3>2
    <3> DEFINE B == {k \in Nat : {Parent(id)} \ {0} \subseteq g[k]}
    <3>4. 0 \in B
      BY <3>2
    <3>5. ASSUME NEW k \in Nat, k \in B PROVE k + 1 \in B
      BY <3>2, <3>5
    <3>6. Nat \subseteq B
      <4> HIDE DEF B
      <4>1. QED
        BY <3>4, <3>5, SetInduction
    <3>7. QED
      BY <1>1, <2>4, <3>1, <3>2, <3>3, <3>6
  <2>5. 0 \in S
    BY <1>3, <2>1
  <2>6. ASSUME NEW k \in Nat, k \in S PROVE k + 1 \in S
    <3>1. f[k+1] = f[k] \cup ({Parent(a) : a \in f[k]} \ {0})
      BY <2>1
    <3>2. ASSUME NEW a \in f[k], Parent(a) # 0 PROVE Parent(a) <= id /\ (Parent(a) = id \/ Parent(a) \in U)
      <4> HIDE DEF U
      <4>1. a \in Sequences /\ a <= id /\ (a = id \/ a \in U)
        BY <2>6
      <4>2. a \in Nat \ {0} /\ Parent(a) \in Nat /\ Parent(a) < a /\ id \in Nat
        BY <1>2, <1>3, <4>1
      <4>3. Parent(a) <= id /\ id # 0
        BY <4>1, <4>2
      <4>4. QED
        BY <2>4, <3>2, <4>1, <4>3
    <3> HIDE DEF U
    <3>3. QED
      BY <2>6, <3>1, <3>2
  <2>7. Nat \subseteq S
    <3> HIDE DEF S
    <3>1. QED
      BY <2>5, <2>6, SetInduction
  <2>8. n \in S
    BY <1>1, <2>7
  <2>9. /\ Above(id) \subseteq Sequences
        /\ id # 0 => id \in Above(id)
        /\ \A a \in Above(id) : a <= id /\ (a = id \/ a \in U)
    <3> HIDE DEF U
    <3>1. QED
      BY <2>1, <2>8
  <2>10. \A a \in Above(id) : Parent(a) # 0 => Parent(a) \in Above(id)
    BY <2>1, <2>2, <2>3
  <2>11. \A a \in Above(id) : id = 0 \/ a = id \/ a \in Above(Parent(id))
    BY <2>9
  <2> HIDE DEF U
  <2>12. QED
    BY <2>9, <2>10, <2>11
<1>8. Above(0) = {}
  <2>1. 0 \in Nodes
    BY NodesAreNumbers
  <2>2. \A a \in Above(0) : a \in Sequences /\ a <= 0
    BY <1>7, <2>1
  <2>3. \A a \in Sequences : a \in Nat \ {0}
    BY <1>2, <1>3
  <2>4. \A a \in Above(0) : FALSE
    BY <2>2, <2>3
  <2>5. QED
    BY <2>4
\* Whatever is above a state above is above.
<1>9. ASSUME NEW id \in Nodes, NEW a \in Above(id) PROVE Above(a) \subseteq Above(id)
  <2>1. a \in Nodes /\ a # 0
    BY <1>2, <1>3, <1>7
  <2>2. PICK f \in [Nat -> SUBSET Sequences] : f[0] = {a} \ {0} /\ Steps(f) /\ Above(a) = f[n]
    BY <1>5, <2>1
  <2> DEFINE S == {k \in Nat : f[k] \subseteq Above(id)}
  <2>3. 0 \in S
    BY <2>2
  <2>4. ASSUME NEW k \in Nat, k \in S PROVE k + 1 \in S
    <3>1. f[k+1] = f[k] \cup ({Parent(b) : b \in f[k]} \ {0})
      BY <2>2
    <3>2. QED
      BY <1>7, <2>4, <3>1
  <2>5. Nat \subseteq S
    <3> HIDE DEF S
    <3>1. QED
      BY <2>3, <2>4, SetInduction
  <2>6. QED
    BY <1>1, <2>2, <2>5
<1>10. ASSUME NEW id \in Sequences
       PROVE  Above(id) = {id} \cup Above(Parent(id)) /\ id \notin Above(Parent(id))
  <2>1. id \in Nodes /\ id # 0 /\ Parent(id) \in Nodes /\ Parent(id) < id
    BY <1>2, <1>3
  <2>2. Above(Parent(id)) \subseteq Above(id)
    <3>1. CASE Parent(id) = 0
      BY <1>8, <3>1
    <3>2. CASE Parent(id) # 0
      BY <1>7, <1>9, <2>1, <3>2
    <3>3. QED
      BY <3>1, <3>2
  <2>3. Above(id) = {id} \cup Above(Parent(id))
    BY <1>7, <2>1, <2>2
  <2>4. id \notin Above(Parent(id))
    <3>1. \A a \in Above(Parent(id)) : a <= Parent(id)
      BY <1>7, <2>1
    <3>2. id \in Nat /\ Parent(id) \in Nat
      BY <1>3, <2>1
    <3>3. QED
      BY <2>1, <3>1, <3>2
  <2>5. QED
    BY <2>3, <2>4
<1>11. QED
  BY <1>2, <1>7, <1>8, <1>9, <1>10

-----------------------------------------------------------------------------
(* Replay of one state after another, for any file New accepts.             *)

\* A text has lines; the empty buffer has the dummy one.
Line == Nat

Texts == Seq(Line \cup {EmptyLine}) \ {<<>>}
EntryType == [top : Int, bottom : Int, lines : Seq(Line \cup {EmptyLine})]
AnyEntries == \A h \in Sequences : Entries(h) \in Seq(EntryType)

\* Any decoded file, any verified text, any request.
ReadAndReplay ==
    \/ HistoryNext /\ UNCHANGED replayVars
    \/ \E lines \in Texts : Bind(lines) /\ UNCHANGED historyVars
    \/ ReplayNext /\ UNCHANGED historyVars

ReplaySpec ==
    /\ AnyFile /\ AnyEntries /\ Opened /\ NoRequest
    /\ [][ReadAndReplay]_<<historyVars, replayVars>>

\* Headers on the way up from one state to another.
Leads(s, from, to) ==
    IF s = <<>> THEN from = to
    ELSE /\ s[1] = from /\ Parent(s[Len(s)]) = to
         /\ \A i \in 1..Len(s)-1 : Parent(s[i]) = s[i+1]

Collected(s, from, to) ==
    /\ s \in Seq(Sequences) /\ Once(s)
    /\ Above(to) \subseteq Above(from)
    /\ Elements(s) = Above(from) \ Above(to)
    /\ Leads(s, from, to)

\* What Descend has collected are headers above the target alone.
CollectedDown(to) == Collected(down, target, to) /\ Elements(down) \cap Above(reference) = {}

\* What a header makes of which state's text, on the way that starts at one.
Before(h, from) == IF h \in Above(from) THEN h ELSE Parent(h)

After(h, from) == IF h \in Above(from) THEN Parent(h) ELSE h

\* The path has the headers above one of the two states, each once, and each
\* starts where the one before it ends.
StepsLead ==
    /\ path \in Seq(Sequences) /\ Once(path)
    /\ Elements(path) = (Above(reference) \ Above(target)) \cup (Above(target) \ Above(reference))
    /\ IF path = <<>> THEN reference = target
       ELSE /\ Before(path[1], reference) = reference /\ After(path[Len(path)], reference) = target
            /\ \A i \in 1..Len(path)-1 : After(path[i], reference) = Before(path[i+1], reference)

Working == {"mark", "down", "up", "apply", "done"}

\* What each loop of replayPath has done so far.
WayIInv ==
    /\ pass = "valid" => reference \in Nodes
    /\ phase # "unbound" => pass = "valid"
    /\ phase \in Working => target \in Nodes /\ at \in Nodes
    /\ phase \in {"unbound", "bound"} => onPath = {}
    /\ phase \in {"unbound", "bound", "mark"} => down = <<>>
    /\ phase \in {"unbound", "bound", "mark", "down"} => path = <<>>
    /\ phase = "mark" => Above(at) \subseteq Above(reference) /\ onPath = Above(reference) \ Above(at)
    /\ phase = "down" => onPath = Above(reference) \cup {0} /\ CollectedDown(at)
    /\ phase = "up" => /\ ancestor \in Nodes /\ Above(ancestor) = Above(reference) \cap Above(target)
                       /\ CollectedDown(ancestor)
                       /\ Collected(path, reference, at)
                       /\ ancestor = 0 \/ ancestor \in Above(at)
    /\ phase \in {"apply", "done"} => StepsLead

ReplayIInv == IInv /\ WayIInv

\* One more state on the way up.
LEMMA Further ==
    ASSUME AnyFile, Indexed, Linked, NEW s, NEW from \in Nodes, NEW x \in Sequences, Collected(s, from, x)
    PROVE  Collected(Append(s, x), from, Parent(x)) /\ Elements(Append(s, x)) = Elements(s) \cup {x}
<1>1. s \in Seq(Sequences) /\ Once(s) /\ Elements(s) = Above(from) \ Above(x) /\ Above(x) \subseteq Above(from)
  BY DEF Collected
<1>2. Above(x) = {x} \cup Above(Parent(x)) /\ x \notin Above(Parent(x))
  BY Ancestors
<1>3. /\ Append(s, x) \in Seq(Sequences) /\ Once(Append(s, x))
      /\ Elements(Append(s, x)) = Elements(s) \cup {x}
  <2>1. x \notin Elements(s)
    BY <1>1, <1>2
  <2>2. QED
    BY <1>1, <2>1, AppendOnce
<1>4. Above(Parent(x)) \subseteq Above(from) /\ Elements(Append(s, x)) = Above(from) \ Above(Parent(x))
  BY <1>1, <1>2, <1>3
<1>5. Leads(Append(s, x), from, Parent(x))
  <2> DEFINE t == Append(s, x)
             n == Len(s)
  <2>1. /\ Len(t) = n + 1 /\ n \in Nat /\ \A i \in 1..n : t[i] = s[i]
        /\ t[n + 1] = x
    BY <1>1, AppendProperties, LenProperties
  <2>2. t # <<>>
    BY <1>1, AppendProperties
  <2> HIDE DEF t
  <2>3. CASE s = <<>>
    <3>1. n = 0 /\ from = x
      BY <2>3 DEF Collected, Leads
    <3>2. t[1] = from /\ Parent(t[Len(t)]) = Parent(x) /\ 1..Len(t)-1 = {}
      BY <2>1, <3>1
    <3>3. QED
      BY <2>2, <3>2 DEF Leads, t
  <2>4. CASE s # <<>>
    <3>1. n # 0 /\ s[1] = from /\ Parent(s[n]) = x /\ \A i \in 1..n-1 : Parent(s[i]) = s[i+1]
      BY <1>1, <2>4, EmptySeq DEF Collected, Leads
    <3> HIDE DEF n
    <3>2. t[1] = from
      BY <2>1, <3>1
    <3>3. ASSUME NEW i \in 1..Len(t)-1 PROVE Parent(t[i]) = t[i+1]
      <4>1. CASE i = n
        BY <2>1, <3>1, <4>1
      <4>2. CASE i # n
        <5>1. i \in 1..n-1 /\ i \in 1..n /\ i + 1 \in 1..n
          BY <2>1, <4>2
        <5>2. QED
          BY <2>1, <3>1, <5>1
      <4>3. QED
        BY <4>1, <4>2
    <3>4. QED
      BY <2>1, <2>2, <3>2, <3>3 DEF Leads, t
  <2>5. QED
    BY <2>3, <2>4
<1>6. QED
  BY <1>3, <1>4, <1>5 DEF Collected

LEMMA NothingCollected ==
    ASSUME NEW x
    PROVE  Collected(<<>>, x, x) /\ Elements(<<>>) = {}
BY DEF Collected, Once, Elements, Leads

LEMMA StillAbove ==
    ASSUME UNCHANGED file
    PROVE  /\ \A x : Above(x)' = Above(x)
           /\ \A s, x, y : Collected(s, x, y)' = Collected(s, x, y)
<1>1. Nodes' = Nodes /\ Sequences' = Sequences /\ \A x : Parent(x)' = Parent(x)
  BY FileStays
<1>2. \A x : Above(x)' = Above(x)
  BY DEF Above, Parent, NodeInfo
<1>3. \A s, x, y : Leads(s, x, y)' = Leads(s, x, y)
  BY <1>1 DEF Leads
<1>4. \A s, x, y : Collected(s, x, y)' = Collected(s, x, y)
  BY <1>1, <1>2, <1>3 DEF Collected, Once, Elements
<1>6. QED
  BY <1>2, <1>4

\* The path up and the path down the other way round are one way.
LEMMA OneWayRound ==
    ASSUME AnyFile, Indexed, Linked, reference \in Nodes, target \in Nodes, ancestor \in Nodes,
           Collected(path, reference, ancestor), Collected(down, target, ancestor),
           Above(ancestor) = Above(reference) \cap Above(target), NEW w, w = path \o Reverse(down)
    PROVE  /\ w \in Seq(Sequences) /\ Once(w)
           /\ Elements(w) = (Above(reference) \ Above(target)) \cup (Above(target) \ Above(reference))
           /\ IF w = <<>> THEN reference = target
              ELSE /\ Before(w[1], reference) = reference /\ After(w[Len(w)], reference) = target
                   /\ \A i \in 1..Len(w)-1 : After(w[i], reference) = Before(w[i+1], reference)
<1> DEFINE r == Reverse(down)
           m == Len(path)
           n == Len(down)
<1>1. /\ path \in Seq(Sequences) /\ Once(path) /\ down \in Seq(Sequences) /\ Once(down)
      /\ Elements(path) = Above(reference) \ Above(target) /\ Elements(down) = Above(target) \ Above(reference)
      /\ m \in Nat /\ n \in Nat
  BY LenProperties DEF Collected
<1>2. /\ r \in Seq(Sequences) /\ Len(r) = n /\ Once(r) /\ Elements(r) = Elements(down)
      /\ \A i \in 1..n : r[i] = down[(n - i) + 1]
  BY <1>1, TurnedAround
<1>0. w = path \o r
  OBVIOUS
<1> HIDE DEF r
<1>3. /\ w \in Seq(Sequences) /\ Len(w) = m + n
      /\ \A i \in 1..m+n : w[i] = IF i <= m THEN path[i] ELSE r[i - m]
  <2>1. Len(r) = n
    BY <1>2
  <2>2. path \in Seq(Sequences) /\ r \in Seq(Sequences)
    BY <1>1, <1>2
  <2>3. /\ path \o r \in Seq(Sequences) /\ Len(path \o r) = Len(path) + Len(r)
        /\ \A i \in 1..Len(path) + Len(r) : (path \o r)[i] = IF i <= Len(path) THEN path[i] ELSE r[i - Len(path)]
    BY <2>2, ConcatProperties
  <2> HIDE DEF n
  <2>4. QED
    BY <1>0, <2>1, <2>3
<1>4. Once(w)
  <2>1. IsInjective(w)
    BY <1>0, <1>1, <1>2, ConcatOnce
  <2>2. DOMAIN w = 1..Len(w)
    BY <1>3, LenProperties
  <2>3. QED
    BY <2>1, <2>2 DEF IsInjective, Once
<1> USE DEF Leads, Collected, Before, After
<1>5. /\ IF m = 0 THEN reference = ancestor
         ELSE path[1] = reference /\ Parent(path[m]) = ancestor /\ \A i \in 1..m-1 : Parent(path[i]) = path[i+1]
      /\ IF n = 0 THEN target = ancestor
         ELSE down[1] = target /\ Parent(down[n]) = ancestor /\ \A i \in 1..n-1 : Parent(down[i]) = down[i+1]
  <2>1. (path = <<>> <=> m = 0) /\ (down = <<>> <=> n = 0)
    BY <1>1, EmptySeq
  <2>2. QED
    BY <2>1
<1> HIDE DEF m, n, Leads, Collected
<1>6. \A i \in 1..m : w[i] = path[i] /\ w[i] \in Above(reference)
  <2>1. \A i \in 1..m : i \in 1..m+n /\ i <= m
    BY <1>1
  <2>2. \A i \in 1..m : path[i] \in Elements(path)
    BY DEF Elements, m
  <2>3. QED
    BY <1>1, <1>3, <2>1, <2>2
<1>7. \A i \in m+1..m+n : (n - (i - m)) + 1 \in 1..n /\ w[i] = down[(n - (i - m)) + 1] /\ w[i] \notin Above(reference)
  <2> TAKE i \in m+1..m+n
  <2>1. i \in 1..m+n /\ ~(i <= m) /\ i - m \in 1..n /\ (n - (i - m)) + 1 \in 1..n
    BY <1>1
  <2>2. w[i] = down[(n - (i - m)) + 1]
    BY <1>2, <1>3, <2>1
  <2>3. \A j \in 1..n : down[j] \in Elements(down)
    BY DEF Elements, n
  <2>4. QED
    BY <1>1, <2>1, <2>2, <2>3
<1>8. Elements(w) = Elements(path) \cup Elements(down)
  <2>1. Elements(w) = {w[i] : i \in 1..m+n} /\ Elements(path) = {path[i] : i \in 1..m}
        /\ Elements(down) = {r[i] : i \in 1..n}
    BY <1>2, <1>3 DEF Elements, m, n
  <2>2. \A i \in 1..m : i \in 1..m+n
    BY <1>1
  <2>3. \A i \in 1..n : m + i \in 1..m+n /\ w[m + i] = r[i]
    <3> TAKE i \in 1..n
    <3>1. m + i \in 1..m+n /\ ~(m + i <= m) /\ (m + i) - m = i
      BY <1>1
    <3>2. QED
      BY <1>3, <3>1
  <2>4. \A i \in 1..m+n : i \in 1..m \/ i - m \in 1..n
    BY <1>1
  <2>5. \A i \in 1..m+n : w[i] \in Elements(path) \cup Elements(down)
    BY <1>3, <2>1, <2>4, SMTT(30)
  <2>6. Elements(path) \subseteq Elements(w)
    BY <1>6, <2>1, <2>2
  <2>7. Elements(down) \subseteq Elements(w)
    BY <2>1, <2>3
  <2>8. Elements(w) \subseteq Elements(path) \cup Elements(down)
    BY <2>1, <2>5
  <2>9. QED
    BY <2>6, <2>7, <2>8
<1>9. CASE w = <<>>
  <2>1. m = 0 /\ n = 0
    BY <1>1, <1>3, <1>9
  <2>2. reference = target
    BY <1>5, <2>1
  <2>3. QED
    BY <1>1, <1>3, <1>4, <1>8, <1>9, <2>2 DEF r
<1>10. CASE w # <<>>
  <2>1. m + n # 0
    BY <1>1, <1>3, <1>10, EmptySeq
  <2>2. Before(w[1], reference) = reference
    <3>1. CASE m # 0
      <4>1. 1 \in 1..m
        BY <1>1, <3>1
      <4>2. QED
        BY <1>5, <1>6, <3>1, <4>1
    <3>2. CASE m = 0
      <4>1. 1 \in m+1..m+n /\ (n - (1 - m)) + 1 = n /\ n # 0
        BY <1>1, <2>1, <3>2
      <4>2. w[1] = down[n] /\ w[1] \notin Above(reference)
        BY <1>7, <4>1
      <4>3. QED
        BY <1>5, <3>2, <4>1, <4>2
    <3>3. QED
      BY <3>1, <3>2
  <2>3. After(w[Len(w)], reference) = target
    <3>1. CASE n # 0
      <4>1. m + n \in m+1..m+n /\ (n - ((m + n) - m)) + 1 = 1
        BY <1>1, <3>1
      <4>2. w[m + n] = down[1] /\ w[m + n] \notin Above(reference)
        BY <1>7, <4>1
      <4>3. QED
        BY <1>3, <1>5, <3>1, <4>2
    <3>2. CASE n = 0
      <4>1. m \in 1..m /\ m + n = m /\ m # 0
        BY <1>1, <2>1, <3>2
      <4>2. w[m] = path[m] /\ w[m] \in Above(reference)
        BY <1>6, <4>1
      <4>3. QED
        BY <1>3, <1>5, <3>2, <4>1, <4>2
    <3>3. QED
      BY <3>1, <3>2
  <2>4. ASSUME NEW i \in 1..Len(w)-1 PROVE After(w[i], reference) = Before(w[i+1], reference)
    <3>0. i \in 1..m+n-1
      <4>1. Len(w) = m + n /\ m \in Nat /\ n \in Nat
        BY <1>1, <1>3
      <4>2. QED
        BY <4>1
    <3>1. CASE i < m
      <4>1. i \in 1..m /\ i + 1 \in 1..m /\ i \in 1..m-1 /\ m # 0
        BY <1>1, <3>0, <3>1
      <4>2. QED
        BY <1>5, <1>6, <4>1
    <3>2. CASE i = m
      <4>1. m \in 1..m /\ m + 1 \in m+1..m+n /\ (n - ((m + 1) - m)) + 1 = n /\ m # 0 /\ n # 0
        BY <1>1, <3>0, <3>2
      <4>2. w[m] = path[m] /\ w[m] \in Above(reference)
        BY <1>6, <4>1
      <4>3. w[m+1] = down[n] /\ w[m+1] \notin Above(reference)
        BY <1>7, <4>1
      <4>4. QED
        BY <1>5, <3>2, <4>1, <4>2, <4>3
    <3>3. CASE i > m
      <4>1. i \in m+1..m+n /\ i + 1 \in m+1..m+n
        BY <1>1, <3>0, <3>3
      <4> DEFINE j == (n - ((i + 1) - m)) + 1
      <4>2. (n - (i - m)) + 1 = j + 1 /\ j \in 1..n-1 /\ n # 0
        BY <1>1, <3>0, <3>3
      <4>3. w[i] = down[j+1] /\ w[i] \notin Above(reference)
        BY <1>7, <4>1, <4>2
      <4>4. w[i+1] = down[j] /\ w[i+1] \notin Above(reference)
        BY <1>7, <4>1
      <4> HIDE DEF j
      <4>5. Parent(down[j]) = down[j+1]
        BY <1>5, <4>2
      <4>6. QED
        BY <4>3, <4>4, <4>5
    <3>4. QED
      BY <1>1, <3>0, <3>1, <3>2, <3>3
  <2>5. QED
    BY <1>1, <1>3, <1>4, <1>8, <1>10, <2>2, <2>3, <2>4 DEF r
<1>11. QED
  BY <1>9, <1>10

LEMMA WayStays ==
    ASSUME UNCHANGED historyVars
    PROVE  /\ pass' = pass /\ reference' = reference
           /\ Nodes' = Nodes /\ Sequences' = Sequences
           /\ \A x : Above(x)' = Above(x) /\ Parent(x)' = Parent(x)
           /\ \A x, y : Before(x, y)' = Before(x, y) /\ After(x, y)' = After(x, y)
           /\ \A s, x, y : Collected(s, x, y)' = Collected(s, x, y)
<1>1. UNCHANGED file /\ pass' = pass /\ reference' = reference
  BY DEF historyVars
<1>2. \A x : Above(x)' = Above(x)
  BY <1>1, StillAbove
<1>3. \A x : Parent(x)' = Parent(x)
  BY <1>1, FileStays
<1>4. QED
  BY <1>1, <1>2, <1>3, FileStays, StillAbove DEF Before, After

\* A step that leaves what the way is made of.
LEMMA StillWay ==
    ASSUME WayIInv, UNCHANGED historyVars, UNCHANGED <<target, at, ancestor, onPath, down, path>>,
           \/ phase' = phase
           \/ phase' \in {"limit", "invalid", "canceled"} /\ phase # "unbound"
           \/ phase = "apply" /\ phase' = "done"
           \/ phase = "unbound" /\ phase' \in {"limit", "bound"} /\ pass = "valid"
    PROVE  WayIInv'
<1>1. target' = target /\ CollectedDown(at)' = CollectedDown(at) /\ CollectedDown(ancestor)' = CollectedDown(ancestor)
  BY WayStays DEF CollectedDown, request, Elements
<1>2. StepsLead' = StepsLead
  BY <1>1, WayStays DEF StepsLead, Once, Elements
<1>3. /\ target' = target /\ at' = at /\ ancestor' = ancestor /\ onPath' = onPath
      /\ down' = down /\ path' = path
  BY DEF request
<1>4. CASE phase' = phase
  BY <1>1, <1>2, <1>3, <1>4, WayStays DEF WayIInv, Working
<1>5. CASE phase' \in {"limit", "invalid", "canceled"} /\ phase # "unbound"
  BY <1>5, WayStays DEF WayIInv, Working
<1>6. CASE phase = "apply" /\ phase' = "done"
  BY <1>1, <1>2, <1>3, <1>6, WayStays DEF WayIInv, Working
<1>7. CASE phase = "unbound" /\ phase' \in {"limit", "bound"} /\ pass = "valid"
  BY <1>1, <1>3, <1>7, WayStays DEF WayIInv, Working
<1>8. QED
  BY <1>4, <1>5, <1>6, <1>7

LEMMA TreeWhenValid ==
    ASSUME IInv, pass = "valid"
    PROVE  AnyFile /\ Indexed /\ Linked /\ Sequences = Nodes \ {0} /\ 0 \in Nodes
BY IndexedRoot, NodesAreNumbers DEF IInv, Numbers, Nodes

LEMMA MarkWay == ASSUME IInv, WayIInv, Mark, UNCHANGED historyVars PROVE WayIInv'
<1>1. /\ phase = "mark" /\ onPath' = onPath \cup {at}
      /\ IF at = 0 THEN phase' = "down" /\ at' = target ELSE at' = Parent(at) /\ phase' = phase
      /\ UNCHANGED <<target, ancestor, down, path>>
  BY DEF Mark, request
<1>2. /\ pass = "valid" /\ target \in Nodes /\ at \in Nodes /\ reference \in Nodes
      /\ down = <<>> /\ path = <<>>
      /\ Above(at) \subseteq Above(reference) /\ onPath = Above(reference) \ Above(at)
  BY <1>1 DEF WayIInv, Working
<1>3. AnyFile /\ Indexed /\ Linked /\ Sequences = Nodes \ {0}
  BY <1>2, TreeWhenValid
<1>4. CASE at = 0
  <2>1. onPath' = Above(reference) \cup {0} /\ at' = target /\ phase' = "down"
    BY <1>1, <1>2, <1>3, <1>4, Ancestors
  <2>2. Collected(down, target, target) /\ Elements(down) \cap Above(reference) = {}
    BY <1>2, NothingCollected
  <2>3. CollectedDown(at)'
    BY <1>1, <2>1, <2>2, WayStays DEF CollectedDown, Elements
  <2>4. QED
    BY <1>1, <1>2, <2>1, <2>3, WayStays DEF WayIInv, Working
<1>5. CASE at # 0
  <2>1. at \in Sequences /\ at' = Parent(at) /\ phase' = "mark"
    BY <1>1, <1>2, <1>3, <1>5
  <2>2. Parent(at) \in Nodes /\ Above(at) = {at} \cup Above(Parent(at)) /\ at \notin Above(Parent(at))
    BY <1>3, <2>1, Ancestors
  <2>3. Above(at') \subseteq Above(reference) /\ onPath' = Above(reference) \ Above(at')
    BY <1>1, <1>2, <2>1, <2>2
  <2>4. QED
    BY <1>1, <1>2, <2>1, <2>2, <2>3, WayStays DEF WayIInv, Working
<1>6. QED
  BY <1>4, <1>5

LEMMA DescendWay == ASSUME IInv, WayIInv, Descend, UNCHANGED historyVars PROVE WayIInv'
<1>1. /\ phase = "down" /\ at \notin onPath /\ down' = Append(down, at) /\ at' = Parent(at)
      /\ phase' = phase /\ UNCHANGED <<target, ancestor, onPath, path>>
  BY DEF Descend, request
<1>2. /\ pass = "valid" /\ target \in Nodes /\ at \in Nodes /\ reference \in Nodes
      /\ path = <<>> /\ onPath = Above(reference) \cup {0}
      /\ Collected(down, target, at) /\ Elements(down) \cap Above(reference) = {}
  BY <1>1 DEF WayIInv, Working, CollectedDown
<1>3. AnyFile /\ Indexed /\ Linked /\ at \in Sequences
  BY <1>1, <1>2, TreeWhenValid
<1>4. /\ Collected(down', target, Parent(at))
      /\ Elements(down') = Elements(down) \cup {at}
  BY <1>1, <1>2, <1>3, Further
<1>5. CollectedDown(at)'
  <2>1. Elements(down') \cap Above(reference) = {}
    BY <1>1, <1>2, <1>4
  <2>2. QED
    BY <1>1, <1>4, <2>1, WayStays DEF CollectedDown, Elements
<1>6. at' \in Nodes
  BY <1>1, <1>3, Ancestors
<1>7. QED
  BY <1>1, <1>2, <1>5, <1>6, WayStays DEF WayIInv, Working

LEMMA MeetWay == ASSUME IInv, WayIInv, Meet, UNCHANGED historyVars PROVE WayIInv'
<1>1. /\ phase = "down" /\ at \in onPath /\ phase' = "up" /\ ancestor' = at /\ at' = reference
      /\ UNCHANGED <<target, onPath, down, path>>
  BY DEF Meet, request
<1>2. /\ pass = "valid" /\ target \in Nodes /\ at \in Nodes /\ reference \in Nodes
      /\ path = <<>> /\ onPath = Above(reference) \cup {0}
      /\ CollectedDown(at)
  BY <1>1 DEF WayIInv, Working
<1>3. AnyFile /\ Indexed /\ Linked
  BY <1>2, TreeWhenValid
<1>4. Above(at) = Above(reference) \cap Above(target)
  <2>1. Above(at) \subseteq Above(reference)
    BY <1>1, <1>2, <1>3, Ancestors
  <2>2. Above(at) \subseteq Above(target) /\ Elements(down) = Above(target) \ Above(at)
        /\ Elements(down) \cap Above(reference) = {}
    BY <1>2 DEF CollectedDown, Collected
  <2>3. QED
    BY <2>1, <2>2
<1>5. Collected(path, reference, reference)
  BY <1>2, NothingCollected
<1>6. CollectedDown(ancestor)'
  BY <1>1, <1>2, WayStays DEF CollectedDown, Elements
<1>7. ancestor' = 0 \/ ancestor' \in Above(reference)
  BY <1>1, <1>2
<1>8. QED
  BY <1>1, <1>2, <1>4, <1>5, <1>6, <1>7, WayStays DEF WayIInv, Working

LEMMA AscendWay == ASSUME IInv, WayIInv, Ascend, UNCHANGED historyVars PROVE WayIInv'
<1>1. /\ phase = "up" /\ at # ancestor /\ path' = Append(path, at) /\ at' = Parent(at)
      /\ phase' = phase /\ UNCHANGED <<target, ancestor, onPath, down>>
  BY DEF Ascend, request
<1>2. /\ pass = "valid" /\ target \in Nodes /\ at \in Nodes /\ reference \in Nodes
      /\ ancestor \in Nodes /\ Above(ancestor) = Above(reference) \cap Above(target)
      /\ CollectedDown(ancestor) /\ Collected(path, reference, at)
      /\ ancestor = 0 \/ ancestor \in Above(at)
  BY <1>1 DEF WayIInv, Working
<1>3. AnyFile /\ Indexed /\ Linked /\ Sequences = Nodes \ {0}
  BY <1>2, TreeWhenValid
<1>4. at \in Sequences
  <2>1. at # 0
    BY <1>1, <1>2, <1>3, Ancestors
  <2>2. QED
    BY <1>2, <1>3, <2>1
<1>5. Collected(path', reference, Parent(at))
  BY <1>1, <1>2, <1>3, <1>4, Further
<1>6. Parent(at) \in Nodes /\ Above(at) = {at} \cup Above(Parent(at))
  BY <1>3, <1>4, Ancestors
<1>7. ancestor = 0 \/ ancestor \in Above(Parent(at))
  BY <1>1, <1>2, <1>6
<1>8. CollectedDown(ancestor)'
  BY <1>1, <1>2, WayStays DEF CollectedDown, Elements
<1>9. QED
  BY <1>1, <1>2, <1>5, <1>6, <1>7, <1>8, WayStays DEF WayIInv, Working

LEMMA TurnWay == ASSUME IInv, WayIInv, Turn, UNCHANGED historyVars PROVE WayIInv'
<1>1. /\ phase = "up" /\ at = ancestor /\ path' = path \o Reverse(down) /\ phase' = "apply"
      /\ UNCHANGED <<target, at, ancestor, onPath, down>>
  BY DEF Turn, request
<1>2. /\ pass = "valid" /\ target \in Nodes /\ at \in Nodes /\ reference \in Nodes
      /\ ancestor \in Nodes /\ Above(ancestor) = Above(reference) \cap Above(target)
      /\ Collected(down, target, ancestor) /\ Collected(path, reference, ancestor)
  BY <1>1 DEF WayIInv, Working, CollectedDown
<1>3. AnyFile /\ Indexed /\ Linked
  BY <1>2, TreeWhenValid
<1> DEFINE w == path \o Reverse(down)
<1>4. /\ w \in Seq(Sequences) /\ Once(w)
      /\ Elements(w) = (Above(reference) \ Above(target)) \cup (Above(target) \ Above(reference))
      /\ IF w = <<>> THEN reference = target
         ELSE /\ Before(w[1], reference) = reference /\ After(w[Len(w)], reference) = target
              /\ \A i \in 1..Len(w)-1 : After(w[i], reference) = Before(w[i+1], reference)
  <2>1. w = path \o Reverse(down)
    OBVIOUS
  <2> HIDE DEF w
  <2>2. QED
    BY <1>2, <1>3, <2>1, OneWayRound
<1> HIDE DEF w
<1>5. path' = w
  BY <1>1 DEF w
<1>6. StepsLead'
  <2>1. Once(path)' = Once(w) /\ Elements(path)' = Elements(w)
    BY <1>5 DEF Once, Elements
  <2>2. QED
    BY <1>1, <1>4, <1>5, <2>1, WayStays DEF StepsLead
<1>7. QED
  BY <1>1, <1>2, <1>6, WayStays DEF WayIInv, Working

LEMMA ReconstructWay ==
    ASSUME IInv, WayIInv, NEW t \in Nodes, Reconstruct(t), UNCHANGED historyVars PROVE WayIInv'
<1>1. /\ phase = "bound" /\ phase' = "mark" /\ target' = t /\ at' = reference
      /\ UNCHANGED <<ancestor, onPath, down, path>>
  BY DEF Reconstruct
<1>2. pass = "valid" /\ reference \in Nodes /\ onPath = {} /\ down = <<>> /\ path = <<>>
  BY <1>1 DEF WayIInv
<1>3. QED
  BY <1>1, <1>2, WayStays DEF WayIInv, Working

LEMMA ReplayIInvNext ==
    ReplayIInv /\ [ReadAndReplay]_<<historyVars, replayVars>> => ReplayIInv'
<1> SUFFICES ASSUME ReplayIInv, [ReadAndReplay]_<<historyVars, replayVars>> PROVE ReplayIInv'
  OBVIOUS
<1>0. IInv /\ WayIInv
  BY DEF ReplayIInv
<1>1. IInv'
  <2>1. [HistoryNext]_historyVars
    BY DEF ReadAndReplay
  <2>2. QED
    BY <1>0, <2>1, NextIInv
<1>2. CASE UNCHANGED <<historyVars, replayVars>>
  <2>1. UNCHANGED historyVars /\ phase' = phase
        /\ UNCHANGED <<target, at, ancestor, onPath, down, path>>
    BY <1>2 DEF replayVars, request
  <2>2. QED
    BY <1>0, <1>1, <2>1, StillWay DEF ReplayIInv
<1>3. CASE HistoryNext /\ UNCHANGED replayVars
  <2>1. /\ UNCHANGED file /\ pass # "valid"
        /\ BindReference \/ pass' # "valid"
    BY <1>3 DEF HistoryNext, IndexRecords, ValidateLinks, Visit, EndWalk, BindReference, CancelNew, To, Passes
  <2>2. phase = "unbound" /\ UNCHANGED <<phase, onPath, down, path>>
    BY <1>0, <1>3, <2>1 DEF WayIInv, replayVars
  <2>3. pass' = "valid" => reference' \in Nodes
    <3>1. SUFFICES ASSUME pass' = "valid" PROVE reference' \in Nodes
      OBVIOUS
    <3>2. /\ pass = "reference" /\ PositionHolds
          /\ reference' = IF file.nextRedo # 0 THEN Parent(file.nextRedo) ELSE file.newest
      BY <2>1, <3>1 DEF BindReference, To
    <3>3. Linked
      BY <1>0, <3>2 DEF IInv, Numbers
    <3>4. QED
      BY <3>2, <3>3 DEF PositionHolds, Linked, LinksHold, Parent
  <2>4. Nodes' = Nodes
    BY <2>1, FileStays
  <2>5. QED
    <3>1. phase' = "unbound" /\ onPath' = {} /\ down' = <<>> /\ path' = <<>>
      BY <1>0, <2>2 DEF WayIInv
    <3>2. QED
      BY <1>1, <2>3, <2>4, <3>1 DEF ReplayIInv, WayIInv, Working
<1>4. ASSUME NEW lines \in Texts, Bind(lines), UNCHANGED historyVars PROVE WayIInv'
  <2>1. /\ pass = "valid" /\ phase = "unbound" /\ phase' \in {"limit", "bound"}
        /\ UNCHANGED <<target, at, ancestor, onPath, down, path>>
    BY <1>4 DEF Bind
  <2>2. QED
    BY <1>0, <1>4, <2>1, WayStays DEF WayIInv, Working
<1>5. ASSUME ReplayNext, UNCHANGED historyVars PROVE WayIInv'
  <2>1. ASSUME NEW t \in Nodes, Reconstruct(t) PROVE WayIInv'
    BY <1>0, <1>5, <2>1, ReconstructWay
  <2>2. CASE Mark
    BY <1>0, <1>5, <2>2, MarkWay
  <2>3. CASE Descend
    BY <1>0, <1>5, <2>3, DescendWay
  <2>4. CASE Meet
    BY <1>0, <1>5, <2>4, MeetWay
  <2>5. CASE Ascend
    BY <1>0, <1>5, <2>5, AscendWay
  <2>6. CASE Turn
    BY <1>0, <1>5, <2>6, TurnWay
  <2>7. CASE ApplyEntry
    <3>1. /\ UNCHANGED <<target, at, ancestor, onPath, down, path>>
          /\ phase' = phase \/ (phase' \in {"limit", "invalid", "canceled"} /\ phase # "unbound")
      BY <2>7 DEF ApplyEntry, request
    <3>2. QED
      BY <1>0, <1>5, <3>1, StillWay
  <2>8. CASE EndHeader
    BY <1>0, <1>5, <2>8, StillWay DEF EndHeader, request
  <2>9. CASE Finish
    BY <1>0, <1>5, <2>9, StillWay DEF Finish, request
  <2>10. CASE CancelReplay
    BY <1>0, <1>5, <2>10, StillWay DEF CancelReplay, request
  <2>11. QED
    BY <1>5, <2>1, <2>2, <2>3, <2>4, <2>5, <2>6, <2>7, <2>8, <2>9, <2>10 DEF ReplayNext
<1>6. QED
  BY <1>1, <1>2, <1>3, <1>4, <1>5 DEF ReadAndReplay, ReplayIInv

LEMMA ReplayIInvInit == AnyFile /\ Opened /\ NoRequest => ReplayIInv
<1> SUFFICES ASSUME AnyFile, Opened, NoRequest PROVE ReplayIInv
  OBVIOUS
<1>1. pass # "valid"
  BY DEF Opened, FirstPass
<1>2. WayIInv
  BY <1>1 DEF NoRequest, WayIInv, Working
<1>3. QED
  BY <1>2, InitIInv DEF ReplayIInv

LEMMA ReplayIInvHolds == ReplaySpec => []ReplayIInv
BY ReplayIInvInit, ReplayIInvNext, PTL DEF ReplaySpec

LEMMA OneWayThen == ReplayIInv => OnlyTheHeadersBetween
<1> SUFFICES ASSUME ReplayIInv, phase = "apply"
             PROVE  /\ IsInjective(path)
                    /\ ToSet(path) = (Above(reference) \ Above(target)) \cup (Above(target) \ Above(reference))
  BY DEF OnlyTheHeadersBetween
<1>1. StepsLead
  BY DEF ReplayIInv, WayIInv
<1>2. DOMAIN path = 1..Len(path)
  BY <1>1, LenProperties DEF StepsLead
<1>3. QED
  BY <1>1, <1>2 DEF StepsLead, Once, Elements, IsInjective, ToSet

(* For every file that New accepts and any two of its states, the path of     *)
(* replayPath (replay.go) has each header above exactly one of the two, once, *)
(* and no other: it turns round at the nearest state above both.            *)
THEOREM OneWay == ReplaySpec => []OnlyTheHeadersBetween
BY OneWayThen, ReplayIInvHolds, PTL

Fits(lines) == lines \in Texts /\ Len(lines) <= StateLines /\ Bytes(lines) <= StateBytes

\* Where the application of the entries is, and what the workspace holds.
PlaceIInv ==
    /\ phase \in {"unbound", "bound", "mark", "down", "up"} => header = 1 /\ entry = 1
    /\ phase = "apply" => /\ header \in 1..Len(path)+1
                          /\ IF header > Len(path) THEN entry = 1
                             ELSE entry \in 1..Len(Entries(path[header]))+1

FitIInv ==
    /\ AnyEntries
    /\ phase = "bound" => Fits(base)
    /\ phase \in Working => Fits(text)

LEMMA BytesAreCounted == ASSUME NEW lines \in Texts PROVE Bytes(lines) \in Nat
<1> DEFINE full == {i \in DOMAIN lines : lines[i] # EmptyLine}
<1>1. DOMAIN lines = 1..Len(lines) /\ Len(lines) \in Nat
  BY LenProperties DEF Texts
<1>2. IsFiniteSet(1..Len(lines)) /\ full \subseteq 1..Len(lines)
  BY <1>1, FS_Interval
<1> HIDE DEF full
<1>3. IsFiniteSet(full) /\ Cardinality(full) \in Nat
  BY <1>2, FS_Subset, FS_CardinalityType
<1>4. QED
  BY <1>1, <1>3 DEF Bytes, full

\* What an entry leaves has the size that applyEntry computes.
LEMMA WhatAnEntryLeaves ==
    ASSUME NEW lines \in Texts, NEW e \in EntryType, InRange(e, lines)
    PROVE  /\ Replaced(e, lines) \in Texts
           /\ Size(e, lines) \in Nat
           /\ Len(Replaced(e, lines)) = IF Size(e, lines) = 0 THEN 1 ELSE Size(e, lines)
<1> DEFINE S == Line \cup {EmptyLine}
           n == Len(lines)
           b == BottomOf(e, lines)
           front == SubSeq(lines, 1, e.top)
           rest == SubSeq(lines, b, n)
<1>1. lines \in Seq(S) /\ n \in Nat /\ \A i \in 1..n : lines[i] \in S
  BY LenProperties, ElementOfSeq DEF Texts
<1>2. e.top \in Int /\ e.bottom \in Int /\ e.lines \in Seq(S) /\ Len(e.lines) \in Nat
  BY LenProperties DEF EntryType
<1>3. b \in Int /\ 0 <= e.top /\ e.top < b /\ b <= n + 1
  BY <1>1, <1>2 DEF InRange, BottomOf
<1> HIDE DEF b, n, S
<1>4. front \in Seq(S) /\ Len(front) = e.top
  <2>1. \A i \in 1..e.top : lines[i] \in S
    BY <1>1, <1>2, <1>3
  <2>2. front \in Seq(S) /\ Len(front) = IF 1 <= e.top THEN e.top - 1 + 1 ELSE 0
    BY <1>2, <2>1, SubSeqProperties
  <2>3. QED
    BY <1>2, <1>3, <2>2
<1>5. rest \in Seq(S) /\ Len(rest) = (n + 1) - b
  <2>1. \A i \in b..n : lines[i] \in S
    BY <1>1, <1>2, <1>3
  <2>2. rest \in Seq(S) /\ Len(rest) = IF b <= n THEN n - b + 1 ELSE 0
    BY <1>1, <1>3, <2>1, SubSeqProperties
  <2>3. QED
    BY <1>1, <1>3, <2>2
<1> HIDE DEF front, rest
<1>6. front \o e.lines \in Seq(S) /\ Len(front \o e.lines) = Len(front) + Len(e.lines)
  BY <1>2, <1>4, ConcatProperties
<1>7. /\ (front \o e.lines) \o rest \in Seq(S)
      /\ Len((front \o e.lines) \o rest) = Len(front \o e.lines) + Len(rest)
  BY <1>5, <1>6, ConcatProperties
<1> DEFINE w == (front \o e.lines) \o rest
<1>8. w \in Seq(S) /\ Len(w) = Size(e, lines) /\ Size(e, lines) \in Nat
  <2>1. Size(e, lines) = n - (b - 1 - e.top) + Len(e.lines)
    BY DEF Size, b, n
  <2>2. Len(w) = e.top + Len(e.lines) + ((n + 1) - b)
    BY <1>4, <1>5, <1>6, <1>7
  <2> HIDE DEF w
  <2>3. Len(w) = Size(e, lines)
    <3>1. e.top \in Int /\ Len(e.lines) \in Nat
      BY <1>2
    <3>2. \A i, j, k, l \in Int : i - (j - 1 - k) + l = k + l + ((i + 1) - j)
      OBVIOUS
    <3>3. QED
      BY <1>1, <1>3, <2>1, <2>2, <3>1, <3>2
  <2>4. w \in Seq(S)
    BY <1>7 DEF w
  <2>5. QED
    BY <2>3, <2>4, LenProperties
<1>9. Replaced(e, lines) = IF Size(e, lines) = 0 THEN <<EmptyLine>> ELSE w
  BY DEF Replaced, front, rest, b, n
<1> HIDE DEF w
<1>10. CASE Size(e, lines) = 0
  <2>1. <<EmptyLine>> \in Seq(S) /\ Len(<<EmptyLine>>) = 1 /\ <<EmptyLine>> # <<>>
    BY DEF S
  <2>2. QED
    BY <1>8, <1>9, <1>10, <2>1 DEF Texts, S
<1>11. CASE Size(e, lines) # 0
  <2>1. w # <<>>
    BY <1>8, <1>11, EmptySeq
  <2>2. QED
    BY <1>8, <1>9, <1>11, <2>1 DEF Texts, S
<1>12. QED
  BY <1>10, <1>11

LEMMA EntriesStay ==
    ASSUME UNCHANGED historyVars
    PROVE  /\ AnyEntries' = AnyEntries /\ \A h : Entries(h)' = Entries(h)
           /\ \A lines : Fits(lines)' = Fits(lines)
<1>1. \A h : Entries(h)' = Entries(h)
  BY FileStays DEF historyVars, Entries
<1>2. Sequences' = Sequences
  BY WayStays
<1>3. QED
  BY <1>1, <1>2 DEF AnyEntries, Fits, Texts, EntryType, Bytes

LEMMA FitNext ==
    ReplayIInv /\ PlaceIInv /\ FitIInv /\ [ReadAndReplay]_<<historyVars, replayVars>>
      => PlaceIInv' /\ FitIInv'
<1> SUFFICES ASSUME ReplayIInv, PlaceIInv, FitIInv, [ReadAndReplay]_<<historyVars, replayVars>>
             PROVE  PlaceIInv' /\ FitIInv'
  OBVIOUS
<1>1. CASE UNCHANGED <<historyVars, replayVars>>
  <2>1. UNCHANGED historyVars /\ UNCHANGED <<phase, base, path, header, entry, text>>
    BY <1>1 DEF replayVars
  <2>2. QED
    BY <2>1, EntriesStay DEF PlaceIInv, FitIInv, Working
<1>2. CASE HistoryNext /\ UNCHANGED replayVars
  <2>1. UNCHANGED file /\ pass # "valid"
    BY <1>2 DEF HistoryNext, IndexRecords, ValidateLinks, Visit, EndWalk, BindReference, CancelNew, Passes
  <2>2. phase = "unbound" /\ UNCHANGED <<phase, header, entry>>
    BY <1>2, <2>1 DEF ReplayIInv, WayIInv, replayVars
  <2>3. AnyEntries'
    <3>1. Sequences' = Sequences /\ \A h : Entries(h)' = Entries(h)
      BY <2>1, FileStays DEF Entries
    <3>2. QED
      BY <3>1 DEF FitIInv, AnyEntries, EntryType
  <2>4. QED
    BY <2>2, <2>3 DEF PlaceIInv, FitIInv, Working
<1>3. ASSUME NEW lines \in Texts, Bind(lines), UNCHANGED historyVars PROVE PlaceIInv' /\ FitIInv'
  <2>1. /\ phase = "unbound" /\ base' = lines /\ header' = header /\ entry' = entry
        /\ phase' = IF Len(lines) > StateLines \/ Bytes(lines) > StateBytes THEN "limit" ELSE "bound"
    BY <1>3 DEF Bind
  <2>2. Len(lines) \in Nat /\ Bytes(lines) \in Nat
    BY BytesAreCounted, LenProperties DEF Texts
  <2>3. phase' = "bound" => Fits(lines)
    BY <2>1, <2>2, ReplayAssumption DEF Fits
  <2>4. phase' = "bound" => Fits(base)'
    BY <2>1, <2>3, <1>3, EntriesStay DEF Fits, Texts, Bytes
  <2>5. QED
    BY <1>3, <2>1, <2>4, EntriesStay DEF PlaceIInv, FitIInv, Working
<1>4. ASSUME NEW t \in Nodes, Reconstruct(t), UNCHANGED historyVars PROVE PlaceIInv' /\ FitIInv'
  <2>1. phase = "bound" /\ phase' = "mark" /\ text' = base /\ UNCHANGED <<header, entry>>
    BY <1>4 DEF Reconstruct
  <2>2. Fits(base)
    BY <2>1 DEF FitIInv
  <2>3. Fits(text)'
    BY <2>1, <2>2 DEF Fits, Texts, Bytes
  <2>4. QED
    BY <1>4, <2>1, <2>3, EntriesStay DEF PlaceIInv, FitIInv, Working
<1>5. ASSUME Mark \/ Descend \/ Meet \/ Ascend, UNCHANGED historyVars PROVE PlaceIInv' /\ FitIInv'
  <2>1. /\ phase \in {"mark", "down", "up"} /\ phase' \in {"mark", "down", "up"}
        /\ UNCHANGED <<text, header, entry>>
    BY <1>5 DEF Mark, Descend, Meet, Ascend
  <2>2. QED
    BY <1>5, <2>1, EntriesStay DEF PlaceIInv, FitIInv, Working, Fits, Texts, Bytes
<1>6. ASSUME Turn, UNCHANGED historyVars PROVE PlaceIInv' /\ FitIInv'
  <2>1. phase = "up" /\ phase' = "apply" /\ UNCHANGED <<text, header, entry>>
    BY <1>6 DEF Turn
  <2>2. path' \in Seq(Sequences) /\ Len(path') \in Nat
    <3>1. ReplayIInv'
      BY ReplayIInvNext
    <3>2. path' \in Seq(Sequences)
      BY <1>6, <2>1, <3>1, WayStays DEF ReplayIInv, WayIInv, StepsLead
    <3>3. QED
      BY <3>2, LenProperties
  <2>3. Len(path') >= 1 => Len(Entries(path[1])') \in Nat
    <3>1. SUFFICES ASSUME Len(path') >= 1 PROVE Len(Entries(path[1])') \in Nat
      OBVIOUS
    <3>2. path'[1] \in Sequences
      BY <2>2, <3>1, ElementOfSeq
    <3>3. Entries(path'[1]) \in Seq(EntryType)
      BY <3>2 DEF FitIInv, AnyEntries
    <3>4. QED
      BY <1>6, <3>3, EntriesStay, LenProperties
  <2>4. QED
    BY <1>6, <2>1, <2>2, <2>3, EntriesStay DEF PlaceIInv, FitIInv, Working, Fits, Texts, Bytes
<1>7. ASSUME ApplyEntry, UNCHANGED historyVars PROVE PlaceIInv' /\ FitIInv'
  <2> DEFINE list == Entries(path[header])
             e == list[entry]
  <2>1. /\ phase = "apply" /\ header <= Len(path) /\ entry <= Len(list)
        /\ UNCHANGED <<path, header>>
        /\ IF ~InRange(e, text) THEN phase' = "invalid" /\ UNCHANGED <<text, entry>>
           ELSE IF Size(e, text) > StateLines \/ Bytes(Replaced(e, text)) > StateBytes
           THEN phase' = "limit" /\ UNCHANGED <<text, entry>>
           ELSE text' = Replaced(e, text) /\ entry' = entry + 1 /\ phase' = phase
    BY <1>7 DEF ApplyEntry
  <2>2. AnyEntries'
    BY <1>7, EntriesStay DEF FitIInv
  <2>3. CASE phase' # phase
    <3>1. phase' \in {"invalid", "limit"}
      BY <2>1, <2>3
    <3>2. QED
      BY <2>2, <3>1 DEF PlaceIInv, FitIInv, Working
  <2>4. CASE phase' = phase
    <3>1. /\ header \in 1..Len(path)+1 /\ entry \in 1..Len(list)+1
          /\ Fits(text) /\ path \in Seq(Sequences) /\ Len(path) \in Nat
      BY <2>1, LenProperties DEF PlaceIInv, FitIInv, Working, ReplayIInv, WayIInv, StepsLead
    <3>2. list \in Seq(EntryType) /\ Len(list) \in Nat
      <4>1. path[header] \in Sequences
        BY <2>1, <3>1, ElementOfSeq
      <4>2. QED
        BY <4>1, LenProperties DEF FitIInv, AnyEntries
    <3> HIDE DEF list
    <3>3. entry \in 1..Len(list) /\ e \in EntryType
      BY <2>1, <3>1, <3>2, ElementOfSeq
    <3> HIDE DEF e
    <3>4. /\ InRange(e, text) /\ text' = Replaced(e, text) /\ entry' = entry + 1
          /\ ~(Size(e, text) > StateLines \/ Bytes(Replaced(e, text)) > StateBytes)
      BY <2>1, <2>4
    <3>5. /\ Replaced(e, text) \in Texts /\ Size(e, text) \in Nat
          /\ Len(Replaced(e, text)) = IF Size(e, text) = 0 THEN 1 ELSE Size(e, text)
      BY <3>1, <3>3, <3>4, WhatAnEntryLeaves DEF Fits
    <3>6. 1 <= StateLines
      <4>1. Len(text) \in Nat \ {0}
        BY <3>1, EmptySeq DEF Fits, Texts
      <4>2. QED
        BY <3>1, <4>1, ReplayAssumption DEF Fits
    <3>7. Fits(Replaced(e, text))
      <4>1. Bytes(Replaced(e, text)) \in Nat
        BY <3>5, BytesAreCounted
      <4>2. QED
        BY <3>4, <3>5, <3>6, <4>1, ReplayAssumption DEF Fits
    <3>8. Fits(text)'
      BY <3>4, <3>7 DEF Fits, Texts, Bytes
    <3>9. Entries(path[header])' = list
      BY <1>7, <2>1, EntriesStay DEF list
    <3>10. ~(header' > Len(path')) /\ entry' \in 1..Len(list)+1
      BY <2>1, <3>1, <3>2, <3>3, <3>4
    <3>11. PlaceIInv'
      BY <2>1, <2>4, <3>1, <3>9, <3>10 DEF PlaceIInv
    <3>12. QED
      BY <2>1, <2>2, <2>4, <3>8, <3>11 DEF FitIInv, Working
  <2>5. QED
    BY <2>3, <2>4
<1>8. ASSUME EndHeader, UNCHANGED historyVars PROVE PlaceIInv' /\ FitIInv'
  <2>1. /\ phase = "apply" /\ phase' = phase /\ header <= Len(path)
        /\ header' = header + 1 /\ entry' = 1 /\ UNCHANGED <<path, text>>
    BY <1>8 DEF EndHeader
  <2>2. header \in 1..Len(path)+1 /\ path \in Seq(Sequences) /\ Len(path) \in Nat
    BY <2>1, LenProperties DEF PlaceIInv, ReplayIInv, WayIInv, StepsLead
  <2>3. header' \in 1..Len(path)+1
    BY <2>1, <2>2
  <2>4. ASSUME ~(header' > Len(path)) PROVE Len(Entries(path[header'])) \in Nat
    <3>1. path[header'] \in Sequences
      BY <2>2, <2>3, <2>4, ElementOfSeq
    <3>2. QED
      BY <3>1, LenProperties DEF FitIInv, AnyEntries
  <2>5. PlaceIInv'
    BY <1>8, <2>1, <2>3, <2>4, EntriesStay DEF PlaceIInv
  <2>6. QED
    BY <1>8, <2>1, <2>5, EntriesStay DEF FitIInv, Working, Fits, Texts, Bytes
<1>9. ASSUME Finish \/ CancelReplay, UNCHANGED historyVars PROVE PlaceIInv' /\ FitIInv'
  <2>1. /\ \/ phase' = "canceled"
           \/ phase = "apply" /\ phase' = "done"
        /\ UNCHANGED text
    BY <1>9 DEF Finish, CancelReplay, request
  <2>2. QED
    BY <1>9, <2>1, EntriesStay DEF PlaceIInv, FitIInv, Working, Fits, Texts, Bytes
<1>10. QED
  BY <1>1, <1>2, <1>3, <1>4, <1>5, <1>6, <1>7, <1>8, <1>9 DEF ReadAndReplay, ReplayNext

LEMMA FitInit == AnyEntries /\ NoRequest => PlaceIInv /\ FitIInv
BY DEF NoRequest, PlaceIInv, FitIInv, Working

LEMMA FitHolds == ReplaySpec => [](ReplayIInv /\ PlaceIInv /\ FitIInv)
BY FitInit, ReplayIInvHolds, FitNext, PTL DEF ReplaySpec

LEMMA FitsThen == FitIInv => WithinLimits
<1> SUFFICES ASSUME Fits(text) PROVE Len(text) \in 1..StateLines /\ Bytes(text) <= StateBytes
  BY DEF FitIInv, WithinLimits, Working
<1>1. Len(text) \in Nat \ {0}
  BY EmptySeq DEF Fits, Texts
<1>2. QED
  BY <1>1, ReplayAssumption DEF Fits

(* Whatever the entries of a file are, no workspace of applyEntry (replay.go) *)
(* is empty or beyond a limit, between any two entries: the size is computed  *)
(* before the lines are replaced, and is the size they then have.           *)
THEOREM EveryLimitHolds == ReplaySpec => []WithinLimits
BY FitsThen, FitHolds, PTL

\* The entries of a header, as stored, lead from the text of one of its two
\* states to that of the other: to the parent's if the header is applied in the
\* reference, and to its own if it is undone there.
Recorded(State, Stage) ==
    \A h \in Sequences :
        /\ Stage[h][0] = State[Before(h, reference)]
        /\ Stage[h][Len(Entries(h))] = State[After(h, reference)]
        /\ \A k \in 1..Len(Entries(h)) :
             /\ InRange(Entries(h)[k], Stage[h][k-1])
             /\ Stage[h][k] = Replaced(Entries(h)[k], Stage[h][k-1])

\* A request on a file whose entries are recorded like that, from the text the
\* reference state had.
Faithful(State, Stage) == phase # "unbound" /\ base = State[reference] /\ Recorded(State, Stage)

\* The text between two entries is the one that was recorded there.
StateAtHeader(State, Stage) ==
    IF header > Len(path) THEN State[target] ELSE Stage[path[header]][entry-1]

StageIInv(State, Stage) ==
    Faithful(State, Stage) =>
        /\ phase # "invalid"
        /\ phase \in {"mark", "down", "up"} => text = State[reference]
        /\ phase = "apply" => text = StateAtHeader(State, Stage)
        /\ phase = "done" => text = State[target]

LEMMA FaithfulStays ==
    ASSUME NEW State, NEW Stage,
           UNCHANGED historyVars, base' = base, phase # "unbound", Faithful(State, Stage)'
    PROVE  Faithful(State, Stage)
<1>1. Sequences' = Sequences /\ \A h : Entries(h)' = Entries(h)
  BY EntriesStay, WayStays
<1>2. reference' = reference /\ \A h : Before(h, reference)' = Before(h, reference) /\ After(h, reference)' = After(h, reference)
  BY WayStays
<1>3. \A e, lines : InRange(e, lines)' = InRange(e, lines) /\ Replaced(e, lines)' = Replaced(e, lines)
  BY DEF InRange, BottomOf, Replaced, Size
<1>4. Recorded(State, Stage)' = Recorded(State, Stage)
  BY <1>1, <1>2, <1>3 DEF Recorded
<1>5. QED
  BY <1>2, <1>4 DEF Faithful

LEMMA StageNext ==
  ASSUME NEW State, NEW Stage
  PROVE
    /\ ReplayIInv /\ PlaceIInv /\ FitIInv /\ StageIInv(State, Stage)
    /\ [ReadAndReplay]_<<historyVars, replayVars>>
    /\ ReplayIInv' /\ PlaceIInv'
    => StageIInv(State, Stage)'
<1> SUFFICES ASSUME ReplayIInv, PlaceIInv, FitIInv, StageIInv(State, Stage), Faithful(State, Stage)',
                    [ReadAndReplay]_<<historyVars, replayVars>>, ReplayIInv', PlaceIInv'
             PROVE  /\ phase' # "invalid"
                    /\ phase' \in {"mark", "down", "up"} => text' = State[reference']
                    /\ phase' = "apply" => text' = StateAtHeader(State, Stage)'
                    /\ phase' = "done" => text' = State[target']
  BY DEF StageIInv
<1>1. CASE UNCHANGED <<historyVars, replayVars>>
  <2>1. UNCHANGED historyVars /\ UNCHANGED <<phase, base, target, path, header, entry, text>>
    BY <1>1 DEF replayVars
  <2>2. Faithful(State, Stage)
    BY <2>1, FaithfulStays DEF Faithful
  <2>3. StateAtHeader(State, Stage)' = StateAtHeader(State, Stage) /\ reference' = reference
    BY <2>1, WayStays DEF StateAtHeader
  <2>4. QED
    BY <2>1, <2>2, <2>3 DEF StageIInv
<1>2. CASE HistoryNext /\ UNCHANGED replayVars
  <2>1. phase' = phase /\ pass # "valid"
    BY <1>2 DEF replayVars, HistoryNext, IndexRecords, ValidateLinks, Visit, EndWalk, BindReference, CancelNew, Passes
  <2>2. phase' = "unbound"
    BY <2>1 DEF ReplayIInv, WayIInv
  <2>3. QED
    BY <2>2
<1>3. ASSUME NEW lines \in Texts, Bind(lines), UNCHANGED historyVars
      PROVE  phase' \in {"limit", "bound"}
  BY <1>3 DEF Bind
<1>4. ASSUME NEW t \in Nodes, Reconstruct(t), UNCHANGED historyVars
      PROVE  phase' = "mark" /\ text' = State[reference']
  <2>1. phase' = "mark" /\ phase = "bound" /\ text' = base /\ base' = base
    BY <1>4 DEF Reconstruct
  <2>2. Faithful(State, Stage)
    BY <1>4, <2>1, FaithfulStays
  <2>3. QED
    BY <1>4, <2>1, <2>2, WayStays DEF Faithful
<1>5. ASSUME Mark \/ Descend \/ Meet \/ Ascend, UNCHANGED historyVars
      PROVE  phase' \in {"mark", "down", "up"} /\ text' = State[reference']
  <2>1. /\ phase \in {"mark", "down", "up"} /\ phase' \in {"mark", "down", "up"}
        /\ UNCHANGED <<base, text>>
    BY <1>5 DEF Mark, Descend, Meet, Ascend, request
  <2>2. Faithful(State, Stage)
    BY <1>5, <2>1, FaithfulStays
  <2>3. QED
    BY <1>5, <2>1, <2>2, WayStays DEF StageIInv
<1>6. ASSUME Turn, UNCHANGED historyVars
      PROVE  phase' = "apply" /\ text' = StateAtHeader(State, Stage)'
  <2>1. phase = "up" /\ phase' = "apply" /\ UNCHANGED <<base, target, text, header, entry>>
    BY <1>6 DEF Turn, request
  <2>2. Faithful(State, Stage) /\ text = State[reference] /\ header = 1 /\ entry = 1
    BY <1>6, <2>1, FaithfulStays DEF StageIInv, PlaceIInv
  <2>3. StepsLead'
    BY <2>1 DEF ReplayIInv, WayIInv
  <2>4. reference' = reference /\ \A h : Before(h, reference)' = Before(h, reference)
    BY <1>6, WayStays
  <2>5. path' \in Seq(Sequences') /\ Len(path') \in Nat /\ (path' = <<>> <=> Len(path') = 0)
    BY <2>3, LenProperties, EmptySeq DEF StepsLead
  <2>6. CASE path' = <<>>
    <3>1. header' > Len(path')
      BY <2>1, <2>2, <2>5, <2>6
    <3>2. reference' = target'
      BY <2>3, <2>6 DEF StepsLead
    <3>3. QED
      BY <2>1, <2>2, <2>4, <3>1, <3>2 DEF StateAtHeader
  <2>7. CASE path' # <<>>
    <3>1. header' = 1 /\ ~(header' > Len(path')) /\ entry' - 1 = 0
      BY <2>1, <2>2, <2>5, <2>7
    <3>2. Before(path[1], reference)' = reference' /\ path'[1] \in Sequences'
      BY <2>3, <2>5, <2>7, <3>1, ElementOfSeq DEF StepsLead
    <3>3. Stage[path'[1]][0] = State[reference']
      BY <3>2 DEF Faithful, Recorded
    <3>4. StateAtHeader(State, Stage)' = Stage[path'[1]][0]
      BY <3>1 DEF StateAtHeader
    <3>5. QED
      BY <2>1, <2>2, <2>4, <3>3, <3>4
  <2>8. QED
    BY <2>6, <2>7
<1>7. ASSUME ApplyEntry, UNCHANGED historyVars
      PROVE  phase' = "limit" \/ (phase' = "apply" /\ text' = StateAtHeader(State, Stage)')
  <2> DEFINE h == path[header]
             list == Entries(h)
             e == list[entry]
  <2>1. /\ phase = "apply" /\ header <= Len(path) /\ entry <= Len(list)
        /\ UNCHANGED <<base, path, header>>
        /\ IF ~InRange(e, text) THEN phase' = "invalid" /\ UNCHANGED <<text, entry>>
           ELSE \/ phase' = "limit"
                \/ text' = Replaced(e, text) /\ entry' = entry + 1 /\ phase' = "apply"
    BY <1>7 DEF ApplyEntry, request
  <2>2. Faithful(State, Stage) /\ text = StateAtHeader(State, Stage)
    BY <1>7, <2>1, FaithfulStays DEF StageIInv
  <2>3. path \in Seq(Sequences) /\ Len(path) \in Nat
    BY <2>1, LenProperties DEF ReplayIInv, WayIInv, StepsLead
  <2>4. header \in 1..Len(path)+1 /\ entry \in 1..Len(list)+1
    BY <2>1, <2>3 DEF PlaceIInv
  <2>5. h \in Sequences /\ ~(header > Len(path))
    BY <2>1, <2>3, <2>4, ElementOfSeq
  <2>6. list \in Seq(EntryType) /\ Len(list) \in Nat
    BY <2>5, LenProperties DEF FitIInv, AnyEntries
  <2>7. text = Stage[h][entry-1]
    BY <2>2, <2>5 DEF StateAtHeader
  <2> HIDE DEF list
  <2>8. entry \in 1..Len(list)
    BY <2>1, <2>4, <2>6
  <2>9. InRange(e, Stage[h][entry-1]) /\ Stage[h][entry] = Replaced(e, Stage[h][entry-1])
    BY <2>2, <2>5, <2>8 DEF Faithful, Recorded, list
  <2> HIDE DEF e
  <2>10. CASE phase' = "limit"
    BY <2>10
  <2>11. CASE phase' # "limit"
    <3>1. text' = Stage[h][entry] /\ entry' = entry + 1 /\ phase' = "apply"
      BY <2>1, <2>7, <2>9, <2>11
    <3>2. entry' - 1 = entry
      BY <2>8, <3>1
    <3>3. StateAtHeader(State, Stage)' = Stage[h][entry]
      BY <2>1, <2>5, <3>2 DEF StateAtHeader
    <3>4. QED
      BY <3>1, <3>3
  <2>12. QED
    BY <2>10, <2>11
<1>8. ASSUME EndHeader, UNCHANGED historyVars
      PROVE  phase' = "apply" /\ text' = StateAtHeader(State, Stage)'
  <2> DEFINE h == path[header]
             n == Len(Entries(h))
  <2>1. /\ phase = "apply" /\ phase' = phase /\ header <= Len(path) /\ entry > n
        /\ header' = header + 1 /\ entry' = 1 /\ UNCHANGED <<base, target, path, text>>
    BY <1>8 DEF EndHeader, request
  <2>2. Faithful(State, Stage) /\ text = StateAtHeader(State, Stage)
    BY <1>8, <2>1, FaithfulStays DEF StageIInv
  <2>3. path \in Seq(Sequences) /\ Len(path) \in Nat /\ StepsLead
    BY <2>1, LenProperties DEF ReplayIInv, WayIInv, StepsLead
  <2>4. header \in 1..Len(path)+1 /\ entry \in 1..n+1
    BY <2>1, <2>3 DEF PlaceIInv
  <2>5. h \in Sequences /\ ~(header > Len(path)) /\ path # <<>>
    BY <2>1, <2>3, <2>4, ElementOfSeq, EmptySeq
  <2>6. n \in Nat
    BY <2>5, LenProperties DEF FitIInv, AnyEntries
  <2>7. text = Stage[h][entry-1]
    BY <2>2, <2>5 DEF StateAtHeader
  <2>8. entry - 1 = n
    <3> HIDE DEF n
    <3>1. QED
      BY <2>1, <2>4, <2>6
  <2>9. text = State[After(h, reference)]
    BY <2>2, <2>5, <2>7, <2>8 DEF Faithful, Recorded
  <2> HIDE DEF n
  <2>10. CASE header = Len(path)
    <3>1. After(h, reference) = target
      BY <2>3, <2>5, <2>10 DEF StepsLead
    <3>2. header' > Len(path')
      BY <2>1, <2>3, <2>10
    <3>3. QED
      BY <2>1, <2>9, <3>1, <3>2 DEF StateAtHeader
  <2>11. CASE header # Len(path)
    <3>1. header \in 1..Len(path)-1 /\ header + 1 \in 1..Len(path) /\ ~(header + 1 > Len(path))
      BY <2>1, <2>3, <2>4, <2>11
    <3> DEFINE g == path[header+1]
    <3>2. After(h, reference) = Before(g, reference) /\ g \in Sequences
      BY <2>3, <2>5, <3>1, ElementOfSeq DEF StepsLead
    <3>3. Stage[g][0] = State[Before(g, reference)]
      BY <2>2, <3>2 DEF Faithful, Recorded
    <3>4. StateAtHeader(State, Stage)' = Stage[g][0]
      BY <2>1, <3>1 DEF StateAtHeader
    <3>5. QED
      BY <2>1, <2>9, <3>2, <3>3, <3>4
  <2>12. QED
    BY <2>10, <2>11
<1>9. ASSUME Finish, UNCHANGED historyVars
      PROVE  phase' = "done" /\ text' = State[target']
  <2>1. /\ phase = "apply" /\ phase' = "done" /\ header > Len(path)
        /\ UNCHANGED <<base, target, text>>
    BY <1>9 DEF Finish, request
  <2>2. Faithful(State, Stage) /\ text = StateAtHeader(State, Stage)
    BY <1>9, <2>1, FaithfulStays DEF StageIInv
  <2>3. QED
    BY <2>1, <2>2 DEF StateAtHeader
<1>10. CancelReplay => phase' = "canceled"
  BY DEF CancelReplay
<1>11. QED
  BY <1>1, <1>2, <1>3, <1>4, <1>5, <1>6, <1>7, <1>8, <1>9, <1>10 DEF ReadAndReplay, ReplayNext

\* Then no entry is out of range, the workspace between two headers is the text
\* of a state on the way, and the snapshot is the text of the target.
LandsOnStates(State, Stage) ==
    Faithful(State, Stage) =>
        /\ phase # "invalid"
        /\ (phase = "apply" /\ entry = 1) =>
             text = IF header = 1 THEN State[reference] ELSE State[After(path[header-1], reference)]
        /\ phase = "done" => text = State[target]

LEMMA StagesLand ==
    ASSUME NEW State, NEW Stage, ReplayIInv, PlaceIInv, FitIInv, StageIInv(State, Stage)
    PROVE  LandsOnStates(State, Stage)
<1> SUFFICES ASSUME ReplayIInv, PlaceIInv, StageIInv(State, Stage), Faithful(State, Stage), phase = "apply", entry = 1
             PROVE  text = IF header = 1 THEN State[reference] ELSE State[After(path[header-1], reference)]
  BY DEF LandsOnStates, StageIInv
<1>1. text = StateAtHeader(State, Stage)
  BY DEF StageIInv
<1>2. StepsLead /\ path \in Seq(Sequences) /\ Len(path) \in Nat
  BY LenProperties DEF ReplayIInv, WayIInv, StepsLead
<1>3. header \in 1..Len(path)+1
  BY DEF PlaceIInv
<1>4. CASE header > Len(path)
  <2>1. text = State[target] /\ header = Len(path) + 1 /\ header - 1 = Len(path)
    BY <1>1, <1>2, <1>3, <1>4 DEF StateAtHeader
  <2>2. CASE path = <<>>
    <3>1. header = 1 /\ reference = target
      BY <1>2, <2>1, <2>2, EmptySeq DEF StepsLead
    <3>2. QED
      BY <2>1, <3>1
  <2>3. CASE path # <<>>
    <3>1. header # 1 /\ After(path[Len(path)], reference) = target
      BY <1>2, <2>1, <2>3, EmptySeq DEF StepsLead
    <3>2. QED
      BY <2>1, <3>1
  <2>4. QED
    BY <2>2, <2>3
<1>5. CASE ~(header > Len(path))
  <2>1. header \in 1..Len(path) /\ path # <<>> /\ entry - 1 = 0
    BY <1>2, <1>3, <1>5, EmptySeq
  <2>2. path[header] \in Sequences /\ text = Stage[path[header]][0]
    BY <1>1, <1>2, <1>5, <2>1, ElementOfSeq DEF StateAtHeader
  <2>3. text = State[Before(path[header], reference)]
    BY <2>2 DEF Faithful, Recorded
  <2>4. CASE header = 1
    BY <1>2, <2>1, <2>3, <2>4 DEF StepsLead
  <2>5. CASE header # 1
    <3>1. header - 1 \in 1..Len(path)-1 /\ (header - 1) + 1 = header
      BY <1>2, <2>1, <2>5
    <3>2. After(path[header-1], reference) = Before(path[header], reference)
      BY <1>2, <2>1, <3>1 DEF StepsLead
    <3>3. QED
      BY <2>3, <2>5, <3>2
  <2>6. QED
    BY <2>4, <2>5
<1>6. QED
  BY <1>4, <1>5

(* Where every header holds entries that lead from the text of one of its     *)
(* states to that of the other, in the direction the position of the file    *)
(* asks for, Reconstruct (replay.go) refuses none and ends in the text of the *)
(* state it was asked for, from any reference to any target.                *)
THEOREM SnapshotsAreStates ==
    ASSUME NEW State, NEW Stage PROVE ReplaySpec => []LandsOnStates(State, Stage)
<1>1. NoRequest => StageIInv(State, Stage)
  BY DEF NoRequest, StageIInv, Faithful
<1>2. ReplaySpec => [](ReplayIInv /\ PlaceIInv /\ FitIInv /\ StageIInv(State, Stage))
  BY <1>1, FitHolds, StageNext, PTL DEF ReplaySpec
<1>3. ReplayIInv /\ PlaceIInv /\ FitIInv /\ StageIInv(State, Stage) => LandsOnStates(State, Stage)
  BY StagesLand
<1>4. QED
  BY <1>2, <1>3, PTL

-----------------------------------------------------------------------------
(* The texts of the editor, and what an entry does to one.                  *)

Plain == Seq(Nat) \ {<<>>}

PlainEntry == [top : Nat, bottom : Nat, lines : Seq(Nat)]

LEMMA PlainTexts == EmptyLine = 0 /\ Line \cup {EmptyLine} = Nat /\ Texts = Plain
<1>1. Dummy[1] = 0 /\ <<EmptyLine>>[1] = EmptyLine
  BY DEF Dummy
<1>2. EmptyLine = 0
  BY <1>1, ReaderAssumption
<1>3. Line \cup {EmptyLine} = Nat
  BY <1>2 DEF Line
<1>4. QED
  BY <1>2, <1>3 DEF Texts, Plain

\* An entry turns one text into another: it replaces the lines between top and
\* bottom, which is 0 for the end of the text, and neither text is empty.
Makes(x, e, y) ==
    /\ x \in Plain /\ y \in Plain /\ e \in PlainEntry
    /\ \E p, m, r \in Seq(Nat) :
         /\ x = (p \o m) \o r /\ y = (p \o e.lines) \o r
         /\ e.top = Len(p)
         /\ e.bottom = (Len(p) + Len(m)) + 1 \/ (e.bottom = 0 /\ r = <<>>)

\* Where such an entry ends, for the editor and for Replay.
LEMMA EntryEnds ==
    ASSUME NEW x \in Plain, NEW e \in PlainEntry, NEW p \in Seq(Nat), NEW m \in Seq(Nat), NEW r \in Seq(Nat),
           x = (p \o m) \o r, e.bottom = (Len(p) + Len(m)) + 1 \/ (e.bottom = 0 /\ r = <<>>)
    PROVE  Bottom(e, x) = (Len(p) + Len(m)) + 1 /\ BottomOf(e, x) = (Len(p) + Len(m)) + 1
<1>1. Len(x) = (Len(p) + Len(m)) + Len(r) /\ Len(p) \in Nat /\ Len(m) \in Nat
  BY Cut
<1>2. r = <<>> => Len(r) = 0
  BY EmptySeq
<1>3. r = <<>> => Len(x) + 1 = (Len(p) + Len(m)) + 1
  BY <1>1, <1>2
<1>4. (Len(p) + Len(m)) + 1 # 0
  BY <1>1
<1>5. QED
  BY <1>3, <1>4 DEF Bottom, BottomOf

\* applyEntry does to a text what the editor meant by the entry.
LEMMA EntryReplaces ==
    ASSUME NEW x, NEW e, NEW y, Makes(x, e, y)
    PROVE  InRange(e, x) /\ Size(e, x) # 0 /\ Replaced(e, x) = y
<1>1. x \in Plain /\ y \in Plain /\ e \in PlainEntry
  BY DEF Makes
<1>2. PICK p \in Seq(Nat), m \in Seq(Nat), r \in Seq(Nat) :
         /\ x = (p \o m) \o r /\ y = (p \o e.lines) \o r
         /\ e.top = Len(p)
         /\ e.bottom = (Len(p) + Len(m)) + 1 \/ (e.bottom = 0 /\ r = <<>>)
  BY DEF Makes
<1>3. BottomOf(e, x) = (Len(p) + Len(m)) + 1
  BY <1>1, <1>2, EntryEnds, ZenonT(40)
<1>4. /\ Len(x) = (Len(p) + Len(m)) + Len(r)
      /\ Len(p) \in Nat /\ Len(m) \in Nat /\ Len(r) \in Nat
      /\ SubSeq(x, 1, Len(p)) = p /\ SubSeq(x, (Len(p) + Len(m)) + 1, Len(x)) = r
  BY <1>2, Cut
<1>5. e.lines \in Seq(Nat) /\ Len(e.lines) \in Nat
  BY <1>1, LenProperties DEF PlainEntry
<1>6. Len(y) = (Len(p) + Len(e.lines)) + Len(r)
  BY <1>2, <1>5, Cut
<1>7. InRange(e, x)
  BY <1>2, <1>3, <1>4 DEF InRange
<1>8. Size(e, x) = Len(y)
  <2>1. PICK i \in Nat, j \in Nat, k \in Nat, l \in Nat :
           i = Len(p) /\ j = Len(m) /\ k = Len(r) /\ l = Len(e.lines)
    BY <1>4, <1>5
  <2>2. Size(e, x) = ((i + j) + k) - (((i + j) + 1) - 1 - i) + l
    BY <1>2, <1>3, <1>4, <2>1 DEF Size
  <2>3. Len(y) = (i + l) + k
    BY <1>6, <2>1
  <2>4. ((i + j) + k) - (((i + j) + 1) - 1 - i) + l = (i + l) + k
    OBVIOUS
  <2>5. QED
    BY <2>2, <2>3, <2>4
<1>9. Len(y) # 0
  BY <1>1, EmptySeq DEF Plain
<1>10. Replaced(e, x) = (SubSeq(x, 1, Len(p)) \o e.lines) \o SubSeq(x, (Len(p) + Len(m)) + 1, Len(x))
  BY <1>2, <1>3, <1>8, <1>9 DEF Replaced
<1>11. QED
  BY <1>2, <1>4, <1>7, <1>8, <1>9, <1>10

\* Undo and redo swap the two texts, and leave the entry that swaps them back.
LEMMA EntrySwaps ==
    ASSUME NEW x, NEW e, NEW y, Makes(x, e, y)
    PROVE  Swap(e, x).text = y /\ Makes(y, Swap(e, x).entry, x)
<1>1. x \in Plain /\ y \in Plain /\ e \in PlainEntry
  BY DEF Makes
<1>2. PICK p \in Seq(Nat), m \in Seq(Nat), r \in Seq(Nat) :
         /\ x = (p \o m) \o r /\ y = (p \o e.lines) \o r
         /\ e.top = Len(p)
         /\ e.bottom = (Len(p) + Len(m)) + 1 \/ (e.bottom = 0 /\ r = <<>>)
  BY DEF Makes
<1>3. Bottom(e, x) = (Len(p) + Len(m)) + 1
  BY <1>1, <1>2, EntryEnds, ZenonT(40)
<1>4. /\ Len(p) \in Nat /\ Len(m) \in Nat
      /\ SubSeq(x, 1, Len(p)) = p /\ SubSeq(x, Len(p) + 1, Len(p) + Len(m)) = m
      /\ SubSeq(x, (Len(p) + Len(m)) + 1, Len(x)) = r
  BY <1>2, Cut
<1>5. e.lines \in Seq(Nat) /\ Len(e.lines) \in Nat
  BY <1>1, LenProperties DEF PlainEntry
<1>6. y # <<>>
  BY <1>1 DEF Plain
<1>7. Splice(x, e.top, Bottom(e, x), e.lines) = y
  BY <1>2, <1>3, <1>4, <1>6 DEF Splice
<1> DEFINE f == [top |-> Len(p), bottom |-> Len(p) + Len(e.lines) + 1, lines |-> m]
<1>8. Swap(e, x).text = y /\ Swap(e, x).entry = f
  <2>1. Bottom(e, x) - 1 = Len(p) + Len(m)
    BY <1>3, <1>4
  <2>2. SubSeq(x, e.top + 1, Bottom(e, x) - 1) = m
    BY <1>2, <1>4, <2>1
  <2>3. Swap(e, x) = [text |-> y, entry |-> f]
    BY <1>2, <1>7, <2>2 DEF Swap
  <2>4. QED
    BY <2>3
<1>9. Makes(y, f, x)
  <2>1. f \in PlainEntry
    BY <1>4, <1>5 DEF PlainEntry
  <2>2. /\ y = (p \o e.lines) \o r /\ x = (p \o f.lines) \o r
        /\ f.top = Len(p) /\ f.bottom = (Len(p) + Len(e.lines)) + 1
    BY <1>2
  <2> HIDE DEF f
  <2>3. QED
    BY <1>1, <1>5, <2>1, <2>2 DEF Makes
<1>10. QED
  BY <1>8, <1>9

\* What an edit saves turns the new text into the old one.
LEMMA EditsMake ==
    ASSUME NEW t \in Plain, NEW name \in Nat, NEW c \in Edits(t, name)
    PROVE  Makes(c.text, c.entry, t)
<1>0. MaxInsert \in Nat /\ t \in Seq(Nat) /\ Len(t) \in Nat
  BY EditorAssumption, LenProperties DEF Plain
<1> DEFINE Q == {q \in (0..Len(t)) \X (1..Len(t) + 1) : q[1] < q[2]}
           Saved(q, n) == [text  |-> Splice(t, q[1], q[2], [i \in 1..n |-> name + i]),
                           entry |-> [top |-> q[1],
                                      bottom |-> IF q[2] > Len(t) THEN 0 ELSE q[1] + n + 1,
                                      lines |-> SubSeq(t, q[1] + 1, q[2] - 1)]]
<1>1. PICK q \in (0..Len(t)) \X (1..Len(t) + 1), n \in 0..MaxInsert : q[1] < q[2] /\ c = Saved(q, n)
  <2>1. Edits(t, name) = {Saved(q, n) : q \in Q, n \in 0..MaxInsert}
    BY DEF Edits
  <2> HIDE DEF Saved, Q
  <2>2. \E q \in Q, n \in 0..MaxInsert : c = Saved(q, n)
    BY <2>1
  <2>3. PICK q \in Q, n \in 0..MaxInsert : c = Saved(q, n)
    BY <2>2
  <2>4. q \in (0..Len(t)) \X (1..Len(t) + 1) /\ q[1] < q[2]
    BY DEF Q
  <2>5. QED
    BY <2>3, <2>4
<1>2. PICK i \in Nat, j \in Nat : i = q[1] /\ j = q[2] - 1 /\ q[2] = j + 1 /\ i <= j /\ j <= Len(t)
  <2>1. q[1] \in 0..Len(t) /\ q[2] \in 1..Len(t)+1
    OBVIOUS
  <2>2. q[1] \in Nat /\ q[2] - 1 \in Nat /\ q[2] = (q[2] - 1) + 1 /\ q[1] <= q[2] - 1 /\ q[2] - 1 <= Len(t)
    BY <1>0, <1>1, <2>1
  <2>3. QED
    BY <2>2
<1>3. PICK p \in Seq(Nat), m \in Seq(Nat), r \in Seq(Nat) :
         /\ t = (p \o m) \o r /\ Len(p) = i /\ Len(m) = j - i /\ Len(r) = Len(t) - j
         /\ p = SubSeq(t, 1, i) /\ m = SubSeq(t, i + 1, j) /\ r = SubSeq(t, j + 1, Len(t))
  <2>1. i <= j /\ j <= Len(t) /\ t \in Seq(Nat)
    BY <1>0, <1>2
  <2>2. \E p, m, r \in Seq(Nat) :
          /\ t = (p \o m) \o r /\ Len(p) = i /\ Len(m) = j - i /\ Len(r) = Len(t) - j
          /\ p = SubSeq(t, 1, i) /\ m = SubSeq(t, i + 1, j) /\ r = SubSeq(t, j + 1, Len(t))
    <3>1. InThree(t, i, j)
      BY <2>1, CutAt
    <3>2. QED
      BY <3>1 DEF InThree
  <2>3. QED
    BY <2>2
<1> DEFINE new == [k \in 1..n |-> name + k]
           y == (p \o new) \o r
           e == [top |-> i, bottom |-> IF j + 1 > Len(t) THEN 0 ELSE i + n + 1, lines |-> m]
<1> HIDE DEF new, y, e
<1>4. new \in Seq(Nat) /\ Len(new) = n
  <2>1. \A k \in 1..n : name + k \in Nat
    OBVIOUS
  <2>2. new \in [1..n -> Nat] /\ n \in Nat
    BY <1>0, <2>1 DEF new
  <2>3. QED
    BY <2>2
<1>5. c = [text |-> IF y = <<>> THEN Dummy ELSE y, entry |-> e]
  BY <1>1, <1>2, <1>3 DEF Splice, new, y, e
<1>6. c.text = (IF y = <<>> THEN Dummy ELSE y) /\ c.entry = e
  BY <1>5
<1>7. e \in PlainEntry /\ e.top = i /\ e.lines = m /\ e.bottom = IF j + 1 > Len(t) THEN 0 ELSE i + n + 1
  <2>1. n \in Nat /\ i + n + 1 \in Nat
    BY <1>0, <1>2
  <2> DEFINE b == IF j + 1 > Len(t) THEN 0 ELSE i + n + 1
  <2>2. b \in Nat
    BY <2>1
  <2>3. e = [top |-> i, bottom |-> b, lines |-> m]
    BY DEF e
  <2> HIDE DEF b
  <2>4. e \in PlainEntry /\ e.top = i /\ e.lines = m /\ e.bottom = b
    BY <1>2, <1>3, <2>2, <2>3 DEF PlainEntry
  <2>5. QED
    BY <2>4 DEF b
<1>8. y \in Seq(Nat) /\ Len(y) = (i + n) + Len(r)
  <2>1. y \in Seq(Nat) /\ Len(y) = (Len(p) + Len(new)) + Len(r)
    <3>1. p \in Seq(Nat) /\ new \in Seq(Nat) /\ r \in Seq(Nat) /\ y = (p \o new) \o r
      BY <1>3, <1>4 DEF y
    <3>2. QED
      BY <3>1, Cut
  <2>2. QED
    BY <1>3, <1>4, <2>1
<1>9. Len(r) \in Nat /\ (r = <<>> <=> Len(r) = 0) /\ (Len(r) = 0 <=> j + 1 > Len(t))
  <2>1. Len(r) \in Nat /\ (r = <<>> <=> Len(r) = 0)
    BY <1>3, EmptySeq, LenProperties
  <2>2. QED
    <3>1. Len(r) = Len(t) - j
      BY <1>3
    <3>2. QED
      BY <1>0, <1>2, <2>1, <3>1, SMTT(30)
<1>10. CASE y # <<>>
  <2>1. y \in Plain /\ y = (p \o new) \o r
    BY <1>8, <1>10 DEF Plain, y
  <2>2. e.bottom = (Len(p) + Len(new)) + 1 \/ (e.bottom = 0 /\ r = <<>>)
    BY <1>2, <1>3, <1>4, <1>7, <1>9
  <2>3. QED
    BY <1>3, <1>4, <1>6, <1>7, <1>10, <2>1, <2>2 DEF Makes
<1>11. CASE y = <<>>
  <2>1. Len(y) = 0 /\ i = 0 /\ Len(r) = 0
    BY <1>2, <1>8, <1>9, <1>11, EmptySeq, SMTT(30)
  <2>2. r = <<>> /\ p = <<>> /\ e.bottom = 0 /\ e.top = 0
    BY <1>3, <1>7, <1>9, <2>1, EmptySeq
  <2>3. Dummy \in Plain
    <3>1. <<0>> \in Seq(Nat) /\ <<0>> # <<>>
      OBVIOUS
    <3>2. QED
      BY <3>1 DEF Plain, Dummy
  <2>4. <<>> \in Seq(Nat) /\ Len(<<>>) = 0 /\ Dummy \in Seq(Nat)
    BY <2>3, EmptySeq DEF Plain
  <2>5. Dummy = (<<>> \o Dummy) \o <<>> /\ t = (<<>> \o m) \o <<>>
    BY <1>3, <2>2, <2>4, ConcatEmptySeq
  <2>6. QED
    BY <1>3, <1>6, <1>7, <1>11, <2>2, <2>3, <2>4, <2>5 DEF Makes
<1>12. QED
  BY <1>10, <1>11

-----------------------------------------------------------------------------
(* The entries of a header, applied in list order.                          *)

Between(list, w) ==
    /\ w \in [0..Len(list) -> Plain]
    /\ \A k \in 1..Len(list) : Makes(w[k-1], list[k], w[k])

MakesAll(list, x, y) ==
    /\ list \in Seq(PlainEntry)
    /\ \E w : Between(list, w) /\ w[0] = x /\ w[Len(list)] = y

LEMMA MakesNone == ASSUME NEW x \in Plain PROVE MakesAll(<<>>, x, x)
<1> DEFINE w == [k \in 0..0 |-> x]
<1>1. <<>> \in Seq(PlainEntry) /\ Len(<<>>) = 0
  BY EmptySeq
<1>2. w \in [0..0 -> Plain] /\ w[0] = x /\ 1..0 = {}
  OBVIOUS
<1> HIDE DEF w
<1>3. Between(<<>>, w) /\ w[0] = x /\ w[Len(<<>>)] = x
  BY <1>1, <1>2 DEF Between
<1>4. QED
  BY <1>1, <1>3 DEF MakesAll

\* One entry more in front.
LEMMA MakesFirst ==
    ASSUME NEW y, NEW e, NEW x, NEW list, NEW z, Makes(y, e, x), MakesAll(list, x, z)
    PROVE  MakesAll(<<e>> \o list, y, z)
<1>1. list \in Seq(PlainEntry) /\ e \in PlainEntry /\ y \in Plain
  BY DEF MakesAll, Makes
<1>2. PICK w : Between(list, w) /\ w[0] = x /\ w[Len(list)] = z
  BY DEF MakesAll
<1>3. PICK n \in Nat : n = Len(list)
  BY <1>1, LenProperties
<1>4. PICK l \in Seq(PlainEntry) : /\ l = <<e>> \o list /\ Len(l) = n + 1
                                   /\ l[1] = e /\ \A k \in 2..n+1 : l[k] = list[k-1]
  <2>1. <<e>> \in Seq(PlainEntry) /\ Len(<<e>>) = 1 /\ <<e>>[1] = e
    BY <1>1
  <2>2. /\ <<e>> \o list \in Seq(PlainEntry) /\ Len(<<e>> \o list) = 1 + n
        /\ \A k \in 1..1+n : (<<e>> \o list)[k] = IF k <= 1 THEN <<e>>[k] ELSE list[k - 1]
    BY <1>1, <1>3, <2>1, ConcatProperties
  <2>3. 1 + n = n + 1 /\ 1 \in 1..1+n /\ \A k \in 2..n+1 : k \in 1..1+n /\ ~(k <= 1)
    OBVIOUS
  <2>4. (<<e>> \o list)[1] = e /\ \A k \in 2..n+1 : (<<e>> \o list)[k] = list[k-1]
    BY <2>1, <2>2, <2>3
  <2>5. QED
    BY <2>2, <2>3, <2>4
<1> DEFINE v == [k \in 0..n+1 |-> IF k = 0 THEN y ELSE w[k-1]]
<1>5. /\ w \in [0..n -> Plain] /\ w[0] = x /\ w[n] = z
      /\ \A k \in 1..n : Makes(w[k-1], list[k], w[k])
  BY <1>2, <1>3 DEF Between
<1>6. v \in [0..n+1 -> Plain] /\ v[0] = y /\ \A k \in 1..n+1 : v[k] = w[k-1]
  <2>1. \A k \in 0..n+1 : k # 0 => k - 1 \in 0..n
    OBVIOUS
  <2>2. 0 \in 0..n+1 /\ \A k \in 1..n+1 : k \in 0..n+1 /\ k # 0
    OBVIOUS
  <2>3. QED
    BY <1>1, <1>5, <2>1, <2>2
<1> HIDE DEF v
<1>7. \A k \in 1..n+1 : Makes(v[k-1], l[k], v[k])
  <2> TAKE k \in 1..n+1
  <2>1. CASE k = 1
    <3>1. k - 1 = 0 /\ v[k] = w[0]
      BY <1>6, <2>1
    <3>2. QED
      BY <1>4, <1>5, <1>6, <2>1, <3>1
  <2>2. CASE k # 1
    <3>1. k \in 2..n+1 /\ k - 1 \in 1..n /\ k - 1 \in 1..n+1
      BY <2>2
    <3>2. v[k] = w[k-1] /\ v[k-1] = w[k-1-1] /\ l[k] = list[k-1]
      BY <1>4, <1>6, <3>1
    <3>3. Makes(w[k-1-1], list[k-1], w[k-1])
      BY <1>5, <3>1
    <3>4. QED
      BY <3>2, <3>3
  <2>3. QED
    BY <2>1, <2>2
<1>8. Between(l, v) /\ v[0] = y /\ v[Len(l)] = z
  <2>1. v[n+1] = w[n+1-1] /\ n+1-1 = n
    <3>1. n + 1 \in 1..n+1 /\ n+1-1 = n
      OBVIOUS
    <3>2. QED
      BY <1>6, <3>1
  <2>2. QED
    BY <1>4, <1>5, <1>6, <1>7, <2>1 DEF Between
<1>9. QED
  BY <1>4, <1>8 DEF MakesAll

\* The steps of UndoRedo.
OneMore(s, done) == [text |-> s.text, entries |-> <<s.entry>> \o done.entries]

IsDone(f, list, x) ==
    f = [k \in 0..Len(list) |-> IF k = 0 THEN [text |-> x, entries |-> <<>>]
                                ELSE OneMore(Swap(list[k], f[k-1].text), f[k-1])]

\* A header is swapped entry by entry: the other text comes out, and a list
\* that swaps it back.
LEMMA MakesBack ==
    ASSUME NEW list, NEW x, NEW y, MakesAll(list, x, y)
    PROVE  UndoRedo(list, x).text = y /\ MakesAll(UndoRedo(list, x).entries, y, x)
<1>1. list \in Seq(PlainEntry)
  BY DEF MakesAll
<1>2. PICK w : Between(list, w) /\ w[0] = x /\ w[Len(list)] = y
  BY DEF MakesAll
<1>3. PICK n \in Nat : n = Len(list)
  BY <1>1, LenProperties
<1>4. /\ w \in [0..n -> Plain] /\ w[0] = x /\ w[n] = y
      /\ \A k \in 1..n : Makes(w[k-1], list[k], w[k])
  BY <1>2, <1>3 DEF Between
<1>5. x \in Plain
  <2>1. 0 \in 0..n
    OBVIOUS
  <2>2. QED
    BY <1>4, <2>1
<1>6. \A k \in 1..n : /\ k - 1 \in 0..n /\ k \in 0..n
                      /\ Swap(list[k], w[k-1]).text = w[k]
                      /\ Makes(w[k], Swap(list[k], w[k-1]).entry, w[k-1])
                      /\ Swap(list[k], w[k-1]).entry \in PlainEntry
  <2> TAKE k \in 1..n
  <2>1. Makes(w[k-1], list[k], w[k])
    BY <1>4
  <2>2. Swap(list[k], w[k-1]).text = w[k] /\ Makes(w[k], Swap(list[k], w[k-1]).entry, w[k-1])
    BY <2>1, EntrySwaps
  <2>3. Swap(list[k], w[k-1]).entry \in PlainEntry
    BY <2>2 DEF Makes
  <2>4. k - 1 \in 0..n /\ k \in 0..n
    OBVIOUS
  <2>5. QED
    BY <2>2, <2>3, <2>4
<1>7. \E f : IsDone(f, list, x)
  <2> DEFINE T == [text : Plain, entries : Seq(PlainEntry)]
             a == [text |-> x, entries |-> <<>>]
             G(k, t) == IF t.text = w[k-1] THEN OneMore(Swap(list[k], t.text), t) ELSE t
             F == [p \in (1..n) \X T |-> G(p[1], p[2])]
  <2>1. a \in T
    BY <1>5, EmptySeq
  <2>2. ASSUME NEW k \in 1..n, NEW t \in T PROVE G(k, t) \in T
    <3>1. CASE t.text = w[k-1]
      <4>1. Swap(list[k], t.text).text \in Plain /\ Swap(list[k], t.text).entry \in PlainEntry
        BY <1>4, <1>6, <3>1
      <4>2. <<Swap(list[k], t.text).entry>> \o t.entries \in Seq(PlainEntry)
        BY <4>1, ConcatProperties
      <4>3. QED
        BY <3>1, <4>1, <4>2 DEF OneMore
    <3>2. QED
      BY <3>1
  <2> HIDE DEF G
  <2>3. F \in [(1..n) \X T -> T]
    BY <2>2
  <2>4. \A k \in 1..n, t \in T : F[<<k, t>>] = G(k, t)
    OBVIOUS
  <2> HIDE DEF F, T, a
  <2>5. PICK f \in [0..n -> T] : IsRecursiveTo(n, f, a, F)
    BY <2>1, <2>3, RecursionUpTo
  <2>6. f[0] = a /\ \A k \in 1..n : f[k] = G(k, f[k-1])
    <3>1. \A k \in 1..n : k - 1 \in 0..n
      OBVIOUS
    <3>2. QED
      BY <2>4, <2>5, <3>1 DEF IsRecursiveTo
  <2>7. \A k \in 0..n : f[k].text = w[k]
    <3> DEFINE S == {k \in 0..n : f[k].text = w[k]}
    <3>1. 0 \in S
      <4>1. 0 \in 0..n /\ a.text = x
        BY DEF a
      <4>2. QED
        BY <1>4, <2>6, <4>1
    <3>2. ASSUME NEW k \in 0..n-1, k \in S PROVE k + 1 \in S
      <4>1. k + 1 \in 1..n /\ k + 1 \in 0..n /\ (k + 1) - 1 = k
        OBVIOUS
      <4>2. f[k+1] = G(k+1, f[k]) /\ f[k].text = w[k]
        BY <2>6, <3>2, <4>1
      <4>3. f[k+1].text = Swap(list[k+1], w[k]).text
        BY <4>1, <4>2 DEF G, OneMore
      <4>4. f[k+1].text = w[k+1]
        BY <1>6, <4>1, <4>3
      <4>5. QED
        BY <4>1, <4>4
    <3> HIDE DEF S
    <3>3. 0..n \subseteq S
      BY <3>1, <3>2, UpTo
    <3>4. QED
      BY <3>3 DEF S
  <2>8. \A k \in 0..n : f[k] = IF k = 0 THEN a ELSE OneMore(Swap(list[k], f[k-1].text), f[k-1])
    <3> TAKE k \in 0..n
    <3>1. CASE k = 0
      BY <2>6, <3>1
    <3>2. CASE k # 0
      <4>1. k \in 1..n /\ k - 1 \in 0..n
        BY <3>2
      <4>2. QED
        BY <2>6, <2>7, <3>2, <4>1 DEF G
    <3>3. QED
      BY <3>1, <3>2
  <2>9. f = [k \in 0..n |-> IF k = 0 THEN a ELSE OneMore(Swap(list[k], f[k-1].text), f[k-1])]
    BY <2>5, <2>8
  <2>10. QED
    BY <1>3, <2>9 DEF IsDone, a
<1> DEFINE g == CHOOSE f : IsDone(f, list, x)
<1>8. IsDone(g, list, x)
  BY <1>7
<1>9. UndoRedo(list, x) = g[n]
  BY <1>3 DEF UndoRedo, IsDone, OneMore
<1> HIDE DEF g
<1>10. /\ g[0] = [text |-> x, entries |-> <<>>]
       /\ \A k \in 1..n : g[k] = OneMore(Swap(list[k], g[k-1].text), g[k-1])
  <2>1. \A k \in 0..n : g[k] = IF k = 0 THEN [text |-> x, entries |-> <<>>]
                               ELSE OneMore(Swap(list[k], g[k-1].text), g[k-1])
    BY <1>3, <1>8 DEF IsDone
  <2>2. 0 \in 0..n /\ \A k \in 1..n : k \in 0..n /\ k # 0
    OBVIOUS
  <2>3. QED
    BY <2>1, <2>2
<1> DEFINE S == {k \in 0..n : g[k].text = w[k] /\ MakesAll(g[k].entries, w[k], x)}
<1>11. 0 \in S
  <2>1. g[0].text = x /\ g[0].entries = <<>> /\ 0 \in 0..n
    BY <1>10
  <2>2. QED
    BY <1>4, <1>5, <2>1, MakesNone
<1>12. ASSUME NEW k \in 0..n-1, k \in S PROVE k + 1 \in S
  <2>1. k + 1 \in 1..n /\ k + 1 \in 0..n /\ (k + 1) - 1 = k
    OBVIOUS
  <2>2. g[k].text = w[k] /\ MakesAll(g[k].entries, w[k], x)
    BY <1>12
  <2>3. g[k+1] = OneMore(Swap(list[k+1], w[k]), g[k])
    BY <1>10, <2>1, <2>2
  <2>4. g[k+1].text = w[k+1] /\ g[k+1].entries = <<Swap(list[k+1], w[k]).entry>> \o g[k].entries
    BY <1>6, <2>1, <2>3 DEF OneMore
  <2>5. Makes(w[k+1], Swap(list[k+1], w[k]).entry, w[k])
    BY <1>6, <2>1
  <2>6. MakesAll(g[k+1].entries, w[k+1], x)
    BY <2>2, <2>4, <2>5, MakesFirst
  <2>7. QED
    BY <2>1, <2>4, <2>6
<1> HIDE DEF S
<1>13. 0..n \subseteq S /\ n \in 0..n
  BY <1>11, <1>12, UpTo
<1>14. QED
  BY <1>4, <1>9, <1>13 DEF S

\* A change saves entries that undo it.
LEMMA ChangesMake ==
    ASSUME NEW t \in Plain, NEW h \in Nat, NEW c \in Changes(t, h)
    PROVE  c.text \in Plain /\ MakesAll(c.entries, c.text, t)
<1> DEFINE One(e) == [text |-> e.text, entries |-> <<e.entry>>]
           Two(f, d) == [text |-> f.text, entries |-> <<f.entry>> \o d.entries]
           once == {One(e) : e \in Edits(t, 10 * h)}
           again(d) == {Two(f, d) : f \in Edits(d.text, 10 * h + 5)}
<1>1. 10 * h \in Nat /\ 10 * h + 5 \in Nat
  OBVIOUS
<1>2. \A e, x : MakesAll(<<>>, x, x) /\ Makes(e.text, e.entry, x) => MakesAll(<<e.entry>>, e.text, x)
  <2> SUFFICES ASSUME NEW e, NEW x, MakesAll(<<>>, x, x), Makes(e.text, e.entry, x)
               PROVE  MakesAll(<<e.entry>>, e.text, x)
    OBVIOUS
  <2>1. <<e.entry>> \o <<>> = <<e.entry>>
    <3>1. <<e.entry>> \in Seq({e.entry})
      OBVIOUS
    <3>2. QED
      BY <3>1, ConcatEmptySeq
  <2>2. MakesAll(<<e.entry>> \o <<>>, e.text, x)
    BY MakesFirst
  <2>3. QED
    BY <2>1, <2>2
<1>3. ASSUME NEW d \in once PROVE d.text \in Plain /\ MakesAll(d.entries, d.text, t)
  <2> HIDE DEF One
  <2>1. PICK e \in Edits(t, 10 * h) : d = One(e)
    BY <1>3
  <2>2. d.text = e.text /\ d.entries = <<e.entry>>
    BY <2>1 DEF One
  <2>3. Makes(e.text, e.entry, t)
    BY <1>1, EditsMake
  <2>4. QED
    BY <1>2, <2>2, <2>3, MakesNone DEF Makes
<1>4. c \in once \/ \E d \in once : c \in again(d)
  <2>1. Changes(t, h) \subseteq once \cup UNION {again(d) : d \in once}
    BY DEF Changes
  <2> HIDE DEF once, again
  <2>2. QED
    BY <2>1
<1>5. ASSUME NEW d \in once, c \in again(d) PROVE c.text \in Plain /\ MakesAll(c.entries, c.text, t)
  <2> HIDE DEF Two
  <2>1. PICK f \in Edits(d.text, 10 * h + 5) : c = Two(f, d)
    BY <1>5
  <2> HIDE DEF once, again
  <2>2. c.text = f.text /\ c.entries = <<f.entry>> \o d.entries
    BY <2>1 DEF Two
  <2>3. Makes(f.text, f.entry, d.text)
    BY <1>1, <1>3, EditsMake
  <2>4. f.text \in Plain
    BY <2>3 DEF Makes
  <2>5. MakesAll(d.entries, d.text, t)
    BY <1>3
  <2>6. MakesAll(<<f.entry>> \o d.entries, f.text, t)
    BY <2>3, <2>5, MakesFirst
  <2>7. QED
    BY <2>2, <2>4, <2>6
<1>6. QED
  BY <1>3, <1>4, <1>5

-----------------------------------------------------------------------------
(* The rows of the editor, and their first.                                 *)

LEMMA RowFacts ==
    ASSUME NEW S, NEW s, IsRow(s, S)
    PROVE  /\ Len(s) \in Nat /\ DOMAIN s = 1..Len(s)
           /\ (s = <<>> <=> S = {}) /\ (Len(s) = 0 <=> S = {})
           /\ IF S = {} THEN First(s) = 0 ELSE First(s) = s[1] /\ First(s) \in S /\ 1 \in 1..Len(s)
           /\ \A i \in 1..Len(s) : s[i] \in S
           /\ \A i, j \in 1..Len(s) : s[i] = s[j] => i = j
           /\ \A x \in S : \E i \in 1..Len(s) : s[i] = x
<1>1. /\ Len(s) \in Nat /\ DOMAIN s = 1..Len(s)
      /\ (s = <<>> <=> S = {}) /\ (Len(s) = 0 <=> S = {})
      /\ \A i \in 1..Len(s) : s[i] \in S
      /\ \A i, j \in 1..Len(s) : s[i] = s[j] => i = j
      /\ \A x \in S : \E i \in 1..Len(s) : s[i] = x
  BY RowElements
<1>2. S # {} => 1 \in 1..Len(s)
  BY <1>1
<1>3. QED
  BY <1>1, <1>2 DEF First

\* One more in front.
LEMMA RowFront ==
    ASSUME NEW S, NEW s, IsRow(s, S), NEW e, e \notin S
    PROVE  IsRow(<<e>> \o s, S \cup {e}) /\ First(<<e>> \o s) = e
<1> DEFINE X == S \cup {e}
           t == <<e>> \o s
<1>1. s \in Seq(X) /\ <<e>> \in Seq(X) /\ Len(<<e>>) = 1 /\ <<e>>[1] = e
  <2>1. s \in Seq(S) /\ S \subseteq X
    BY DEF IsRow
  <2>2. Len(s) \in Nat /\ s \in [1..Len(s) -> X]
    BY <2>1, LenProperties, ElementOfSeq
  <2>3. s \in Seq(X)
    BY <2>2, IsASeq
  <2>4. QED
    BY <2>3
<1>2. PICK n \in Nat : n = Len(s)
  BY RowFacts
<1>3. /\ t \in Seq(X) /\ Len(t) = n + 1 /\ t[1] = e /\ \A k \in 2..n+1 : t[k] = s[k-1]
  <2>1. /\ t \in Seq(X) /\ Len(t) = 1 + n
        /\ \A k \in 1..1+n : t[k] = IF k <= 1 THEN <<e>>[k] ELSE s[k - 1]
    BY <1>1, <1>2, ConcatProperties
  <2> HIDE DEF t
  <2>2. 1 + n = n + 1 /\ 1 \in 1..1+n /\ \A k \in 2..n+1 : k \in 1..1+n /\ ~(k <= 1)
    OBVIOUS
  <2>3. QED
    BY <1>1, <2>1, <2>2
<1>4. /\ \A i \in 1..n : s[i] \in S /\ s[i] # e
      /\ \A i, j \in 1..n : s[i] = s[j] => i = j
      /\ \A x \in S : \E i \in 1..n : s[i] = x
  BY <1>2, RowFacts
<1> HIDE DEF t
<1>5. Once(t)
  <2> SUFFICES ASSUME NEW i \in 1..n+1, NEW j \in 1..n+1, t[i] = t[j] PROVE i = j
    BY <1>3 DEF Once
  <2>1. /\ i = 1 \/ (i \in 2..n+1 /\ i - 1 \in 1..n)
        /\ j = 1 \/ (j \in 2..n+1 /\ j - 1 \in 1..n)
    OBVIOUS
  <2>2. i - 1 = j - 1 => i = j
    OBVIOUS
  <2>3. QED
    BY <1>3, <1>4, <2>1, <2>2
<1>6. Elements(t) = X
  <2>1. \A x \in Elements(t) : x \in X
    <3>1. \A i \in 1..n+1 : i = 1 \/ (i \in 2..n+1 /\ i - 1 \in 1..n)
      OBVIOUS
    <3>2. QED
      BY <1>3, <1>4, <3>1 DEF Elements
  <2>2. e \in Elements(t)
    <3>1. 1 \in 1..n+1
      OBVIOUS
    <3>2. QED
      BY <1>3, <3>1 DEF Elements
  <2>3. ASSUME NEW x \in S PROVE x \in Elements(t)
    <3>1. PICK i \in 1..n : s[i] = x
      BY <1>4
    <3>2. i + 1 \in 2..n+1 /\ i + 1 \in 1..n+1 /\ (i + 1) - 1 = i
      OBVIOUS
    <3>3. t[i+1] = x
      BY <1>3, <3>1, <3>2
    <3>4. QED
      BY <1>3, <3>2, <3>3 DEF Elements
  <2>4. QED
    BY <2>1, <2>2, <2>3
<1>7. t # <<>>
  BY <1>3, EmptySeq
<1>8. IsRow(t, X)
  BY <1>3, <1>5, <1>6, RowIs
<1>9. QED
  BY <1>3, <1>7, <1>8 DEF First, t

LEMMA RowTail ==
    ASSUME NEW S, NEW s, IsRow(s, S), S # {}
    PROVE  IsRow(Tail(s), S \ {First(s)})
<1>1. s \in Seq(S) /\ Len(s) \in Nat /\ 1 \in 1..Len(s) /\ First(s) = s[1] /\ s # <<>>
  BY RowFacts DEF IsRow
<1>2. IsRow(RemoveAt(s, 1), S \ {s[1]})
  BY <1>1, RowWithout
<1>3. RemoveAt(s, 1) = Tail(s)
  <2>1. SubSeq(s, 1, 1-1) = <<>>
    BY <1>1, SubSeqEmpty
  <2>2. Tail(s) \in Seq(S) /\ Tail(s) = SubSeq(s, 1+1, Len(s))
    BY <1>1, HeadTailProperties, TailIsSubSeq
  <2>3. <<>> \o Tail(s) = Tail(s)
    BY <2>2, ConcatEmptySeq
  <2>4. QED
    BY <2>1, <2>2, <2>3 DEF RemoveAt
<1>4. QED
  BY <1>1, <1>2, <1>3

\* The start of a row, up to the last one kept.
Starts(s, K) == \E m \in 0..Len(s) : \A i \in DOMAIN s : i <= m <=> s[i] \in K

LEMMA RowKept ==
    ASSUME NEW S, NEW s, IsRow(s, S), NEW K, Starts(s, K)
    PROVE  /\ IsRow(KeptOf(s, K), S \cap K)
           /\ First(s) \in K => First(KeptOf(s, K)) = First(s)
<1>1. PICK n \in Nat : n = Len(s) /\ DOMAIN s = 1..n
  BY RowFacts
<1> DEFINE c == CHOOSE m \in 0..Len(s) : \A i \in DOMAIN s : i <= m <=> s[i] \in K
<1>2. c \in 0..n /\ \A i \in 1..n : i <= c <=> s[i] \in K
  BY <1>1 DEF Starts
<1>3. KeptOf(s, K) = SubSeq(s, 1, c)
  BY DEF KeptOf
<1> HIDE DEF c
<1>4. SubSeq(s, 1, c) \o SubSeq(s, n + 1, n) = SubSeq(s, 1, c)
  <2>1. SubSeq(s, n + 1, n) = <<>>
    BY <1>1, SubSeqEmpty DEF IsRow
  <2>2. SubSeq(s, 1, c) \in Seq(S)
    <3>1. s \in Seq(S) /\ 1 \in Nat \ {0} /\ c \in Nat /\ 1 <= c + 1 /\ c <= Len(s)
      BY <1>1, <1>2 DEF IsRow
    <3>2. QED
      BY <3>1, Part
  <2>3. QED
    BY <2>1, <2>2, ConcatEmptySeq
<1>5. IsRow(SubSeq(s, 1, c), {s[k] : k \in 1..c} \cup {s[k] : k \in n+1..n})
  <2>1. c \in Nat /\ n \in Nat /\ c <= n /\ n <= Len(s)
    BY <1>1, <1>2
  <2>2. IsRow(SubSeq(s, 1, c) \o SubSeq(s, n + 1, Len(s)), {s[k] : k \in 1..c} \cup {s[k] : k \in n+1..Len(s)})
    BY <2>1, RowParts
  <2>3. QED
    BY <1>1, <1>4, <2>2
<1>6. {s[k] : k \in 1..c} \cup {s[k] : k \in n+1..n} = S \cap K
  <2>1. n+1..n = {} /\ \A k \in 1..n : k <= c <=> k \in 1..c
    BY <1>2
  <2>2. \A k \in 1..c : k \in 1..n
    BY <1>2
  <2>3. \A k \in 1..n : s[k] \in S
    BY <1>1, RowFacts
  <2>4. ASSUME NEW x \in S, x \in K PROVE \E k \in 1..c : x = s[k]
    <3>1. PICK k \in 1..n : s[k] = x
      BY <1>1, RowFacts
    <3>2. QED
      BY <1>2, <2>1, <2>4, <3>1
  <2>5. \A k \in 1..c : s[k] \in S \cap K
    BY <1>2, <2>1, <2>2, <2>3
  <2>6. QED
    BY <2>1, <2>4, <2>5
<1>7. ASSUME First(s) \in K PROVE First(KeptOf(s, K)) = First(s)
  <2>1. CASE S = {}
    <3>1. IsRow(KeptOf(s, K), {})
      BY <1>3, <1>5, <1>6, <2>1
    <3>2. QED
      BY <2>1, <3>1, RowFacts
  <2>2. CASE S # {}
    <3>1. 1 \in 1..n /\ First(s) = s[1] /\ First(s) \in S
      BY <1>1, <2>2, RowFacts
    <3>2. c \in Nat /\ 1 <= c /\ c <= Len(s) /\ s \in Seq(S)
      BY <1>1, <1>2, <1>7, <3>1 DEF IsRow
    <3>3. SubSeq(s, 1, c)[1] = s[1]
      <4>1. 1 \in Nat \ {0} /\ 1 <= c + 1 /\ 1 \in 1..(c + 1) - 1 /\ (1 - 1) + 1 = 1
        BY <3>2
      <4>2. \A x \in 1..(c + 1) - 1 : SubSeq(s, 1, c)[x] = s[(1 - 1) + x]
        BY <3>2, <4>1, Part
      <4>3. QED
        BY <4>1, <4>2
    <3>4. IsRow(SubSeq(s, 1, c), S \cap K) /\ S \cap K # {}
      BY <1>5, <1>6, <1>7, <3>1
    <3>5. First(SubSeq(s, 1, c)) = SubSeq(s, 1, c)[1]
      <4> DEFINE R == S \cap K
                 t == SubSeq(s, 1, c)
      <4>1. IsRow(t, R) /\ R # {}
        BY <3>4
      <4> HIDE DEF R, t
      <4>2. First(t) = t[1]
        BY <4>1, RowFacts
      <4>3. QED
        BY <4>2 DEF t
    <3>6. QED
      BY <1>3, <3>1, <3>3, <3>5
  <2>3. QED
    BY <2>1, <2>2
<1>8. QED
  BY <1>3, <1>5, <1>6, <1>7

-----------------------------------------------------------------------------
(* What the editor keeps true of its tree.                                  *)

States == Headers \cup {Root}

\* Each header is below an older state, and each state has a row of those below.
Under(n) == {h \in Headers : parent[h] = n}

Tree ==
    /\ last \in Nat /\ Headers \subseteq 1..last
    /\ parent \in [Headers -> States] /\ \A h \in Headers : parent[h] < h
    /\ DOMAIN children = States
    /\ \A n \in States : IsRow(children[n], Under(n))

\* The headers above the buffer's state, of which each is the preferred one.
Where(A) ==
    /\ newest \in States /\ nextRedo \in States
    /\ Current \in A \cup {Root}
    /\ nextRedo = First(children[Current]) /\ nextRedo \notin A
    /\ A \subseteq Headers
    /\ \A a \in A : parent[a] \in A \cup {Root} /\ First(children[parent[a]]) = a
    /\ \A a \in A : a # Current => First(children[a]) \in A

\* Those have entries that lead up, the others entries that lead down.
Remembers(A) ==
    /\ DOMAIN seen = States /\ \A n \in States : seen[n] \in Plain
    /\ buffer = seen[Current]
    /\ DOMAIN entries = Headers
    /\ \A h \in Headers : IF h \in A THEN MakesAll(entries[h], seen[h], seen[parent[h]])
                                     ELSE MakesAll(entries[h], seen[parent[h]], seen[h])

EditorIInv == session \in Sessions /\ Tree /\ \E A : Where(A) /\ Remembers(A)

LEMMA EditorInitIInv == EditorInit => EditorIInv
<1> SUFFICES ASSUME EditorInit PROVE EditorIInv
  OBVIOUS
<1>1. /\ session \in Sessions /\ buffer \in session.files /\ parent = <<>> /\ entries = <<>>
      /\ children = [n \in {Root} |-> <<>>] /\ newest = 0 /\ nextRedo = 0 /\ last = 0
      /\ seen = [n \in {Root} |-> buffer]
  BY DEF EditorInit
<1>2. Headers = {} /\ States = {Root} /\ DOMAIN entries = {}
  BY <1>1 DEF Headers, States
<1>3. Under(Root) = {} /\ IsRow(<<>>, {})
  <2>1. <<>> \in Seq({}) /\ Len(<<>>) = 0
    BY EmptySeq
  <2>2. QED
    BY <1>2, <2>1 DEF Under, IsRow, Once, Elements
<1>4. Tree
  <2>1. parent \in [Headers -> States]
    <3>1. <<>> \in [{} -> States] /\ DOMAIN <<>> = {}
      OBVIOUS
    <3>2. QED
      BY <1>1, <1>2, <3>1
  <2>2. DOMAIN children = States /\ children[Root] = <<>>
    BY <1>1, <1>2
  <2>3. QED
    BY <1>1, <1>2, <1>3, <2>1, <2>2 DEF Tree
<1>5. Current = 0 /\ First(children[Current]) = 0
  BY <1>1 DEF Current, First, Root
<1>6. Where({})
  BY <1>1, <1>2, <1>5 DEF Where, Root
<1>7. buffer \in Plain
  BY <1>1, EditorAssumption DEF SessionType, Plain
<1>8. Remembers({})
  BY <1>1, <1>2, <1>5, <1>7 DEF Remembers, Root
<1>9. QED
  BY <1>1, <1>4, <1>6, <1>8 DEF EditorIInv

LEMMA TreeFacts ==
    ASSUME Tree
    PROVE  /\ Root \in States /\ Root = 0 /\ 0 \notin Headers /\ Headers \subseteq Nat /\ States = Headers \cup {0}
           /\ \A h \in Headers : h \in States /\ parent[h] \in States /\ parent[h] < h /\ h \in Under(parent[h])
           /\ \A n \in States : /\ n \in Nat
                                /\ First(children[n]) \in States
                                /\ First(children[n]) # 0 => First(children[n]) \in Under(n)
                                /\ First(children[n]) = 0 => Under(n) = {} /\ children[n] = <<>>
           /\ \A n \in States : \A h \in Under(n) : h \in Headers /\ parent[h] = n /\ n < h
<1>1. 0 \notin Headers /\ Headers \subseteq Nat /\ Root = 0 /\ States = Headers \cup {0} /\ Root \in States
  BY DEF Tree, States, Root
<1>2. \A h \in Headers : h \in States /\ parent[h] \in States /\ parent[h] < h /\ h \in Under(parent[h])
  BY <1>1 DEF Tree, Under
<1>3. \A n \in States : \A h \in Under(n) : h \in Headers /\ parent[h] = n /\ n < h
  BY <1>2 DEF Under
<1>4. ASSUME NEW n \in States
      PROVE  /\ First(children[n]) \in States
             /\ First(children[n]) # 0 => First(children[n]) \in Under(n)
             /\ First(children[n]) = 0 => Under(n) = {} /\ children[n] = <<>>
  <2>1. IsRow(children[n], Under(n))
    BY DEF Tree
  <2>2. IF Under(n) = {} THEN First(children[n]) = 0 /\ children[n] = <<>> ELSE First(children[n]) \in Under(n)
    BY <2>1, RowFacts
  <2>3. CASE Under(n) = {}
    BY <1>1, <2>2, <2>3
  <2>4. CASE Under(n) # {}
    <3>1. First(children[n]) \in Under(n)
      BY <2>2, <2>4
    <3>2. First(children[n]) \in Headers /\ First(children[n]) # 0
      BY <1>1, <1>3, <3>1
    <3>3. QED
      BY <1>1, <3>1, <3>2
  <2>5. QED
    BY <2>3, <2>4
<1>5. \A n \in States : n \in Nat
  BY <1>1
<1>6. QED
  BY <1>1, <1>2, <1>3, <1>4, <1>5

LEMMA UndoIInv ==
    ASSUME EditorIInv, Undo, UNCHANGED session
    PROVE  EditorIInv'
<1>0. PICK c : c = Current
  OBVIOUS
<1> DEFINE r == UndoRedo(entries[c], buffer)
<1>1. Tree /\ session \in Sessions
  BY DEF EditorIInv
<1>2. PICK A : Where(A) /\ Remembers(A)
  BY DEF EditorIInv
<1>3. /\ c # 0 /\ c \in A /\ c \in Headers /\ parent[c] \in A \cup {0} /\ parent[c] < c
      /\ First(children[parent[c]]) = c
  BY <1>0, <1>1, <1>2, TreeFacts DEF Undo, Where
<1>4. /\ buffer' = r.text /\ entries' = [entries EXCEPT ![c] = r.entries] /\ nextRedo' = c
      /\ UNCHANGED <<parent, children, newest, last, seen>>
  BY <1>0 DEF Undo, Move
<1>5. Headers' = Headers /\ States' = States /\ Current' = parent[c] /\ \A n : Under(n)' = Under(n)
  BY <1>3, <1>4 DEF Headers, States, Current, Under
<1> DEFINE B == A \ {c}
<1>6. \A a \in A : parent[a] # c
  <2> SUFFICES ASSUME NEW a \in A, parent[a] = c PROVE FALSE
    OBVIOUS
  <2>1. First(children[c]) = a /\ nextRedo = a
    BY <1>0, <1>2 DEF Where
  <2>2. QED
    BY <1>2, <2>1 DEF Where
<1>7. Tree'
  BY <1>1, <1>4, <1>5 DEF Tree
<1>8. Where(B)'
  <2>1. newest' \in States /\ nextRedo' \in States /\ nextRedo' = First(children[parent[c]]) /\ nextRedo' \notin B
    BY <1>1, <1>2, <1>3, <1>4, TreeFacts DEF Where
  <2>2. Current' \in B \cup {Root}
    BY <1>1, <1>3, <1>5, TreeFacts
  <2>3. \A a \in B : parent[a] \in B \cup {Root} /\ First(children[parent[a]]) = a
    BY <1>2, <1>6 DEF Where
  <2>4. \A a \in B : a # parent[c] => First(children[a]) \in B
    <3> SUFFICES ASSUME NEW a \in B, a # parent[c] PROVE First(children[a]) \in B
      OBVIOUS
    <3>1. First(children[a]) \in A /\ a \in States
      BY <1>0, <1>1, <1>2, TreeFacts DEF Where
    <3>2. First(children[a]) # 0
      BY <1>1, <1>2, <3>1, TreeFacts DEF Where
    <3>3. parent[First(children[a])] = a
      BY <1>1, <3>1, <3>2, TreeFacts
    <3>4. QED
      BY <3>1, <3>3
  <2>5. B \subseteq Headers
    BY <1>2 DEF Where
  <2> HIDE DEF B
  <2>6. QED
    BY <1>4, <1>5, <2>1, <2>2, <2>3, <2>4, <2>5 DEF Where
<1>9. Remembers(B)'
  <2>1. buffer = seen[c] /\ MakesAll(entries[c], seen[c], seen[parent[c]])
    BY <1>0, <1>2, <1>3 DEF Remembers
  <2>2. r.text = seen[parent[c]] /\ MakesAll(r.entries, seen[parent[c]], seen[c])
    BY <2>1, MakesBack
  <2> HIDE DEF r
  <2>3. entries'[c] = r.entries /\ DOMAIN entries' = Headers /\ \A h \in Headers \ {c} : entries'[h] = entries[h]
    BY <1>2, <1>3, <1>4 DEF Remembers
  <2>4. \A h \in Headers : IF h \in B THEN MakesAll(entries'[h], seen[h], seen[parent[h]])
                                      ELSE MakesAll(entries'[h], seen[parent[h]], seen[h])
    BY <1>2, <2>2, <2>3 DEF Remembers
  <2>5. DOMAIN seen = States /\ \A n \in States : seen[n] \in Plain
    BY <1>2 DEF Remembers
  <2> HIDE DEF B
  <2>6. QED
    BY <1>4, <1>5, <2>2, <2>3, <2>4, <2>5 DEF Remembers
<1>10. QED
  BY <1>1, <1>7, <1>8, <1>9 DEF EditorIInv

LEMMA RedoIInv ==
    ASSUME EditorIInv, NEW h \in Headers, Redo(h), UNCHANGED session
    PROVE  EditorIInv'
<1> DEFINE c == Current
           row == children[c]
           r == UndoRedo(entries[h], buffer)
<1>1. Tree /\ session \in Sessions
  BY DEF EditorIInv
<1>2. PICK A : Where(A) /\ Remembers(A)
  BY DEF EditorIInv
<1>3. c \in A \cup {0} /\ c \in States /\ h # 0 /\ parent[h] = c /\ c < h /\ h \in Under(c)
  BY <1>1, <1>2, TreeFacts DEF Redo, Where
<1>4. /\ buffer' = r.text /\ entries' = [entries EXCEPT ![h] = r.entries]
      /\ children' = [children EXCEPT ![c] = <<h>> \o RemoveAt(row, Rank(h))]
      /\ nextRedo' = First(children[h]) /\ newest' = (IF Leaf(h) THEN h ELSE newest)
      /\ UNCHANGED <<parent, last, seen>>
  BY DEF Redo, Move
<1>5. h \notin A
  BY <1>2, <1>3 DEF Where
<1>6. Headers' = Headers /\ States' = States /\ \A n : Under(n)' = Under(n)
  BY <1>4 DEF Headers, States, Under
<1>7. IsRow(<<h>> \o RemoveAt(row, Rank(h)), Under(c)) /\ First(<<h>> \o RemoveAt(row, Rank(h))) = h
  <2>1. IsRow(row, Under(c))
    BY <1>1, <1>3 DEF Tree
  <2>2. DOMAIN row = 1..Len(row) /\ \E i \in DOMAIN row : row[i] = h
    BY <1>3, <2>1, RowFacts
  <2>3. Rank(h) \in 1..Len(row) /\ row[Rank(h)] = h
    BY <1>3, <2>2 DEF Rank
  <2> HIDE DEF row
  <2>4. IsRow(RemoveAt(row, Rank(h)), Under(c) \ {h})
    BY <2>1, <2>3, RowWithout
  <2>5. (Under(c) \ {h}) \cup {h} = Under(c)
    BY <1>3
  <2> DEFINE t == RemoveAt(row, Rank(h))
             S == Under(c) \ {h}
  <2>6. IsRow(t, S) /\ h \notin S
    BY <2>4
  <2> HIDE DEF t, S
  <2>7. IsRow(<<h>> \o t, S \cup {h}) /\ First(<<h>> \o t) = h
    BY <2>6, RowFront
  <2>8. QED
    BY <2>5, <2>7 DEF t, S
<1>8. /\ DOMAIN children' = States /\ First(children'[c]) = h /\ IsRow(children'[c], Under(c))
      /\ \A n \in States \ {c} : children'[n] = children[n]
  <2>1. DOMAIN children = States
    BY <1>1 DEF Tree
  <2>2. QED
    BY <1>3, <1>4, <1>7, <2>1
<1>9. Tree'
  <2>1. \A n \in States : IsRow(children'[n], Under(n))
    BY <1>1, <1>8 DEF Tree
  <2>2. QED
    BY <1>1, <1>4, <1>6, <1>8, <2>1 DEF Tree
<1>10. Current' = h /\ newest' \in States /\ nextRedo' \in States /\ nextRedo' = First(children'[h])
  <2>1. h \in States /\ h # c
    BY <1>1, <1>3, TreeFacts
  <2>2. children'[h] = children[h] /\ nextRedo' \in States
    BY <1>1, <1>4, <1>8, <2>1, TreeFacts
  <2>3. CASE Leaf(h)
    <3>1. nextRedo' = 0 /\ newest' = h
      BY <1>4, <2>3 DEF Leaf, First
    <3>2. QED
      BY <1>4, <2>1, <2>2, <3>1 DEF Current
  <2>4. CASE ~Leaf(h)
    <3>1. nextRedo' # 0 /\ parent[nextRedo'] = h /\ newest' \in States
      BY <1>1, <1>2, <1>4, <2>1, <2>4, TreeFacts DEF Leaf, Where
    <3>2. QED
      BY <1>4, <2>2, <3>1 DEF Current
  <2>5. QED
    BY <2>3, <2>4
<1> DEFINE B == A \cup {h}
<1>11. Where(B)'
  <2>1. nextRedo' \notin B
    <3>1. nextRedo' # 0 => parent[nextRedo'] = h /\ nextRedo' # h
      BY <1>1, <1>3, <1>4, TreeFacts, SMTT(30)
    <3>2. \A a \in A : parent[a] # h
      BY <1>2, <1>3, <1>5 DEF Where, Root
    <3>3. 0 \notin A
      BY <1>1, <1>2, TreeFacts DEF Where
    <3>4. QED
      BY <1>3, <3>1, <3>2, <3>3
  <2>2. Current' \in B \cup {Root} /\ B \subseteq Headers
    BY <1>2, <1>10 DEF Where
  <2>3. \A a \in B : parent[a] \in B \cup {Root} /\ First(children'[parent[a]]) = a
    <3>1. \A a \in A : parent[a] \in A \cup {Root} /\ First(children[parent[a]]) = a /\ parent[a] \in States
      BY <1>1, <1>2, TreeFacts DEF Where
    <3>2. \A a \in A : parent[a] # c
      BY <1>2, <3>1 DEF Where
    <3>3. QED
      BY <1>1, <1>3, <1>8, <3>1, <3>2, TreeFacts
  <2>4. \A a \in B : a # h => First(children'[a]) \in B
    <3> SUFFICES ASSUME NEW a \in A PROVE First(children'[a]) \in B
      OBVIOUS
    <3>1. CASE a = c
      BY <1>8, <3>1
    <3>2. CASE a # c
      <4>1. First(children[a]) \in A /\ a \in States
        BY <1>1, <1>2, <3>2, TreeFacts DEF Where
      <4>2. QED
        BY <1>8, <3>2, <4>1
    <3>3. QED
      BY <3>1, <3>2
  <2> HIDE DEF B
  <2>5. QED
    BY <1>4, <1>6, <1>10, <2>1, <2>2, <2>3, <2>4 DEF Where
<1>12. Remembers(B)'
  <2>1. buffer = seen[c] /\ MakesAll(entries[h], seen[c], seen[h])
    BY <1>2, <1>3, <1>5 DEF Remembers
  <2>2. r.text = seen[h] /\ MakesAll(r.entries, seen[h], seen[c])
    BY <2>1, MakesBack
  <2> HIDE DEF r
  <2>3. entries'[h] = r.entries /\ DOMAIN entries' = Headers /\ \A k \in Headers \ {h} : entries'[k] = entries[k]
    BY <1>2, <1>4 DEF Remembers
  <2>4. \A k \in Headers : IF k \in B THEN MakesAll(entries'[k], seen[k], seen[parent[k]])
                                      ELSE MakesAll(entries'[k], seen[parent[k]], seen[k])
    BY <1>2, <1>3, <2>2, <2>3 DEF Remembers
  <2>5. DOMAIN seen = States /\ \A n \in States : seen[n] \in Plain
    BY <1>2 DEF Remembers
  <2> HIDE DEF B
  <2>6. QED
    BY <1>4, <1>6, <1>10, <2>2, <2>3, <2>4, <2>5 DEF Remembers
<1>13. QED
  BY <1>1, <1>9, <1>11, <1>12 DEF EditorIInv

LEMMA BranchWithin ==
    ASSUME NEW h \in Headers, NEW S \in SUBSET Headers, h \in S,
           \A g \in Headers : parent[g] \in S => g \in S
    PROVE  Branch(h) \subseteq S
BY DEF Branch

LEMMA BranchFacts ==
    ASSUME Tree, NEW h \in Headers
    PROVE  /\ Branch(h) \subseteq Headers /\ h \in Branch(h)
           /\ \A g \in Headers : parent[g] \in Branch(h) => g \in Branch(h)
           /\ \A g \in Branch(h) \ {h} : parent[g] \in Branch(h)
           /\ \A g \in Branch(h) : h <= g
<1>1. Branch(h) \subseteq Headers /\ h \in Branch(h) /\ \A g \in Headers : parent[g] \in Branch(h) => g \in Branch(h)
  BY DEF Branch
<1>2. \A g \in Branch(h) \ {h} : parent[g] \in Branch(h)
  <2> DEFINE S == {h} \cup {g \in Branch(h) : parent[g] \in Branch(h)}
  <2>1. S \in SUBSET Headers /\ h \in S /\ S \subseteq Branch(h)
    BY <1>1
  <2>2. \A g \in Headers : parent[g] \in S => g \in S
    BY <1>1, <2>1
  <2>3. Branch(h) \subseteq S
    <3> HIDE DEF S
    <3>1. QED
      BY <2>1, <2>2, BranchWithin
  <2>4. QED
    BY <2>3
<1>3. \A g \in Branch(h) : h <= g
  <2> DEFINE S == {g \in Headers : h <= g}
  <2>0. h \in Nat /\ \A g \in Headers : g \in Nat /\ parent[g] < g /\ (parent[g] \in S => parent[g] \in Nat)
    BY TreeFacts
  <2>1. S \in SUBSET Headers /\ h \in S
    BY <2>0
  <2>2. \A g \in Headers : parent[g] \in S => g \in S
    BY <2>0
  <2>3. Branch(h) \subseteq S
    <3> HIDE DEF S
    <3>1. QED
      BY <2>1, <2>2, BranchWithin
  <2>4. QED
    BY <2>3
<1>4. QED
  BY <1>1, <1>2, <1>3

\* A branch that the buffer is not in has none of the headers above the buffer.
LEMMA BranchAside ==
    ASSUME Tree, NEW A, Where(A), NEW h \in Headers, h \notin A
    PROVE  Branch(h) \cap A = {}
<1>1. Headers \ A \in SUBSET Headers /\ h \in Headers \ A
  OBVIOUS
<1>2. \A g \in Headers : parent[g] \in Headers \ A => g \in Headers \ A
  <2>1. 0 \notin Headers /\ Root = 0
    BY TreeFacts
  <2>2. \A a \in A : parent[a] \in A \cup {Root}
    BY DEF Where
  <2>3. QED
    BY <2>1, <2>2
<1>3. Branch(h) \subseteq Headers \ A
  <2> DEFINE S == Headers \ A
  <2> HIDE DEF S
  <2>1. Branch(h) \subseteq S
    BY <1>1, <1>2, BranchWithin DEF S
  <2>2. QED
    BY <2>1 DEF S
<1>4. QED
  BY <1>3

\* Below the buffer's state no header is above it.
LEMMA NoneAboveIsBelow ==
    ASSUME Tree, NEW A, Where(A), NEW a \in A, Current # 0
    PROVE  parent[a] # Current
<1> SUFFICES ASSUME parent[a] = Current PROVE FALSE
  OBVIOUS
<1>1. First(children[Current]) = a /\ nextRedo = a
  BY DEF Where
<1>2. QED
  BY <1>1 DEF Where

LEMMA ForgetIInv ==
    ASSUME EditorIInv, Forget, UNCHANGED session
    PROVE  EditorIInv'
<1>0. PICK c : c = Current
  OBVIOUS
<1>1. Tree /\ session \in Sessions
  BY DEF EditorIInv
<1>2. PICK A : Where(A) /\ Remembers(A)
  BY DEF EditorIInv
<1>3. PICK p, G : p = parent[c] /\ G = Branch(c)
  OBVIOUS
<1> DEFINE K == Headers \ G
           B == A \ {c}
           keep(f) == [k \in DOMAIN f \ G |-> f[k]]
<1>4. /\ c # 0 /\ p # 0 /\ buffer' = UndoRedo(entries[c], buffer).text
      /\ parent' = keep(parent) /\ entries' = keep(entries)
      /\ children' = [keep(children) EXCEPT ![p] = Tail(@)]
      /\ seen' = keep(seen) /\ newest' = p /\ nextRedo' = First(children'[p])
      /\ last' = IF last = c THEN last - 1 ELSE last
  BY <1>0, <1>3 DEF Forget, Root
<1>5. /\ c \in A /\ c \in Headers /\ p \in A /\ p \in Headers /\ p < c
      /\ First(children[p]) = c /\ c \in Under(p) /\ c \in Nat
  BY <1>0, <1>1, <1>2, <1>3, <1>4, TreeFacts DEF Where, Root
<1>6. /\ G \subseteq Headers /\ c \in G
      /\ \A g \in Headers : parent[g] \in G => g \in G
      /\ \A g \in G \ {c} : parent[g] \in G
      /\ \A g \in G : c <= g
  BY <1>1, <1>3, <1>5, BranchFacts
<1>7. p \in K /\ c \notin K
  BY <1>1, <1>5, <1>6, TreeFacts
<1>8. \A a \in A : parent[a] # c
  BY <1>0, <1>1, <1>2, <1>4, NoneAboveIsBelow
<1>9. B \subseteq K
  <2> DEFINE S == {c} \cup (Headers \ A)
  <2>1. S \in SUBSET Headers /\ c \in S
    BY <1>5
  <2>2. \A g \in Headers : parent[g] \in S => g \in S
    <3> SUFFICES ASSUME NEW g \in Headers, parent[g] \in S, g \in A PROVE FALSE
      OBVIOUS
    <3>1. parent[g] \in A \cup {0} /\ parent[g] # c /\ parent[g] \in Headers
      BY <1>2, <1>8, <2>1 DEF Where, Root
    <3>2. QED
      BY <1>1, <3>1, TreeFacts
  <2>3. Branch(c) \subseteq S
    <3> HIDE DEF S
    <3>1. QED
      BY <1>5, <2>1, <2>2, BranchWithin
  <2>4. QED
    BY <1>2, <1>3, <2>3 DEF Where
<1>10. /\ Headers' = K /\ States' = K \cup {0} /\ \A k \in K : parent'[k] = parent[k] /\ parent'[k] \in K \cup {0}
       /\ K \subseteq Headers
  <2>1. DOMAIN parent' = K /\ \A k \in K : parent'[k] = parent[k]
    BY <1>4 DEF Headers
  <2>2. \A k \in K : parent[k] \in K \cup {0}
    BY <1>1, <1>6, TreeFacts
  <2>3. QED
    BY <2>1, <2>2 DEF Headers, States, Root
<1>11. /\ DOMAIN children' = K \cup {0} /\ \A n \in (K \cup {0}) \ {p} : children'[n] = children[n]
       /\ children'[p] = Tail(children[p])
  <2>1. DOMAIN children = Headers \cup {0} /\ 0 \notin G /\ p \in DOMAIN children
    BY <1>1, <1>5, <1>6, TreeFacts DEF Tree
  <2> DEFINE f == keep(children)
  <2>2. DOMAIN f = K \cup {0} /\ \A n \in K \cup {0} : f[n] = children[n]
    BY <2>1
  <2> HIDE DEF f
  <2>3. children' = [f EXCEPT ![p] = Tail(f[p])]
    BY <1>4 DEF f
  <2>4. QED
    BY <1>7, <2>2, <2>3
<1>12. /\ Under(p)' = Under(p) \ {c} /\ \A n \in (K \cup {0}) \ {p} : Under(n)' = Under(n)
  <2>1. \A n : Under(n)' = {k \in K : parent[k] = n}
    BY <1>10 DEF Under
  <2>2. \A n \in K \cup {0} : {k \in K : parent[k] = n} = Under(n) \ {c}
    <3> SUFFICES ASSUME NEW n \in K \cup {0}, NEW k \in Headers, parent[k] = n, k # c PROVE k \in K
      BY <1>7 DEF Under
    <3>1. n \notin G
      BY <1>1, <1>6, TreeFacts
    <3>2. QED
      BY <1>6, <3>1
  <2>3. \A n \in (K \cup {0}) \ {p} : c \notin Under(n)
    BY <1>3 DEF Under
  <2>4. QED
    BY <1>7, <2>1, <2>2, <2>3
<1>13. \A n \in K \cup {0} : IsRow(children'[n], Under(n)')
  <2>1. \A n \in States : IsRow(children[n], Under(n))
    BY <1>1 DEF Tree
  <2>2. \A n \in K \cup {0} : n \in States
    BY <1>1, <1>10, TreeFacts
  <2>3. IsRow(Tail(children[p]), Under(p) \ {c})
    <3>1. IsRow(children[p], Under(p)) /\ Under(p) # {}
      BY <1>5, <1>7, <2>1, <2>2
    <3>2. QED
      BY <1>5, <3>1, RowTail
  <2>4. QED
    BY <1>11, <1>12, <2>1, <2>2, <2>3
<1>14. Tree'
  <2>1. last' \in Nat /\ K \subseteq 1..last'
    <3>1. last \in Nat /\ Headers \subseteq 1..last
      BY <1>1 DEF Tree
    <3>2. CASE last = c
      <4>1. last' = last - 1 /\ \A k \in K : k \in 1..last /\ k # last
        BY <1>4, <1>7, <3>1, <3>2
      <4>2. last \in 1..last
        BY <1>5, <3>1, <3>2
      <4> HIDE DEF K
      <4>3. \A k \in K : k \in 1..last-1
        BY <3>1, <4>1
      <4>4. last - 1 \in Nat
        BY <3>1, <4>2
      <4>5. QED
        BY <4>1, <4>3, <4>4
    <3>3. CASE last # c
      BY <1>4, <3>1, <3>3
    <3>4. QED
      BY <3>2, <3>3
  <2>2. parent' \in [K -> K \cup {0}] /\ \A k \in K : parent'[k] < k
    <3>1. parent' = [k \in K |-> parent[k]]
      BY <1>4 DEF Headers
    <3>2. \A k \in K : parent[k] \in K \cup {0} /\ parent[k] < k
      BY <1>1, <1>10, TreeFacts
    <3>3. QED
      BY <3>1, <3>2
  <2> HIDE DEF K
  <2>3. QED
    BY <1>10, <1>11, <1>13, <2>1, <2>2 DEF Tree
<1>15. nextRedo' # 0 => nextRedo' \in K /\ parent[nextRedo'] = p /\ nextRedo' # c
  <2>1. IsRow(children'[p], Under(p) \ {c})
    BY <1>7, <1>12, <1>13
  <2>2. nextRedo' # 0 => nextRedo' \in Under(p) \ {c}
    BY <1>4, <2>1, RowFacts
  <2>3. Under(p) \ {c} \subseteq K
    BY <1>7, <1>10, <1>12 DEF Under
  <2>4. QED
    BY <2>2, <2>3 DEF Under
<1>16. Current' = p
  BY <1>4, <1>10, <1>15 DEF Current
<1>17. Where(B)'
  <2>1. newest' \in States' /\ nextRedo' \in States' /\ Current' \in B \cup {Root}
    BY <1>4, <1>5, <1>7, <1>10, <1>15, <1>16
  <2>2. nextRedo' \notin B
    <3> SUFFICES ASSUME nextRedo' \in A, nextRedo' # c PROVE FALSE
      OBVIOUS
    <3>1. nextRedo' # 0
      BY <1>1, <1>2, TreeFacts DEF Where
    <3>2. First(children[parent[nextRedo']]) = nextRedo'
      BY <1>2 DEF Where
    <3>3. QED
      BY <1>5, <1>15, <3>1, <3>2
  <2>3. \A a \in B : parent'[a] \in B \cup {Root} /\ First(children'[parent'[a]]) = a
    <3> SUFFICES ASSUME NEW a \in B PROVE parent[a] \in B \cup {Root} /\ First(children'[parent[a]]) = a
      BY <1>9, <1>10
    <3>1. parent[a] \in A \cup {Root} /\ First(children[parent[a]]) = a /\ parent[a] # c
      BY <1>2, <1>8 DEF Where
    <3>2. parent[a] # p
      BY <1>5, <3>1
    <3>3. parent[a] \in K \cup {0}
      BY <1>9, <1>10
    <3>4. QED
      BY <1>11, <3>1, <3>2, <3>3
  <2>4. \A a \in B : a # p => First(children'[a]) \in B
    <3> SUFFICES ASSUME NEW a \in B, a # p PROVE First(children'[a]) \in B
      OBVIOUS
    <3>1. First(children[a]) \in A /\ children'[a] = children[a] /\ a \in States
      BY <1>0, <1>1, <1>2, <1>9, <1>11, TreeFacts DEF Where
    <3>2. First(children[a]) # 0
      BY <1>1, <1>2, <3>1, TreeFacts DEF Where
    <3>3. parent[First(children[a])] = a
      BY <1>1, <3>1, <3>2, TreeFacts
    <3>4. QED
      BY <1>3, <3>1, <3>3
  <2> HIDE DEF B
  <2>5. QED
    BY <1>4, <1>9, <1>10, <1>16, <2>1, <2>2, <2>3, <2>4 DEF Where
<1>18. Remembers(B)'
  <2>1. /\ DOMAIN seen = States /\ \A n \in States : seen[n] \in Plain
        /\ buffer = seen[c] /\ DOMAIN entries = Headers
        /\ \A h \in Headers : IF h \in A THEN MakesAll(entries[h], seen[h], seen[parent[h]])
                                         ELSE MakesAll(entries[h], seen[parent[h]], seen[h])
    BY <1>0, <1>2 DEF Remembers
  <2>2. buffer' = seen[p]
    <3>1. MakesAll(entries[c], seen[c], seen[p])
      BY <1>3, <1>5, <2>1
    <3>2. QED
      BY <1>4, <2>1, <3>1, MakesBack
  <2>3. States \ G = K \cup {0}
    BY <1>1, <1>6, TreeFacts
  <2>4. DOMAIN seen' = K \cup {0} /\ \A n \in K \cup {0} : seen'[n] = seen[n]
    BY <1>4, <2>1, <2>3
  <2>5. DOMAIN entries' = K /\ \A h \in K : entries'[h] = entries[h]
    BY <1>4, <2>1
  <2>6. \A h \in K : h \in B <=> h \in A
    BY <1>7
  <2>7. \A n \in K \cup {0} : seen[n] \in Plain
    BY <2>1, <2>3
  <2> HIDE DEF K, B
  <2>8. \A h \in K : IF h \in B THEN MakesAll(entries'[h], seen'[h], seen'[parent'[h]])
                                ELSE MakesAll(entries'[h], seen'[parent'[h]], seen'[h])
    BY <1>10, <2>1, <2>4, <2>5, <2>6
  <2>9. buffer' = seen'[Current']
    BY <1>7, <1>16, <2>2, <2>4
  <2>10. QED
    BY <1>10, <2>4, <2>5, <2>7, <2>8, <2>9 DEF Remembers
<1>19. QED
  BY <1>1, <1>14, <1>17, <1>18 DEF EditorIInv

LEMMA AllStart ==
    ASSUME NEW S, NEW s, IsRow(s, S), NEW K, S \subseteq K PROVE Starts(s, K)
<1>1. Len(s) \in Nat /\ DOMAIN s = 1..Len(s) /\ \A i \in 1..Len(s) : s[i] \in S
  BY RowFacts
<1>2. Len(s) \in 0..Len(s) /\ \A i \in 1..Len(s) : i <= Len(s)
  BY <1>1
<1>3. QED
  BY <1>1, <1>2 DEF Starts

LEMMA NoneStart ==
    ASSUME NEW S, NEW s, IsRow(s, S), NEW K, S \cap K = {} PROVE Starts(s, K)
<1>1. Len(s) \in Nat /\ DOMAIN s = 1..Len(s) /\ \A i \in 1..Len(s) : s[i] \in S
  BY RowFacts
<1>2. 0 \in 0..Len(s) /\ \A i \in 1..Len(s) : ~(i <= 0)
  BY <1>1
<1>3. QED
  BY <1>1, <1>2 DEF Starts

\* What is left of a tree of which the headers outside K are freed: what hung
\* on the state o hangs on the root.
Prunes(K, o) ==
    /\ K \subseteq Headers /\ o \in States \ K
    /\ \A k \in K : parent[k] \in K \cup {o}
    /\ Current \in K \cup {o}
    /\ \A k \in Headers : parent[k] \in K => k \in K
    /\ \A n \in K \cup {o} : Starts(children[n], K)

Oldest == IF Freed = {First(children[Root])} THEN First(children[Root]) ELSE Root

LEMMA FreedPrunes ==
    ASSUME session \in Sessions, Tree, NEW A, Where(A)
    PROVE  Prunes(Headers \ Freed, Oldest)
<1> DEFINE R == children[Root]
           K == Headers \ Freed
<1>1. IsRow(R, Under(0)) /\ \A n \in States : IsRow(children[n], Under(n))
  BY TreeFacts DEF Tree
<1>2. /\ Root = 0 /\ 0 \in States /\ 0 \notin Headers /\ States = Headers \cup {0}
      /\ \A h \in Headers : h \in States /\ parent[h] \in States /\ h \in Under(parent[h])
      /\ \A n \in States : Under(n) \subseteq Headers
      /\ \A n, h : h \in Under(n) => parent[h] = n
  BY TreeFacts DEF Under
<1>3. Current \in States /\ (Current = 0 => nextRedo = First(R))
  BY <1>2 DEF Where
<1>4. CASE Cardinality(Headers) <= session.levels
  <2>1. Freed = {} /\ Oldest = 0 /\ K = Headers
    BY <1>2, <1>4 DEF Freed, Oldest
  <2>2. \A n \in States : Starts(children[n], Headers)
    BY <1>1, <1>2, AllStart
  <2>3. QED
    BY <1>2, <1>3, <2>1, <2>2 DEF Prunes
<1>5. CASE ~(Cardinality(Headers) <= session.levels)
  <2>1. Under(0) # {}
    <3>1. session.levels \in Nat /\ session.levels # 0
      BY EditorAssumption DEF SessionType
    <3>2. Headers # {}
      BY <1>5, <3>1, FS_EmptySet
    <3>3. PICK h \in Headers : \A g \in Headers : h <= g
      BY <3>2, TreeFacts, LeastNumber
    <3>4. parent[h] \in States /\ parent[h] < h /\ h \in Nat
      BY TreeFacts
    <3>5. parent[h] \notin Headers
      <4>1. parent[h] \in Nat
        BY <3>4, TreeFacts
      <4>2. QED
        BY <3>3, <3>4, <4>1
    <3>6. parent[h] = 0
      BY <1>2, <3>4, <3>5
    <3>7. QED
      BY <1>2, <3>6
  <2>2. /\ Len(R) \in Nat /\ DOMAIN R = 1..Len(R) /\ 1 \in 1..Len(R) /\ First(R) = R[1] /\ R[1] \in Under(0)
        /\ \A i \in 1..Len(R) : R[i] \in Under(0)
        /\ \A i, j \in 1..Len(R) : R[i] = R[j] => i = j
        /\ \A x \in Under(0) : \E i \in 1..Len(R) : R[i] = x
    BY <1>1, <2>1, RowFacts
  <2>3. R[1] \in Headers /\ R[1] # 0 /\ parent[R[1]] = 0
    BY <1>2, <2>2
  <2>4. CASE nextRedo = R[1]
    <3>1. Freed = Headers /\ K = {}
      BY <1>5, <2>4 DEF Freed
    <3>2. Oldest = 0
      <4>1. Headers # {R[1]}
        <5>1. session.levels \in Nat /\ session.levels >= 1
          BY EditorAssumption DEF SessionType
        <5>2. Cardinality({R[1]}) = 1
          BY FS_Singleton
        <5>3. QED
          BY <1>5, <5>1, <5>2
      <4>2. QED
        BY <1>2, <2>2, <3>1, <4>1 DEF Oldest
    <3>3. Current = 0
      BY <2>3, <2>4 DEF Current
    <3>4. Starts(R, {})
      BY <1>1, NoneStart
    <3>5. QED
      BY <1>2, <3>1, <3>2, <3>3, <3>4 DEF Prunes
  <2>5. CASE nextRedo # R[1] /\ Len(R) = 1
    <3> DEFINE o == R[1]
    <3>1. Freed = {o} /\ K = Headers \ {o} /\ Oldest = o
      BY <1>5, <2>2, <2>5 DEF Freed, Oldest
    <3>2. o \in States \ K /\ o \in Headers /\ parent[o] = 0 /\ K \subseteq Headers /\ 0 \notin K
      BY <1>2, <2>3, <3>1
    <3>3. \A k \in K : k # o /\ parent[k] \in K \cup {o}
      <4>1. \A i \in 1..Len(R) : i = 1
        BY <2>5
      <4>2. \A k \in Headers : parent[k] = 0 => k = o
        BY <1>2, <2>2, <4>1
      <4>3. QED
        BY <1>2, <3>1, <4>2
    <3>4. Current \in K \cup {o}
      BY <1>2, <1>3, <2>2, <2>5, <3>1
    <3>5. \A k \in Headers : parent[k] \in K => k \in K
      BY <3>1, <3>2
    <3> HIDE DEF o
    <3>6. \A n \in K \cup {o} : n \in States /\ Under(n) \subseteq K
      BY <1>2, <3>1, <3>2, TreeFacts
    <3> HIDE DEF K
    <3>7. \A n \in K \cup {o} : Starts(children[n], K)
      BY <1>1, <3>6, AllStart
    <3>8. Prunes(K, o)
      BY <3>2, <3>3, <3>4, <3>5, <3>7 DEF Prunes
    <3>9. QED
      BY <3>1, <3>8 DEF K
  <2>6. CASE nextRedo # R[1] /\ Len(R) # 1
    <3> DEFINE m == Len(R) - 1
               b == R[m + 1]
    <3>1. m \in Nat /\ m \in 0..Len(R) /\ m + 1 = Len(R) /\ m + 1 \in 1..Len(R) /\ m + 1 # 1
      BY <2>2, <2>6
    <3>2. b \in Headers /\ parent[b] = 0 /\ b # R[1] /\ Last(R) = b
      <4> HIDE DEF m
      <4>1. QED
        BY <1>2, <2>2, <3>1 DEF Last
    <3>3. Freed = Branch(b) /\ K = Headers \ Branch(b)
      BY <1>5, <2>6, <3>2 DEF Freed
    <3> HIDE DEF m, b
    <3>4. /\ b \in Branch(b) /\ Branch(b) \subseteq Headers
          /\ \A g \in Headers : parent[g] \in Branch(b) => g \in Branch(b)
          /\ \A g \in Branch(b) \ {b} : parent[g] \in Branch(b)
      BY <3>2, BranchFacts
    <3>5. Oldest = 0
      BY <1>2, <2>2, <3>2, <3>3, <3>4 DEF Oldest
    <3>6. b \notin A
      BY <1>2, <2>2, <3>2 DEF Where
    <3>7. Branch(b) \cap A = {}
      BY <3>2, <3>6, BranchAside
    <3>8. Current \in K \cup {0}
      BY <1>2, <3>3, <3>7 DEF Where
    <3>9. \A k \in K : parent[k] \in K \cup {0}
      BY <1>2, <3>3, <3>4
    <3>10. \A k \in Headers : parent[k] \in K => k \in K
      BY <1>2, <3>2, <3>3, <3>4
    <3>11. \A n \in K : Starts(children[n], K)
      <4>1. \A n \in K : n \in States /\ Under(n) \subseteq K
        BY <1>2, <3>3, <3>10, TreeFacts
      <4> HIDE DEF K
      <4>2. QED
        BY <1>1, <4>1, AllStart
    <3>12. Starts(R, K)
      <4>1. \A i \in 1..Len(R) : i <= m <=> i # m + 1
        BY <2>2, <3>1
      <4>2. \A i \in 1..Len(R) : i <= m <=> R[i] # b
        BY <2>2, <3>1, <4>1 DEF b
      <4>3. \A i \in 1..Len(R) : R[i] \in Headers /\ parent[R[i]] = 0
        BY <1>2, <2>2
      <4>4. \A i \in 1..Len(R) : R[i] # b => R[i] \notin Branch(b)
        BY <1>2, <3>4, <4>3
      <4>5. \A i \in 1..Len(R) : R[i] # b <=> R[i] \in K
        BY <3>3, <3>4, <4>3, <4>4
      <4> HIDE DEF R, K
      <4>6. \A i \in DOMAIN R : i <= m <=> R[i] \in K
        BY <2>2, <4>2, <4>5
      <4>7. QED
        BY <3>1, <4>6 DEF Starts
    <3>13. K \subseteq Headers /\ 0 \in States \ K
      BY <1>2, <3>3
    <3> HIDE DEF K
    <3>14. \A n \in K \cup {0} : Starts(children[n], K)
      BY <1>2, <3>11, <3>12
    <3>15. Prunes(K, 0)
      BY <3>8, <3>9, <3>10, <3>13, <3>14 DEF Prunes
    <3>16. QED
      BY <3>5, <3>15 DEF K
  <2>7. QED
    BY <2>4, <2>5, <2>6
<1>6. QED
  BY <1>4, <1>5

LEMMA ChangeIInv ==
    ASSUME EditorIInv, Change, UNCHANGED session
    PROVE  EditorIInv'
<1>1. Tree /\ session \in Sessions
  BY DEF EditorIInv
<1>2. PICK A : Where(A) /\ Remembers(A)
  BY DEF EditorIInv
<1>3. PICK K, o, h, x : K = Headers \ Freed /\ o = Oldest /\ h = last + 1 /\ x = Current
  OBVIOUS
<1> DEFINE from(n) == IF n = 0 THEN o ELSE n
           rooted(n) == IF n \in K THEN n ELSE 0
           left(n) == KeptOf(children[from(n)], K)
           here == rooted(x)
           B == (A \cap K) \cup {h}
<1>4. PICK c \in Changes(buffer, h) :
        /\ buffer' = c.text
        /\ entries' = [k \in K \cup {h} |-> IF k = h THEN c.entries ELSE entries[k]]
        /\ seen' = [k \in K \cup {0, h} |-> IF k = h THEN c.text ELSE seen[from(k)]]
  BY <1>3 DEF Change, Oldest, Root
<1>5. /\ parent' = [k \in K \cup {h} |-> IF k = h THEN here ELSE rooted(parent[k])]
      /\ children' = [n \in K \cup {0, h} |->
                        IF n = h THEN <<>> ELSE IF n = here THEN <<h>> \o left(n) ELSE left(n)]
      /\ last' = h /\ newest' = h /\ nextRedo' = 0
  BY <1>3 DEF Change, Oldest, Root
<1>6. /\ K \subseteq Headers /\ o \in States \ K
      /\ \A k \in K : parent[k] \in K \cup {o}
      /\ x \in K \cup {o}
      /\ \A k \in Headers : parent[k] \in K => k \in K
      /\ \A n \in K \cup {o} : Starts(children[n], K)
  BY <1>1, <1>2, <1>3, FreedPrunes DEF Prunes
<1>7. /\ 0 \notin K /\ h \notin Headers /\ h # 0 /\ h \in Nat /\ h \notin K /\ h \notin A
      /\ Headers \subseteq 1..h /\ here \in K \cup {0} /\ here # h /\ here < h
  <2>1. last \in Nat /\ Headers \subseteq 1..last
    BY <1>1 DEF Tree
  <2>2. 0 \notin Headers
    BY <1>1, TreeFacts
  <2>3. h \in Nat /\ h # 0 /\ h \notin 1..last /\ \A k \in 1..last : k \in 1..h /\ k < h
    BY <1>3, <2>1
  <2>4. A \subseteq Headers
    BY <1>2 DEF Where
  <2>5. here \in K \cup {0}
    OBVIOUS
  <2> HIDE DEF here
  <2>6. here = 0 \/ here \in 1..last
    BY <1>6, <2>1, <2>5
  <2>7. here < h
    BY <2>3, <2>6
  <2>8. QED
    BY <1>6, <2>1, <2>2, <2>3, <2>4, <2>5, <2>7
<1>8. /\ Headers' = K \cup {h} /\ States' = K \cup {0, h} /\ Current' = h
      /\ parent'[h] = here /\ \A k \in K : parent'[k] = rooted(parent[k])
  BY <1>5, <1>7 DEF Headers, States, Root, Current
<1>9. /\ DOMAIN children' = K \cup {0, h} /\ children'[h] = <<>>
      /\ \A n \in K \cup {0} : children'[n] = IF n = here THEN <<h>> \o left(n) ELSE left(n)
  BY <1>5, <1>7
<1>10. \A k \in K, n \in K \cup {0} : rooted(parent[k]) = n <=> parent[k] = from(n)
  BY <1>6, <1>7
<1>11. \A n \in K \cup {0} : from(n) \in K \cup {o} /\ from(n) \in States
  BY <1>1, <1>6, <1>7, TreeFacts
<1>12. \A n \in K \cup {0} : Under(n)' = (Under(from(n)) \cap K) \cup (IF n = here THEN {h} ELSE {})
  <2> SUFFICES ASSUME NEW n \in K \cup {0}
               PROVE  Under(n)' = (Under(from(n)) \cap K) \cup (IF n = here THEN {h} ELSE {})
    OBVIOUS
  <2>1. Under(n)' = {k \in K \cup {h} : parent'[k] = n}
    BY <1>8 DEF Under
  <2>2. parent'[h] = n <=> n = here
    BY <1>8
  <2>3. \A k \in K : parent'[k] = n <=> k \in Under(from(n))
    BY <1>6, <1>8, <1>10 DEF Under
  <2> HIDE DEF here, from
  <2>4. QED
    BY <1>7, <2>1, <2>2, <2>3
<1>13. \A n \in K \cup {0} : /\ IsRow(left(n), Under(from(n)) \cap K)
                             /\ First(children[from(n)]) \in K => First(left(n)) = First(children[from(n)])
  <2> SUFFICES ASSUME NEW n \in K \cup {0}
               PROVE  /\ IsRow(left(n), Under(from(n)) \cap K)
                      /\ First(children[from(n)]) \in K => First(left(n)) = First(children[from(n)])
    OBVIOUS
  <2>1. IsRow(children[from(n)], Under(from(n))) /\ Starts(children[from(n)], K)
    BY <1>1, <1>6, <1>11 DEF Tree
  <2> HIDE DEF from
  <2>2. QED
    BY <2>1, RowKept
<1>14. \A n \in K \cup {0} : IsRow(children'[n], Under(n)') /\ (n = here => First(children'[n]) = h)
  <2> SUFFICES ASSUME NEW n \in K \cup {0}
               PROVE  IsRow(children'[n], Under(n)') /\ (n = here => First(children'[n]) = h)
    OBVIOUS
  <2> DEFINE S == Under(from(n)) \cap K
             s == left(n)
  <2>1. IsRow(s, S) /\ h \notin S
    BY <1>7, <1>13
  <2>2. Under(n)' = S \cup (IF n = here THEN {h} ELSE {}) /\ children'[n] = IF n = here THEN <<h>> \o s ELSE s
    BY <1>9, <1>12
  <2> HIDE DEF S, s, here
  <2>3. IsRow(<<h>> \o s, S \cup {h}) /\ First(<<h>> \o s) = h
    BY <2>1, RowFront
  <2>4. S \cup {} = S
    OBVIOUS
  <2>5. QED
    BY <2>1, <2>2, <2>3, <2>4
<1>15. Under(h)' = {} /\ IsRow(children'[h], Under(h)')
  <2>1. \A k \in K \cup {h} : parent'[k] # h
    BY <1>7, <1>8
  <2>2. Under(h)' = {}
    BY <1>8, <2>1 DEF Under
  <2>3. IsRow(<<>>, {})
    BY EmptySeq DEF IsRow, Once, Elements
  <2>4. QED
    BY <1>9, <2>2, <2>3
<1>16. Tree'
  <2>1. parent' \in [K \cup {h} -> K \cup {0, h}]
    <3>1. \A k \in K : rooted(parent[k]) \in K \cup {0, h}
      OBVIOUS
    <3>2. QED
      BY <1>5, <1>7, <3>1
  <2>2. \A k \in K \cup {h} : parent'[k] < k
    <3>1. \A k \in K : rooted(parent[k]) < k
      <4>1. \A k \in K : parent[k] < k /\ 0 < k
        BY <1>1, <1>6, TreeFacts DEF Tree
      <4>2. QED
        BY <4>1
    <3>2. QED
      BY <1>7, <1>8, <3>1
  <2>3. last' \in Nat /\ K \cup {h} \subseteq 1..last'
    BY <1>5, <1>6, <1>7
  <2>4. \A n \in K \cup {0, h} : IsRow(children'[n], Under(n)')
    BY <1>14, <1>15
  <2> HIDE DEF here
  <2>5. QED
    BY <1>8, <1>9, <2>1, <2>2, <2>3, <2>4 DEF Tree
<1>17. Where(B)'
  <2>1. newest' \in States' /\ nextRedo' \in States' /\ Current' \in B \cup {Root}
    BY <1>5, <1>8
  <2>2. nextRedo' = First(children'[Current']) /\ nextRedo' \notin B
    BY <1>5, <1>7, <1>8, <1>9 DEF First
  <2>3. B \subseteq Headers'
    BY <1>8
  <2>4. x \in A \cup {0} /\ \A a \in A : /\ parent[a] \in A \cup {0} /\ First(children[parent[a]]) = a
                                         /\ parent[a] # x
    BY <1>2, <1>3 DEF Where, Root
  <2>5. here \in B \cup {0} /\ First(children'[here]) = h
    BY <1>7, <1>14, <2>4
  <2>6. ASSUME NEW a \in A \cap K
        PROVE  parent'[a] \in B \cup {0} /\ First(children'[parent'[a]]) = a
    <3>1. parent[a] \in K \cup {o} /\ parent'[a] = rooted(parent[a]) /\ parent'[a] \in K \cup {0}
      BY <1>6, <1>8
    <3>2. from(parent'[a]) = parent[a]
      BY <1>10, <3>1
    <3>3. parent'[a] # here
      <4>1. from(here) = x
        BY <1>6, <1>7
      <4> HIDE DEF from, here
      <4>2. QED
        BY <2>4, <3>2, <4>1
    <3>4. children'[parent'[a]] = left(parent'[a])
      BY <1>9, <3>1, <3>3
    <3>5. First(left(parent'[a])) = a
      <4>1. First(children[from(parent'[a])]) = a
        BY <2>4, <3>2
      <4> HIDE DEF left, from
      <4>2. QED
        BY <1>13, <3>1, <4>1
    <3>6. QED
      BY <2>4, <3>1, <3>4, <3>5
  <2>7. ASSUME NEW a \in A \cap K PROVE First(children'[a]) \in B
    <3>1. CASE a = here
      BY <1>14, <3>1
    <3>2. CASE a # here
      <4>1. a # x
        BY <3>2
      <4>2. First(children[a]) \in A /\ a \in States
        BY <1>1, <1>2, <1>3, <4>1, TreeFacts DEF Where
      <4>3. First(children[a]) # 0
        BY <1>1, <1>2, <4>2, TreeFacts DEF Where
      <4>4. parent[First(children[a])] = a /\ First(children[a]) \in Headers
        BY <1>1, <4>2, <4>3, TreeFacts
      <4>5. First(children[a]) \in K /\ from(a) = a /\ children'[a] = left(a)
        BY <1>6, <1>7, <1>9, <3>2, <4>4
      <4> HIDE DEF left
      <4>6. QED
        BY <1>13, <4>2, <4>5
    <3>3. QED
      BY <3>1, <3>2
  <2>8. \A a \in B : parent'[a] \in B \cup {Root} /\ First(children'[parent'[a]]) = a
    BY <1>8, <2>5, <2>6 DEF Root
  <2>9. \A a \in B : a # Current' => First(children'[a]) \in B
    BY <1>8, <2>7
  <2> HIDE DEF B
  <2>10. QED
    BY <2>1, <2>2, <2>3, <2>8, <2>9 DEF Where
<1>18. Remembers(B)'
  <2>1. /\ \A n \in States : seen[n] \in Plain
        /\ buffer = seen[x]
        /\ \A k \in Headers : IF k \in A THEN MakesAll(entries[k], seen[k], seen[parent[k]])
                                         ELSE MakesAll(entries[k], seen[parent[k]], seen[k])
    BY <1>2, <1>3 DEF Remembers
  <2>2. x \in States /\ buffer \in Plain
    BY <1>1, <1>6, <2>1, TreeFacts
  <2>3. c.text \in Plain /\ MakesAll(c.entries, c.text, buffer)
    BY <1>7, <2>2, ChangesMake
  <2>4. /\ DOMAIN seen' = K \cup {0, h} /\ seen'[h] = c.text
        /\ \A n \in K \cup {0} : seen'[n] = seen[from(n)]
    BY <1>4, <1>7
  <2>5. DOMAIN entries' = K \cup {h} /\ entries'[h] = c.entries /\ \A k \in K : entries'[k] = entries[k]
    BY <1>4, <1>7
  <2>6. seen'[here] = buffer
    <3>1. from(here) = x
      BY <1>6, <1>7
    <3> HIDE DEF from, here
    <3>2. QED
      BY <1>7, <2>1, <2>4, <3>1
  <2>7. \A k \in K : seen'[k] = seen[k] /\ seen'[parent'[k]] = seen[parent[k]]
    <3> SUFFICES ASSUME NEW k \in K PROVE seen'[k] = seen[k] /\ seen'[parent'[k]] = seen[parent[k]]
      OBVIOUS
    <3>1. from(k) = k /\ parent'[k] \in K \cup {0} /\ from(parent'[k]) = parent[k]
      BY <1>7, <1>8, <1>10
    <3> HIDE DEF from
    <3>2. QED
      BY <2>4, <3>1
  <2>8. \A n \in K \cup {0, h} : seen'[n] \in Plain
    <3> HIDE DEF from
    <3>1. QED
      BY <1>11, <2>1, <2>3, <2>4
  <2>9. \A k \in K : k \in B <=> k \in A
    BY <1>7
  <2>10. h \in B
    OBVIOUS
  <2> HIDE DEF B, here, from, rooted
  <2>11. \A k \in K \cup {h} : IF k \in B THEN MakesAll(entries'[k], seen'[k], seen'[parent'[k]])
                                          ELSE MakesAll(entries'[k], seen'[parent'[k]], seen'[k])
    <3>1. MakesAll(entries'[h], seen'[h], seen'[parent'[h]])
      BY <1>8, <2>3, <2>4, <2>5, <2>6
    <3>2. \A k \in K : IF k \in B THEN MakesAll(entries'[k], seen'[k], seen'[parent'[k]])
                                  ELSE MakesAll(entries'[k], seen'[parent'[k]], seen'[k])
      BY <1>6, <2>1, <2>5, <2>7, <2>9
    <3>3. QED
      BY <2>10, <3>1, <3>2
  <2>12. buffer' = seen'[Current']
    BY <1>4, <1>8, <2>4
  <2>13. QED
    BY <1>8, <2>4, <2>5, <2>8, <2>11, <2>12 DEF Remembers
<1>19. QED
  BY <1>1, <1>16, <1>17, <1>18 DEF EditorIInv

LEMMA EditorIInvNext == ASSUME EditorIInv, EditorNext PROVE EditorIInv'
BY UndoIInv, RedoIInv, ForgetIInv, ChangeIInv DEF EditorNext

LEMMA EditorIInvStays == ASSUME EditorIInv, UNCHANGED editorVars PROVE EditorIInv'
<1>1. /\ UNCHANGED <<session, buffer, parent, children, entries, newest, nextRedo, last, seen>>
      /\ Headers' = Headers /\ States' = States /\ Current' = Current /\ \A n : Under(n)' = Under(n)
  BY DEF editorVars, Headers, States, Current, Under
<1>2. Tree' /\ session' \in Sessions
  BY <1>1 DEF EditorIInv, Tree
<1>3. PICK A : Where(A) /\ Remembers(A)
  BY DEF EditorIInv
<1>4. Where(A)' /\ Remembers(A)'
  BY <1>1, <1>3 DEF Where, Remembers
<1>5. QED
  BY <1>2, <1>4 DEF EditorIInv

-----------------------------------------------------------------------------
(* The file the editor writes.                                              *)

\* The file has the tree of the editor.
LEMMA WrittenTree ==
    ASSUME EditorIInv, file = Written
    PROVE  /\ AnyFile /\ 0 \notin Sequences
           /\ Sequences = Headers /\ Nodes = States
           /\ Cardinality(Sequences) = Len(file.records)
           /\ \A i \in DOMAIN file.records : file.records[i].save = NoSave
           /\ \A h \in Headers : NodeInfo(h) = Serialized(h)
           /\ file.oldest = First(children[0]) /\ file.newest = newest /\ file.nextRedo = nextRedo
           /\ file.last = last /\ file.timeline = Current
<1> DEFINE listed == SetToSeq(Headers)
           records == [i \in DOMAIN listed |-> Serialized(listed[i])]
<1>1. Tree /\ Headers \subseteq Nat /\ 0 \notin Headers /\ last \in Nat /\ IsFiniteSet(Headers)
  <2>1. Tree
    BY DEF EditorIInv
  <2>2. IsFiniteSet(1..last) /\ Headers \subseteq 1..last /\ last \in Nat
    BY <2>1, FS_Interval DEF Tree
  <2>3. IsFiniteSet(Headers)
    BY <2>2, FS_Subset
  <2>4. QED
    BY <2>1, <2>2, <2>3, TreeFacts
<1>2. IsRow(listed, Headers)
  BY <1>1, ListingIsRow
<1>3. PICK n \in Nat : n = Len(listed) /\ DOMAIN listed = 1..n
  BY <1>2, RowFacts
<1>4. /\ \A i \in 1..n : listed[i] \in Headers
      /\ \A i, j \in 1..n : listed[i] = listed[j] => i = j
      /\ \A h \in Headers : \E i \in 1..n : listed[i] = h
  BY <1>2, <1>3, RowFacts
<1>5. /\ file.records = records
      /\ file.oldest = First(children[0]) /\ file.newest = newest /\ file.nextRedo = nextRedo
      /\ file.last = last /\ file.timeline = Current
  BY DEF Written, Root
<1>6. Cardinality(Headers) = n
  BY <1>2, <1>3, AsManyAsElements DEF IsRow
<1> HIDE DEF listed
<1>7. DOMAIN records = 1..n /\ \A i \in 1..n : records[i] = Serialized(listed[i])
  BY <1>3
<1>8. Len(records) = n
  <2> DEFINE S == {Serialized(listed[i]) : i \in 1..n}
  <2>1. records = [i \in 1..n |-> Serialized(listed[i])]
    BY <1>3
  <2>2. records \in [1..n -> S]
    BY <2>1
  <2> HIDE DEF records, S
  <2>3. records \in Seq(S)
    BY <2>2, IsASeq
  <2>4. Len(records) \in Nat /\ DOMAIN records = 1..Len(records)
    BY <2>3, LenProperties
  <2>5. QED
    BY <1>7, <2>4, SameLength
<1>9. \A h : Serialized(h).sequence = h /\ Serialized(h).save = NoSave
  BY DEF Serialized
<1> HIDE DEF records
<1>10. Sequences = Headers
  <2>1. Sequences = {records[i].sequence : i \in 1..n}
    BY <1>5, <1>7 DEF Sequences
  <2>2. \A i \in 1..n : records[i].sequence = listed[i]
    BY <1>7, <1>9
  <2>3. QED
    BY <1>4, <2>1, <2>2
<1>11. ASSUME NEW h \in Headers PROVE NodeInfo(h) = Serialized(h)
  <2> DEFINE i == CHOOSE k \in 1..n : records[k].sequence = h
  <2>1. \E k \in 1..n : records[k].sequence = h
    BY <1>4, <1>7, <1>9
  <2>2. i \in 1..n /\ records[i].sequence = h
    BY <2>1
  <2>3. NodeInfo(h) = records[i]
    BY <1>1, <1>5, <1>7 DEF NodeInfo
  <2> HIDE DEF i
  <2>4. QED
    BY <1>7, <1>9, <2>2, <2>3
<1>12. AnyFile
  <2>1. \A i \in 1..n : records[i].sequence \in Nat
    <3>1. \A i \in 1..n : listed[i] \in Nat
      BY <1>1, <1>4
    <3>2. \A i \in 1..n : records[i].sequence = listed[i]
      BY <1>7, <1>9
    <3>3. QED
      BY <3>1, <3>2
  <2>2. QED
    BY <1>1, <1>5, <1>7, <1>8, <2>1 DEF AnyFile
<1>13. Nodes = States
  BY <1>10 DEF Nodes, States, Root
<1>14. \A i \in DOMAIN file.records : file.records[i].save = NoSave
  BY <1>5, <1>7, <1>9
<1>15. QED
  BY <1>1, <1>5, <1>6, <1>8, <1>10, <1>11, <1>12, <1>13, <1>14

\* What it says of a state, in the editor's terms.
LEMMA WrittenLinks ==
    ASSUME EditorIInv, file = Written
    PROVE  /\ Parent(0) = 0 /\ \A h \in Headers : Parent(h) = parent[h]
           /\ \A n \in States : NodeInfo(n).preferred = First(children[n]) /\ Children(n) = Under(n)
           /\ \A h \in Headers : Entries(h) = entries[h]
           /\ \A n \in States : \E s \in SetToSeqs(Children(n)) : LinkedAs(n, s)
<1>1. Tree /\ Root = 0 /\ States = Headers \cup {0} /\ 0 \notin Headers
  BY TreeFacts DEF EditorIInv
<1>2. /\ \A h \in Headers : NodeInfo(h) = Serialized(h)
      /\ Sequences = Headers /\ file.oldest = First(children[0])
  BY WrittenTree
<1>3. /\ NodeInfo(0).parent = 0 /\ NodeInfo(0).preferred = First(children[0])
  BY <1>2 DEF NodeInfo
<1>4. \A h : /\ Serialized(h).parent = parent[h] /\ Serialized(h).preferred = First(children[h])
             /\ Serialized(h).next = Sibling(h, 1) /\ Serialized(h).previous = Sibling(h, -1)
             /\ Serialized(h).entries = entries[h]
  BY DEF Serialized
<1>5. \A h \in Headers : Parent(h) = parent[h] /\ Entries(h) = entries[h]
  BY <1>2, <1>4 DEF Parent, Entries
<1>6. Parent(0) = 0
  BY <1>3 DEF Parent
<1>7. \A n \in States : NodeInfo(n).preferred = First(children[n])
  BY <1>1, <1>2, <1>3, <1>4
<1>8. \A n \in States : Children(n) = Under(n)
  BY <1>2, <1>5 DEF Children, Under
<1>9. ASSUME NEW n \in States PROVE \E s \in SetToSeqs(Children(n)) : LinkedAs(n, s)
  <2> DEFINE s == children[n]
  <2>1. IsRow(s, Under(n))
    BY <1>1 DEF Tree
  <2>2. s \in SetToSeqs(Children(n))
    BY <1>8, <2>1, RowIsListing
  <2>3. /\ Len(s) \in Nat /\ DOMAIN s = 1..Len(s)
        /\ \A i \in 1..Len(s) : s[i] \in Under(n)
        /\ \A i, j \in 1..Len(s) : s[i] = s[j] => i = j
    BY <2>1, RowFacts
  <2>4. ASSUME NEW i \in 1..Len(s)
        PROVE  /\ NodeInfo(s[i]).previous = (IF i = 1 THEN 0 ELSE s[i-1])
               /\ NodeInfo(s[i]).next = (IF i = Len(s) THEN 0 ELSE s[i+1])
    <3>1. s[i] \in Headers /\ parent[s[i]] = n
      BY <2>3 DEF Under
    <3>2. Rank(s[i]) = i
      <4>1. Rank(s[i]) = CHOOSE j \in 1..Len(s) : s[j] = s[i]
        BY <2>3, <3>1 DEF Rank
      <4>2. QED
        BY <2>3, <4>1
    <3>3. /\ Sibling(s[i], -1) = (IF i + (-1) \in 1..Len(s) THEN s[i + (-1)] ELSE 0)
          /\ Sibling(s[i], 1) = (IF i + 1 \in 1..Len(s) THEN s[i + 1] ELSE 0)
      BY <2>3, <3>1, <3>2 DEF Sibling
    <3>4. /\ i + (-1) = i - 1 /\ (i - 1 \in 1..Len(s) <=> i # 1)
          /\ (i + 1 \in 1..Len(s) <=> i # Len(s))
      BY <2>3
    <3> HIDE DEF s
    <3>5. QED
      BY <1>2, <1>4, <3>1, <3>3, <3>4
  <2>5. NodeInfo(n).preferred = (IF s = <<>> THEN 0 ELSE s[1])
    BY <1>7 DEF First
  <2>6. LinkedAs(n, s)
    <3> HIDE DEF s
    <3>1. QED
      BY <2>3, <2>4, <2>5 DEF LinkedAs
  <2>7. QED
    BY <2>2, <2>6
<1>10. QED
  BY <1>5, <1>6, <1>7, <1>8, <1>9

\* Its entries are entries, whichever way they are written.
LEMMA WrittenEntries ==
    ASSUME EditorIInv, file = Written
    PROVE  AnyEntries /\ \A h \in Headers : entries[h] \in Seq(PlainEntry)
<1>1. PICK A : Remembers(A)
  BY DEF EditorIInv
<1>2. \A h \in Headers : entries[h] \in Seq(PlainEntry)
  BY <1>1 DEF Remembers, MakesAll
<1>3. PlainEntry \subseteq EntryType
  <2>1. Line \cup {EmptyLine} = Nat
    BY PlainTexts
  <2>2. QED
    BY <2>1 DEF PlainEntry, EntryType
<1>4. ASSUME NEW s \in Seq(PlainEntry) PROVE s \in Seq(EntryType)
  <2>1. s \in [1..Len(s) -> PlainEntry] /\ Len(s) \in Nat
    BY LenProperties
  <2>2. s \in [1..Len(s) -> EntryType]
    BY <1>3, <2>1
  <2>3. QED
    BY <2>1, <2>2, IsASeq
<1>5. QED
  BY <1>2, <1>4, WrittenTree, WrittenLinks DEF AnyEntries

\* Its records pass the checks of their numbers and of their links.
LEMMA WrittenIsLinked ==
    ASSUME EditorIInv, file = Written
    PROVE  /\ AnyFile /\ Indexed /\ Linked /\ 0 \notin Sequences
           /\ Sequences = Headers /\ Nodes = States
<1>1. /\ AnyFile /\ 0 \notin Sequences /\ Sequences = Headers /\ Nodes = States
      /\ Cardinality(Sequences) = Len(file.records) /\ file.last = last
      /\ \A i \in DOMAIN file.records : file.records[i].save = NoSave
  BY WrittenTree
<1>2. Tree
  BY DEF EditorIInv
<1>3. Sequences \subseteq 1..file.last
  BY <1>1, <1>2 DEF Tree
<1>4. Indexed
  BY <1>1, <1>3, IndexedIs
<1>5. \A id \in Sequences : Parent(id) \in Nodes /\ Parent(id) < id
  <2>1. \A h \in Headers : Parent(h) = parent[h] /\ parent[h] \in States /\ parent[h] < h
    BY <1>2, TreeFacts, WrittenLinks
  <2>2. QED
    BY <1>1, <2>1
<1>6. Linked
  <2>1. \A id \in Nodes : \E s \in SetToSeqs(Children(id)) : LinkedAs(id, s)
    BY <1>1, WrittenLinks
  <2>2. QED
    BY <1>1, <1>5, <2>1, OrderedIsLinked
<1>7. QED
  BY <1>1, <1>4, <1>6

\* The headers above the position of the file are those above the buffer.
LEMMA AboveTheBuffer ==
    ASSUME EditorIInv, file = Written, NEW A, Where(A)
    PROVE  Above(Current) = A
<1>1. /\ AnyFile /\ Indexed /\ Linked /\ Sequences = Headers /\ Nodes = States
  BY WrittenIsLinked
<1>2. Tree /\ \A h \in Headers : Parent(h) = parent[h]
  BY WrittenLinks DEF EditorIInv
<1>3. PICK c : c = Current
  OBVIOUS
<1>4. /\ c \in A \cup {0} /\ A \subseteq Headers
      /\ \A a \in A : parent[a] \in A \cup {0} /\ parent[a] < a
      /\ \A a \in A : a # c => First(children[a]) \in A /\ parent[First(children[a])] = a
  <2>1. /\ c \in A \cup {0} /\ A \subseteq Headers
        /\ \A a \in A : parent[a] \in A \cup {0}
        /\ \A a \in A : a # c => First(children[a]) \in A
    BY <1>3 DEF Where, Root
  <2>2. \A a \in A : a # c => parent[First(children[a])] = a
    BY <1>2, <2>1, TreeFacts
  <2>3. QED
    BY <1>2, <2>1, <2>2, TreeFacts
<1>5. /\ Headers \subseteq Nat /\ 0 \notin Headers /\ last \in Nat /\ \A h \in Headers : h <= last
      /\ \A h \in Headers : parent[h] \in States /\ h \in States /\ parent[h] \in Nat
  BY <1>2, TreeFacts DEF Tree
<1>6. /\ Above(0) = {}
      /\ \A h \in Headers : Above(h) = {h} \cup Above(parent[h])
      /\ \A n \in States : \A a \in Above(n) : Above(a) \subseteq Above(n)
  BY <1>1, <1>2, Ancestors
<1>7. c \in States
  BY <1>4, TreeFacts, <1>2
<1> HIDE DEF Headers, States
<1>8. Above(c) \subseteq A
  <2> DEFINE S == {n \in Nat : \A x \in A \cup {0} : x <= n => Above(x) \subseteq A}
  <2>1. 0 \in S
    BY <1>4, <1>5, <1>6
  <2>2. ASSUME NEW n \in Nat, n \in S PROVE n + 1 \in S
    <3> SUFFICES ASSUME NEW x \in A, x <= n + 1 PROVE Above(x) \subseteq A
      BY <1>6
    <3>1. parent[x] \in A \cup {0} /\ parent[x] \in Nat /\ parent[x] <= n
      BY <1>4, <1>5
    <3>2. Above(parent[x]) \subseteq A
      BY <2>2, <3>1
    <3>3. QED
      BY <1>4, <1>6, <3>2
  <2>3. Nat \subseteq S
    <3> HIDE DEF S
    <3>1. QED
      BY <2>1, <2>2, SetInduction
  <2>4. c \in Nat /\ c <= c
    BY <1>4, <1>5
  <2>5. QED
    BY <1>4, <2>3, <2>4
<1>9. A \subseteq Above(c)
  <2> DEFINE B == A \ Above(c)
             Z == {last - b : b \in B}
  <2> SUFFICES ASSUME B # {} PROVE FALSE
    OBVIOUS
  <2>1. Z \in SUBSET Nat /\ Z # {}
    <3>1. \A b \in B : last - b \in Nat
      BY <1>4, <1>5
    <3>2. QED
      BY <3>1
  <2>2. PICK z \in Z : \A y \in Z : z <= y
    <3> HIDE DEF Z
    <3>1. QED
      BY <2>1, LeastNumber
  <2>3. PICK b \in B : z = last - b
    BY <2>2
  <2>4. \A x \in B : x <= b
    <3> TAKE x \in B
    <3>1. last - x \in Z /\ x \in Nat /\ b \in Nat
      BY <1>4, <1>5
    <3>2. last - b <= last - x
      BY <2>2, <2>3, <3>1
    <3>3. QED
      BY <1>5, <3>1, <3>2
  <2>5. b # c
    BY <1>4, <1>6
  <2>6. PICK d \in A : parent[d] = b
    BY <1>4, <2>5
  <2>7. b < d /\ b \in Nat /\ d \in Nat
    BY <1>4, <1>5, <2>6
  <2>8. d \in Above(c)
    BY <2>4, <2>7
  <2>9. b \in Above(d)
    <3>1. b \in Above(b) /\ Above(d) = {d} \cup Above(b)
      BY <1>4, <1>6, <2>6
    <3>2. QED
      BY <3>1
  <2>10. QED
    BY <1>6, <1>7, <2>8, <2>9
<1>10. QED
  BY <1>3, <1>8, <1>9

\* The preferred path goes through the buffer's state to the next redo.
LEMMA PathToTheBuffer ==
    ASSUME EditorIInv, file = Written, NEW A, Where(A)
    PROVE  A \cup {0, nextRedo} \subseteq PreferredPath
<1> DEFINE W == A \cup {0, nextRedo}
           up(x) == {y \in W : y <= x}
           n == Cardinality(Nodes)
<1>1. /\ AnyFile /\ Linked /\ Nodes = States /\ Tree
      /\ \A x \in States : NodeInfo(x).preferred = First(children[x])
      /\ \A h \in Headers : Parent(h) = parent[h]
  BY WrittenIsLinked, WrittenLinks DEF EditorIInv
<1>2. PICK f : IsPath(f) /\ PreferredPath = f[n]
  BY <1>1, PathExists
<1>3. PICK c : c = Current
  OBVIOUS
<1>4. /\ W \subseteq States /\ c \in W
      /\ \A x \in W \ {0} : parent[x] \in W /\ parent[x] < x /\ First(children[parent[x]]) = x
  <2>1. /\ c \in A \cup {0} /\ A \subseteq Headers /\ nextRedo = First(children[c]) /\ nextRedo \in States
        /\ \A a \in A : parent[a] \in A \cup {0} /\ First(children[parent[a]]) = a
    BY <1>3 DEF Where, Root
  <2>2. /\ States = Headers \cup {0}
        /\ \A h \in Headers : parent[h] < h
        /\ c \in States => (First(children[c]) # 0 => parent[First(children[c])] = c)
    BY <1>1, TreeFacts
  <2>3. nextRedo # 0 => parent[nextRedo] = c
    BY <2>1, <2>2
  <2>4. QED
    BY <2>1, <2>2, <2>3
<1>5. States \subseteq Nat /\ IsFiniteSet(States) /\ n \in Nat
  BY <1>1, NodesAreNumbers, FS_CardinalityType
<1> HIDE DEF W, n
<1>6. /\ IsFiniteSet(W) /\ Cardinality(W) \in Nat /\ Cardinality(W) <= n
  BY <1>1, <1>4, <1>5, FS_Subset, FS_CardinalityType DEF n
<1>7. ASSUME NEW x \in W
      PROVE  IsFiniteSet(up(x)) /\ Cardinality(up(x)) \in Nat /\ Cardinality(up(x)) <= n
  <2>1. up(x) \subseteq W
    OBVIOUS
  <2> HIDE DEF up
  <2>2. QED
    BY <1>5, <1>6, <2>1, FS_Subset, FS_CardinalityType
<1>8. ASSUME NEW x \in W \ {0} PROVE Cardinality(up(parent[x])) < Cardinality(up(x))
  <2>1. up(parent[x]) \subseteq up(x) \ {x} /\ x \in up(x) /\ parent[x] \in W
    <3> DEFINE p == parent[x]
    <3>1. p \in W /\ p < x /\ W \subseteq Nat
      BY <1>4, <1>5
    <3> HIDE DEF p
    <3>2. \A y \in W : y <= p => y <= x /\ y # x
      BY <3>1
    <3>3. \A y \in up(p) : y \in up(x) \ {x}
      BY <3>2
    <3>4. x \in W /\ x <= x
      BY <3>1
    <3>5. x \in up(x)
      BY <3>4
    <3> HIDE DEF up
    <3>6. QED
      BY <3>1, <3>3, <3>5 DEF p
  <2> HIDE DEF up
  <2>2. Cardinality(up(x) \ {x}) = Cardinality(up(x)) - 1 /\ IsFiniteSet(up(x) \ {x})
    BY <1>7, <2>1, FS_RemoveElement
  <2>3. Cardinality(up(parent[x])) <= Cardinality(up(x) \ {x})
    BY <2>1, <2>2, FS_Subset
  <2>4. QED
    BY <1>7, <2>1, <2>2, <2>3
<1>9. \A k \in Nat : /\ f[k] \subseteq f[k+1]
                     /\ \A x \in f[k] : NodeInfo(x).preferred \in f[k+1]
  <2> TAKE k \in Nat
  <2>1. k + 1 \in Nat /\ k + 1 # 0 /\ (k + 1) - 1 = k
    OBVIOUS
  <2>2. f[k+1] = f[k] \cup {NodeInfo(x).preferred : x \in f[k]}
    BY <1>2, <2>1 DEF IsPath
  <2>3. QED
    BY <2>2
<1>10. f[0] = {0}
  BY <1>2 DEF IsPath
<1> HIDE DEF up
<1> DEFINE S == {k \in Nat : 0 \in f[k] /\ \A x \in W : Cardinality(up(x)) <= k => x \in f[k]}
<1>11. 0 \in S
  <2> SUFFICES ASSUME NEW x \in W, x # 0 PROVE ~(Cardinality(up(x)) <= 0)
    BY <1>10
  <2>1. parent[x] \in W
    BY <1>4
  <2>2. QED
    BY <1>7, <1>8, <2>1
<1>12. ASSUME NEW k \in Nat, k \in S PROVE k + 1 \in S
  <2>1. 0 \in f[k+1]
    BY <1>9, <1>12
  <2>2. ASSUME NEW x \in W, x # 0, Cardinality(up(x)) <= k + 1 PROVE x \in f[k+1]
    <3>1. parent[x] \in W /\ First(children[parent[x]]) = x
      BY <1>4, <2>2
    <3>2. Cardinality(up(parent[x])) <= k
      BY <1>7, <1>8, <2>2, <3>1
    <3>3. parent[x] \in f[k]
      BY <1>12, <3>1, <3>2
    <3>4. QED
      BY <1>1, <1>4, <1>9, <3>1, <3>3
  <2>3. QED
    BY <2>1, <2>2
<1>13. Nat \subseteq S
  <2> HIDE DEF S
  <2>1. QED
    BY <1>11, <1>12, SetInduction
<1>14. W \subseteq f[n]
  BY <1>5, <1>7, <1>13
<1>15. QED
  BY <1>2, <1>14 DEF W

\* So New finds a tree, with a position.
LEMMA WrittenIsWellFormed == ASSUME EditorIInv, file = Written PROVE WellFormed
<1>1. PICK A : Where(A)
  BY DEF EditorIInv
<1>2. /\ Sequences = Headers /\ Nodes = States /\ Tree
      /\ Cardinality(Sequences) = Len(file.records)
      /\ \A i \in DOMAIN file.records : file.records[i].save = NoSave
      /\ file.newest = newest /\ file.nextRedo = nextRedo /\ file.last = last /\ file.timeline = Current
  BY WrittenTree DEF EditorIInv
<1>3. \A id \in Sequences : Parent(id) \in Nodes /\ Parent(id) < id
  <2>1. \A h \in Headers : Parent(h) = parent[h] /\ parent[h] \in States /\ parent[h] < h
    BY <1>2, TreeFacts, WrittenLinks
  <2>2. QED
    BY <1>2, <2>1
<1>4. \A id \in Nodes : \E s \in SetToSeqs(Children(id)) : LinkedAs(id, s)
  BY <1>2, WrittenLinks
<1>5. Sequences \subseteq 1..file.last
  BY <1>2 DEF Tree
<1>6. /\ newest \in States /\ nextRedo \in States /\ Current \in States /\ nextRedo = First(children[Current])
      /\ Current \in A \cup {0}
  BY <1>1, <1>2, TreeFacts DEF Where, Root
<1>7. file.timeline <= file.last
  <2>1. \A x \in States : x <= last
    BY <1>2, TreeFacts DEF Tree
  <2>2. QED
    BY <1>2, <1>6, <2>1
<1>8. A \cup {0, nextRedo} \subseteq PreferredPath
  BY <1>1, PathToTheBuffer
<1>9. CASE nextRedo # 0
  BY <1>2, <1>3, <1>4, <1>5, <1>6, <1>7, <1>8, <1>9 DEF WellFormed
<1>10. CASE nextRedo = 0
  <2>1. Current = newest /\ newest \in PreferredPath
    BY <1>6, <1>8, <1>10 DEF Current
  <2>2. Under(newest) = {}
    BY <1>2, <1>6, <1>10, <2>1, TreeFacts
  <2>3. Children(file.newest) = {}
    BY <1>2, <1>6, <2>2, WrittenLinks
  <2>4. QED
    BY <1>2, <1>3, <1>4, <1>5, <1>6, <1>7, <1>10, <2>1, <2>3 DEF WellFormed
<1>11. QED
  BY <1>9, <1>10

-----------------------------------------------------------------------------
(* What a reader of the file does.                                          *)

\* The path has the headers on the way up, then those on the way down.
TurnIInv ==
    phase \in {"apply", "done"} =>
        /\ Len(down) \in Nat /\ Len(down) <= Len(path)
        /\ \A i \in 1..Len(path) : path[i] \in Above(reference) <=> i <= Len(path) - Len(down)

LEMMA TurnTurn == ASSUME ReplayIInv, Turn, UNCHANGED historyVars PROVE TurnIInv'
<1>1. /\ phase = "up" /\ at = ancestor /\ phase' = "apply" /\ path' = path \o Reverse(down)
      /\ down' = down /\ \A x : Above(x)' = Above(x) /\ reference' = reference
  BY WayStays DEF Turn, request
<1>2. /\ CollectedDown(ancestor) /\ Collected(path, reference, at)
  BY <1>1 DEF ReplayIInv, WayIInv
<1>3. /\ down \in Seq(Sequences) /\ Once(down) /\ Elements(down) \cap Above(reference) = {}
      /\ path \in Seq(Sequences) /\ Elements(path) \subseteq Above(reference)
  BY <1>2 DEF CollectedDown, Collected
<1>4. PICK t : t = Reverse(down)
  OBVIOUS
<1>5. t \in Seq(Sequences) /\ Len(t) = Len(down) /\ Elements(t) = Elements(down)
  BY <1>3, <1>4, TurnedAround
<1>6. PICK a, b \in Nat : a = Len(path) /\ b = Len(t)
  BY <1>3, <1>5, LenProperties
<1>7. PICK w : w = path \o t
  OBVIOUS
<1>8. /\ Len(w) = a + b
      /\ \A i \in 1..a : w[i] = path[i]
      /\ \A i \in a+1..a+b : w[i] = t[i - a]
  <2>1. /\ Len(path \o t) = Len(path) + Len(t)
        /\ \A i \in 1..Len(path) : (path \o t)[i] = path[i]
        /\ \A i \in Len(path)+1..Len(path)+Len(t) : (path \o t)[i] = t[i - Len(path)]
    <3>1. path \in Seq(Sequences) /\ t \in Seq(Sequences)
      BY <1>3, <1>5
    <3>2. QED
      BY <3>1, ConcatProperties
  <2>2. QED
    BY <1>6, <1>7, <2>1
<1>9. \A i \in 1..a : w[i] \in Above(reference)
  BY <1>3, <1>6, <1>8 DEF Elements
<1>10. ASSUME NEW i \in a+1..a+b PROVE w[i] \notin Above(reference)
  <2>1. i - a \in 1..b
    BY <1>6
  <2>2. t[i - a] \in Elements(t)
    BY <1>6, <2>1 DEF Elements
  <2>3. QED
    BY <1>3, <1>5, <1>8, <2>2
<1>11. \A i \in 1..a+b : w[i] \in Above(reference) <=> i <= (a + b) - b
  BY <1>6, <1>9, <1>10
<1>12. path' = w /\ Len(path') = a + b /\ Len(down') = b
  BY <1>1, <1>4, <1>5, <1>6, <1>7, <1>8
<1>13. QED
  <2> HIDE DEF Turn
  <2>1. a <= a + b /\ b <= a + b
    BY <1>6
  <2>2. QED
    BY <1>1, <1>6, <1>11, <1>12, <2>1 DEF TurnIInv

LEMMA TurnNext ==
    ASSUME ReplayIInv, TurnIInv, [ReadAndReplay]_<<historyVars, replayVars>>
    PROVE  TurnIInv'
<1>1. ASSUME UNCHANGED <<path, down>>, phase' \in {"apply", "done"} => phase \in {"apply", "done"},
             UNCHANGED historyVars
      PROVE  TurnIInv'
  BY <1>1, WayStays DEF TurnIInv
<1>2. CASE UNCHANGED <<historyVars, replayVars>>
  <2>1. UNCHANGED <<path, down>> /\ phase' = phase /\ UNCHANGED historyVars
    BY <1>2 DEF replayVars
  <2>2. QED
    BY <1>1, <2>1
<1>3. CASE HistoryNext /\ UNCHANGED replayVars
  <2>1. pass # "valid" /\ phase' = phase
    BY <1>3 DEF replayVars, HistoryNext, IndexRecords, ValidateLinks, Visit, EndWalk, BindReference, CancelNew, Passes
  <2>2. phase' = "unbound"
    BY <2>1 DEF ReplayIInv, WayIInv
  <2>3. QED
    BY <2>2 DEF TurnIInv
<1>4. ASSUME NEW lines \in Texts, Bind(lines), UNCHANGED historyVars PROVE TurnIInv'
  BY <1>4 DEF Bind, TurnIInv
<1>5. ASSUME NEW t \in Nodes, Reconstruct(t), UNCHANGED historyVars PROVE TurnIInv'
  BY <1>5 DEF Reconstruct, TurnIInv
<1>6. ASSUME Mark \/ Descend \/ Meet \/ Ascend, UNCHANGED historyVars PROVE TurnIInv'
  BY <1>6 DEF Mark, Descend, Meet, Ascend, TurnIInv
<1>7. ASSUME ApplyEntry \/ EndHeader \/ Finish \/ CancelReplay, UNCHANGED historyVars PROVE TurnIInv'
  <2>1. /\ UNCHANGED <<path, down>>
        /\ phase' \in {"apply", "done"} => phase \in {"apply", "done"}
    BY <1>7 DEF ApplyEntry, EndHeader, Finish, CancelReplay, request
  <2>2. QED
    BY <1>1, <1>7, <2>1
<1>8. QED
  BY <1>2, <1>3, <1>4, <1>5, <1>6, <1>7, TurnTurn DEF ReadAndReplay, ReplayNext

\* The two ways to say what a header of the path leaves.
LEMMA StateAfterIs ==
    ASSUME TurnIInv, phase \in {"apply", "done"}, Len(path) \in Nat, NEW i \in 1..Len(path)
    PROVE  StateAfter(i) = After(path[i], reference)
BY DEF TurnIInv, StateAfter, After

\* The request is about the state the editor wrote the file in.
BoundIInv ==
    /\ pass = "valid" => reference = Current
    /\ phase # "unbound" => base = buffer

\* What the editor remembers is what the entries of its file record.
LEMMA WrittenIsRecorded ==
    ASSUME EditorIInv, file = Written, reference = Current
    PROVE  \E Stage : Recorded(seen, Stage)
<1>1. PICK A : Where(A) /\ Remembers(A)
  BY DEF EditorIInv
<1>2. Above(reference) = A
  BY <1>1, AboveTheBuffer
<1>3. /\ Sequences = Headers
      /\ \A h \in Headers : Parent(h) = parent[h] /\ Entries(h) = entries[h]
  BY WrittenTree, WrittenLinks
<1> DEFINE from(h) == seen[Before(h, reference)]
           to(h) == seen[After(h, reference)]
           Good(h, w) == /\ Between(entries[h], w)
                         /\ w[0] = from(h) /\ w[Len(entries[h])] = to(h)
           T == [h \in Headers |-> CHOOSE w : Good(h, w)]
<1>4. ASSUME NEW h \in Headers PROVE \E w : Good(h, w)
  <2>1. MakesAll(entries[h], from(h), to(h))
    BY <1>1, <1>2, <1>3 DEF Remembers, Before, After
  <2> HIDE DEF from, to
  <2>2. QED
    BY <2>1 DEF MakesAll
<1> HIDE DEF Good
<1>5. \A h \in Headers : Good(h, T[h])
  BY <1>4
<1> HIDE DEF T
<1>6. ASSUME NEW h \in Headers
      PROVE  /\ T[h][0] = from(h) /\ T[h][Len(Entries(h))] = to(h)
             /\ \A k \in 1..Len(Entries(h)) :
                  /\ InRange(Entries(h)[k], T[h][k-1])
                  /\ T[h][k] = Replaced(Entries(h)[k], T[h][k-1])
  <2>1. Good(h, T[h]) /\ Entries(h) = entries[h]
    BY <1>3, <1>5
  <2>2. /\ T[h][0] = from(h) /\ T[h][Len(entries[h])] = to(h)
        /\ \A k \in 1..Len(entries[h]) : Makes(T[h][k-1], entries[h][k], T[h][k])
    BY <2>1 DEF Good, Between
  <2>3. ASSUME NEW k \in 1..Len(entries[h])
        PROVE  /\ InRange(entries[h][k], T[h][k-1])
               /\ T[h][k] = Replaced(entries[h][k], T[h][k-1])
    BY <2>2, EntryReplaces
  <2>4. QED
    BY <2>1, <2>2, <2>3
<1>7. Recorded(seen, T)
  BY <1>3, <1>6 DEF Recorded
<1>8. QED
  BY <1>7

\* The base that is bound is a text, that of the reference.
LEMMA BufferIsAText == ASSUME EditorIInv PROVE buffer \in Texts /\ buffer = seen[Current]
<1>1. PICK A : Where(A) /\ Remembers(A)
  BY DEF EditorIInv
<1>2. Tree /\ Current \in States
  BY <1>1, TreeFacts DEF EditorIInv, Where, Root
<1>3. QED
  BY <1>1, <1>2, PlainTexts DEF Remembers

-----------------------------------------------------------------------------
(* The inductive invariant of an editor and the reader of its file.         *)

AlwaysStaged == \A State, Stage : StageIInv(State, Stage)

RunIInv == ReplayIInv /\ PlaceIInv /\ FitIInv /\ TurnIInv /\ AlwaysStaged /\ BoundIInv

ReaderIInv ==
    /\ EditorIInv
    /\ IF pass = "unread" THEN NoRequest ELSE file = Written /\ RunIInv

\* What it says of a replay in any of its steps.
LEMMA RunIsFaithful ==
    ASSUME ReaderIInv, phase # "unbound"
    PROVE  /\ RunIInv /\ file = Written
           /\ \E Stage : LandsOnStates(seen, Stage) /\ Faithful(seen, Stage)
<1>1. pass # "unread" /\ RunIInv /\ EditorIInv /\ file = Written
  BY DEF ReaderIInv, NoRequest
<1>2. pass = "valid"
  BY <1>1 DEF RunIInv, ReplayIInv, WayIInv
<1>3. reference = Current /\ base = seen[reference]
  BY <1>1, <1>2, BufferIsAText DEF RunIInv, BoundIInv
<1>4. PICK Stage : Recorded(seen, Stage)
  BY <1>1, <1>3, WrittenIsRecorded
<1>5. Faithful(seen, Stage)
  BY <1>3, <1>4 DEF Faithful
<1>6. LandsOnStates(seen, Stage)
  BY <1>1, StagesLand DEF RunIInv, AlwaysStaged
<1>7. QED
  BY <1>1, <1>5, <1>6

LEMMA SnapshotThen == ASSUME ReaderIInv PROVE SnapshotIsTheState
BY RunIsFaithful DEF LandsOnStates, SnapshotIsTheState

LEMMA GoesThen == ASSUME ReaderIInv PROVE GoesTheWayBetween
<1>1. OnlyTheHeadersBetween
  <2>1. CASE phase # "unbound"
    BY <2>1, RunIsFaithful, OneWayThen DEF RunIInv
  <2>2. CASE phase = "unbound"
    BY <2>2 DEF OnlyTheHeadersBetween
  <2>3. QED
    BY <2>1, <2>2
<1>2. EveryHeaderLandsOnAState
  <2> SUFFICES ASSUME phase = "apply", entry = 1
               PROVE  text = IF header = 1 THEN seen[reference] ELSE seen[StateAfter(header - 1)]
    BY DEF EveryHeaderLandsOnAState
  <2>1. RunIInv /\ text = IF header = 1 THEN seen[reference] ELSE seen[After(path[header-1], reference)]
    BY RunIsFaithful DEF LandsOnStates
  <2>2. path \in Seq(Sequences) /\ Len(path) \in Nat
    BY <2>1, LenProperties DEF RunIInv, ReplayIInv, WayIInv, StepsLead
  <2>3. header \in 1..Len(path)+1
    BY <2>1 DEF RunIInv, PlaceIInv
  <2>4. CASE header # 1
    <3>1. header - 1 \in 1..Len(path)
      BY <2>2, <2>3, <2>4
    <3>2. StateAfter(header - 1) = After(path[header-1], reference)
      BY <2>1, <2>2, <3>1, StateAfterIs DEF RunIInv
    <3>3. QED
      BY <2>1, <2>4, <3>2
  <2>5. QED
    BY <2>1, <2>4
<1>3. QED
  BY <1>1, <1>2 DEF GoesTheWayBetween

LEMMA LimitsThen == ASSUME ReaderIInv PROVE OnlyLimitsRefuse
<1>1. pass # "invalid"
  <2> SUFFICES ASSUME pass = "invalid" PROVE FALSE
    OBVIOUS
  <2>1. EditorIInv /\ file = Written /\ ReplayIInv
    BY DEF ReaderIInv, RunIInv
  <2>2. QED
    BY <2>1, WrittenIsWellFormed DEF ReplayIInv, IInv, Verdict
<1>2. phase # "invalid"
  BY RunIsFaithful DEF LandsOnStates
<1>3. WithinLimits
  <2>1. CASE phase # "unbound"
    BY <2>1, RunIsFaithful, FitsThen DEF RunIInv
  <2>2. CASE phase = "unbound"
    BY <2>2 DEF WithinLimits
  <2>3. QED
    BY <2>1, <2>2
<1>4. QED
  BY <1>1, <1>2, <1>3 DEF OnlyLimitsRefuse, NothingWrittenIsRefused

LEMMA EditorStays ==
    ASSUME UNCHANGED editorVars
    PROVE  Written' = Written /\ Current' = Current /\ buffer' = buffer
<1>1. UNCHANGED <<session, buffer, parent, children, entries, newest, nextRedo, last, seen>>
  BY DEF editorVars
<1>2. Current' = Current
  BY <1>1 DEF Current
<1>3. \A h : Serialized(h)' = Serialized(h)
  <2>1. \A h : Rank(h)' = Rank(h)
    BY <1>1 DEF Rank
  <2>2. \A h : Sibling(h, 1)' = Sibling(h, 1) /\ Sibling(h, -1)' = Sibling(h, -1)
    BY <1>1, <2>1 DEF Sibling
  <2>3. QED
    BY <1>1, <2>2 DEF Serialized
<1>4. Headers' = Headers
  BY <1>1 DEF Headers
<1>5. Written' = Written
  BY <1>1, <1>2, <1>3, <1>4 DEF Written
<1>6. QED
  BY <1>1, <1>2, <1>5

LEMMA InitReaderIInv == Init => ReaderIInv
<1> SUFFICES ASSUME Init PROVE ReaderIInv
  OBVIOUS
<1>1. EditorIInv
  BY EditorInitIInv DEF Init
<1>2. QED
  BY <1>1 DEF Init, ReaderIInv

\* The file as New finds it.
JustOpened == EditorIInv /\ pass # "unread" /\ file = Written /\ Opened /\ NoRequest

LEMMA OpenedIInv == JustOpened => ReaderIInv
<1> SUFFICES ASSUME JustOpened PROVE ReaderIInv
  OBVIOUS
<1>1. AnyFile /\ AnyEntries
  BY WrittenTree, WrittenEntries DEF JustOpened
<1>2. ReplayIInv /\ PlaceIInv /\ FitIInv
  BY <1>1, ReplayIInvInit, FitInit DEF JustOpened
<1>3. pass # "valid" /\ phase = "unbound"
  BY DEF JustOpened, Opened, FirstPass, NoRequest
<1>4. TurnIInv /\ AlwaysStaged /\ BoundIInv
  BY <1>3 DEF TurnIInv, AlwaysStaged, StageIInv, Faithful, BoundIInv
<1>5. QED
  BY <1>2, <1>4 DEF JustOpened, ReaderIInv, RunIInv

\* A step of the reader of a file that is written.
LEMMA RunNext ==
    ASSUME EditorIInv, file = Written, RunIInv, pass # "unread", UNCHANGED editorVars,
           [Read \/ Verified \/ Rebuild]_vars
    PROVE  ReaderIInv'
<1>1. /\ EditorIInv' /\ Written' = Written /\ Current' = Current /\ buffer' = buffer
  BY EditorIInvStays, EditorStays
<1>2. buffer \in Texts
  BY BufferIsAText
<1>3. [ReadAndReplay]_<<historyVars, replayVars>>
  BY <1>2 DEF vars, ReadAndReplay, Read, Verified, Rebuild
<1>4. file' = file /\ pass' # "unread"
  <2>1. CASE HistoryNext
    BY <2>1 DEF HistoryNext, IndexRecords, ValidateLinks, Visit, EndWalk, BindReference, CancelNew, To
  <2>2. CASE UNCHANGED historyVars
    BY <2>2 DEF historyVars
  <2>3. QED
    BY <2>1, <2>2 DEF vars, Read, Verified, Rebuild
<1>5. ReplayIInv' /\ PlaceIInv' /\ FitIInv' /\ TurnIInv'
  BY <1>3, ReplayIInvNext, FitNext, TurnNext DEF RunIInv
<1>6. AlwaysStaged'
  <2>1. ASSUME NEW State, NEW Stage PROVE StageIInv(State, Stage)'
    <3>1. StageIInv(State, Stage)
      BY DEF RunIInv, AlwaysStaged
    <3>2. QED
      BY <1>3, <1>5, <3>1, StageNext DEF RunIInv
  <2>2. QED
    BY <2>1 DEF AlwaysStaged
<1>7. pass' = "valid" => reference' = Current'
  <2> SUFFICES ASSUME pass' = "valid" PROVE reference' = Current
    BY <1>1
  <2>1. CASE pass = "valid"
    <3>1. reference' = reference
      <4>1. HistoryNext => pass # "valid"
        BY DEF HistoryNext, IndexRecords, ValidateLinks, Visit, EndWalk, BindReference, CancelNew, Passes
      <4>2. QED
        BY <2>1, <4>1 DEF vars, historyVars, Read, Verified, Rebuild
    <3>2. QED
      BY <2>1, <3>1 DEF RunIInv, BoundIInv
  <2>2. CASE pass # "valid"
    <3>1. BindReference
      <4>1. pass' # pass
        BY <2>2
      <4>2. HistoryNext
        BY <4>1 DEF vars, historyVars, Read, Verified, Rebuild
      <4>3. QED
        BY <4>1, <4>2 DEF HistoryNext, IndexRecords, ValidateLinks, Visit, EndWalk, CancelNew, To
    <3>2. reference' = IF file.nextRedo # 0 THEN Parent(file.nextRedo) ELSE file.newest
      BY <3>1 DEF BindReference
    <3>3. file.newest = newest /\ file.nextRedo = nextRedo /\ Root = 0
      BY WrittenTree DEF Root
    <3>4. nextRedo # 0 => Parent(nextRedo) = parent[nextRedo]
      <4>1. nextRedo \in States
        BY DEF EditorIInv, Where
      <4>2. QED
        BY <3>3, <4>1, WrittenLinks DEF States
    <3>5. QED
      BY <3>2, <3>3, <3>4 DEF Current
  <2>3. QED
    BY <2>1, <2>2
<1>8. phase' # "unbound" => base' = buffer'
  <2>1. CASE Bind(buffer)
    BY <1>1, <2>1 DEF Bind
  <2>2. CASE ~Bind(buffer)
    <3>1. base' = base /\ (phase' # "unbound" => phase # "unbound")
      <4>1. CASE UNCHANGED replayVars
        BY <4>1 DEF replayVars
      <4>2. CASE ReplayNext
        BY <4>2 DEF ReplayNext, Reconstruct, Mark, Descend, Meet, Ascend, Turn, ApplyEntry, EndHeader, Finish, CancelReplay, request
      <4>3. QED
        BY <2>2, <4>1, <4>2 DEF vars, Read, Verified, Rebuild
    <3>2. QED
      BY <1>1, <3>1 DEF RunIInv, BoundIInv
  <2>3. QED
    BY <2>1, <2>2
<1>9. QED
  BY <1>1, <1>4, <1>5, <1>6, <1>7, <1>8 DEF ReaderIInv, RunIInv, BoundIInv

LEMMA ReaderIInvNext == ReaderIInv /\ [Next]_vars => ReaderIInv' \/ JustOpened'
<1> SUFFICES ASSUME ReaderIInv, [Next]_vars PROVE ReaderIInv' \/ JustOpened'
  OBVIOUS
<1>1. CASE Edit
  <2>1. EditorIInv'
    BY <1>1, EditorIInvNext DEF ReaderIInv, Edit
  <2>2. pass' = "unread" /\ NoRequest'
    BY <1>1 DEF ReaderIInv, Edit, historyVars, replayVars, NoRequest
  <2>3. QED
    BY <2>1, <2>2 DEF ReaderIInv
<1>2. CASE Write
  <2>1. EditorIInv' /\ Written' = Written
    BY <1>2, EditorIInvStays, EditorStays DEF ReaderIInv, Write
  <2>2. pass = "unread" /\ NoRequest'
    BY <1>2 DEF ReaderIInv, Write, replayVars, NoRequest
  <2>3. file' = Written /\ Opened' /\ pass' # "unread"
    BY <1>2 DEF Write, Open, Opened, FirstPass
  <2>4. QED
    BY <2>1, <2>2, <2>3 DEF JustOpened
<1>3. CASE [Read \/ Verified \/ Rebuild]_vars
  <2>1. UNCHANGED editorVars
    BY <1>3 DEF vars, Read, Verified, Rebuild
  <2>2. CASE pass = "unread"
    <3>1. ~HistoryNext /\ ~Bind(buffer) /\ ~ReplayNext
      BY <2>2 DEF ReaderIInv, NoRequest, Bind, HistoryNext, IndexRecords, ValidateLinks, Visit, EndWalk,
                  BindReference, CancelNew, Passes, ReplayNext, Reconstruct, Mark, Descend, Meet, Ascend,
                  Turn, ApplyEntry, EndHeader, Finish, CancelReplay
    <3>2. UNCHANGED vars
      BY <1>3, <3>1 DEF Read, Verified, Rebuild
    <3>3. pass' = "unread" /\ NoRequest'
      BY <2>2, <3>2 DEF ReaderIInv, vars, historyVars, replayVars, NoRequest
    <3>4. QED
      BY <2>1, <3>3, EditorIInvStays DEF ReaderIInv
  <2>3. CASE pass # "unread"
    BY <1>3, <2>1, <2>3, RunNext DEF ReaderIInv
  <2>4. QED
    BY <2>2, <2>3
<1>4. QED
  BY <1>1, <1>2, <1>3 DEF Next

LEMMA ReaderIInvHolds == Spec => []ReaderIInv
BY InitReaderIInv, OpenedIInv, ReaderIInvNext, PTL DEF Spec

(* A snapshot is the text the editor had in the state asked for, for a tree   *)
(* of any size made in any way, a file written anywhere in it, and any two   *)
(* states of it.                                                            *)
THEOREM SnapshotsAreTheStates == Spec => []SnapshotIsTheState
<1>1. ReaderIInv => SnapshotIsTheState
  BY SnapshotThen
<1>2. QED
  BY <1>1, ReaderIInvHolds, PTL

(* And so is the workspace between any two headers of the one way there is.  *)
THEOREM TheWayBetween == Spec => []GoesTheWayBetween
<1>1. ReaderIInv => GoesTheWayBetween
  BY GoesThen
<1>2. QED
  BY <1>1, ReaderIInvHolds, PTL

(* No check of New or of applyEntry refuses what the editor writes, and a    *)
(* replay stays within its limits.                                          *)
THEOREM NothingElseRefuses == Spec => []OnlyLimitsRefuse
<1>1. ReaderIInv => OnlyLimitsRefuse
  BY LimitsThen
<1>2. QED
  BY <1>1, ReaderIInvHolds, PTL
=============================================================================
