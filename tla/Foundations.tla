---------------------------- MODULE Foundations -----------------------------
(* What the proofs need to know of numbers and of sequences, whatever they   *)
(* are about: induction over the natural numbers and what recursion over     *)
(* them defines, the parts of a sequence, sequences without repetition, and  *)
(* sequences put behind each other.                                         *)
(* The induction theorems of the library take an operator as a parameter;    *)
(* these take sets and functions, which say the same of one property or      *)
(* definition.                                                              *)
EXTENDS Integers, Sequences, SequencesExt, FiniteSets, TLAPS, FiniteSetTheorems, SequenceTheorems

(* A set with 0 and every successor has every natural number: no initial     *)
(* segment of the numbers outside it can be the smallest.                    *)
LEMMA SetInduction ==
    ASSUME NEW S, 0 \in S, \A n \in Nat : n \in S => n + 1 \in S
    PROVE  Nat \subseteq S
<1> SUFFICES ASSUME NEW m \in Nat, m \notin S PROVE FALSE
  OBVIOUS
<1> DEFINE R == StrictSubsetOrdering(Nat)
           T == {1..n : n \in Nat \ S}
<1>1. T \subseteq FiniteSubsetsOf(Nat) /\ T # {}
  <2>1. \A n \in Nat : IsFiniteSet(1..n) /\ 1..n \in SUBSET Nat
    BY FS_Interval
  <2>2. QED
    BY <2>1 DEF FiniteSubsetsOf
<1>2. IsWellFoundedOn(R, FiniteSubsetsOf(Nat))
  BY FS_StrictSubsetOrderingWellFounded
<1> HIDE DEF R, T
<1>3. PICK t \in T : \A u \in T : ~ (<<u, t>> \in R)
  BY <1>1, <1>2, WFMin
<1>4. PICK n \in Nat \ S : t = 1..n
  BY DEF T
<1>5. n # 0 /\ n - 1 \in Nat /\ n - 1 \notin S
  BY <1>4
<1>6. 1..(n - 1) \in T
  BY <1>5 DEF T
<1>7. <<1..(n - 1), t>> \in R
  <2>1. n \in 1..n /\ n \notin 1..(n - 1) /\ 1..(n - 1) \subseteq 1..n
    BY <1>4, <1>5
  <2>2. QED
    BY <2>1, <1>4 DEF R, StrictSubsetOrdering
<1>8. QED
  BY <1>3, <1>6, <1>7

(* The same up to a bound.                                                  *)
LEMMA UpTo ==
    ASSUME NEW b \in Nat, NEW S, 0 \in S, \A n \in 0..b-1 : n \in S => n + 1 \in S
    PROVE  0..b \subseteq S
<1> DEFINE T == {n \in Nat : n <= b => n \in S}
<1>1. 0 \in T /\ \A n \in Nat : n \in T => n + 1 \in T
  OBVIOUS
<1>2. Nat \subseteq T
  <2> HIDE DEF T
  <2>1. QED
    BY <1>1, SetInduction
<1>3. QED
  BY <1>2

(* Every set of natural numbers that has one has a least.                   *)
LEMMA LeastNumber ==
    ASSUME NEW S \in SUBSET Nat, S # {}
    PROVE  \E n \in S : \A m \in S : n <= m
<1> SUFFICES ASSUME \A n \in S : \E m \in S : m < n PROVE FALSE
  OBVIOUS
<1> DEFINE T == {n \in Nat : \A m \in 0..n : m \notin S}
<1>1. 0 \in T
  OBVIOUS
<1>2. ASSUME NEW n \in Nat, n \in T PROVE n + 1 \in T
  BY <1>2
<1>3. Nat \subseteq T
  <2> HIDE DEF T
  <2>1. QED
    BY <1>1, <1>2, SetInduction
<1>4. PICK x \in S : x \in Nat
  OBVIOUS
<1>5. x \in 0..x /\ x \in T
  BY <1>3, <1>4
<1>6. QED
  BY <1>4, <1>5

(* A set of natural numbers with a bound that has one has a greatest.       *)
LEMMA GreatestNumber ==
    ASSUME NEW S \in SUBSET Nat, S # {}, NEW b \in Nat, \A x \in S : x <= b
    PROVE  \E n \in S : \A m \in S : n >= m
<1> DEFINE T == {b - x : x \in S}
<1>1. T \in SUBSET Nat /\ T # {}
  <2>1. \A x \in S : b - x \in Nat
    OBVIOUS
  <2>2. QED
    BY <2>1
<1>2. PICK n \in T : \A m \in T : n <= m
  <2> HIDE DEF T
  <2>1. QED
    BY <1>1, LeastNumber
<1>3. PICK y \in S : n = b - y
  BY <1>2
<1>4. \A x \in S : y >= x
  <2> SUFFICES ASSUME NEW x \in S PROVE y >= x
    OBVIOUS
  <2>1. b - x \in T
    OBVIOUS
  <2>2. b - y <= b - x
    BY <1>2, <1>3, <2>1
  <2>3. QED
    BY <2>2
<1>5. QED
  BY <1>4

(* A recursive definition over the natural numbers defines a function.      *)
IsRecursive(f, a, F) == f = [n \in Nat |-> IF n = 0 THEN a ELSE F[<<n, f[n-1]>>]]

LEMMA Recursion ==
    ASSUME NEW T, NEW a \in T, NEW F \in [Nat \X T -> T]
    PROVE  \E f \in [Nat -> T] : IsRecursive(f, a, F)
<1> DEFINE Begins(g, n) == /\ g \in [0..n -> T] /\ g[0] = a
                           /\ \A k \in 1..n : g[k] = F[<<k, g[k-1]>>]
           S == {n \in Nat : \E g \in [0..n -> T] : Begins(g, n)}
<1>1. 0 \in S
  <2>1. [k \in 0..0 |-> a] \in [0..0 -> T]
    OBVIOUS
  <2>2. Begins([k \in 0..0 |-> a], 0)
    OBVIOUS
  <2>3. QED
    BY <2>1, <2>2
<1>2. ASSUME NEW n \in Nat, n \in S PROVE n + 1 \in S
  <2>1. PICK g \in [0..n -> T] : Begins(g, n)
    BY <1>2
  <2> DEFINE h == [k \in 0..n+1 |-> IF k <= n THEN g[k] ELSE F[<<n + 1, g[n]>>]]
  <2>2. h \in [0..n+1 -> T]
    <3>1. F[<<n + 1, g[n]>>] \in T
      BY <2>1
    <3>2. QED
      BY <3>1
  <2>3. ASSUME NEW k \in 1..n+1 PROVE h[k] = F[<<k, h[k-1]>>]
    <3>1. CASE k <= n
      BY <2>1, <3>1
    <3>2. CASE k = n + 1
      BY <3>2
    <3>3. QED
      BY <3>1, <3>2
  <2>4. h[0] = a
    BY <2>1
  <2>5. Begins(h, n + 1)
    <3> HIDE DEF h
    <3>1. QED
      BY <2>2, <2>3, <2>4
  <2>6. QED
    <3> HIDE DEF h, Begins
    <3>1. QED
      BY <2>2, <2>5
<1>3. Nat \subseteq S
  <2> HIDE DEF S
  <2>1. QED
    BY <1>1, <1>2, SetInduction
<1>4. ASSUME NEW n \in Nat, NEW m \in Nat, NEW g, NEW h, Begins(g, n), Begins(h, m), n <= m
      PROVE  \A k \in 0..n : g[k] = h[k]
  <2> DEFINE E == {k \in Nat : k <= n => g[k] = h[k]}
  <2>1. 0 \in E
    <3>1. g[0] = a /\ h[0] = a
      BY <1>4
    <3>2. QED
      BY <3>1
  <2>2. ASSUME NEW k \in Nat, k \in E PROVE k + 1 \in E
    <3> SUFFICES ASSUME k + 1 <= n PROVE g[k+1] = h[k+1]
      OBVIOUS
    <3>1. k + 1 \in 1..n /\ k + 1 \in 1..m /\ (k + 1) - 1 = k /\ g[k] = h[k]
      BY <1>4, <2>2
    <3>2. g[k+1] = F[<<k + 1, g[k]>>] /\ h[k+1] = F[<<k + 1, h[k]>>]
      BY <1>4, <3>1
    <3>3. QED
      BY <3>1, <3>2
  <2>3. Nat \subseteq E
    <3> HIDE DEF E
    <3>1. QED
      BY <2>1, <2>2, SetInduction
  <2>4. QED
    BY <2>3
<1> DEFINE G(n) == CHOOSE g \in [0..n -> T] : Begins(g, n)
           f == [n \in Nat |-> G(n)[n]]
<1>5. \A n \in Nat : Begins(G(n), n)
  <2> TAKE n \in Nat
  <2>1. \E g \in [0..n -> T] : Begins(g, n)
    BY <1>3
  <2> HIDE DEF Begins
  <2>2. QED
    BY <2>1
<1> HIDE DEF G
<1>6. f \in [Nat -> T]
  BY <1>5
<1>7. \A n \in Nat : f[n] = IF n = 0 THEN a ELSE F[<<n, f[n-1]>>]
  <2> TAKE n \in Nat
  <2>1. CASE n = 0
    BY <1>5, <2>1
  <2>2. CASE n # 0
    <3>1. n - 1 \in Nat /\ n - 1 <= n
      BY <2>2
    <3>2. Begins(G(n), n) /\ Begins(G(n-1), n-1)
      BY <1>5, <3>1
    <3>3. G(n-1)[n-1] = G(n)[n-1]
      <4> HIDE DEF Begins
      <4>1. \A k \in 0..n-1 : G(n-1)[k] = G(n)[k]
        BY <1>4, <3>1, <3>2
      <4>2. QED
        BY <3>1, <4>1
    <3>4. QED
      BY <2>2, <3>1, <3>2, <3>3
  <2>3. QED
    BY <2>1, <2>2
<1>8. f = [n \in Nat |-> IF n = 0 THEN a ELSE F[<<n, f[n-1]>>]]
  <2> HIDE DEF f
  <2>1. QED
    BY <1>6, <1>7
<1>9. QED
  BY <1>6, <1>8 DEF IsRecursive

(* The same over the numbers up to a bound.                                 *)
IsRecursiveTo(b, f, a, F) == f[0] = a /\ \A k \in 1..b : f[k] = F[<<k, f[k-1]>>]

LEMMA RecursionUpTo ==
    ASSUME NEW b \in Nat, NEW T, NEW a \in T, NEW F \in [(1..b) \X T -> T]
    PROVE  \E f \in [0..b -> T] : IsRecursiveTo(b, f, a, F)
<1> DEFINE G == [p \in Nat \X T |-> IF p[1] \in 1..b THEN F[p] ELSE a]
<1>1. G \in [Nat \X T -> T]
  <2>1. \A p \in Nat \X T : p[1] \in 1..b => p \in (1..b) \X T
    OBVIOUS
  <2>2. QED
    BY <2>1
<1>2. PICK g \in [Nat -> T] : IsRecursive(g, a, G)
  <2> HIDE DEF G
  <2>1. QED
    BY <1>1, Recursion
<1> DEFINE f == [k \in 0..b |-> g[k]]
<1>3. f \in [0..b -> T] /\ \A k \in 0..b : f[k] = g[k]
  OBVIOUS
<1>4. \A k \in Nat : g[k] = IF k = 0 THEN a ELSE G[<<k, g[k-1]>>]
  BY <1>2 DEF IsRecursive
<1>5. f[0] = a
  <2>1. g[0] = a
    BY <1>4
  <2> HIDE DEF f, G
  <2>2. QED
    BY <1>3, <2>1
<1>6. ASSUME NEW k \in 1..b PROVE f[k] = F[<<k, f[k-1]>>]
  <2>1. k - 1 \in 0..b /\ k - 1 \in Nat /\ k \in Nat /\ k # 0 /\ k \in 0..b
    OBVIOUS
  <2>2. <<k, g[k-1]>> \in Nat \X T /\ <<k, g[k-1]>>[1] = k
    BY <2>1
  <2>3. G[<<k, g[k-1]>>] = F[<<k, g[k-1]>>]
    BY <2>2
  <2> HIDE DEF G, f
  <2>4. QED
    BY <1>3, <1>4, <2>1, <2>3
<1> HIDE DEF f
<1>7. QED
  BY <1>3, <1>5, <1>6 DEF IsRecursiveTo

-----------------------------------------------------------------------------
(* The parts of a sequence.                                                *)

LEMMA SameLength == ASSUME NEW m \in Nat, NEW n \in Nat, 1..m = 1..n PROVE m = n
<1>1. m # 0 => m \in 1..n
  BY m \in 1..m \/ m = 0
<1>2. n # 0 => n \in 1..m
  BY n \in 1..n \/ n = 0
<1>3. QED
  BY <1>1, <1>2

\* A part of a sequence.
LEMMA Part ==
    ASSUME NEW S, NEW w \in Seq(S), NEW a \in Nat \ {0}, NEW b \in Nat, a <= b + 1, b <= Len(w)
    PROVE  /\ SubSeq(w, a, b) \in Seq(S)
           /\ Len(SubSeq(w, a, b)) = (b + 1) - a
           /\ \A x \in 1..(b + 1) - a : SubSeq(w, a, b)[x] = w[(a - 1) + x]
<1>1. a \in Int /\ b \in Int /\ \A x \in a..b : w[x] \in S
  <2>1. Len(w) \in Nat /\ \A x \in a..b : x \in 1..Len(w)
    BY LenProperties
  <2>2. QED
    BY <2>1, ElementOfSeq
<1>2. /\ SubSeq(w, a, b) \in Seq(S)
      /\ Len(SubSeq(w, a, b)) = IF a <= b THEN b-a+1 ELSE 0
      /\ \A x \in 1..b-a+1 : SubSeq(w, a, b)[x] = w[a+x-1]
  BY <1>1, SubSeqProperties
<1>3. b-a+1 = (b+1)-a /\ \A x \in Int : a+x-1 = (a-1)+x
  OBVIOUS
<1>4. Len(SubSeq(w, a, b)) = (b+1)-a
  BY <1>2
<1>5. QED
  BY <1>2, <1>3, <1>4

\* A part that starts after an offset has these elements.
LEMMA PartIs ==
    ASSUME NEW S, NEW w \in Seq(S), NEW t \in Seq(S), NEW i \in Nat, NEW k \in Nat,
           Len(t) = k, i + k <= Len(w), \A x \in 1..k : w[i + x] = t[x]
    PROVE  SubSeq(w, i + 1, i + k) = t
<1> DEFINE a == i + 1
           b == i + k
<1>1. a \in Nat \ {0} /\ b \in Nat /\ a <= b + 1 /\ b <= Len(w) /\ (b + 1) - a = k /\ a - 1 = i
  OBVIOUS
<1> HIDE DEF a, b
<1>2. SubSeq(w, a, b) \in Seq(S) /\ Len(SubSeq(w, a, b)) = k /\ \A x \in 1..k : SubSeq(w, a, b)[x] = w[i + x]
  <2>1. /\ SubSeq(w, a, b) \in Seq(S) /\ Len(SubSeq(w, a, b)) = (b + 1) - a
        /\ \A x \in 1..(b + 1) - a : SubSeq(w, a, b)[x] = w[(a - 1) + x]
    BY <1>1, Part
  <2>2. QED
    BY <1>1, <2>1
<1>3. SubSeq(w, a, b) = t
  BY <1>2, SeqEqual
<1>4. QED
  BY <1>3 DEF a, b

\* A text cut in three, and its parts.
LEMMA Cut ==
    ASSUME NEW S, NEW p \in Seq(S), NEW m \in Seq(S), NEW r \in Seq(S), NEW w, w = (p \o m) \o r
    PROVE  /\ w \in Seq(S) /\ Len(w) = (Len(p) + Len(m)) + Len(r)
           /\ Len(p) \in Nat /\ Len(m) \in Nat /\ Len(r) \in Nat
           /\ SubSeq(w, 1, Len(p)) = p
           /\ SubSeq(w, Len(p) + 1, Len(p) + Len(m)) = m
           /\ SubSeq(w, (Len(p) + Len(m)) + 1, Len(w)) = r
<1>1. PICK i \in Nat, j \in Nat, k \in Nat : i = Len(p) /\ j = Len(m) /\ k = Len(r)
  BY LenProperties
<1>2. PICK v \in Seq(S) : /\ v = p \o m /\ Len(v) = i + j
                          /\ \A x \in 1..i+j : v[x] = IF x <= i THEN p[x] ELSE m[x - i]
  <2>1. /\ p \o m \in Seq(S) /\ Len(p \o m) = i + j
        /\ \A x \in 1..i+j : (p \o m)[x] = IF x <= i THEN p[x] ELSE m[x - i]
    BY <1>1, ConcatProperties
  <2>2. QED
    BY <2>1
<1>3. w \in Seq(S) /\ Len(w) = (i + j) + k
      /\ \A x \in 1..(i+j)+k : w[x] = IF x <= i + j THEN v[x] ELSE r[x - (i + j)]
  BY <1>1, <1>2, ConcatProperties
<1>4. SubSeq(w, 0 + 1, 0 + i) = p
  <2>1. \A x \in 1..i : x \in 1..i+j /\ x \in 1..(i+j)+k /\ x <= i + j /\ 0 + x = x
    OBVIOUS
  <2>2. \A x \in 1..i : w[0 + x] = p[x]
    BY <1>2, <1>3, <2>1
  <2>3. 0 + i <= Len(w)
    BY <1>3
  <2>4. QED
    BY <1>1, <1>3, <2>2, <2>3, PartIs
<1>5. SubSeq(w, i + 1, i + j) = m
  <2>1. \A x \in 1..j : /\ i + x \in 1..i+j /\ i + x \in 1..(i+j)+k /\ i + x <= i + j
                        /\ ~(i + x <= i) /\ (i + x) - i = x
    OBVIOUS
  <2>2. \A x \in 1..j : w[i + x] = m[x]
    BY <1>2, <1>3, <2>1
  <2>3. i + j <= Len(w)
    BY <1>3
  <2>4. QED
    BY <1>1, <1>3, <2>2, <2>3, PartIs
<1>6. SubSeq(w, (i + j) + 1, (i + j) + k) = r
  <2>1. \A x \in 1..k : (i+j) + x \in 1..(i+j)+k /\ ~((i+j) + x <= i + j) /\ ((i+j) + x) - (i + j) = x
    OBVIOUS
  <2>2. \A x \in 1..k : w[(i+j) + x] = r[x]
    BY <1>3, <2>1
  <2>3. (i + j) + k <= Len(w) /\ i + j \in Nat
    BY <1>3
  <2>4. QED
    BY <1>1, <1>3, <2>2, <2>3, PartIs, ZenonT(40)
<1>7. 0 + 1 = 1 /\ 0 + i = i
  OBVIOUS
<1>8. QED
  BY <1>1, <1>3, <1>4, <1>5, <1>6, <1>7

\* And how any text is cut.
InThree(w, i, j) ==
    \E p, m, r \in Seq(Nat) :
      /\ w = (p \o m) \o r /\ Len(p) = i /\ Len(m) = j - i /\ Len(r) = Len(w) - j
      /\ p = SubSeq(w, 1, i) /\ m = SubSeq(w, i + 1, j) /\ r = SubSeq(w, j + 1, Len(w))

LEMMA CutAt ==
    ASSUME NEW w \in Seq(Nat), NEW i \in Nat, NEW j \in Nat, i <= j, j <= Len(w)
    PROVE  InThree(w, i, j)
<1> DEFINE n == Len(w)
<1>1. n \in Nat /\ j <= n /\ \A x \in 1..n : w[x] \in Nat
  BY LenProperties, ElementOfSeq
<1>2. SubSeq(w, 1, i) \o SubSeq(w, i + 1, j) = SubSeq(w, 1, j)
  <2>1. 1 \in 1..n+1 /\ i \in 1-1..n /\ j \in i..n
    <3> HIDE DEF n
    <3>1. QED
      BY <1>1
  <2>2. QED
    BY <2>1, ConcatAdjacentSubSeq
<1>3. SubSeq(w, 1, j) \o SubSeq(w, j + 1, n) = w
  <2>1. 1 \in 1..n+1 /\ j \in 1-1..n /\ n \in j..n
    <3> HIDE DEF n
    <3>1. QED
      BY <1>1
  <2>2. QED
    BY <2>1, ConcatAdjacentSubSeq, SubSeqFull
<1>4. \A a \in Nat \ {0}, b \in 0..n : a <= b + 1 => SubSeq(w, a, b) \in Seq(Nat) /\ Len(SubSeq(w, a, b)) = (b + 1) - a
  BY <1>1, Part
<1> HIDE DEF n
<1>5. /\ 1 \in Nat \ {0} /\ i \in 0..n /\ 1 <= i + 1 /\ (i + 1) - 1 = i
      /\ i + 1 \in Nat \ {0} /\ j \in 0..n /\ i + 1 <= j + 1 /\ (j + 1) - (i + 1) = j - i
      /\ j + 1 \in Nat \ {0} /\ n \in 0..n /\ j + 1 <= n + 1 /\ (n + 1) - (j + 1) = n - j
  BY <1>1
<1> DEFINE p == SubSeq(w, 1, i)
           m == SubSeq(w, i + 1, j)
           r == SubSeq(w, j + 1, n)
<1>6. p \in Seq(Nat) /\ m \in Seq(Nat) /\ r \in Seq(Nat) /\ Len(p) = i /\ Len(m) = j - i /\ Len(r) = n - j
  BY <1>4, <1>5 DEF n
<1>7. w = (p \o m) \o r
  BY <1>2, <1>3 DEF n
<1>8. p = SubSeq(w, 1, i) /\ m = SubSeq(w, i + 1, j) /\ r = SubSeq(w, j + 1, Len(w))
  BY DEF n
<1> HIDE DEF p, m, r
<1>9. QED
  BY <1>6, <1>7, <1>8 DEF n, InThree

-----------------------------------------------------------------------------
(* Sequences without repetition.                                            *)

Once(s) == \A i, j \in 1..Len(s) : s[i] = s[j] => i = j
Elements(s) == {s[i] : i \in 1..Len(s)}

LEMMA AppendOnce ==
    ASSUME NEW S, NEW s \in Seq(S), NEW e \in S, Once(s), e \notin Elements(s)
    PROVE  /\ Append(s, e) \in Seq(S) /\ Once(Append(s, e))
           /\ Elements(Append(s, e)) = Elements(s) \cup {e}
<1> DEFINE t == Append(s, e)
<1>1. /\ t \in Seq(S) /\ Len(t) = Len(s) + 1 /\ Len(s) \in Nat
      /\ \A i \in 1..Len(s) : t[i] = s[i]
      /\ t[Len(s) + 1] = e
  BY AppendProperties, LenProperties
<1> HIDE DEF t
<1>2. 1..Len(t) = (1..Len(s)) \cup {Len(s) + 1}
  BY <1>1
<1>3. Once(t)
  BY <1>1, <1>2 DEF Once, Elements
<1>4. Elements(t) = Elements(s) \cup {e}
  BY <1>1, <1>2 DEF Elements
<1>5. QED
  BY <1>1, <1>3, <1>4 DEF t

LEMMA FrontOnce ==
    ASSUME NEW S, NEW s \in Seq(S), s # <<>>, Once(s)
    PROVE  /\ Front(s) \in Seq(S) /\ Once(Front(s))
           /\ Elements(Front(s)) = Elements(s) \ {Last(s)}
           /\ Last(s) \in Elements(s) /\ Last(s) \in S
<1> DEFINE n == Len(s) - 1
           t == SubSeq(s, 1, n)
<1>1. Len(s) \in Nat \ {0} /\ n \in Nat /\ \A i \in 1..Len(s) : s[i] \in S
  BY EmptySeq, ElementOfSeq
<1>2. t \in Seq(S) /\ Len(t) = n /\ \A i \in 1..n : t[i] = s[i]
  <2>1. 1 \in Int /\ n \in Int /\ \A i \in 1..n : s[i] \in S
    BY <1>1
  <2>2. /\ t \in Seq(S) /\ Len(t) = IF 1 <= n THEN n - 1 + 1 ELSE 0
        /\ \A i \in 1..n - 1 + 1 : t[i] = s[1 + i - 1]
    <3> HIDE DEF n
    <3>1. QED
      BY <2>1, SubSeqProperties
  <2>3. n \in Nat
    BY <1>1
  <2> HIDE DEF n, t
  <2>4. n - 1 + 1 = n /\ \A i \in Int : 1 + i - 1 = i
    BY <2>3
  <2>5. QED
    BY <2>2, <2>3, <2>4
<1>3. Front(s) = t /\ Last(s) = s[n + 1] /\ Len(s) = n + 1
  BY <1>1 DEF Front, Last
<1> HIDE DEF n, t
<1>4. 1..Len(s) = (1..n) \cup {n + 1} /\ n + 1 \notin 1..n
  BY <1>1, <1>3
<1>5. Once(t)
  BY <1>2, <1>4 DEF Once
<1>6. Elements(t) = Elements(s) \ {Last(s)}
  BY <1>2, <1>3, <1>4 DEF Elements, Once
<1>7. Last(s) \in Elements(s) /\ Last(s) \in S
  BY <1>1, <1>3, <1>4 DEF Elements
<1>8. QED
  BY <1>2, <1>3, <1>5, <1>6, <1>7

LEMMA ConcatOnce ==
    ASSUME NEW S, NEW s \in Seq(S), NEW t \in Seq(S), Once(s), Once(t),
           Elements(s) \cap Elements(t) = {}
    PROVE  IsInjective(s \o t)
<1> DEFINE u == s \o t
<1>1. /\ u \in Seq(S) /\ Len(u) = Len(s) + Len(t) /\ Len(s) \in Nat /\ Len(t) \in Nat
      /\ \A i \in 1..Len(u) : u[i] = IF i <= Len(s) THEN s[i] ELSE t[i - Len(s)]
  BY ConcatProperties, LenProperties
<1>2. DOMAIN u = 1..Len(u)
  BY <1>1, LenProperties
<1> HIDE DEF u
<1>3. ASSUME NEW i \in 1..Len(u), NEW j \in 1..Len(u), u[i] = u[j] PROVE i = j
  <2>1. CASE i <= Len(s) /\ j <= Len(s)
    <3>1. i \in 1..Len(s) /\ j \in 1..Len(s) /\ s[i] = s[j]
      BY <1>1, <1>3, <2>1
    <3>2. QED
      BY <3>1 DEF Once
  <2>2. CASE i > Len(s) /\ j > Len(s)
    <3>1. i - Len(s) \in 1..Len(t) /\ j - Len(s) \in 1..Len(t) /\ t[i - Len(s)] = t[j - Len(s)]
      BY <1>1, <1>3, <2>2
    <3>2. i - Len(s) = j - Len(s)
      BY <3>1 DEF Once
    <3>3. QED
      BY <1>1, <3>2
  <2>3. CASE i <= Len(s) /\ j > Len(s)
    <3>1. i \in 1..Len(s) /\ j - Len(s) \in 1..Len(t) /\ s[i] = t[j - Len(s)]
      BY <1>1, <1>3, <2>3
    <3>2. QED
      BY <3>1 DEF Elements
  <2>4. CASE i > Len(s) /\ j <= Len(s)
    <3>1. j \in 1..Len(s) /\ i - Len(s) \in 1..Len(t) /\ s[j] = t[i - Len(s)]
      BY <1>1, <1>3, <2>4
    <3>2. QED
      BY <3>1 DEF Elements
  <2>5. QED
    BY <1>1, <2>1, <2>2, <2>3, <2>4
<1>4. QED
  BY <1>2, <1>3 DEF IsInjective, u

(* As many elements as the set has, and none twice: all of them.            *)
LEMMA AllOfThem ==
    ASSUME NEW S, IsFiniteSet(S), NEW s \in Seq(S), Once(s), Len(s) = Cardinality(S)
    PROVE  Elements(s) = S
<1>1. s \in [1..Len(s) -> S] /\ Len(s) \in Nat /\ DOMAIN s = 1..Len(s)
  BY LenProperties
<1>2. s \in Injection(1..Len(s), S)
  BY <1>1 DEF Injection, IsInjective, Once
<1>3. Cardinality(1..Len(s)) = Len(s)
  BY <1>1, FS_Interval
<1>4. s \in Surjection(1..Len(s), S)
  BY <1>2, <1>3, FS_Injection
<1>5. QED
  BY <1>1, <1>4 DEF Surjection, Elements

LEMMA AsManyAsElements ==
    ASSUME NEW S, NEW s \in Seq(S), Once(s)
    PROVE  Cardinality(Elements(s)) = Len(s)
<1>1. Len(s) \in Nat /\ DOMAIN s = 1..Len(s) /\ s \in [1..Len(s) -> S]
  BY LenProperties
<1>2. s \in Bijection(1..Len(s), Elements(s))
  BY <1>1 DEF Bijection, Injection, Surjection, IsInjective, Once, Elements
<1>3. IsFiniteSet(1..Len(s)) /\ Cardinality(1..Len(s)) = Len(s)
  BY <1>1, FS_Interval
<1>4. QED
  BY <1>2, <1>3, FS_Bijection DEF ExistsBijection

\* The same elements the other way round.
LEMMA TurnedAround ==
    ASSUME NEW S, NEW s \in Seq(S), Once(s)
    PROVE  /\ Reverse(s) \in Seq(S) /\ Len(Reverse(s)) = Len(s)
           /\ \A i \in 1..Len(s) : Reverse(s)[i] = s[(Len(s) - i) + 1]
           /\ Once(Reverse(s)) /\ Elements(Reverse(s)) = Elements(s)
<1> DEFINE r == Reverse(s)
           n == Len(s)
<1>1. n \in Nat /\ \A i \in 1..n : s[i] \in S
  BY LenProperties, ElementOfSeq
<1>2. r = [i \in 1..n |-> s[(n - i) + 1]]
  BY DEF Reverse
<1> HIDE DEF r, n
<1>3. \A i \in 1..n : (n - i) + 1 \in 1..n
  BY <1>1
<1>4. r \in [1..n -> S]
  BY <1>1, <1>2, <1>3
<1>5. r \in Seq(S) /\ Len(r) = n
  BY <1>1, <1>4, SeqDef
<1>6. \A i \in 1..n : r[i] = s[(n - i) + 1]
  BY <1>2
<1>7. Once(r)
  <2> SUFFICES ASSUME NEW i \in 1..n, NEW j \in 1..n, r[i] = r[j] PROVE i = j
    BY <1>5 DEF Once
  <2>1. (n - i) + 1 = (n - j) + 1
    BY <1>3, <1>6 DEF Once, n
  <2>2. QED
    BY <1>1, <2>1
<1>8. Elements(r) = Elements(s)
  <2>1. \A i \in 1..n : (n - ((n - i) + 1)) + 1 = i
    BY <1>1
  <2>2. \A i \in 1..n : s[i] \in {r[j] : j \in 1..n}
    <3> TAKE i \in 1..n
    <3>1. r[(n - i) + 1] = s[(n - ((n - i) + 1)) + 1]
      BY <1>3, <1>6
    <3>2. QED
      BY <1>3, <2>1, <3>1
  <2>3. \A i \in 1..n : r[i] \in {s[j] : j \in 1..n}
    BY <1>3, <1>6
  <2>4. Elements(r) = {r[j] : j \in 1..n} /\ Elements(s) = {s[j] : j \in 1..n}
    BY <1>5 DEF Elements, n
  <2>5. QED
    BY <2>2, <2>3, <2>4
<1>9. QED
  BY <1>5, <1>6, <1>7, <1>8 DEF r, n

-----------------------------------------------------------------------------
(* A row has each element of a set once.                                    *)

IsRow(s, S) == s \in Seq(S) /\ Once(s) /\ Elements(s) = S

\* A sequence without repetition is a row of its elements.
LEMMA RowIs ==
    ASSUME NEW X, NEW t \in Seq(X), Once(t) PROVE IsRow(t, Elements(t))
<1>1. Len(t) \in Nat /\ \A i \in 1..Len(t) : t[i] \in Elements(t)
  BY LenProperties DEF Elements
<1>2. t = [i \in 1..Len(t) |-> t[i]]
  BY LenProperties
<1>3. t \in [1..Len(t) -> Elements(t)]
  <2> DEFINE E == Elements(t)
             n == Len(t)
  <2>1. \A i \in 1..n : t[i] \in E
    BY <1>1
  <2> HIDE DEF E
  <2>2. [i \in 1..n |-> t[i]] \in [1..n -> E]
    BY <2>1
  <2>3. QED
    BY <1>2, <2>2 DEF E
<1>4. t \in Seq(Elements(t))
  BY <1>1, <1>3, IsASeq
<1>5. QED
  BY <1>4 DEF IsRow

\* What a row is.
LEMMA RowElements ==
    ASSUME NEW S, NEW s, IsRow(s, S)
    PROVE  /\ Len(s) \in Nat /\ DOMAIN s = 1..Len(s)
           /\ (s = <<>> <=> S = {}) /\ (Len(s) = 0 <=> S = {})
           /\ \A i \in 1..Len(s) : s[i] \in S
           /\ \A i, j \in 1..Len(s) : s[i] = s[j] => i = j
           /\ \A x \in S : \E i \in 1..Len(s) : s[i] = x
<1>1. s \in Seq(S) /\ Once(s) /\ Elements(s) = S
  BY DEF IsRow
<1>2. /\ Len(s) \in Nat /\ DOMAIN s = 1..Len(s) /\ (s = <<>> <=> Len(s) = 0)
      /\ \A i \in 1..Len(s) : s[i] \in S
  BY <1>1, LenProperties, EmptySeq, ElementOfSeq
<1>3. \A x \in S : \E i \in 1..Len(s) : s[i] = x
  BY <1>1 DEF Elements
<1>4. Len(s) = 0 <=> S = {}
  <2>1. Len(s) = 0 => 1..Len(s) = {}
    BY <1>2
  <2>2. Len(s) # 0 => 1 \in 1..Len(s)
    BY <1>2
  <2>3. QED
    BY <1>2, <1>3, <2>1, <2>2
<1>5. QED
  BY <1>1, <1>2, <1>3, <1>4 DEF Once

\* Two parts of a row, without what is between them.
LEMMA RowParts ==
    ASSUME NEW S, NEW s, IsRow(s, S), NEW i \in Nat, NEW j \in Nat, i <= j, j <= Len(s)
    PROVE  IsRow(SubSeq(s, 1, i) \o SubSeq(s, j + 1, Len(s)), {s[k] : k \in 1..i} \cup {s[k] : k \in j+1..Len(s)})
<1> DEFINE p == SubSeq(s, 1, i)
           r == SubSeq(s, j + 1, Len(s))
           t == p \o r
<1>1. s \in Seq(S)
  BY DEF IsRow
<1>2. PICK n \in Nat : n = Len(s) /\ j <= n
  BY RowElements
<1>3. p \in Seq(S) /\ Len(p) = i /\ \A k \in 1..i : p[k] = s[k]
  <2>1. 1 \in Nat \ {0} /\ 1 <= i + 1 /\ i <= Len(s) /\ (i + 1) - 1 = i /\ \A k \in 1..i : (1 - 1) + k = k
    BY <1>2
  <2>2. /\ SubSeq(s, 1, i) \in Seq(S) /\ Len(SubSeq(s, 1, i)) = (i + 1) - 1
        /\ \A k \in 1..(i + 1) - 1 : SubSeq(s, 1, i)[k] = s[(1 - 1) + k]
    BY <1>1, <2>1, Part
  <2>3. QED
    BY <2>1, <2>2
<1>4. r \in Seq(S) /\ Len(r) = n - j /\ \A k \in 1..n-j : r[k] = s[j + k]
  <2> DEFINE a == j + 1
  <2>1. a \in Nat \ {0} /\ a <= n + 1 /\ n <= Len(s) /\ (n + 1) - a = n - j /\ a - 1 = j
    BY <1>2
  <2> HIDE DEF a
  <2>2. /\ SubSeq(s, a, n) \in Seq(S) /\ Len(SubSeq(s, a, n)) = (n + 1) - a
        /\ \A k \in 1..(n + 1) - a : SubSeq(s, a, n)[k] = s[(a - 1) + k]
    BY <1>1, <2>1, Part
  <2>3. QED
    BY <1>2, <2>1, <2>2 DEF a
<1>5. /\ t \in Seq(S) /\ Len(t) = i + (n - j)
      /\ \A k \in 1..i+(n-j) : t[k] = IF k <= i THEN p[k] ELSE r[k-i]
  <2>1. p \in Seq(S) /\ r \in Seq(S) /\ Len(p) = i /\ Len(r) = n - j
    BY <1>3, <1>4
  <2> HIDE DEF p, r
  <2>2. /\ p \o r \in Seq(S) /\ Len(p \o r) = Len(p) + Len(r)
        /\ \A k \in 1..Len(p)+Len(r) : (p \o r)[k] = IF k <= Len(p) THEN p[k] ELSE r[k-Len(p)]
    BY <2>1, ConcatProperties
  <2>3. QED
    BY <2>1, <2>2
<1> HIDE DEF t, p, r
<1> DEFINE m == i + (n - j)
           from(k) == IF k <= i THEN k ELSE j + (k - i)
<1>6. m \in Nat /\ \A k \in 1..m : from(k) \in 1..n /\ (from(k) \in 1..i \/ from(k) \in j+1..n)
  BY <1>2
<1>7. \A k, l \in 1..m : from(k) = from(l) => k = l
  BY <1>2
<1>8. \A x \in 1..n : x \in 1..i \/ x \in j+1..n => \E k \in 1..m : from(k) = x
  <2> SUFFICES ASSUME NEW x \in 1..n, x \in 1..i \/ x \in j+1..n PROVE \E k \in 1..m : from(k) = x
    OBVIOUS
  <2>1. CASE x \in 1..i
    <3>1. x \in 1..m /\ from(x) = x
      BY <1>2, <2>1
    <3>2. QED
      BY <3>1
  <2>2. CASE x \in j+1..n
    <3>1. (x - j) + i \in 1..m /\ from((x - j) + i) = x
      BY <1>2, <2>2
    <3>2. QED
      BY <3>1
  <2>3. QED
    BY <2>1, <2>2
<1>9. \A k \in 1..m : t[k] = s[from(k)]
  <2> TAKE k \in 1..m
  <2>1. CASE k <= i
    <3>1. k \in 1..i
      BY <2>1
    <3>2. QED
      BY <1>3, <1>5, <2>1, <3>1
  <2>2. CASE ~(k <= i)
    <3>1. k - i \in 1..n-j
      BY <1>2, <2>2
    <3>2. QED
      BY <1>4, <1>5, <2>2, <3>1
  <2>3. QED
    BY <2>1, <2>2
<1>10. Len(t) = m
  BY <1>5
<1> HIDE DEF m, from
<1>11. Once(t)
  <2>1. \A k, l \in 1..n : s[k] = s[l] => k = l
    BY <1>2, RowElements
  <2>2. QED
    BY <1>6, <1>7, <1>9, <1>10, <2>1 DEF Once
<1>12. Elements(t) = {s[k] : k \in 1..i} \cup {s[k] : k \in j+1..n}
  <2>1. \A x \in (1..i) \cup (j+1..n) : x \in 1..n
    BY <1>2
  <2>2. ASSUME NEW x \in Elements(t) PROVE \E k \in (1..i) \cup (j+1..n) : x = s[k]
    <3>1. PICK k \in 1..m : x = t[k]
      BY <1>10 DEF Elements
    <3>2. QED
      BY <1>6, <1>9, <3>1
  <2>3. ASSUME NEW k \in (1..i) \cup (j+1..n) PROVE s[k] \in Elements(t)
    <3>1. PICK l \in 1..m : from(l) = k
      BY <1>8, <2>1
    <3>2. t[l] = s[k]
      BY <1>9, <3>1
    <3>3. QED
      BY <1>10, <3>2 DEF Elements
  <2>4. QED
    BY <2>2, <2>3
<1>13. IsRow(t, Elements(t))
  BY <1>5, <1>11, RowIs
<1>14. QED
  BY <1>2, <1>12, <1>13 DEF t, p, r

\* A row without one of its elements.
LEMMA RowWithout ==
    ASSUME NEW S, NEW s, IsRow(s, S), NEW i \in 1..Len(s)
    PROVE  IsRow(RemoveAt(s, i), S \ {s[i]})
<1>1. PICK n \in Nat : n = Len(s) /\ i \in 1..n
  BY RowElements
<1> DEFINE a == i - 1
<1>2. a \in Nat /\ i \in Nat /\ a <= i /\ i <= Len(s)
  BY <1>1
<1>3. IsRow(RemoveAt(s, i), {s[k] : k \in 1..a} \cup {s[k] : k \in i+1..n})
  <2> HIDE DEF a
  <2>1. IsRow(SubSeq(s, 1, a) \o SubSeq(s, i + 1, Len(s)), {s[k] : k \in 1..a} \cup {s[k] : k \in i+1..Len(s)})
    BY <1>2, RowParts
  <2>2. QED
    BY <1>1, <2>1 DEF RemoveAt, a
<1>4. /\ \A k \in 1..n : s[k] \in S /\ (s[k] = s[i] => k = i)
      /\ \A x \in S : \E k \in 1..n : s[k] = x
  BY <1>1, RowElements
<1>5. \A k \in 1..n : k \in 1..a \/ k \in i+1..n \/ k = i
  BY <1>1
<1>6. \A k \in (1..a) \cup (i+1..n) : k \in 1..n /\ k # i
  BY <1>1
<1> HIDE DEF a
<1>7. {s[k] : k \in 1..a} \cup {s[k] : k \in i+1..n} = S \ {s[i]}
  <2>1. ASSUME NEW x \in S \ {s[i]} PROVE \E k \in (1..a) \cup (i+1..n) : s[k] = x
    BY <1>4, <1>5
  <2>2. \A k \in (1..a) \cup (i+1..n) : s[k] \in S \ {s[i]}
    BY <1>4, <1>6
  <2>3. QED
    BY <2>1, <2>2
<1>8. QED
  BY <1>3, <1>7

\* The sequences of the community modules that list a set are its rows.
LEMMA RowIsListing == ASSUME NEW S, NEW s, IsRow(s, S) PROVE s \in SetToSeqs(S)
<1>1. s \in Seq(S) /\ Once(s) /\ Elements(s) = S
  BY DEF IsRow
<1>2. Cardinality(S) = Len(s)
  BY <1>1, AsManyAsElements
<1>3. s \in [1..Len(s) -> S]
  BY <1>1, LenProperties
<1>4. QED
  BY <1>1, <1>2, <1>3 DEF SetToSeqs, Once

LEMMA ListingIsRow == ASSUME NEW S, IsFiniteSet(S) PROVE IsRow(SetToSeq(S), S)
<1> DEFINE n == Cardinality(S)
           s == SetToSeq(S)
<1>1. n \in Nat /\ ExistsBijection(1..n, S)
  BY FS_CardinalityType
<1>2. \E f \in [1..n -> S] : IsInjective(f)
  BY <1>1 DEF ExistsBijection, Bijection, Injection
<1>3. s \in [1..n -> S] /\ IsInjective(s)
  BY <1>2 DEF SetToSeq
<1> HIDE DEF s
<1>4. s \in Seq(S) /\ DOMAIN s = 1..n
  BY <1>1, <1>3, IsASeq
<1>5. Len(s) = n
  BY <1>1, <1>4, LenProperties, SameLength
<1>6. Once(s)
  BY <1>3, <1>4, <1>5 DEF Once, IsInjective
<1>7. QED
  BY <1>4, <1>5, <1>6, AllOfThem DEF IsRow, s

-----------------------------------------------------------------------------
(* Sequences of sequences, put behind each other.                           *)

\* Where the brackets are makes no difference.
Regroups(x, y, z) == (x \o y) \o z = x \o (y \o z)
LEMMA Regrouped ==
    ASSUME NEW X, NEW x \in Seq(X), NEW y \in Seq(X), NEW z \in Seq(X)
    PROVE  Regroups(x, y, z) /\ x \o y \in Seq(X)
BY ConcatAssociative, ConcatProperties DEF Regroups

(* A set with the empty sequence and every longer one has every sequence.   *)
LEMMA AppendInduction ==
    ASSUME NEW X, NEW T, <<>> \in T, \A s \in Seq(X), e \in X : s \in T => Append(s, e) \in T
    PROVE  Seq(X) \subseteq T
<1> DEFINE N == {n \in Nat : \A s \in Seq(X) : Len(s) = n => s \in T}
<1>1. 0 \in N
  BY EmptySeq
<1>2. ASSUME NEW n \in Nat, n \in N PROVE n + 1 \in N
  <2> SUFFICES ASSUME NEW s \in Seq(X), Len(s) = n + 1 PROVE s \in T
    OBVIOUS
  <2>1. s # <<>>
    BY EmptySeq
  <2>2. PICK t \in Seq(X), e \in X : s = Append(t, e)
    BY <2>1, SequenceEmptyOrAppend
  <2>3. Len(s) = Len(t) + 1 /\ Len(t) \in Nat
    BY <2>2, AppendProperties, LenProperties
  <2>4. t \in T
    BY <1>2, <2>3
  <2>5. QED
    BY <2>2, <2>4
<1>3. Nat \subseteq N
  <2> HIDE DEF N
  <2>1. QED
    BY <1>1, <1>2, SetInduction
<1>4. QED
  BY <1>3, LenProperties

(* A function that puts the sequences behind each other knows what they make.*)
LEMMA FlattenIs ==
    ASSUME NEW S, NEW n \in Nat, NEW ss \in Seq(Seq(S)), Len(ss) = n,
           NEW g \in [0..n -> Seq(S)], g[0] = <<>>, \A k \in 1..n : g[k] = g[k-1] \o ss[k]
    PROVE  FlattenSeq(ss) = g[n]
<1> DEFINE Is(h) == h = [i \in 1..n |-> IF i = 1 THEN ss[i] ELSE h[i-1] \o ss[i]]
           f == [i \in 1..n |-> g[i]]
           h == CHOOSE x : Is(x)
<1>1. \A i \in 1..n : f[i] = IF i = 1 THEN ss[i] ELSE f[i-1] \o ss[i]
  <2> TAKE i \in 1..n
  <2>1. CASE i = 1
    <3>0. 1 \in 1..n /\ 1 - 1 = 0
      BY <2>1
    <3>1. g[1] = g[0] \o ss[1] /\ ss[1] \in Seq(S)
      BY <3>0, ElementOfSeq
    <3>2. g[1] = ss[1]
      BY <3>1, ConcatEmptySeq
    <3>3. QED
      BY <2>1, <3>2
  <2>2. CASE i # 1
    <3>1. i - 1 \in 1..n
      BY <2>2
    <3>2. QED
      BY <2>2, <3>1
  <2>3. QED
    BY <2>1, <2>2
<1>2. f = [i \in 1..n |-> f[i]] /\ \A i \in 1..n : f[i] = g[i]
  OBVIOUS
<1> HIDE DEF f
<1>3. Is(f)
  BY <1>1, <1>2
<1>4. Is(h)
  <2> HIDE DEF Is
  <2>1. QED
    BY <1>3
<1> HIDE DEF h
<1>5. \A i \in 1..n : h[i] = IF i = 1 THEN ss[i] ELSE h[i-1] \o ss[i]
  BY <1>4
<1> DEFINE T == {i \in Nat : i \in 1..n => h[i] = f[i]}
<1>6. 0 \in T
  OBVIOUS
<1>7. ASSUME NEW k \in Nat, k \in T PROVE k + 1 \in T
  <2> SUFFICES ASSUME k + 1 \in 1..n PROVE h[k+1] = f[k+1]
    OBVIOUS
  <2>1. (k + 1) - 1 = k /\ (k + 1 # 1 => k \in 1..n)
    OBVIOUS
  <2>2. CASE k + 1 = 1
    BY <1>1, <1>5, <2>2
  <2>3. CASE k + 1 # 1
    <3>1. h[k+1] = h[k] \o ss[k+1]
      BY <1>5, <2>1, <2>3
    <3>2. f[k+1] = f[k] \o ss[k+1]
      BY <1>1, <2>1, <2>3
    <3>3. h[k] = f[k]
      BY <1>7, <2>1, <2>3
    <3>4. QED
      BY <3>1, <3>2, <3>3
  <2>4. QED
    BY <2>2, <2>3
<1>8. n # 0 => h[n] = g[n]
  <2>1. Nat \subseteq T
    <3> HIDE DEF T
    <3>1. QED
      BY <1>6, <1>7, SetInduction
  <2>2. n # 0 => n \in 1..n
    OBVIOUS
  <2>3. QED
    BY <1>2, <2>1, <2>2
<1>9. CASE n = 0
  <2>1. ss = <<>>
    BY <1>9, EmptySeq
  <2>2. FlattenSeq(ss) = ss
    BY <1>9 DEF FlattenSeq
  <2>3. QED
    BY <1>9, <2>1, <2>2
<1>10. CASE n # 0
  <2>1. FlattenSeq(ss) = h[n]
    BY <1>10 DEF FlattenSeq, h
  <2>2. QED
    BY <1>8, <1>10, <2>1
<1>11. QED
  BY <1>9, <1>10

Flattens(g, ss, X) ==
    /\ g \in [0..Len(ss) -> Seq(X)]
    /\ g[0] = <<>> /\ \A k \in 1..Len(ss) : g[k] = g[k-1] \o ss[k]
    /\ FlattenSeq(ss) = g[Len(ss)]

LEMMA FlattenRuns == ASSUME NEW X, NEW ss \in Seq(Seq(X)) PROVE \E g : Flattens(g, ss, X)
<1>0. PICK n : n = Len(ss)
  OBVIOUS
<1> DEFINE F == [p \in (1..n) \X Seq(X) |-> p[2] \o ss[p[1]]]
<1>1. n \in Nat /\ \A k \in 1..n : ss[k] \in Seq(X)
  BY <1>0, LenProperties, ElementOfSeq
<1>2. F \in [(1..n) \X Seq(X) -> Seq(X)]
  <2>1. ASSUME NEW p \in (1..n) \X Seq(X) PROVE p[2] \o ss[p[1]] \in Seq(X)
    <3>1. p[2] \in Seq(X) /\ ss[p[1]] \in Seq(X)
      BY <1>1
    <3>2. QED
      BY <3>1, ConcatProperties
  <2>2. QED
    BY <2>1
<1>3. \A k \in 1..n, t \in Seq(X) : F[<<k, t>>] = t \o ss[k]
  OBVIOUS
<1>4. <<>> \in Seq(X)
  BY EmptySeq
<1> HIDE DEF F
<1>5. PICK g \in [0..n -> Seq(X)] : IsRecursiveTo(n, g, <<>>, F)
  BY <1>1, <1>2, <1>4, RecursionUpTo
<1>6. g[0] = <<>> /\ \A k \in 1..n : g[k] = F[<<k, g[k-1]>>]
  BY <1>5 DEF IsRecursiveTo
<1>7. ASSUME NEW k \in 1..n PROVE g[k] = g[k-1] \o ss[k]
  <2>1. k - 1 \in 0..n
    BY <1>1
  <2>2. g[k-1] \in Seq(X)
    BY <2>1
  <2>3. QED
    BY <1>3, <1>6, <2>2
<1>8. FlattenSeq(ss) = g[n]
  BY <1>0, <1>1, <1>6, <1>7, FlattenIs
<1>9. QED
  BY <1>0, <1>6, <1>7, <1>8 DEF Flattens

LEMMA FlattenNone == FlattenSeq(<<>>) = <<>>
<1>1. Len(<<>>) = 0
  BY EmptySeq
<1>2. QED
  BY <1>1 DEF FlattenSeq

LEMMA FlattenAppend ==
    ASSUME NEW X, NEW ss \in Seq(Seq(X)), NEW e \in Seq(X)
    PROVE  /\ FlattenSeq(Append(ss, e)) = FlattenSeq(ss) \o e
           /\ FlattenSeq(ss) \in Seq(X) /\ FlattenSeq(Append(ss, e)) \in Seq(X)
<1> DEFINE tt == Append(ss, e)
<1>1. PICK n \in Nat : n = Len(ss)
  BY LenProperties
<1>2. PICK g \in [0..n -> Seq(X)] :
        g[0] = <<>> /\ (\A k \in 1..n : g[k] = g[k-1] \o ss[k]) /\ FlattenSeq(ss) = g[n]
  BY <1>1, FlattenRuns DEF Flattens
<1>3. /\ tt \in Seq(Seq(X)) /\ Len(tt) = n + 1
      /\ \A i \in 1..n : tt[i] = ss[i]
      /\ tt[n+1] = e
  BY <1>1, AppendProperties
<1>4. g[n] \in Seq(X)
  BY <1>1
<1>5. g[n] \o e \in Seq(X)
  BY <1>4, ConcatProperties
<1> DEFINE f == [k \in 0..n+1 |-> IF k <= n THEN g[k] ELSE g[n] \o e]
<1>6. /\ f \in [0..n+1 -> Seq(X)]
      /\ \A k \in 0..n : f[k] = g[k]
      /\ f[n+1] = g[n] \o e
  BY <1>1, <1>5
<1> HIDE DEF f, tt
<1>7. f[0] = <<>>
  BY <1>1, <1>2, <1>6
<1>8. ASSUME NEW k \in 1..n+1 PROVE f[k] = f[k-1] \o tt[k]
  <2>0. k <= n \/ k = n + 1
    BY <1>1
  <2>1. CASE k <= n
    <3>1. k \in 1..n /\ k \in 0..n /\ k - 1 \in 0..n
      BY <1>1, <2>1
    <3>2. QED
      BY <1>2, <1>3, <1>6, <3>1
  <2>2. CASE k = n + 1
    <3>1. k - 1 = n /\ n \in 0..n
      BY <1>1, <2>2
    <3>2. QED
      BY <1>3, <1>6, <2>2, <3>1
  <2>3. QED
    BY <2>0, <2>1, <2>2
<1>9. FlattenSeq(tt) = f[n+1]
  <2>1. n + 1 \in Nat
    BY <1>1
  <2>2. QED
    BY <1>3, <1>6, <1>7, <1>8, <2>1, FlattenIs
<1>10. QED
  BY <1>2, <1>4, <1>5, <1>6, <1>9 DEF tt

LEMMA FlattenType == ASSUME NEW X, NEW ss \in Seq(Seq(X)) PROVE FlattenSeq(ss) \in Seq(X)
<1>1. <<>> \in Seq(X)
  BY EmptySeq
<1>2. QED
  BY <1>1, FlattenAppend

LEMMA FlattenOne == ASSUME NEW X, NEW e \in Seq(X) PROVE FlattenSeq(<<e>>) = e
<1>1. <<>> \in Seq(Seq(X))
  BY EmptySeq
<1>2. FlattenSeq(Append(<<>>, e)) = FlattenSeq(<<>>) \o e
  BY <1>1, FlattenAppend
<1>3. Append(<<>>, e) = <<>> \o <<e>> /\ <<>> \o <<e>> = <<e>>
  <2>1. Append(<<>>, e) = <<>> \o <<e>>
    BY <1>1, AppendIsConcat
  <2>2. <<e>> \in Seq(Seq(X))
    OBVIOUS
  <2>3. QED
    BY <2>1, <2>2, ConcatEmptySeq
<1>4. <<>> \o e = e
  BY ConcatEmptySeq
<1>5. QED
  BY <1>2, <1>3, <1>4, FlattenNone

LEMMA FlattenConcat ==
    ASSUME NEW X, NEW ss \in Seq(Seq(X)), NEW tt \in Seq(Seq(X))
    PROVE  FlattenSeq(ss \o tt) = FlattenSeq(ss) \o FlattenSeq(tt)
<1> DEFINE Q == Seq(X)
           T == {t \in Seq(Q) : FlattenSeq(ss \o t) = FlattenSeq(ss) \o FlattenSeq(t)}
<1>1. <<>> \in T
  <2>1. ss \o <<>> = ss
    BY ConcatEmptySeq
  <2>2. FlattenSeq(ss) \in Seq(X)
    BY FlattenType
  <2>3. FlattenSeq(ss) \o <<>> = FlattenSeq(ss)
    BY <2>2, ConcatEmptySeq
  <2>4. <<>> \in Seq(Q)
    BY EmptySeq
  <2>5. QED
    BY <2>1, <2>3, <2>4, FlattenNone
<1>2. ASSUME NEW t \in Seq(Q), NEW e \in Q, t \in T PROVE Append(t, e) \in T
  <2>1. Append(t, e) \in Seq(Q) /\ Append(t, e) = t \o <<e>> /\ <<e>> \in Seq(Q)
    BY AppendProperties, AppendIsConcat
  <2>2. ss \o (t \o <<e>>) = (ss \o t) \o <<e>> /\ ss \o t \in Seq(Q)
    <3>1. Regroups(ss, t, <<e>>) /\ ss \o t \in Seq(Q)
      BY <2>1, Regrouped
    <3>2. QED
      BY <3>1 DEF Regroups
  <2>3. (ss \o t) \o <<e>> = Append(ss \o t, e)
    BY <2>2, AppendIsConcat
  <2>4. FlattenSeq(ss \o Append(t, e)) = FlattenSeq(ss \o t) \o e
    <3>1. ss \o Append(t, e) = Append(ss \o t, e)
      BY <2>1, <2>2, <2>3
    <3>2. FlattenSeq(Append(ss \o t, e)) = FlattenSeq(ss \o t) \o e
      BY <2>2, FlattenAppend
    <3>3. QED
      BY <3>1, <3>2
  <2>5. FlattenSeq(Append(t, e)) = FlattenSeq(t) \o e
    BY FlattenAppend
  <2>6. FlattenSeq(ss) \in Seq(X) /\ FlattenSeq(t) \in Seq(X)
    BY FlattenType
  <2>7. (FlattenSeq(ss) \o FlattenSeq(t)) \o e = FlattenSeq(ss) \o (FlattenSeq(t) \o e)
    <3>1. e \in Seq(X)
      OBVIOUS
    <3>2. Regroups(FlattenSeq(ss), FlattenSeq(t), e)
      BY ONLY <2>6, <3>1, Regrouped
    <3>3. QED
      BY <3>2 DEF Regroups
  <2>8. FlattenSeq(ss \o t) = FlattenSeq(ss) \o FlattenSeq(t)
    BY <1>2
  <2>9. QED
    BY <2>1, <2>4, <2>5, <2>7, <2>8
<1>3. Seq(Q) \subseteq T
  <2> HIDE DEF T
  <2>1. QED
    BY <1>1, <1>2, AppendInduction
<1>4. QED
  BY <1>3

(* The first, and the others.                                               *)
LEMMA FlattenFirst ==
    ASSUME NEW X, NEW ss \in Seq(Seq(X)), ss # <<>>
    PROVE  /\ FlattenSeq(ss) = Head(ss) \o FlattenSeq(Tail(ss))
           /\ Head(ss) \in Seq(X) /\ Tail(ss) \in Seq(Seq(X)) /\ FlattenSeq(Tail(ss)) \in Seq(X)
<1>1. Head(ss) \in Seq(X) /\ Tail(ss) \in Seq(Seq(X))
  BY HeadTailProperties
<1>2. <<Head(ss)>> \in Seq(Seq(X)) /\ ss = <<Head(ss)>> \o Tail(ss)
  <2>1. Len(ss) \in Nat \ {0} /\ 1 \in 1..Len(ss) /\ Len(ss) \in 1..Len(ss)
    BY EmptySeq
  <2>2. SubSeq(ss, 1, Len(ss)) = <<ss[1]>> \o SubSeq(ss, 2, Len(ss))
    BY <2>1, SubSeqRecursiveFirst, 1 + 1 = 2
  <2>3. Tail(ss) = SubSeq(ss, 2, Len(ss)) /\ SubSeq(ss, 1, Len(ss)) = ss
    BY TailIsSubSeq, SubSeqFull
  <2>4. Head(ss) = ss[1]
    OBVIOUS
  <2>5. <<Head(ss)>> \in Seq(Seq(X))
    BY <1>1
  <2>6. QED
    BY <2>2, <2>3, <2>4, <2>5
<1>3. FlattenSeq(ss) = FlattenSeq(<<Head(ss)>>) \o FlattenSeq(Tail(ss))
  BY <1>1, <1>2, FlattenConcat
<1>4. FlattenSeq(<<Head(ss)>>) = Head(ss)
  BY <1>1, FlattenOne
<1>5. QED
  BY <1>1, <1>3, <1>4, FlattenType
=============================================================================
