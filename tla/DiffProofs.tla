------------------------------ MODULE DiffProofs -----------------------------
(* The hunks of a comparison turn the left state into the right one, for all *)
(* states and efforts.  The argument follows the comparison: the lines       *)
(* trimmed from both ends are equal, and the lines to align rise through     *)
(* what is left (LinesIInv); the regions that wait in align, from the top of *)
(* the stack on, climb through it, and the pairs of equal lines found so far *)
(* lead up to the first of them (AlignIInv); the runs of the script lead     *)
(* from one corner of the two states to the other, and each hunk is a        *)
(* stretch of them (ResultIInv).                                             *)
EXTENDS Diff, Foundations

-----------------------------------------------------------------------------
(* The recursive helpers of the model.                                      *)

\* Numbers that rise, all below n.
Rising(s, n) ==
    /\ s \in Seq(Nat)
    /\ \A i \in 1..Len(s) : s[i] < n
    /\ \A i, j \in 1..Len(s) : i < j => s[i] < s[j]

LEMMA OneMoreRises ==
    ASSUME NEW n \in Nat, NEW s, Rising(s, n)
    PROVE  Rising(Append(s, n), n + 1) /\ Rising(s, n + 1)
<1>1. PICK m \in Nat : m = Len(s)
  BY LenProperties DEF Rising
<1>2. /\ s \in Seq(Nat) /\ \A i \in 1..m : s[i] \in Nat /\ s[i] < n
      /\ \A i, j \in 1..m : i < j => s[i] < s[j]
  BY <1>1, ElementOfSeq DEF Rising
<1>3. PICK t \in Seq(Nat) : t = Append(s, n) /\ Len(t) = m + 1 /\ t[m+1] = n /\ \A i \in 1..m : t[i] = s[i]
  <2>1. /\ Append(s, n) \in Seq(Nat) /\ Len(Append(s, n)) = Len(s) + 1 /\ Append(s, n)[Len(s)+1] = n
        /\ \A i \in 1..Len(s) : Append(s, n)[i] = s[i]
    BY <1>2, AppendProperties
  <2>2. QED
    BY <1>1, <2>1
<1>4. \A i \in 1..m+1 : t[i] < n + 1
  BY <1>2, <1>3
<1>5. \A i, j \in 1..m+1 : i < j => t[i] < t[j]
  BY <1>2, <1>3
<1>6. Rising(t, n + 1)
  BY <1>3, <1>4, <1>5 DEF Rising
<1>7. Rising(s, n + 1)
  BY <1>1, <1>2 DEF Rising
<1>8. QED
  BY <1>3, <1>6, <1>7

\* InOrder lists the positions.
Lists(s, n, positions) == Rising(s, n) /\ \A i \in 1..Len(s) : s[i] \in positions

LEMMA InOrderLists ==
    ASSUME NEW n \in Nat, NEW positions
    PROVE  Lists(InOrder(n, positions), n, positions)
<1> DEFINE F == [p \in (1..n) \X Seq(Nat) |-> IF p[1] - 1 \in positions THEN Append(p[2], p[1] - 1) ELSE p[2]]
           P(f) == f = [k \in 0..n |-> IF k = 0 THEN << >>
                                       ELSE IF k - 1 \in positions THEN Append(f[k-1], k - 1) ELSE f[k-1]]
           U == CHOOSE f : P(f)
<1>1. InOrder(n, positions) = U[n]
  BY DEF InOrder
<1>2. PICK f \in [0..n -> Seq(Nat)] : IsRecursiveTo(n, f, << >>, F)
  <2>1. << >> \in Seq(Nat)
    BY EmptySeq
  <2>2. F \in [(1..n) \X Seq(Nat) -> Seq(Nat)]
    <3>1. \A p \in (1..n) \X Seq(Nat) : p[1] - 1 \in Nat /\ p[2] \in Seq(Nat)
      OBVIOUS
    <3>2. \A p \in (1..n) \X Seq(Nat) : Append(p[2], p[1] - 1) \in Seq(Nat)
      BY <3>1, AppendProperties
    <3>3. QED
      BY <3>1, <3>2
  <2> HIDE DEF F
  <2>3. QED
    BY <2>1, <2>2, RecursionUpTo
<1>3. P(f)
  <2>1. f[0] = << >> /\ \A k \in 1..n : f[k] = F[<<k, f[k-1]>>]
    BY <1>2 DEF IsRecursiveTo
  <2>2. \A k \in 1..n : <<k, f[k-1]>> \in (1..n) \X Seq(Nat)
    BY <1>2
  <2>3. \A k \in 1..n : f[k] = IF k - 1 \in positions THEN Append(f[k-1], k - 1) ELSE f[k-1]
    BY <2>1, <2>2
  <2>4. \A k \in 0..n : f[k] = IF k = 0 THEN << >>
                               ELSE IF k - 1 \in positions THEN Append(f[k-1], k - 1) ELSE f[k-1]
    <3> HIDE DEF F
    <3>1. \A k \in 0..n : k = 0 \/ k \in 1..n
      OBVIOUS
    <3>2. QED
      BY <2>1, <2>3, <3>1
  <2>5. QED
    BY <1>2, <2>4
<1>4. P(U)
  <2> HIDE DEF P
  <2>1. QED
    BY <1>3
<1>5. \A k \in 0..n : U[k] = IF k = 0 THEN << >>
                             ELSE IF k - 1 \in positions THEN Append(U[k-1], k - 1) ELSE U[k-1]
  <2> HIDE DEF U
  <2>1. QED
    BY <1>4
<1> HIDE DEF U, P, F
<1> DEFINE S == {k \in 0..n : Lists(U[k], k, positions)}
<1>6. 0 \in S
  <2>1. U[0] = << >>
    BY <1>5
  <2>2. Lists(<< >>, 0, positions)
    BY EmptySeq DEF Lists, Rising
  <2>3. QED
    BY <2>1, <2>2
<1>7. ASSUME NEW k \in 0..n-1, k \in S PROVE k + 1 \in S
  <2>1. k \in Nat /\ k + 1 \in 0..n /\ k + 1 # 0 /\ (k + 1) - 1 = k
    OBVIOUS
  <2>2. U[k+1] = IF k \in positions THEN Append(U[k], k) ELSE U[k]
    BY <1>5, <2>1
  <2>3. PICK s : s = U[k]
    OBVIOUS
  <2>4. Lists(s, k, positions)
    BY <1>7, <2>3
  <2>5. Rising(Append(s, k), k + 1) /\ Rising(s, k + 1)
    BY <2>1, <2>4, OneMoreRises DEF Lists
  <2>6. k \in positions => \A i \in 1..Len(Append(s, k)) : Append(s, k)[i] \in positions
    <3>1. s \in Seq(Nat)
      BY <2>4 DEF Lists, Rising
    <3>2. /\ Len(Append(s, k)) = Len(s) + 1 /\ Len(s) \in Nat /\ Append(s, k)[Len(s) + 1] = k
          /\ \A i \in 1..Len(s) : Append(s, k)[i] = s[i]
      BY <2>1, <3>1, AppendProperties, LenProperties
    <3>3. \A i \in 1..Len(s) : s[i] \in positions
      BY <2>4 DEF Lists
    <3>4. QED
      BY <3>2, <3>3
  <2>7. Lists(U[k+1], k + 1, positions)
    BY <2>2, <2>3, <2>4, <2>5, <2>6 DEF Lists
  <2>8. QED
    BY <2>1, <2>7
<1>8. 0..n \subseteq S
  <2> HIDE DEF S
  <2>1. QED
    BY <1>6, <1>7, UpTo
<1>9. QED
  BY <1>1, <1>8

\* Count adds up, one run after another.
RunType == [op : {"equal", "delete", "insert"}, left : Nat, right : Nat, count : Nat]
Counted(run, ops) == IF run.op \in ops THEN run.count ELSE 0

LEMMA CountRuns ==
    ASSUME NEW runs \in Seq(RunType), NEW ops
    PROVE  \E f \in [0..Len(runs) -> Nat] :
              /\ Count(runs, ops) = f[Len(runs)] /\ f[0] = 0
              /\ \A i \in 1..Len(runs) : f[i] = f[i-1] + Counted(runs[i], ops)
<1> DEFINE n == Len(runs)
           F == [p \in (1..n) \X Nat |-> p[2] + Counted(runs[p[1]], ops)]
           P(f) == f = [i \in 0..n |-> IF i = 0 THEN 0
                                       ELSE f[i-1] + (IF runs[i].op \in ops THEN runs[i].count ELSE 0)]
           U == CHOOSE f : P(f)
<1>1. Count(runs, ops) = U[n]
  BY DEF Count
<1>2. n \in Nat /\ \A i \in 1..n : Counted(runs[i], ops) \in Nat
  <2>1. n \in Nat /\ \A i \in 1..n : runs[i] \in RunType
    BY LenProperties, ElementOfSeq
  <2>2. QED
    BY <2>1 DEF Counted, RunType
<1> HIDE DEF n
<1>3. PICK f \in [0..n -> Nat] : IsRecursiveTo(n, f, 0, F)
  <2>1. F \in [(1..n) \X Nat -> Nat]
    <3>1. \A p \in (1..n) \X Nat : p[2] + Counted(runs[p[1]], ops) \in Nat
      <4> SUFFICES ASSUME NEW p \in (1..n) \X Nat PROVE p[2] + Counted(runs[p[1]], ops) \in Nat
        OBVIOUS
      <4>1. p[2] \in Nat /\ p[1] \in 1..n
        OBVIOUS
      <4>2. Counted(runs[p[1]], ops) \in Nat
        BY <1>2, <4>1
      <4>3. QED
        BY <4>1, <4>2
    <3>2. QED
      BY <3>1
  <2> HIDE DEF F
  <2>2. QED
    BY <1>2, <2>1, RecursionUpTo
<1>4. f[0] = 0 /\ \A i \in 1..n : f[i] = f[i-1] + Counted(runs[i], ops)
  <2>1. f[0] = 0 /\ \A i \in 1..n : f[i] = F[<<i, f[i-1]>>]
    BY <1>3 DEF IsRecursiveTo
  <2>2. \A i \in 1..n : <<i, f[i-1]>> \in (1..n) \X Nat
    BY <1>2, <1>3
  <2>3. QED
    BY <2>1, <2>2
<1> HIDE DEF F
<1>5. P(f)
  <2>1. \A i \in 0..n : f[i] = IF i = 0 THEN 0 ELSE f[i-1] + (IF runs[i].op \in ops THEN runs[i].count ELSE 0)
    <3>1. \A i \in 0..n : i = 0 \/ i \in 1..n
      BY <1>2
    <3>2. QED
      BY <1>4, <3>1 DEF Counted
  <2>2. QED
    BY <1>3, <2>1
<1>6. P(U)
  <2> HIDE DEF P
  <2>1. QED
    BY <1>5
<1>7. /\ U = [i \in 0..n |-> U[i]]
      /\ \A i \in 0..n : U[i] = IF i = 0 THEN 0 ELSE U[i-1] + (IF runs[i].op \in ops THEN runs[i].count ELSE 0)
  <2> HIDE DEF U
  <2>1. QED
    BY <1>6
<1> HIDE DEF U, P
<1>8. U[0] = 0 /\ \A i \in 1..n : U[i] = U[i-1] + Counted(runs[i], ops)
  <2>1. 0 \in 0..n /\ \A i \in 1..n : i \in 0..n /\ i # 0
    BY <1>2
  <2>2. QED
    BY <1>7, <2>1 DEF Counted
<1> DEFINE S == {i \in 0..n : U[i] \in Nat}
<1>9. 0..n \subseteq S
  <2>1. 0 \in S
    BY <1>2, <1>8
  <2>2. ASSUME NEW i \in 0..n-1, i \in S PROVE i + 1 \in S
    <3>1. i + 1 \in 1..n /\ i + 1 \in 0..n /\ (i + 1) - 1 = i /\ U[i] \in Nat
      BY <1>2, <2>2
    <3>2. U[i+1] = U[i] + Counted(runs[i+1], ops) /\ Counted(runs[i+1], ops) \in Nat
      BY <1>2, <1>8, <3>1
    <3>3. QED
      BY <3>1, <3>2
  <2> HIDE DEF S
  <2>3. QED
    BY <1>2, <2>1, <2>2, UpTo
<1>10. U \in [0..n -> Nat]
  BY <1>7, <1>9
<1>11. QED
  BY <1>1, <1>8, <1>10 DEF n

-----------------------------------------------------------------------------
(* Pairs of positions that climb, from one corner up to another.            *)

Climbs(s, E, p, q, u, v) ==
    /\ s \in Seq(E)
    /\ \A i \in 1..Len(s) : p <= s[i][1] /\ s[i][1] < u /\ q <= s[i][2] /\ s[i][2] < v
    /\ \A i, j \in 1..Len(s) : i < j => s[i][1] < s[j][1] /\ s[i][2] < s[j][2]

LEMMA NothingClimbs == ASSUME NEW E, NEW p, NEW q, NEW u, NEW v PROVE Climbs(<< >>, E, p, q, u, v)
BY EmptySeq DEF Climbs

\* A corner between two sequences, to join them.
Joins(s, t, E, p, q, u, v, w, z) == Climbs(s, E, p, q, u, v) /\ Climbs(t, E, u, v, w, z)
LEMMA ClimbOn ==
    ASSUME NEW E \in SUBSET (Nat \X Nat), NEW p \in Nat, NEW q \in Nat, NEW u \in Nat, NEW v \in Nat,
           NEW w \in Nat, NEW z \in Nat, p <= u, q <= v, u <= w, v <= z,
           NEW s, NEW t, Joins(s, t, E, p, q, u, v, w, z)
    PROVE  Climbs(s \o t, E, p, q, w, z)
<1>0. /\ p \in Nat /\ q \in Nat /\ u \in Nat /\ v \in Nat /\ w \in Nat /\ z \in Nat
      /\ p <= u /\ q <= v /\ u <= w /\ v <= z
  OBVIOUS
<1>1. /\ s \in Seq(E) /\ t \in Seq(E)
  BY DEF Joins, Climbs
<1>2. PICK m \in Nat, n \in Nat : m = Len(s) /\ n = Len(t)
  BY <1>1, LenProperties
<1>3. /\ \A i \in 1..m : s[i][1] \in Nat /\ s[i][2] \in Nat
      /\ \A i \in 1..n : t[i][1] \in Nat /\ t[i][2] \in Nat
  <2>1. (\A i \in 1..m : s[i] \in E) /\ (\A i \in 1..n : t[i] \in E)
    BY <1>1, <1>2, ElementOfSeq
  <2>2. QED
    BY <2>1
<1>4. /\ \A i \in 1..m : p <= s[i][1] /\ s[i][1] < u /\ q <= s[i][2] /\ s[i][2] < v
      /\ \A i, j \in 1..m : i < j => s[i][1] < s[j][1] /\ s[i][2] < s[j][2]
      /\ \A i \in 1..n : u <= t[i][1] /\ t[i][1] < w /\ v <= t[i][2] /\ t[i][2] < z
      /\ \A i, j \in 1..n : i < j => t[i][1] < t[j][1] /\ t[i][2] < t[j][2]
  BY <1>2 DEF Joins, Climbs
<1>5. PICK r \in Seq(E) : /\ r = s \o t /\ Len(r) = m + n
                         /\ \A i \in 1..m+n : r[i] = IF i <= m THEN s[i] ELSE t[i - m]
  <2>1. /\ s \o t \in Seq(E) /\ Len(s \o t) = Len(s) + Len(t)
        /\ \A i \in 1..Len(s)+Len(t) : (s \o t)[i] = IF i <= Len(s) THEN s[i] ELSE t[i - Len(s)]
    BY <1>1, ConcatProperties
  <2>2. QED
    BY <1>2, <2>1
<1>n. m \in Nat /\ n \in Nat
  OBVIOUS
<1>m. /\ \A i \in 1..m+n : i <= m => i \in 1..m /\ r[i] = s[i]
      /\ \A i \in 1..m+n : i > m => i - m \in 1..n /\ r[i] = t[i - m]
  <2>1. \A i \in 1..m+n : r[i] = IF i <= m THEN s[i] ELSE t[i - m]
    BY <1>5
  <2>2. /\ \A i \in 1..m+n : i <= m => r[i] = s[i]
        /\ \A i \in 1..m+n : i > m => r[i] = t[i - m]
    BY ONLY <1>n, <2>1
  <2>3. /\ \A i \in 1..m+n : i <= m => i \in 1..m
        /\ \A i \in 1..m+n : i > m => i - m \in 1..n
    BY ONLY <1>n
  <2>4. QED
    BY ONLY <2>2, <2>3
<1>6. ASSUME NEW i \in 1..m+n
      PROVE  \/ i \in 1..m /\ r[i] = s[i]
             \/ i - m \in 1..n /\ r[i] = t[i - m] /\ i > m
  BY <1>m, <1>n, i <= m \/ i > m
<1>7. ASSUME NEW i \in 1..m+n
      PROVE  p <= r[i][1] /\ r[i][1] < w /\ q <= r[i][2] /\ r[i][2] < z
  <2>1. CASE i \in 1..m /\ r[i] = s[i]
    <3>1. PICK e : e = s[i]
      OBVIOUS
    <3>2. e[1] \in Nat /\ e[2] \in Nat /\ p <= e[1] /\ e[1] < u /\ q <= e[2] /\ e[2] < v
      BY <1>3, <1>4, <2>1, <3>1
    <3>3. r[i] = e
      BY <2>1, <3>1
    <3>4. p <= e[1] /\ e[1] < w /\ q <= e[2] /\ e[2] < z
      <4>1. PICK g \in Nat, h \in Nat : g = e[1] /\ h = e[2]
        BY <3>2
      <4>2. p <= g /\ g < w /\ q <= h /\ h < z
        BY <1>0, <3>2, <4>1
      <4>3. QED
        BY <4>1, <4>2
    <3>5. QED
      BY ONLY <3>3, <3>4
  <2>2. CASE i - m \in 1..n /\ r[i] = t[i - m]
    <3>1. PICK e : e = t[i - m]
      OBVIOUS
    <3>2. e[1] \in Nat /\ e[2] \in Nat /\ u <= e[1] /\ e[1] < w /\ v <= e[2] /\ e[2] < z
      BY <1>3, <1>4, <2>2, <3>1
    <3>3. r[i] = e
      BY <2>2, <3>1
    <3>4. p <= e[1] /\ e[1] < w /\ q <= e[2] /\ e[2] < z
      <4>1. PICK g \in Nat, h \in Nat : g = e[1] /\ h = e[2]
        BY <3>2
      <4>2. p <= g /\ g < w /\ q <= h /\ h < z
        BY <1>0, <3>2, <4>1
      <4>3. QED
        BY <4>1, <4>2
    <3>5. QED
      BY ONLY <3>3, <3>4
  <2>3. QED
    BY <1>6, <2>1, <2>2
<1>8. ASSUME NEW i \in 1..m+n, NEW j \in 1..m+n, i < j
      PROVE  r[i][1] < r[j][1] /\ r[i][2] < r[j][2]
  <2>1. CASE j \in 1..m
    <3>0. i \in 1..m /\ i <= m /\ j <= m
      BY ONLY <1>n, <1>8, i \in 1..m+n, j \in 1..m+n, <2>1
    <3>1. i \in 1..m /\ r[i] = s[i] /\ r[j] = s[j]
      BY <1>5, <3>0
    <3>2. QED
      BY <1>4, <1>8, <2>1, <3>1
  <2>2. CASE i \in 1..m /\ j > m
    <3>1. r[i] = s[i] /\ j - m \in 1..n /\ r[j] = t[j - m]
      BY ONLY <1>n, <1>m, <1>8, i \in 1..m+n, j \in 1..m+n, <2>2
    <3>2. PICK d, e : d = s[i] /\ e = t[j - m]
      OBVIOUS
    <3>3. d[1] \in Nat /\ d[2] \in Nat /\ e[1] \in Nat /\ e[2] \in Nat /\ d[1] < u /\ d[2] < v /\ u <= e[1] /\ v <= e[2]
      BY <1>3, <1>4, <2>2, <3>1, <3>2
    <3>4. r[i] = d /\ r[j] = e
      BY <3>1, <3>2
    <3>5. d[1] < e[1] /\ d[2] < e[2]
      <4>1. PICK g \in Nat, h \in Nat, k \in Nat, l \in Nat : g = d[1] /\ h = d[2] /\ k = e[1] /\ l = e[2]
        BY <3>3
      <4>2. g < u /\ h < v /\ u <= k /\ v <= l
        BY <3>3, <4>1
      <4>3. g \in Nat /\ h \in Nat /\ k \in Nat /\ l \in Nat
        OBVIOUS
      <4>4. g < k /\ h < l
        BY ONLY <1>0, <4>2, <4>3
      <4>5. QED
        BY <4>1, <4>4
    <3>6. QED
      BY ONLY <3>4, <3>5
  <2>3. CASE i > m
    <3>1. i - m \in 1..n /\ j - m \in 1..n /\ i - m < j - m /\ r[i] = t[i - m] /\ r[j] = t[j - m]
      BY ONLY <1>n, <1>m, <1>8, i \in 1..m+n, j \in 1..m+n, <2>3
    <3>2. QED
      BY <1>4, <3>1
  <2>4. QED
    BY <1>8, <2>1, <2>2, <2>3
<1>9. QED
  BY <1>5, <1>7, <1>8 DEF Climbs

\* Lines next to each other that match, as pairs.
Alike(E, p, q, n) == \A k \in 0..n-1 : <<p + k, q + k>> \in E

LEMMA MatchClimbs ==
    ASSUME NEW E \in SUBSET (Nat \X Nat), NEW p \in Nat, NEW q \in Nat, NEW n \in Nat, Alike(E, p, q, n)
    PROVE  Climbs([i \in 1..n |-> <<p + i - 1, q + i - 1>>], E, p, q, p + n, q + n)
<1> DEFINE s == [i \in 1..n |-> <<p + i - 1, q + i - 1>>]
<1>1. ASSUME NEW i \in 1..n PROVE <<p + i - 1, q + i - 1>> \in E
  <2>1. i - 1 \in 0..n-1 /\ p + (i - 1) = p + i - 1 /\ q + (i - 1) = q + i - 1
    OBVIOUS
  <2>2. QED
    BY <2>1 DEF Alike
<1>2. s \in Seq(E) /\ Len(s) = n
  <2>1. s \in [1..n -> E] /\ DOMAIN s = 1..n
    BY <1>1
  <2> HIDE DEF s
  <2>2. QED
    BY <2>1
<1>3. \A i \in 1..n : s[i][1] = p + i - 1 /\ s[i][2] = q + i - 1
  OBVIOUS
<1> HIDE DEF s
<1>4. \A i \in 1..n : p <= s[i][1] /\ s[i][1] < p + n /\ q <= s[i][2] /\ s[i][2] < q + n
  BY <1>3
<1>5. \A i, j \in 1..n : i < j => s[i][1] < s[j][1] /\ s[i][2] < s[j][2]
  BY <1>3
<1>6. QED
  BY <1>2, <1>4, <1>5 DEF Climbs, s

-----------------------------------------------------------------------------
(* Tasks, and tasks in order between two corners.                           *)

Tasks(E) ==
    {t \in [a0 : Nat, a1 : Nat, b0 : Nat, b1 : Nat, match : BOOLEAN] :
        /\ t.a0 <= t.a1 /\ t.b0 <= t.b1
        /\ t.match => t.b1 - t.b0 = t.a1 - t.a0 /\ Alike(E, t.a0, t.b0, t.a1 - t.a0)}

Lie(ts, E, p, q, u, v) ==
    /\ ts \in Seq(Tasks(E))
    /\ \A i \in 1..Len(ts) : p <= ts[i].a0 /\ ts[i].a1 <= u /\ q <= ts[i].b0 /\ ts[i].b1 <= v
    /\ \A i, j \in 1..Len(ts) : i < j => ts[i].a1 <= ts[j].a0 /\ ts[i].b1 <= ts[j].b0

\* The same of the stack, whose next task is its last.
Wait(ts, E, p, q, u, v) ==
    /\ ts \in Seq(Tasks(E))
    /\ \A i \in 1..Len(ts) : p <= ts[i].a0 /\ ts[i].a1 <= u /\ q <= ts[i].b0 /\ ts[i].b1 <= v
    /\ \A i, j \in 1..Len(ts) : i < j => ts[j].a1 <= ts[i].a0 /\ ts[j].b1 <= ts[i].b0

LEMMA NothingLies == ASSUME NEW E, NEW p, NEW q, NEW u, NEW v PROVE Lie(<< >>, E, p, q, u, v)
BY EmptySeq DEF Lie

LEMMA OneLies ==
    ASSUME NEW E, NEW t \in Tasks(E), NEW p, NEW q, NEW u, NEW v,
           p <= t.a0, t.a1 <= u, q <= t.b0, t.b1 <= v
    PROVE  Lie(<<t>>, E, p, q, u, v)
<1>1. <<t>> \in Seq(Tasks(E)) /\ Len(<<t>>) = 1 /\ <<t>>[1] = t
  OBVIOUS
<1>2. \A i \in 1..1 : i = 1
  OBVIOUS
<1>3. QED
  BY <1>1, <1>2 DEF Lie

LEMMA TaskIs ==
    ASSUME NEW E, NEW p \in Nat, NEW q \in Nat, NEW u \in Nat, NEW v \in Nat, p <= u, q <= v
    PROVE  Task(p, u, q, v) \in Tasks(E)
BY DEF Task, Tasks

LEMMA MatchIs ==
    ASSUME NEW E, NEW p \in Nat, NEW q \in Nat, NEW n \in Nat, Alike(E, p, q, n)
    PROVE  Match(p, q, n) \in Tasks(E)
<1>1. (p + n) - p = n /\ (q + n) - q = n /\ p + n \in Nat /\ q + n \in Nat /\ p <= p + n /\ q <= q + n
  OBVIOUS
<1>2. QED
  BY <1>1 DEF Match, Tasks

LEMMA TaskNumbers ==
    ASSUME NEW E, NEW t \in Tasks(E)
    PROVE  t.a0 \in Nat /\ t.a1 \in Nat /\ t.b0 \in Nat /\ t.b1 \in Nat /\ t.a0 <= t.a1 /\ t.b0 <= t.b1
BY DEF Tasks

\* Tasks up to a corner and tasks from there on, together.
Meet(s, t, E, p, q, u, v, w, z) == Lie(s, E, p, q, u, v) /\ Lie(t, E, u, v, w, z)
LEMMA LieOn ==
    ASSUME NEW E, NEW p \in Nat, NEW q \in Nat, NEW u \in Nat, NEW v \in Nat, NEW w \in Nat, NEW z \in Nat,
           p <= u, q <= v, u <= w, v <= z, NEW s, NEW t, Meet(s, t, E, p, q, u, v, w, z)
    PROVE  Lie(s \o t, E, p, q, w, z)
<1>0. /\ p \in Nat /\ q \in Nat /\ u \in Nat /\ v \in Nat /\ w \in Nat /\ z \in Nat
      /\ p <= u /\ q <= v /\ u <= w /\ v <= z
  OBVIOUS
<1>1. s \in Seq(Tasks(E)) /\ t \in Seq(Tasks(E))
  BY DEF Meet, Lie
<1>2. PICK m \in Nat, n \in Nat : m = Len(s) /\ n = Len(t)
  BY <1>1, LenProperties
<1>3. /\ \A i \in 1..m : s[i].a0 \in Nat /\ s[i].a1 \in Nat /\ s[i].b0 \in Nat /\ s[i].b1 \in Nat
      /\ \A i \in 1..n : t[i].a0 \in Nat /\ t[i].a1 \in Nat /\ t[i].b0 \in Nat /\ t[i].b1 \in Nat
  <2>1. (\A i \in 1..m : s[i] \in Tasks(E)) /\ (\A i \in 1..n : t[i] \in Tasks(E))
    BY <1>1, <1>2, ElementOfSeq
  <2>2. QED
    BY <2>1, TaskNumbers
<1>4. /\ \A i \in 1..m : p <= s[i].a0 /\ s[i].a1 <= u /\ q <= s[i].b0 /\ s[i].b1 <= v
      /\ \A i, j \in 1..m : i < j => s[i].a1 <= s[j].a0 /\ s[i].b1 <= s[j].b0
      /\ \A i \in 1..n : u <= t[i].a0 /\ t[i].a1 <= w /\ v <= t[i].b0 /\ t[i].b1 <= z
      /\ \A i, j \in 1..n : i < j => t[i].a1 <= t[j].a0 /\ t[i].b1 <= t[j].b0
  BY <1>2 DEF Meet, Lie
<1>5. PICK r \in Seq(Tasks(E)) : /\ r = s \o t /\ Len(r) = m + n
                                /\ \A i \in 1..m+n : r[i] = IF i <= m THEN s[i] ELSE t[i - m]
  <2>1. /\ s \o t \in Seq(Tasks(E)) /\ Len(s \o t) = Len(s) + Len(t)
        /\ \A i \in 1..Len(s)+Len(t) : (s \o t)[i] = IF i <= Len(s) THEN s[i] ELSE t[i - Len(s)]
    BY <1>1, ConcatProperties
  <2>2. QED
    BY <1>2, <2>1
<1>n. m \in Nat /\ n \in Nat
  OBVIOUS
<1>m. /\ \A i \in 1..m+n : i <= m => i \in 1..m /\ r[i] = s[i]
      /\ \A i \in 1..m+n : i > m => i - m \in 1..n /\ r[i] = t[i - m]
  <2>1. \A i \in 1..m+n : r[i] = IF i <= m THEN s[i] ELSE t[i - m]
    BY <1>5
  <2>2. /\ \A i \in 1..m+n : i <= m => r[i] = s[i]
        /\ \A i \in 1..m+n : i > m => r[i] = t[i - m]
    BY ONLY <1>n, <2>1
  <2>3. /\ \A i \in 1..m+n : i <= m => i \in 1..m
        /\ \A i \in 1..m+n : i > m => i - m \in 1..n
    BY ONLY <1>n
  <2>4. QED
    BY ONLY <2>2, <2>3
<1>6. ASSUME NEW i \in 1..m+n
      PROVE  p <= r[i].a0 /\ r[i].a1 <= w /\ q <= r[i].b0 /\ r[i].b1 <= z
  <2>1. CASE i \in 1..m
    <3>1. r[i] = s[i]
      BY <1>5, <2>1
    <3>2. s[i].a1 \in Nat /\ s[i].b1 \in Nat /\ p <= s[i].a0 /\ s[i].a1 <= u /\ q <= s[i].b0 /\ s[i].b1 <= v
      BY <1>3, <1>4, <2>1
    <3>3. QED
      BY ONLY <1>0, <3>1, <3>2
  <2>2. CASE i > m
    <3>1. i - m \in 1..n /\ r[i] = t[i - m]
      BY <1>5, <2>2
    <3>2. PICK e : e = t[i - m]
      OBVIOUS
    <3>3. e.a0 \in Nat /\ e.b0 \in Nat /\ u <= e.a0 /\ e.a1 <= w /\ v <= e.b0 /\ e.b1 <= z
      BY <1>3, <1>4, <3>1, <3>2
    <3>4. r[i] = e
      BY <3>1, <3>2
    <3>5. QED
      BY ONLY <1>0, <3>3, <3>4
  <2>3. QED
    BY <2>1, <2>2
<1>7. ASSUME NEW i \in 1..m+n, NEW j \in 1..m+n, i < j
      PROVE  r[i].a1 <= r[j].a0 /\ r[i].b1 <= r[j].b0
  <2>1. CASE j \in 1..m
    <3>1. i \in 1..m /\ r[i] = s[i] /\ r[j] = s[j]
      BY ONLY <1>n, <1>m, <1>7, i \in 1..m+n, j \in 1..m+n, <2>1
    <3>2. QED
      BY <1>4, <1>7, <2>1, <3>1
  <2>2. CASE i \in 1..m /\ j > m
    <3>1. r[i] = s[i] /\ j - m \in 1..n /\ r[j] = t[j - m]
      BY ONLY <1>n, <1>m, <1>7, i \in 1..m+n, j \in 1..m+n, <2>2
    <3>2. PICK d, e : d = s[i] /\ e = t[j - m]
      OBVIOUS
    <3>3. d.a1 \in Nat /\ d.b1 \in Nat /\ e.a0 \in Nat /\ e.b0 \in Nat /\ d.a1 <= u /\ d.b1 <= v /\ u <= e.a0 /\ v <= e.b0
      BY <1>3, <1>4, <2>2, <3>1, <3>2
    <3>4. r[i] = d /\ r[j] = e
      BY <3>1, <3>2
    <3>5. QED
      BY ONLY <1>0, <3>3, <3>4
  <2>3. CASE i > m
    <3>1. i - m \in 1..n /\ j - m \in 1..n /\ i - m < j - m /\ r[i] = t[i - m] /\ r[j] = t[j - m]
      BY ONLY <1>n, <1>m, <1>7, i \in 1..m+n, j \in 1..m+n, <2>3
    <3>2. QED
      BY <1>4, <3>1
  <2>4. QED
    BY <1>7, <2>1, <2>2, <2>3
<1>8. QED
  BY <1>5, <1>6, <1>7 DEF Lie

\* A region's parts take its place on the stack, the first one on top.
Replaces(parts, ts, E, p, q, u, v, w, z) == Lie(parts, E, p, q, u, v) /\ Wait(ts, E, u, v, w, z)
LEMMA PartsWait ==
    ASSUME NEW E, NEW p \in Nat, NEW q \in Nat, NEW u \in Nat, NEW v \in Nat, NEW w \in Nat, NEW z \in Nat,
           p <= u, q <= v, u <= w, v <= z, NEW parts, NEW ts, Replaces(parts, ts, E, p, q, u, v, w, z)
    PROVE  Wait(ts \o Reverse(parts), E, p, q, w, z)
<1>0. /\ p \in Nat /\ q \in Nat /\ u \in Nat /\ v \in Nat /\ w \in Nat /\ z \in Nat
      /\ p <= u /\ q <= v /\ u <= w /\ v <= z
  OBVIOUS
<1>1. parts \in Seq(Tasks(E)) /\ ts \in Seq(Tasks(E))
  BY DEF Replaces, Lie, Wait
<1>2. PICK m \in Nat, n \in Nat : m = Len(ts) /\ n = Len(parts)
  BY <1>1, LenProperties
<1>3. /\ \A i \in 1..m : ts[i] \in Tasks(E) /\ ts[i].a0 \in Nat /\ ts[i].b0 \in Nat
      /\ \A i \in 1..n : parts[i] \in Tasks(E) /\ parts[i].a0 \in Nat /\ parts[i].a1 \in Nat
                         /\ parts[i].b0 \in Nat /\ parts[i].b1 \in Nat
  <2>1. (\A i \in 1..m : ts[i] \in Tasks(E)) /\ (\A i \in 1..n : parts[i] \in Tasks(E))
    BY <1>1, <1>2, ElementOfSeq
  <2>2. QED
    BY <2>1, TaskNumbers
<1>4. /\ \A i \in 1..m : u <= ts[i].a0 /\ ts[i].a1 <= w /\ v <= ts[i].b0 /\ ts[i].b1 <= z
      /\ \A i, j \in 1..m : i < j => ts[j].a1 <= ts[i].a0 /\ ts[j].b1 <= ts[i].b0
      /\ \A i \in 1..n : p <= parts[i].a0 /\ parts[i].a1 <= u /\ q <= parts[i].b0 /\ parts[i].b1 <= v
      /\ \A i, j \in 1..n : i < j => parts[i].a1 <= parts[j].a0 /\ parts[i].b1 <= parts[j].b0
  BY <1>2 DEF Replaces, Lie, Wait
<1>5. PICK f \in Seq(Tasks(E)) : /\ f = Reverse(parts) /\ Len(f) = n
                                /\ \A i \in 1..n : (n - i) + 1 \in 1..n /\ f[i] = parts[(n - i) + 1]
  <2> DEFINE h == [i \in 1..n |-> parts[(n - i) + 1]]
  <2>1. Reverse(parts) = h
    BY <1>2 DEF Reverse
  <2>2. \A i \in 1..n : (n - i) + 1 \in 1..n
    OBVIOUS
  <2>3. h \in Seq(Tasks(E)) /\ Len(h) = n /\ \A i \in 1..n : h[i] = parts[(n - i) + 1]
    BY <1>3, <2>2
  <2> HIDE DEF h
  <2>4. QED
    BY <2>1, <2>2, <2>3
<1>n. m \in Nat /\ n \in Nat
  OBVIOUS
<1>6. PICK r \in Seq(Tasks(E)) : /\ r = ts \o f /\ Len(r) = m + n
                                /\ \A i \in 1..m+n : r[i] = IF i <= m THEN ts[i] ELSE f[i - m]
  <2>1. /\ ts \o f \in Seq(Tasks(E)) /\ Len(ts \o f) = Len(ts) + Len(f)
        /\ \A i \in 1..Len(ts)+Len(f) : (ts \o f)[i] = IF i <= Len(ts) THEN ts[i] ELSE f[i - Len(ts)]
    BY <1>1, ConcatProperties
  <2>2. QED
    BY <1>2, <1>5, <2>1
<1>7. ASSUME NEW i \in 1..m+n, i > m
      PROVE  \E k \in 1..n : r[i] = parts[k] /\ k = (m + n + 1) - i
  <2>1. i - m \in 1..n /\ r[i] = f[i - m] /\ (n - (i - m)) + 1 = (m + n + 1) - i
    BY ONLY <1>n, <1>6, <1>7, i \in 1..m+n
  <2>2. QED
    BY <1>5, <2>1
<1>8. ASSUME NEW i \in 1..m+n PROVE p <= r[i].a0 /\ r[i].a1 <= w /\ q <= r[i].b0 /\ r[i].b1 <= z
  <2>1. CASE i \in 1..m
    <3>1. PICK e : e = ts[i]
      OBVIOUS
    <3>2. r[i] = e
      BY <1>6, <2>1, <3>1
    <3>3. e.a0 \in Nat /\ e.b0 \in Nat /\ u <= e.a0 /\ e.a1 <= w /\ v <= e.b0 /\ e.b1 <= z
      BY <1>3, <1>4, <2>1, <3>1
    <3>4. QED
      BY ONLY <1>0, <3>2, <3>3
  <2>2. CASE i > m
    <3>1. PICK k \in 1..n : r[i] = parts[k]
      BY <1>7, <2>2
    <3>2. PICK e : e = parts[k]
      OBVIOUS
    <3>3. /\ r[i] = e /\ e.a1 \in Nat /\ e.b1 \in Nat
          /\ p <= e.a0 /\ e.a1 <= u /\ q <= e.b0 /\ e.b1 <= v
      BY <1>3, <1>4, <3>1, <3>2
    <3>4. QED
      BY ONLY <1>0, <3>3
  <2>3. QED
    BY <2>1, <2>2
<1>9. ASSUME NEW i \in 1..m+n, NEW j \in 1..m+n, i < j
      PROVE  r[j].a1 <= r[i].a0 /\ r[j].b1 <= r[i].b0
  <2>1. CASE j \in 1..m
    <3>1. i \in 1..m /\ r[i] = ts[i] /\ r[j] = ts[j]
      BY ONLY <1>n, <1>6, <1>9, i \in 1..m+n, j \in 1..m+n, <2>1
    <3>2. QED
      BY <1>4, <1>9, <2>1, <3>1
  <2>2. CASE i \in 1..m /\ j > m
    <3>1. PICK k \in 1..n : r[j] = parts[k]
      BY <1>7, <2>2
    <3>2. PICK d, e : d = ts[i] /\ e = parts[k]
      OBVIOUS
    <3>3. d.a0 \in Nat /\ d.b0 \in Nat /\ e.a1 \in Nat /\ e.b1 \in Nat /\ u <= d.a0 /\ v <= d.b0 /\ e.a1 <= u /\ e.b1 <= v
      BY <1>3, <1>4, <2>2, <3>1, <3>2
    <3>4. r[i] = ts[i]
      BY <1>6, <2>2
    <3>5. QED
      <4>0. u \in Nat /\ v \in Nat
        OBVIOUS
      <4>1. r[i] = d /\ r[j] = e
        BY <3>1, <3>2, <3>4
      <4>2. QED
        BY ONLY <3>3, <4>0, <4>1
  <2>3. CASE i > m
    <3>1. PICK k \in 1..n : r[i] = parts[k] /\ k = (m + n + 1) - i
      BY <1>7, <2>3
    <3>2. PICK l \in 1..n : r[j] = parts[l] /\ l = (m + n + 1) - j
      BY <1>7, <1>9, <2>3
    <3>3. l < k
      BY <1>9, <3>1, <3>2
    <3>4. QED
      BY <1>4, <3>1, <3>2, <3>3
  <2>4. QED
    BY <1>9, <2>1, <2>2, <2>3
<1>10. QED
  BY <1>5, <1>6, <1>8, <1>9 DEF Wait

-----------------------------------------------------------------------------
(* Patience: chains of anchors.                                             *)

\* Each chain ends no further right than the next one.
Sorted(chains) ==
    \A c, d \in 1..Len(chains) : c <= d => Last(chains[c])[2] <= Last(chains[d])[2]

\* Chains of pairs of E, below a row and within a region.
AreChains(chains, E, row, m, n) ==
    /\ chains \in Seq(Seq(E))
    /\ \A c \in 1..Len(chains) : chains[c] # << >> /\ Climbs(chains[c], E, 0, 0, row, n)
    /\ row <= m
    /\ Sorted(chains)

\* A set of numbers from 1 up, without a hole.
LEMMA HowMany ==
    ASSUME NEW n \in Nat, NEW S \in SUBSET (1..n), \A i \in S : \A j \in 1..i : j \in S
    PROVE  Cardinality(S) \in 0..n /\ S = 1..Cardinality(S)
<1>1. CASE S = {}
  <2>1. Cardinality(S) = 0
    BY <1>1, FS_EmptySet
  <2>2. QED
    BY <1>1, <2>1
<1>2. CASE S # {}
  <2>1. S \in SUBSET Nat /\ \A i \in S : i <= n
    OBVIOUS
  <2>2. PICK m \in S : \A i \in S : m >= i
    BY <1>2, <2>1, GreatestNumber
  <2>3. S = 1..m /\ m \in Nat /\ m <= n
    <3>1. m \in 1..n /\ \A i \in S : i \in 1..m
      BY <2>2
    <3>2. \A i \in 1..m : i \in S
      BY <2>2
    <3>3. m \in Nat /\ m <= n
      BY <3>1
    <3>4. QED
      BY <3>1, <3>2, <3>3
  <2>4. Cardinality(1..m) = m
    <3>1. 1 \in Int /\ m \in Int
      BY <2>3
    <3>2. Cardinality(1..m) = IF 1 > m THEN 0 ELSE m - 1 + 1
      BY <3>1, FS_Interval
    <3>3. m >= 1 /\ m - 1 + 1 = m
      BY <2>2
    <3>4. QED
      BY <3>2, <3>3
  <2>5. QED
    BY <2>3, <2>4
<1>3. QED
  BY <1>1, <1>2

LEMMA LastIs ==
    ASSUME NEW S, NEW s \in Seq(S), s # << >>
    PROVE  Len(s) \in 1..Len(s) /\ Last(s) = s[Len(s)] /\ Last(s) \in S
<1>1. Len(s) \in Nat \ {0}
  BY EmptySeq
<1>2. Len(s) \in 1..Len(s)
  BY <1>1
<1>3. QED
  BY <1>2, ElementOfSeq DEF Last

LEMMA LastOfAppend ==
    ASSUME NEW S, NEW s \in Seq(S), NEW e \in S
    PROVE  Last(Append(s, e)) = e /\ Append(s, e) # << >> /\ Append(s, e) \in Seq(S)
<1>1. /\ Append(s, e) \in Seq(S) /\ Append(s, e) # << >>
      /\ Len(Append(s, e)) = Len(s) + 1 /\ Append(s, e)[Len(s)+1] = e
  BY AppendProperties
<1>2. QED
  BY <1>1 DEF Last

\* A pair behind a chain lengthens it.
LEMMA Longer ==
    ASSUME NEW E \in SUBSET (Nat \X Nat), NEW row \in Nat, NEW n \in Nat,
           NEW s, s # << >>, Climbs(s, E, 0, 0, row, n),
           NEW e \in E, row <= e[1], e[2] < n, Last(s)[2] < e[2], NEW u \in Nat, e[1] < u
    PROVE  Climbs(Append(s, e), E, 0, 0, u, n)
<1>1. s \in Seq(E) /\ Len(s) \in Nat \ {0}
  BY EmptySeq DEF Climbs
<1>2. PICK m \in Nat : m = Len(s) /\ m # 0
  BY <1>1
<1>3. /\ Append(s, e) \in Seq(E) /\ Len(Append(s, e)) = m + 1 /\ Append(s, e)[m+1] = e
      /\ \A i \in 1..m : Append(s, e)[i] = s[i]
  <2>1. /\ Append(s, e) \in Seq(E) /\ Len(Append(s, e)) = Len(s) + 1 /\ Append(s, e)[Len(s)+1] = e
        /\ \A i \in 1..Len(s) : Append(s, e)[i] = s[i]
    BY <1>1, AppendProperties
  <2>2. QED
    BY <1>2, <2>1
<1>4. PICK t \in Seq(E) : t = Append(s, e) /\ Len(t) = m + 1 /\ t[m+1] = e /\ \A i \in 1..m : t[i] = s[i]
  BY <1>3
<1>5. \A i \in 1..m : s[i][1] \in Nat /\ s[i][2] \in Nat
  <2>1. \A i \in 1..m : s[i] \in E
    BY <1>1, <1>2, ElementOfSeq
  <2>2. QED
    BY <2>1
<1>6. /\ \A i \in 1..m : s[i][1] < row /\ s[i][2] < n
      /\ \A i, j \in 1..m : i < j => s[i][1] < s[j][1] /\ s[i][2] < s[j][2]
  BY <1>2 DEF Climbs
<1>7. e[1] \in Nat /\ e[2] \in Nat
  OBVIOUS
<1>8. \A i \in 1..m : s[i][1] < e[1] /\ s[i][2] < e[2]
  <2>1. s[m][2] < e[2]
    BY <1>2 DEF Last
  <2>2. ASSUME NEW i \in 1..m PROVE s[i][1] < e[1] /\ s[i][2] < e[2]
    <3>1. s[i][1] < row /\ s[i][1] \in Nat /\ s[i][2] \in Nat /\ s[m][2] \in Nat
      BY <1>2, <1>5, <1>6
    <3>2. i = m \/ s[i][2] < s[m][2]
      <4>1. m \in 1..m /\ (i = m \/ i < m)
        BY <1>2
      <4>2. QED
        BY <1>6, <4>1
    <3>3. QED
      BY <1>7, <2>1, <3>1, <3>2
  <2>3. QED
    BY <2>2
<1>9. ASSUME NEW i \in 1..m+1 PROVE 0 <= t[i][1] /\ t[i][1] < u /\ 0 <= t[i][2] /\ t[i][2] < n
  <2>1. CASE i = m + 1
    <3>1. t[i] = e
      BY <1>4, <2>1
    <3>2. QED
      BY <1>7, <3>1
  <2>2. CASE i \in 1..m
    <3>1. PICK d : d = s[i]
      OBVIOUS
    <3>2. d[1] \in Nat /\ d[2] \in Nat /\ d[1] < e[1] /\ d[2] < n
      BY <1>5, <1>6, <1>8, <2>2, <3>1
    <3>3. t[i] = d
      BY <1>4, <2>2, <3>1
    <3>4. e[1] < u /\ u \in Nat
      OBVIOUS
    <3>5. QED
      BY ONLY <1>7, <3>2, <3>3, <3>4
  <2>3. i = m + 1 \/ i \in 1..m
    OBVIOUS
  <2>4. QED
    BY <2>1, <2>2, <2>3
<1>10. ASSUME NEW i \in 1..m+1, NEW j \in 1..m+1, i < j PROVE t[i][1] < t[j][1] /\ t[i][2] < t[j][2]
  <2>1. i \in 1..m /\ t[i] = s[i]
    <3>1. i \in 1..m
      BY <1>10
    <3>2. QED
      BY <1>4, <3>1
  <2>2. CASE j = m + 1
    <3>1. t[j] = e
      BY <1>4, <2>2
    <3>2. QED
      BY <1>8, <2>1, <3>1
  <2>3. CASE j \in 1..m
    <3>1. t[j] = s[j]
      BY <1>4, <2>3
    <3>2. QED
      BY <1>6, <1>10, <2>1, <2>3, <3>1
  <2>4. j = m + 1 \/ j \in 1..m
    OBVIOUS
  <2>5. QED
    BY <2>2, <2>3, <2>4
<1>11. QED
  BY <1>4, <1>9, <1>10 DEF Climbs

LEMMA OneClimbs ==
    ASSUME NEW E \in SUBSET (Nat \X Nat), NEW e \in E, NEW u, NEW v, e[1] < u, e[2] < v
    PROVE  Climbs(<<e>>, E, 0, 0, u, v)
<1>1. <<e>> \in Seq(E) /\ Len(<<e>>) = 1 /\ <<e>>[1] = e
  OBVIOUS
<1>2. \A i \in 1..1 : i = 1
  OBVIOUS
<1>3. e[1] \in Nat /\ e[2] \in Nat
  OBVIOUS
<1>4. QED
  BY <1>1, <1>2, <1>3 DEF Climbs

LEMMA Higher ==
    ASSUME NEW E \in SUBSET (Nat \X Nat), NEW s, NEW p \in Nat, NEW q \in Nat, NEW u \in Nat, NEW v \in Nat,
           p <= u, q <= v, Climbs(s, E, 0, 0, p, q)
    PROVE  Climbs(s, E, 0, 0, u, v)
<1>1. s \in Seq(E) /\ \A i \in 1..Len(s) : s[i] \in E
  BY ElementOfSeq DEF Climbs
<1>2. \A i \in 1..Len(s) : s[i][1] \in Nat /\ s[i][2] \in Nat
  BY <1>1
<1>3. \A i \in 1..Len(s) : s[i][1] < p /\ s[i][2] < q
  BY DEF Climbs
<1>4. \A i \in 1..Len(s) : s[i][1] < u /\ s[i][2] < v
  BY <1>2, <1>3
<1>5. QED
  BY <1>1, <1>4 DEF Climbs

\* What AnchorPair makes of the chains.
Placed(chains, e) ==
    LET k == Cardinality({c \in DOMAIN chains : Last(chains[c])[2] < e[2]})
        chain == IF k = 0 THEN <<e>> ELSE Append(chains[k], e)
    IN [c \in (DOMAIN chains) \cup {k + 1} |-> IF c = k + 1 THEN chain ELSE chains[c]]

\* The chains stay sorted: the pair goes behind every chain that ends to its
\* left, and takes the place of one that does not end there.
LEMMA PlacedAreChains ==
    ASSUME NEW E \in SUBSET (Nat \X Nat), NEW row \in Nat, NEW m \in Nat, NEW n \in Nat, NEW chains,
           AreChains(chains, E, row, m, n), NEW e \in E, row <= e[1], e[1] < m, e[2] < n
    PROVE  AreChains(Placed(chains, e), E, e[1] + 1, m, n)
<1>1. chains \in Seq(Seq(E))
  BY DEF AreChains
<1>2. PICK l \in Nat : l = Len(chains) /\ DOMAIN chains = 1..l
  BY <1>1, LenProperties
<1>3. \A c \in 1..l : chains[c] \in Seq(E) /\ chains[c] # << >> /\ Climbs(chains[c], E, 0, 0, row, n)
  BY <1>1, <1>2, ElementOfSeq DEF AreChains
<1>4. \A c \in 1..l : Last(chains[c]) \in E /\ Last(chains[c])[2] \in Nat
  <2>1. \A c \in 1..l : Last(chains[c]) \in E
    BY <1>3, LastIs
  <2>2. QED
    BY <2>1
<1>5. e[1] \in Nat /\ e[2] \in Nat
  OBVIOUS
<1> DEFINE S == {c \in DOMAIN chains : Last(chains[c])[2] < e[2]}
           k == Cardinality(S)
           chain == IF k = 0 THEN <<e>> ELSE Append(chains[k], e)
           f == [c \in (DOMAIN chains) \cup {k + 1} |-> IF c = k + 1 THEN chain ELSE chains[c]]
<1>6. k \in 0..l /\ S = 1..k
  <2>1. S \in SUBSET (1..l) /\ \A c \in 1..l : c \in S <=> Last(chains[c])[2] < e[2]
    BY <1>2
  <2>2. \A c, d \in 1..l : c <= d => Last(chains[c])[2] <= Last(chains[d])[2]
    BY <1>2 DEF AreChains, Sorted
  <2> HIDE DEF S
  <2>3. ASSUME NEW i \in S, NEW j \in 1..i PROVE j \in S
    <3>1. i \in 1..l /\ j \in 1..l /\ j <= i
      BY <1>2, <2>1
    <3>2. Last(chains[j])[2] <= Last(chains[i])[2] /\ Last(chains[i])[2] < e[2]
      BY <2>1, <2>2, <3>1
    <3>3. QED
      BY <1>4, <1>5, <2>1, <3>1, <3>2
  <2>4. QED
    BY <2>1, <2>3, HowMany
<1>7. Placed(chains, e) = f
  BY DEF Placed
<1>8. \A c \in 1..l : c <= k <=> Last(chains[c])[2] < e[2]
  <2>1. \A c \in 1..l : c \in S <=> Last(chains[c])[2] < e[2]
    BY <1>2
  <2> HIDE DEF S, k
  <2>2. k \in Nat /\ \A c \in 1..l : c \in 1..k <=> c <= k
    BY <1>6
  <2>3. QED
    BY <1>6, <2>1, <2>2
<1> HIDE DEF S, k
<1>9. /\ chain \in Seq(E) /\ chain # << >> /\ Last(chain) = e
      /\ Climbs(chain, E, 0, 0, e[1] + 1, n)
  <2>1. CASE k = 0
    <3>1. chain = <<e>>
      BY <2>1
    <3> HIDE DEF chain
    <3>2. <<e>> \in Seq(E) /\ Len(<<e>>) = 1 /\ <<e>>[1] = e /\ <<e>> # << >>
      OBVIOUS
    <3>3. Last(<<e>>) = e
      BY <3>2 DEF Last
    <3>4. Climbs(<<e>>, E, 0, 0, e[1] + 1, n)
      <4>1. e[1] < e[1] + 1
        BY <1>5
      <4>2. QED
        BY <4>1, OneClimbs
    <3>5. QED
      BY <3>1, <3>2, <3>3, <3>4
  <2>2. CASE k # 0
    <3>1. k \in 1..l /\ chain = Append(chains[k], e)
      BY <1>6, <2>2
    <3> HIDE DEF chain
    <3>2. PICK s \in Seq(E) : s = chains[k] /\ s # << >> /\ Climbs(s, E, 0, 0, row, n) /\ Last(s)[2] < e[2]
      <4>1. k <= k
        BY <3>1
      <4>2. QED
        BY <1>3, <1>8, <3>1, <4>1
    <3>3. e[1] + 1 \in Nat /\ e[1] < e[1] + 1
      BY <1>5
    <3>4. Climbs(Append(s, e), E, 0, 0, e[1] + 1, n)
      BY <3>2, <3>3, Longer
    <3>5. Last(Append(s, e)) = e /\ Append(s, e) # << >> /\ Append(s, e) \in Seq(E)
      BY LastOfAppend
    <3>6. QED
      BY <3>1, <3>2, <3>4, <3>5
  <2>3. QED
    BY <2>1, <2>2
<1> HIDE DEF chain
<1>10. PICK z \in Nat : z = (IF k = l THEN l + 1 ELSE l) /\ 1..z = (DOMAIN chains) \cup {k + 1} /\ k + 1 \in 1..z
  BY <1>2, <1>6
<1>11. /\ f \in Seq(Seq(E)) /\ Len(f) = z
       /\ \A c \in 1..z : f[c] = IF c = k + 1 THEN chain ELSE chains[c]
       /\ \A c \in 1..z : c # k + 1 => c \in 1..l
  <2>1. \A c \in 1..z : c # k + 1 => c \in 1..l
    BY <1>6, <1>10
  <2>2. f = [c \in 1..z |-> IF c = k + 1 THEN chain ELSE chains[c]]
    BY <1>10
  <2>3. \A c \in 1..z : (IF c = k + 1 THEN chain ELSE chains[c]) \in Seq(E)
    BY <1>3, <1>9, <2>1
  <2> HIDE DEF f
  <2>4. f \in [1..z -> Seq(E)]
    BY <2>2, <2>3
  <2>5. \A c \in 1..z : f[c] = IF c = k + 1 THEN chain ELSE chains[c]
    BY <2>2
  <2>6. f \in Seq(Seq(E)) /\ Len(f) = z
    BY <2>4
  <2>7. QED
    BY <2>1, <2>5, <2>6
<1> HIDE DEF f
<1>12. e[1] + 1 \in Nat /\ row <= e[1] + 1 /\ e[1] + 1 <= m /\ n <= n
  BY <1>5
<1>13. ASSUME NEW c \in 1..z PROVE f[c] # << >> /\ Climbs(f[c], E, 0, 0, e[1] + 1, n)
  <2>1. CASE c = k + 1
    BY <1>9, <1>11, <2>1
  <2>2. CASE c # k + 1
    <3>1. PICK s : s = chains[c]
      OBVIOUS
    <3>2. f[c] = s /\ s # << >> /\ Climbs(s, E, 0, 0, row, n)
      BY <1>3, <1>11, <2>2, <3>1
    <3>3. Climbs(s, E, 0, 0, e[1] + 1, n)
      BY <1>12, <3>2, Higher
    <3>4. QED
      BY <3>2, <3>3
  <2>3. QED
    BY <2>1, <2>2
<1>14. ASSUME NEW c \in 1..z, NEW d \in 1..z, c <= d PROVE Last(f[c])[2] <= Last(f[d])[2]
  <2>1. \A i, j \in 1..l : i <= j => Last(chains[i])[2] <= Last(chains[j])[2]
    BY <1>2 DEF AreChains, Sorted
  <2>2. CASE c # k + 1 /\ d # k + 1
    BY <1>11, <1>14, <2>1, <2>2
  <2>3. CASE c = k + 1 /\ d = k + 1
    BY <1>5, <1>9, <1>11, <2>3
  <2>4. CASE c = k + 1 /\ d # k + 1
    <3>1. d \in 1..l /\ ~(d <= k) /\ f[d] = chains[d] /\ f[c] = chain
      BY <1>6, <1>11, <1>14, <2>4
    <3>2. ~(Last(chains[d])[2] < e[2])
      BY <1>8, <3>1
    <3>3. QED
      BY <1>4, <1>5, <1>9, <3>1, <3>2
  <2>5. CASE c # k + 1 /\ d = k + 1
    <3>1. c \in 1..l /\ c <= k /\ f[d] = chain /\ f[c] = chains[c]
      BY <1>6, <1>11, <1>14, <2>5
    <3>2. Last(chains[c])[2] < e[2]
      BY <1>8, <3>1
    <3>3. QED
      BY <1>4, <1>5, <1>9, <3>1, <3>2
  <2>6. QED
    BY <2>2, <2>3, <2>4, <2>5
<1>15. AreChains(f, E, e[1] + 1, m, n)
  BY <1>11, <1>12, <1>13, <1>14 DEF AreChains, Sorted
<1>16. QED
  BY <1>7, <1>15


-----------------------------------------------------------------------------
(* The anchors of a chain, and the regions between them.                    *)

\* Pairs of lines of the alignment that are the same, and the same within the
\* region, counted from its corner.
SameLines == {d \in Nat \X Nat : X(d[1]) = Y(d[2])}
InRegion == {d \in Nat \X Nat : x(d[1]) = y(d[2])}

LEMMA RegionLines ==
    ASSUME region \in Tasks(SameLines), NEW d \in InRegion
    PROVE  /\ d[1] \in Nat /\ d[2] \in Nat
           /\ <<region.a0 + d[1], region.b0 + d[2]>> \in SameLines
<1>1. d[1] \in Nat /\ d[2] \in Nat /\ x(d[1]) = y(d[2])
  BY DEF InRegion
<1>2. region.a0 \in Nat /\ region.b0 \in Nat
  BY TaskNumbers
<1>3. region.a0 + d[1] \in Nat /\ region.b0 + d[2] \in Nat
  BY <1>1, <1>2
<1>4. X(region.a0 + d[1]) = Y(region.b0 + d[2])
  BY <1>1 DEF x, y
<1>5. QED
  BY <1>1, <1>3, <1>4 DEF SameLines

LEMMA OneAlike ==
    ASSUME NEW E, NEW p \in Nat, NEW q \in Nat, <<p, q>> \in E
    PROVE  Alike(E, p, q, 1)
<1>1. \A k \in 0..1-1 : k = 0
  OBVIOUS
<1>2. p + 0 = p /\ q + 0 = q
  OBVIOUS
<1>3. QED
  BY <1>1, <1>2 DEF Alike

\* The region between two corners, which may be nothing.
Between(p, q) ==
    IF p = q THEN << >>
    ELSE <<Task(region.a0 + p[1], region.a0 + q[1], region.b0 + p[2], region.b0 + q[2])>>

LEMMA BetweenLies ==
    ASSUME NEW E, region.a0 \in Nat, region.b0 \in Nat,
           NEW p \in Nat, NEW q \in Nat, NEW u \in Nat, NEW v \in Nat, p <= u, q <= v
    PROVE  Lie(Between(<<p, q>>, <<u, v>>), E, region.a0 + p, region.b0 + q, region.a0 + u, region.b0 + v)
<1>1. PICK k \in Nat, l \in Nat : k = region.a0 /\ l = region.b0
  OBVIOUS
<1>2. k + p \in Nat /\ k + u \in Nat /\ l + q \in Nat /\ l + v \in Nat /\ k + p <= k + u /\ l + q <= l + v
  OBVIOUS
<1> DEFINE t == Task(k + p, k + u, l + q, l + v)
<1>3. /\ t \in Tasks(E)
      /\ t.a0 = k + p /\ t.a1 = k + u /\ t.b0 = l + q /\ t.b1 = l + v
  <2>1. t \in Tasks(E)
    BY <1>2, TaskIs
  <2>2. QED
    BY <2>1 DEF Task
<1>4. Between(<<p, q>>, <<u, v>>) \in {<< >>, <<t>>}
  BY <1>1 DEF Between
<1> HIDE DEF t
<1>5. k + p <= t.a0 /\ t.a1 <= k + u /\ l + q <= t.b0 /\ t.b1 <= l + v
  BY <1>2, <1>3
<1>6. Lie(<<t>>, E, k + p, l + q, k + u, l + v)
  BY <1>3, <1>5, OneLies
<1>7. Lie(<< >>, E, k + p, l + q, k + u, l + v)
  BY NothingLies
<1>8. QED
  BY <1>1, <1>4, <1>6, <1>7

LEMMA AnchorsLie ==
    ASSUME region \in Tasks(SameLines), NEW chain, chain # << >>,
           Climbs(chain, InRegion, 0, 0, Width, Height)
    PROVE  Lie(Anchors(chain), SameLines, region.a0, region.b0, region.a1, region.b1)
<1>1. PICK n \in Nat : n = Len(chain) /\ DOMAIN chain = 1..n /\ chain \in Seq(InRegion)
  BY LenProperties DEF Climbs
<1>2. PICK k \in Nat, l \in Nat, w \in Nat, z \in Nat :
        /\ k = region.a0 /\ l = region.b0 /\ w = Width /\ z = Height
        /\ k + w = region.a1 /\ l + z = region.b1
  <2>1. /\ region.a0 \in Nat /\ region.b0 \in Nat /\ region.a1 \in Nat /\ region.b1 \in Nat
        /\ region.a0 <= region.a1 /\ region.b0 <= region.b1
    BY TaskNumbers
  <2>2. PICK k \in Nat, l \in Nat, i \in Nat, j \in Nat :
          k = region.a0 /\ l = region.b0 /\ i = region.a1 /\ j = region.b1 /\ k <= i /\ l <= j
    BY <2>1
  <2>3. i - k \in Nat /\ j - l \in Nat /\ k + (i - k) = i /\ l + (j - l) = j
    <3>1. k \in Nat /\ l \in Nat /\ i \in Nat /\ j \in Nat /\ k <= i /\ l <= j
      BY <2>2
    <3>2. QED
      BY ONLY <3>1
  <2>4. Width = i - k /\ Height = j - l
    BY <2>2 DEF Width, Height
  <2>5. QED
    BY <2>2, <2>3, <2>4
<1>3. ASSUME NEW i \in 1..n
      PROVE  /\ chain[i] = <<chain[i][1], chain[i][2]>>
             /\ chain[i][1] \in Nat /\ chain[i][2] \in Nat /\ chain[i][1] < w /\ chain[i][2] < z
             /\ <<k + chain[i][1], l + chain[i][2]>> \in SameLines
  <2>1. chain[i] \in InRegion
    BY <1>1, ElementOfSeq
  <2>2. chain[i] = <<chain[i][1], chain[i][2]>>
    BY <2>1 DEF InRegion
  <2>3. chain[i][1] < w /\ chain[i][2] < z
    BY <1>1, <1>2 DEF Climbs
  <2>4. QED
    BY <1>2, <2>1, <2>2, <2>3, RegionLines
<1>4. \A i, j \in 1..n : i < j => chain[i][1] < chain[j][1] /\ chain[i][2] < chain[j][2]
  BY <1>1 DEF Climbs
<1> DEFINE U == [i \in 1..n+1 |-> IF i = 1 THEN 0 ELSE chain[i-1][1] + 1]
           V == [i \in 1..n+1 |-> IF i = 1 THEN 0 ELSE chain[i-1][2] + 1]
           F == [i \in 1..n+1 |-> IF i = 1 THEN <<0, 0>> ELSE <<chain[i-1][1] + 1, chain[i-1][2] + 1>>]
           parts == [i \in 1..n |-> Between(F[i], chain[i]) \o <<Match(k + chain[i][1], l + chain[i][2], 1)>>]
<1>5. Anchors(chain) = FlattenSeq(parts) \o Between(F[n+1], <<w, z>>)
  <2>1. /\ \A i \in 1..n : F[i] = IF i = 1 THEN <<0, 0>> ELSE <<chain[i-1][1] + 1, chain[i-1][2] + 1>>
        /\ F[n+1] = IF n + 1 = 1 THEN <<0, 0>> ELSE <<chain[(n+1)-1][1] + 1, chain[(n+1)-1][2] + 1>>
    BY <1>1
  <2> HIDE DEF F
  <2>2. parts = [i \in DOMAIN chain |->
            Between(IF i = 1 THEN <<0, 0>> ELSE <<chain[i-1][1] + 1, chain[i-1][2] + 1>>, chain[i])
            \o <<Match(k + chain[i][1], l + chain[i][2], 1)>>]
    BY <1>1, <2>1
  <2> HIDE DEF parts
  <2>3. Anchors(chain) =
          FlattenSeq([i \in DOMAIN chain |->
            Between(IF i = 1 THEN <<0, 0>> ELSE <<chain[i-1][1] + 1, chain[i-1][2] + 1>>, chain[i])
            \o <<Match(region.a0 + chain[i][1], region.b0 + chain[i][2], 1)>>])
          \o Between(IF Len(chain) + 1 = 1 THEN <<0, 0>>
                     ELSE <<chain[(Len(chain)+1)-1][1] + 1, chain[(Len(chain)+1)-1][2] + 1>>, <<Width, Height>>)
    BY DEF Anchors, Between
  <2>4. QED
    BY <1>1, <1>2, <2>1, <2>2, <2>3
<1>6. /\ U \in [1..n+1 -> Nat] /\ V \in [1..n+1 -> Nat]
      /\ U[1] = 0 /\ V[1] = 0
      /\ \A i \in 1..n : U[i+1] = chain[i][1] + 1 /\ V[i+1] = chain[i][2] + 1
      /\ \A i \in 1..n+1 : F[i] = <<U[i], V[i]>>
  <2>1. \A i \in 2..n+1 : i - 1 \in 1..n
    OBVIOUS
  <2>2. \A i \in 1..n+1 : i = 1 \/ i \in 2..n+1
    OBVIOUS
  <2>3. \A i \in 2..n+1 : chain[i-1][1] + 1 \in Nat /\ chain[i-1][2] + 1 \in Nat
    <3> SUFFICES ASSUME NEW i \in 2..n+1
                 PROVE  chain[i-1][1] + 1 \in Nat /\ chain[i-1][2] + 1 \in Nat
      OBVIOUS
    <3>1. PICK c \in Nat, d \in Nat : c = chain[i-1][1] /\ d = chain[i-1][2]
      BY <1>3, <2>1
    <3>2. c + 1 \in Nat /\ d + 1 \in Nat
      OBVIOUS
    <3>3. QED
      BY <3>1, <3>2
  <2>4. \A i \in 1..n+1 : /\ (IF i = 1 THEN 0 ELSE chain[i-1][1] + 1) \in Nat
                          /\ (IF i = 1 THEN 0 ELSE chain[i-1][2] + 1) \in Nat
    BY <2>2, <2>3
  <2>5. U \in [1..n+1 -> Nat] /\ V \in [1..n+1 -> Nat]
    BY <2>4
  <2>6. \A i \in 1..n : i + 1 \in 1..n+1 /\ i + 1 # 1 /\ (i + 1) - 1 = i
    OBVIOUS
  <2>7. \A i \in 1..n : U[i+1] = chain[i][1] + 1 /\ V[i+1] = chain[i][2] + 1
    BY <2>6
  <2>8. 1 \in 1..n+1
    OBVIOUS
  <2>9. U[1] = 0 /\ V[1] = 0
    BY <2>8
  <2>10. \A i \in 1..n+1 : F[i] = <<U[i], V[i]>>
    OBVIOUS
  <2> HIDE DEF U, V, F
  <2>11. QED
    BY <2>5, <2>7, <2>9, <2>10
<1> HIDE DEF U, V
<1>7. ASSUME NEW i \in 1..n
      PROVE  U[i] \in Nat /\ V[i] \in Nat /\ U[i] <= chain[i][1] /\ V[i] <= chain[i][2]
  <2>0. PICK c \in Nat, d \in Nat : c = chain[i][1] /\ d = chain[i][2]
    BY <1>3
  <2>1. CASE i = 1
    <3>1. U[i] = 0 /\ V[i] = 0 /\ 0 <= c /\ 0 <= d
      BY <1>6, <2>1
    <3>2. QED
      BY <2>0, <3>1
  <2>2. CASE i # 1
    <3>1. i - 1 \in 1..n /\ i - 1 < i /\ (i - 1) + 1 = i
      BY <2>2
    <3>2. U[i] = chain[i-1][1] + 1 /\ V[i] = chain[i-1][2] + 1
      BY <1>6, <3>1
    <3>3. PICK e \in Nat, f \in Nat : e = chain[i-1][1] /\ f = chain[i-1][2]
      BY <1>3, <3>1
    <3>4. e < c /\ f < d
      BY <1>4, <2>0, <3>1, <3>3
    <3>5. e + 1 \in Nat /\ f + 1 \in Nat /\ e + 1 <= c /\ f + 1 <= d
      BY <3>4
    <3>6. QED
      BY <2>0, <3>2, <3>3, <3>5
  <2>3. QED
    BY <2>1, <2>2
<1>8. U[n+1] <= w /\ V[n+1] <= z /\ U[n+1] \in Nat /\ V[n+1] \in Nat
  <2>1. n + 1 \in 1..n+1 /\ (n = 0 \/ n \in 1..n)
    OBVIOUS
  <2>2. CASE n = 0
    BY <1>6, <2>2
  <2>3. CASE n \in 1..n
    <3>1. U[n+1] = chain[n][1] + 1 /\ V[n+1] = chain[n][2] + 1
      BY <1>6, <2>3
    <3>2. PICK c \in Nat, d \in Nat : c = chain[n][1] /\ d = chain[n][2] /\ c < w /\ d < z
      BY <1>3, <2>3
    <3>3. c + 1 \in Nat /\ d + 1 \in Nat /\ c + 1 <= w /\ d + 1 <= z
      BY <3>2
    <3>4. QED
      BY <3>1, <3>2, <3>3
  <2>4. QED
    BY <2>1, <2>2, <2>3
<1>9. ASSUME NEW i \in 1..n
      PROVE  Lie(parts[i], SameLines, k + U[i], l + V[i], k + U[i+1], l + V[i+1])
  <2>1. PICK c \in Nat, d \in Nat : c = chain[i][1] /\ d = chain[i][2]
    BY <1>3
  <2>2. i + 1 \in 1..n+1 /\ i \in 1..n+1
    OBVIOUS
  <2>3. /\ F[i] = <<U[i], V[i]>> /\ U[i] \in Nat /\ V[i] \in Nat /\ U[i] <= c /\ V[i] <= d
        /\ U[i+1] = c + 1 /\ V[i+1] = d + 1 /\ chain[i] = <<c, d>> /\ <<k + c, l + d>> \in SameLines
    BY <1>3, <1>6, <1>7, <2>1, <2>2
  <2>4. Lie(Between(F[i], chain[i]), SameLines, k + U[i], l + V[i], k + c, l + d)
    BY <1>2, <2>1, <2>3, BetweenLies
  <2>5. k + c \in Nat /\ l + d \in Nat /\ k + U[i] \in Nat /\ l + V[i] \in Nat
        /\ k + U[i] <= k + c /\ l + V[i] <= l + d /\ k + U[i+1] = (k + c) + 1 /\ l + V[i+1] = (l + d) + 1
    <3>1. /\ k \in Nat /\ l \in Nat /\ c \in Nat /\ d \in Nat
          /\ U[i] \in Nat /\ V[i] \in Nat /\ U[i] <= c /\ V[i] <= d /\ U[i+1] = c + 1 /\ V[i+1] = d + 1
      BY <2>3
    <3>2. QED
      BY ONLY <3>1
  <2> DEFINE t == Match(k + c, l + d, 1)
  <2>6. t \in Tasks(SameLines) /\ t.a0 = k + c /\ t.a1 = (k + c) + 1 /\ t.b0 = l + d /\ t.b1 = (l + d) + 1
    <3>1. Alike(SameLines, k + c, l + d, 1)
      BY <2>3, <2>5, OneAlike
    <3>2. t \in Tasks(SameLines)
      BY <2>5, <3>1, MatchIs
    <3>3. QED
      BY <3>2 DEF Match
  <2>7. parts[i] = Between(F[i], chain[i]) \o <<t>>
    BY <2>1
  <2> HIDE DEF t, parts, F
  <2>8. Lie(<<t>>, SameLines, k + c, l + d, k + U[i+1], l + V[i+1])
    <3>1. k + c <= t.a0 /\ t.a1 <= k + U[i+1] /\ l + d <= t.b0 /\ t.b1 <= l + V[i+1]
      BY <2>5, <2>6
    <3>2. QED
      BY <2>6, <3>1, OneLies
  <2>9. /\ k + U[i+1] \in Nat /\ l + V[i+1] \in Nat
        /\ k + c <= k + U[i+1] /\ l + d <= l + V[i+1]
    BY <2>5
  <2>10. Meet(Between(F[i], chain[i]), <<t>>, SameLines, k + U[i], l + V[i], k + c, l + d, k + U[i+1], l + V[i+1])
    BY <2>4, <2>8 DEF Meet
  <2>11. QED
    BY <2>5, <2>7, <2>9, <2>10, LieOn
<1>10. parts \in Seq(Seq(Tasks(SameLines))) /\ Len(parts) = n
  <2>1. \A i \in 1..n : parts[i] \in Seq(Tasks(SameLines))
    BY <1>9 DEF Lie
  <2>2. DOMAIN parts = 1..n /\ parts = [i \in 1..n |-> parts[i]]
    OBVIOUS
  <2> HIDE DEF parts
  <2>3. parts \in [1..n -> Seq(Tasks(SameLines))]
    BY <2>1, <2>2
  <2>4. QED
    BY <2>3
<1> HIDE DEF parts, F
<1>11. PICK g : Flattens(g, parts, Tasks(SameLines))
  BY <1>10, FlattenRuns
<1>12. /\ g \in [0..n -> Seq(Tasks(SameLines))] /\ g[0] = << >>
       /\ \A i \in 1..n : g[i] = g[i-1] \o parts[i]
       /\ FlattenSeq(parts) = g[n]
  BY <1>10, <1>11 DEF Flattens
<1> DEFINE S == {i \in 0..n : Lie(g[i], SameLines, k, l, k + U[i+1], l + V[i+1])}
<1>13. 0..n \subseteq S
  <2>1. 0 \in S
    <3>1. Lie(<< >>, SameLines, k, l, k + U[0+1], l + V[0+1])
      BY NothingLies
    <3>2. QED
      BY <1>12, <3>1
  <2>2. ASSUME NEW i \in 0..n-1, i \in S PROVE i + 1 \in S
    <3>1. i + 1 \in 1..n /\ i + 1 \in 0..n /\ (i + 1) - 1 = i
      OBVIOUS
    <3>2. PICK j : j = i + 1
      OBVIOUS
    <3>3. g[j] = g[i] \o parts[j] /\ j \in 1..n /\ j \in 0..n
      BY <1>12, <3>1, <3>2
    <3>4. Lie(g[i], SameLines, k, l, k + U[j], l + V[j])
      BY <2>2, <3>2
    <3>5. Lie(parts[j], SameLines, k + U[j], l + V[j], k + U[j+1], l + V[j+1])
      BY <1>9, <3>3
    <3>6. /\ k + U[j] \in Nat /\ l + V[j] \in Nat /\ k + U[j+1] \in Nat /\ l + V[j+1] \in Nat
          /\ k <= k + U[j] /\ l <= l + V[j] /\ k + U[j] <= k + U[j+1] /\ l + V[j] <= l + V[j+1]
      <4>1. /\ U[j] \in Nat /\ V[j] \in Nat /\ U[j] <= chain[j][1] /\ V[j] <= chain[j][2]
            /\ U[j+1] = chain[j][1] + 1 /\ V[j+1] = chain[j][2] + 1
            /\ chain[j][1] \in Nat /\ chain[j][2] \in Nat
        BY <1>3, <1>6, <1>7, <3>3
      <4>2. k \in Nat /\ l \in Nat
        OBVIOUS
      <4>3. QED
        BY ONLY <4>1, <4>2
    <3>7. Meet(g[i], parts[j], SameLines, k, l, k + U[j], l + V[j], k + U[j+1], l + V[j+1])
      BY <3>4, <3>5 DEF Meet
    <3>8. Lie(g[i] \o parts[j], SameLines, k, l, k + U[j+1], l + V[j+1])
      BY <3>6, <3>7, LieOn
    <3>9. j \in S
      BY <3>3, <3>8
    <3>10. QED
      BY <3>2, <3>9
  <2> HIDE DEF S
  <2>3. QED
    BY <2>1, <2>2, UpTo
<1>14. Lie(FlattenSeq(parts), SameLines, k, l, k + U[n+1], l + V[n+1])
  <2>1. n \in S
    BY <1>13
  <2>2. QED
    BY <1>12, <2>1
<1>15. Lie(Between(F[n+1], <<w, z>>), SameLines, k + U[n+1], l + V[n+1], k + w, l + z)
  <2>1. n + 1 \in 1..n+1
    OBVIOUS
  <2>2. F[n+1] = <<U[n+1], V[n+1]>>
    BY <1>6, <2>1
  <2>3. QED
    BY <1>2, <1>8, <2>2, BetweenLies
<1>16. /\ k + U[n+1] \in Nat /\ l + V[n+1] \in Nat /\ k + w \in Nat /\ l + z \in Nat
       /\ k <= k + U[n+1] /\ l <= l + V[n+1] /\ k + U[n+1] <= k + w /\ l + V[n+1] <= l + z
  BY <1>8
<1>17. Meet(FlattenSeq(parts), Between(F[n+1], <<w, z>>), SameLines, k, l, k + U[n+1], l + V[n+1], k + w, l + z)
  BY <1>14, <1>15 DEF Meet
<1>18. Lie(FlattenSeq(parts) \o Between(F[n+1], <<w, z>>), SameLines, k, l, k + w, l + z)
  BY <1>16, <1>17, LieOn
<1>19. QED
  BY <1>2, <1>5, <1>18

-----------------------------------------------------------------------------
(* The alignment: what waits on the stack lies behind what was matched.      *)

LEMMA MaxOf ==
    ASSUME NEW n \in Nat, NEW S \in SUBSET (0..n), S # {}
    PROVE  Max(S) \in S
<1>1. S \in SUBSET Nat /\ \A i \in S : i <= n
  OBVIOUS
<1>2. \E m \in S : \A i \in S : m >= i
  BY <1>1, GreatestNumber
<1>3. QED
  BY <1>2 DEF Max

LinesTyped ==
    /\ left \in Seq(Nat) /\ right \in Seq(Nat)
    /\ a \in Seq(Nat) /\ b \in Seq(Nat)

LEMMA Lengths ==
    ASSUME LinesTyped
    PROVE  Len(a) \in Nat /\ Len(b) \in Nat /\ Len(left) \in Nat /\ Len(right) \in Nat
BY LenProperties DEF LinesTyped

Splits == {"split", "bisect", "exhausted"}

QueueIInv ==
    \E p \in 0..Len(a), q \in 0..Len(b) :
        Climbs(out, SameLines, 0, 0, p, q) /\ Wait(stack, SameLines, p, q, Len(a), Len(b))
RegionIInv ==
    /\ region \in Tasks(SameLines) /\ region.a1 <= Len(a) /\ region.b1 <= Len(b)
    /\ Climbs(out, SameLines, 0, 0, region.a0, region.b0)
    /\ Wait(stack, SameLines, region.a1, region.b1, Len(a), Len(b))
PairsIInv(pairs) ==
    /\ pairs \in Seq(InRegion)
    /\ \A i \in 1..Len(pairs) : pairs[i][1] < Width /\ pairs[i][2] < Height
    /\ \A i, j \in 1..Len(pairs) : i < j => pairs[i][1] < pairs[j][1]
ChainsIInv ==
    /\ anchor = [pairs |-> anchor.pairs, chains |-> anchor.chains, next |-> anchor.next]
    /\ PairsIInv(anchor.pairs)
    /\ anchor.next \in Nat \ {0}
    /\ \E row \in Nat :
          /\ AreChains(anchor.chains, InRegion, row, Width, Height)
          /\ \A i \in anchor.next..Len(anchor.pairs) : row <= anchor.pairs[i][1]
AlignIInv ==
    /\ pc = "script" => out = << >>
    /\ pc = "align" => QueueIInv
    /\ pc \in Splits \cup {"anchor"} => RegionIInv
    /\ pc = "anchor" => ChainsIInv
    /\ pc \in {"build", "group", "done"} => Climbs(out, SameLines, 0, 0, Len(a), Len(b))

LEMMA StillSame == ASSUME UNCHANGED <<input, lines>> PROVE SameLines' = SameLines /\ a' = a /\ b' = b
BY DEF SameLines, X, Y, L, R, input, lines

LEMMA SamePairs == SameLines \in SUBSET (Nat \X Nat)
BY DEF SameLines

LEMMA FrontWaits ==
    ASSUME NEW E, NEW p, NEW q, NEW u, NEW v, NEW ts, ts # << >>, Wait(ts, E, p, q, u, v)
    PROVE  /\ Last(ts) \in Tasks(E) /\ p <= Last(ts).a0 /\ Last(ts).a1 <= u
           /\ q <= Last(ts).b0 /\ Last(ts).b1 <= v
           /\ Wait(Front(ts), E, Last(ts).a1, Last(ts).b1, u, v)
<1>1. ts \in Seq(Tasks(E))
  BY DEF Wait
<1>2. PICK n \in Nat : n = Len(ts) /\ n # 0
  BY <1>1, EmptySeq
<1>3. Last(ts) = ts[n] /\ Last(ts) \in Tasks(E) /\ n \in 1..n
  BY <1>1, <1>2, LastIs
<1>4. /\ Front(ts) \in Seq(Tasks(E)) /\ Len(Front(ts)) = n - 1
      /\ \A i \in 1..n-1 : Front(ts)[i] = ts[i] /\ i \in 1..n /\ i < n
  <2>1. 1 \in Nat \ {0} /\ n - 1 \in Nat /\ 1 <= (n - 1) + 1 /\ n - 1 <= n
    BY <1>2
  <2>2. /\ SubSeq(ts, 1, n-1) \in Seq(Tasks(E)) /\ Len(SubSeq(ts, 1, n-1)) = ((n - 1) + 1) - 1
        /\ \A i \in 1..((n - 1) + 1) - 1 : SubSeq(ts, 1, n-1)[i] = ts[(1 - 1) + i]
    BY <1>1, <1>2, <2>1, Part
  <2>3. ((n - 1) + 1) - 1 = n - 1 /\ \A i \in Int : (1 - 1) + i = i
    OBVIOUS
  <2>4. Front(ts) = SubSeq(ts, 1, n-1)
    BY <1>2 DEF Front
  <2>5. \A i \in 1..n-1 : i \in 1..n /\ i < n /\ i \in Int
    OBVIOUS
  <2>6. QED
    BY <2>2, <2>3, <2>4, <2>5
<1>5. /\ \A i \in 1..n : p <= ts[i].a0 /\ ts[i].a1 <= u /\ q <= ts[i].b0 /\ ts[i].b1 <= v
      /\ \A i, j \in 1..n : i < j => ts[j].a1 <= ts[i].a0 /\ ts[j].b1 <= ts[i].b0
  BY <1>2 DEF Wait
<1>6. Wait(Front(ts), E, Last(ts).a1, Last(ts).b1, u, v)
  BY <1>3, <1>4, <1>5 DEF Wait
<1>7. QED
  BY <1>3, <1>5, <1>6

\* A match on top of the stack lengthens what was matched.
LEMMA EmitStep ==
    ASSUME LinesTyped, QueueIInv, EmitMatch
    PROVE  QueueIInv'
<1>1. PICK p \in 0..Len(a), q \in 0..Len(b) :
        Climbs(out, SameLines, 0, 0, p, q) /\ Wait(stack, SameLines, p, q, Len(a), Len(b))
  BY DEF QueueIInv
<1>2. PICK t : t = Last(stack)
  OBVIOUS
<1>3. stack # << >> /\ t.match /\ out' = out \o Pairs(t) /\ stack' = Front(stack)
  BY <1>2 DEF EmitMatch, Aligning, Top
<1>4. /\ t \in Tasks(SameLines) /\ p <= t.a0 /\ t.a1 <= Len(a) /\ q <= t.b0 /\ t.b1 <= Len(b)
      /\ Wait(stack', SameLines, t.a1, t.b1, Len(a), Len(b))
  BY <1>1, <1>2, <1>3, FrontWaits
<1>5. p \in Nat /\ q \in Nat /\ Len(a) \in Nat /\ Len(b) \in Nat
  BY Lengths
<1>6. PICK c \in Nat, d \in Nat, n \in Nat :
        c = t.a0 /\ d = t.b0 /\ n = t.a1 - t.a0 /\ c + n = t.a1 /\ d + n = t.b1 /\ Alike(SameLines, c, d, n)
  <2>1. /\ t.a0 \in Nat /\ t.a1 \in Nat /\ t.b0 \in Nat /\ t.b1 \in Nat /\ t.a0 <= t.a1 /\ t.b0 <= t.b1
    BY <1>4, TaskNumbers
  <2>2. t.b1 - t.b0 = t.a1 - t.a0 /\ Alike(SameLines, t.a0, t.b0, t.a1 - t.a0)
    BY <1>3, <1>4 DEF Tasks
  <2>3. t.a1 - t.a0 \in Nat /\ t.a0 + (t.a1 - t.a0) = t.a1 /\ t.b0 + (t.a1 - t.a0) = t.b1
    BY <2>1, <2>2
  <2>4. QED
    BY <2>1, <2>2, <2>3
<1>7. Pairs(t) = [i \in 1..n |-> <<c + i - 1, d + i - 1>>]
  <2>1. Pairs(t) = [i \in 1..(t.a1 - t.a0) |-> <<t.a0 + i - 1, t.b0 + i - 1>>]
    BY DEF Pairs
  <2>2. t.a1 - t.a0 = n /\ t.a0 = c /\ t.b0 = d
    BY <1>6
  <2>3. QED
    BY ONLY <2>1, <2>2
<1>8. Climbs(Pairs(t), SameLines, c, d, c + n, d + n)
  <2>1. Alike(SameLines, c, d, n)
    BY <1>6
  <2>2. Climbs([i \in 1..n |-> <<c + i - 1, d + i - 1>>], SameLines, c, d, c + n, d + n)
    BY <2>1, SamePairs, MatchClimbs
  <2>3. QED
    BY ONLY <1>7, <2>2
<1>9. Climbs(out, SameLines, 0, 0, c, d)
  BY <1>1, <1>4, <1>5, <1>6, SamePairs, Higher
<1>10. Climbs(out', SameLines, 0, 0, c + n, d + n)
  <2>1. Joins(out, Pairs(t), SameLines, 0, 0, c, d, c + n, d + n)
    BY <1>8, <1>9 DEF Joins
  <2>2. 0 \in Nat /\ c + n \in Nat /\ d + n \in Nat /\ 0 <= c /\ 0 <= d /\ c <= c + n /\ d <= d + n
    OBVIOUS
  <2>3. QED
    BY <1>3, <2>1, <2>2, SamePairs, ClimbOn
<1>11. c + n \in 0..Len(a) /\ d + n \in 0..Len(b)
  <2>1. c + n <= Len(a) /\ d + n <= Len(b) /\ c + n \in Nat /\ d + n \in Nat
    <3>1. c + n = t.a1 /\ d + n = t.b1 /\ t.a1 <= Len(a) /\ t.b1 <= Len(b)
      BY <1>4, <1>6
    <3>2. c \in Nat /\ d \in Nat /\ n \in Nat
      OBVIOUS
    <3>3. QED
      BY ONLY <3>1, <3>2
  <2>2. QED
    BY <1>5, <2>1
<1>12. SameLines' = SameLines /\ a' = a /\ b' = b
  BY StillSame DEF EmitMatch
<1>13. Wait(stack', SameLines, c + n, d + n, Len(a), Len(b))
  BY <1>4, <1>6
<1>14. QED
  BY <1>10, <1>11, <1>12, <1>13 DEF QueueIInv

\* The parts of a region take its place.
LEMMA IntoStep ==
    ASSUME LinesTyped, RegionIInv, NEW parts,
           Lie(parts, SameLines, region.a0, region.b0, region.a1, region.b1), Into(parts)
    PROVE  AlignIInv'
<1>1. /\ region.a0 \in Nat /\ region.a1 \in Nat /\ region.b0 \in Nat /\ region.b1 \in Nat
      /\ region.a0 <= region.a1 /\ region.b0 <= region.b1
  BY TaskNumbers DEF RegionIInv
<1>2. /\ region.a1 <= Len(a) /\ region.b1 <= Len(b)
      /\ Climbs(out, SameLines, 0, 0, region.a0, region.b0)
      /\ Wait(stack, SameLines, region.a1, region.b1, Len(a), Len(b))
  BY DEF RegionIInv
<1>3. Len(a) \in Nat /\ Len(b) \in Nat
  BY Lengths
<1>4. Replaces(parts, stack, SameLines, region.a0, region.b0, region.a1, region.b1, Len(a), Len(b))
  BY <1>2 DEF Replaces
<1>5. Wait(stack \o Reverse(parts), SameLines, region.a0, region.b0, Len(a), Len(b))
  BY <1>1, <1>2, <1>3, <1>4, PartsWait
<1>6. /\ stack' = stack \o Reverse(parts) /\ pc' = "align" /\ out' = out
      /\ SameLines' = SameLines /\ a' = a /\ b' = b
  BY StillSame DEF Into
<1>7. PICK p \in 0..Len(a), q \in 0..Len(b) : p = region.a0 /\ q = region.b0
  BY <1>1, <1>2, <1>3
<1>8. QueueIInv'
  BY <1>2, <1>5, <1>6, <1>7 DEF QueueIInv
<1>9. QED
  BY <1>6, <1>8 DEF AlignIInv, Splits

\* A step of the search leaves the region alone.
LEMMA SearchStep ==
    ASSUME RegionIInv, UNCHANGED <<input, lines, alignment>>, pc' \in Splits
    PROVE  AlignIInv'
<1>1. SameLines' = SameLines /\ a' = a /\ b' = b
  BY StillSame
<1>2. stack' = stack /\ out' = out /\ region' = region
  BY DEF alignment
<1>3. RegionIInv'
  BY <1>1, <1>2 DEF RegionIInv
<1>4. QED
  BY <1>3 DEF AlignIInv, Splits

LEMMA TwoPartsLie ==
    ASSUME NEW E, region \in Tasks(E), NEW c \in Nat, NEW d \in Nat,
           region.a0 + c <= region.a1, region.b0 + d <= region.b1
    PROVE  Lie(<<Task(region.a0, region.a0 + c, region.b0, region.b0 + d),
                 Task(region.a0 + c, region.a1, region.b0 + d, region.b1)>>,
               E, region.a0, region.b0, region.a1, region.b1)
<1>1. PICK k \in Nat, l \in Nat, m \in Nat, n \in Nat :
        /\ k = region.a0 /\ l = region.b0 /\ m = region.a1 /\ n = region.b1
        /\ k + c <= m /\ l + d <= n
  BY TaskNumbers
<1>2. /\ k + c \in Nat /\ l + d \in Nat /\ k <= k + c /\ l <= l + d
      /\ k <= k /\ l <= l /\ m <= m /\ n <= n
      /\ k + c <= k + c /\ l + d <= l + d
  OBVIOUS
<1> DEFINE s == Task(k, k + c, l, l + d)
           t == Task(k + c, m, l + d, n)
<1>3. s \in Tasks(E) /\ t \in Tasks(E)
  BY <1>1, <1>2, TaskIs
<1>4. s.a0 = k /\ s.a1 = k + c /\ s.b0 = l /\ s.b1 = l + d /\ t.a0 = k + c /\ t.a1 = m /\ t.b0 = l + d /\ t.b1 = n
  BY DEF Task
<1> HIDE DEF s, t
<1>5. Lie(<<s>>, E, k, l, k + c, l + d)
  BY <1>2, <1>3, <1>4, OneLies
<1>6. Lie(<<t>>, E, k + c, l + d, m, n)
  BY <1>2, <1>3, <1>4, OneLies
<1>7. Meet(<<s>>, <<t>>, E, k, l, k + c, l + d, m, n)
  BY <1>5, <1>6 DEF Meet
<1>8. Lie(<<s>> \o <<t>>, E, k, l, m, n)
  <2>1. k <= k + c /\ l <= l + d /\ k + c <= m /\ l + d <= n /\ k + c \in Nat /\ l + d \in Nat
    BY <1>1, <1>2
  <2>2. QED
    BY <1>7, <2>1, LieOn
<1>9. <<s>> \o <<t>> = <<s, t>>
  <2>1. /\ <<s>> \in Seq(Tasks(E)) /\ <<t>> \in Seq(Tasks(E)) /\ Len(<<s>>) = 1 /\ Len(<<t>>) = 1
        /\ <<s>>[1] = s /\ <<t>>[1] = t
    BY <1>3
  <2>2. /\ <<s>> \o <<t>> \in Seq(Tasks(E)) /\ Len(<<s>> \o <<t>>) = Len(<<s>>) + Len(<<t>>)
        /\ \A i \in 1..Len(<<s>>)+Len(<<t>>) :
              (<<s>> \o <<t>>)[i] = IF i <= Len(<<s>>) THEN <<s>>[i] ELSE <<t>>[i - Len(<<s>>)]
    BY <2>1, ConcatProperties
  <2>3. PICK r : r = <<s>> \o <<t>>
    OBVIOUS
  <2>4. r \in Seq(Tasks(E)) /\ Len(r) = 2 /\ r[1] = s /\ r[2] = t
    BY <2>1, <2>2, <2>3
  <2>5. r = <<s, t>>
    BY ONLY <2>4
  <2>6. QED
    BY <2>3, <2>5
<1>10. QED
  BY <1>1, <1>8, <1>9 DEF s, t

\* Where a region is split makes no difference.
LEMMA SplitAtStep ==
    ASSUME LinesTyped, RegionIInv, NEW px, NEW py, SplitAt(px, py)
    PROVE  AlignIInv'
<1>1. CASE px \in 0..Width /\ py \in 0..Height /\ px + py \notin {0, Width + Height}
  <2>1. Into(<<Task(region.a0, region.a0 + px, region.b0, region.b0 + py),
               Task(region.a0 + px, region.a1, region.b0 + py, region.b1)>>)
    BY <1>1 DEF SplitAt
  <2>2. region \in Tasks(SameLines)
    BY DEF RegionIInv
  <2>3. /\ region.a0 \in Nat /\ region.a1 \in Nat /\ region.b0 \in Nat /\ region.b1 \in Nat
    BY <2>2, TaskNumbers
  <2>4. px \in Nat /\ py \in Nat /\ region.a0 + px <= region.a1 /\ region.b0 + py <= region.b1
    BY <1>1, <2>3 DEF Width, Height
  <2>5. Lie(<<Task(region.a0, region.a0 + px, region.b0, region.b0 + py),
              Task(region.a0 + px, region.a1, region.b0 + py, region.b1)>>,
            SameLines, region.a0, region.b0, region.a1, region.b1)
    BY <2>2, <2>4, TwoPartsLie
  <2>6. QED
    BY <2>1, <2>5, IntoStep
<1>2. CASE ~(px \in 0..Width /\ py \in 0..Height /\ px + py \notin {0, Width + Height})
  <2>1. pc' = "panic"
    BY <1>2 DEF SplitAt
  <2>2. QED
    BY <2>1 DEF AlignIInv, Splits
<1>3. QED
  BY <1>1, <1>2

\* A single line meets a copy of it.
LEMMA SplitLineStep ==
    ASSUME LinesTyped, RegionIInv, SplitLine
    PROVE  AlignIInv'
<1> DEFINE copies == {p \in (0..(Width - 1)) \X (0..(Height - 1)) : x(p[1]) = y(p[2])}
           first == CHOOSE p \in copies : \A q \in copies : p[1] + p[2] <= q[1] + q[2]
<1>1. region \in Tasks(SameLines)
  BY DEF RegionIInv
<1>2. CASE copies = {}
  <2>1. Into(<< >>)
    BY <1>2 DEF SplitLine
  <2>2. QED
    BY <2>1, NothingLies, IntoStep
<1>3. CASE copies # {}
  <2>1. Into(<<Match(region.a0 + first[1], region.b0 + first[2], 1)>>)
    BY <1>3 DEF SplitLine
  <2>2. first \in copies
    <3> DEFINE S == {p[1] + p[2] : p \in copies}
    <3>1. \A p \in copies : p[1] \in Nat /\ p[2] \in Nat
      OBVIOUS
    <3> HIDE DEF copies
    <3>2. S \in SUBSET Nat /\ S # {}
      BY <1>3, <3>1
    <3>3. PICK n \in S : \A m \in S : n <= m
      BY <3>2, LeastNumber
    <3>4. PICK p \in copies : n = p[1] + p[2]
      BY <3>3
    <3>5. \A q \in copies : p[1] + p[2] <= q[1] + q[2]
      BY <3>3, <3>4
    <3>6. QED
      BY <3>4, <3>5
  <2>3. PICK c, d : c = first[1] /\ d = first[2]
    OBVIOUS
  <2>4. c \in 0..(Width - 1) /\ d \in 0..(Height - 1) /\ x(c) = y(d)
    <3>1. PICK p \in copies : p = first
      BY <2>2
    <3>2. p[1] \in 0..(Width - 1) /\ p[2] \in 0..(Height - 1) /\ x(p[1]) = y(p[2])
      BY <3>1
    <3>3. QED
      BY <2>3, <3>1, <3>2
  <2> HIDE DEF copies, first
  <2>5. /\ region.a0 \in Nat /\ region.a1 \in Nat /\ region.b0 \in Nat /\ region.b1 \in Nat
    BY <1>1, TaskNumbers
  <2>6. PICK k \in Nat, l \in Nat : k = region.a0 + c /\ l = region.b0 + d
    BY <2>4, <2>5
  <2>7. /\ region.a0 <= k /\ k + 1 <= region.a1 /\ region.b0 <= l /\ l + 1 <= region.b1
    BY <2>4, <2>5, <2>6 DEF Width, Height
  <2>8. <<k, l>> \in SameLines
    <3>1. X(k) = Y(l)
      BY <2>4, <2>6 DEF x, y
    <3>2. QED
      BY <3>1 DEF SameLines
  <2> DEFINE t == Match(k, l, 1)
  <2>9. t \in Tasks(SameLines) /\ t.a0 = k /\ t.a1 = k + 1 /\ t.b0 = l /\ t.b1 = l + 1
    <3>1. Alike(SameLines, k, l, 1)
      BY <2>8, OneAlike
    <3>2. t \in Tasks(SameLines)
      BY <3>1, MatchIs
    <3>3. QED
      BY <3>2 DEF Match
  <2>10. Into(<<t>>)
    BY <2>1, <2>3, <2>6
  <2> HIDE DEF t
  <2>11. Lie(<<t>>, SameLines, region.a0, region.b0, region.a1, region.b1)
    BY <2>7, <2>9, OneLies
  <2>12. QED
    BY <2>10, <2>11, IntoStep
<1>4. QED
  BY <1>2, <1>3

LEMMA RegionSize ==
    ASSUME NEW E, region \in Tasks(E)
    PROVE  /\ Width \in Nat /\ Height \in Nat
           /\ region.a0 + Width = region.a1 /\ region.b0 + Height = region.b1
<1>1. PICK k \in Nat, l \in Nat, m \in Nat, n \in Nat :
        k = region.a0 /\ l = region.b0 /\ m = region.a1 /\ n = region.b1 /\ k <= m /\ l <= n
  BY TaskNumbers
<1>2. Width = m - k /\ Height = n - l
  BY <1>1 DEF Width, Height
<1>3. QED
  BY <1>1, <1>2

\* What a region's ends have in common is matched, and the rest is split.
LEMMA TrimStep ==
    ASSUME LinesTyped, QueueIInv, Trim
    PROVE  RegionIInv'
<1>1. PICK p \in 0..Len(a), q \in 0..Len(b) :
        Climbs(out, SameLines, 0, 0, p, q) /\ Wait(stack, SameLines, p, q, Len(a), Len(b))
  BY DEF QueueIInv
<1>2. PICK t : t = Last(stack)
  OBVIOUS
<1>3. stack # << >>
  BY DEF Trim, Aligning
<1>4. /\ t \in Tasks(SameLines) /\ p <= t.a0 /\ t.a1 <= Len(a) /\ q <= t.b0 /\ t.b1 <= Len(b)
      /\ Wait(Front(stack), SameLines, t.a1, t.b1, Len(a), Len(b))
  BY <1>1, <1>2, <1>3, FrontWaits
<1>5. p \in Nat /\ q \in Nat /\ Len(a) \in Nat /\ Len(b) \in Nat
  BY Lengths
<1>6. PICK c \in Nat, d \in Nat, u \in Nat, v \in Nat :
        c = t.a0 /\ d = t.b0 /\ u = t.a1 /\ v = t.b1 /\ c <= u /\ d <= v
  BY <1>4, TaskNumbers
<1>7. PICK s \in Nat : s = Lesser(u - c, v - d) /\ c + s <= u /\ d + s <= v
  <2>1. c \in Nat /\ d \in Nat /\ u \in Nat /\ v \in Nat /\ c <= u /\ d <= v
    BY <1>6
  <2>2. /\ u - c \in Nat /\ v - d \in Nat
        /\ Lesser(u - c, v - d) \in {u - c, v - d}
        /\ Lesser(u - c, v - d) <= u - c /\ Lesser(u - c, v - d) <= v - d
    BY ONLY <2>1 DEF Lesser
  <2>3. QED
    BY ONLY <2>1, <2>2
<1> DEFINE P == {k \in 0..s : \A i \in 0..(k - 1) : X(c + i) = Y(d + i)}
           e == Max(P)
           Q == {k \in 0..(s - e) : \A i \in 0..(k - 1) : X(u - 1 - i) = Y(v - 1 - i)}
           f == Max(Q)
<1>8. /\ out' = out \o Pairs(Match(c, d, e))
      /\ region' = Task(c + e, u - f, d + e, v - f)
      /\ stack' = IF f = 0 THEN Front(stack) ELSE Append(Front(stack), Match(u - f, v - f, f))
  BY <1>2, <1>6, <1>7 DEF Trim, Common, Top
<1>9. e \in 0..s /\ \A i \in 0..(e - 1) : X(c + i) = Y(d + i)
  <2>1. P \in SUBSET (0..s) /\ 0 \in P
    OBVIOUS
  <2>2. Max(P) \in P
    <3> HIDE DEF P
    <3>1. QED
      BY <2>1, MaxOf
  <2>3. QED
    BY <2>2
<1>10. PICK g \in Nat : g = e /\ g <= s
  <2> HIDE DEF e
  <2>1. s \in Nat /\ e \in 0..s
    BY <1>9
  <2>2. QED
    BY ONLY <2>1
<1>11. f \in 0..(s - e) /\ \A i \in 0..(f - 1) : X(u - 1 - i) = Y(v - 1 - i)
  <2>1. s - e \in Nat
    <3> HIDE DEF e
    <3>1. QED
      BY <1>10
  <2>2. Q \in SUBSET (0..(s - e)) /\ 0 \in Q
    <3> HIDE DEF e
    <3>1. QED
      BY <2>1
  <2>3. Max(Q) \in Q
    <3> HIDE DEF Q
    <3>1. QED
      BY <2>1, <2>2, MaxOf
  <2>4. QED
    BY <2>3
<1> HIDE DEF P, e, Q, f
<1>12. PICK h \in Nat : h = f /\ g + h <= s
  BY <1>10, <1>11
<1>13. /\ c + g \in Nat /\ d + g \in Nat /\ u - h \in Nat /\ v - h \in Nat
       /\ c + g <= u - h /\ d + g <= v - h /\ c <= c + g /\ d <= d + g
       /\ u - h <= u /\ v - h <= v /\ (u - h) + h = u /\ (v - h) + h = v
  <2>1. c + s <= u /\ d + s <= v /\ g + h <= s
    BY <1>7, <1>12
  <2>2. QED
    BY <2>1
<1>14. Alike(SameLines, c, d, g)
  <2>1. ASSUME NEW k \in 0..g-1 PROVE <<c + k, d + k>> \in SameLines
    <3>1. X(c + k) = Y(d + k) /\ c + k \in Nat /\ d + k \in Nat
      BY <1>9, <1>10
    <3>2. QED
      BY <3>1 DEF SameLines
  <2>2. QED
    BY <2>1 DEF Alike
<1>15. Alike(SameLines, u - h, v - h, h)
  <2>1. ASSUME NEW k \in 0..h-1 PROVE <<(u - h) + k, (v - h) + k>> \in SameLines
    <3>1. PICK i \in 0..h-1 : i = (h - 1) - k
      OBVIOUS
    <3>2. X(u - 1 - i) = Y(v - 1 - i)
      BY <1>11, <1>12
    <3>3. u - 1 - i = (u - h) + k /\ v - 1 - i = (v - h) + k
      BY <3>1
    <3>4. (u - h) + k \in Nat /\ (v - h) + k \in Nat
      BY <1>13
    <3>5. QED
      BY <3>2, <3>3, <3>4 DEF SameLines
  <2>2. QED
    BY <2>1 DEF Alike
<1>16. Climbs(out', SameLines, 0, 0, c + g, d + g)
  <2>1. Pairs(Match(c, d, g)) = [i \in 1..g |-> <<c + i - 1, d + i - 1>>]
    <3>1. (c + g) - c = g
      OBVIOUS
    <3>2. QED
      BY <3>1 DEF Pairs, Match
  <2>2. Climbs(Pairs(Match(c, d, g)), SameLines, c, d, c + g, d + g)
    BY <1>14, <2>1, SamePairs, MatchClimbs
  <2>3. Climbs(out, SameLines, 0, 0, c, d)
    BY <1>1, <1>4, <1>5, <1>6, SamePairs, Higher
  <2>4. Joins(out, Pairs(Match(c, d, g)), SameLines, 0, 0, c, d, c + g, d + g)
    BY <2>2, <2>3 DEF Joins
  <2>5. 0 \in Nat /\ 0 <= c /\ 0 <= d
    OBVIOUS
  <2>6. QED
    BY <1>8, <1>10, <1>13, <2>4, <2>5, SamePairs, ClimbOn
<1>17. u <= Len(a) /\ v <= Len(b) /\ Wait(Front(stack), SameLines, u, v, Len(a), Len(b))
  BY <1>4, <1>6
<1>18. Wait(stack', SameLines, u - h, v - h, Len(a), Len(b))
  <2>1. CASE h = 0
    <3>1. u - h = u /\ v - h = v
      BY <2>1
    <3>2. QED
      BY <1>8, <1>12, <1>17, <2>1, <3>1
  <2>2. CASE h # 0
    <3> DEFINE m == Match(u - h, v - h, h)
    <3>1. m \in Tasks(SameLines) /\ m.a0 = u - h /\ m.a1 = u /\ m.b0 = v - h /\ m.b1 = v
      <4>1. m \in Tasks(SameLines)
        BY <1>13, <1>15, MatchIs
      <4>2. QED
        BY <1>13, <4>1 DEF Match
    <3>2. stack' = Append(Front(stack), m)
      BY <1>8, <1>12, <2>2
    <3> HIDE DEF m
    <3>3. Reverse(<<m>>) = <<m>>
      <4>1. Len(<<m>>) = 1 /\ <<m>>[(1 - 1) + 1] = m /\ \A i \in 1..1 : i = 1
        OBVIOUS
      <4>2. [i \in 1..1 |-> <<m>>[(1 - i) + 1]] = <<m>>
        BY <4>1
      <4>3. QED
        BY <4>1, <4>2 DEF Reverse
    <3>4. stack' = Front(stack) \o Reverse(<<m>>)
      <4>1. Front(stack) \in Seq(Tasks(SameLines))
        BY <1>17 DEF Wait
      <4>2. QED
        BY <3>1, <3>2, <3>3, <4>1, AppendIsConcat
    <3>5. Lie(<<m>>, SameLines, u - h, v - h, u, v)
      <4>1. u - h <= m.a0 /\ m.a1 <= u /\ v - h <= m.b0 /\ m.b1 <= v
        BY <1>13, <3>1
      <4>2. QED
        BY <3>1, <4>1, OneLies
    <3>6. Replaces(<<m>>, Front(stack), SameLines, u - h, v - h, u, v, Len(a), Len(b))
      BY <1>17, <3>5 DEF Replaces
    <3>7. QED
      BY <1>5, <1>13, <1>17, <3>4, <3>6, PartsWait
  <2>3. QED
    BY <2>1, <2>2
<1>19. SameLines' = SameLines /\ a' = a /\ b' = b
  BY StillSame DEF Trim
<1> DEFINE z == Task(c + g, u - h, d + g, v - h)
<1>20. /\ z \in Tasks(SameLines) /\ z.a0 = c + g /\ z.a1 = u - h /\ z.b0 = d + g /\ z.b1 = v - h
       /\ region' = z
  <2>1. z \in Tasks(SameLines)
    BY <1>13, TaskIs
  <2>2. QED
    BY <1>8, <1>10, <1>12, <2>1 DEF Task
<1> HIDE DEF z
<1>21. u - h <= Len(a) /\ v - h <= Len(b)
  BY <1>5, <1>13, <1>17
<1>22. QED
  BY <1>16, <1>18, <1>19, <1>20, <1>21 DEF RegionIInv

-----------------------------------------------------------------------------
(* Anchoring.                                                               *)

LEMMA UniqueIs == ASSUME Width \in Nat, Height \in Nat PROVE PairsIInv(Unique)
<1> DEFINE S == {i \in 0..(Width - 1) : OnceIn(x(i), Width, x) /\ OnceIn(x(i), Height, y)}
           i0 == InOrder(Width, S)
           C(i) == CHOOSE j \in 0..(Height - 1) : y(j) = x(i)
<1>1. Unique = [n \in 1..Len(i0) |-> <<i0[n], C(i0[n])>>]
  BY DEF Unique
<1>2. Lists(i0, Width, S)
  BY InOrderLists
<1>3. ASSUME NEW i \in S PROVE i \in 0..(Width - 1) /\ C(i) \in 0..(Height - 1) /\ x(i) = y(C(i))
  <2> DEFINE T == {j \in 0..(Height - 1) : y(j) = x(i)}
  <2>1. Cardinality(T) = 1
    BY DEF OnceIn
  <2>2. T # {}
    <3> HIDE DEF T
    <3>1. QED
      BY <2>1, FS_EmptySet
  <2>3. \E j \in 0..(Height - 1) : y(j) = x(i)
    BY <2>2
  <2>4. C(i) \in 0..(Height - 1) /\ y(C(i)) = x(i)
    BY <2>3
  <2>5. QED
    BY <2>4
<1> HIDE DEF S, i0, C
<1>4. PICK m \in Nat : m = Len(i0)
  BY <1>2, LenProperties DEF Lists, Rising
<1>5. /\ \A k \in 1..m : i0[k] \in S
      /\ \A k, l \in 1..m : k < l => i0[k] < i0[l]
  BY <1>2, <1>4 DEF Lists, Rising
<1> DEFINE f == [n \in 1..m |-> <<i0[n], C(i0[n])>>]
<1>6. ASSUME NEW k \in 1..m
      PROVE  /\ <<i0[k], C(i0[k])>> \in InRegion
             /\ i0[k] < Width /\ C(i0[k]) < Height
  <2>1. /\ i0[k] \in 0..(Width - 1) /\ C(i0[k]) \in 0..(Height - 1) /\ x(i0[k]) = y(C(i0[k]))
    BY <1>3, <1>5
  <2>2. QED
    BY <2>1 DEF InRegion
<1>7. f \in Seq(InRegion) /\ Len(f) = m /\ \A k \in 1..m : f[k][1] = i0[k] /\ f[k][2] = C(i0[k])
  <2>1. f \in [1..m -> InRegion]
    BY <1>6
  <2>2. \A k \in 1..m : f[k][1] = i0[k] /\ f[k][2] = C(i0[k])
    OBVIOUS
  <2> HIDE DEF f
  <2>3. QED
    BY <2>1, <2>2
<1>8. Unique = f
  BY <1>1, <1>4
<1> HIDE DEF f
<1>9. /\ \A k \in 1..m : f[k][1] < Width /\ f[k][2] < Height
      /\ \A k, l \in 1..m : k < l => f[k][1] < f[l][1]
  BY <1>5, <1>6, <1>7
<1>10. QED
  BY <1>7, <1>8, <1>9 DEF PairsIInv

LEMMA BeginAnchorStep ==
    ASSUME LinesTyped, RegionIInv, BeginAnchor
    PROVE  AlignIInv'
<1>1. /\ anchor' = [pairs |-> Unique, chains |-> << >>, next |-> 1] /\ pc' = "anchor"
      /\ UNCHANGED <<input, lines, alignment>>
  BY DEF BeginAnchor
<1>2. SameLines' = SameLines /\ a' = a /\ b' = b
  BY <1>1, StillSame
<1>3. stack' = stack /\ out' = out /\ region' = region
  BY <1>1 DEF alignment
<1>4. RegionIInv'
  BY <1>2, <1>3 DEF RegionIInv
<1>5. Width \in Nat /\ Height \in Nat
  BY RegionSize DEF RegionIInv
<1>6. InRegion' = InRegion /\ Width' = Width /\ Height' = Height
  BY <1>1, <1>3 DEF InRegion, Width, Height, x, y, X, Y, L, R, input, lines
<1>7. PairsIInv(Unique)
  BY <1>5, UniqueIs
<1>8. PICK pairs : pairs = Unique
  OBVIOUS
<1>9. anchor' = [pairs |-> pairs, chains |-> << >>, next |-> 1]
  BY <1>1, <1>8
<1>10. /\ anchor'.pairs = pairs /\ anchor'.chains = << >> /\ anchor'.next = 1
       /\ anchor' = [pairs |-> anchor'.pairs, chains |-> anchor'.chains, next |-> anchor'.next]
  BY <1>9
<1>11. AreChains(<< >>, InRegion, 0, Width, Height)
  <2>1. << >> \in Seq(Seq(InRegion)) /\ Len(<< >>) = 0
    BY EmptySeq
  <2>2. QED
    BY <1>5, <2>1 DEF AreChains, Sorted
<1>12. PairsIInv(pairs) /\ \A i \in 1..Len(pairs) : 0 <= pairs[i][1]
  <2>1. PairsIInv(pairs)
    BY <1>7, <1>8
  <2>2. \A i \in 1..Len(pairs) : pairs[i] \in InRegion
    BY <2>1, ElementOfSeq DEF PairsIInv
  <2>3. QED
    BY <2>1, <2>2 DEF InRegion
<1>13. ChainsIInv'
  <2>1. PairsIInv(anchor.pairs)'
    BY <1>6, <1>10, <1>12 DEF PairsIInv
  <2>2. 0 \in Nat /\ 1 \in Nat \ {0}
    OBVIOUS
  <2>3. QED
    BY <1>6, <1>10, <1>11, <1>12, <2>1, <2>2 DEF ChainsIInv
<1>14. QED
  BY <1>1, <1>4, <1>13 DEF AlignIInv, Splits

LEMMA AnchorPairStep ==
    ASSUME LinesTyped, RegionIInv, ChainsIInv, AnchorPair
    PROVE  AlignIInv'
<1>1. PICK pairs, chains, n : /\ anchor = [pairs |-> pairs, chains |-> chains, next |-> n]
                              /\ pairs = anchor.pairs /\ chains = anchor.chains /\ n = anchor.next
  BY DEF ChainsIInv
<1>2. PICK e : e = pairs[n]
  OBVIOUS
<1>3. n <= Len(pairs) /\ pc' = "anchor" /\ UNCHANGED <<input, lines, alignment>>
  BY <1>1 DEF AnchorPair
<1>4. anchor' = [pairs |-> pairs, chains |-> Placed(chains, e), next |-> n + 1]
  BY <1>1, <1>2 DEF AnchorPair, Placed
<1>5. SameLines' = SameLines /\ a' = a /\ b' = b
  BY <1>3, StillSame
<1>6. stack' = stack /\ out' = out /\ region' = region
  BY <1>3 DEF alignment
<1>7. RegionIInv'
  BY <1>5, <1>6 DEF RegionIInv
<1>8. Width \in Nat /\ Height \in Nat
  BY RegionSize DEF RegionIInv
<1>9. InRegion' = InRegion /\ Width' = Width /\ Height' = Height
  BY <1>3, <1>6 DEF InRegion, Width, Height, x, y, X, Y, L, R, input, lines
<1>10. n \in Nat \ {0} /\ PairsIInv(pairs)
  BY <1>1 DEF ChainsIInv
<1>11. PICK row \in Nat : /\ AreChains(chains, InRegion, row, Width, Height)
                         /\ \A i \in n..Len(pairs) : row <= pairs[i][1]
  BY <1>1 DEF ChainsIInv
<1>12. PICK m \in Nat : m = Len(pairs) /\ n \in 1..m
  <2>1. Len(pairs) \in Nat
    BY <1>10, LenProperties DEF PairsIInv
  <2>2. QED
    BY <1>3, <1>10, <2>1
<1>13. /\ \A i \in 1..m : pairs[i] \in InRegion /\ pairs[i][1] < Width /\ pairs[i][2] < Height
       /\ \A i, j \in 1..m : i < j => pairs[i][1] < pairs[j][1]
  BY <1>10, <1>12, ElementOfSeq DEF PairsIInv
<1>14. e \in InRegion /\ e[1] \in Nat /\ row <= e[1] /\ e[1] < Width /\ e[2] < Height
  <2>1. e \in InRegion /\ e[1] < Width /\ e[2] < Height
    BY <1>2, <1>12, <1>13
  <2>2. n \in n..m
    BY <1>12
  <2>3. QED
    BY <1>2, <1>11, <1>12, <2>1, <2>2 DEF InRegion
<1>15. InRegion \in SUBSET (Nat \X Nat)
  BY DEF InRegion
<1>16. AreChains(Placed(chains, e), InRegion, e[1] + 1, Width, Height)
  BY <1>8, <1>11, <1>14, <1>15, PlacedAreChains
<1>17. \A i \in n+1..m : e[1] + 1 <= pairs[i][1]
  <2> SUFFICES ASSUME NEW i \in n+1..m PROVE e[1] + 1 <= pairs[i][1]
    OBVIOUS
  <2>1. i \in 1..m /\ n < i
    BY <1>12
  <2>2. pairs[n][1] < pairs[i][1] /\ pairs[i][1] \in Nat
    BY <1>12, <1>13, <2>1 DEF InRegion
  <2>3. QED
    BY <1>2, <1>14, <2>2
<1>18. PICK placed : placed = Placed(chains, e)
  OBVIOUS
<1>19. /\ anchor'.pairs = pairs /\ anchor'.chains = placed /\ anchor'.next = n + 1
       /\ anchor' = [pairs |-> anchor'.pairs, chains |-> anchor'.chains, next |-> anchor'.next]
  BY <1>4, <1>18
<1>20. PairsIInv(anchor.pairs)'
  BY <1>9, <1>10, <1>19 DEF PairsIInv
<1>21. PICK l \in Nat : l = e[1] + 1
  BY <1>14
<1>22. /\ AreChains(placed, InRegion, l, Width, Height)
       /\ \A i \in n+1..Len(pairs) : l <= pairs[i][1]
       /\ n + 1 \in Nat \ {0}
  BY <1>10, <1>12, <1>16, <1>17, <1>18, <1>21
<1>23. ChainsIInv'
  BY <1>9, <1>19, <1>20, <1>22 DEF ChainsIInv
<1>24. QED
  BY <1>3, <1>7, <1>23 DEF AlignIInv, Splits

LEMMA AnchorSplitStep ==
    ASSUME LinesTyped, RegionIInv, ChainsIInv, AnchorSplit
    PROVE  AlignIInv'
<1>1. Into(OrNothing(anchor.chains))
  BY DEF AnchorSplit
<1>2. PICK chains : chains = anchor.chains
  OBVIOUS
<1>3. PICK row \in Nat : AreChains(chains, InRegion, row, Width, Height)
  BY <1>2 DEF ChainsIInv
<1>4. region \in Tasks(SameLines)
  BY DEF RegionIInv
<1>5. CASE chains = << >>
  <2>1. Into(<< >>)
    BY <1>1, <1>2, <1>5 DEF OrNothing
  <2>2. QED
    BY <2>1, NothingLies, IntoStep
<1>6. CASE chains # << >>
  <2>1. Into(Anchors(Last(chains)))
    BY <1>1, <1>2, <1>6 DEF OrNothing
  <2>2. chains \in Seq(Seq(InRegion))
    BY <1>3 DEF AreChains
  <2>3. PICK s : s = Last(chains) /\ s = chains[Len(chains)] /\ Len(chains) \in 1..Len(chains)
    BY <1>6, <2>2, LastIs
  <2>4. s # << >> /\ Climbs(s, InRegion, 0, 0, row, Height) /\ row <= Width
    BY <1>3, <2>3 DEF AreChains
  <2>5. Width \in Nat /\ Height \in Nat /\ Height <= Height
    <3>1. Width \in Nat /\ Height \in Nat
      BY <1>4, RegionSize
    <3>2. QED
      BY <3>1
  <2>6. InRegion \in SUBSET (Nat \X Nat)
    BY DEF InRegion
  <2>7. Climbs(s, InRegion, 0, 0, Width, Height)
    BY <2>4, <2>5, <2>6, Higher
  <2>8. Lie(Anchors(s), SameLines, region.a0, region.b0, region.a1, region.b1)
    BY <1>4, <2>4, <2>7, AnchorsLie
  <2>9. QED
    BY <2>1, <2>3, <2>8, IntoStep
<1>7. QED
  BY <1>5, <1>6

-----------------------------------------------------------------------------
(* The whole alignment.                                                     *)

LinesIInv ==
    /\ left \in Seq(Nat) /\ right \in Seq(Nat)
    /\ trimmed = [prefix |-> trimmed.prefix, suffix |-> trimmed.suffix]
    /\ trimmed.prefix \in Nat /\ trimmed.suffix \in Nat
    /\ trimmed.prefix + trimmed.suffix <= Len(left)
    /\ trimmed.prefix + trimmed.suffix <= Len(right)
    /\ \A i \in 0..(trimmed.prefix - 1) : L(i) = R(i)
    /\ \A i \in 0..(trimmed.suffix - 1) :
          L((Len(left) - trimmed.suffix) + i) = R((Len(right) - trimmed.suffix) + i)
    /\ Rising(a, Len(left) - (trimmed.prefix + trimmed.suffix))
    /\ Rising(b, Len(right) - (trimmed.prefix + trimmed.suffix))

LEMMA LinesAreTyped == ASSUME LinesIInv PROVE LinesTyped
BY DEF LinesIInv, LinesTyped, Rising

LEMMA LinesKept == ASSUME LinesIInv, UNCHANGED <<input, lines>> PROVE LinesIInv'
<1>1. left' = left /\ right' = right /\ trimmed' = trimmed /\ a' = a /\ b' = b
  BY DEF input, lines
<1>2. QED
  BY <1>1 DEF LinesIInv, L, R

LEMMA WaitOne ==
    ASSUME NEW E, NEW t \in Tasks(E), NEW p, NEW q, NEW u, NEW v,
           p <= t.a0, t.a1 <= u, q <= t.b0, t.b1 <= v
    PROVE  Wait(<<t>>, E, p, q, u, v)
<1>1. <<t>> \in Seq(Tasks(E)) /\ Len(<<t>>) = 1 /\ <<t>>[1] = t
  OBVIOUS
<1>2. \A i \in 1..1 : i = 1
  OBVIOUS
<1>3. \A i, j \in 1..1 : ~(i < j)
  OBVIOUS
<1>4. QED
  BY <1>1, <1>2, <1>3 DEF Wait

\* What both sides start and end with is trimmed, and the rest is one region.
LEMMA ScriptStep ==
    ASSUME left \in Seq(Nat), right \in Seq(Nat), out = << >>, Script
    PROVE  LinesIInv' /\ AlignIInv'
<1>1. PICK M \in Nat, N \in Nat : M = Len(left) /\ N = Len(right)
  BY LenProperties
<1>2. PICK s \in Nat : s = Lesser(Len(left), Len(right)) /\ s <= M /\ s <= N
  BY <1>1 DEF Lesser
<1> DEFINE P == {k \in 0..s : \A i \in 0..(k - 1) : L(i) = R(i)}
           e == Max(P)
           Q == {k \in 0..(s - e) : \A i \in 0..(k - 1) : L(Len(left) - 1 - i) = R(Len(right) - 1 - i)}
           f == Max(Q)
           n == Len(left) - e - f
           m == Len(right) - e - f
           A == {i \in 0..(n - 1) : L(e + i) \in {R(e + j) : j \in 0..(m - 1)}}
           B == {i \in 0..(m - 1) : R(e + i) \in {L(e + j) : j \in 0..(n - 1)}}
<1>3. /\ trimmed' = [prefix |-> e, suffix |-> f]
      /\ a' = InOrder(n, A) /\ b' = InOrder(m, B)
      /\ stack' = IF a' = << >> \/ b' = << >> THEN << >>
                  ELSE <<[a0 |-> 0, a1 |-> Len(a'), b0 |-> 0, b1 |-> Len(b'), match |-> FALSE]>>
      /\ pc' = "align" /\ out' = out /\ left' = left /\ right' = right
  BY <1>2 DEF Script, Common, Kept, input
<1>4. e \in 0..s /\ \A i \in 0..(e - 1) : L(i) = R(i)
  <2>1. P \in SUBSET (0..s) /\ 0 \in P
    OBVIOUS
  <2>2. Max(P) \in P
    <3> HIDE DEF P
    <3>1. QED
      BY <2>1, MaxOf
  <2>3. QED
    BY <2>2
<1>5. PICK g \in Nat : g = e /\ g <= s
  <2> HIDE DEF e
  <2>1. s \in Nat /\ e \in 0..s
    BY <1>4
  <2>2. QED
    BY ONLY <2>1
<1>6. f \in 0..(s - e) /\ \A i \in 0..(f - 1) : L(Len(left) - 1 - i) = R(Len(right) - 1 - i)
  <2>1. s - e \in Nat
    <3> HIDE DEF e
    <3>1. QED
      BY <1>5
  <2>2. Q \in SUBSET (0..(s - e)) /\ 0 \in Q
    <3> HIDE DEF e
    <3>1. QED
      BY <2>1
  <2>3. Max(Q) \in Q
    <3> HIDE DEF Q
    <3>1. QED
      BY <2>1, <2>2, MaxOf
  <2>4. QED
    BY <2>3
<1> HIDE DEF P, e, Q, f
<1>7. PICK h \in Nat : h = f /\ g + h <= s
  BY <1>5, <1>6
<1>8. n \in Nat /\ m \in Nat /\ n = M - (g + h) /\ m = N - (g + h) /\ g + h <= M /\ g + h <= N
  BY <1>1, <1>2, <1>5, <1>7
<1> HIDE DEF n, m
<1>9. Rising(a', n) /\ Rising(b', m)
  <2>1. Lists(InOrder(n, A), n, A) /\ Lists(InOrder(m, B), m, B)
    BY <1>8, InOrderLists
  <2>2. QED
    BY <1>3, <2>1 DEF Lists
<1>10. /\ trimmed' = [prefix |-> g, suffix |-> h] /\ trimmed'.prefix = g /\ trimmed'.suffix = h
  BY <1>3, <1>5, <1>7
<1>11. \A i \in 0..(h - 1) : L((M - h) + i) = R((N - h) + i)
  <2> SUFFICES ASSUME NEW i \in 0..(h - 1) PROVE L((M - h) + i) = R((N - h) + i)
    OBVIOUS
  <2>1. PICK j \in 0..(h - 1) : j = (h - 1) - i
    OBVIOUS
  <2>2. L(M - 1 - j) = R(N - 1 - j)
    BY <1>1, <1>6, <1>7
  <2>3. M - 1 - j = (M - h) + i /\ N - 1 - j = (N - h) + i
    BY <2>1
  <2>4. QED
    BY <2>2, <2>3
<1>12. \A i \in 0..(g - 1) : L(i) = R(i)
  BY <1>4, <1>5
<1>13. LinesIInv'
  <2>1. (\A i : L(i)' = L(i)) /\ (\A i : R(i)' = R(i))
    BY <1>3 DEF L, R
  <2>2. (\A i \in 0..(g - 1) : L(i)' = R(i)') /\ (\A i \in 0..(h - 1) : L((M - h) + i)' = R((N - h) + i)')
    BY <1>3, <1>11, <1>12 DEF L, R
  <2>3. QED
    BY <1>1, <1>3, <1>8, <1>9, <1>10, <1>11, <1>12 DEF LinesIInv, L, R
<1>14. PICK u \in Nat, v \in Nat : u = Len(a') /\ v = Len(b')
  <2>1. a' \in Seq(Nat) /\ b' \in Seq(Nat)
    BY <1>9 DEF Rising
  <2>2. QED
    BY <2>1, LenProperties
<1>15. PICK E : E = SameLines'
  OBVIOUS
<1>16. Climbs(out', E, 0, 0, 0, 0)
  BY <1>3, NothingClimbs
<1>17. Wait(stack', E, 0, 0, u, v)
  <2>1. Wait(<< >>, E, 0, 0, u, v)
    BY EmptySeq DEF Wait
  <2> DEFINE t == Task(0, u, 0, v)
  <2>2. t \in Tasks(E) /\ t.a0 = 0 /\ t.a1 = u /\ t.b0 = 0 /\ t.b1 = v
    <3>1. 0 \in Nat /\ 0 <= u /\ 0 <= v
      OBVIOUS
    <3>2. t \in Tasks(E)
      BY <3>1, TaskIs
    <3>3. QED
      BY <3>2 DEF Task
  <2>3. stack' \in {<< >>, <<t>>}
    BY <1>3, <1>14 DEF Task
  <2> HIDE DEF t
  <2>4. 0 <= t.a0 /\ t.a1 <= u /\ 0 <= t.b0 /\ t.b1 <= v
    BY <2>2
  <2>5. Wait(<<t>>, E, 0, 0, u, v)
    BY <2>2, <2>4, WaitOne
  <2>6. QED
    BY <2>1, <2>3, <2>5
<1>18. QueueIInv'
  <2>1. 0 \in 0..u /\ 0 \in 0..v
    OBVIOUS
  <2>2. QED
    BY <1>14, <1>15, <1>16, <1>17, <2>1 DEF QueueIInv
<1>19. QED
  BY <1>3, <1>13, <1>18 DEF AlignIInv, Splits

LEMMA AlignNext ==
    ASSUME LinesIInv, AlignIInv, [Next]_vars
    PROVE  LinesIInv' /\ AlignIInv'
<1>0. LinesTyped
  BY LinesAreTyped
<1>1. CASE Script
  <2>1. out = << >> /\ left \in Seq(Nat) /\ right \in Seq(Nat)
    BY <1>1 DEF Script, AlignIInv, LinesIInv
  <2>2. QED
    BY <1>1, <2>1, ScriptStep
<1>2. CASE EmitMatch
  <2>1. pc = "align" /\ pc' = "align" /\ UNCHANGED <<input, lines>>
    BY <1>2 DEF EmitMatch, Aligning
  <2>2. QueueIInv'
    BY <1>0, <1>2, <2>1, EmitStep DEF AlignIInv
  <2>3. QED
    BY <2>1, <2>2, LinesKept DEF AlignIInv, Splits
<1>3. CASE Trim
  <2>1. pc = "align" /\ pc' = "split" /\ UNCHANGED <<input, lines>>
    BY <1>3 DEF Trim, Aligning
  <2>2. RegionIInv'
    BY <1>0, <1>3, <2>1, TrimStep DEF AlignIInv
  <2>3. QED
    BY <2>1, <2>2, LinesKept DEF AlignIInv, Splits
<1>4. CASE SplitLine
  <2>1. pc = "split" /\ UNCHANGED <<input, lines>>
    BY <1>4 DEF SplitLine, Splitting, Into
  <2>2. RegionIInv
    BY <2>1 DEF AlignIInv, Splits
  <2>3. QED
    BY <1>0, <1>4, <2>1, <2>2, SplitLineStep, LinesKept
<1>5. CASE BeginBisect \/ OutOfEffort \/ Round \/ Turn \/ RoundEnds
  <2>1. pc \in Splits /\ pc' \in Splits /\ UNCHANGED <<input, lines, alignment>>
    BY <1>5 DEF BeginBisect, OutOfEffort, Round, Turn, RoundEnds, Search, Wide, Splitting, Bisecting, Splits
  <2>2. RegionIInv
    BY <2>1 DEF AlignIInv
  <2>3. QED
    BY <2>1, <2>2, SearchStep, LinesKept
<1>6. CASE NoCommonLine \/ Plain
  <2>1. pc \in Splits /\ Into(<< >>)
    BY <1>6 DEF NoCommonLine, Plain, Unsearched, Wide, Splitting, Bisecting, Splits
  <2>2. UNCHANGED <<input, lines>>
    BY <2>1 DEF Into
  <2>3. RegionIInv
    BY <2>1 DEF AlignIInv
  <2>4. QED
    BY <1>0, <2>1, <2>2, <2>3, NothingLies, IntoStep, LinesKept
<1>7. CASE Forward
  <2>1. pc \in Splits
    BY <1>7 DEF Forward, Bisecting, Splits
  <2>2. RegionIInv
    BY <2>1 DEF AlignIInv
  <2>3. (\E m : Search(m)) \/ (\E px, py : SplitAt(px, py))
    BY <1>7 DEF Forward
  <2>4. CASE \E m : Search(m)
    <3>1. UNCHANGED <<input, lines, alignment>> /\ pc' = pc
      BY <2>4 DEF Search
    <3>2. QED
      BY <2>1, <2>2, <3>1, SearchStep, LinesKept
  <2>5. CASE \E px, py : SplitAt(px, py)
    <3>1. PICK px, py : SplitAt(px, py)
      BY <2>5
    <3>2. UNCHANGED <<input, lines>>
      BY <3>1 DEF SplitAt, Into
    <3>3. QED
      BY <1>0, <2>2, <3>1, <3>2, SplitAtStep, LinesKept
  <2>6. QED
    BY <2>3, <2>4, <2>5
<1>8. CASE Backward
  <2>1. pc \in Splits
    BY <1>8 DEF Backward, Bisecting, Splits
  <2>2. RegionIInv
    BY <2>1 DEF AlignIInv
  <2>3. (\E m : Search(m)) \/ (\E px, py : SplitAt(px, py))
    BY <1>8 DEF Backward
  <2>4. CASE \E m : Search(m)
    <3>1. UNCHANGED <<input, lines, alignment>> /\ pc' = pc
      BY <2>4 DEF Search
    <3>2. QED
      BY <2>1, <2>2, <3>1, SearchStep, LinesKept
  <2>5. CASE \E px, py : SplitAt(px, py)
    <3>1. PICK px, py : SplitAt(px, py)
      BY <2>5
    <3>2. UNCHANGED <<input, lines>>
      BY <3>1 DEF SplitAt, Into
    <3>3. QED
      BY <1>0, <2>2, <3>1, <3>2, SplitAtStep, LinesKept
  <2>6. QED
    BY <2>3, <2>4, <2>5
<1>9. CASE BeginAnchor
  <2>1. pc \in Splits /\ UNCHANGED <<input, lines>>
    BY <1>9 DEF BeginAnchor, Unsearched, Wide, Splitting, Splits
  <2>2. RegionIInv
    BY <2>1 DEF AlignIInv
  <2>3. QED
    BY <1>0, <1>9, <2>1, <2>2, BeginAnchorStep, LinesKept
<1>10. CASE AnchorPair
  <2>1. pc = "anchor" /\ UNCHANGED <<input, lines>>
    BY <1>10 DEF AnchorPair
  <2>2. RegionIInv /\ ChainsIInv
    BY <2>1 DEF AlignIInv
  <2>3. QED
    BY <1>0, <1>10, <2>1, <2>2, AnchorPairStep, LinesKept
<1>11. CASE AnchorSplit
  <2>1. pc = "anchor" /\ UNCHANGED <<input, lines>>
    BY <1>11 DEF AnchorSplit, Into
  <2>2. RegionIInv /\ ChainsIInv
    BY <2>1 DEF AlignIInv
  <2>3. QED
    BY <1>0, <1>11, <2>1, <2>2, AnchorSplitStep, LinesKept
<1>12. CASE Aligned
  <2>1. /\ pc = "align" /\ stack = << >> /\ pc' = "build" /\ UNCHANGED <<input, lines, alignment>>
    BY <1>12 DEF Aligned
  <2>2. PICK p \in 0..Len(a), q \in 0..Len(b) : Climbs(out, SameLines, 0, 0, p, q)
    BY <2>1 DEF AlignIInv, QueueIInv
  <2>3. PICK m \in Nat, n \in Nat : m = Len(a) /\ n = Len(b)
    BY <1>0, Lengths
  <2>4. p \in Nat /\ q \in Nat /\ p <= m /\ q <= n
    BY <2>3
  <2>5. Climbs(out, SameLines, 0, 0, m, n)
    BY <2>2, <2>4, SamePairs, Higher
  <2>6. out' = out /\ SameLines' = SameLines /\ a' = a /\ b' = b
    BY <2>1, StillSame DEF alignment
  <2>7. Climbs(out, SameLines, 0, 0, Len(a), Len(b))'
    BY <2>3, <2>5, <2>6
  <2>8. QED
    BY <2>1, <2>7, LinesKept DEF AlignIInv, Splits
<1>13. CASE AddMatch \/ AddRest \/ GroupRun \/ GroupRest
  <2>1. /\ pc \in {"build", "group", "done"} /\ pc' \in {"build", "group", "done"}
        /\ UNCHANGED <<input, lines, alignment>>
    BY <1>13 DEF AddMatch, AddRest, GroupRun, GroupRest
  <2>2. out' = out /\ SameLines' = SameLines /\ a' = a /\ b' = b
    BY <2>1, StillSame DEF alignment
  <2>3. Climbs(out, SameLines, 0, 0, Len(a), Len(b))
    BY <2>1 DEF AlignIInv
  <2>4. Climbs(out, SameLines, 0, 0, Len(a), Len(b))'
    BY <2>2, <2>3
  <2>5. QED
    BY <2>1, <2>4, LinesKept DEF AlignIInv, Splits
<1>14. CASE UNCHANGED vars
  <2>1. UNCHANGED <<input, lines, alignment, pc, anchor>>
    BY <1>14 DEF vars
  <2>2. SameLines' = SameLines /\ a' = a /\ b' = b
    BY <2>1, StillSame
  <2>3. stack' = stack /\ out' = out /\ region' = region /\ anchor' = anchor /\ pc' = pc
    BY <2>1 DEF alignment
  <2>4. InRegion' = InRegion /\ Width' = Width /\ Height' = Height
    BY <2>1, <2>3 DEF InRegion, Width, Height, x, y, X, Y, L, R, input, lines
  <2>5. (QueueIInv => QueueIInv') /\ (RegionIInv => RegionIInv')
    BY <2>2, <2>3 DEF QueueIInv, RegionIInv
  <2>6. ChainsIInv => ChainsIInv'
    BY <2>3, <2>4 DEF ChainsIInv, PairsIInv
  <2>7. QED
    BY <2>1, <2>2, <2>3, <2>5, <2>6, LinesKept DEF AlignIInv
<1>15. QED
  BY <1>1, <1>2, <1>3, <1>4, <1>5, <1>6, <1>7, <1>8, <1>9, <1>10, <1>11, <1>12, <1>13, <1>14 DEF Next

-----------------------------------------------------------------------------
(* Every matched pair of lines.                                             *)

\* Pairs of lines of the two states that are the same.
SameText == {d \in Nat \X Nat : L(d[1]) = R(d[2])}
Far == <<Len(left), Len(right)>>

LEMMA TextPairs == SameText \in SUBSET (Nat \X Nat)
BY DEF SameText

LEMMA RisesTo ==
    ASSUME NEW n \in Nat, NEW s, Rising(s, n), NEW i \in Nat, i < Len(s)
    PROVE  s[i + 1] \in Nat /\ s[i + 1] < n /\ \A j \in Nat : j < i => s[j + 1] < s[i + 1]
<1>1. s \in Seq(Nat) /\ Len(s) \in Nat
  BY LenProperties DEF Rising
<1>2. i + 1 \in 1..Len(s)
  BY <1>1
<1>3. s[i + 1] \in Nat /\ s[i + 1] < n
  BY <1>1, <1>2, ElementOfSeq DEF Rising
<1>4. ASSUME NEW j \in Nat, j < i PROVE s[j + 1] < s[i + 1]
  <2>1. j + 1 \in 1..Len(s) /\ j + 1 < i + 1
    BY <1>1, <1>4
  <2>2. QED
    BY <1>2, <2>1 DEF Rising
<1>5. QED
  BY <1>3, <1>4

LEMMA MiddleClimbs ==
    ASSUME LinesIInv, Climbs(out, SameLines, 0, 0, Len(a), Len(b)),
           NEW p \in Nat, p = trimmed.prefix, NEW M \in Nat, NEW N \in Nat,
           Rising(a, M - p), Rising(b, N - p), p <= M, p <= N
    PROVE  Climbs([i \in DOMAIN out |-> <<p + a[out[i][1] + 1], p + b[out[i][2] + 1]>>], SameText, p, p, M, N)
<1>1. out \in Seq(SameLines)
  BY DEF Climbs
<1>2. PICK n \in Nat : n = Len(out) /\ DOMAIN out = 1..n
  BY <1>1, LenProperties
<1>3. M - p \in Nat /\ N - p \in Nat /\ p + (M - p) = M /\ p + (N - p) = N
  OBVIOUS
<1> DEFINE f == [i \in 1..n |-> <<p + a[out[i][1] + 1], p + b[out[i][2] + 1]>>]
<1>4. ASSUME NEW i \in 1..n
      PROVE  /\ out[i][1] \in Nat /\ out[i][2] \in Nat /\ out[i][1] < Len(a) /\ out[i][2] < Len(b)
             /\ X(out[i][1]) = Y(out[i][2])
  <2>1. out[i] \in SameLines
    BY <1>1, <1>2, ElementOfSeq
  <2>2. out[i][1] < Len(a) /\ out[i][2] < Len(b)
    BY <1>2 DEF Climbs
  <2>3. QED
    BY <2>1, <2>2 DEF SameLines
<1>5. ASSUME NEW i \in 1..n
      PROVE  \E c \in Nat, d \in Nat :
                /\ f[i] = <<c, d>> /\ f[i] \in SameText
                /\ p <= c /\ c < M /\ p <= d /\ d < N
  <2>1. PICK k \in Nat, l \in Nat : k = out[i][1] /\ l = out[i][2]
    BY <1>4
  <2>2. k < Len(a) /\ l < Len(b) /\ X(k) = Y(l)
    BY <1>4, <2>1
  <2>3. a[k + 1] \in Nat /\ a[k + 1] < M - p /\ b[l + 1] \in Nat /\ b[l + 1] < N - p
    BY <1>3, <2>2, RisesTo
  <2>4. PICK c \in Nat, d \in Nat : /\ c = p + a[k + 1] /\ d = p + b[l + 1]
                                   /\ p <= c /\ c < M /\ p <= d /\ d < N
    <3>1. PICK g \in Nat, h \in Nat : g = a[k + 1] /\ h = b[l + 1] /\ g < M - p /\ h < N - p
      BY <2>3
    <3>2. p \in Nat /\ M \in Nat /\ N \in Nat /\ g \in Nat /\ h \in Nat
      OBVIOUS
    <3>3. p + g \in Nat /\ p + h \in Nat /\ p <= p + g /\ p + g < M /\ p <= p + h /\ p + h < N
      BY ONLY <3>1, <3>2
    <3>4. QED
      BY <3>1, <3>3
  <2>5. p <= c /\ c < M /\ p <= d /\ d < N
    BY <2>4
  <2>6. f[i] = <<c, d>>
    BY <2>1, <2>4
  <2>7. L(c) = R(d)
    BY <2>2, <2>4 DEF X, Y
  <2>8. <<c, d>> \in SameText
    BY <2>7 DEF SameText
  <2>9. QED
    BY <2>5, <2>6, <2>8
<1>6. ASSUME NEW i \in 1..n, NEW j \in 1..n, i < j
      PROVE  f[i][1] < f[j][1] /\ f[i][2] < f[j][2]
  <2>1. PICK k \in Nat, l \in Nat, g \in Nat, h \in Nat :
          k = out[i][1] /\ l = out[i][2] /\ g = out[j][1] /\ h = out[j][2]
    BY <1>4
  <2>2. k < Len(a) /\ l < Len(b) /\ g < Len(a) /\ h < Len(b)
    BY <1>4, <2>1
  <2>3. k < g /\ l < h
    BY <1>2, <1>6, <2>1 DEF Climbs
  <2>4. PICK c \in Nat, d \in Nat, u \in Nat, v \in Nat :
          c = a[k + 1] /\ d = b[l + 1] /\ u = a[g + 1] /\ v = b[h + 1]
    BY <1>3, <2>2, RisesTo
  <2>5. c < u /\ d < v
    BY <1>3, <2>2, <2>3, <2>4, RisesTo
  <2>6. f[i] = <<p + c, p + d>> /\ f[j] = <<p + u, p + v>>
    BY <2>1, <2>4
  <2>7. p + c < p + u /\ p + d < p + v
    BY <2>5
  <2>8. QED
    BY <2>6, <2>7
<1>7. f = [i \in DOMAIN out |-> <<p + a[out[i][1] + 1], p + b[out[i][2] + 1]>>]
  BY <1>2
<1> HIDE DEF f
<1>8. f \in Seq(SameText) /\ Len(f) = n
  <2>1. f \in [1..n -> SameText]
    <3>1. f = [i \in 1..n |-> f[i]]
      BY DEF f
    <3>2. QED
      BY <1>5, <3>1
  <2>2. QED
    BY <2>1
<1>9. \A i \in 1..n : p <= f[i][1] /\ f[i][1] < M /\ p <= f[i][2] /\ f[i][2] < N
  <2> SUFFICES ASSUME NEW i \in 1..n PROVE p <= f[i][1] /\ f[i][1] < M /\ p <= f[i][2] /\ f[i][2] < N
    OBVIOUS
  <2>1. PICK c \in Nat, d \in Nat : f[i] = <<c, d>> /\ p <= c /\ c < M /\ p <= d /\ d < N
    BY <1>5
  <2>2. f[i][1] = c /\ f[i][2] = d
    BY <2>1
  <2>3. QED
    BY <2>1, <2>2
<1>10. Climbs(f, SameText, p, p, M, N)
  BY <1>6, <1>8, <1>9 DEF Climbs
<1>11. QED
  BY <1>7, <1>10

LEMMA MatchesClimb ==
    ASSUME LinesIInv, Climbs(out, SameLines, 0, 0, Len(a), Len(b))
    PROVE  Climbs(Matches, SameText, 0, 0, Len(left), Len(right))
<1>1. PICK M \in Nat, N \in Nat : M = Len(left) /\ N = Len(right)
  BY LenProperties DEF LinesIInv
<1>2. PICK p \in Nat, s \in Nat : /\ p = trimmed.prefix /\ s = trimmed.suffix
                                 /\ p + s <= M /\ p + s <= N
  BY <1>1 DEF LinesIInv
<1>3. /\ M - s \in Nat /\ N - s \in Nat /\ p <= M - s /\ p <= N - s
      /\ (M - s) - p = M - (p + s) /\ (N - s) - p = N - (p + s)
      /\ (M - s) + s = M /\ (N - s) + s = N /\ M - s <= M /\ N - s <= N
      /\ 0 <= p /\ 0 \in Nat /\ 0 <= M - s /\ 0 <= N - s
  <2>1. p \in Nat /\ s \in Nat /\ M \in Nat /\ N \in Nat /\ p + s <= M /\ p + s <= N
    BY <1>2
  <2>2. QED
    BY ONLY <2>1
<1> DEFINE f == [i \in 1..p |-> <<i - 1, i - 1>>]
           g == [i \in DOMAIN out |-> <<p + a[out[i][1] + 1], p + b[out[i][2] + 1]>>]
           h == [i \in 1..s |-> <<M - s + i - 1, N - s + i - 1>>]
<1>4. Matches = (f \o g) \o h
  BY <1>1, <1>2 DEF Matches
<1>5. Climbs(f, SameText, 0, 0, p, p)
  <2>1. Alike(SameText, 0, 0, p)
    <3>1. ASSUME NEW k \in 0..p-1 PROVE <<0 + k, 0 + k>> \in SameText
      <4>1. L(k) = R(k) /\ k \in Nat /\ 0 + k = k
        BY <1>2 DEF LinesIInv
      <4>2. QED
        BY <4>1 DEF SameText
    <3>2. QED
      BY <3>1 DEF Alike
  <2>2. Climbs([i \in 1..p |-> <<0 + i - 1, 0 + i - 1>>], SameText, 0, 0, 0 + p, 0 + p)
    BY <2>1, TextPairs, MatchClimbs
  <2>3. [i \in 1..p |-> <<0 + i - 1, 0 + i - 1>>] = f /\ 0 + p = p
    OBVIOUS
  <2>4. QED
    BY <2>2, <2>3
<1>6. Climbs(g, SameText, p, p, M - s, N - s)
  <2>1. Rising(a, (M - s) - p) /\ Rising(b, (N - s) - p)
    BY <1>1, <1>2, <1>3 DEF LinesIInv
  <2>2. QED
    BY <1>2, <1>3, <2>1, MiddleClimbs
<1>7. Climbs(h, SameText, M - s, N - s, M, N)
  <2>1. PICK u \in Nat, v \in Nat : u = M - s /\ v = N - s
    BY <1>3
  <2>2. Alike(SameText, u, v, s)
    <3>1. ASSUME NEW k \in 0..s-1 PROVE <<u + k, v + k>> \in SameText
      <4>1. L(u + k) = R(v + k)
        BY <1>1, <1>2, <2>1 DEF LinesIInv
      <4>2. u + k \in Nat /\ v + k \in Nat
        OBVIOUS
      <4>3. QED
        BY <4>1, <4>2 DEF SameText
    <3>2. QED
      BY <3>1 DEF Alike
  <2>3. Climbs([i \in 1..s |-> <<u + i - 1, v + i - 1>>], SameText, u, v, u + s, v + s)
    BY <2>2, TextPairs, MatchClimbs
  <2>4. [i \in 1..s |-> <<u + i - 1, v + i - 1>>] = h /\ u + s = M /\ v + s = N
    BY <1>3, <2>1
  <2>5. QED
    BY <2>1, <2>3, <2>4
<1> HIDE DEF f, g, h
<1>8. Climbs(f \o g, SameText, 0, 0, M - s, N - s)
  <2>1. Joins(f, g, SameText, 0, 0, p, p, M - s, N - s)
    BY <1>5, <1>6 DEF Joins
  <2>2. QED
    BY <1>3, <2>1, TextPairs, ClimbOn
<1>9. Climbs((f \o g) \o h, SameText, 0, 0, M, N)
  <2>1. Joins(f \o g, h, SameText, 0, 0, M - s, N - s, M, N)
    BY <1>7, <1>8 DEF Joins
  <2>2. QED
    BY <1>3, <2>1, TextPairs, ClimbOn
<1>10. QED
  BY <1>1, <1>4, <1>9

-----------------------------------------------------------------------------
(* The edit script: runs that lead from one corner to another.              *)

Begins(run) == <<run.left, run.right>>
Finishes(run) == <<run.left + (IF run.op # "insert" THEN run.count ELSE 0),
                   run.right + (IF run.op # "delete" THEN run.count ELSE 0)>>

\* Runs of the two states: lines that stay are the same in both, and a change
\* changes something.
GoodRuns ==
    {run \in RunType :
        /\ Finishes(run)[1] <= Len(left) /\ Finishes(run)[2] <= Len(right)
        /\ run.op = "equal" => Alike(SameText, run.left, run.right, run.count)
        /\ run.op # "equal" => run.count > 0}

Leads(G, runs, s, e) ==
    /\ runs \in Seq(G)
    /\ runs = << >> => s = e
    /\ runs # << >> => Begins(runs[1]) = s /\ Finishes(runs[Len(runs)]) = e
    /\ \A i \in 1..Len(runs)-1 : Finishes(runs[i]) = Begins(runs[i+1])

\* A run of lines that stay is not followed by another one.
Apart(runs) == \A i \in 1..Len(runs)-1 : runs[i].op # "equal" \/ runs[i+1].op # "equal"
Built(G, runs, s, e) == Leads(G, runs, s, e) /\ Apart(runs)

LEMMA RunIs ==
    ASSUME NEW run \in RunType
    PROVE  /\ run.left \in Nat /\ run.right \in Nat /\ run.count \in Nat
           /\ run.op \in {"equal", "delete", "insert"}
           /\ Finishes(run)[1] \in Nat /\ Finishes(run)[2] \in Nat
           /\ Finishes(run) = <<Finishes(run)[1], Finishes(run)[2]>>
           /\ run = Run(run.op, run.left, run.right, run.count)
           /\ run.op = "equal" => Finishes(run) = <<run.left + run.count, run.right + run.count>>
           /\ run.op = "delete" => Finishes(run) = <<run.left + run.count, run.right>>
           /\ run.op = "insert" => Finishes(run) = <<run.left, run.right + run.count>>
<1>1. PICK op \in {"equal", "delete", "insert"}, l \in Nat, r \in Nat, n \in Nat :
        run = [op |-> op, left |-> l, right |-> r, count |-> n]
  BY DEF RunType
<1>2. run.op = op /\ run.left = l /\ run.right = r /\ run.count = n
  BY <1>1
<1>3. /\ Finishes(run) = <<l + (IF op # "insert" THEN n ELSE 0), r + (IF op # "delete" THEN n ELSE 0)>>
      /\ run = Run(op, l, r, n)
  BY <1>1, <1>2 DEF Finishes, Run
<1>4. l + 0 = l /\ r + 0 = r /\ l + n \in Nat /\ r + n \in Nat
  OBVIOUS
<1>5. /\ op = "equal" => Finishes(run) = <<l + n, r + n>>
      /\ op = "delete" => Finishes(run) = <<l + n, r>>
      /\ op = "insert" => Finishes(run) = <<l, r + n>>
  BY <1>3, <1>4
<1>6. PICK c \in Nat, d \in Nat : Finishes(run) = <<c, d>>
  BY <1>4, <1>5
<1>7. QED
  BY <1>2, <1>3, <1>5, <1>6

LEMMA GoodIsRun == ASSUME NEW run \in GoodRuns PROVE run \in RunType
BY DEF GoodRuns

LEMMA LeadsOn ==
    ASSUME NEW G, NEW runs, NEW s, NEW u, Leads(G, runs, s, u), NEW run \in G, Begins(run) = u
    PROVE  Leads(G, Append(runs, run), s, Finishes(run))
<1>1. runs \in Seq(G)
  BY DEF Leads
<1>2. PICK n \in Nat : n = Len(runs) /\ (n = 0 <=> runs = << >>)
  BY <1>1, EmptySeq, LenProperties
<1>3. PICK t \in Seq(G) : /\ t = Append(runs, run) /\ t # << >> /\ Len(t) = n + 1 /\ t[n+1] = run
                                /\ \A i \in 1..n : t[i] = runs[i]
  <2>1. /\ Append(runs, run) \in Seq(G) /\ Append(runs, run) # << >>
        /\ Len(Append(runs, run)) = Len(runs) + 1
        /\ Append(runs, run)[Len(runs)+1] = run
        /\ \A i \in 1..Len(runs) : Append(runs, run)[i] = runs[i]
    BY <1>1, AppendProperties
  <2>2. QED
    BY <1>2, <2>1
<1>4. /\ n = 0 => s = u
      /\ n # 0 => Begins(runs[1]) = s /\ Finishes(runs[n]) = u
      /\ \A i \in 1..n-1 : Finishes(runs[i]) = Begins(runs[i+1])
  BY <1>2 DEF Leads
<1>5. Begins(t[1]) = s
  <2>1. CASE n = 0
    <3>1. t[1] = run
      BY <1>3, <2>1
    <3>2. QED
      BY <1>4, <2>1, <3>1
  <2>2. CASE n # 0
    <3>1. 1 \in 1..n
      BY <2>2
    <3>2. QED
      BY <1>3, <1>4, <2>2, <3>1
  <2>3. QED
    BY <2>1, <2>2
<1>6. ASSUME NEW i \in 1..(n+1)-1 PROVE Finishes(t[i]) = Begins(t[i+1])
  <2>0. i \in 1..n /\ (i = n \/ i \in 1..n-1)
    OBVIOUS
  <2>1. CASE i = n
    <3>1. t[i+1] = run /\ t[i] = runs[n] /\ n # 0
      BY <1>3, <2>0, <2>1
    <3>2. QED
      BY <1>4, <3>1
  <2>2. CASE i \in 1..n-1
    <3>1. i + 1 \in 1..n
      BY <2>2
    <3>2. t[i] = runs[i] /\ t[i+1] = runs[i+1]
      BY <1>3, <2>0, <3>1
    <3>3. QED
      BY <1>4, <2>2, <3>2
  <2>3. QED
    BY <2>0, <2>1, <2>2
<1>7. QED
  BY <1>3, <1>5, <1>6 DEF Leads

LEMMA ApartOn ==
    ASSUME NEW S, NEW runs \in Seq(S), Apart(runs), NEW run \in S,
           runs = << >> \/ runs[Len(runs)].op # "equal" \/ run.op # "equal"
    PROVE  Apart(Append(runs, run))
<1>2. PICK n \in Nat : n = Len(runs) /\ (n = 0 <=> runs = << >>)
  BY EmptySeq, LenProperties
<1>3. PICK t \in Seq(S) : /\ t = Append(runs, run) /\ Len(t) = n + 1 /\ t[n+1] = run
                         /\ \A i \in 1..n : t[i] = runs[i]
  <2>1. /\ Append(runs, run) \in Seq(S)
        /\ Len(Append(runs, run)) = Len(runs) + 1
        /\ Append(runs, run)[Len(runs)+1] = run
        /\ \A i \in 1..Len(runs) : Append(runs, run)[i] = runs[i]
    BY AppendProperties
  <2>2. QED
    BY <1>2, <2>1
<1>4. \A i \in 1..n-1 : runs[i].op # "equal" \/ runs[i+1].op # "equal"
  BY <1>2 DEF Apart
<1>5. n # 0 => runs[n].op # "equal" \/ run.op # "equal"
  BY <1>2
<1>6. ASSUME NEW i \in 1..(n+1)-1 PROVE t[i].op # "equal" \/ t[i+1].op # "equal"
  <2>0. i \in 1..n /\ (i = n \/ i \in 1..n-1)
    OBVIOUS
  <2>1. CASE i = n
    <3>1. t[i+1] = run /\ t[i] = runs[n] /\ n # 0
      BY <1>3, <2>0, <2>1
    <3>2. QED
      BY <1>5, <3>1
  <2>2. CASE i \in 1..n-1
    <3>1. i + 1 \in 1..n
      BY <2>2
    <3>2. t[i] = runs[i] /\ t[i+1] = runs[i+1]
      BY <1>3, <2>0, <3>1
    <3>3. QED
      BY <1>4, <2>2, <3>2
  <2>3. QED
    BY <2>0, <2>1, <2>2
<1>7. QED
  BY <1>3, <1>6 DEF Apart

\* A change, if there is one, goes behind the runs.
LEMMA AddChange ==
    ASSUME NEW runs, NEW s, NEW u, Built(GoodRuns, runs, s, u),
           NEW run \in RunType, run.op # "equal", Begins(run) = u,
           Finishes(run)[1] <= Len(left), Finishes(run)[2] <= Len(right)
    PROVE  Built(GoodRuns, runs \o NonEmpty(run), s, Finishes(run)) /\ NonEmpty(run) \in Seq(GoodRuns)
<1>1. runs \in Seq(GoodRuns)
  BY DEF Built, Leads
<1>2. CASE run.count = 0
  <2>1. NonEmpty(run) = << >> /\ runs \o << >> = runs
    BY <1>1, <1>2, ConcatEmptySeq DEF NonEmpty
  <2>2. Finishes(run) = u
    BY <1>2, RunIs DEF Begins, Finishes
  <2>3. QED
    BY <2>1, <2>2, EmptySeq
<1>3. CASE run.count # 0
  <2>1. run \in GoodRuns
    <3>1. run.count \in Nat
      BY RunIs
    <3>2. run.count > 0
      BY <1>3, <3>1
    <3>3. QED
      BY <3>2 DEF GoodRuns
  <2>2. NonEmpty(run) = <<run>> /\ runs \o <<run>> = Append(runs, run)
    BY <1>1, <1>3, <2>1, AppendIsConcat DEF NonEmpty
  <2>3. Leads(GoodRuns, Append(runs, run), s, Finishes(run))
    BY <2>1, LeadsOn DEF Built
  <2>4. Apart(Append(runs, run))
    BY <1>1, <2>1, ApartOn DEF Built
  <2>5. <<run>> \in Seq(GoodRuns)
    BY <2>1
  <2>6. QED
    BY <2>2, <2>3, <2>4, <2>5 DEF Built
<1>4. QED
  BY <1>2, <1>3

LEMMA RunOf ==
    ASSUME NEW op \in {"equal", "delete", "insert"}, NEW l \in Nat, NEW r \in Nat, NEW n \in Nat
    PROVE  /\ Run(op, l, r, n) \in RunType /\ Run(op, l, r, n).op = op
           /\ Run(op, l, r, n).left = l /\ Run(op, l, r, n).right = r /\ Run(op, l, r, n).count = n
           /\ Begins(Run(op, l, r, n)) = <<l, r>>
BY DEF Run, RunType, Begins

\* What is unmatched, up to a corner.
LEMMA AddGap ==
    ASSUME NEW runs, NEW s, NEW p \in Nat, NEW q \in Nat, NEW l \in Nat, NEW r \in Nat,
           Built(GoodRuns, runs, s, <<p, q>>), p <= l, q <= r,
           right \in Seq(Nat), l <= Len(left), r <= Len(right)
    PROVE  Built(GoodRuns, runs \o (NonEmpty(Run("delete", p, q, l - p)) \o NonEmpty(Run("insert", l, q, r - q))),
                 s, <<l, r>>)
<1>0. PICK m \in Nat, n \in Nat : m = l - p /\ n = r - q /\ p + m = l /\ q + n = r
  OBVIOUS
<1>1. PICK d \in RunType : /\ d = Run("delete", p, q, m) /\ d.op = "delete" /\ d.left = p /\ d.right = q
                          /\ d.count = m /\ Begins(d) = <<p, q>>
  <2>1. /\ Run("delete", p, q, m) \in RunType /\ Run("delete", p, q, m).op = "delete"
        /\ Run("delete", p, q, m).left = p /\ Run("delete", p, q, m).right = q
        /\ Run("delete", p, q, m).count = m /\ Begins(Run("delete", p, q, m)) = <<p, q>>
    BY DEF Run, RunType, Begins
  <2>2. QED
    BY <2>1
<1>2. PICK e \in RunType : /\ e = Run("insert", l, q, n) /\ e.op = "insert" /\ e.left = l /\ e.right = q
                          /\ e.count = n /\ Begins(e) = <<l, q>>
  <2>1. /\ Run("insert", l, q, n) \in RunType /\ Run("insert", l, q, n).op = "insert"
        /\ Run("insert", l, q, n).left = l /\ Run("insert", l, q, n).right = q
        /\ Run("insert", l, q, n).count = n /\ Begins(Run("insert", l, q, n)) = <<l, q>>
    BY DEF Run, RunType, Begins
  <2>2. QED
    BY <2>1
<1>3. Finishes(d) = <<l, q>> /\ Finishes(e) = <<l, r>>
  <2>1. Finishes(d) = <<d.left + d.count, d.right>>
    BY <1>1, RunIs
  <2>2. Finishes(e) = <<e.left, e.right + e.count>>
    BY <1>2, RunIs
  <2>3. QED
    BY <1>0, <1>1, <1>2, <2>1, <2>2
<1>4. q <= Len(right)
  <2>1. Len(right) >= r /\ r >= q
    OBVIOUS
  <2>2. PICK k \in Nat : k = Len(right)
    BY LenProperties
  <2>3. QED
    BY <2>1, <2>2
<1>5. Built(GoodRuns, runs \o NonEmpty(d), s, <<l, q>>) /\ NonEmpty(d) \in Seq(GoodRuns)
  <2>1. d.op # "equal" /\ Finishes(d)[1] <= Len(left) /\ Finishes(d)[2] <= Len(right)
    BY <1>1, <1>3, <1>4
  <2>2. QED
    BY <1>1, <1>3, <2>1, AddChange
<1>6. Built(GoodRuns, (runs \o NonEmpty(d)) \o NonEmpty(e), s, <<l, r>>) /\ NonEmpty(e) \in Seq(GoodRuns)
  <2>1. e.op # "equal" /\ Finishes(e)[1] <= Len(left) /\ Finishes(e)[2] <= Len(right)
    BY <1>2, <1>3
  <2>2. PICK t : t = runs \o NonEmpty(d)
    OBVIOUS
  <2>3. Built(GoodRuns, t, s, <<l, q>>)
    BY <1>5, <2>2
  <2>4. Built(GoodRuns, t \o NonEmpty(e), s, <<l, r>>) /\ NonEmpty(e) \in Seq(GoodRuns)
    BY <1>2, <1>3, <2>1, <2>3, AddChange
  <2>5. QED
    BY <2>2, <2>4
<1>7. (runs \o NonEmpty(d)) \o NonEmpty(e) = runs \o (NonEmpty(d) \o NonEmpty(e))
  <2>1. runs \in Seq(GoodRuns)
    BY DEF Built, Leads
  <2>2. PICK t \in Seq(GoodRuns), u \in Seq(GoodRuns) : t = NonEmpty(d) /\ u = NonEmpty(e)
    BY <1>5, <1>6
  <2>3. (runs \o t) \o u = runs \o (t \o u)
    <3>1. runs \in Seq(GoodRuns) /\ t \in Seq(GoodRuns) /\ u \in Seq(GoodRuns)
      BY <2>1
    <3>2. QED
      BY ONLY <3>1, ConcatAssociative
  <2>4. QED
    BY <2>2, <2>3
<1>8. QED
  BY <1>0, <1>1, <1>2, <1>6, <1>7

\* A match of one line, which goes on the run it follows.
WithOne(runs, l, r) ==
    LET n == Len(runs)
    IN IF n # 0 /\ runs[n].op = "equal" THEN [runs EXCEPT ![n].count = @ + 1]
       ELSE Append(runs, Run("equal", l, r, 1))

LEMMA AddEqual ==
    ASSUME NEW runs, NEW s, NEW l \in Nat, NEW r \in Nat, Built(GoodRuns, runs, s, <<l, r>>),
           <<l, r>> \in SameText, l + 1 <= Len(left), r + 1 <= Len(right)
    PROVE  Built(GoodRuns, WithOne(runs, l, r), s, <<l + 1, r + 1>>)
<1>1. runs \in Seq(GoodRuns)
  BY DEF Built, Leads
<1>2. PICK n \in Nat : n = Len(runs) /\ (n = 0 <=> runs = << >>)
  BY <1>1, EmptySeq, LenProperties
<1>3. CASE n # 0 /\ runs[n].op = "equal"
  <2>1. n \in 1..n
    BY <1>3
  <2>2. PICK e \in GoodRuns : e = runs[n] /\ e.op = "equal"
    BY <1>1, <1>2, <1>3, <2>1, ElementOfSeq
  <2>3. PICK i \in Nat, j \in Nat, c \in Nat :
          /\ i = e.left /\ j = e.right /\ c = e.count
          /\ e = Run("equal", i, j, c) /\ Finishes(e) = <<i + c, j + c>>
    <3>1. e \in RunType
      BY GoodIsRun
    <3>2. /\ e.left \in Nat /\ e.right \in Nat /\ e.count \in Nat
          /\ e = Run(e.op, e.left, e.right, e.count)
          /\ e.op = "equal" => Finishes(e) = <<e.left + e.count, e.right + e.count>>
      BY <3>1, RunIs
    <3>3. QED
      BY <2>2, <3>2
  <2>4. i + c = l /\ j + c = r
    <3>1. Finishes(e) = <<l, r>>
      BY <1>2, <1>3, <2>2 DEF Built, Leads
    <3>2. QED
      BY <2>3, <3>1
  <2>5. PICK f : f = [e EXCEPT !.count = @ + 1]
    OBVIOUS
  <2>6. f = Run("equal", i, j, c + 1)
    <3>1. e = [op |-> "equal", left |-> i, right |-> j, count |-> c]
      BY <2>3 DEF Run
    <3>2. [e EXCEPT !.count = @ + 1] = [op |-> "equal", left |-> i, right |-> j, count |-> c + 1]
      BY <3>1
    <3>3. QED
      BY <2>5, <3>2 DEF Run
  <2>7. /\ f \in RunType /\ f.op = "equal" /\ f.left = i /\ f.right = j /\ f.count = c + 1
        /\ Begins(f) = <<i, j>> /\ Finishes(f) = <<l + 1, r + 1>>
    <3>1. c + 1 \in Nat /\ i + (c + 1) = l + 1 /\ j + (c + 1) = r + 1
      BY <2>4
    <3>2. /\ f \in RunType /\ f.op = "equal" /\ f.left = i /\ f.right = j /\ f.count = c + 1
          /\ Begins(f) = <<i, j>>
      <4>1. PICK g \in Nat : g = c + 1
        BY <3>1
      <4>2. f = [op |-> "equal", left |-> i, right |-> j, count |-> g]
        BY <2>6, <4>1 DEF Run
      <4>3. QED
        BY <4>1, <4>2 DEF RunType, Begins
    <3>3. Finishes(f) = <<f.left + f.count, f.right + f.count>>
      BY <3>2, RunIs
    <3>4. QED
      BY <3>1, <3>2, <3>3
  <2>8. f \in GoodRuns
    <3>1. Alike(SameText, i, j, c)
      BY <2>2, <2>3 DEF GoodRuns
    <3>2. Alike(SameText, i, j, c + 1)
      <4>1. ASSUME NEW k \in 0..(c+1)-1 PROVE <<i + k, j + k>> \in SameText
        <5>1. k = c \/ k \in 0..c-1
          OBVIOUS
        <5>2. QED
          BY <2>4, <3>1, <5>1 DEF Alike
      <4>2. QED
        BY <4>1 DEF Alike
    <3>3. QED
      BY <2>7, <3>2 DEF GoodRuns
  <2>9. WithOne(runs, l, r) = [runs EXCEPT ![n] = f]
    <3>1. WithOne(runs, l, r) = [runs EXCEPT ![n].count = @ + 1]
      BY <1>2, <1>3 DEF WithOne
    <3>2. n \in DOMAIN runs
      BY <1>1, <1>2, <2>1, LenProperties
    <3>3. [runs EXCEPT ![n].count = @ + 1] = [runs EXCEPT ![n] = f]
      BY <2>2, <2>5, <3>2
    <3>4. QED
      BY <3>1, <3>3
  <2>10. PICK t \in Seq(GoodRuns) : /\ t = [runs EXCEPT ![n] = f] /\ Len(t) = n
                                   /\ \A k \in 1..n : t[k] = IF k = n THEN f ELSE runs[k]
    <3>1. n \in 1..Len(runs)
      BY <1>2, <2>1
    <3>2. /\ [runs EXCEPT ![n] = f] \in Seq(GoodRuns)
          /\ Len([runs EXCEPT ![n] = f]) = Len(runs)
          /\ \A k \in 1..Len(runs) : [runs EXCEPT ![n] = f][k] = IF k = n THEN f ELSE runs[k]
      BY <1>1, <2>8, <3>1, ExceptSeq
    <3>3. QED
      BY <1>2, <3>2
  <2>11. Begins(f) = Begins(e)
    BY <2>3, <2>7 DEF Begins
  <2>12. \A k \in 1..n-1 : k \in 1..n /\ k + 1 \in 1..n /\ k # n
    OBVIOUS
  <2>13. /\ Begins(runs[1]) = s
         /\ \A k \in 1..n-1 : Finishes(runs[k]) = Begins(runs[k+1])
         /\ \A k \in 1..n-1 : runs[k].op # "equal" \/ runs[k+1].op # "equal"
    BY <1>2, <1>3 DEF Built, Leads, Apart
  <2>14. \A k \in 1..n-1 : Finishes(t[k]) = Begins(t[k+1])
    <3> SUFFICES ASSUME NEW k \in 1..n-1 PROVE Finishes(t[k]) = Begins(t[k+1])
      OBVIOUS
    <3>1. t[k] = runs[k] /\ (t[k+1] = runs[k+1] \/ (t[k+1] = f /\ runs[k+1] = e))
      <4>1. k \in 1..n /\ k + 1 \in 1..n /\ k # n
        BY <2>12
      <4>2. t[k] = runs[k]
        BY <2>10, <4>1
      <4>3. CASE k + 1 = n
        BY <2>2, <2>10, <4>1, <4>2, <4>3
      <4>4. CASE k + 1 # n
        BY <2>10, <4>1, <4>2, <4>4
      <4>5. QED
        BY <4>3, <4>4
    <3>2. QED
      BY <2>11, <2>13, <3>1
  <2>15. \A k \in 1..n-1 : t[k].op # "equal" \/ t[k+1].op # "equal"
    <3> SUFFICES ASSUME NEW k \in 1..n-1 PROVE t[k].op # "equal" \/ t[k+1].op # "equal"
      OBVIOUS
    <3>1. t[k] = runs[k] /\ (t[k+1] = runs[k+1] \/ (t[k+1] = f /\ runs[k+1] = e))
      <4>1. k \in 1..n /\ k + 1 \in 1..n /\ k # n
        BY <2>12
      <4>2. t[k] = runs[k]
        BY <2>10, <4>1
      <4>3. CASE k + 1 = n
        BY <2>2, <2>10, <4>1, <4>2, <4>3
      <4>4. CASE k + 1 # n
        BY <2>10, <4>1, <4>2, <4>4
      <4>5. QED
        BY <4>3, <4>4
    <3>2. QED
      BY <2>2, <2>7, <2>13, <3>1
  <2>16. Begins(t[1]) = s /\ t # << >> /\ t[n] = f
    <3>1. 1 \in 1..n
      BY <2>1
    <3>2. t[1] = runs[1] \/ (t[1] = f /\ runs[1] = e)
      BY <2>2, <2>10, <3>1
    <3>3. t # << >>
      BY <1>3, <2>10
    <3>4. QED
      BY <2>1, <2>10, <2>11, <2>13, <3>2, <3>3
  <2>17. Built(GoodRuns, t, s, <<l + 1, r + 1>>)
    BY <2>7, <2>10, <2>14, <2>15, <2>16 DEF Built, Leads, Apart
  <2>18. QED
    BY <2>9, <2>10, <2>17
<1>4. CASE ~(n # 0 /\ runs[n].op = "equal")
  <2>1. PICK f \in RunType : /\ f = Run("equal", l, r, 1) /\ f.op = "equal" /\ f.left = l /\ f.right = r
                            /\ f.count = 1 /\ Begins(f) = <<l, r>>
    <3>1. 1 \in Nat
      OBVIOUS
    <3>2. QED
      BY <3>1, RunOf
  <2>2. Finishes(f) = <<l + 1, r + 1>>
    BY <2>1, RunIs
  <2>3. f \in GoodRuns
    <3>1. Alike(SameText, l, r, 1)
      BY OneAlike
    <3>2. QED
      BY <2>1, <2>2, <3>1 DEF GoodRuns
  <2>4. WithOne(runs, l, r) = Append(runs, f)
    BY <1>2, <1>4, <2>1 DEF WithOne
  <2>5. Leads(GoodRuns, Append(runs, f), s, <<l + 1, r + 1>>)
    BY <2>1, <2>2, <2>3, LeadsOn DEF Built
  <2>6. Apart(Append(runs, f))
    BY <1>1, <1>2, <1>4, <2>3, ApartOn DEF Built
  <2>7. QED
    BY <2>4, <2>5, <2>6 DEF Built
<1>5. QED
  BY <1>3, <1>4

-----------------------------------------------------------------------------
(* Lines that are the same, from one corner to another.                     *)

Slides(E, p, u) ==
    /\ p \in Nat \X Nat /\ u \in Nat \X Nat
    /\ p[1] <= u[1] /\ u[1] - p[1] = u[2] - p[2]
    /\ Alike(E, p[1], p[2], u[1] - p[1])

LEMMA Stays == ASSUME NEW E, NEW p \in Nat \X Nat PROVE Slides(E, p, p)
<1>1. PICK i \in Nat, j \in Nat : p[1] = i /\ p[2] = j
  OBVIOUS
<1>2. i <= i /\ i - i = 0 /\ j - j = 0 /\ \A k \in 0..0-1 : FALSE
  OBVIOUS
<1>3. Alike(E, i, j, 0)
  BY <1>2 DEF Alike
<1>4. QED
  BY <1>1, <1>2, <1>3 DEF Slides

LEMMA PartSlides ==
    ASSUME NEW E, NEW l \in Nat, NEW r \in Nat, NEW n \in Nat, Alike(E, l, r, n),
           NEW i \in Nat, NEW j \in Nat, i <= j, j <= n
    PROVE  Slides(E, <<l + i, r + i>>, <<l + j, r + j>>) /\ Alike(E, l + i, r + i, j - i)
<1>1. /\ l + i \in Nat /\ r + i \in Nat /\ l + j \in Nat /\ r + j \in Nat
      /\ l + i <= l + j /\ (l + j) - (l + i) = j - i /\ (r + j) - (r + i) = j - i
  OBVIOUS
<1>2. ASSUME NEW k \in 0..(j-i)-1 PROVE <<(l + i) + k, (r + i) + k>> \in E
  <2>1. i + k \in 0..n-1 /\ (l + i) + k = l + (i + k) /\ (r + i) + k = r + (i + k)
    OBVIOUS
  <2>2. QED
    BY <2>1 DEF Alike
<1>3. Alike(E, l + i, r + i, j - i)
  BY <1>2 DEF Alike
<1>4. QED
  BY <1>1, <1>3 DEF Slides

\* Both ends of a run of lines that stay.
LEMMA EndsOfRun ==
    ASSUME left \in Seq(Nat), right \in Seq(Nat), ContextLines \in Nat,
           NEW run \in GoodRuns, run.op = "equal"
    PROVE  /\ HeadOf(run) \in GoodRuns /\ HeadOf(run).op = "equal" /\ HeadOf(run).count <= ContextLines
           /\ Begins(HeadOf(run)) = Begins(run) /\ Slides(SameText, Finishes(HeadOf(run)), Finishes(run))
           /\ TailOf(run) \in GoodRuns /\ TailOf(run).op = "equal" /\ TailOf(run).count <= ContextLines
           /\ Finishes(TailOf(run)) = Finishes(run) /\ Slides(SameText, Begins(run), Begins(TailOf(run)))
           /\ run.count > 2 * ContextLines => Slides(SameText, Finishes(HeadOf(run)), Begins(TailOf(run)))
           /\ Slides(SameText, Begins(run), Finishes(run))
<1>1. PICK M \in Nat, N \in Nat : M = Len(left) /\ N = Len(right)
  BY LenProperties
<1>2. /\ run.left \in Nat /\ run.right \in Nat /\ run.count \in Nat
      /\ run = Run(run.op, run.left, run.right, run.count)
      /\ Finishes(run) = <<run.left + run.count, run.right + run.count>>
  BY GoodIsRun, RunIs
<1>3. PICK l \in Nat, r \in Nat, n \in Nat :
          /\ l = run.left /\ r = run.right /\ n = run.count
          /\ run = Run("equal", l, r, n) /\ Finishes(run) = <<l + n, r + n>>
  BY <1>2
<1>4. Alike(SameText, l, r, n) /\ l + n <= M /\ r + n <= N
  BY <1>1, <1>3 DEF GoodRuns
<1>5. PICK h \in Nat, k \in Nat :
          /\ h = Lesser(n, ContextLines) /\ k = n - h /\ h <= n /\ k <= n /\ h <= ContextLines /\ k + h = n
          /\ n > 2 * ContextLines => h <= k
  BY DEF Lesser
<1>6. /\ n - k = h /\ n - h = k /\ h - 0 = h /\ 0 <= h /\ n <= n /\ 0 <= k /\ 0 <= n /\ 0 \in Nat
      /\ l + 0 = l /\ r + 0 = r /\ l + k \in Nat /\ r + k \in Nat
      /\ (l + k) + h = l + n /\ (r + k) + h = r + n
      /\ l + h <= M /\ r + h <= N
  <2>1. /\ l \in Nat /\ r \in Nat /\ n \in Nat /\ h \in Nat /\ k \in Nat /\ M \in Nat /\ N \in Nat
        /\ k + h = n /\ l + n <= M /\ r + n <= N
    BY <1>4, <1>5
  <2>2. QED
    BY ONLY <2>1
<1>7. PICK H : H = HeadOf(run)
  OBVIOUS
<1>8. PICK T : T = TailOf(run)
  OBVIOUS
<1>9. /\ H \in RunType /\ H.op = "equal" /\ H.left = l /\ H.right = r /\ H.count = h
      /\ Begins(H) = <<l, r>> /\ Finishes(H) = <<l + h, r + h>>
  <2>1. run = [op |-> "equal", left |-> l, right |-> r, count |-> n]
    BY <1>3 DEF Run
  <2>2. H = [op |-> "equal", left |-> l, right |-> r, count |-> h]
    BY <1>5, <1>7, <2>1 DEF HeadOf
  <2>3. H \in RunType /\ H.op = "equal" /\ H.left = l /\ H.right = r /\ H.count = h
    BY <2>2 DEF RunType
  <2>4. Finishes(H) = <<H.left + H.count, H.right + H.count>>
    BY <2>3, RunIs
  <2>5. QED
    BY <2>3, <2>4 DEF Begins
<1>10. /\ T \in RunType /\ T.op = "equal" /\ T.left = l + k /\ T.right = r + k /\ T.count = h
       /\ Begins(T) = <<l + k, r + k>> /\ Finishes(T) = <<l + n, r + n>>
  <2>1. T = Run("equal", l + k, r + k, n - k)
    <3>1. run.op = "equal"
      OBVIOUS
    <3>2. QED
      BY <1>3, <1>5, <1>8, <3>1 DEF TailOf
  <2>2. T = [op |-> "equal", left |-> l + k, right |-> r + k, count |-> h]
    BY <1>6, <2>1 DEF Run
  <2>3. T \in RunType /\ T.op = "equal" /\ T.left = l + k /\ T.right = r + k /\ T.count = h
    BY <1>6, <2>2 DEF RunType
  <2>4. Finishes(T) = <<T.left + T.count, T.right + T.count>>
    BY <2>3, RunIs
  <2>5. QED
    BY <1>6, <2>3, <2>4 DEF Begins
<1>11. H \in GoodRuns
  <2>1. Alike(SameText, l + 0, r + 0, h - 0)
    BY <1>4, <1>5, <1>6, PartSlides
  <2>2. QED
    BY <1>1, <1>6, <1>9, <2>1 DEF GoodRuns
<1>12. T \in GoodRuns
  <2>1. Alike(SameText, l + k, r + k, n - k)
    BY <1>4, <1>5, <1>6, PartSlides
  <2>2. QED
    BY <1>1, <1>4, <1>6, <1>10, <2>1 DEF GoodRuns
<1>13. /\ Slides(SameText, <<l + h, r + h>>, <<l + n, r + n>>)
       /\ Slides(SameText, <<l + 0, r + 0>>, <<l + k, r + k>>)
       /\ Slides(SameText, <<l + 0, r + 0>>, <<l + n, r + n>>)
  BY <1>4, <1>5, <1>6, PartSlides
<1>14. n > 2 * ContextLines => Slides(SameText, <<l + h, r + h>>, <<l + k, r + k>>)
  BY <1>4, <1>5, PartSlides
<1>15. Begins(run) = <<l, r>>
  BY <1>3 DEF Begins
<1>16. QED
  BY <1>3, <1>5, <1>6, <1>7, <1>8, <1>9, <1>10, <1>11, <1>12, <1>13, <1>14, <1>15

-----------------------------------------------------------------------------
(* Hunks of runs.                                                           *)

\* The corner that the first k runs lead to.
Reach(s, runs, k) == IF k = 0 THEN s ELSE Finishes(runs[k])

\* Run k leads from one to the next.
Onward(G, s, runs, k) ==
    /\ runs[k] \in G /\ Reach(s, runs, k - 1) = Begins(runs[k]) /\ Reach(s, runs, k) = Finishes(runs[k])
    /\ Finishes(runs[k]) = <<runs[k].left + Counted(runs[k], {"equal", "delete"}),
                             runs[k].right + Counted(runs[k], {"equal", "insert"})>>
    /\ runs[k].left \in Nat /\ runs[k].right \in Nat /\ runs[k].count \in Nat
    /\ runs[k].op \in {"equal", "delete", "insert"}

LEMMA Reaches ==
    ASSUME NEW G \in SUBSET RunType, NEW runs, NEW s, NEW e, Leads(G, runs, s, e), NEW k \in 1..Len(runs)
    PROVE  Onward(G, s, runs, k)
<1>1. runs \in Seq(G)
  BY DEF Leads
<1>2. PICK n \in Nat : n = Len(runs) /\ (n = 0 <=> runs = << >>)
  BY <1>1, EmptySeq, LenProperties
<1>3. PICK run \in G : run = runs[k]
  BY <1>1, ElementOfSeq
<1>4. /\ run.left \in Nat /\ run.right \in Nat /\ run.count \in Nat
      /\ run.op \in {"equal", "delete", "insert"}
  <2>1. run \in RunType
    OBVIOUS
  <2>2. QED
    BY <2>1, RunIs
<1>5. Finishes(run) = <<run.left + Counted(run, {"equal", "delete"}), run.right + Counted(run, {"equal", "insert"})>>
  BY <1>4 DEF Finishes, Counted
<1>6. Reach(s, runs, k - 1) = Begins(runs[k])
  <2>1. CASE k = 1
    <3>1. Begins(runs[1]) = s
      BY <1>2, <2>1 DEF Leads
    <3>2. QED
      BY <2>1, <3>1 DEF Reach
  <2>2. CASE k # 1
    <3>1. k - 1 \in 1..Len(runs)-1 /\ (k - 1) + 1 = k /\ k - 1 # 0
      BY <1>2, <2>2
    <3>2. Finishes(runs[k - 1]) = Begins(runs[(k - 1) + 1])
      BY <3>1 DEF Leads
    <3>3. QED
      BY <3>1, <3>2 DEF Reach
  <2>3. QED
    BY <2>1, <2>2
<1>7. Reach(s, runs, k) = Finishes(runs[k])
  <2>1. k # 0
    OBVIOUS
  <2>2. QED
    BY <2>1 DEF Reach
<1>8. QED
  BY <1>3, <1>4, <1>5, <1>6, <1>7 DEF Onward

LEMMA ReachesEnd ==
    ASSUME NEW G, NEW runs, NEW s, NEW e, Leads(G, runs, s, e)
    PROVE  Reach(s, runs, Len(runs)) = e
<1>1. runs \in Seq(G)
  BY DEF Leads
<1>2. PICK n \in Nat : n = Len(runs) /\ (n = 0 <=> runs = << >>)
  BY <1>1, EmptySeq, LenProperties
<1>3. QED
  BY <1>2 DEF Leads, Reach

\* What the runs count is what lies between their corners.
LEMMA CountsLead ==
    ASSUME NEW G \in SUBSET RunType, NEW runs, NEW s \in Nat \X Nat, NEW e, Leads(G, runs, s, e)
    PROVE  e = <<s[1] + Count(runs, {"equal", "delete"}), s[2] + Count(runs, {"equal", "insert"})>>
<1>1. runs \in Seq(RunType)
  <2>1. runs \in Seq(G)
    BY DEF Leads
  <2>2. QED
    BY <2>1
<1>2. PICK n \in Nat : n = Len(runs)
  BY <1>1, LenProperties
<1>r. \A j \in 1..Len(runs) : Onward(G, s, runs, j)
  BY Reaches
<1>3. PICK f \in [0..n -> Nat] :
          /\ Count(runs, {"equal", "delete"}) = f[n] /\ f[0] = 0
          /\ \A i \in 1..n : f[i] = f[i-1] + Counted(runs[i], {"equal", "delete"})
  BY <1>1, <1>2, CountRuns
<1>4. PICK g \in [0..n -> Nat] :
          /\ Count(runs, {"equal", "insert"}) = g[n] /\ g[0] = 0
          /\ \A i \in 1..n : g[i] = g[i-1] + Counted(runs[i], {"equal", "insert"})
  BY <1>1, <1>2, CountRuns
<1>5. PICK u \in Nat, v \in Nat : s = <<u, v>>
  OBVIOUS
<1> DEFINE S == {k \in 0..n : Reach(s, runs, k) = <<u + f[k], v + g[k]>>}
<1>6. 0 \in S
  <2>1. 0 \in 0..n /\ u + 0 = u /\ v + 0 = v
    OBVIOUS
  <2>2. QED
    BY <1>3, <1>4, <1>5, <2>1 DEF Reach
<1>7. ASSUME NEW k \in 0..n-1, k \in S PROVE k + 1 \in S
  <2>1. k + 1 \in 1..n /\ k + 1 \in 0..n /\ (k + 1) - 1 = k /\ k \in 0..n
    OBVIOUS
  <2>2. PICK j : j = k + 1
    OBVIOUS
  <2>3. j \in 1..n /\ j \in 0..n /\ j - 1 = k
    BY <2>1, <2>2
  <2>4. PICK run : run = runs[j]
    OBVIOUS
  <2>5. /\ Reach(s, runs, k) = Begins(run)
        /\ Reach(s, runs, j) = <<run.left + Counted(run, {"equal", "delete"}),
                                 run.right + Counted(run, {"equal", "insert"})>>
        /\ run.left \in Nat /\ run.right \in Nat /\ run.count \in Nat
    <3>1. j \in 1..Len(runs)
      BY <1>2, <2>3
    <3>2. /\ Reach(s, runs, j - 1) = Begins(runs[j]) /\ Reach(s, runs, j) = Finishes(runs[j])
          /\ Finishes(runs[j]) = <<runs[j].left + Counted(runs[j], {"equal", "delete"}),
                                   runs[j].right + Counted(runs[j], {"equal", "insert"})>>
          /\ runs[j].left \in Nat /\ runs[j].right \in Nat /\ runs[j].count \in Nat
      BY <3>1, <1>r DEF Onward
    <3>3. QED
      BY <2>3, <2>4, <3>2
  <2>6. PICK i \in Nat, m \in Nat : i = Counted(run, {"equal", "delete"}) /\ m = Counted(run, {"equal", "insert"})
    BY <2>5 DEF Counted
  <2>7. run.left = u + f[k] /\ run.right = v + g[k]
    BY <1>7, <2>5 DEF Begins
  <2>8. f[j] = f[k] + i /\ g[j] = g[k] + m
    BY <1>3, <1>4, <2>3, <2>4, <2>6
  <2>9. (u + f[k]) + i = u + f[j] /\ (v + g[k]) + m = v + g[j]
    <3>1. f[k] \in Nat /\ g[k] \in Nat
      BY <2>1
    <3>2. QED
      BY <2>8, <3>1
  <2>10. Reach(s, runs, j) = <<u + f[j], v + g[j]>>
    BY <2>5, <2>6, <2>7, <2>9
  <2>11. QED
    BY <2>2, <2>3, <2>10
<1>8. 0..n \subseteq S
  <2> HIDE DEF S
  <2>1. QED
    BY <1>6, <1>7, UpTo
<1>9. Reach(s, runs, n) = <<u + f[n], v + g[n]>>
  <2>1. n \in S
    <3> HIDE DEF S
    <3>1. n \in 0..n
      OBVIOUS
    <3>2. QED
      BY <1>8, <3>1
  <2>2. QED
    BY <2>1
<1>10. Reach(s, runs, n) = e
  BY <1>2, ReachesEnd
<1>11. QED
  BY <1>3, <1>4, <1>5, <1>9, <1>10

\* Hunk by hunk: what lies between two is the same on both sides.
Changes(runs) == \E i \in 1..Len(runs) : runs[i].op # "equal"
IsHunk(G, h, s, e) ==
    \E runs \in Seq(G) :
        /\ h = Hunk(runs) /\ runs # << >> /\ Leads(G, runs, s, e) /\ Changes(runs)
        /\ Context(runs[1]) <= ContextLines /\ Context(runs[Len(runs)]) <= ContextLines
Start(h) == <<h.leftStart, h.rightStart>>
End(h) == <<h.leftStart + h.leftCount, h.rightStart + h.rightCount>>
Finish(hs, n) == IF n = 0 THEN <<0, 0>> ELSE End(hs[n])
Hunked(E, G, hs) ==
    /\ hs \in Seq({Hunk(runs) : runs \in Seq(G)})
    /\ \A n \in 1..Len(hs) :
          \E s, e \in Nat \X Nat : IsHunk(G, hs[n], s, e) /\ Slides(E, Finish(hs, n - 1), s)

LEMMA HunkIs ==
    ASSUME NEW G \in SUBSET RunType, NEW h, NEW s \in Nat \X Nat, NEW e \in Nat \X Nat, IsHunk(G, h, s, e)
    PROVE  Start(h) = s /\ End(h) = e
<1>1. PICK runs \in Seq(G) : h = Hunk(runs) /\ runs # << >> /\ Leads(G, runs, s, e)
  BY DEF IsHunk
<1>2. PICK u \in Nat, v \in Nat : s = <<u, v>>
  OBVIOUS
<1>3. PICK i, j : i = Count(runs, {"equal", "delete"}) /\ j = Count(runs, {"equal", "insert"})
  OBVIOUS
<1>4. e = <<s[1] + i, s[2] + j>>
  BY <1>1, <1>3, CountsLead
<1>5. runs[1].left = u /\ runs[1].right = v
  BY <1>1, <1>2 DEF Leads, Begins
<1>6. h.leftStart = u /\ h.rightStart = v /\ h.leftCount = i /\ h.rightCount = j
  BY <1>1, <1>3, <1>5 DEF Hunk
<1>7. QED
  BY <1>2, <1>4, <1>6 DEF Start, End

LEMMA AddHunk ==
    ASSUME NEW E, NEW G \in SUBSET RunType, NEW hs, Hunked(E, G, hs), NEW h,
           NEW s \in Nat \X Nat, NEW e \in Nat \X Nat,
           IsHunk(G, h, s, e), Slides(E, Finish(hs, Len(hs)), s)
    PROVE  Hunked(E, G, Append(hs, h)) /\ Finish(Append(hs, h), Len(Append(hs, h))) = e
<1> DEFINE H == {Hunk(runs) : runs \in Seq(G)}
<1>1. hs \in Seq(H)
  BY DEF Hunked
<1>2. h \in H
  BY DEF IsHunk
<1> HIDE DEF H
<1>3. PICK n \in Nat : n = Len(hs)
  BY <1>1, LenProperties
<1>4. PICK t \in Seq(H) : t = Append(hs, h) /\ Len(t) = n + 1 /\ t[n+1] = h /\ \A i \in 1..n : t[i] = hs[i]
  <2>1. /\ Append(hs, h) \in Seq(H) /\ Len(Append(hs, h)) = Len(hs) + 1 /\ Append(hs, h)[Len(hs)+1] = h
        /\ \A i \in 1..Len(hs) : Append(hs, h)[i] = hs[i]
    BY <1>1, <1>2, AppendProperties
  <2>2. QED
    BY <1>3, <2>1
<1>5. \A i \in 0..n : Finish(t, i) = Finish(hs, i)
  <2>1. \A i \in 0..n : i = 0 \/ i \in 1..n
    OBVIOUS
  <2>2. QED
    BY <1>4, <2>1 DEF Finish
<1>6. ASSUME NEW i \in 1..n+1
      PROVE  \E p, q \in Nat \X Nat : IsHunk(G, t[i], p, q) /\ Slides(E, Finish(t, i - 1), p)
  <2>1. (i \in 1..n \/ i = n + 1) /\ i - 1 \in 0..n
    OBVIOUS
  <2>2. CASE i \in 1..n
    <3>1. PICK p \in Nat \X Nat, q \in Nat \X Nat : IsHunk(G, hs[i], p, q) /\ Slides(E, Finish(hs, i - 1), p)
      BY <1>3, <2>2 DEF Hunked
    <3>2. t[i] = hs[i] /\ Finish(t, i - 1) = Finish(hs, i - 1)
      BY <1>4, <1>5, <2>1, <2>2
    <3>3. QED
      BY <3>1, <3>2
  <2>3. CASE i = n + 1
    <3>1. t[i] = h /\ i - 1 = n /\ n \in 0..n
      BY <1>4, <2>3
    <3>2. Finish(t, i - 1) = Finish(hs, n)
      BY <1>5, <3>1
    <3>3. IsHunk(G, t[i], s, e) /\ Slides(E, Finish(t, i - 1), s)
      BY <1>3, <3>1, <3>2
    <3>4. QED
      BY <3>3
  <2>4. QED
    BY <2>1, <2>2, <2>3
<1>7. Finish(t, Len(t)) = e
  <2>1. n + 1 # 0
    OBVIOUS
  <2>2. End(h) = e
    BY HunkIs
  <2>3. QED
    BY <1>4, <2>1, <2>2 DEF Finish
<1>8. QED
  BY <1>4, <1>6, <1>7 DEF Hunked, H

\* Where run k begins, or the end of both states.
Corner(far, runs, k) == IF k <= Len(runs) THEN Begins(runs[k]) ELSE far

\* What lies between the last hunk and the open one, and between that and the
\* next run, is the same on both sides; the open hunk has a change before a run
\* of lines that stay can end it.
Holds(E, G, far, runs, k, rs, hs, s, e) ==
    /\ Hunked(E, G, hs)
    /\ Slides(E, Finish(hs, Len(hs)), s) /\ Leads(G, rs, s, e) /\ Slides(E, e, Corner(far, runs, k))
    /\ rs = << >> => s = Finish(hs, Len(hs))
    /\ rs # << >> /\ k <= Len(runs) => e = Corner(far, runs, k)
    /\ rs # << >> => Context(rs[1]) <= ContextLines
    /\ k = 1 => rs = << >> /\ hs = << >>
    /\ 1 < k /\ k <= Len(runs) => rs # << >>
    /\ 1 < k /\ k <= Len(runs) /\ runs[k-1].op # "equal" => Changes(rs)
    /\ k > Len(runs) /\ rs # << >> => Changes(rs) /\ Context(rs[Len(rs)]) <= ContextLines
Grouped(E, G, far, runs, k, rs, hs) == \E s, e \in Nat \X Nat : Holds(E, G, far, runs, k, rs, hs, s, e)

\* Runs of the whole script, each where the one before it ends.
LEMMA NextCorner ==
    ASSUME NEW G \in SUBSET RunType, NEW runs, Built(G, runs, <<0, 0>>, Far), NEW k \in 1..Len(runs)
    PROVE  /\ runs[k] \in G /\ Corner(Far, runs, k) = Begins(runs[k]) /\ Corner(Far, runs, k + 1) = Finishes(runs[k])
           /\ Begins(runs[k]) \in Nat \X Nat /\ Finishes(runs[k]) \in Nat \X Nat
           /\ k = 1 => Begins(runs[k]) = <<0, 0>>
           /\ k # 1 => runs[k - 1].op # "equal" \/ runs[k].op # "equal"
<1>1. runs \in Seq(G)
  BY DEF Built, Leads
<1>2. PICK n \in Nat : n = Len(runs) /\ n # 0 /\ runs # << >>
  BY <1>1, EmptySeq, LenProperties
<1>3. PICK run \in G : run = runs[k]
  BY <1>1, ElementOfSeq
<1>4. Begins(run) \in Nat \X Nat /\ Finishes(run) \in Nat \X Nat
  <2>1. run \in RunType
    OBVIOUS
  <2>2. run.left \in Nat /\ run.right \in Nat
    BY <2>1, RunIs
  <2>3. Finishes(run)[1] \in Nat /\ Finishes(run)[2] \in Nat /\ Finishes(run) = <<Finishes(run)[1], Finishes(run)[2]>>
    BY <2>1, RunIs
  <2>4. PICK i \in Nat, j \in Nat : Finishes(run) = <<i, j>>
    BY <2>3
  <2>5. QED
    BY <2>2, <2>4 DEF Begins
<1>5. Corner(Far, runs, k) = Begins(runs[k])
  <2>1. k <= Len(runs)
    BY <1>2
  <2>2. QED
    BY <2>1 DEF Corner
<1>6. Corner(Far, runs, k + 1) = Finishes(runs[k])
  <2>1. CASE k = n
    <3>1. ~(k + 1 <= Len(runs))
      BY <1>2, <2>1
    <3>2. Finishes(runs[k]) = Far
      BY <1>2, <2>1 DEF Built, Leads
    <3>3. QED
      BY <3>1, <3>2 DEF Corner
  <2>2. CASE k # n
    <3>1. k \in 1..Len(runs)-1 /\ k + 1 <= Len(runs)
      BY <1>2, <2>2
    <3>2. Finishes(runs[k]) = Begins(runs[k+1])
      BY <3>1 DEF Built, Leads
    <3>3. QED
      BY <3>1, <3>2 DEF Corner
  <2>3. QED
    BY <2>1, <2>2
<1>7. k = 1 => Begins(runs[k]) = <<0, 0>>
  BY <1>2 DEF Built, Leads
<1>8. k # 1 => runs[k - 1].op # "equal" \/ runs[k].op # "equal"
  <2> SUFFICES ASSUME k # 1 PROVE runs[k - 1].op # "equal" \/ runs[k].op # "equal"
    OBVIOUS
  <2>1. k - 1 \in 1..Len(runs)-1 /\ (k - 1) + 1 = k
    BY <1>2
  <2>2. runs[k - 1].op # "equal" \/ runs[(k - 1) + 1].op # "equal"
    BY <2>1 DEF Built, Apart
  <2>3. QED
    BY <2>1, <2>2
<1>9. QED
  BY <1>3, <1>4, <1>5, <1>6, <1>7, <1>8

LEMMA RunsAreTyped == GoodRuns \in SUBSET RunType
BY DEF GoodRuns

\* A run behind others: the first one is what it was, unless there was none.
LEMMA FirstStays ==
    ASSUME NEW G, NEW rs \in Seq(G), NEW run \in G
    PROVE  /\ Append(rs, run) \in Seq(G) /\ Append(rs, run) # << >>
           /\ rs = << >> => Append(rs, run)[1] = run
           /\ rs # << >> => Append(rs, run)[1] = rs[1]
           /\ Append(rs, run)[Len(Append(rs, run))] = run
           /\ run.op # "equal" \/ Changes(rs) => Changes(Append(rs, run))
<1>1. PICK n \in Nat : n = Len(rs) /\ (n = 0 <=> rs = << >>)
  BY EmptySeq, LenProperties
<1>2. PICK t \in Seq(G) : /\ t = Append(rs, run) /\ t # << >> /\ Len(t) = n + 1 /\ t[n+1] = run
                          /\ \A i \in 1..n : t[i] = rs[i]
  <2>1. /\ Append(rs, run) \in Seq(G) /\ Append(rs, run) # << >>
        /\ Len(Append(rs, run)) = Len(rs) + 1 /\ Append(rs, run)[Len(rs)+1] = run
        /\ \A i \in 1..Len(rs) : Append(rs, run)[i] = rs[i]
    BY AppendProperties
  <2>2. QED
    BY <1>1, <2>1
<1>3. n = 0 => t[1] = run
  BY <1>2
<1>4. n # 0 => t[1] = rs[1]
  BY <1>2
<1>5. run.op # "equal" => Changes(t)
  <2>1. n + 1 \in 1..n+1
    OBVIOUS
  <2>2. QED
    BY <1>2, <2>1 DEF Changes
<1>6. Changes(rs) => Changes(t)
  <2> SUFFICES ASSUME NEW i \in 1..n, rs[i].op # "equal" PROVE Changes(t)
    BY <1>1 DEF Changes
  <2>1. i \in 1..n+1 /\ t[i] = rs[i]
    BY <1>2
  <2>2. QED
    BY <1>2, <2>1 DEF Changes
<1>7. QED
  BY <1>1, <1>2, <1>3, <1>4, <1>5, <1>6

\* What holds before run k of the whole script.
Before(runs, k, rs, hs) ==
    /\ left \in Seq(Nat) /\ right \in Seq(Nat) /\ ContextLines \in Nat
    /\ Built(GoodRuns, runs, <<0, 0>>, Far) /\ k \in 1..Len(runs)
    /\ Grouped(SameText, GoodRuns, Far, runs, k, rs, hs)

\* The open hunk ends where run k begins.
Opened(runs, k, rs, hs, s) ==
    /\ Hunked(SameText, GoodRuns, hs)
    /\ s \in Nat \X Nat /\ Slides(SameText, Finish(hs, Len(hs)), s)
    /\ rs \in Seq(GoodRuns) /\ Leads(GoodRuns, rs, s, Begins(runs[k]))
    /\ runs[k] \in GoodRuns /\ Begins(runs[k]) \in Nat \X Nat /\ Finishes(runs[k]) \in Nat \X Nat
    /\ Corner(Far, runs, k + 1) = Finishes(runs[k])
    /\ rs # << >> => Context(rs[1]) <= ContextLines
    /\ k = 1 => rs = << >> /\ hs = << >> /\ s = <<0, 0>> /\ Begins(runs[k]) = <<0, 0>>
    /\ k # 1 => rs # << >>
    /\ k # 1 /\ runs[k].op = "equal" => Changes(rs)

LEMMA OpensAt ==
    ASSUME NEW runs, NEW k, NEW rs, NEW hs, Before(runs, k, rs, hs)
    PROVE  \E s : Opened(runs, k, rs, hs, s)
<1>1. k \in 1..Len(runs) /\ Built(GoodRuns, runs, <<0, 0>>, Far)
  BY DEF Before
<1>2. PICK s \in Nat \X Nat, e \in Nat \X Nat : Holds(SameText, GoodRuns, Far, runs, k, rs, hs, s, e)
  BY DEF Before, Grouped
<1>3. runs \in Seq(GoodRuns) /\ Len(runs) \in Nat
  BY <1>1, LenProperties DEF Built, Leads
<1>4. k \in Nat /\ k <= Len(runs) /\ (k # 1 => 1 < k)
  BY <1>1, <1>3
<1>5. /\ runs[k] \in GoodRuns /\ Corner(Far, runs, k) = Begins(runs[k]) /\ Corner(Far, runs, k + 1) = Finishes(runs[k])
      /\ Begins(runs[k]) \in Nat \X Nat /\ Finishes(runs[k]) \in Nat \X Nat
      /\ k = 1 => Begins(runs[k]) = <<0, 0>>
      /\ k # 1 => runs[k - 1].op # "equal" \/ runs[k].op # "equal"
  BY <1>1, RunsAreTyped, NextCorner
<1>6. /\ Hunked(SameText, GoodRuns, hs) /\ Slides(SameText, Finish(hs, Len(hs)), s)
      /\ Leads(GoodRuns, rs, s, e) /\ rs \in Seq(GoodRuns)
      /\ rs = << >> => s = Finish(hs, Len(hs)) /\ s = e
      /\ rs # << >> => e = Corner(Far, runs, k) /\ Context(rs[1]) <= ContextLines
      /\ k = 1 => rs = << >> /\ hs = << >>
      /\ k # 1 => rs # << >>
      /\ k # 1 /\ runs[k - 1].op # "equal" => Changes(rs)
  BY <1>2, <1>4 DEF Holds, Leads
<1>7. hs = << >> => Finish(hs, Len(hs)) = <<0, 0>>
  BY EmptySeq DEF Finish
<1>8. e = Begins(runs[k])
  BY <1>5, <1>6, <1>7
<1>9. QED
  BY <1>5, <1>6, <1>7, <1>8 DEF Opened

\* A change, or few lines between two.
LEMMA GroupKeeps ==
    ASSUME NEW runs, NEW k, NEW rs, NEW hs, Before(runs, k, rs, hs),
           runs[k].op # "equal" \/ (k # 1 /\ k # Len(runs))
    PROVE  Grouped(SameText, GoodRuns, Far, runs, k + 1, Append(rs, runs[k]), hs)
<1>1. PICK s : Opened(runs, k, rs, hs, s)
  BY OpensAt
<1>2. PICK run \in GoodRuns : run = runs[k]
  BY <1>1 DEF Opened
<1>3. PICK t : t = Append(rs, run)
  OBVIOUS
<1>4. /\ t \in Seq(GoodRuns) /\ t # << >> /\ t[Len(t)] = run
      /\ rs = << >> => t[1] = run
      /\ rs # << >> => t[1] = rs[1]
      /\ run.op # "equal" => Changes(t)
  <2>1. rs \in Seq(GoodRuns)
    BY <1>1 DEF Opened
  <2>2. QED
    BY <1>2, <1>3, <2>1, FirstStays
<1>5. Leads(GoodRuns, t, s, Finishes(run))
  <2>1. Leads(GoodRuns, rs, s, Begins(run))
    BY <1>1, <1>2 DEF Opened
  <2>2. QED
    BY <1>2, <1>3, <2>1, LeadsOn
<1>6. Slides(SameText, Finishes(run), Finishes(run)) /\ Finishes(run) = Corner(Far, runs, k + 1)
      /\ Finishes(run) \in Nat \X Nat
  BY <1>1, <1>2, Stays DEF Opened
<1>7. k \in Nat /\ k # 0 /\ Len(runs) \in Nat /\ k <= Len(runs) /\ ContextLines \in Nat
  BY LenProperties DEF Before, Built, Leads
<1>8. run.op # "equal" => Context(run) <= ContextLines
  BY <1>7 DEF Context
<1>9. Context(t[1]) <= ContextLines
  <2>1. CASE rs = << >>
    <3>1. run.op # "equal"
      BY <1>1, <1>2, <2>1 DEF Opened
    <3>2. QED
      BY <1>4, <1>8, <2>1, <3>1
  <2>2. CASE rs # << >>
    BY <1>1, <1>4, <2>2 DEF Opened
  <2>3. QED
    BY <2>1, <2>2
<1>10. k + 1 > Len(runs) => Changes(t) /\ Context(t[Len(t)]) <= ContextLines
  <2> SUFFICES ASSUME k + 1 > Len(runs) PROVE Changes(t) /\ Context(t[Len(t)]) <= ContextLines
    OBVIOUS
  <2>1. k = Len(runs)
    BY <1>7
  <2>2. run.op # "equal"
    BY <1>2, <2>1
  <2>3. QED
    BY <1>4, <1>8, <2>2
<1>11. (k + 1) - 1 = k /\ k + 1 # 1
  BY <1>7
<1>12. Holds(SameText, GoodRuns, Far, runs, k + 1, t, hs, s, Finishes(run))
  BY <1>1, <1>2, <1>4, <1>5, <1>6, <1>9, <1>10, <1>11 DEF Holds, Opened
<1>13. QED
  BY <1>1, <1>2, <1>3, <1>6, <1>12 DEF Grouped, Opened

\* Both states are the same.
LEMMA GroupWhole ==
    ASSUME NEW runs, NEW rs, NEW hs, Before(runs, 1, rs, hs), runs[1].op = "equal", Len(runs) = 1
    PROVE  Grouped(SameText, GoodRuns, Far, runs, 2, rs, hs)
<1>1. PICK s : Opened(runs, 1, rs, hs, s)
  BY OpensAt
<1>2. PICK run \in GoodRuns : run = runs[1]
  BY <1>1 DEF Opened
<1>3. /\ rs = << >> /\ rs \in Seq(GoodRuns) /\ hs = << >> /\ s = <<0, 0>> /\ Begins(run) = <<0, 0>> /\ s \in Nat \X Nat
      /\ Leads(GoodRuns, rs, s, s) /\ Hunked(SameText, GoodRuns, hs)
      /\ Slides(SameText, Finish(hs, Len(hs)), s)
      /\ Corner(Far, runs, 2) = Finishes(run)
  BY <1>1, <1>2, 1 + 1 = 2 DEF Opened
<1>4. Slides(SameText, s, Corner(Far, runs, 2))
  <2>1. Slides(SameText, Begins(run), Finishes(run))
    BY <1>2, EndsOfRun DEF Before
  <2>2. QED
    BY <1>3, <2>1
<1>5. Finish(hs, Len(hs)) = s
  BY <1>3, EmptySeq DEF Finish
<1>6. ~(2 <= Len(runs)) /\ 2 # 1
  OBVIOUS
<1>7. Holds(SameText, GoodRuns, Far, runs, 2, rs, hs, s, s)
  BY <1>3, <1>4, <1>5, <1>6 DEF Holds
<1>8. QED
  BY <1>3, <1>7 DEF Grouped

LEMMA OneRun ==
    ASSUME NEW G, NEW run \in G
    PROVE  /\ Leads(G, <<run>>, Begins(run), Finishes(run))
           /\ <<run>> # << >> /\ <<run>>[1] = run
<1>1. <<run>> \in Seq(G) /\ Len(<<run>>) = 1 /\ <<run>>[1] = run /\ <<run>> # << >>
  OBVIOUS
<1>2. \A i \in 1..1-1 : FALSE
  OBVIOUS
<1>3. QED
  BY <1>1, <1>2 DEF Leads

\* The context before the first change.
LEMMA GroupFirst ==
    ASSUME NEW runs, NEW rs, NEW hs, Before(runs, 1, rs, hs), runs[1].op = "equal", Len(runs) # 1
    PROVE  Grouped(SameText, GoodRuns, Far, runs, 2, <<TailOf(runs[1])>>, hs)
<1>1. PICK s : Opened(runs, 1, rs, hs, s)
  BY OpensAt
<1>2. PICK run \in GoodRuns : run = runs[1]
  BY <1>1 DEF Opened
<1>3. /\ hs = << >> /\ s = <<0, 0>> /\ Begins(run) = <<0, 0>>
      /\ Hunked(SameText, GoodRuns, hs)
      /\ Corner(Far, runs, 2) = Finishes(run) /\ Finishes(run) \in Nat \X Nat
  BY <1>1, <1>2, 1 + 1 = 2 DEF Opened
<1>4. PICK t \in GoodRuns : /\ t = TailOf(run) /\ t.op = "equal" /\ t.count <= ContextLines
                           /\ Finishes(t) = Finishes(run) /\ Slides(SameText, Begins(run), Begins(t))
  BY <1>2, EndsOfRun DEF Before
<1>5. PICK ts : ts = <<t>>
  OBVIOUS
<1>6. Leads(GoodRuns, ts, Begins(t), Finishes(t)) /\ ts # << >> /\ ts[1] = t
  BY <1>5, OneRun
<1>7. Begins(t) \in Nat \X Nat
  BY <1>4 DEF Slides
<1>8. Finish(hs, Len(hs)) = Begins(run)
  BY <1>3, EmptySeq DEF Finish
<1>9. Slides(SameText, Finishes(run), Finishes(run))
  BY <1>3, Stays
<1>10. Len(runs) \in Nat /\ 1 \in 1..Len(runs)
  <2>1. runs \in Seq(GoodRuns) /\ 1 \in 1..Len(runs)
    BY DEF Before, Built, Leads
  <2>2. QED
    BY <2>1, LenProperties
<1>11. 2 <= Len(runs) /\ 2 # 1 /\ 2 - 1 = 1 /\ ~(2 > Len(runs))
  <2>1. PICK n \in Nat : n = Len(runs) /\ n # 1 /\ 1 \in 1..n
    BY <1>10
  <2>2. 2 <= n /\ ~(2 > n)
    BY <2>1
  <2>3. QED
    BY <2>1, <2>2
<1>12. Context(ts[1]) <= ContextLines
  BY <1>4, <1>6 DEF Context
<1>13. Holds(SameText, GoodRuns, Far, runs, 2, ts, hs, Begins(t), Finishes(t))
  BY <1>2, <1>3, <1>4, <1>5, <1>6, <1>8, <1>9, <1>11, <1>12 DEF Holds
<1>14. QED
  BY <1>2, <1>3, <1>4, <1>5, <1>7, <1>13 DEF Grouped

\* The context after the last change.
LEMMA GroupLast ==
    ASSUME NEW runs, NEW k, NEW rs, NEW hs, Before(runs, k, rs, hs), runs[k].op = "equal", k # 1, k = Len(runs)
    PROVE  Grouped(SameText, GoodRuns, Far, runs, k + 1, Append(rs, HeadOf(runs[k])), hs)
<1>1. PICK s : Opened(runs, k, rs, hs, s)
  BY OpensAt
<1>2. PICK run \in GoodRuns : run = runs[k]
  BY <1>1 DEF Opened
<1>3. PICK h \in GoodRuns : /\ h = HeadOf(run) /\ h.op = "equal" /\ h.count <= ContextLines
                           /\ Begins(h) = Begins(run) /\ Slides(SameText, Finishes(h), Finishes(run))
  BY <1>2, EndsOfRun DEF Before
<1>4. /\ rs \in Seq(GoodRuns) /\ rs # << >> /\ Changes(rs) /\ Context(rs[1]) <= ContextLines
      /\ Leads(GoodRuns, rs, s, Begins(h)) /\ s \in Nat \X Nat
      /\ Hunked(SameText, GoodRuns, hs) /\ Slides(SameText, Finish(hs, Len(hs)), s)
      /\ Corner(Far, runs, k + 1) = Finishes(run)
  BY <1>1, <1>2, <1>3 DEF Opened
<1>5. PICK t : t = Append(rs, h)
  OBVIOUS
<1>6. t # << >> /\ t[Len(t)] = h /\ t[1] = rs[1] /\ Changes(t)
  BY <1>4, <1>5, FirstStays
<1>7. Leads(GoodRuns, t, s, Finishes(h))
  BY <1>4, <1>5, LeadsOn
<1>8. Context(h) <= ContextLines /\ Finishes(h) \in Nat \X Nat
  BY <1>3 DEF Context, Slides
<1>9. k \in Nat /\ k # 0
  BY LenProperties DEF Before, Built, Leads
<1>10. ~(k + 1 <= Len(runs)) /\ k + 1 # 1
  BY <1>9
<1>11. Holds(SameText, GoodRuns, Far, runs, k + 1, t, hs, s, Finishes(h))
  BY <1>3, <1>4, <1>6, <1>7, <1>8, <1>10 DEF Holds
<1>12. QED
  BY <1>2, <1>3, <1>4, <1>5, <1>8, <1>11 DEF Grouped

\* Many lines between two changes: one hunk ends and another one begins.
LEMMA GroupBetween ==
    ASSUME NEW runs, NEW k, NEW rs, NEW hs, Before(runs, k, rs, hs), runs[k].op = "equal",
           k # 1, k # Len(runs), runs[k].count > 2 * ContextLines
    PROVE  Grouped(SameText, GoodRuns, Far, runs, k + 1, <<TailOf(runs[k])>>,
                   Append(hs, Hunk(Append(rs, HeadOf(runs[k])))))
<1>1. PICK s : Opened(runs, k, rs, hs, s)
  BY OpensAt
<1>2. PICK run \in GoodRuns : run = runs[k]
  BY <1>1 DEF Opened
<1>3. PICK h \in GoodRuns, t \in GoodRuns :
          /\ h = HeadOf(run) /\ h.op = "equal" /\ h.count <= ContextLines /\ Begins(h) = Begins(run)
          /\ t = TailOf(run) /\ t.op = "equal" /\ t.count <= ContextLines /\ Finishes(t) = Finishes(run)
          /\ Slides(SameText, Finishes(h), Begins(t))
  BY <1>2, EndsOfRun DEF Before
<1>4. /\ rs \in Seq(GoodRuns) /\ rs # << >> /\ Changes(rs) /\ Context(rs[1]) <= ContextLines
      /\ Leads(GoodRuns, rs, s, Begins(h)) /\ s \in Nat \X Nat
      /\ Hunked(SameText, GoodRuns, hs) /\ Slides(SameText, Finish(hs, Len(hs)), s)
      /\ Corner(Far, runs, k + 1) = Finishes(run) /\ Finishes(run) \in Nat \X Nat
  BY <1>1, <1>2, <1>3 DEF Opened
<1>5. PICK r : r = Append(rs, h)
  OBVIOUS
<1>6. r \in Seq(GoodRuns) /\ r # << >> /\ r[Len(r)] = h /\ r[1] = rs[1] /\ Changes(r)
  BY <1>4, <1>5, FirstStays
<1>7. Leads(GoodRuns, r, s, Finishes(h))
  BY <1>4, <1>5, LeadsOn
<1>8. Context(h) <= ContextLines /\ Context(t) <= ContextLines
      /\ Finishes(h) \in Nat \X Nat /\ Begins(t) \in Nat \X Nat
  BY <1>3 DEF Context, Slides
<1>9. PICK g : g = Hunk(r)
  OBVIOUS
<1>10. IsHunk(GoodRuns, g, s, Finishes(h))
  BY <1>4, <1>6, <1>7, <1>8, <1>9 DEF IsHunk
<1>11. PICK gs : gs = Append(hs, g)
  OBVIOUS
<1>12. Hunked(SameText, GoodRuns, gs) /\ Finish(gs, Len(gs)) = Finishes(h)
  BY <1>4, <1>8, <1>10, <1>11, RunsAreTyped, AddHunk
<1>13. PICK ts : ts = <<t>>
  OBVIOUS
<1>14. Leads(GoodRuns, ts, Begins(t), Finishes(t)) /\ ts # << >> /\ ts[1] = t
  BY <1>13, OneRun
<1>15. Slides(SameText, Finishes(run), Finishes(run))
  BY <1>4, Stays
<1>16. k \in Nat /\ k # 0 /\ Len(runs) \in Nat /\ k <= Len(runs)
  BY LenProperties DEF Before, Built, Leads
<1>17. k + 1 # 1 /\ (k + 1) - 1 = k /\ ~(k + 1 > Len(runs))
  BY <1>16
<1>18. Holds(SameText, GoodRuns, Far, runs, k + 1, ts, gs, Begins(t), Finishes(t))
  BY <1>2, <1>3, <1>4, <1>8, <1>12, <1>13, <1>14, <1>15, <1>17 DEF Holds
<1>19. QED
  BY <1>2, <1>3, <1>4, <1>5, <1>8, <1>9, <1>11, <1>13, <1>18 DEF Grouped

\* The last hunk, if one is open.
Whole(hs) == Hunked(SameText, GoodRuns, hs) /\ Slides(SameText, Finish(hs, Len(hs)), Far)

LEMMA GroupEnds ==
    ASSUME NEW runs \in Seq(GoodRuns), NEW k \in Nat, k > Len(runs), NEW rs, NEW hs,
           Grouped(SameText, GoodRuns, Far, runs, k, rs, hs)
    PROVE  Whole(IF rs = << >> THEN hs ELSE Append(hs, Hunk(rs)))
<1>1. PICK s \in Nat \X Nat, e \in Nat \X Nat : Holds(SameText, GoodRuns, Far, runs, k, rs, hs, s, e)
  BY DEF Grouped
<1>2. Corner(Far, runs, k) = Far
  <2>1. ~(k <= Len(runs))
    BY LenProperties
  <2>2. QED
    BY <2>1 DEF Corner
<1>3. CASE rs = << >>
  <2>1. s = Finish(hs, Len(hs)) /\ s = e /\ Slides(SameText, e, Far) /\ Hunked(SameText, GoodRuns, hs)
    BY <1>1, <1>2, <1>3 DEF Holds, Leads
  <2>2. QED
    BY <1>3, <2>1 DEF Whole
<1>4. CASE rs # << >>
  <2>1. /\ rs \in Seq(GoodRuns) /\ Leads(GoodRuns, rs, s, e) /\ Changes(rs)
        /\ Context(rs[1]) <= ContextLines /\ Context(rs[Len(rs)]) <= ContextLines
        /\ Hunked(SameText, GoodRuns, hs) /\ Slides(SameText, Finish(hs, Len(hs)), s)
        /\ Slides(SameText, e, Far) /\ s \in Nat \X Nat /\ e \in Nat \X Nat
    BY <1>1, <1>2, <1>4 DEF Holds, Leads
  <2>2. PICK g : g = Hunk(rs)
    OBVIOUS
  <2>3. IsHunk(GoodRuns, g, s, e)
    BY <1>4, <2>1, <2>2 DEF IsHunk
  <2>4. PICK gs : gs = Append(hs, g)
    OBVIOUS
  <2>5. Hunked(SameText, GoodRuns, gs) /\ Finish(gs, Len(gs)) = e
    BY ONLY <2>1, <2>3, <2>4, RunsAreTyped, AddHunk
  <2>6. QED
    BY <1>4, <2>1, <2>2, <2>4, <2>5 DEF Whole
<1>5. QED
  BY <1>3, <1>4

-----------------------------------------------------------------------------
(* The builder.                                                             *)

\* The runs lead to the cursors, and the matches to come lie beyond them.
Building(G, far, runs, l, r, next, ms) ==
    /\ l \in Nat /\ r \in Nat /\ l <= far[1] /\ r <= far[2]
    /\ Built(G, runs, <<0, 0>>, <<l, r>>)
    /\ next \in Nat \ {0} /\ next <= Len(ms) + 1
    /\ \A i \in next..Len(ms) : l <= ms[i][1] /\ r <= ms[i][2]

GapTo(p, q, l, r) == NonEmpty(Run("delete", p, q, l - p)) \o NonEmpty(Run("insert", l, q, r - q))

LEMMA NothingBuilt == ASSUME NEW G, NEW e PROVE Built(G, << >>, e, e)
<1>1. << >> \in Seq(G) /\ Len(<< >>) = 0 /\ \A i \in 1..0-1 : FALSE
  BY EmptySeq
<1>2. QED
  BY <1>1 DEF Built, Leads, Apart

LEMMA BuildMatch ==
    ASSUME left \in Seq(Nat), right \in Seq(Nat),
           NEW ms, Climbs(ms, SameText, 0, 0, Len(left), Len(right)),
           NEW runs, NEW l, NEW r, NEW next, Building(GoodRuns, Far, runs, l, r, next, ms), next <= Len(ms)
    PROVE  Building(GoodRuns, Far, WithOne(runs \o GapTo(l, r, ms[next][1], ms[next][2]), ms[next][1], ms[next][2]),
                    ms[next][1] + 1, ms[next][2] + 1, next + 1, ms)
<1>1. PICK M \in Nat, N \in Nat : M = Len(left) /\ N = Len(right)
  BY LenProperties
<1>2. PICK n \in Nat : n = Len(ms)
  BY LenProperties DEF Climbs
<1>3. ms \in Seq(SameText) /\ SameText \in SUBSET (Nat \X Nat)
  BY TextPairs DEF Climbs
<1>4. next \in 1..n /\ next \in Nat /\ next # 0
  BY <1>2 DEF Building
<1>5. PICK i \in Nat, j \in Nat : <<i, j>> = ms[next] /\ <<i, j>> \in SameText
  <2>1. ms[next] \in SameText
    BY <1>2, <1>3, <1>4, ElementOfSeq
  <2>2. PICK e \in Nat \X Nat : e = ms[next] /\ e \in SameText
    BY <1>3, <2>1
  <2>3. PICK i \in Nat, j \in Nat : <<i, j>> = e
    OBVIOUS
  <2>4. QED
    BY <2>2, <2>3
<1>6. ms[next][1] = i /\ ms[next][2] = j
  BY <1>5
<1>7. l <= i /\ r <= j /\ l \in Nat /\ r \in Nat
  <2>1. next \in next..Len(ms)
    BY <1>2, <1>4
  <2>2. QED
    BY <1>6, <2>1 DEF Building
<1>8. i < M /\ j < N
  BY <1>1, <1>2, <1>4, <1>6 DEF Climbs
<1>9. /\ i <= Len(left) /\ j <= Len(right) /\ i + 1 <= Len(left) /\ j + 1 <= Len(right)
      /\ i + 1 \in Nat /\ j + 1 \in Nat
  BY <1>1, <1>8
<1>10. PICK rs : rs = runs \o GapTo(l, r, i, j)
  OBVIOUS
<1>11. Built(GoodRuns, rs, <<0, 0>>, <<i, j>>)
  <2>1. Built(GoodRuns, runs, <<0, 0>>, <<l, r>>)
    BY DEF Building
  <2>2. QED
    BY <1>7, <1>9, <1>10, <2>1, AddGap DEF GapTo
<1>12. Built(GoodRuns, WithOne(rs, i, j), <<0, 0>>, <<i + 1, j + 1>>)
  BY <1>5, <1>9, <1>11, AddEqual
<1>13. ASSUME NEW k \in (next+1)..n PROVE i + 1 <= ms[k][1] /\ j + 1 <= ms[k][2]
  <2>1. k \in 1..n /\ next < k
    BY <1>4
  <2>2. ms[next][1] < ms[k][1] /\ ms[next][2] < ms[k][2]
    BY <1>2, <1>4, <2>1 DEF Climbs
  <2>3. PICK e \in SameText : e = ms[k]
    BY <1>2, <1>3, <2>1, ElementOfSeq
  <2>4. e[1] \in Nat /\ e[2] \in Nat
    BY <1>3
  <2>5. i < e[1] /\ j < e[2]
    BY <1>6, <2>2, <2>3
  <2>6. i + 1 <= e[1] /\ j + 1 <= e[2]
    BY <2>4, <2>5
  <2>7. QED
    BY <2>3, <2>6
<1>14. next + 1 \in Nat \ {0} /\ next + 1 <= n + 1
  BY <1>4
<1>15. Far[1] = Len(left) /\ Far[2] = Len(right)
  BY DEF Far
<1>16. Building(GoodRuns, Far, WithOne(rs, i, j), i + 1, j + 1, next + 1, ms)
  BY <1>2, <1>9, <1>12, <1>13, <1>14, <1>15 DEF Building
<1>17. QED
  BY <1>6, <1>10, <1>16

LEMMA BuildRest ==
    ASSUME left \in Seq(Nat), right \in Seq(Nat), NEW ms,
           NEW runs, NEW l, NEW r, NEW next, Building(GoodRuns, Far, runs, l, r, next, ms)
    PROVE  Built(GoodRuns, runs \o GapTo(l, r, Len(left), Len(right)), <<0, 0>>, Far)
<1>1. PICK M \in Nat, N \in Nat : M = Len(left) /\ N = Len(right)
  BY LenProperties
<1>2. /\ l \in Nat /\ r \in Nat /\ l <= M /\ r <= N
      /\ Built(GoodRuns, runs, <<0, 0>>, <<l, r>>)
  BY <1>1 DEF Building, Far
<1>3. M <= Len(left) /\ N <= Len(right)
  BY <1>1
<1>4. Built(GoodRuns, runs \o GapTo(l, r, M, N), <<0, 0>>, <<M, N>>)
  BY <1>2, <1>3, AddGap DEF GapTo
<1>5. QED
  BY <1>1, <1>4 DEF Far

LEMMA GroupBegins ==
    ASSUME NEW runs, Built(GoodRuns, runs, <<0, 0>>, Far)
    PROVE  Grouped(SameText, GoodRuns, Far, runs, 1, << >>, << >>) /\ 1 \in 1..Len(runs)+1
<1>1. runs \in Seq(GoodRuns)
  BY DEF Built, Leads
<1>2. PICK n \in Nat : n = Len(runs) /\ (n = 0 <=> runs = << >>)
  BY <1>1, EmptySeq, LenProperties
<1>3. PICK s : s = <<0, 0>> /\ s \in Nat \X Nat
  OBVIOUS
<1>4. Corner(Far, runs, 1) = s
  <2>1. CASE n = 0
    <3>1. ~(1 <= n) /\ Far = s
      BY <1>2, <1>3, <2>1 DEF Built, Leads
    <3>2. QED
      BY <1>2, <3>1 DEF Corner
  <2>2. CASE n # 0
    <3>1. 1 <= n /\ Begins(runs[1]) = s
      BY <1>2, <1>3, <2>2 DEF Built, Leads
    <3>2. QED
      BY <1>2, <3>1 DEF Corner
  <2>3. QED
    BY <2>1, <2>2
<1>5. Slides(SameText, s, s)
  BY <1>3, Stays
<1>6. Leads(GoodRuns, << >>, s, s)
  BY NothingBuilt DEF Built
<1>7. Finish(<< >>, Len(<< >>)) = s
  BY <1>3, EmptySeq DEF Finish
<1>8. Hunked(SameText, GoodRuns, << >>)
  BY EmptySeq DEF Hunked
<1>9. ~(1 < 1)
  OBVIOUS
<1>10. Holds(SameText, GoodRuns, Far, runs, 1, << >>, << >>, s, s)
  BY <1>4, <1>5, <1>6, <1>7, <1>8, <1>9 DEF Holds
<1>11. 1 \in 1..Len(runs)+1
  BY <1>2
<1>12. QED
  BY <1>3, <1>10, <1>11 DEF Grouped

-----------------------------------------------------------------------------
(* The result, step by step.                                                *)

BuildIInv ==
    /\ Building(GoodRuns, Far, script.runs, script.left, script.right, script.next, Matches)
    /\ open = << >> /\ hunks = << >>
GroupIInv ==
    /\ Built(GoodRuns, script.runs, <<0, 0>>, Far)
    /\ script.next \in 1..Len(script.runs)+1
    /\ Grouped(SameText, GoodRuns, Far, script.runs, script.next, open, hunks)
ResultIInv ==
    /\ script = [runs |-> script.runs, left |-> script.left, right |-> script.right, next |-> script.next]
    /\ pc \notin {"build", "group", "done"} =>
          /\ script = [runs |-> << >>, left |-> 0, right |-> 0, next |-> 1]
          /\ open = << >> /\ hunks = << >>
    /\ pc = "build" => BuildIInv
    /\ pc = "group" => GroupIInv
    /\ pc = "done" => Whole(hunks)

LEMMA StillText ==
    ASSUME UNCHANGED input
    PROVE  SameText' = SameText /\ GoodRuns' = GoodRuns /\ Far' = Far
<1>1. left' = left /\ right' = right
  BY DEF input
<1>2. SameText' = SameText /\ Far' = Far
  BY <1>1 DEF SameText, Far, L, R
<1>3. QED
  BY <1>1, <1>2 DEF GoodRuns

LEMMA StillMatches ==
    ASSUME UNCHANGED <<input, lines>>, out' = out
    PROVE  Matches' = Matches
<1>1. left' = left /\ right' = right /\ trimmed' = trimmed /\ a' = a /\ b' = b /\ out' = out
  BY DEF input, lines
<1>2. QED
  BY <1>1 DEF Matches

LEMMA BuildStep ==
    ASSUME LinesIInv, Climbs(out, SameLines, 0, 0, Len(a), Len(b)), BuildIInv, AddMatch
    PROVE  BuildIInv' /\ script' = [runs |-> script'.runs, left |-> script'.left, right |-> script'.right, next |-> script'.next]
<1>1. UNCHANGED <<input, lines>> /\ out' = out /\ open' = open /\ hunks' = hunks
  BY DEF AddMatch, alignment
<1>2. GoodRuns' = GoodRuns /\ Far' = Far /\ Matches' = Matches
  BY <1>1, StillText, StillMatches
<1>3. PICK ms : ms = Matches
  OBVIOUS
<1>4. Climbs(ms, SameText, 0, 0, Len(left), Len(right))
  BY <1>3, MatchesClimb
<1>5. PICK rs, l, r, k : rs = script.runs /\ l = script.left /\ r = script.right /\ k = script.next
  OBVIOUS
<1>6. Building(GoodRuns, Far, rs, l, r, k, ms) /\ k <= Len(ms)
  BY <1>3, <1>5 DEF BuildIInv, AddMatch
<1>7. Building(GoodRuns, Far, WithOne(rs \o GapTo(l, r, ms[k][1], ms[k][2]), ms[k][1], ms[k][2]),
               ms[k][1] + 1, ms[k][2] + 1, k + 1, ms)
  BY <1>4, <1>6, BuildMatch DEF LinesIInv
<1>8. script' = [runs |-> WithOne(rs \o GapTo(l, r, ms[k][1], ms[k][2]), ms[k][1], ms[k][2]),
                 left |-> ms[k][1] + 1, right |-> ms[k][2] + 1, next |-> k + 1]
  BY <1>3, <1>5 DEF AddMatch, Equal, Gap, WithOne, GapTo
<1>9. Building(GoodRuns, Far, script'.runs, script'.left, script'.right, script'.next, ms)
  BY <1>7, <1>8
<1>10. open' = << >> /\ hunks' = << >>
  BY <1>1 DEF BuildIInv
<1>11. QED
  BY <1>2, <1>3, <1>8, <1>9, <1>10 DEF BuildIInv

LEMMA RestStep ==
    ASSUME LinesIInv, BuildIInv, AddRest
    PROVE  GroupIInv' /\ script' = [runs |-> script'.runs, left |-> script'.left, right |-> script'.right, next |-> script'.next]
<1>1. UNCHANGED input /\ open' = << >> /\ hunks' = << >>
  BY DEF AddRest, BuildIInv
<1>2. GoodRuns' = GoodRuns /\ Far' = Far /\ SameText' = SameText
  BY <1>1, StillText
<1>3. PICK rs, l, r : rs = script.runs /\ l = script.left /\ r = script.right
  OBVIOUS
<1>4. PICK rs2 : rs2 = rs \o GapTo(l, r, Len(left), Len(right))
  OBVIOUS
<1>5. Built(GoodRuns, rs2, <<0, 0>>, Far)
  BY <1>3, <1>4, BuildRest DEF BuildIInv, LinesIInv
<1>6. script' = [runs |-> rs2, left |-> Len(left), right |-> Len(right), next |-> 1]
  BY <1>3, <1>4 DEF AddRest, Gap, GapTo
<1>7. Grouped(SameText, GoodRuns, Far, rs2, 1, << >>, << >>) /\ 1 \in 1..Len(rs2)+1
  BY <1>5, GroupBegins
<1>8. script'.runs = rs2 /\ script'.next = 1
  BY <1>6
<1>9. QED
  BY <1>1, <1>2, <1>5, <1>6, <1>7, <1>8 DEF GroupIInv

LEMMA GroupStep ==
    ASSUME LinesIInv, ContextLines \in Nat, GroupIInv, GroupRun,
           script = [runs |-> script.runs, left |-> script.left, right |-> script.right, next |-> script.next]
    PROVE  GroupIInv' /\ script' = [runs |-> script'.runs, left |-> script'.left, right |-> script'.right, next |-> script'.next]
<1>1. UNCHANGED input
  BY DEF GroupRun
<1>2. GoodRuns' = GoodRuns /\ Far' = Far /\ SameText' = SameText
  BY <1>1, StillText
<1>3. PICK rs, l, r, k, os, hs :
        rs = script.runs /\ l = script.left /\ r = script.right /\ k = script.next /\ os = open /\ hs = hunks
  OBVIOUS
<1>4. script' = [runs |-> rs, left |-> l, right |-> r, next |-> k + 1]
  <2>1. script = [runs |-> rs, left |-> l, right |-> r, next |-> k]
    BY <1>3
  <2>2. script' = [script EXCEPT !.next = @ + 1]
    BY DEF GroupRun
  <2>3. QED
    BY <2>1, <2>2
<1>5. Built(GoodRuns, rs, <<0, 0>>, Far) /\ rs \in Seq(GoodRuns)
  BY <1>3 DEF GroupIInv, Built, Leads
<1>6. PICK n \in Nat : n = Len(rs)
  BY <1>5, LenProperties
<1>7. k \in 1..n
  BY <1>3, <1>6 DEF GroupIInv, GroupRun
<1>8. Before(rs, k, os, hs)
  BY <1>3, <1>5, <1>6, <1>7 DEF Before, GroupIInv, LinesIInv
<1>9. PICK run : run = rs[k]
  OBVIOUS
<1>10. Group(run, k = 1, k = n)
  BY <1>3, <1>6, <1>9 DEF GroupRun
<1>11. Grouped(SameText, GoodRuns, Far, rs, k + 1, open', hunks')
  <2>1. CASE run.op # "equal" \/ (k # 1 /\ k # n /\ run.count <= 2 * ContextLines)
    <3>1. open' = Append(os, run) /\ hunks' = hs
      BY <1>3, <1>10, <2>1 DEF Group
    <3>2. rs[k].op # "equal" \/ (k # 1 /\ k # Len(rs))
      BY <1>6, <1>9, <2>1
    <3>3. Grouped(SameText, GoodRuns, Far, rs, k + 1, Append(os, rs[k]), hs)
      BY <1>8, <3>2, GroupKeeps
    <3>4. QED
      BY <1>9, <3>1, <3>3
  <2>2. CASE run.op = "equal" /\ k = 1 /\ k = n
    <3>1. open' = os /\ hunks' = hs
      BY <1>3, <1>10, <2>2 DEF Group
    <3>2. Grouped(SameText, GoodRuns, Far, rs, 2, os, hs)
      <4>1. Before(rs, 1, os, hs) /\ rs[1].op = "equal" /\ Len(rs) = 1
        BY <1>6, <1>8, <1>9, <2>2
      <4>2. QED
        BY <4>1, GroupWhole
    <3>3. QED
      BY <2>2, <3>1, <3>2, 1 + 1 = 2
  <2>3. CASE run.op = "equal" /\ k = 1 /\ k # n
    <3>1. open' = <<TailOf(run)>> /\ hunks' = hs
      BY <1>3, <1>10, <2>3 DEF Group, AfterLong
    <3>2. Grouped(SameText, GoodRuns, Far, rs, 2, <<TailOf(rs[1])>>, hs)
      <4>1. Before(rs, 1, os, hs) /\ rs[1].op = "equal" /\ Len(rs) # 1
        BY <1>6, <1>8, <1>9, <2>3
      <4>2. QED
        BY <4>1, GroupFirst
    <3>3. QED
      BY <1>9, <2>3, <3>1, <3>2, 1 + 1 = 2
  <2>4. CASE run.op = "equal" /\ k # 1 /\ k = n
    <3>1. open' = Append(os, HeadOf(run)) /\ hunks' = hs
      BY <1>3, <1>10, <2>4 DEF Group
    <3>2. Grouped(SameText, GoodRuns, Far, rs, k + 1, Append(os, HeadOf(rs[k])), hs)
      <4>1. rs[k].op = "equal" /\ k # 1 /\ k = Len(rs)
        BY <1>6, <1>9, <2>4
      <4>2. QED
        BY <1>8, <4>1, GroupLast
    <3>3. QED
      BY <1>9, <3>1, <3>2
  <2>5. CASE run.op = "equal" /\ k # 1 /\ k # n /\ ~(run.count <= 2 * ContextLines)
    <3>1. open' = <<TailOf(run)>> /\ hunks' = Append(hs, Hunk(Append(os, HeadOf(run))))
      BY <1>3, <1>10, <2>5 DEF Group, AfterLong
    <3>2. run.count > 2 * ContextLines
      <4>1. run \in RunType
        BY <1>5, <1>6, <1>7, <1>9, ElementOfSeq, GoodIsRun
      <4>2. PICK c \in Nat : c = run.count
        BY <4>1, RunIs
      <4>3. QED
        BY <2>5, <4>2
    <3>3. Grouped(SameText, GoodRuns, Far, rs, k + 1, <<TailOf(rs[k])>>, Append(hs, Hunk(Append(os, HeadOf(rs[k])))))
      <4>1. rs[k].op = "equal" /\ k # 1 /\ k # Len(rs) /\ rs[k].count > 2 * ContextLines
        BY <1>6, <1>9, <2>5, <3>2
      <4>2. QED
        BY <1>8, <4>1, GroupBetween
    <3>4. QED
      BY <1>9, <3>1, <3>3
  <2>6. QED
    BY <2>1, <2>2, <2>3, <2>4, <2>5
<1>12. script'.runs = rs /\ script'.next = k + 1 /\ k + 1 \in 1..Len(rs)+1
  BY <1>4, <1>6, <1>7
<1>13. QED
  BY <1>2, <1>4, <1>5, <1>11, <1>12 DEF GroupIInv

LEMMA RestHunk ==
    ASSUME GroupIInv, GroupRest
    PROVE  Whole(hunks)' /\ script' = script
<1>1. UNCHANGED input /\ script' = script
  BY DEF GroupRest
<1>2. GoodRuns' = GoodRuns /\ Far' = Far /\ SameText' = SameText
  BY <1>1, StillText
<1>3. PICK rs, k, os, hs : rs = script.runs /\ k = script.next /\ os = open /\ hs = hunks
  OBVIOUS
<1>4. rs \in Seq(GoodRuns) /\ Grouped(SameText, GoodRuns, Far, rs, k, os, hs)
  BY <1>3 DEF GroupIInv, Built, Leads
<1>5. k \in Nat /\ k > Len(rs)
  BY <1>3, <1>4, LenProperties DEF GroupIInv, GroupRest
<1>6. Whole(IF os = << >> THEN hs ELSE Append(hs, Hunk(os)))
  BY <1>4, <1>5, GroupEnds
<1>7. hunks' = IF os = << >> THEN hs ELSE Append(hs, Hunk(os))
  BY <1>3 DEF GroupRest
<1>8. PICK hs2 : hs2 = IF os = << >> THEN hs ELSE Append(hs, Hunk(os))
  OBVIOUS
<1>9. Whole(hs2) /\ hunks' = hs2
  BY <1>6, <1>7, <1>8
<1>10. QED
  BY <1>1, <1>2, <1>9 DEF Whole

LEMMA ResultNext ==
    ASSUME LinesIInv, AlignIInv, ResultIInv, ContextLines \in Nat, [Next]_vars
    PROVE  ResultIInv'
<1>1. CASE Script \/ EmitMatch \/ Trim \/ BeginBisect \/ OutOfEffort \/ Round \/ Turn \/ RoundEnds
           \/ BeginAnchor \/ AnchorPair
  <2>1. /\ pc \notin {"build", "group", "done"} /\ pc' \notin {"build", "group", "done"}
        /\ script' = script /\ open' = open /\ hunks' = hunks
    BY <1>1 DEF Script, EmitMatch, Trim, BeginBisect, OutOfEffort, Round, Turn, RoundEnds, BeginAnchor, AnchorPair,
        Aligning, Wide, Splitting, Bisecting, Search, Unsearched, result
  <2>2. QED
    BY <2>1 DEF ResultIInv
<1>2. CASE SplitLine \/ NoCommonLine \/ Plain \/ AnchorSplit
  <2>1. /\ pc \notin {"build", "group", "done"} /\ pc' \notin {"build", "group", "done"}
        /\ script' = script /\ open' = open /\ hunks' = hunks
    BY <1>2 DEF SplitLine, NoCommonLine, Plain, AnchorSplit, Into, Wide, Splitting, Bisecting, Unsearched, result
  <2>2. QED
    BY <2>1 DEF ResultIInv
<1>3. CASE Forward \/ Backward
  <2>1. pc = "bisect"
    BY <1>3 DEF Forward, Backward, Bisecting
  <2>2. (\E m : Search(m)) \/ (\E px, py : SplitAt(px, py))
    BY <1>3 DEF Forward, Backward
  <2>3. pc' \in {pc, "align", "panic"} /\ script' = script /\ open' = open /\ hunks' = hunks
    BY <2>2 DEF Search, SplitAt, Into, result
  <2>4. /\ pc \notin {"build", "group", "done"} /\ pc' \notin {"build", "group", "done"}
    BY <2>1, <2>3
  <2>5. QED
    BY <2>3, <2>4 DEF ResultIInv
<1>4. CASE Aligned
  <2>1. /\ pc = "align" /\ pc' = "build" /\ stack = << >> /\ UNCHANGED <<input, lines>> /\ out' = out
        /\ script' = script /\ open' = open /\ hunks' = hunks
    BY <1>4 DEF Aligned, alignment, result
  <2>2. Climbs(out, SameLines, 0, 0, Len(a), Len(b))' /\ LinesIInv'
    <3>1. AlignIInv' /\ LinesIInv'
      BY AlignNext
    <3>2. QED
      BY <2>1, <3>1 DEF AlignIInv
  <2>3. PICK ms : ms = Matches
    OBVIOUS
  <2>4. Climbs(ms, SameText, 0, 0, Len(left), Len(right))
    <3>1. Climbs(out, SameLines, 0, 0, Len(a), Len(b))
      BY <2>1, <2>2, StillSame
    <3>2. QED
      BY <2>3, <3>1, MatchesClimb
  <2>5. GoodRuns' = GoodRuns /\ Far' = Far /\ Matches' = ms
    BY <2>1, <2>3, StillText, StillMatches
  <2>6. Building(GoodRuns, Far, << >>, 0, 0, 1, ms)
    <3>1. PICK M \in Nat, N \in Nat : M = Len(left) /\ N = Len(right)
      BY LenProperties DEF LinesIInv
    <3>2. 0 \in Nat /\ 0 <= Far[1] /\ 0 <= Far[2]
      BY <3>1 DEF Far
    <3>3. PICK n \in Nat : n = Len(ms)
      BY <2>4, LenProperties DEF Climbs
    <3>4. 1 \in Nat \ {0} /\ 1 <= Len(ms) + 1
      BY <3>3
    <3>5. \A i \in 1..Len(ms) : 0 <= ms[i][1] /\ 0 <= ms[i][2]
      BY <2>4 DEF Climbs
    <3>6. Built(GoodRuns, << >>, <<0, 0>>, <<0, 0>>)
      BY NothingBuilt
    <3>7. QED
      BY <3>2, <3>4, <3>5, <3>6 DEF Building
  <2>7. /\ script' = [runs |-> << >>, left |-> 0, right |-> 0, next |-> 1]
        /\ open' = << >> /\ hunks' = << >>
    BY <2>1 DEF ResultIInv
  <2>8. script'.runs = << >> /\ script'.left = 0 /\ script'.right = 0 /\ script'.next = 1
    BY <2>7
  <2>9. BuildIInv'
    BY <2>5, <2>6, <2>7, <2>8 DEF BuildIInv
  <2>10. QED
    BY <2>1, <2>7, <2>8, <2>9 DEF ResultIInv
<1>5. CASE AddMatch
  <2>1. pc = "build" /\ pc' = "build"
    BY <1>5 DEF AddMatch
  <2>2. BuildIInv /\ Climbs(out, SameLines, 0, 0, Len(a), Len(b))
    BY <2>1 DEF ResultIInv, AlignIInv
  <2>3. QED
    BY <1>5, <2>1, <2>2, BuildStep DEF ResultIInv
<1>6. CASE AddRest
  <2>1. pc = "build" /\ pc' = "group"
    BY <1>6 DEF AddRest
  <2>2. BuildIInv
    BY <2>1 DEF ResultIInv
  <2>3. QED
    BY <1>6, <2>1, <2>2, RestStep DEF ResultIInv
<1>7. CASE GroupRun
  <2>1. pc = "group" /\ pc' = "group"
    BY <1>7 DEF GroupRun
  <2>2. /\ GroupIInv
        /\ script = [runs |-> script.runs, left |-> script.left, right |-> script.right, next |-> script.next]
    BY <2>1 DEF ResultIInv
  <2>3. QED
    BY <1>7, <2>1, <2>2, GroupStep DEF ResultIInv
<1>8. CASE GroupRest
  <2>1. pc = "group" /\ pc' = "done"
    BY <1>8 DEF GroupRest
  <2>2. GroupIInv
    BY <2>1 DEF ResultIInv
  <2>3. Whole(hunks)' /\ script' = script
    BY <1>8, <2>2, RestHunk
  <2>4. QED
    BY <2>1, <2>3 DEF ResultIInv
<1>9. CASE UNCHANGED vars
  <2>1. /\ UNCHANGED <<input, lines>> /\ out' = out /\ pc' = pc
        /\ script' = script /\ open' = open /\ hunks' = hunks
    BY <1>9 DEF vars, alignment, result
  <2>2. GoodRuns' = GoodRuns /\ Far' = Far /\ SameText' = SameText /\ Matches' = Matches
    BY <2>1, StillText, StillMatches
  <2>3. BuildIInv' = BuildIInv
    BY <2>1, <2>2 DEF BuildIInv
  <2>4. GroupIInv' = GroupIInv
    BY <2>1, <2>2 DEF GroupIInv
  <2>5. Whole(hunks)' = Whole(hunks)
    BY <2>1, <2>2 DEF Whole
  <2>6. QED
    BY <2>1, <2>3, <2>4, <2>5 DEF ResultIInv
<1>10. QED
  BY <1>1, <1>2, <1>3, <1>4, <1>5, <1>6, <1>7, <1>8, <1>9 DEF Next

-----------------------------------------------------------------------------
(* What the hunks say.                                                      *)

\* The lines that a run shows of one side.
LineOf(run, i) == IF run.op = "insert" THEN R(run.right + i - 1) ELSE L(run.left + i - 1)
LinesOf(run, ops) == IF run.op \in ops THEN [i \in 1..run.count |-> LineOf(run, i)] ELSE << >>

\* One run shows a part of the left state, or of the right one.
LEMMA RunShows ==
    ASSUME left \in Seq(Nat), right \in Seq(Nat), NEW run \in GoodRuns
    PROVE  /\ LinesOf(run, {"equal", "delete"}) = SubSeq(left, Begins(run)[1] + 1, Finishes(run)[1])
           /\ LinesOf(run, {"equal", "insert"}) = SubSeq(right, Begins(run)[2] + 1, Finishes(run)[2])
           /\ LinesOf(run, {"equal", "delete"}) \in Seq(Nat)
           /\ LinesOf(run, {"equal", "insert"}) \in Seq(Nat)
           /\ Begins(run)[1] \in Nat /\ Begins(run)[2] \in Nat
           /\ Finishes(run)[1] \in Nat /\ Finishes(run)[2] \in Nat
           /\ Begins(run)[1] <= Finishes(run)[1] /\ Finishes(run)[1] <= Len(left)
           /\ Begins(run)[2] <= Finishes(run)[2] /\ Finishes(run)[2] <= Len(right)
<1>1. PICK M \in Nat, N \in Nat : M = Len(left) /\ N = Len(right)
  BY LenProperties
<1>2. (\A i \in 1..M : left[i] \in Nat) /\ (\A i \in 1..N : right[i] \in Nat)
  BY <1>1, ElementOfSeq
<1>3. run \in RunType
  BY GoodIsRun
<1>4. PICK l \in Nat, r \in Nat, n \in Nat : l = run.left /\ r = run.right /\ n = run.count
  BY <1>3, RunIs
<1>5. /\ run.op \in {"equal", "delete", "insert"}
      /\ run.op = "equal" => Finishes(run) = <<l + n, r + n>>
      /\ run.op = "delete" => Finishes(run) = <<l + n, r>>
      /\ run.op = "insert" => Finishes(run) = <<l, r + n>>
      /\ Begins(run) = <<l, r>>
  <2>1. /\ run.op \in {"equal", "delete", "insert"}
        /\ run.op = "equal" => Finishes(run) = <<run.left + run.count, run.right + run.count>>
        /\ run.op = "delete" => Finishes(run) = <<run.left + run.count, run.right>>
        /\ run.op = "insert" => Finishes(run) = <<run.left, run.right + run.count>>
    BY <1>3, RunIs
  <2>2. QED
    BY <1>4, <2>1 DEF Begins
<1>6. Finishes(run)[1] <= M /\ Finishes(run)[2] <= N
  BY <1>1 DEF GoodRuns
<1>7. SubSeq(left, l + 1, l + 0) = << >> /\ SubSeq(right, r + 1, r + 0) = << >>
  <2>1. /\ 0 \in Nat /\ << >> \in Seq(Nat) /\ Len(<< >>) = 0
        /\ (\A x1 \in 1..0 : left[l + x1] = << >>[x1]) /\ (\A x1 \in 1..0 : right[r + x1] = << >>[x1])
    BY EmptySeq
  <2>2. l + 0 <= Len(left) /\ r + 0 <= Len(right)
    BY <1>1, <1>4, <1>5, <1>6
  <2>3. QED
    BY <2>1, <2>2, PartIs
<1>8. l + 0 = l /\ r + 0 = r /\ l <= l + n /\ r <= r + n /\ l <= l /\ r <= r /\ l + n \in Nat /\ r + n \in Nat
  OBVIOUS
<1>9. PICK f : f = [i \in 1..n |-> LineOf(run, i)]
  OBVIOUS
<1>10. ASSUME run.op # "insert" PROVE f \in Seq(Nat) /\ SubSeq(left, l + 1, l + n) = f
  <2>1. l + n <= M
    BY <1>5, <1>6, <1>10
  <2>2. ASSUME NEW i \in 1..n PROVE f[i] = left[l + i] /\ left[l + i] \in Nat
    <3>1. (l + i - 1) + 1 = l + i /\ l + i \in 1..M
      BY <2>1
    <3>2. LineOf(run, i) = L(l + i - 1)
      BY <1>4, <1>10 DEF LineOf
    <3>3. QED
      BY <1>2, <1>9, <3>1, <3>2 DEF L
  <2>3. f \in Seq(Nat) /\ Len(f) = n
    <3>1. \A i \in 1..n : LineOf(run, i) \in Nat
      BY <1>9, <2>2
    <3>2. [i \in 1..n |-> LineOf(run, i)] \in Seq(Nat) /\ Len([i \in 1..n |-> LineOf(run, i)]) = n
      BY <3>1
    <3>3. QED
      BY <1>9, <3>2
  <2>4. QED
    BY <1>1, <2>1, <2>2, <2>3, PartIs
<1>11. ASSUME run.op # "delete" PROVE f \in Seq(Nat) /\ SubSeq(right, r + 1, r + n) = f
  <2>1. r + n <= N
    BY <1>5, <1>6, <1>11
  <2>2. ASSUME NEW i \in 1..n PROVE f[i] = right[r + i] /\ right[r + i] \in Nat
    <3>1. (r + i - 1) + 1 = r + i /\ r + i \in 1..N
      BY <2>1
    <3>2. LineOf(run, i) = R(r + i - 1)
      <4>1. CASE run.op = "insert"
        BY <1>4, <4>1 DEF LineOf
      <4>2. CASE run.op = "equal"
        <5>1. Alike(SameText, l, r, n)
          BY <1>4, <4>2 DEF GoodRuns
        <5>2. i - 1 \in 0..n-1 /\ l + (i - 1) = l + i - 1 /\ r + (i - 1) = r + i - 1
          OBVIOUS
        <5>3. <<l + i - 1, r + i - 1>> \in SameText
          BY <5>1, <5>2 DEF Alike
        <5>4. L(l + i - 1) = R(r + i - 1)
          BY <5>3 DEF SameText
        <5>5. QED
          BY <1>4, <4>2, <5>4 DEF LineOf
      <4>3. QED
        BY <1>5, <1>11, <4>1, <4>2
    <3>3. QED
      BY <1>2, <1>9, <3>1, <3>2 DEF R
  <2>3. f \in Seq(Nat) /\ Len(f) = n
    <3>1. \A i \in 1..n : LineOf(run, i) \in Nat
      BY <1>9, <2>2
    <3>2. [i \in 1..n |-> LineOf(run, i)] \in Seq(Nat) /\ Len([i \in 1..n |-> LineOf(run, i)]) = n
      BY <3>1
    <3>3. QED
      BY <1>9, <3>2
  <2>4. QED
    BY <1>1, <2>1, <2>2, <2>3, PartIs
<1>12. << >> \in Seq(Nat)
  BY EmptySeq
<1>13. CASE run.op = "equal"
  <2>1. LinesOf(run, {"equal", "delete"}) = f /\ LinesOf(run, {"equal", "insert"}) = f
    BY <1>4, <1>9, <1>13 DEF LinesOf
  <2>2. /\ Finishes(run)[1] = l + n /\ Finishes(run)[2] = r + n
        /\ Begins(run)[1] = l /\ Begins(run)[2] = r
    BY <1>5, <1>13
  <2>3. f = SubSeq(left, l + 1, l + n) /\ f = SubSeq(right, r + 1, r + n) /\ f \in Seq(Nat)
    BY <1>10, <1>11, <1>13
  <2>4. l + n <= Len(left) /\ r + n <= Len(right)
    BY <1>1, <1>6, <2>2
  <2>5. QED
    BY <1>8, <2>1, <2>2, <2>3, <2>4
<1>14. CASE run.op = "delete"
  <2>1. LinesOf(run, {"equal", "delete"}) = f /\ LinesOf(run, {"equal", "insert"}) = << >>
    BY <1>4, <1>9, <1>14 DEF LinesOf
  <2>2. QED
    BY <1>1, <1>5, <1>6, <1>7, <1>8, <1>10, <1>12, <1>14, <2>1
<1>15. CASE run.op = "insert"
  <2>1. LinesOf(run, {"equal", "delete"}) = << >> /\ LinesOf(run, {"equal", "insert"}) = f
    BY <1>4, <1>9, <1>15 DEF LinesOf
  <2>2. QED
    BY <1>1, <1>5, <1>6, <1>7, <1>8, <1>11, <1>12, <1>15, <2>1
<1>16. QED
  BY <1>5, <1>13, <1>14, <1>15

\* What runs show, one behind the other, is a part of a state.
LEMMA RunsShow ==
    ASSUME left \in Seq(Nat), right \in Seq(Nat), NEW runs, NEW s \in Nat \X Nat, NEW e, Leads(GoodRuns, runs, s, e),
           runs # << >>
    PROVE  /\ FlattenSeq([n \in DOMAIN runs |-> LinesOf(runs[n], {"equal", "delete"})]) = SubSeq(left, s[1] + 1, e[1])
           /\ FlattenSeq([n \in DOMAIN runs |-> LinesOf(runs[n], {"equal", "insert"})]) = SubSeq(right, s[2] + 1, e[2])
           /\ s[1] <= Len(left) /\ s[2] <= Len(right)
<1>1. runs \in Seq(GoodRuns)
  BY DEF Leads
<1>2. PICK n \in Nat : n = Len(runs) /\ n # 0 /\ DOMAIN runs = 1..n
  BY <1>1, EmptySeq, LenProperties
<1>3. PICK M \in Nat, N \in Nat : M = Len(left) /\ N = Len(right)
  BY LenProperties
<1>4. PICK u \in Nat, v \in Nat : s = <<u, v>>
  OBVIOUS
<1>5. PICK f : f = [i \in 1..n |-> LinesOf(runs[i], {"equal", "delete"})]
  OBVIOUS
<1>6. PICK g : g = [i \in 1..n |-> LinesOf(runs[i], {"equal", "insert"})]
  OBVIOUS
<1>7. \A k \in 1..n : Onward(GoodRuns, s, runs, k)
  BY <1>2, RunsAreTyped, Reaches
\* The corner of each run, on either side.
<1>8. PICK c : c = [k \in 0..n |-> Reach(s, runs, k)]
  OBVIOUS
<1>9. ASSUME NEW k \in 1..n
      PROVE  /\ c[k-1] = Begins(runs[k]) /\ c[k] = Finishes(runs[k]) /\ runs[k] \in GoodRuns
             /\ f[k] = SubSeq(left, c[k-1][1] + 1, c[k][1]) /\ f[k] \in Seq(Nat)
             /\ g[k] = SubSeq(right, c[k-1][2] + 1, c[k][2]) /\ g[k] \in Seq(Nat)
             /\ c[k-1][1] \in Nat /\ c[k-1][2] \in Nat /\ c[k][1] \in Nat /\ c[k][2] \in Nat
             /\ c[k-1][1] <= c[k][1] /\ c[k][1] <= M /\ c[k-1][2] <= c[k][2] /\ c[k][2] <= N
  <2>1. k \in 0..n /\ k - 1 \in 0..n
    OBVIOUS
  <2>2. PICK run \in GoodRuns : run = runs[k] /\ c[k-1] = Begins(run) /\ c[k] = Finishes(run)
    BY <1>7, <1>8, <2>1 DEF Onward
  <2>3. f[k] = LinesOf(run, {"equal", "delete"}) /\ g[k] = LinesOf(run, {"equal", "insert"})
    BY <1>5, <1>6, <2>2
  <2>4. QED
    BY <1>3, <2>2, <2>3, RunShows
<1>10. f \in Seq(Seq(Nat)) /\ Len(f) = n /\ g \in Seq(Seq(Nat)) /\ Len(g) = n
  <2>1. \A k \in 1..n : LinesOf(runs[k], {"equal", "delete"}) \in Seq(Nat)
    BY <1>5, <1>9
  <2>2. \A k \in 1..n : LinesOf(runs[k], {"equal", "insert"}) \in Seq(Nat)
    BY <1>6, <1>9
  <2>3. QED
    BY <1>5, <1>6, <2>1, <2>2
<1>11. PICK p : Flattens(p, f, Nat)
  BY <1>10, FlattenRuns
<1>12. PICK q : Flattens(q, g, Nat)
  BY <1>10, FlattenRuns
<1>13. /\ p[0] = << >> /\ FlattenSeq(f) = p[n] /\ \A k \in 1..n : p[k] = p[k-1] \o f[k]
       /\ q[0] = << >> /\ FlattenSeq(g) = q[n] /\ \A k \in 1..n : q[k] = q[k-1] \o g[k]
  BY <1>10, <1>11, <1>12 DEF Flattens
<1>14. c[0] = <<u, v>> /\ c[0][1] = u /\ c[0][2] = v
  BY <1>4, <1>8 DEF Reach
<1>15. u <= M /\ v <= N
  <2>1. 1 \in 1..n /\ 1 - 1 = 0
    BY <1>2
  <2>2. c[0][1] <= c[1][1] /\ c[1][1] <= M /\ c[0][2] <= c[1][2] /\ c[1][2] <= N /\ c[1][1] \in Nat /\ c[1][2] \in Nat
    BY <1>9, <2>1
  <2>3. QED
    BY <1>14, <2>2
<1> DEFINE S == {k \in 0..n : /\ c[k][1] \in u..M /\ p[k] = SubSeq(left, u + 1, c[k][1])
                              /\ c[k][2] \in v..N /\ q[k] = SubSeq(right, v + 1, c[k][2])}
<1>16. 0 \in S
  <2>1. SubSeq(left, u + 1, u + 0) = << >> /\ SubSeq(right, v + 1, v + 0) = << >>
    <3>1. /\ 0 \in Nat /\ << >> \in Seq(Nat) /\ Len(<< >>) = 0
          /\ (\A x1 \in 1..0 : left[u + x1] = << >>[x1]) /\ (\A x1 \in 1..0 : right[v + x1] = << >>[x1])
      BY EmptySeq
    <3>2. u + 0 <= Len(left) /\ v + 0 <= Len(right)
      BY <1>3, <1>15
    <3>3. QED
      BY <3>1, <3>2, PartIs
  <2>2. u + 0 = u /\ v + 0 = v /\ u \in u..M /\ v \in v..N /\ 0 \in 0..n
    BY <1>15
  <2>3. QED
    BY <1>13, <1>14, <2>1, <2>2
<1>17. ASSUME NEW k \in 0..n-1, k \in S PROVE k + 1 \in S
  <2>1. PICK j \in 1..n : j = k + 1 /\ j - 1 = k /\ j \in 0..n
    OBVIOUS
  <2>2. PICK i1 \in Nat, i2 \in Nat, j1 \in Nat, j2 \in Nat :
          /\ i1 = c[k][1] /\ i2 = c[k][2] /\ j1 = c[j][1] /\ j2 = c[j][2]
          /\ i1 <= j1 /\ j1 <= M /\ i2 <= j2 /\ j2 <= N
          /\ f[j] = SubSeq(left, i1 + 1, j1) /\ g[j] = SubSeq(right, i2 + 1, j2)
    <3>1. /\ f[j] = SubSeq(left, c[j-1][1] + 1, c[j][1])
          /\ g[j] = SubSeq(right, c[j-1][2] + 1, c[j][2])
          /\ c[j-1][1] \in Nat /\ c[j-1][2] \in Nat /\ c[j][1] \in Nat /\ c[j][2] \in Nat
          /\ c[j-1][1] <= c[j][1] /\ c[j][1] <= M /\ c[j-1][2] <= c[j][2] /\ c[j][2] <= N
      BY <1>9
    <3>2. c[j-1] = c[k]
      BY <2>1
    <3>3. QED
      BY ONLY <3>1, <3>2
  <2>3. /\ u <= i1 /\ p[k] = SubSeq(left, u + 1, i1)
        /\ v <= i2 /\ q[k] = SubSeq(right, v + 1, i2)
    <3>1. /\ c[k][1] \in u..M /\ p[k] = SubSeq(left, u + 1, c[k][1])
          /\ c[k][2] \in v..N /\ q[k] = SubSeq(right, v + 1, c[k][2])
      BY <1>17
    <3>2. /\ i1 \in u..M /\ p[k] = SubSeq(left, u + 1, i1)
          /\ i2 \in v..N /\ q[k] = SubSeq(right, v + 1, i2)
      BY <2>2, <3>1
    <3> HIDE DEF S
    <3>3. QED
      BY <3>2
  <2>n. /\ u \in Nat /\ v \in Nat /\ i1 \in Nat /\ i2 \in Nat /\ j1 \in Nat /\ j2 \in Nat
        /\ M \in Nat /\ N \in Nat /\ M = Len(left) /\ N = Len(right)
        /\ u <= i1 /\ i1 <= j1 /\ j1 <= M /\ v <= i2 /\ i2 <= j2 /\ j2 <= N
    BY <1>3, <2>2, <2>3
  <2>4. p[j] = SubSeq(left, u + 1, i1) \o SubSeq(left, i1 + 1, j1)
    BY <1>13, <2>1, <2>2, <2>3
  <2>5. q[j] = SubSeq(right, v + 1, i2) \o SubSeq(right, i2 + 1, j2)
    BY <1>13, <2>1, <2>2, <2>3
  <2>6. SubSeq(left, u + 1, i1) \o SubSeq(left, i1 + 1, j1) = SubSeq(left, u + 1, j1)
    <3>1. u + 1 \in 1..Len(left)+1 /\ i1 \in (u+1)-1..Len(left) /\ j1 \in i1..Len(left)
      BY ONLY <2>n
    <3>2. QED
      BY <3>1, ConcatAdjacentSubSeq
  <2>7. SubSeq(right, v + 1, i2) \o SubSeq(right, i2 + 1, j2) = SubSeq(right, v + 1, j2)
    <3>1. v + 1 \in 1..Len(right)+1 /\ i2 \in (v+1)-1..Len(right) /\ j2 \in i2..Len(right)
      BY ONLY <2>n
    <3>2. QED
      BY <3>1, ConcatAdjacentSubSeq
  <2>8. j1 \in u..M /\ j2 \in v..N
    BY ONLY <2>n
  <2>9. QED
    BY <2>1, <2>2, <2>4, <2>5, <2>6, <2>7, <2>8
<1>18. n \in S
  <2> HIDE DEF S
  <2>1. 0..n \subseteq S
    BY <1>16, <1>17, UpTo
  <2>2. n \in 0..n
    OBVIOUS
  <2>3. QED
    BY <2>1, <2>2
<1>19. c[n] = e
  <2>1. Reach(s, runs, n) = e
    BY <1>2, ReachesEnd
  <2>2. n \in 0..n
    OBVIOUS
  <2>3. QED
    BY <1>8, <2>1, <2>2
<1>20. QED
  BY <1>2, <1>3, <1>4, <1>5, <1>6, <1>13, <1>15, <1>18, <1>19

\* Runs with a change count one.
LEMMA ChangesCount ==
    ASSUME NEW runs \in Seq(GoodRuns), Changes(runs)
    PROVE  Count(runs, {"delete", "insert"}) > 0
<1>1. PICK n \in Nat : n = Len(runs)
  BY LenProperties
<1>2. \A i \in 1..n : runs[i] \in GoodRuns
  BY <1>1, ElementOfSeq
<1>3. runs \in Seq(RunType)
  BY RunsAreTyped
<1>4. PICK f \in [0..n -> Nat] :
          /\ Count(runs, {"delete", "insert"}) = f[n] /\ f[0] = 0
          /\ \A i \in 1..n : f[i] = f[i-1] + Counted(runs[i], {"delete", "insert"})
  BY <1>1, <1>3, CountRuns
<1>5. PICK k \in 1..n : runs[k].op # "equal"
  BY <1>1 DEF Changes
<1>6. \A i \in 1..n : Counted(runs[i], {"delete", "insert"}) \in Nat
  <2> SUFFICES ASSUME NEW i \in 1..n PROVE Counted(runs[i], {"delete", "insert"}) \in Nat
    OBVIOUS
  <2>1. PICK run \in RunType : run = runs[i]
    BY <1>2, GoodIsRun
  <2>2. run.count \in Nat
    BY RunIs
  <2>3. QED
    BY <2>1, <2>2 DEF Counted
<1>7. Counted(runs[k], {"delete", "insert"}) > 0
  <2>1. PICK run \in GoodRuns : run = runs[k] /\ run.op # "equal"
    BY <1>2, <1>5
  <2>2. run.op \in {"equal", "delete", "insert"}
    BY GoodIsRun, RunIs
  <2>3. run.count > 0
    BY <2>1 DEF GoodRuns
  <2>4. QED
    BY <2>1, <2>2, <2>3 DEF Counted
<1> DEFINE S == {i \in 0..n : i >= k => f[i] > 0}
<1>8. 0 \in S
  OBVIOUS
<1>9. ASSUME NEW i \in 0..n-1, i \in S PROVE i + 1 \in S
  <2>1. PICK j \in 1..n : j = i + 1 /\ j - 1 = i /\ j \in 0..n /\ i \in 0..n
    OBVIOUS
  <2>2. PICK m \in Nat : m = Counted(runs[j], {"delete", "insert"})
    BY <1>6
  <2>3. f[j] = f[i] + m /\ f[i] \in Nat
    BY <1>4, <2>1, <2>2
  <2>4. j = k => m > 0
    BY <1>7, <2>2
  <2>5. i >= k => f[i] > 0
    BY <1>9
  <2>6. j >= k => f[j] > 0
    BY <2>1, <2>3, <2>4, <2>5
  <2>7. QED
    BY <2>1, <2>6
<1>10. n \in S
  <2> HIDE DEF S
  <2>1. 0..n \subseteq S
    BY <1>8, <1>9, UpTo
  <2>2. n \in 0..n
    OBVIOUS
  <2>3. QED
    BY <2>1, <2>2
<1>11. QED
  BY <1>4, <1>10

\* What lies between hunks is the same on both sides.
LEMMA SlidesSame ==
    ASSUME left \in Seq(Nat), right \in Seq(Nat), NEW p, NEW u, Slides(SameText, p, u),
           u[1] <= Len(left), u[2] <= Len(right)
    PROVE  p[1] <= u[1] /\ Slice(left, p[1], u[1]) = Slice(right, p[2], u[2])
<1>1. PICK M \in Nat, N \in Nat : M = Len(left) /\ N = Len(right)
  BY LenProperties
<1>2. p \in Nat \X Nat /\ u \in Nat \X Nat
  BY DEF Slides
<1>3. PICK i \in Nat, j \in Nat, v \in Nat, w \in Nat :
          p[1] = i /\ p[2] = j /\ u[1] = v /\ u[2] = w /\ p = <<i, j>> /\ u = <<v, w>>
  BY <1>2
<1>4. i <= v /\ v - i = w - j /\ Alike(SameText, i, j, v - i)
  BY <1>3 DEF Slides
<1>5. PICK d \in Nat : d = v - i /\ i + d = v /\ j + d = w
  BY <1>4
<1>6. i + d <= M /\ j + d <= N
  BY <1>1, <1>3, <1>5
<1>7. PICK t : t = SubSeq(right, j + 1, j + d)
  OBVIOUS
<1>8. t \in Seq(Nat) /\ Len(t) = d /\ \A k \in 1..d : t[k] = right[j + k]
  <2>1. PICK m \in Nat \ {0}, n \in Nat : m = j + 1 /\ n = j + d /\ m <= n + 1 /\ n <= N /\ (n + 1) - m = d /\ m - 1 = j
    BY <1>6
  <2>2. n <= Len(right)
    BY <1>1, <2>1
  <2>3. /\ SubSeq(right, m, n) \in Seq(Nat) /\ Len(SubSeq(right, m, n)) = (n + 1) - m
        /\ \A k \in 1..(n + 1) - m : SubSeq(right, m, n)[k] = right[(m - 1) + k]
    BY <2>1, <2>2, Part
  <2>4. QED
    BY <1>7, <2>1, <2>3
<1>9. ASSUME NEW k \in 1..d PROVE left[i + k] = t[k]
  <2>1. k - 1 \in 0..d-1 /\ (i + (k - 1)) + 1 = i + k /\ (j + (k - 1)) + 1 = j + k
    OBVIOUS
  <2>2. <<i + (k - 1), j + (k - 1)>> \in SameText
    BY <1>4, <1>5, <2>1 DEF Alike
  <2>3. L(i + (k - 1)) = R(j + (k - 1))
    BY <2>2 DEF SameText
  <2>4. left[i + k] = right[j + k]
    BY <2>1, <2>3 DEF L, R
  <2>5. QED
    BY <1>8, <2>4
<1>10. SubSeq(left, i + 1, i + d) = t
  <2>1. i + d <= Len(left)
    BY <1>1, <1>6
  <2>2. QED
    BY <1>8, <1>9, <2>1, PartIs
<1>11. QED
  BY <1>3, <1>4, <1>5, <1>7, <1>10 DEF Slice

\* What a hunk says.
LEMMA HunkSays ==
    ASSUME left \in Seq(Nat), right \in Seq(Nat), NEW h, NEW s \in Nat \X Nat, NEW e \in Nat \X Nat,
           IsHunk(GoodRuns, h, s, e)
    PROVE  /\ Shown(h, {"equal", "delete"}) = Slice(left, s[1], e[1])
           /\ Shown(h, {"equal", "insert"}) = Slice(right, s[2], e[2])
           /\ Count(h.runs, {"delete", "insert"}) > 0
           /\ Context(h.runs[1]) <= ContextLines
           /\ Context(Last(h.runs)) <= ContextLines
           /\ s[1] <= Len(left) /\ s[2] <= Len(right)
<1>1. PICK runs \in Seq(GoodRuns) :
        /\ h = Hunk(runs) /\ runs # << >> /\ Leads(GoodRuns, runs, s, e) /\ Changes(runs)
        /\ Context(runs[1]) <= ContextLines /\ Context(runs[Len(runs)]) <= ContextLines
  BY DEF IsHunk
<1>2. h.runs = runs
  BY <1>1 DEF Hunk
<1>3. \A ops : Shown(h, ops) = FlattenSeq([n \in DOMAIN runs |-> LinesOf(runs[n], ops)])
  BY <1>2 DEF Shown, LinesOf, LineOf
<1>4. /\ FlattenSeq([n \in DOMAIN runs |-> LinesOf(runs[n], {"equal", "delete"})]) = SubSeq(left, s[1] + 1, e[1])
      /\ FlattenSeq([n \in DOMAIN runs |-> LinesOf(runs[n], {"equal", "insert"})]) = SubSeq(right, s[2] + 1, e[2])
      /\ s[1] <= Len(left) /\ s[2] <= Len(right)
  BY <1>1, RunsShow
<1>5. Count(runs, {"delete", "insert"}) > 0
  BY <1>1, ChangesCount
<1>6. Last(runs) = runs[Len(runs)]
  BY DEF Last
<1>7. QED
  BY <1>1, <1>2, <1>3, <1>4, <1>5, <1>6 DEF Slice

LEMMA WholePatches ==
    ASSUME LinesIInv, Whole(hunks)
    PROVE  HunksPatchLeftIntoRight
<1>1. left \in Seq(Nat) /\ right \in Seq(Nat)
  BY DEF LinesIInv
<1>2. Hunked(SameText, GoodRuns, hunks) /\ Slides(SameText, Finish(hunks, Len(hunks)), Far)
  BY DEF Whole
<1>3. PICK N \in Nat : N = Len(hunks) /\ DOMAIN hunks = 1..N
  BY <1>2, LenProperties DEF Hunked
<1>4. \A n \in 0..N : EndOf(n) = Finish(hunks, n)
  BY DEF EndOf, Finish, End
<1>5. ASSUME NEW n \in 1..N
      PROVE  \E s, e \in Nat \X Nat :
                IsHunk(GoodRuns, hunks[n], s, e) /\ Slides(SameText, EndOf(n - 1), s) /\ StartOf(n) = s /\ EndOf(n) = e
  <2>1. PICK s \in Nat \X Nat, e \in Nat \X Nat :
          IsHunk(GoodRuns, hunks[n], s, e) /\ Slides(SameText, Finish(hunks, n - 1), s)
    BY <1>2, <1>3 DEF Hunked
  <2>2. n - 1 \in 0..N /\ n \in 0..N /\ n # 0 /\ ~(n > N)
    OBVIOUS
  <2>3. Start(hunks[n]) = s /\ End(hunks[n]) = e
    BY <2>1, RunsAreTyped, HunkIs
  <2>4. StartOf(n) = s /\ EndOf(n) = e
    BY <1>3, <1>4, <2>2, <2>3 DEF StartOf, Start, Finish
  <2>5. QED
    BY <1>4, <2>1, <2>2, <2>4
<1>6. ASSUME NEW n \in 1..(Len(hunks) + 1)
      PROVE  /\ EndOf(n - 1)[1] <= StartOf(n)[1]
             /\ Slice(left, EndOf(n - 1)[1], StartOf(n)[1]) = Slice(right, EndOf(n - 1)[2], StartOf(n)[2])
  <2>1. n \in 1..N \/ n = N + 1
    BY <1>3
  <2>2. CASE n \in 1..N
    <3>1. PICK s \in Nat \X Nat, e \in Nat \X Nat :
            IsHunk(GoodRuns, hunks[n], s, e) /\ Slides(SameText, EndOf(n - 1), s) /\ StartOf(n) = s
      BY <1>5, <2>2
    <3>2. s[1] <= Len(left) /\ s[2] <= Len(right)
      BY <1>1, <3>1, HunkSays
    <3>3. QED
      BY <1>1, <3>1, <3>2, SlidesSame
  <2>3. CASE n = N + 1
    <3>1. n > Len(hunks) /\ n - 1 = N /\ N \in 0..N
      BY <1>3, <2>3
    <3>2. StartOf(n) = Far /\ EndOf(n - 1) = Finish(hunks, Len(hunks))
      BY <1>3, <1>4, <3>1 DEF StartOf, Far
    <3>3. PICK M \in Nat, K \in Nat : M = Len(left) /\ K = Len(right)
      BY <1>1, LenProperties
    <3>4. Far[1] <= Len(left) /\ Far[2] <= Len(right)
      BY <3>3 DEF Far
    <3>5. QED
      BY <1>1, <1>2, <3>2, <3>4, SlidesSame
  <2>4. QED
    BY <2>1, <2>2, <2>3
<1>7. ASSUME NEW n \in DOMAIN hunks
      PROVE  /\ Shown(hunks[n], {"equal", "delete"}) = Slice(left, StartOf(n)[1], EndOf(n)[1])
             /\ Shown(hunks[n], {"equal", "insert"}) = Slice(right, StartOf(n)[2], EndOf(n)[2])
             /\ Count(hunks[n].runs, {"delete", "insert"}) > 0
             /\ Context(hunks[n].runs[1]) <= ContextLines
             /\ Context(Last(hunks[n].runs)) <= ContextLines
  <2>1. n \in 1..N
    BY <1>3
  <2>2. PICK s \in Nat \X Nat, e \in Nat \X Nat :
          IsHunk(GoodRuns, hunks[n], s, e) /\ StartOf(n) = s /\ EndOf(n) = e
    BY <1>5, <2>1
  <2>3. QED
    BY <1>1, <2>2, HunkSays
<1>8. QED
  BY <1>6, <1>7 DEF HunksPatchLeftIntoRight

-----------------------------------------------------------------------------

DiffIInv == LinesIInv /\ AlignIInv /\ ResultIInv

LEMMA DiffStarts == ASSUME Init PROVE DiffIInv
<1>1. left \in Seq(Nat) /\ right \in Seq(Nat)
  BY DiffAssumption DEF Init
<1>2. PICK M \in Nat, N \in Nat : M = Len(left) /\ N = Len(right)
  BY <1>1, LenProperties
<1>3. /\ pc = "script" /\ trimmed = [prefix |-> 0, suffix |-> 0] /\ a = << >> /\ b = << >> /\ out = << >>
      /\ script = [runs |-> << >>, left |-> 0, right |-> 0, next |-> 1] /\ open = << >> /\ hunks = << >>
  BY DEF Init
<1>4. trimmed.prefix = 0 /\ trimmed.suffix = 0
  BY <1>3
<1>5. 0 + 0 = 0 /\ 0 <= M /\ 0 <= N /\ 0 \in Nat /\ \A i \in 0..(0 - 1) : FALSE
  OBVIOUS
<1>6. \A n : Rising(<< >>, n)
  BY EmptySeq DEF Rising
<1>7. LinesIInv
  BY <1>1, <1>2, <1>3, <1>4, <1>5, <1>6 DEF LinesIInv
<1>8. AlignIInv
  BY <1>3 DEF AlignIInv, Splits
<1>9. script.runs = << >> /\ script.left = 0 /\ script.right = 0 /\ script.next = 1
  BY <1>3
<1>10. ResultIInv
  BY <1>3, <1>9 DEF ResultIInv
<1>11. QED
  BY <1>7, <1>8, <1>10 DEF DiffIInv

(* Whatever two states are compared, with whatever efforts and context, and  *)
(* whichever way the search, the anchors or a plain change split their       *)
(* regions: once the comparison is done, its hunks turn the left state into  *)
(* the right one (script, matches, align, split and group of internal/diff). *)
THEOREM Patching == Spec => []HunksPatchLeftIntoRight
<1>1. Init => DiffIInv
  BY DiffStarts
<1>2. DiffIInv /\ [Next]_vars => DiffIInv'
  <2> SUFFICES ASSUME DiffIInv, [Next]_vars PROVE DiffIInv'
    OBVIOUS
  <2>1. LinesIInv /\ AlignIInv /\ ResultIInv /\ ContextLines \in Nat
    BY DiffAssumption DEF DiffIInv
  <2>2. QED
    BY <2>1, AlignNext, ResultNext DEF DiffIInv
<1>3. DiffIInv => HunksPatchLeftIntoRight
  <2> SUFFICES ASSUME DiffIInv PROVE HunksPatchLeftIntoRight
    OBVIOUS
  <2>1. CASE pc = "done"
    <3>1. LinesIInv /\ Whole(hunks)
      BY <2>1 DEF DiffIInv, ResultIInv
    <3>2. QED
      BY <3>1, WholePatches
  <2>2. CASE pc # "done"
    BY <2>2 DEF HunksPatchLeftIntoRight
  <2>3. QED
    BY <2>1, <2>2
<1>4. QED
  BY <1>1, <1>2, <1>3, PTL DEF Spec
=============================================================================
