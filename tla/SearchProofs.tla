---------------------------- MODULE SearchProofs ----------------------------
(***************************************************************************)
(* An answer of the search is what the rules say of the file system in one *)
(* moment, for every set of directories, arguments, files, sizes and       *)
(* budgets, and for any number of edits while the search looks.            *)
(*                                                                         *)
(* Whatever was opened or looked up either is as it was seen, or was       *)
(* touched since (OpenedIInv, ProbesIInv); a path, a name and a file is    *)
(* touched once, so what does not stand will not stand again (FallenStays).*)
(* When recheck begins either all of it stands, and then the reports are   *)
(* what one look would give (LookIsWhole, ChoiceIsCalled), or something    *)
(* does not and recheck has yet to come to it (RecheckIInv). The budget is *)
(* an account of sizes: the files read cost what is gone of it (BytesIInv).*)
(***************************************************************************)
EXTENDS Search, Foundations

\* Among finite sets with a property is one with no smaller one.
LEMMA SmallestSet ==
    ASSUME NEW T, IsFiniteSet(T), NEW D \in SUBSET SUBSET T, D # {}
    PROVE  \E s \in D : \A u \in D : ~(u \subseteq s /\ u # s)
<1> DEFINE R == StrictSubsetOrdering(T)
           F == FiniteSubsetsOf(T)
<1>1. D \subseteq F
  BY FS_Subset DEF FiniteSubsetsOf
<1>2. IsWellFoundedOn(R, F)
  BY FS_StrictSubsetOrderingWellFounded
<1> HIDE DEF R, F
<1>3. PICK s \in D : \A u \in D : ~ (<<u, s>> \in R)
  BY <1>1, <1>2, WFMin
<1>4. \A u \in D : u \subseteq s /\ u # s => <<u, s>> \in R
  BY DEF R, StrictSubsetOrdering
<1>5. \A u \in D : ~(u \subseteq s /\ u # s)
  <2> TAKE u \in D
  <2>1. ~ (<<u, s>> \in R)
    BY <1>3
  <2>2. QED
    BY <1>4, <2>1
<1>6. QED
  BY <1>5

-----------------------------------------------------------------------------
(* The sizes of a set of files: g[S] for the files S.                       *)

Chosen(s) == CHOOSE f \in s : TRUE

IsTotal(g) ==
    /\ g \in [SUBSET File -> Nat]
    /\ g[{}] = 0
    /\ \A s \in SUBSET File : s # {} => g[s] = Size[Chosen(s)] + g[s \ {Chosen(s)}]

LEMMA Chooses == \A s : s # {} => Chosen(s) \in s
BY DEF Chosen

LEMMA TotalExists == \E g : IsTotal(g)
<1> DEFINE Good(g, k) ==
               /\ g \in [SUBSET File -> Nat]
               /\ g[{}] = 0
               /\ \A s \in SUBSET File : Cardinality(s) <= k /\ s # {} => g[s] = Size[Chosen(s)] + g[s \ {Chosen(s)}]
           K == {k \in Nat : \E g : Good(g, k)}
<1>1. \A s \in SUBSET File : IsFiniteSet(s) /\ Cardinality(s) \in Nat /\ (Cardinality(s) = 0 <=> s = {})
  BY SearchAssumption, FS_Subset, FS_CardinalityType, FS_EmptySet
<1>2. 0 \in K
  <2> DEFINE g == [s \in SUBSET File |-> 0]
  <2>1. g \in [SUBSET File -> Nat] /\ g[{}] = 0
    OBVIOUS
  <2>2. \A s \in SUBSET File : ~(Cardinality(s) <= 0 /\ s # {})
    BY <1>1
  <2> HIDE DEF g
  <2>3. Good(g, 0)
    BY <2>1, <2>2
  <2>4. QED
    BY <2>3
<1>3. ASSUME NEW k \in Nat, k \in K PROVE k + 1 \in K
  <2>1. PICK g : Good(g, k)
    BY <1>3
  <2> DEFINE v(s) == Size[Chosen(s)] + g[s \ {Chosen(s)}]
             h == [s \in SUBSET File |-> IF Cardinality(s) <= k THEN g[s] ELSE v(s)]
  <2>2. \A s \in SUBSET File : s # {} => /\ Chosen(s) \in File /\ s \ {Chosen(s)} \in SUBSET File
                                         /\ v(s) \in Nat
                                         /\ Cardinality(s) <= k + 1 => Cardinality(s \ {Chosen(s)}) <= k
    <3> TAKE s \in SUBSET File
    <3> HAVE s # {}
    <3>1. Chosen(s) \in s
      BY Chooses
    <3>2. Size[Chosen(s)] \in Nat
      BY <3>1, SearchAssumption
    <3>3. g[s \ {Chosen(s)}] \in Nat
      BY <2>1
    <3>4. Cardinality(s \ {Chosen(s)}) = Cardinality(s) - 1
      BY <1>1, <3>1, FS_RemoveElement
    <3>5. QED
      BY <1>1, <3>1, <3>2, <3>3, <3>4
  <2>3. \A s \in SUBSET File : g[s] \in Nat /\ (Cardinality(s) > k => s # {})
    BY <1>1, <2>1
  <2> HIDE DEF v
  <2>4. h \in [SUBSET File -> Nat] /\ \A s \in SUBSET File : h[s] = IF Cardinality(s) <= k THEN g[s] ELSE v(s)
    <3>1. \A s \in SUBSET File : (IF Cardinality(s) <= k THEN g[s] ELSE v(s)) \in Nat
      <4> TAKE s \in SUBSET File
      <4>1. CASE Cardinality(s) <= k
        BY <2>3, <4>1
      <4>2. CASE ~(Cardinality(s) <= k)
        <5>1. s # {}
          BY <1>1, <1>3, <2>3, <4>2
        <5>2. QED
          BY <2>2, <4>2, <5>1
      <4>3. QED
        BY <4>1, <4>2
    <3>2. QED
      BY <3>1
  <2> HIDE DEF h
  <2>5. h[{}] = 0
    BY <1>1, <2>1, <2>4
  <2>6. ASSUME NEW s \in SUBSET File, Cardinality(s) <= k + 1, s # {}
        PROVE  h[s] = Size[Chosen(s)] + h[s \ {Chosen(s)}]
    <3>1. h[s \ {Chosen(s)}] = g[s \ {Chosen(s)}]
      BY <2>2, <2>4, <2>6
    <3>2. h[s] = v(s)
      BY <1>1, <2>1, <2>4, <2>6 DEF v
    <3>3. QED
      BY <3>1, <3>2 DEF v
  <2>7. Good(h, k + 1)
    BY <2>4, <2>5, <2>6
  <2> HIDE DEF Good
  <2>8. QED
    BY <2>7
<1>4. Nat \subseteq K
  <2> HIDE DEF K
  <2>1. QED
    BY <1>2, <1>3, SetInduction
<1>5. Cardinality(File) \in Nat
  BY <1>1
<1>6. PICK g : Good(g, Cardinality(File))
  BY <1>4, <1>5
<1>7. \A s \in SUBSET File : Cardinality(s) <= Cardinality(File)
  BY SearchAssumption, FS_Subset
<1>8. IsTotal(g)
  BY <1>6, <1>7 DEF IsTotal
<1>9. QED
  BY <1>8

Total(S) == MapThenSumSet(LAMBDA f : Size[f], S)

LEMMA TotalIs == ASSUME NEW g, IsTotal(g), NEW S \in SUBSET File PROVE Total(S) = g[S]
<1> DEFINE Is(x) == x = [s \in SUBSET S |-> IF s = {} THEN 0 ELSE Size[Chosen(s)] + x[s \ {Chosen(s)}]]
           h == CHOOSE x : Is(x)
           e == [s \in SUBSET S |-> g[s]]
<1>1. Total(S) = h[S]
  BY DEF Total, Chosen, MapThenSumSet, MapThenFoldSet
<1>2. \A s \in SUBSET S : e[s] = IF s = {} THEN 0 ELSE Size[Chosen(s)] + e[s \ {Chosen(s)}]
  <2> TAKE s \in SUBSET S
  <2>1. s \in SUBSET File /\ s \ {Chosen(s)} \in SUBSET S /\ {} \in SUBSET S
    OBVIOUS
  <2>2. QED
    BY <2>1 DEF IsTotal
<1>3. e = [s \in SUBSET S |-> e[s]]
  OBVIOUS
<1>4. \A s \in SUBSET S : e[s] = g[s]
  OBVIOUS
<1> HIDE DEF e
<1>5. Is(e)
  BY <1>2, <1>3
<1>6. Is(h)
  <2> HIDE DEF Is
  <2>1. QED
    BY <1>5
<1> HIDE DEF h
<1>7. \A s \in SUBSET S : h[s] = IF s = {} THEN 0 ELSE Size[Chosen(s)] + h[s \ {Chosen(s)}]
  BY <1>6
<1> DEFINE D == {s \in SUBSET S : h[s] # e[s]}
<1>8. ASSUME D # {} PROVE FALSE
  <2>1. IsFiniteSet(S)
    BY SearchAssumption, FS_Subset
  <2>2. PICK s \in D : \A u \in D : ~(u \subseteq s /\ u # s)
    <3>1. D \in SUBSET SUBSET S
      OBVIOUS
    <3> HIDE DEF D
    <3>2. QED
      BY <1>8, <2>1, <3>1, SmallestSet
  <2>3. s \in SUBSET S /\ h[s] # e[s]
    OBVIOUS
  <2>4. s # {}
    BY <1>2, <1>7, <2>3
  <2>5. s \ {Chosen(s)} \in SUBSET S /\ s \ {Chosen(s)} # s
    BY <2>3, <2>4, Chooses
  <2>6. h[s \ {Chosen(s)}] = e[s \ {Chosen(s)}]
    BY <2>2, <2>5
  <2>7. QED
    BY <1>2, <1>7, <2>3, <2>4, <2>6
<1>9. QED
  BY <1>1, <1>4, <1>8

LEMMA TotalWithout ==
    ASSUME NEW g, IsTotal(g), NEW S \in SUBSET File, NEW f \in S
    PROVE  g[S] = Size[f] + g[S \ {f}]
<1> DEFINE D == {s \in SUBSET File : \E x \in s : g[s] # Size[x] + g[s \ {x}]}
<1>1. ASSUME D # {} PROVE FALSE
  <2>1. PICK s \in D : \A u \in D : ~(u \subseteq s /\ u # s)
    <3>1. D \in SUBSET SUBSET File
      OBVIOUS
    <3> HIDE DEF D
    <3>2. QED
      BY <1>1, <3>1, SearchAssumption, SmallestSet
  <2>2. PICK x \in s : g[s] # Size[x] + g[s \ {x}]
    OBVIOUS
  <2> DEFINE c == Chosen(s)
             t == s \ {x, c}
  <2>3. c \in s /\ s \in SUBSET File /\ s # {}
    BY Chooses
  <2>4. g[s] = Size[c] + g[s \ {c}]
    BY <2>3 DEF IsTotal
  <2> HIDE DEF c
  <2>5. x # c
    BY <2>2, <2>4
  <2>6. g[s \ {c}] = Size[x] + g[t]
    <3>1. s \ {c} \notin D
      BY <2>1, <2>3
    <3>2. x \in s \ {c} /\ (s \ {c}) \ {x} = t /\ s \ {c} \in SUBSET File
      BY <2>3, <2>5
    <3>3. QED
      BY <3>1, <3>2
  <2>7. g[s \ {x}] = Size[c] + g[t]
    <3>1. s \ {x} \notin D
      BY <2>1, <2>3
    <3>2. c \in s \ {x} /\ (s \ {x}) \ {c} = t /\ s \ {x} \in SUBSET File
      BY <2>3, <2>5
    <3>3. QED
      BY <3>1, <3>2
  <2>8. Size[x] \in Nat /\ Size[c] \in Nat /\ g[t] \in Nat
    <3>1. t \in SUBSET File
      BY <2>3
    <3>2. QED
      BY <2>3, <3>1, SearchAssumption DEF IsTotal
  <2> HIDE DEF t
  <2> DEFINE a == Size[x]
             b == Size[c]
             m == g[t]
             n == g[s]
  <2>9. a \in Nat /\ b \in Nat /\ m \in Nat /\ n = b + (a + m) /\ n # a + (b + m)
    BY <2>2, <2>4, <2>6, <2>7, <2>8
  <2> HIDE DEF a, b, m, n
  <2>10. QED
    BY ONLY <2>9
<1>2. QED
  BY <1>1

LEMMA TotalGrows ==
    ASSUME NEW g, IsTotal(g), NEW S \in SUBSET File, NEW A \in SUBSET S
    PROVE  g[A] <= g[S]
<1> DEFINE D == {s \in SUBSET File : A \subseteq s /\ ~(g[A] <= g[s])}
<1>1. ASSUME D # {} PROVE FALSE
  <2>1. PICK s \in D : \A u \in D : ~(u \subseteq s /\ u # s)
    <3>1. D \in SUBSET SUBSET File
      OBVIOUS
    <3> HIDE DEF D
    <3>2. QED
      BY <1>1, <3>1, SearchAssumption, SmallestSet
  <2>2. g[A] \in Nat /\ g[s] \in Nat
    BY DEF IsTotal
  <2>3. A # s
    BY <2>2
  <2>4. PICK x \in s : x \notin A
    BY <2>3
  <2>5. s \ {x} \notin D
    BY <2>1
  <2>6. g[A] <= g[s \ {x}]
    BY <2>4, <2>5
  <2>7. g[s] = Size[x] + g[s \ {x}]
    BY TotalWithout
  <2>8. Size[x] \in Nat /\ g[s \ {x}] \in Nat
    BY SearchAssumption DEF IsTotal
  <2> DEFINE a == Size[x]
             b == g[s \ {x}]
             m == g[A]
             n == g[s]
  <2>9. a \in Nat /\ b \in Nat /\ m \in Nat /\ n = a + b /\ m <= b /\ ~(m <= n)
    BY <2>2, <2>6, <2>7, <2>8
  <2> HIDE DEF a, b, m, n
  <2>10. QED
    BY ONLY <2>9
<1>2. QED
  BY <1>1

(* What a search needs to know of the bytes of its files.                   *)
LEMMA Totals ==
    /\ Total({}) = 0
    /\ \A S \in SUBSET File : Total(S) \in Nat
    /\ \A S \in SUBSET File : \A f \in File \ S : Total(S \cup {f}) = Total(S) + Size[f]
    /\ \A S \in SUBSET File : \A A \in SUBSET S : Total(A) <= Total(S)
<1>1. PICK g : IsTotal(g)
  BY TotalExists
<1>2. \A S \in SUBSET File : Total(S) = g[S]
  BY <1>1, TotalIs
<1>3. Total({}) = 0
  BY <1>1, <1>2 DEF IsTotal
<1>4. \A S \in SUBSET File : Total(S) \in Nat
  BY <1>1, <1>2 DEF IsTotal
<1>5. ASSUME NEW S \in SUBSET File, NEW f \in File \ S PROVE Total(S \cup {f}) = Total(S) + Size[f]
  <2> DEFINE U == S \cup {f}
  <2>1. U \in SUBSET File /\ f \in U /\ U \ {f} = S
    OBVIOUS
  <2>2. g[U] = Size[f] + g[U \ {f}]
    <3> HIDE DEF U
    <3>1. QED
      BY <1>1, <2>1, TotalWithout
  <2>3. Size[f] \in Nat /\ g[S] \in Nat
    BY <1>1, SearchAssumption DEF IsTotal
  <2>4. g[U] = g[S] + Size[f]
    <3> DEFINE a == Size[f]
               b == g[S]
               n == g[U]
    <3>1. a \in Nat /\ b \in Nat /\ n = a + b
      BY <2>1, <2>2, <2>3
    <3> HIDE DEF a, b, n
    <3>2. n = b + a
      BY ONLY <3>1
    <3>3. QED
      BY <3>2 DEF a, b, n
  <2>5. QED
    BY <1>2, <2>1, <2>4
<1>6. \A S \in SUBSET File : \A A \in SUBSET S : Total(A) <= Total(S)
  BY <1>1, <1>2, TotalGrows
<1>7. QED
  BY <1>3, <1>4, <1>5, <1>6
-----------------------------------------------------------------------------
(* The invariant.                                                           *)

Sight == {Absent} \cup (File \X BOOLEAN)
Outcome == {"verified", "unverified", "rejected", "unexamined"}
TypeIInv ==
    /\ names \in [Path -> Dir \cup {NoDir}]
    /\ entry \in [Slot -> File \cup {Absent, Denied}]
    /\ kind \in [File -> Kind]
    /\ needBase \in BOOLEAN /\ base \in BOOLEAN /\ (needBase => base) /\ limit \in Nat
    /\ next \in 1..Len(Args) + 1
    /\ todo \in Seq(Slot)
    /\ unavailable \in BOOLEAN
    /\ opened \subseteq [path : Path, dir : Dir]
    /\ probes \subseteq [slot : Slot, seen : Sight]
    /\ reports \subseteq [file : File \cup {Denied}, outcome : Outcome]
    /\ kept \in [verified : SUBSET File, unverified : SUBSET File]

(* The directories: each argument before the next is opened, and each name   *)
(* in them is still to come, looked up or reported.                         *)
Probed(s) == \E u \in probes : u.slot = s
OpenedIInv ==
    /\ unavailable \/ \A i \in 1..next-1 : \E o \in opened : o.path = Args[i]
    /\ \A o \in opened : names[o.path] = o.dir \/ o.path \in touched
    /\ touched = {} /\ unavailable => \E p \in Path : names[p] = NoDir
    /\ \A i \in 1..Len(todo) : todo[i][1] \in Held
    /\ \A s \in Slot : s[1] \in Held => (\E i \in 1..Len(todo) : todo[i] = s) \/ Probed(s) \/ Reported(Denied)

(* The names looked up: what is there now, or what was and was touched.      *)
BeingRead(f) == pc = "read" /\ reading.seen[1] = f
Before(u) ==
    IF u.seen = Absent THEN entry[u.slot] = Absent \/ u.slot \in touched
    ELSE /\ entry[u.slot] = u.seen[1] \/ u.slot \in touched
         /\ u.seen[2] => u.seen[1] \in touched
         /\ Reported(u.seen[1]) \/ BeingRead(u.seen[1])
ProbesIInv ==
    /\ \A u \in probes : u.slot[1] \in Held /\ Before(u)
    /\ pc = "read" =>
        /\ reading \in probes /\ reading.seen # Absent
        /\ ~Reported(reading.seen[1]) /\ kind[reading.seen[1]] \notin {"symlink", "special"}

(* The reports: each of a file that was looked up, with the outcome that is  *)
(* due if the file is as it was then.                                       *)
Due(f) ==
    IF kind[f] \in {"symlink", "toolarge"} THEN "unexamined"
    ELSE IF kind[f] \in {"special", "malformed"} THEN "rejected"
    ELSE IF kind[f] = "match" /\ base THEN "verified"
    ELSE "unverified"
FoundAt(u, f) == u.seen # Absent /\ u.seen[1] = f
Founded(r) ==
    IF r.file = Denied
    THEN r.outcome = "unexamined" /\ (touched = {} => \E s \in Slot : s[1] \in Held /\ entry[s] = Denied)
    ELSE \E u \in probes :
            /\ FoundAt(u, r.file)
            /\ r.outcome = "unexamined" \/ ((u.seen[2] <=> r.file \in touched) => r.outcome = Due(r.file))
ReportsIInv == \A r \in reports : Founded(r)

(* The budget: what is left of it after the files read.                     *)
Spent(C) ==
    /\ remaining \in Nat /\ remaining + Total(C) = limit
    /\ \A f \in C : kind[f] \notin {"symlink", "special"} /\ (Reported(f) \/ BeingRead(f))
    /\ pc = "read" => reading.seen[1] \in C
    /\ \A r \in reports : r.file # Denied =>
         IF r.outcome = "unexamined"
         THEN touched = {} => \/ kind[r.file] \in {"symlink", "toolarge"}
                              \/ kind[r.file] # "special" /\ r.file \notin C /\ Size[r.file] > remaining
         ELSE kind[r.file] = "special" \/ r.file \in C
BytesIInv == \E C \in SUBSET File : Spent(C)

(* The histories kept.                                                      *)
Is(f, outcome) == [file |-> f, outcome |-> outcome]
KeptIInv ==
    \A f \in File :
        /\ Outcomes("verified") = {Is(f, "verified")} => kept.verified = {f}
        /\ ~needBase /\ Outcomes("verified") = {} /\ Outcomes("unverified") = {Is(f, "unverified")}
               => kept.unverified = {f}

(* The recheck: the answer is right, or what makes it wrong is still to be   *)
(* looked at.                                                               *)
Blocked == unavailable \/ Outcomes("unexamined") # {}
RecheckIInv ==
    /\ unchecked \subseteq opened \cup probes
    /\ expected = Choice \/ Blocked \/ \E u \in unchecked : ~Stands(u)
    /\ touched = {} => expected = Choice

SearchIInv ==
    /\ TypeIInv /\ OpenedIInv /\ ProbesIInv /\ ReportsIInv /\ BytesIInv /\ KeptIInv
    /\ pc = "recheck" => RecheckIInv
IInv ==
    /\ pc \in {"search", "read", "recheck", "done"}
    /\ pc # "done" => SearchIInv
    /\ pc = "done" => AnswerIsALook /\ SameForEveryOrder

-----------------------------------------------------------------------------
(* What stands, and what does not stand any more.                           *)

LEMMA Distinct ==
    ASSUME NEW f \in File, NEW b \in BOOLEAN
    PROVE  <<f, b>> \notin {Absent, Denied} /\ f \notin {Absent, Denied}
<1>1. <<f, b>> \in File \X BOOLEAN
  OBVIOUS
<1>2. {Absent, Denied} \cap (File \cup (File \X BOOLEAN)) = {}
  BY SearchAssumption
<1> DEFINE x == <<f, b>>
<1> HIDE DEF x
<1>3. x \notin {Absent, Denied}
  BY <1>1, <1>2 DEF x
<1>4. QED
  BY <1>2, <1>3 DEF x

LEMMA SightIs ==
    ASSUME TypeIInv, NEW u \in probes
    PROVE  /\ u.slot \in Slot /\ u = [slot |-> u.slot, seen |-> u.seen]
           /\ u.seen # Absent => /\ u.seen[1] \in File /\ u.seen[2] \in BOOLEAN
                                 /\ u.seen = <<u.seen[1], u.seen[2]>>
<1>1. u \in [slot : Slot, seen : Sight]
  BY DEF TypeIInv
<1>2. u.seen \in Sight /\ u.slot \in Slot /\ u = [slot |-> u.slot, seen |-> u.seen]
  BY <1>1
<1>3. u.seen # Absent => u.seen \in File \X BOOLEAN
  BY <1>2 DEF Sight
<1>4. QED
  BY <1>2, <1>3

LEMMA NotBoth == ASSUME TypeIInv, NEW u \in probes PROVE u \notin opened
<1> SUFFICES ASSUME u \in opened PROVE FALSE
  OBVIOUS
<1>1. u \in [slot : Slot, seen : Sight] /\ u \in [path : Path, dir : Dir]
  BY DEF TypeIInv
<1>2. DOMAIN u = {"slot", "seen"} /\ DOMAIN u = {"path", "dir"}
  BY <1>1
<1>3. QED
  BY <1>2

SeenStill(u) ==
    IF u.seen = Absent THEN entry[u.slot] = Absent
    ELSE entry[u.slot] = u.seen[1] /\ (u.seen[2] <=> u.seen[1] \in touched)

LEMMA StandsIs ==
    ASSUME TypeIInv
    PROVE  /\ \A u \in probes : Stands(u) <=> SeenStill(u)
           /\ \A o \in opened : Stands(o) <=> names[o.path] = o.dir
<1>1. ASSUME NEW u \in probes PROVE Stands(u) <=> SeenStill(u)
  <2> DEFINE e == entry[u.slot]
             b == e \in touched
  <2>1. Stands(u) <=> Seen(u.slot) = u.seen
    BY <1>1, NotBoth DEF Stands
  <2>2. u.slot \in Slot /\ (u.seen # Absent => /\ u.seen[1] \in File /\ u.seen[2] \in BOOLEAN
                                                /\ u.seen = <<u.seen[1], u.seen[2]>>)
    BY <1>1, SightIs
  <2>3. e \in File \cup {Absent, Denied}
    BY <2>2 DEF TypeIInv
  <2>4. Seen(u.slot) = IF e \in File THEN <<e, b>> ELSE e
    BY DEF Seen, Stamp
  <2>5. b \in BOOLEAN
    OBVIOUS
  <2>6. CASE u.seen = Absent
    <3>1. e \in File => <<e, b>> # Absent
      BY <2>5, Distinct
    <3>2. e \notin File => (e = Absent <=> Seen(u.slot) = u.seen)
      BY <2>4, <2>6
    <3>3. e \in File => e # Absent
      BY SearchAssumption
    <3> HIDE DEF e, b
    <3>4. Seen(u.slot) = u.seen <=> e = Absent
      BY <2>4, <2>6, <3>1, <3>2, <3>3
    <3>5. QED
      BY <2>1, <2>6, <3>4 DEF SeenStill, e
  <2>7. CASE u.seen # Absent
    <3> DEFINE f == u.seen[1]
               c == u.seen[2]
    <3>1. f \in File /\ c \in BOOLEAN /\ u.seen = <<f, c>>
      BY <2>2, <2>7
    <3>2. CASE e \in File
      <4>1. Seen(u.slot) = <<e, b>>
        BY <2>4, <3>2
      <4> HIDE DEF e, b, f, c
      <4>2. <<e, b>> = <<f, c>> <=> e = f /\ b = c
        OBVIOUS
      <4>3. b = c <=> (c <=> b)
        BY <2>5, <3>1
      <4>4. Seen(u.slot) = u.seen <=> e = f /\ (c <=> b)
        BY <3>1, <4>1, <4>2, <4>3
      <4>5. e = f => (b <=> f \in touched)
        BY DEF b
      <4>6. QED
        BY <2>1, <2>7, <4>4, <4>5 DEF SeenStill, e, f, c
    <3>3. CASE e \notin File
      <4>1. Seen(u.slot) = e /\ e \in {Absent, Denied} /\ e # f
        BY <2>3, <2>4, <3>1, <3>3
      <4>2. e # <<f, c>>
        BY <3>1, <4>1, Distinct
      <4>3. Seen(u.slot) # u.seen
        BY <3>1, <4>1, <4>2
      <4>4. QED
        BY <2>1, <2>7, <4>1, <4>3 DEF SeenStill
    <3>4. QED
      BY <3>2, <3>3
  <2>8. QED
    BY <2>6, <2>7
<1>2. QED
  BY <1>1 DEF Stands

-----------------------------------------------------------------------------
(* What is chosen if everything that was looked at is still the same.        *)

LEMMA DueIs ==
    ASSUME TypeIInv, NEW f \in File
    PROVE  /\ Due(f) = "unexamined" <=> kind[f] \in {"symlink", "toolarge"}
           /\ Due(f) = "rejected" <=> kind[f] \in {"malformed", "special"}
           /\ Due(f) = "verified" <=> base /\ kind[f] = "match"
           /\ Due(f) = "unverified" <=> kind[f] \in {"match", "other"} /\ ~(base /\ kind[f] = "match")
<1>1. kind[f] \in {"match", "other", "malformed", "symlink", "special", "toolarge"}
  BY DEF TypeIInv, Kind, Readable
<1> DEFINE k == kind[f]
<1>2. k \in {"match", "other", "malformed", "symlink", "special", "toolarge"} /\ base \in BOOLEAN
  BY <1>1 DEF TypeIInv
<1>3. Due(f) = IF k \in {"symlink", "toolarge"} THEN "unexamined"
               ELSE IF k \in {"special", "malformed"} THEN "rejected"
               ELSE IF k = "match" /\ base THEN "verified" ELSE "unverified"
  BY DEF Due
<1> HIDE DEF k
<1>4. QED
  BY <1>2, <1>3 DEF k

Whole ==
    /\ TypeIInv /\ OpenedIInv /\ ProbesIInv /\ ReportsIInv /\ BytesIInv
    /\ pc = "search" /\ todo = <<>> /\ next > Len(Args)
    /\ \A u \in opened \cup probes : Stands(u)

LEMMA PathsAreHeld ==
    ASSUME Whole, ~unavailable
    PROVE  \A s \in Slot : (\E p \in Path : names[p] = s[1]) <=> s[1] \in Held
<1>1. \A o \in opened : o.path \in Path /\ names[o.path] = o.dir
  <2>1. \A o \in opened : names[o.path] = o.dir
    BY StandsIs DEF Whole
  <2>2. \A o \in opened : o \in [path : Path, dir : Dir]
    BY DEF Whole, TypeIInv
  <2>3. QED
    BY <2>1, <2>2
<1>2. ASSUME NEW p \in Path PROVE names[p] \in Held
  <2>1. Args \in Seq(Path) /\ Len(Args) \in Nat /\ DOMAIN Args = 1..Len(Args)
    BY SearchAssumption, LenProperties
  <2>2. PICK i \in 1..Len(Args) : p = Args[i]
    BY <2>1 DEF Path, ToSet
  <2>3. i \in 1..next-1
    BY <2>1 DEF Whole, TypeIInv
  <2>4. PICK o \in opened : o.path = p
    BY <2>2, <2>3 DEF Whole, OpenedIInv
  <2>5. QED
    BY <1>1, <2>4 DEF Held
<1>3. QED
  BY <1>1, <1>2 DEF Held

LEMMA LookIsWhole ==
    ASSUME Whole, ~Blocked
    PROVE  /\ ~Unexaminable
           /\ \A f \in File : f \in Candidates <=> Reported(f)
           /\ \A r \in reports : r.file \in File /\ r.outcome = Due(r.file)
<1>1. ~unavailable /\ \A r \in reports : r.outcome # "unexamined"
  BY DEF Blocked, Outcomes
<1>2. TypeIInv
  BY DEF Whole
<1>3. \A r \in reports : r \in [file : File \cup {Denied}, outcome : Outcome]
  BY <1>2 DEF TypeIInv
<1>4. \A r \in reports : r.file \in File
  BY <1>1, <1>3 DEF Whole, ReportsIInv, Founded
<1>5. ~Reported(Denied)
  BY <1>4, SearchAssumption DEF Reported
<1>6. \A u \in probes : SeenStill(u) /\ u.slot \in Slot /\ u.slot[1] \in Held /\ Before(u)
  BY <1>2, StandsIs, SightIs DEF Whole, ProbesIInv
<1>7. Candidates = {entry[s] : s \in {s \in Slot : s[1] \in Held}} \ {Absent}
  BY <1>1, PathsAreHeld DEF Candidates
<1>8. ASSUME NEW s \in Slot, s[1] \in Held PROVE \E u \in probes : u.slot = s
  <2>1. Len(todo) = 0
    BY DEF Whole
  <2>2. QED
    BY <1>5, <1>8, <2>1 DEF Whole, OpenedIInv, Probed
<1>9. Denied \notin Candidates
  <2> SUFFICES ASSUME Denied \in Candidates PROVE FALSE
    OBVIOUS
  <2>1. PICK s \in Slot : s[1] \in Held /\ entry[s] = Denied
    BY <1>7
  <2>2. PICK u \in probes : u.slot = s
    BY <1>8, <2>1
  <2>3. SeenStill(u) /\ (u.seen # Absent => u.seen[1] \in File)
    BY <1>2, <1>6, SightIs
  <2>4. Denied # Absent /\ Denied \notin File
    BY SearchAssumption
  <2>5. QED
    BY <2>1, <2>2, <2>3, <2>4 DEF SeenStill
<1>10. ASSUME NEW f \in File, f \in Candidates PROVE Reported(f)
  <2>1. PICK s \in Slot : s[1] \in Held /\ entry[s] = f
    BY <1>7, <1>10
  <2>2. PICK u \in probes : u.slot = s
    BY <1>8, <2>1
  <2>3. f # Absent
    BY SearchAssumption
  <2>4. u.seen # Absent /\ u.seen[1] = f
    BY <1>6, <2>1, <2>2, <2>3 DEF SeenStill
  <2>5. Reported(u.seen[1]) \/ BeingRead(u.seen[1])
    BY <1>6, <2>4 DEF Before
  <2>6. QED
    BY <2>4, <2>5 DEF Whole, BeingRead
<1>11. ASSUME NEW r \in reports PROVE r.outcome = Due(r.file) /\ r.file \in Candidates
  <2>1. r.file # Denied /\ r.file # Absent /\ r.outcome # "unexamined"
    BY <1>1, <1>4, SearchAssumption
  <2>2. PICK u \in probes : /\ FoundAt(u, r.file)
                            /\ (u.seen[2] <=> r.file \in touched) => r.outcome = Due(r.file)
    BY <2>1 DEF Whole, ReportsIInv, Founded
  <2>3. entry[u.slot] = r.file /\ (u.seen[2] <=> r.file \in touched)
    BY <1>6, <2>2 DEF SeenStill, FoundAt
  <2>4. QED
    BY <1>6, <1>7, <2>1, <2>2, <2>3
<1>12. OfKind({"symlink", "toolarge"}) = {}
  <2> SUFFICES ASSUME NEW f \in File, f \in Candidates, kind[f] \in {"symlink", "toolarge"} PROVE FALSE
    BY DEF OfKind
  <2>1. PICK r \in reports : r.file = f
    BY <1>10 DEF Reported
  <2>2. r.outcome = "unexamined"
    BY <1>2, <1>11, <2>1, DueIs
  <2>3. QED
    BY <1>1, <2>2
<1>13. Charged <= limit
  <2>1. PICK C \in SUBSET File : Spent(C)
    BY DEF Whole, BytesIInv
  <2> DEFINE S == OfKind(Readable \cup {"toolarge"})
  <2>2. S \in SUBSET C
    <3> SUFFICES ASSUME NEW f \in File, f \in Candidates, kind[f] \in Readable \cup {"toolarge"} PROVE f \in C
      BY DEF OfKind
    <3>1. PICK r \in reports : r.file = f
      BY <1>10 DEF Reported
    <3>2. r.file # Denied /\ r.outcome # "unexamined" /\ kind[f] # "special"
      BY <1>1, <1>4, SearchAssumption DEF Readable
    <3>3. QED
      BY <2>1, <3>1, <3>2 DEF Spent
  <2>3. Charged = Total(S)
    BY DEF Charged, Total
  <2> HIDE DEF S
  <2>4. S \in SUBSET File
    BY <2>2
  <2>5. Total(S) <= Total(C) /\ Total(S) \in Nat /\ Total(C) \in Nat
    BY <2>2, <2>4, Totals
  <2>6. remaining \in Nat /\ remaining + Total(C) = limit
    BY <2>1 DEF Spent
  <2> DEFINE a == Total(S)
             b == Total(C)
  <2>7. a \in Nat /\ b \in Nat /\ a <= b /\ remaining \in Nat /\ remaining + b = limit
    BY <2>5, <2>6
  <2> HIDE DEF a, b
  <2>8. a <= limit
    BY ONLY <2>7
  <2>9. QED
    BY <2>3, <2>8 DEF a
<1>14. \A p \in Path : names[p] # NoDir
  <2> SUFFICES ASSUME NEW p \in Path, names[p] = NoDir PROVE FALSE
    OBVIOUS
  <2>1. Args \in Seq(Path) /\ Len(Args) \in Nat /\ DOMAIN Args = 1..Len(Args)
    BY SearchAssumption, LenProperties
  <2>2. PICK i \in 1..Len(Args) : p = Args[i]
    BY <2>1 DEF Path, ToSet
  <2>3. i \in 1..next-1
    BY <2>1 DEF Whole, TypeIInv
  <2>4. PICK o \in opened : o.path = p
    BY <1>1, <2>2, <2>3 DEF Whole, OpenedIInv
  <2>5. names[p] = o.dir /\ o.dir \in Dir
    BY <1>2, <2>4, StandsIs DEF Whole, TypeIInv
  <2>6. QED
    BY <2>5, SearchAssumption
<1>15. ~Unexaminable
  <2>1. Charged \in Int /\ limit \in Int
    <3>1. OfKind(Readable \cup {"toolarge"}) \in SUBSET File
      BY DEF OfKind
    <3>2. Charged \in Nat
      BY <3>1, Totals DEF Charged, Total
    <3>3. QED
      BY <1>2, <3>2 DEF TypeIInv
  <2>2. ~(Charged > limit)
    BY <1>13, <2>1
  <2>3. QED
    BY <1>9, <1>12, <1>14, <2>2 DEF Unexaminable
<1>16. QED
  BY <1>4, <1>10, <1>11, <1>15 DEF Reported

AsMany(R, S) ==
    /\ Cardinality(R) = Cardinality(S) /\ Cardinality(S) \in Nat
    /\ (Cardinality(S) = 0 <=> S = {})
    /\ (R = {} <=> S = {})
    /\ (Cardinality(S) = 1 <=> \E f \in S : S = {f})

LEMMA AsManyReports ==
    ASSUME NEW o, NEW S \in SUBSET File, NEW R, R = {Is(f, o) : f \in S}
    PROVE  AsMany(R, S)
<1> DEFINE g == [f \in S |-> Is(f, o)]
<1>1. IsFiniteSet(S)
  BY SearchAssumption, FS_Subset
<1>2. g \in Surjection(S, R)
  BY DEF Surjection
<1>3. g \in Injection(S, R)
  <2>1. \A f, h \in S : Is(f, o) = Is(h, o) => f = h
    BY DEF Is
  <2>2. g \in [S -> R] /\ \A f \in S : g[f] = Is(f, o)
    OBVIOUS
  <2> HIDE DEF g
  <2>3. \A f, h \in S : g[f] = g[h] => f = h
    BY <2>1, <2>2
  <2>4. QED
    BY <2>2, <2>3 DEF Injection, IsInjective
<1> HIDE DEF g
<1>4. IsFiniteSet(R) /\ Cardinality(R) = Cardinality(S)
  BY <1>1, <1>2, <1>3, FS_Surjection
<1>5. Cardinality(S) \in Nat /\ (Cardinality(S) = 0 <=> S = {})
  BY <1>1, FS_CardinalityType, FS_EmptySet
<1>6. Cardinality(S) = 1 <=> \E f \in S : S = {f}
  BY <1>1, FS_Singleton
<1>7. R = {} <=> S = {}
  OBVIOUS
<1>8. QED
  BY <1>4, <1>5, <1>6, <1>7 DEF AsMany

LEMMA ReportsOfKind ==
    ASSUME Whole, ~Blocked
    PROVE  /\ Outcomes("verified") = {Is(f, "verified") : f \in Matching}
           /\ Outcomes("unverified") = {Is(f, "unverified") : f \in Unmatched}
           /\ Outcomes("rejected") = {Is(f, "rejected") : f \in OfKind({"malformed", "special"})}
           /\ Matching \in SUBSET File /\ Unmatched \in SUBSET File
<1>1. TypeIInv
  BY DEF Whole
<1>2. \A f \in File : f \in Candidates <=> Reported(f)
  BY LookIsWhole
<1>3. \A r \in reports : r.file \in File /\ r.outcome = Due(r.file)
  BY LookIsWhole
<1>4. \A r \in reports : r \in [file : File \cup {Denied}, outcome : Outcome]
  BY <1>1 DEF TypeIInv
<1>5. \A r \in reports : r = Is(r.file, r.outcome) 
  BY <1>4 DEF Is
<1>6. \A o : Outcomes(o) = {Is(f, o) : f \in {f \in File \cap Candidates : Due(f) = o}}
  <2> TAKE o
  <2>1. ASSUME NEW r \in reports, r.outcome = o
        PROVE  \E f \in File \cap Candidates : Due(f) = o /\ r = Is(f, o)
    BY <1>2, <1>3, <1>5, <2>1 DEF Reported
  <2>2. ASSUME NEW f \in File \cap Candidates, Due(f) = o
        PROVE  Is(f, o) \in reports /\ Is(f, o).outcome = o
    <3>1. PICK r \in reports : r.file = f
      BY <1>2 DEF Reported
    <3>2. r = Is(f, o)
      BY <1>3, <1>5, <2>2, <3>1
    <3>3. QED
      BY <3>1, <3>2 DEF Is
  <2>3. QED
    BY <2>1, <2>2 DEF Outcomes
<1>7. \A f \in File : /\ Due(f) = "rejected" <=> kind[f] \in {"malformed", "special"}
                      /\ Due(f) = "verified" <=> base /\ kind[f] = "match"
                      /\ Due(f) = "unverified" <=> kind[f] \in {"match", "other"} /\ ~(base /\ kind[f] = "match")
  BY <1>1, DueIs
<1>8. Matching = {f \in File \cap Candidates : Due(f) = "verified"}
  BY <1>7 DEF Matching, OfKind
<1>9. Unmatched = {f \in File \cap Candidates : Due(f) = "unverified"}
  BY <1>7 DEF Matching, Unmatched, OfKind
<1>10. OfKind({"malformed", "special"}) = {f \in File \cap Candidates : Due(f) = "rejected"}
  BY <1>7 DEF OfKind
<1>11. QED
  BY <1>6, <1>8, <1>9, <1>10

LEMMA ChoiceIsCalled == ASSUME Whole, KeptIInv, ~Blocked PROVE Choice = Called
<1> DEFINE V == Outcomes("verified")
           U == Outcomes("unverified")
           J == Outcomes("rejected")
           M == Matching
           N == Unmatched
           K == OfKind({"malformed", "special"})
<1>1. /\ V = {Is(f, "verified") : f \in M} /\ M \in SUBSET File
      /\ U = {Is(f, "unverified") : f \in N} /\ N \in SUBSET File
      /\ J = {Is(f, "rejected") : f \in K} /\ K \in SUBSET File
  <2>1. K \in SUBSET File
    BY DEF OfKind
  <2>2. QED
    BY <2>1, ReportsOfKind
<1>2. /\ Cardinality(V) = Cardinality(M) /\ Cardinality(M) \in Nat /\ (Cardinality(M) = 0 <=> M = {})
      /\ (V = {} <=> M = {}) /\ (Cardinality(M) = 1 <=> \E f \in M : M = {f})
  <2>1. M \in SUBSET File /\ V = {Is(f, "verified") : f \in M}
    BY <1>1
  <2> HIDE DEF M, V
  <2>2. AsMany(V, M)
    BY ONLY <2>1, AsManyReports
  <2>3. QED
    BY <2>2 DEF AsMany
<1>3. /\ Cardinality(U) = Cardinality(N) /\ Cardinality(N) \in Nat /\ (Cardinality(N) = 0 <=> N = {})
      /\ (U = {} <=> N = {}) /\ (Cardinality(N) = 1 <=> \E f \in N : N = {f})
  <2>1. N \in SUBSET File /\ U = {Is(f, "unverified") : f \in N}
    BY <1>1
  <2> HIDE DEF N, U
  <2>2. AsMany(U, N)
    BY ONLY <2>1, AsManyReports
  <2>3. QED
    BY <2>2 DEF AsMany
<1>4. J = {} <=> K = {}
  <2> HIDE DEF J, K
  <2>1. QED
    BY <1>1
<1>5. Cardinality(M) = 1 => Taken(kept.verified) = CHOOSE f \in M : TRUE
  <2> SUFFICES ASSUME Cardinality(M) = 1 PROVE Taken(kept.verified) = CHOOSE f \in M : TRUE
    OBVIOUS
  <2> HIDE DEF M, V
  <2>1. PICK f \in M : M = {f}
    BY <1>2
  <2>2. f \in File /\ V = {Is(f, "verified")}
    BY <1>1, <2>1
  <2>3. kept.verified = M
    BY <2>1, <2>2 DEF KeptIInv, V
  <2>4. QED
    BY <2>1, <2>3 DEF Taken
<1>6. ~needBase /\ M = {} /\ Cardinality(N) = 1 => Taken(kept.unverified) = CHOOSE f \in N : TRUE
  <2> SUFFICES ASSUME ~needBase, M = {}, Cardinality(N) = 1 PROVE Taken(kept.unverified) = CHOOSE f \in N : TRUE
    OBVIOUS
  <2> HIDE DEF M, V, N, U
  <2>1. PICK f \in N : N = {f}
    BY <1>3
  <2>2. f \in File /\ U = {Is(f, "unverified")} /\ V = {}
    BY <1>1, <1>2, <2>1
  <2>3. kept.unverified = N
    BY <2>1, <2>2 DEF KeptIInv, V, U
  <2>4. QED
    BY <2>1, <2>3 DEF Taken
<1>7. ~Unexaminable
  BY LookIsWhole
<1>8. ~(unavailable \/ Outcomes("unexamined") # {})
  BY DEF Blocked
<1>9. needBase \in BOOLEAN /\ base \in BOOLEAN /\ (needBase => base)
  BY DEF Whole, TypeIInv
<1> DEFINE cm == CHOOSE f \in M : TRUE
           cn == CHOOSE f \in N : TRUE
           m == Cardinality(M)
           n == Cardinality(N)
<1>10. Called = IF m > 1 THEN "ambiguous"
                ELSE IF m = 1 THEN cm
                ELSE IF N # {} /\ needBase THEN "mismatch"
                ELSE IF n > 1 THEN "ambiguous"
                ELSE IF n = 1 THEN cn
                ELSE IF K # {} THEN "invalid" ELSE "notfound"
  BY <1>7 DEF Called
<1>11. Choice = IF Cardinality(V) > 1 THEN "ambiguous"
                ELSE IF Cardinality(V) = 1 THEN Taken(kept.verified)
                ELSE IF ~needBase /\ Cardinality(U) > 1 THEN "ambiguous"
                ELSE IF ~needBase /\ Cardinality(U) = 1 THEN Taken(kept.unverified)
                ELSE IF U # {} THEN IF base THEN "mismatch" ELSE "nobase"
                ELSE IF J # {} THEN "invalid" ELSE "notfound"
  BY <1>8 DEF Choice
<1>12. Cardinality(V) = m /\ Cardinality(U) = n
  BY <1>2, <1>3
<1>13. /\ m \in Nat /\ (m = 0 <=> M = {}) /\ n \in Nat /\ (n = 0 <=> N = {})
  BY <1>2, <1>3
<1>14. U # {} <=> N # {}
  BY <1>3
<1>15. m = 1 => Taken(kept.verified) = cm
  BY <1>5
<1>16. ~needBase /\ M = {} /\ n = 1 => Taken(kept.unverified) = cn
  BY <1>6
<1> HIDE DEF m, n, cm, cn, M, N, U, V, J, K
<1>17. CASE m > 1
  BY <1>10, <1>11, <1>12, <1>17
<1>18. CASE m = 1
  BY <1>10, <1>11, <1>12, <1>15, <1>18
<1>19. CASE m = 0 /\ needBase
  BY <1>4, <1>9, <1>10, <1>11, <1>12, <1>13, <1>14, <1>19
<1>20. CASE m = 0 /\ ~needBase
  <2>1. CASE n > 1
    BY <1>10, <1>11, <1>12, <1>13, <1>20, <2>1
  <2>2. CASE n = 1
    BY <1>10, <1>11, <1>12, <1>13, <1>16, <1>20, <2>2
  <2>3. CASE n = 0
    BY <1>4, <1>10, <1>11, <1>12, <1>13, <1>14, <1>20, <2>3
  <2>4. QED
    BY <1>13, <2>1, <2>2, <2>3
<1>21. QED
  BY <1>13, <1>17, <1>18, <1>19, <1>20

\* Where nothing was touched, everything is as it was seen.
LEMMA Undisturbed ==
    ASSUME TypeIInv, OpenedIInv, ProbesIInv, touched = {}
    PROVE  \A u \in opened \cup probes : Stands(u)
<1>1. \A o \in opened : Stands(o)
  BY StandsIs DEF OpenedIInv
<1>2. ASSUME NEW u \in probes PROVE Stands(u)
  <2>1. Before(u) /\ (u.seen # Absent => u.seen[2] \in BOOLEAN)
    BY SightIs DEF ProbesIInv
  <2>2. SeenStill(u)
    BY <2>1 DEF SeenStill, Before
  <2>3. QED
    BY <2>2, StandsIs
<1>3. QED
  BY <1>1, <1>2

LEMMA BlockedIsUnexaminable ==
    ASSUME Whole, touched = {}, Blocked
    PROVE  Unexaminable
<1>1. TypeIInv
  BY DEF Whole
<1>2. \A r \in reports : r \in [file : File \cup {Denied}, outcome : Outcome]
  BY <1>1 DEF TypeIInv
<1>3. ASSUME NEW s \in Slot, s[1] \in Held, entry[s] # Absent PROVE entry[s] \in Candidates
  <2>1. PICK o \in opened : o.dir = s[1]
    BY <1>3 DEF Held
  <2>2. names[o.path] = s[1] /\ o.path \in Path
    BY <1>1, <2>1, StandsIs DEF Whole, TypeIInv
  <2>3. QED
    BY <1>3, <2>2 DEF Candidates
<1>4. ASSUME NEW f \in File, Reported(f) PROVE f \in Candidates
  <2>1. PICK r \in reports : r.file = f
    BY <1>4 DEF Reported
  <2>2. f # Denied /\ f # Absent
    BY SearchAssumption
  <2>3. PICK u \in probes : FoundAt(u, f)
    BY <2>1, <2>2 DEF Whole, ReportsIInv, Founded
  <2>4. entry[u.slot] = f
    BY <1>1, <2>3, StandsIs DEF Whole, FoundAt, SeenStill
  <2>5. u.slot \in Slot /\ u.slot[1] \in Held
    BY <1>1, SightIs DEF Whole, ProbesIInv
  <2>6. QED
    BY <1>3, <2>2, <2>4, <2>5
<1>5. CASE unavailable
  BY <1>5 DEF Whole, OpenedIInv, Unexaminable
<1>6. ASSUME NEW r \in reports, r.outcome = "unexamined", r.file = Denied PROVE Unexaminable
  <2>1. PICK s \in Slot : s[1] \in Held /\ entry[s] = Denied
    BY <1>6 DEF Whole, ReportsIInv, Founded
  <2>2. Denied \in Candidates
    BY <1>3, <2>1, SearchAssumption
  <2>3. QED
    BY <2>2 DEF Unexaminable
<1>7. ASSUME NEW r \in reports, r.outcome = "unexamined", r.file # Denied PROVE Unexaminable
  <2> DEFINE f == r.file
             T == Readable \cup {"toolarge"}
             S == OfKind(T)
  <2>1. f \in File /\ Reported(f)
    BY <1>2, <1>7 DEF Reported
  <2>2. f \in Candidates
    BY <1>4, <2>1
  <2>3. PICK C \in SUBSET File : Spent(C)
    BY DEF Whole, BytesIInv
  <2>4. CASE kind[f] \in {"symlink", "toolarge"}
    <3>1. f \in OfKind({"symlink", "toolarge"})
      BY <2>1, <2>2, <2>4 DEF OfKind
    <3>2. QED
      BY <3>1 DEF Unexaminable
  <2>5. CASE kind[f] \notin {"symlink", "toolarge"}
    <3>1. kind[f] # "special" /\ f \notin C /\ Size[f] > remaining
      BY <1>7, <2>3, <2>5 DEF Spent
    <3>2. \A c \in File : kind[c] \notin {"symlink", "special"} => kind[c] \in T
      BY <1>1 DEF TypeIInv, Kind
    <3>3. \A c \in C : kind[c] \in T /\ c \in Candidates
      BY <1>4, <2>3, <3>2 DEF Spent, Whole, BeingRead
    <3>4. C \cup {f} \in SUBSET S /\ S \in SUBSET File
      BY <2>1, <2>2, <2>5, <3>1, <3>2, <3>3 DEF OfKind
    <3> HIDE DEF S, T
    <3>5. Total(C \cup {f}) = Total(C) + Size[f]
      BY <2>1, <3>1, Totals
    <3>6. C \cup {f} \in SUBSET File /\ Total(C \cup {f}) <= Total(S)
      BY <3>4, Totals
    <3>7. Total(C) \in Nat /\ Total(S) \in Nat /\ Size[f] \in Nat
      BY <2>1, <3>4, Totals, SearchAssumption
    <3>8. remaining \in Nat /\ remaining + Total(C) = limit
      BY <2>3 DEF Spent
    <3> DEFINE a == Total(C)
               b == Total(S)
               m == Size[f]
    <3>9. a \in Nat /\ b \in Nat /\ m \in Nat /\ a + m <= b /\ m > remaining /\ remaining \in Nat /\ remaining + a = limit
      BY <3>1, <3>5, <3>6, <3>7, <3>8
    <3>10. Charged = b
      BY DEF Charged, Total, S, T
    <3> HIDE DEF a, b, m
    <3>11. b > limit
      BY ONLY <3>9
    <3>12. QED
      BY <3>10, <3>11 DEF Unexaminable
  <2>6. QED
    BY <2>4, <2>5
<1>8. QED
  BY <1>5, <1>6, <1>7 DEF Blocked, Outcomes

LEMMA ChosenInQuiet ==
    ASSUME Whole, KeptIInv, touched = {}
    PROVE  Choice = Called
<1>1. CASE Blocked
  <2>1. Choice = "incomplete"
    BY <1>1 DEF Blocked, Choice
  <2>2. Called = "incomplete"
    BY <1>1, BlockedIsUnexaminable DEF Called
  <2>3. QED
    BY <2>1, <2>2
<1>2. CASE ~Blocked
  BY <1>2, ChoiceIsCalled
<1>3. QED
  BY <1>1, <1>2

-----------------------------------------------------------------------------
(* An edit.                                                                  *)

Edited(x) ==
    /\ x \notin touched /\ touched' = touched \cup {x}
    /\ UNCHANGED <<request, search>>
    /\ names' \in [Path -> Dir \cup {NoDir}] /\ \A p \in Path : p # x => names'[p] = names[p]
    /\ entry' \in [Slot -> File \cup {Absent, Denied}] /\ \A s \in Slot : s # x => entry'[s] = entry[s]
    /\ kind' \in [File -> Kind]
    /\ \A f \in File : /\ f # x => kind'[f] = kind[f]
                       /\ IF kind[f] \in Readable THEN kind'[f] \in Readable ELSE kind'[f] = kind[f]

LEMMA EditIs == ASSUME TypeIInv, Edit PROVE (\E x : Edited(x)) /\ pc # "done"
<1>1. Readable \subseteq Kind
  BY DEF Kind
<1>2. ASSUME NEW p \in Path, NEW d \in Dir \cup {NoDir}, Retarget(p, d) PROVE Edited(p) /\ pc # "done"
  BY <1>1, <1>2 DEF Retarget, Change, Edited, TypeIInv
<1>3. ASSUME NEW s \in Slot, NEW e \in File \cup {Absent, Denied}, Place(s, e) PROVE Edited(s) /\ pc # "done"
  BY <1>1, <1>3 DEF Place, Change, Edited, TypeIInv
<1>4. ASSUME NEW f \in File, NEW k \in Readable, Rewrite(f, k) PROVE Edited(f) /\ pc # "done"
  BY <1>1, <1>4 DEF Rewrite, Change, Edited, TypeIInv
<1>5. QED
  BY <1>2, <1>3, <1>4 DEF Edit

\* What was seen and does not stand will not stand again.
LEMMA FallenStays ==
    ASSUME TypeIInv, TypeIInv', OpenedIInv, ProbesIInv, NEW x, Edited(x), NEW u \in opened \cup probes, ~Stands(u)
    PROVE  ~Stands(u)'
<1>1. CASE u \in opened
  <2>1. u.path \in Path /\ u.dir \in Dir
    BY <1>1 DEF TypeIInv
  <2>2. names[u.path] # u.dir /\ u.path \in touched
    BY <1>1, StandsIs DEF OpenedIInv
  <2>3. names'[u.path] # u.dir /\ opened' = opened
    BY <2>1, <2>2 DEF Edited, search
  <2>4. QED
    BY <1>1, <2>3 DEF Stands
<1>2. CASE u \in probes
  <2>1. /\ u.slot \in Slot
        /\ u.seen # Absent => /\ u.seen[1] \in File /\ u.seen[2] \in BOOLEAN /\ u.seen = <<u.seen[1], u.seen[2]>>
    BY <1>2, SightIs
  <2>2. ~SeenStill(u) /\ Before(u)
    BY <1>2, StandsIs DEF ProbesIInv
  <2>3. /\ touched \subseteq touched'
        /\ u.slot \in touched => entry'[u.slot] = entry[u.slot]
        /\ opened' = opened /\ probes' = probes
    BY <2>1 DEF Edited, search
  <2>4. ~ (IF u.seen = Absent THEN entry'[u.slot] = Absent
           ELSE entry'[u.slot] = u.seen[1] /\ (u.seen[2] <=> u.seen[1] \in touched'))
    <3>1. CASE u.seen = Absent
      BY <2>2, <2>3, <3>1 DEF SeenStill, Before
    <3>2. CASE u.seen # Absent
      BY <2>1, <2>2, <2>3, <3>2 DEF SeenStill, Before
    <3>3. QED
      BY <3>1, <3>2
  <2>5. Stands(u)' <=> Seen(u.slot)' = u.seen
    BY <1>2, <2>3, NotBoth DEF Stands
  <2> DEFINE e == entry'[u.slot]
             b == e \in touched'
  <2>6. Seen(u.slot)' = IF e \in File THEN <<e, b>> ELSE e
    BY DEF Seen, Stamp
  <2>7. e \in File \cup {Absent, Denied} /\ b \in BOOLEAN
    BY <2>1 DEF TypeIInv
  <2>8. CASE u.seen = Absent
    <3>1. e # Absent
      BY <2>4, <2>8
    <3> HIDE DEF e, b
    <3>2. Seen(u.slot)' # Absent
      BY <2>6, <2>7, <3>1, Distinct
    <3>3. QED
      BY <2>5, <2>8, <3>2
  <2>9. CASE u.seen # Absent
    <3> DEFINE f == u.seen[1]
               c == u.seen[2]
    <3>1. f \in File /\ c \in BOOLEAN /\ u.seen = <<f, c>> /\ ~(e = f /\ (c <=> f \in touched'))
      BY <2>1, <2>4, <2>9
    <3>2. CASE e \in File
      <4>1. e = f => (b <=> f \in touched')
        OBVIOUS
      <4> HIDE DEF e, b, f, c
      <4>2. <<e, b>> = <<f, c>> => e = f /\ b = c
        OBVIOUS
      <4>3. Seen(u.slot)' # u.seen
        BY <2>6, <2>7, <3>1, <3>2, <4>1, <4>2
      <4>4. QED
        BY <2>5, <4>3
    <3>3. CASE e \notin File
      <4>1. Seen(u.slot)' = e /\ e \in {Absent, Denied}
        BY <2>6, <2>7, <3>3
      <4>2. e # <<f, c>>
        BY <3>1, <4>1, Distinct
      <4>3. QED
        BY <2>5, <3>1, <4>1, <4>2
    <3>4. QED
      BY <3>2, <3>3
  <2>10. QED
    BY <2>8, <2>9
<1>3. QED
  BY <1>1, <1>2

LEMMA EditStep == ASSUME IInv, Edit PROVE IInv'
<1>1. pc # "done" /\ \E x : Edited(x)
  <2>1. pc # "done"
    BY DEF Edit, Retarget, Place, Rewrite, Change
  <2>2. QED
    BY <2>1, EditIs DEF IInv, SearchIInv
<1>2. PICK x : Edited(x)
  BY <1>1
<1>3. SearchIInv
  BY <1>1 DEF IInv
<1>4. UNCHANGED <<request, search>> /\ touched' = touched \cup {x} /\ x \notin touched /\ touched' # {}
  BY <1>2 DEF Edited
<1>5. TypeIInv'
  BY <1>2, <1>3 DEF SearchIInv, TypeIInv, Edited, request, search
<1>6. Held' = Held /\ \A f : Reported(f)' = Reported(f) /\ BeingRead(f)' = BeingRead(f)
  BY <1>4 DEF Held, Reported, BeingRead, search
<1>7. OpenedIInv'
  <2>1. \A o \in opened : names'[o.path] = o.dir \/ o.path \in touched'
    <3> TAKE o \in opened
    <3>1. o.path \in Path /\ (names[o.path] = o.dir \/ o.path \in touched)
      BY <1>3 DEF SearchIInv, TypeIInv, OpenedIInv
    <3>2. QED
      BY <1>2, <1>4, <3>1 DEF Edited
  <2>2. QED
    BY <1>3, <1>4, <1>6, <2>1 DEF SearchIInv, OpenedIInv, Probed, search
<1>8. ASSUME NEW u \in probes PROVE Before(u)' /\ u.slot[1] \in Held'
  <2>1. u.slot \in Slot /\ Before(u) /\ u.slot[1] \in Held
    BY <1>3, SightIs DEF SearchIInv, ProbesIInv
  <2>2. /\ touched \subseteq touched'
        /\ entry'[u.slot] = entry[u.slot] \/ u.slot \in touched'
    BY <1>2, <1>4, <2>1 DEF Edited
  <2>3. QED
    BY <1>6, <2>1, <2>2 DEF Before
<1>9. ProbesIInv'
  <2>1. pc = "read" => kind'[reading.seen[1]] \notin {"symlink", "special"}
    <3> SUFFICES ASSUME pc = "read" PROVE kind'[reading.seen[1]] \notin {"symlink", "special"}
      OBVIOUS
    <3>1. reading \in probes /\ reading.seen # Absent /\ kind[reading.seen[1]] \notin {"symlink", "special"}
      BY <1>3 DEF SearchIInv, ProbesIInv
    <3>2. reading.seen[1] \in File
      BY <1>3, <3>1, SightIs DEF SearchIInv
    <3>3. QED
      BY <1>2, <3>1, <3>2 DEF Edited, Readable
  <2>2. QED
    BY <1>3, <1>4, <1>6, <1>8, <2>1 DEF SearchIInv, ProbesIInv, search
<1>10. ReportsIInv'
  <2>1. ASSUME NEW r \in reports PROVE Founded(r)'
    <3>1. Founded(r) /\ r.file \in File \cup {Denied}
      BY <1>3 DEF SearchIInv, ReportsIInv, TypeIInv
    <3>2. CASE r.file = Denied
      BY <1>4, <3>1, <3>2 DEF Founded
    <3>3. CASE r.file # Denied
      <4>1. PICK u \in probes :
              /\ FoundAt(u, r.file)
              /\ r.outcome = "unexamined" \/ ((u.seen[2] <=> r.file \in touched) => r.outcome = Due(r.file))
        BY <3>1, <3>3 DEF Founded
      <4>2. u.seen[2] \in BOOLEAN /\ (u.seen[2] => r.file \in touched)
        BY <1>3, <4>1, SightIs DEF SearchIInv, ProbesIInv, Before, FoundAt
      <4>3. CASE r.file = x
        BY <1>4, <3>3, <4>1, <4>2, <4>3 DEF Founded, FoundAt, search
      <4>4. CASE r.file # x
        <5>1. kind'[r.file] = kind[r.file] /\ base' = base
          BY <1>2, <3>1, <3>3, <4>4 DEF Edited, request
        <5>2. Due(r.file)' = Due(r.file)
          BY <5>1 DEF Due
        <5>3. r.file \in touched' <=> r.file \in touched
          BY <1>4, <4>4
        <5>4. probes' = probes /\ FoundAt(u, r.file)'
          BY <1>4, <4>1 DEF FoundAt, search
        <5>5. QED
          BY <3>3, <4>1, <5>2, <5>3, <5>4 DEF Founded
      <4>5. QED
        BY <4>3, <4>4
    <3>4. QED
      BY <3>2, <3>3
  <2>2. QED
    BY <1>4, <2>1 DEF ReportsIInv, search
<1>11. BytesIInv'
  <2>1. PICK C \in SUBSET File : Spent(C)
    BY <1>3 DEF SearchIInv, BytesIInv
  <2>2. \A f \in C : kind'[f] \notin {"symlink", "special"}
    BY <1>2, <2>1 DEF Spent, Edited, Readable
  <2>3. ASSUME NEW r \in reports, r.file # Denied, r.outcome # "unexamined"
        PROVE  kind'[r.file] = "special" \/ r.file \in C
    <3>1. r.file \in File
      BY <1>3, <2>3 DEF SearchIInv, TypeIInv
    <3>2. kind[r.file] = "special" \/ r.file \in C
      BY <2>1, <2>3 DEF Spent
    <3>3. QED
      BY <1>2, <3>1, <3>2 DEF Edited, Readable
  <2>4. /\ remaining' = remaining /\ limit' = limit /\ reports' = reports /\ pc' = pc /\ reading' = reading
    BY <1>4 DEF request, search
  <2>5. Spent(C)'
    <3>1. remaining' \in Nat /\ remaining' + Total(C) = limit'
      BY <2>1, <2>4 DEF Spent
    <3>2. \A f \in C : kind'[f] \notin {"symlink", "special"} /\ (Reported(f)' \/ BeingRead(f)')
      BY <1>6, <2>1, <2>2 DEF Spent
    <3>3. pc' = "read" => reading'.seen[1] \in C
      BY <2>1, <2>4 DEF Spent
    <3>4. QED
      BY <1>4, <2>3, <2>4, <3>1, <3>2, <3>3 DEF Spent
  <2>6. QED
    BY <2>5 DEF BytesIInv
<1>12. KeptIInv'
  BY <1>3, <1>4 DEF SearchIInv, KeptIInv, Outcomes, request, search
<1>13. ASSUME pc = "recheck" PROVE RecheckIInv'
  <2>1. RecheckIInv /\ unchecked' = unchecked /\ opened' = opened /\ probes' = probes /\ expected' = expected
    BY <1>3, <1>4, <1>13 DEF SearchIInv, search
  <2>2. Choice' = Choice /\ Blocked' = Blocked
    BY <1>4 DEF Choice, Blocked, Outcomes, Taken, request, search
  <2>3. \A u \in opened \cup probes : ~Stands(u) => ~Stands(u)'
    BY <1>2, <1>3, <1>5, FallenStays DEF SearchIInv
  <2>4. QED
    BY <1>4, <2>1, <2>2, <2>3 DEF RecheckIInv
<1>14. pc' = pc
  BY <1>4 DEF search
<1>15. QED
  BY <1>1, <1>5, <1>7, <1>9, <1>10, <1>11, <1>12, <1>13, <1>14, <1>3 DEF IInv, SearchIInv

-----------------------------------------------------------------------------
(* The search's own steps: what was looked up and reported stays so.         *)

Goes ==
    /\ UNCHANGED <<fs, request>>
    /\ opened \subseteq opened' /\ probes \subseteq probes' /\ reports \subseteq reports'
    /\ \A f : BeingRead(f) => BeingRead(f)' \/ Reported(f)'

LEMMA GoesOn ==
    ASSUME Goes
    PROVE  /\ \A f : Reported(f) => Reported(f)'
           /\ \A d : d \in Held => d \in Held'
           /\ \A u : Before(u) => Before(u)'
           /\ \A r : Founded(r) => Founded(r)'
           /\ \A f : Due(f)' = Due(f)
<1>1. \A f : Reported(f) => Reported(f)'
  BY DEF Goes, Reported
<1>2. \A d : d \in Held => d \in Held'
  BY DEF Goes, Held
<1>3. names' = names /\ entry' = entry /\ kind' = kind /\ touched' = touched /\ base' = base
  BY DEF Goes, fs, request
<1>4. ASSUME NEW u, Before(u) PROVE Before(u)'
  <2>1. CASE u.seen = Absent
    BY <1>3, <1>4, <2>1 DEF Before
  <2>2. CASE u.seen # Absent
    <3>1. Reported(u.seen[1])' \/ BeingRead(u.seen[1])'
      BY <1>1, <1>4, <2>2 DEF Before, Goes
    <3>2. QED
      BY <1>3, <1>4, <2>2, <3>1 DEF Before
  <2>3. QED
    BY <2>1, <2>2
<1>5. \A f : Due(f)' = Due(f)
  BY <1>3 DEF Due
<1>6. ASSUME NEW r, Founded(r) PROVE Founded(r)'
  <2>1. CASE r.file = Denied
    BY <1>2, <1>3, <1>6, <2>1 DEF Founded
  <2>2. CASE r.file # Denied
    BY <1>3, <1>5, <1>6, <2>2 DEF Founded, FoundAt, Goes
  <2>3. QED
    BY <2>1, <2>2
<1>7. QED
  BY <1>1, <1>2, <1>4, <1>5, <1>6

\* The set of files read stays, with what is left of the budget.
LEMMA SpentGoes ==
    ASSUME Goes, NEW C \in SUBSET File, Spent(C), remaining' = remaining, reports' = reports, pc' # "read"
    PROVE  Spent(C)'
<1>1. names' = names /\ entry' = entry /\ kind' = kind /\ touched' = touched /\ limit' = limit
  BY DEF Goes, fs, request
<1>2. \A f \in C : Reported(f)' \/ BeingRead(f)'
  BY GoesOn DEF Spent, Goes
<1>3. QED
  BY <1>1, <1>2 DEF Spent

LEMMA OpenFailsStep == ASSUME IInv, OpenFails PROVE IInv'
<1>1. SearchIInv /\ pc = "search" /\ pc' = "search" /\ todo = << >> /\ todo' = todo
  BY DEF OpenFails, BetweenDirs, IInv
<1>2. /\ UNCHANGED <<fs, request, opened, probes, reports, remaining, kept, reading>>
      /\ next' = next + 1 /\ next <= Len(Args) /\ unavailable' = TRUE /\ names[Args[next]] = NoDir
  BY DEF OpenFails, BetweenDirs
<1>3. Len(Args) \in Nat /\ Args \in Seq(Path) /\ next \in 1..Len(Args)
  BY <1>1, <1>2, SearchAssumption, LenProperties DEF SearchIInv, TypeIInv
<1>4. Goes
  BY <1>1, <1>2 DEF Goes, BeingRead
<1>5. TypeIInv'
  BY <1>1, <1>2, <1>3 DEF SearchIInv, TypeIInv, fs, request
<1>6. OpenedIInv'
  <2>1. Args[next] \in Path
    BY <1>3, ElementOfSeq
  <2>2. names' = names /\ touched' = touched /\ Held' = Held /\ Reported(Denied)' = Reported(Denied)
    BY <1>2 DEF fs, Held, Reported
  <2>3. QED
    BY <1>1, <1>2, <2>1, <2>2 DEF SearchIInv, OpenedIInv, Probed
<1>7. ProbesIInv'
  BY <1>1, <1>2, <1>4, GoesOn DEF SearchIInv, ProbesIInv
<1>8. ReportsIInv'
  BY <1>1, <1>2, <1>4, GoesOn DEF SearchIInv, ReportsIInv
<1>9. BytesIInv'
  BY <1>1, <1>2, <1>4, SpentGoes DEF SearchIInv, BytesIInv
<1>10. KeptIInv'
  BY <1>1, <1>2 DEF SearchIInv, KeptIInv, Outcomes, request
<1>11. QED
  BY <1>1, <1>5, <1>6, <1>7, <1>8, <1>9, <1>10 DEF IInv, SearchIInv

LEMMA OpenStep == ASSUME IInv, Open PROVE IInv'
<1> DEFINE d == names[Args[next]]
<1>1. SearchIInv /\ pc = "search" /\ pc' = "search" /\ todo = << >>
  BY DEF Open, BetweenDirs, IInv
<1>2. /\ UNCHANGED <<fs, request, unavailable, probes, reports, remaining, kept, reading>>
      /\ next' = next + 1 /\ next <= Len(Args) /\ d # NoDir
      /\ opened' = opened \cup {[path |-> Args[next], dir |-> d]}
      /\ todo' = IF d \in Held THEN << >>
                 ELSE IF d = SourceDir THEN <<<<d, "undo">>, <<d, "sidecar">>>>
                 ELSE <<<<d, "undo">>>>
  BY DEF Open, BetweenDirs
<1>3. Len(Args) \in Nat /\ Args \in Seq(Path) /\ next \in 1..Len(Args)
  BY <1>1, <1>2, SearchAssumption, LenProperties DEF SearchIInv, TypeIInv
<1>4. Args[next] \in Path
  BY <1>3, ElementOfSeq
<1>5. d \in Dir
  BY <1>1, <1>2, <1>4 DEF SearchIInv, TypeIInv
<1>6. Goes
  <2> DEFINE n == [path |-> Args[next], dir |-> d]
  <2>1. opened' = opened \cup {n}
    BY <1>2
  <2> HIDE DEF n, d
  <2>2. \A f : BeingRead(f) => BeingRead(f)' \/ Reported(f)'
    BY <1>1 DEF BeingRead
  <2>3. opened \subseteq opened' /\ probes \subseteq probes' /\ reports \subseteq reports'
    BY <1>2, <2>1
  <2>4. UNCHANGED <<fs, request>>
    BY <1>2
  <2>5. QED
    BY <2>2, <2>3, <2>4 DEF Goes
<1>7. Held' = Held \cup {d}
  <2> DEFINE n == [path |-> Args[next], dir |-> d]
  <2>1. opened' = opened \cup {n} /\ n.dir = d
    BY <1>2
  <2> HIDE DEF n, d
  <2>2. QED
    BY <2>1 DEF Held
<1>8. /\ Len(todo') \in Nat /\ todo' \in Seq(Slot)
      /\ \A i \in 1..Len(todo') : todo'[i][1] = d
      /\ d \notin Held => \A s \in Slot : s[1] = d => \E i \in 1..Len(todo') : todo'[i] = s
  <2>1. \A s \in Slot : s = <<s[1], s[2]>> /\ (s[2] = "undo" \/ (s[2] = "sidecar" /\ s[1] = SourceDir))
    BY DEF Slot
  <2>2. <<d, "undo">> \in Slot /\ (d = SourceDir => <<d, "sidecar">> \in Slot)
    BY <1>5 DEF Slot
  <2>3. CASE d \in Held
    <3>1. todo' = << >>
      BY <1>2, <2>3
    <3>2. QED
      BY <2>3, <3>1
  <2>4. CASE d \notin Held /\ d = SourceDir
    <3> DEFINE a == <<d, "undo">>
               b == <<d, "sidecar">>
    <3>1. todo' = <<a, b>>
      BY <1>2, <2>4
    <3>2. a \in Slot /\ b \in Slot /\ a[1] = d /\ b[1] = d
      BY <2>2, <2>4
    <3>3. \A s \in Slot : s[1] = d => s = a \/ s = b
      BY <2>1
    <3> HIDE DEF a, b
    <3>4. Len(todo') = 2 /\ todo'[1] = a /\ todo'[2] = b /\ todo' \in Seq(Slot)
      BY <3>1, <3>2
    <3>5. QED
      BY <3>2, <3>3, <3>4
  <2>5. CASE d \notin Held /\ d # SourceDir
    <3> DEFINE a == <<d, "undo">>
    <3>1. todo' = <<a>>
      BY <1>2, <2>5
    <3>2. a \in Slot /\ a[1] = d
      BY <2>2, <2>5
    <3>3. \A s \in Slot : s[1] = d => s = a
      BY <2>1, <2>5
    <3> HIDE DEF a
    <3>4. Len(todo') = 1 /\ todo'[1] = a /\ todo' \in Seq(Slot)
      BY <3>1, <3>2
    <3>5. QED
      BY <3>2, <3>3, <3>4
  <2>6. QED
    BY <2>3, <2>4, <2>5
<1>9. TypeIInv'
  <2>1. [path |-> Args[next], dir |-> d] \in [path : Path, dir : Dir]
    BY <1>4, <1>5
  <2>2. next' \in 1..Len(Args) + 1
    BY <1>2, <1>3
  <2> HIDE DEF d
  <2>3. QED
    BY <1>1, <1>2, <1>8, <2>1, <2>2 DEF SearchIInv, TypeIInv, fs, request
<1>10. OpenedIInv'
  <2>1. names' = names /\ touched' = touched /\ Reported(Denied)' = Reported(Denied) /\ \A s : Probed(s)' = Probed(s)
    BY <1>2 DEF fs, Reported, Probed
  <2> DEFINE n == [path |-> Args[next], dir |-> d]
  <2>2. n \in opened' /\ n.path = Args[next] /\ n.dir = names[n.path] /\ opened' = opened \cup {n}
    BY <1>2
  <2>3. unavailable' \/ \A i \in 1..next'-1 : \E o \in opened' : o.path = Args[i]
    <3> HIDE DEF n
    <3>1. \A i \in 1..next'-1 : i = next \/ i \in 1..next-1
      BY <1>2, <1>3
    <3>2. QED
      BY <1>1, <1>2, <2>2, <3>1 DEF SearchIInv, OpenedIInv
  <2>4. \A o \in opened' : names'[o.path] = o.dir \/ o.path \in touched'
    <3> HIDE DEF n
    <3>1. QED
      BY <1>1, <2>1, <2>2 DEF SearchIInv, OpenedIInv
  <2> HIDE DEF d, n
  <2>5. touched' = {} /\ unavailable' => \E p \in Path : names'[p] = NoDir
    BY <1>1, <1>2, <2>1 DEF SearchIInv, OpenedIInv
  <2>6. \A i \in 1..Len(todo') : todo'[i][1] \in Held'
    BY <1>7, <1>8
  <2>7. \A s \in Slot : s[1] \in Held' => (\E i \in 1..Len(todo') : todo'[i] = s) \/ Probed(s)' \/ Reported(Denied)'
    <3>1. \A s \in Slot : s[1] \in Held => Probed(s) \/ Reported(Denied)
      BY <1>1 DEF SearchIInv, OpenedIInv
    <3>2. QED
      BY <1>7, <1>8, <2>1, <3>1
  <2>8. QED
    BY <2>3, <2>4, <2>5, <2>6, <2>7 DEF OpenedIInv
<1> HIDE DEF d
<1>11. ProbesIInv'
  BY <1>1, <1>2, <1>6, GoesOn DEF SearchIInv, ProbesIInv
<1>12. ReportsIInv'
  BY <1>1, <1>2, <1>6, GoesOn DEF SearchIInv, ReportsIInv
<1>13. BytesIInv'
  BY <1>1, <1>2, <1>6, SpentGoes DEF SearchIInv, BytesIInv
<1>14. KeptIInv'
  BY <1>1, <1>2 DEF SearchIInv, KeptIInv, Outcomes, request
<1>15. QED
  BY <1>1, <1>9, <1>10, <1>11, <1>12, <1>13, <1>14 DEF IInv, SearchIInv

LEMMA LookUpFailsStep == ASSUME IInv, LookUpFails PROVE IInv'
<1> DEFINE n == [file |-> Denied, outcome |-> "unexamined"]
<1>1. SearchIInv /\ pc = "search" /\ pc' = "search"
  BY DEF LookUpFails, IInv
<1>2. /\ UNCHANGED <<fs, request, next, opened, unavailable, probes, remaining, kept, reading>>
      /\ todo # << >> /\ entry[Head(todo)] = Denied /\ todo' = Tail(todo) /\ reports' = reports \cup {n}
  BY DEF LookUpFails, Report
<1>3. n \in [file : File \cup {Denied}, outcome : Outcome] /\ n.file = Denied /\ n.outcome = "unexamined"
  BY DEF Outcome
<1> HIDE DEF n
<1>4. Goes
  BY <1>1, <1>2 DEF Goes, BeingRead
<1>5. /\ todo \in Seq(Slot) /\ Len(todo) \in Nat /\ todo' \in Seq(Slot) /\ Len(todo') = Len(todo) - 1
      /\ Len(todo) >= 1 /\ Head(todo) = todo[1] /\ \A i \in 1..Len(todo') : todo'[i] = todo[i+1]
  BY <1>1, <1>2, LenProperties, HeadTailProperties, EmptySeq DEF SearchIInv, TypeIInv
<1>6. TypeIInv'
  BY <1>1, <1>2, <1>3, <1>5 DEF SearchIInv, TypeIInv, fs, request
<1>7. Reported(Denied)'
  BY <1>2, <1>3 DEF Reported
<1>8. OpenedIInv'
  <2>1. names' = names /\ touched' = touched /\ Held' = Held
    BY <1>2 DEF fs, Held
  <2>2. \A i \in 1..Len(todo') : todo'[i][1] \in Held'
    <3> TAKE i \in 1..Len(todo')
    <3>1. i + 1 \in 1..Len(todo)
      BY <1>5
    <3>2. QED
      BY <1>1, <1>5, <2>1, <3>1 DEF SearchIInv, OpenedIInv
  <2>3. QED
    BY <1>1, <1>2, <1>7, <2>1, <2>2 DEF SearchIInv, OpenedIInv
<1>9. ProbesIInv'
  BY <1>1, <1>2, <1>4, GoesOn DEF SearchIInv, ProbesIInv
<1>10. ReportsIInv'
  <2>1. Founded(n)'
    <3>1. Head(todo) \in Slot /\ Head(todo)[1] \in Held
      BY <1>1, <1>5 DEF SearchIInv, TypeIInv, OpenedIInv
    <3>2. Founded(n)
      BY <1>2, <1>3, <3>1 DEF Founded
    <3>3. QED
      BY <1>4, <3>2, GoesOn
  <2>2. QED
    BY <1>1, <1>2, <1>4, <2>1, GoesOn DEF SearchIInv, ReportsIInv
<1>11. BytesIInv'
  <2>1. PICK C \in SUBSET File : Spent(C)
    BY <1>1 DEF SearchIInv, BytesIInv
  <2>2. kind' = kind /\ touched' = touched /\ limit' = limit /\ \A f : Reported(f) => Reported(f)'
    BY <1>2, <1>4, GoesOn DEF fs, request
  <2>3. \A r \in reports' : r.file # Denied => r \in reports
    BY <1>2, <1>3
  <2>4. \A f \in C : kind'[f] \notin {"symlink", "special"} /\ (Reported(f)' \/ BeingRead(f)')
    BY <1>4, <2>1, <2>2 DEF Spent, Goes
  <2>5. Spent(C)'
    BY <1>1, <1>2, <2>1, <2>2, <2>3, <2>4 DEF Spent
  <2>6. QED
    BY <2>5 DEF BytesIInv
<1>12. KeptIInv'
  <2>1. Outcomes("verified")' = Outcomes("verified") /\ Outcomes("unverified")' = Outcomes("unverified")
    BY <1>2, <1>3 DEF Outcomes
  <2>2. QED
    BY <1>1, <1>2, <2>1 DEF SearchIInv, KeptIInv, request
<1>13. QED
  BY <1>1, <1>6, <1>8, <1>9, <1>10, <1>11, <1>12 DEF IInv, SearchIInv

\* A name looked up that does not fail: what every one of the three ways does.
LookedUp ==
    /\ pc = "search" /\ todo # << >> /\ entry[Head(todo)] # Denied
    /\ UNCHANGED <<fs, request, next, opened, unavailable, kept>>
    /\ todo' = Tail(todo)
    /\ probes' = probes \cup {[slot |-> Head(todo), seen |-> Seen(Head(todo))]}
    /\ reports \subseteq reports'

LEMMA LookedUpIs ==
    ASSUME SearchIInv, LookedUp
    PROVE  /\ Goes /\ OpenedIInv'
           /\ todo \in Seq(Slot) /\ todo' \in Seq(Slot)
           /\ Head(todo) \in Slot /\ Head(todo)[1] \in Held
           /\ entry[Head(todo)] \in File \cup {Absent}
           /\ Seen(Head(todo)) = IF entry[Head(todo)] \in File THEN <<entry[Head(todo)], entry[Head(todo)] \in touched>> ELSE Absent
           /\ Seen(Head(todo)) \in Sight
           /\ probes' \subseteq [slot : Slot, seen : Sight]
<1>1. TypeIInv
  BY DEF SearchIInv
<1>2. /\ todo \in Seq(Slot) /\ Len(todo) \in Nat /\ todo' \in Seq(Slot) /\ Len(todo') = Len(todo) - 1
      /\ Len(todo) >= 1 /\ Head(todo) = todo[1] /\ \A i \in 1..Len(todo') : todo'[i] = todo[i+1]
  BY <1>1, LenProperties, HeadTailProperties, EmptySeq DEF TypeIInv, LookedUp
<1> DEFINE h == Head(todo)
<1>20. PICK s, e, b, p : s = h /\ e = entry[s] /\ b = (e \in touched) /\ p = [slot |-> s, seen |-> Seen(s)]
  OBVIOUS
<1>3. s \in Slot /\ s[1] \in Held
  BY <1>2, <1>20 DEF SearchIInv, OpenedIInv
<1>4. e \in File \cup {Absent}
  BY <1>1, <1>3, <1>20 DEF LookedUp, TypeIInv
<1>5. Seen(s) = IF e \in File THEN <<e, b>> ELSE Absent
  BY <1>4, <1>20 DEF Seen, Stamp
<1>6. b \in BOOLEAN
  BY <1>20
<1>7. Seen(s) \in Sight
  <2>1. CASE e \in File
    <3>1. Seen(s) = <<e, b>> /\ <<e, b>> \in File \X BOOLEAN
      BY <1>5, <1>6, <2>1
    <3>2. QED
      BY <3>1 DEF Sight
  <2>2. CASE e \notin File
    BY <1>5, <2>2 DEF Sight
  <2>3. QED
    BY <2>1, <2>2
<1>8. p \in [slot : Slot, seen : Sight] /\ probes' = probes \cup {p} /\ p.slot = s
  BY <1>3, <1>7, <1>20 DEF LookedUp
<1>9. Goes
  BY <1>8 DEF LookedUp, Goes, BeingRead
<1>10. OpenedIInv'
  <2>1. names' = names /\ touched' = touched /\ opened' = opened /\ Held' = Held /\ next' = next /\ unavailable' = unavailable
    BY DEF fs, Held, LookedUp
  <2>2. \A i \in 1..Len(todo') : todo'[i][1] \in Held'
    <3> TAKE i \in 1..Len(todo')
    <3>1. i + 1 \in 1..Len(todo)
      BY <1>2
    <3>2. QED
      BY <1>2, <2>1, <3>1 DEF SearchIInv, OpenedIInv
  <2>3. Reported(Denied) => Reported(Denied)'
    BY <1>9, GoesOn
  <2>4. \A q \in Slot : Probed(q) => Probed(q)'
    BY <1>8 DEF Probed
  <2>5. Probed(s)'
    BY <1>8 DEF Probed
  <2>6. ASSUME NEW q \in Slot, q[1] \in Held
        PROVE  (\E i \in 1..Len(todo') : todo'[i] = q) \/ Probed(q)' \/ Reported(Denied)'
    <3>1. CASE \E i \in 1..Len(todo) : todo[i] = q
      <4>1. PICK i \in 1..Len(todo) : todo[i] = q
        BY <3>1
      <4>2. CASE i = 1
        BY <1>2, <1>20, <2>5, <4>1, <4>2
      <4>3. CASE i # 1
        <5>1. i - 1 \in 1..Len(todo') /\ (i - 1) + 1 = i
          BY <1>2, <4>3
        <5>2. todo'[i-1] = q
          BY <1>2, <4>1, <5>1
        <5>3. QED
          BY <5>1, <5>2
      <4>4. QED
        BY <4>2, <4>3
    <3>2. QED
      BY <2>3, <2>4, <2>6, <3>1 DEF SearchIInv, OpenedIInv
  <2>7. QED
    BY <2>1, <2>2, <2>6 DEF SearchIInv, OpenedIInv
<1>11. probes' \subseteq [slot : Slot, seen : Sight]
  BY <1>1, <1>8 DEF TypeIInv
<1>12. QED
  BY <1>2, <1>3, <1>4, <1>5, <1>7, <1>9, <1>10, <1>11, <1>20

\* A name that leads nowhere, or a candidate that is settled without a read.
LEMMA SettledStep ==
    ASSUME SearchIInv, LookedUp, pc' = "search", remaining' = remaining,
           \/ entry[Head(todo)] = Absent /\ reports' = reports
           \/ entry[Head(todo)] \in File /\ ~Worth(entry[Head(todo)]) /\ Settled(entry[Head(todo)])
    PROVE  SearchIInv'
<1>20. PICK s, f, b, p : s = Head(todo) /\ f = entry[s] /\ b = (f \in touched) /\ p = [slot |-> s, seen |-> Seen(s)]
  OBVIOUS
<1>1. TypeIInv /\ pc = "search"
  BY DEF SearchIInv, LookedUp
<1>2. /\ Goes /\ OpenedIInv'
      /\ todo' \in Seq(Slot) /\ s \in Slot /\ s[1] \in Held
      /\ Seen(s) = IF f \in File THEN <<f, b>> ELSE Absent
      /\ probes' \subseteq [slot : Slot, seen : Sight]
  BY <1>20, LookedUpIs
<1>3. /\ UNCHANGED <<fs, request, next, opened, unavailable, kept>>
      /\ probes' = probes \cup {p} /\ p.slot = s /\ p.seen = Seen(s) /\ b \in BOOLEAN
  BY <1>20 DEF LookedUp
<1>4. names' = names /\ entry' = entry /\ kind' = kind /\ touched' = touched /\ limit' = limit /\ base' = base /\ needBase' = needBase
  BY <1>3 DEF fs, request
<1>5. f \notin File => f = Absent
  BY <1>20
<1>6. f \in File => f # Absent /\ f # Denied /\ <<f, b>> # Absent
  BY <1>3, Distinct
<1>7. f \in File => p.seen = <<f, b>> /\ p.seen[1] = f /\ (p.seen[2] <=> b) /\ p.seen # Absent
  BY <1>2, <1>3, <1>6
<1>8. \/ reports' = reports /\ (f \in File => kind[f] \notin {"symlink", "special"} /\ Reported(f))
      \/ /\ f \in File /\ reports' = reports \cup {Is(f, "unexamined")}
         /\ kind[f] = "symlink" \/ (kind[f] # "special" /\ ~Reported(f) /\ ~(Size[f] <= remaining))
      \/ f \in File /\ reports' = reports \cup {Is(f, "rejected")} /\ kind[f] = "special"
  <2>1. CASE f = Absent
    BY <1>6, <1>20, <2>1
  <2>2. CASE f # Absent
    <3>1. f \in File /\ ~Worth(f) /\ Settled(f)
      BY <1>20, <2>2
    <3>2. CASE kind[f] = "symlink"
      BY <3>1, <3>2 DEF Settled, Report, Is
    <3>3. CASE kind[f] = "special"
      BY <3>1, <3>3 DEF Settled, Report, Is
    <3>4. CASE kind[f] \notin {"symlink", "special"} /\ Reported(f)
      BY <3>1, <3>4 DEF Settled, Report, Is
    <3>5. CASE kind[f] \notin {"symlink", "special"} /\ ~Reported(f)
      BY <3>1, <3>5 DEF Settled, Report, Is, Worth
    <3>6. QED
      BY <3>2, <3>3, <3>4, <3>5
  <2>3. QED
    BY <2>1, <2>2
<1>9. \A o : Is(f, o).file = f /\ Is(f, o).outcome = o
  BY DEF Is
<1>10. f \in File => Reported(f)'
  BY <1>8, <1>9 DEF Reported
<1>11. \A r \in reports' \ reports : /\ f \in File /\ r = Is(f, r.outcome) /\ r.file = f
                                     /\ \/ r.outcome = "unexamined" /\ \/ kind[f] = "symlink"
                                                                       \/ kind[f] # "special" /\ ~Reported(f) /\ ~(Size[f] <= remaining)
                                        \/ r.outcome = "rejected" /\ kind[f] = "special"
  BY <1>8, <1>9
<1>12. TypeIInv'
  <2>1. \A r \in reports' \ reports : r \in [file : File \cup {Denied}, outcome : Outcome]
    BY <1>11 DEF Is, Outcome
  <2>2. reports' \subseteq [file : File \cup {Denied}, outcome : Outcome]
    BY <1>1, <2>1 DEF TypeIInv
  <2>3. QED
    BY <1>1, <1>2, <1>3, <1>4, <2>2 DEF TypeIInv
<1>13. ProbesIInv'
  <2>1. Before(p)'
    <3>1. entry'[p.slot] = f
      BY <1>3, <1>4, <1>20
    <3>2. CASE f \in File
      BY <1>4, <1>7, <1>10, <1>20, <3>1, <3>2 DEF Before
    <3>3. CASE f \notin File
      BY <1>2, <1>3, <1>5, <3>1, <3>3 DEF Before
    <3>4. QED
      BY <3>2, <3>3
  <2>2. p.slot[1] \in Held'
    BY <1>2, <1>3, GoesOn
  <2>3. QED
    BY <1>2, <1>3, <2>1, <2>2, GoesOn DEF SearchIInv, ProbesIInv
<1>14. ReportsIInv'
  <2>1. ASSUME NEW r \in reports' \ reports PROVE Founded(r)'
    <3>1. r.file = f /\ f \in File /\ r.file # Denied
      BY <1>6, <1>11
    <3>2. FoundAt(p, r.file)' /\ p \in probes'
      BY <1>3, <1>7, <3>1 DEF FoundAt
    <3>3. r.outcome = "unexamined" \/ r.outcome = Due(f)'
      BY <1>4, <1>11, <2>1 DEF Due
    <3>4. QED
      BY <3>1, <3>2, <3>3 DEF Founded
  <2>2. QED
    BY <1>2, <2>1, GoesOn DEF SearchIInv, ReportsIInv
<1>15. BytesIInv'
  <2>1. PICK C \in SUBSET File : Spent(C)
    BY DEF SearchIInv, BytesIInv
  <2>2. \A c \in C : kind[c] \notin {"symlink", "special"} /\ Reported(c) /\ Reported(c)'
    BY <1>1, <1>2, <2>1, GoesOn DEF Spent, BeingRead
  <2>3. ASSUME NEW r \in reports', r.file # Denied
        PROVE  IF r.outcome = "unexamined"
               THEN touched = {} => \/ kind[r.file] \in {"symlink", "toolarge"}
                                    \/ kind[r.file] # "special" /\ r.file \notin C /\ Size[r.file] > remaining
               ELSE kind[r.file] = "special" \/ r.file \in C
    <3>1. CASE r \in reports
      BY <2>1, <2>3, <3>1 DEF Spent
    <3>2. CASE r \notin reports
      <4>1. f \in File => Size[f] \in Nat /\ remaining \in Nat
        BY <2>1, SearchAssumption DEF Spent
      <4>2. QED
        BY <1>11, <2>2, <3>2, <4>1
    <3>3. QED
      BY <3>1, <3>2
  <2>4. Spent(C)'
    BY <1>4, <2>1, <2>2, <2>3 DEF Spent
  <2>5. QED
    BY <2>4 DEF BytesIInv
<1>16. KeptIInv'
  <2>1. \A r \in reports' \ reports : r.outcome # "verified" /\ r.outcome # "unverified"
    BY <1>11
  <2>2. Outcomes("verified")' = Outcomes("verified") /\ Outcomes("unverified")' = Outcomes("unverified")
    BY <1>2, <2>1 DEF Outcomes, Goes
  <2>3. QED
    BY <1>3, <1>4, <2>2 DEF SearchIInv, KeptIInv
<1>17. QED
  BY <1>2, <1>12, <1>13, <1>14, <1>15, <1>16 DEF SearchIInv

\* A candidate that is charged and about to be read.
Charges(f, b) ==
    /\ f \in File /\ Worth(f) /\ remaining' = remaining - Size[f]
    /\ reading' = [slot |-> Head(todo), seen |-> <<f, b>>]
    /\ f = entry[Head(todo)] /\ b = (f \in touched)

LEMMA ChargedStep ==
    ASSUME SearchIInv, LookedUp, pc' = "read", reports' = reports, NEW f, NEW b, Charges(f, b)
    PROVE  SearchIInv'
<1>20. PICK s, p : s = Head(todo) /\ p = [slot |-> s, seen |-> Seen(s)]
  OBVIOUS
<1>1. TypeIInv /\ pc = "search"
  BY DEF SearchIInv, LookedUp
<1>2. /\ Goes /\ OpenedIInv'
      /\ todo' \in Seq(Slot) /\ s \in Slot /\ s[1] \in Held
      /\ Seen(s) = IF f \in File THEN <<f, b>> ELSE Absent
      /\ probes' \subseteq [slot : Slot, seen : Sight]
  BY <1>20, LookedUpIs DEF Charges
<1>3. /\ UNCHANGED <<fs, request, next, opened, unavailable, kept>>
      /\ probes' = probes \cup {p} /\ p.slot = s /\ p.seen = Seen(s) /\ b \in BOOLEAN
  BY <1>20 DEF LookedUp, Charges
<1>4. names' = names /\ entry' = entry /\ kind' = kind /\ touched' = touched /\ limit' = limit /\ base' = base /\ needBase' = needBase
  BY <1>3 DEF fs, request
<1>5. f \in File /\ f # Absent /\ f # Denied /\ <<f, b>> # Absent
  BY <1>3, Distinct DEF Charges
<1>6. p.seen = <<f, b>> /\ p.seen[1] = f /\ (p.seen[2] <=> b) /\ p.seen # Absent
  BY <1>2, <1>3, <1>5
<1>7. reading' = p /\ BeingRead(f)'
  BY <1>2, <1>5, <1>6, <1>20 DEF Charges, BeingRead
<1>8. kind[f] \notin {"symlink", "special"} /\ ~Reported(f) /\ Size[f] <= remaining
  BY DEF Charges, Worth
<1>9. Reported(f)' = Reported(f) /\ \A g : Reported(g)' = Reported(g)
  BY DEF Reported
<1>12. TypeIInv'
  BY <1>1, <1>2, <1>3, <1>4 DEF TypeIInv
<1>13. ProbesIInv'
  <2>1. Before(p)'
    <3>1. entry'[p.slot] = f
      BY <1>3, <1>4, <1>20 DEF Charges
    <3>2. b = (f \in touched)
      BY DEF Charges
    <3>3. QED
      BY <1>4, <1>6, <1>7, <3>1, <3>2 DEF Before
  <2>2. p.slot[1] \in Held'
    BY <1>2, <1>3, GoesOn
  <2>3. \A u \in probes' : u.slot[1] \in Held' /\ Before(u)'
    BY <1>2, <1>3, <2>1, <2>2, GoesOn DEF SearchIInv, ProbesIInv
  <2>4. reading' \in probes' /\ reading'.seen[1] = f /\ reading'.seen # Absent
    BY <1>3, <1>6, <1>7
  <2>5. QED
    BY <1>4, <1>8, <1>9, <2>3, <2>4 DEF ProbesIInv
<1>14. ReportsIInv'
  BY <1>2, GoesOn DEF SearchIInv, ReportsIInv
<1>15. BytesIInv'
  <2>1. PICK C \in SUBSET File : Spent(C)
    BY DEF SearchIInv, BytesIInv
  <2>2. \A c \in C : kind[c] \notin {"symlink", "special"} /\ Reported(c)
    BY <1>1, <2>1 DEF Spent, BeingRead
  <2>3. f \notin C
    BY <1>8, <2>2
  <2>4. Total(C \cup {f}) = Total(C) + Size[f] /\ Total(C) \in Nat /\ Size[f] \in Nat
    BY <1>5, <2>3, Totals, SearchAssumption
  <2>5. remaining' \in Nat /\ remaining' + Total(C \cup {f}) = limit' /\ remaining' <= remaining /\ remaining \in Nat
    <3> DEFINE a == Total(C)
               m == Size[f]
               n == Total(C \cup {f})
    <3>1. /\ a \in Nat /\ m \in Nat /\ n = a + m /\ remaining \in Nat /\ remaining + a = limit
          /\ m <= remaining /\ remaining' = remaining - m /\ limit' = limit
      BY <1>4, <1>8, <2>1, <2>4 DEF Spent, Charges
    <3> HIDE DEF a, m, n
    <3>2. remaining' \in Nat /\ remaining' + n = limit' /\ remaining' <= remaining
      BY ONLY <3>1
    <3>3. QED
      BY <3>1, <3>2 DEF n
  <2>6. \A r \in reports : r.file # f
    BY <1>8 DEF Reported
  <2>7. ASSUME NEW r \in reports, r.file # Denied
        PROVE  IF r.outcome = "unexamined"
               THEN touched = {} => \/ kind[r.file] \in {"symlink", "toolarge"}
                                    \/ kind[r.file] # "special" /\ r.file \notin C \cup {f} /\ Size[r.file] > remaining'
               ELSE kind[r.file] = "special" \/ r.file \in C \cup {f}
    <3>1. CASE r.outcome = "unexamined"
      <4>1. r.file \in File
        BY <1>1, <2>7 DEF TypeIInv
      <4>2. Size[r.file] \in Nat
        BY <4>1, SearchAssumption
      <4>3. touched = {} => \/ kind[r.file] \in {"symlink", "toolarge"}
                            \/ kind[r.file] # "special" /\ r.file \notin C /\ Size[r.file] > remaining
        BY <2>1, <2>7, <3>1 DEF Spent
      <4>4. Size[r.file] > remaining => Size[r.file] > remaining'
        <5> DEFINE z == Size[r.file]
        <5>1. z \in Nat /\ remaining \in Nat /\ remaining' \in Nat /\ remaining' <= remaining
          BY <2>5, <4>2
        <5> HIDE DEF z
        <5>2. z > remaining => z > remaining'
          BY ONLY <5>1
        <5>3. QED
          BY <5>2 DEF z
      <4>5. QED
        BY <2>6, <2>7, <3>1, <4>3, <4>4
    <3>2. CASE r.outcome # "unexamined"
      BY <2>1, <2>7, <3>2 DEF Spent
    <3>3. QED
      BY <3>1, <3>2
  <2>8. Spent(C \cup {f})'
    <3>1. reading'.seen[1] = f
      BY <1>6, <1>7
    <3>2. \A c \in C \cup {f} : kind'[c] \notin {"symlink", "special"} /\ (Reported(c)' \/ BeingRead(c)')
      BY <1>4, <1>7, <1>8, <1>9, <2>2
    <3>3. QED
      BY <1>4, <2>5, <2>7, <3>1, <3>2 DEF Spent
  <2>9. C \cup {f} \in SUBSET File
    BY <1>5
  <2>10. QED
    BY <2>8, <2>9 DEF BytesIInv
<1>16. KeptIInv'
  BY <1>3, <1>4 DEF SearchIInv, KeptIInv, Outcomes
<1>17. QED
  BY <1>2, <1>12, <1>13, <1>14, <1>15, <1>16 DEF SearchIInv

LEMMA LookUpStep == ASSUME IInv, LookUp PROVE IInv'
<1> DEFINE s == Head(todo)
           f == entry[s]
<1>1. SearchIInv /\ pc = "search"
  BY DEF LookUp, IInv
<1>2. /\ UNCHANGED <<fs, request, next, opened, unavailable, kept>>
      /\ todo # << >> /\ f # Denied /\ todo' = Tail(todo)
      /\ probes' = probes \cup {[slot |-> s, seen |-> Seen(s)]}
  BY DEF LookUp, Probes
<1>3. \/ f = Absent /\ reports' = reports /\ remaining' = remaining /\ pc' = pc
      \/ f \in File /\ ~Worth(f) /\ Settled(f) /\ remaining' = remaining /\ pc' = pc
      \/ /\ f \in File /\ Worth(f) /\ remaining' = remaining - Size[f]
         /\ reading' = [slot |-> s, seen |-> Stamp(f)] /\ pc' = "read" /\ reports' = reports
  BY DEF LookUp
<1>4. Settled(f) => reports \subseteq reports'
  <2>1. CASE kind[f] = "symlink"
    BY <2>1 DEF Settled, Report
  <2>2. CASE kind[f] = "special"
    BY <2>2 DEF Settled, Report
  <2>3. CASE kind[f] \notin {"symlink", "special"}
    BY <2>3 DEF Settled, Report
  <2>4. QED
    BY <2>1, <2>2, <2>3
<1>5. LookedUp
  BY <1>1, <1>2, <1>3, <1>4 DEF LookedUp
<1>6. CASE pc' = "search" /\ remaining' = remaining /\ ((f = Absent /\ reports' = reports) \/ (f \in File /\ ~Worth(f) /\ Settled(f)))
  BY <1>1, <1>5, <1>6, SettledStep DEF IInv
<1>7. CASE /\ f \in File /\ Worth(f) /\ remaining' = remaining - Size[f]
           /\ reading' = [slot |-> s, seen |-> Stamp(f)] /\ pc' = "read" /\ reports' = reports
  <2>1. PICK g, b : g = f /\ b = (g \in touched)
    OBVIOUS
  <2>2. Charges(g, b)
    BY <1>7, <2>1 DEF Charges, Stamp
  <2>3. SearchIInv'
    BY <1>1, <1>5, <1>7, <2>2, ChargedStep
  <2>4. QED
    BY <1>7, <2>3 DEF IInv
<1>8. CASE f = Absent /\ reports' = reports /\ remaining' = remaining /\ pc' = pc
  BY <1>1, <1>6, <1>8
<1>9. CASE f \in File /\ ~Worth(f) /\ Settled(f) /\ remaining' = remaining /\ pc' = pc
  BY <1>1, <1>6, <1>9
<1>10. QED
  BY <1>3, <1>7, <1>8, <1>9

\* What is known when a candidate is read.
LEMMA ReadingIs ==
    ASSUME SearchIInv, pc = "read"
    PROVE  /\ reading \in probes /\ reading.slot \in Slot /\ reading.seen[1] \in File /\ reading.seen[2] \in BOOLEAN
           /\ reading.seen = <<reading.seen[1], reading.seen[2]>>
           /\ reading.seen # Absent
           /\ ~Reported(reading.seen[1]) /\ kind[reading.seen[1]] \notin {"symlink", "special"}
           /\ touched = {} => entry[reading.slot] = reading.seen[1] /\ reading.seen[2] = FALSE
<1>1. TypeIInv /\ reading \in probes /\ Before(reading) /\ reading.seen # Absent
      /\ ~Reported(reading.seen[1]) /\ kind[reading.seen[1]] \notin {"symlink", "special"}
  BY DEF SearchIInv, ProbesIInv
<1>2. reading.slot \in Slot /\ reading.seen[1] \in File /\ reading.seen[2] \in BOOLEAN
      /\ reading.seen = <<reading.seen[1], reading.seen[2]>>
  BY <1>1, SightIs
<1>3. touched = {} => entry[reading.slot] = reading.seen[1] /\ reading.seen[2] = FALSE
  BY <1>1, <1>2 DEF Before
<1>4. QED
  BY <1>1, <1>2, <1>3

\* A candidate that was read, or could not be: it is reported and the search goes on.
LEMMA ReportedStep ==
    ASSUME SearchIInv, pc = "read", Continue, NEW f, f = reading.seen[1], NEW o \in Outcome,
           reports' = reports \cup {Is(f, o)},
           \/ o = "unexamined" /\ (touched = {} => kind[f] \in {"symlink", "toolarge"})
           \/ (reading.seen[2] <=> f \in touched) /\ o = Due(f) /\ o # "unexamined",
           kept' \in [verified : SUBSET File, unverified : SUBSET File], KeptIInv'
    PROVE  IInv'
<1>1. TypeIInv /\ OpenedIInv /\ ProbesIInv /\ ReportsIInv /\ BytesIInv
  BY DEF SearchIInv
<1>2. /\ UNCHANGED <<fs, request, next, todo, opened, unavailable, probes, remaining>> /\ pc' = "search"
  BY DEF Continue
<1>3. names' = names /\ entry' = entry /\ kind' = kind /\ touched' = touched /\ limit' = limit /\ base' = base /\ needBase' = needBase
  BY <1>2 DEF fs, request
<1>4. reading \in probes /\ f \in File /\ reading.seen # Absent /\ f # Denied /\ ~Reported(f)
  BY ReadingIs, SearchAssumption
<1>5. Is(f, o).file = f /\ Is(f, o).outcome = o /\ Is(f, o) \in [file : File \cup {Denied}, outcome : Outcome]
  BY <1>4 DEF Is
<1> DEFINE n == Is(f, o)
<1> HIDE DEF n
<1>6. n \in reports' /\ reports' = reports \cup {n} /\ n.file = f /\ n.outcome = o /\ n \in [file : File \cup {Denied}, outcome : Outcome]
  BY <1>5 DEF n
<1>7. Reported(f)'
  BY <1>6 DEF Reported
<1>8. Goes
  <2>1. \A g : BeingRead(g) => Reported(g)'
    BY <1>7 DEF BeingRead
  <2>2. QED
    BY <1>2, <1>6, <2>1 DEF Goes
<1>9. TypeIInv'
  BY <1>1, <1>2, <1>3, <1>6 DEF TypeIInv
<1>10. OpenedIInv'
  <2>1. Held' = Held /\ (Reported(Denied) => Reported(Denied)') /\ \A s : Probed(s)' = Probed(s)
    BY <1>2, <1>8, GoesOn DEF Held, Probed
  <2>2. QED
    BY <1>1, <1>2, <1>3, <2>1 DEF OpenedIInv
<1>11. ProbesIInv'
  BY <1>1, <1>2, <1>8, GoesOn DEF ProbesIInv
<1>12. ReportsIInv'
  <2>1. Founded(n)
    <3>1. FoundAt(reading, f)
      BY <1>4 DEF FoundAt
    <3>2. o = "unexamined" \/ ((reading.seen[2] <=> f \in touched) => o = Due(f))
      OBVIOUS
    <3>3. QED
      BY <1>4, <1>6, <3>1, <3>2 DEF Founded
  <2>2. \A r \in reports : Founded(r)'
    BY <1>1, <1>8, GoesOn DEF ReportsIInv
  <2>3. \A r : Founded(r) => Founded(r)'
    BY <1>8, GoesOn
  <2>4. \A r \in reports' : Founded(r)'
    BY <1>6, <2>1, <2>2, <2>3
  <2>5. QED
    BY <2>4 DEF ReportsIInv
<1>13. BytesIInv'
  <2>1. PICK C \in SUBSET File : Spent(C)
    BY <1>1 DEF BytesIInv
  <2>2. f \in C /\ kind[f] # "special"
    BY <2>1 DEF Spent
  <2>3. \A c \in C : kind'[c] \notin {"symlink", "special"} /\ (Reported(c)' \/ BeingRead(c)')
    BY <1>3, <1>8, <2>1, GoesOn DEF Spent, Goes
  <2>4. ASSUME NEW r \in reports', r.file # Denied
        PROVE  IF r.outcome = "unexamined"
               THEN touched = {} => \/ kind[r.file] \in {"symlink", "toolarge"}
                                    \/ kind[r.file] # "special" /\ r.file \notin C /\ Size[r.file] > remaining
               ELSE kind[r.file] = "special" \/ r.file \in C
    <3>1. CASE r \in reports
      BY <2>1, <2>4, <3>1 DEF Spent
    <3>2. CASE r = n
      BY <1>6, <2>2, <3>2
    <3>3. QED
      BY <1>6, <3>1, <3>2
  <2>5. Spent(C)'
    BY <1>2, <1>3, <2>1, <2>3, <2>4 DEF Spent
  <2>6. QED
    BY <2>5 DEF BytesIInv
<1>14. QED
  BY <1>2, <1>9, <1>10, <1>11, <1>12, <1>13 DEF IInv, SearchIInv

LEMMA ReadFailsStep == ASSUME IInv, ReadFails PROVE IInv'
<1>1. SearchIInv /\ pc = "read"
  BY DEF ReadFails, IInv
<1>2. PICK f : f = reading.seen[1]
  OBVIOUS
<1>3. reports' = reports \cup {Is(f, "unexamined")} /\ kept' = kept /\ Continue /\ "unexamined" \in Outcome
  BY <1>2 DEF ReadFails, Report, Is, Outcome
<1>4. touched = {} => kind[f] \in {"symlink", "toolarge"}
  BY <1>1, <1>2, ReadingIs DEF ReadFails
<1>5. KeptIInv' /\ kept' \in [verified : SUBSET File, unverified : SUBSET File]
  <2>1. Outcomes("verified")' = Outcomes("verified") /\ Outcomes("unverified")' = Outcomes("unverified")
    BY <1>3 DEF Outcomes, Is
  <2>2. needBase' = needBase
    BY <1>3 DEF Continue, request
  <2>3. QED
    BY <1>1, <1>3, <2>1, <2>2 DEF SearchIInv, KeptIInv, TypeIInv
<1>6. QED
  BY <1>1, <1>2, <1>3, <1>4, <1>5, ReportedStep

LEMMA ReadStep == ASSUME IInv, Read PROVE IInv'
<1>1. SearchIInv /\ TypeIInv /\ KeptIInv /\ pc = "read" /\ Continue
  BY DEF Read, IInv, SearchIInv
<1>2. PICK f : f = reading.seen[1]
  OBVIOUS
<1>3. /\ f \in File /\ ~Reported(f) /\ kind[f] \notin {"symlink", "special"} /\ reading.seen[2] \in BOOLEAN
      /\ reading.seen = <<f, reading.seen[2]>>
  BY <1>1, <1>2, ReadingIs
<1>4. f = entry[reading.slot] /\ (reading.seen[2] <=> f \in touched)
  <2> DEFINE e == entry[reading.slot]
             b == e \in touched
             c == reading.seen[2]
  <2>1. <<e, b>> = <<f, c>>
    BY <1>3 DEF Read, Stamp
  <2> HIDE DEF b, c, e
  <2>2. e = f /\ b = c
    BY <2>1
  <2>3. QED
    BY <2>2 DEF b, c, e
<1>5. needBase' = needBase /\ needBase \in BOOLEAN /\ base \in BOOLEAN
  BY <1>1 DEF Continue, request, TypeIInv
<1>6. kind[f] \in {"match", "other", "malformed", "toolarge"}
  BY <1>1, <1>3 DEF TypeIInv, Kind, Readable
<1>7. \/ kind[f] = "toolarge" /\ Report(f, "unexamined") /\ kept' = kept
      \/ kind[f] = "malformed" /\ Report(f, "rejected") /\ kept' = kept
      \/ kind[f] = "match" /\ base /\ Report(f, "verified") /\ KeepVerified(f)
      \/ ~(kind[f] = "match" /\ base) /\ kind[f] \in {"match", "other"} /\ Report(f, "unverified") /\ KeepUnverified(f)
  <2>1. CASE kind[f] = "toolarge"
    BY <1>4, <2>1 DEF Read
  <2>2. CASE kind[f] = "malformed"
    BY <1>4, <2>2 DEF Read
  <2>3. CASE kind[f] = "match" /\ base
    BY <1>4, <2>3 DEF Read
  <2>4. CASE ~(kind[f] = "match" /\ base) /\ kind[f] \in {"match", "other"}
    BY <1>4, <2>4 DEF Read
  <2>5. QED
    BY <1>6, <2>1, <2>2, <2>3, <2>4
<1>8. \A o : Outcomes(o) \subseteq reports /\ \A r \in Outcomes(o) : r.file # f
  BY <1>3 DEF Outcomes, Reported
<1>9. \A o : Is(f, o).file = f /\ Is(f, o).outcome = o
  BY DEF Is
<1>10. \A g : \A o : Is(f, o) = Is(g, o) => f = g
  BY DEF Is
<1>11. ASSUME NEW o, Report(f, o) PROVE /\ reports' = reports \cup {Is(f, o)}
                                        /\ Outcomes(o)' = Outcomes(o) \cup {Is(f, o)}
                                        /\ \A q : q # o => Outcomes(q)' = Outcomes(q)
  <2>1. reports' = reports \cup {Is(f, o)}
    BY <1>11 DEF Report, Is
  <2>2. QED
    BY <1>9, <2>1 DEF Outcomes
<1>12. CASE kind[f] = "toolarge" /\ Report(f, "unexamined") /\ kept' = kept
  <2>1. KeptIInv' /\ kept' \in [verified : SUBSET File, unverified : SUBSET File]
    BY <1>1, <1>5, <1>11, <1>12 DEF KeptIInv, TypeIInv
  <2>2. "unexamined" \in Outcome
    BY DEF Outcome
  <2>3. QED
    BY <1>1, <1>2, <1>11, <1>12, <2>1, <2>2, ReportedStep
<1>13. CASE kind[f] = "malformed" /\ Report(f, "rejected") /\ kept' = kept
  <2>1. KeptIInv' /\ kept' \in [verified : SUBSET File, unverified : SUBSET File]
    BY <1>1, <1>5, <1>11, <1>13 DEF KeptIInv, TypeIInv
  <2>2. "rejected" \in Outcome /\ Due(f) = "rejected"
    BY <1>1, <1>3, <1>13, DueIs DEF Outcome
  <2>3. QED
    BY <1>1, <1>2, <1>4, <1>11, <1>13, <2>1, <2>2, ReportedStep
<1>14. CASE kind[f] = "match" /\ base /\ Report(f, "verified") /\ KeepVerified(f)
  <2>1. Outcomes("verified")' = Outcomes("verified") \cup {Is(f, "verified")}
    BY <1>11, <1>14
  <2>2. kept' = [verified |-> IF Outcomes("verified") = {} THEN {f} ELSE {}, unverified |-> {}]
    BY <1>14 DEF KeepVerified
  <2>3. kept'.verified = (IF Outcomes("verified") = {} THEN {f} ELSE {}) /\ kept' \in [verified : SUBSET File, unverified : SUBSET File]
    BY <1>3, <2>2
  <2>4. ASSUME NEW g \in File, Outcomes("verified")' = {Is(g, "verified")} PROVE kept'.verified = {g}
    <3>1. f = g
      BY <1>10, <2>1, <2>4
    <3>2. Outcomes("verified") = {}
      BY <1>8, <1>9, <2>1, <2>4, <3>1
    <3>3. QED
      BY <2>3, <3>1, <3>2
  <2>5. Outcomes("verified")' # {}
    BY <2>1
  <2>6. KeptIInv'
    BY <2>4, <2>5 DEF KeptIInv
  <2>7. "verified" \in Outcome /\ Due(f) = "verified"
    BY <1>1, <1>3, <1>14, DueIs DEF Outcome
  <2>8. QED
    BY <1>1, <1>2, <1>4, <1>11, <1>14, <2>3, <2>6, <2>7, ReportedStep
<1>15. CASE ~(kind[f] = "match" /\ base) /\ kind[f] \in {"match", "other"} /\ Report(f, "unverified") /\ KeepUnverified(f)
  <2>1. Outcomes("unverified")' = Outcomes("unverified") \cup {Is(f, "unverified")} /\ Outcomes("verified")' = Outcomes("verified")
    BY <1>11, <1>15
  <2> DEFINE w == IF ~needBase /\ Outcomes("verified") \cup Outcomes("unverified") = {} THEN {f} ELSE {}
  <2>2. kept' = [kept EXCEPT !.unverified = w]
    BY <1>15 DEF KeepUnverified
  <2>3. w \in SUBSET File /\ kept \in [verified : SUBSET File, unverified : SUBSET File]
    BY <1>1, <1>3 DEF TypeIInv
  <2>4. kept'.verified = kept.verified /\ kept'.unverified = w /\ kept' \in [verified : SUBSET File, unverified : SUBSET File]
    <3> HIDE DEF w
    <3>1. QED
      BY <2>2, <2>3
  <2>5. ASSUME NEW g \in File, ~needBase, Outcomes("verified") = {}, Outcomes("unverified")' = {Is(g, "unverified")}
        PROVE  kept'.unverified = {g}
    <3>1. f = g
      BY <1>10, <2>1, <2>5
    <3>2. Outcomes("unverified") = {}
      BY <1>8, <1>9, <2>1, <2>5, <3>1
    <3>3. QED
      BY <2>4, <2>5, <3>1, <3>2
  <2> HIDE DEF w
  <2>6. KeptIInv'
    BY <1>1, <1>5, <2>1, <2>4, <2>5 DEF KeptIInv
  <2>7. "unverified" \in Outcome /\ Due(f) = "unverified"
    BY <1>1, <1>3, <1>15, DueIs DEF Outcome
  <2>8. QED
    BY <1>1, <1>2, <1>4, <1>11, <1>15, <2>4, <2>6, <2>7, ReportedStep
<1>16. QED
  BY <1>7, <1>12, <1>13, <1>14, <1>15

\* The ends: canceled, changed, or chosen.
LEMMA AbandonStep ==
    ASSUME NEW why, Abandon(why), why \in {"changed", "canceled"} \/ why = expected \/ (why = "incomplete" /\ touched # {}),
           touched = {} => why \in {"canceled", expected}
    PROVE  IInv'
<1>1. pc' = "done" /\ answer' = why /\ expected' = expected /\ touched' = touched
  BY DEF Abandon, fs
<1>2. QED
  BY <1>1 DEF IInv, AnswerIsALook, SameForEveryOrder

LEMMA CanceledStep == ASSUME IInv, Canceled PROVE IInv'
BY AbandonStep DEF Canceled

LEMMA ReadChangedStep == ASSUME IInv, ReadChanged PROVE IInv'
<1>1. SearchIInv /\ pc = "read"
  BY DEF ReadChanged, IInv
<1>2. touched # {}
  <2> SUFFICES ASSUME touched = {} PROVE FALSE
    OBVIOUS
  <2>1. /\ entry[reading.slot] = reading.seen[1] /\ reading.seen[2] = FALSE
        /\ reading.seen = <<reading.seen[1], reading.seen[2]>>
    BY <1>1, ReadingIs
  <2>2. Stamp(entry[reading.slot]) = <<reading.seen[1], FALSE>>
    <3> DEFINE e == entry[reading.slot]
               b == e \in touched
    <3>1. Stamp(e) = <<e, b>>
      BY DEF Stamp
    <3>2. ~b /\ b \in BOOLEAN
      OBVIOUS
    <3> HIDE DEF b
    <3>3. b = FALSE
      BY <3>2
    <3>4. QED
      BY <2>1, <3>1, <3>3
  <2>3. QED
    BY <2>1, <2>2 DEF ReadChanged
<1>3. QED
  BY <1>2, AbandonStep DEF ReadChanged

LEMMA BeginRecheckStep == ASSUME IInv, BeginRecheck PROVE IInv'
<1>1. SearchIInv /\ pc = "search" /\ pc' = "recheck" /\ todo = << >> /\ next > Len(Args)
  BY DEF BeginRecheck, IInv
<1>2. /\ UNCHANGED <<fs, request, next, todo, opened, unavailable, probes, reports, remaining, kept, reading>>
      /\ unchecked' = opened \cup probes /\ expected' = Called
  BY DEF BeginRecheck
<1>3. Goes
  BY <1>1, <1>2 DEF Goes, BeingRead
<1>4. names' = names /\ touched' = touched /\ Held' = Held /\ needBase' = needBase
  BY <1>2 DEF fs, Held, request
<1>5. TypeIInv'
  BY <1>1, <1>2 DEF SearchIInv, TypeIInv, fs, request
<1>6. OpenedIInv'
  BY <1>1, <1>2, <1>4 DEF SearchIInv, OpenedIInv, Probed, Reported
<1>7. ProbesIInv'
  BY <1>1, <1>2, <1>3, GoesOn DEF SearchIInv, ProbesIInv
<1>8. ReportsIInv'
  BY <1>1, <1>2, <1>3, GoesOn DEF SearchIInv, ReportsIInv
<1>9. BytesIInv'
  BY <1>1, <1>2, <1>3, SpentGoes DEF SearchIInv, BytesIInv
<1>10. KeptIInv'
  BY <1>1, <1>2, <1>4 DEF SearchIInv, KeptIInv, Outcomes
<1>11. Choice' = Choice /\ Blocked' = Blocked
  BY <1>2 DEF Choice, Blocked, Outcomes, Taken, request
<1>12. \A u : Stands(u)' <=> Stands(u)
  BY <1>2 DEF Stands, Seen, Stamp, fs
<1>13. (\A u \in opened \cup probes : Stands(u)) => Whole
  BY <1>1 DEF Whole, SearchIInv
<1>14. Called = Choice \/ Blocked \/ \E u \in opened \cup probes : ~Stands(u)
  BY <1>1, <1>13, ChoiceIsCalled DEF SearchIInv
<1>15. touched = {} => Called = Choice
  BY <1>1, <1>13, Undisturbed, ChosenInQuiet DEF SearchIInv
<1>16. RecheckIInv'
  BY <1>2, <1>4, <1>11, <1>12, <1>14, <1>15 DEF RecheckIInv
<1>17. QED
  BY <1>1, <1>5, <1>6, <1>7, <1>8, <1>9, <1>10, <1>16 DEF IInv, SearchIInv

LEMMA RecheckHoldsStep == ASSUME IInv, NEW v \in unchecked, RecheckHolds(v) PROVE IInv'
<1>1. SearchIInv /\ RecheckIInv /\ pc = "recheck" /\ pc' = pc
  BY DEF RecheckHolds, IInv, SearchIInv
<1>2. /\ UNCHANGED <<fs, request, next, todo, opened, unavailable, probes, reports, remaining, kept, reading, expected>>
      /\ unchecked' = unchecked \ {v} /\ Stands(v)
  BY DEF RecheckHolds
<1>3. Goes
  BY <1>1, <1>2 DEF Goes, BeingRead
<1>4. names' = names /\ touched' = touched /\ Held' = Held /\ needBase' = needBase
  BY <1>2 DEF fs, Held, request
<1>5. TypeIInv'
  BY <1>1, <1>2 DEF SearchIInv, TypeIInv, fs, request
<1>6. OpenedIInv'
  BY <1>1, <1>2, <1>4 DEF SearchIInv, OpenedIInv, Probed, Reported
<1>7. ProbesIInv'
  BY <1>1, <1>2, <1>3, GoesOn DEF SearchIInv, ProbesIInv
<1>8. ReportsIInv'
  BY <1>1, <1>2, <1>3, GoesOn DEF SearchIInv, ReportsIInv
<1>9. BytesIInv'
  BY <1>1, <1>2, <1>3, SpentGoes DEF SearchIInv, BytesIInv
<1>10. KeptIInv'
  BY <1>1, <1>2, <1>4 DEF SearchIInv, KeptIInv, Outcomes
<1>11. Choice' = Choice /\ Blocked' = Blocked
  BY <1>2 DEF Choice, Blocked, Outcomes, Taken, request
<1>12. \A u : Stands(u)' <=> Stands(u)
  BY <1>2 DEF Stands, Seen, Stamp, fs
<1>13. (\E u \in unchecked : ~Stands(u)) => \E u \in unchecked' : ~Stands(u)'
  BY <1>2, <1>12
<1>14. RecheckIInv'
  BY <1>1, <1>2, <1>4, <1>11, <1>13 DEF RecheckIInv
<1>15. QED
  BY <1>1, <1>5, <1>6, <1>7, <1>8, <1>9, <1>10, <1>14 DEF IInv, SearchIInv

LEMMA RecheckFailsStep == ASSUME IInv, NEW v \in unchecked, RecheckFails(v) PROVE IInv'
<1>1. SearchIInv /\ RecheckIInv
  BY DEF RecheckFails, IInv, SearchIInv
<1>2. touched # {}
  BY <1>1, Undisturbed DEF RecheckFails, RecheckIInv, SearchIInv
<1>3. QED
  BY <1>2, AbandonStep DEF RecheckFails

LEMMA ChooseStep == ASSUME IInv, Choose PROVE IInv'
<1>1. SearchIInv /\ RecheckIInv /\ unchecked = {} /\ Abandon(Choice)
  BY DEF Choose, IInv, SearchIInv
<1>2. Blocked => Choice = "incomplete"
  BY DEF Blocked, Choice
<1>3. expected = Choice \/ (Choice = "incomplete" /\ touched # {})
  BY <1>1, <1>2 DEF RecheckIInv
<1>4. touched = {} => Choice = expected
  BY <1>1 DEF RecheckIInv
<1>5. PICK why : why = Choice
  OBVIOUS
<1>6. QED
  BY <1>1, <1>3, <1>4, <1>5, AbandonStep

LEMMA StartsSo == Init => IInv
<1> SUFFICES ASSUME Init PROVE IInv
  OBVIOUS
<1>1. Len(Args) \in Nat /\ Args # << >> /\ Args \in Seq(Path)
  BY SearchAssumption, LenProperties
<1>2. TypeIInv
  <2>1. limit \in Nat /\ next \in 1..Len(Args) + 1
    <3> DEFINE n == Len(Args)
    <3>1. n \in Nat /\ next = 1
      BY <1>1 DEF Init
    <3> HIDE DEF n
    <3>2. next \in 1..n + 1
      BY ONLY <3>1
    <3>3. limit \in Nat
      BY SearchAssumption DEF Init
    <3>4. QED
      BY <3>2, <3>3 DEF n
  <2>2. todo \in Seq(Slot) /\ unavailable \in BOOLEAN /\ kept \in [verified : SUBSET File, unverified : SUBSET File]
    <3>1. todo = << >> /\ unavailable = FALSE /\ kept = [verified |-> {}, unverified |-> {}]
      BY DEF Init
    <3>2. << >> \in Seq(Slot)
      BY EmptySeq
    <3>3. [verified |-> {}, unverified |-> {}] \in [verified : SUBSET File, unverified : SUBSET File]
      OBVIOUS
    <3>4. QED
      BY <3>1, <3>2, <3>3
  <2>3. /\ names \in [Path -> Dir \cup {NoDir}]
        /\ entry \in [Slot -> File \cup {Absent, Denied}]
        /\ kind \in [File -> Kind]
        /\ needBase \in BOOLEAN /\ base \in BOOLEAN /\ (needBase => base)
        /\ opened = {} /\ probes = {} /\ reports = {}
    BY DEF Init
  <2>4. QED
    BY <2>1, <2>2, <2>3 DEF TypeIInv
<1>3. Held = {}
  BY DEF Init, Held
<1>4. OpenedIInv
  BY <1>3 DEF Init, OpenedIInv
<1>5. ProbesIInv /\ ReportsIInv
  BY DEF Init, ProbesIInv, ReportsIInv
<1>6. BytesIInv
  <2>1. Spent({})
    BY <1>2, Totals DEF Init, Spent, TypeIInv
  <2>2. QED
    BY <2>1 DEF BytesIInv
<1>7. KeptIInv
  BY DEF Init, KeptIInv, Outcomes
<1>8. QED
  BY <1>2, <1>4, <1>5, <1>6, <1>7 DEF Init, IInv, SearchIInv

LEMMA GoesOnSo == IInv /\ [Next]_vars => IInv'
<1> SUFFICES ASSUME IInv, [Next]_vars PROVE IInv'
  OBVIOUS
<1>1. CASE Step
  BY <1>1, OpenFailsStep, OpenStep, LookUpFailsStep, LookUpStep, ReadFailsStep, ReadChangedStep, ReadStep, CanceledStep,
     BeginRecheckStep, RecheckHoldsStep, RecheckFailsStep, ChooseStep DEF Step
<1>2. CASE Edit
  BY <1>2, EditStep
<1>3. CASE UNCHANGED vars
  <2>1. UNCHANGED <<names, entry, kind, touched, needBase, base, limit, pc, next, todo, opened, unavailable, probes, reports,
                    remaining, kept, reading, unchecked, answer, expected>>
    BY <1>3 DEF vars, fs, request, search
  <2>2. TypeIInv' = TypeIInv /\ OpenedIInv' = OpenedIInv /\ KeptIInv' = KeptIInv
    BY <2>1 DEF TypeIInv, OpenedIInv, KeptIInv, Held, Probed, Reported, Outcomes
  <2>3. ProbesIInv' = ProbesIInv /\ ReportsIInv' = ReportsIInv /\ BytesIInv' = BytesIInv
    BY <2>1 DEF ProbesIInv, ReportsIInv, BytesIInv, Spent, Held, Before, Reported, BeingRead, Founded, FoundAt, Due
  <2>4. RecheckIInv' = RecheckIInv
    BY <2>1 DEF RecheckIInv, Choice, Taken, Outcomes, Blocked, Stands, Seen, Stamp
  <2>5. QED
    BY <2>1, <2>2, <2>3, <2>4 DEF IInv, SearchIInv, AnswerIsALook, SameForEveryOrder
<1>4. QED
  BY <1>1, <1>2, <1>3 DEF Next, Finished

\* Whatever changed while the directories were searched one by one, an answer
\* that is not a refusal is what the rules say of the file system at one
\* moment: search.go's recheck finds everything that no longer stands.
THEOREM AnswersAreLooks == Spec => []AnswerIsALook
<1>1. IInv => AnswerIsALook
  BY DEF IInv, AnswerIsALook
<1>2. QED
  BY StartsSo, GoesOnSo, <1>1, PTL DEF Spec

\* Where nothing changes, the answer is that of the rules, which know of no
\* order of directories and no budget drawn down: search.go and choose.go.
THEOREM OrderDoesNotMatter == Spec => []SameForEveryOrder
<1>1. IInv => SameForEveryOrder
  BY DEF IInv, SameForEveryOrder
<1>2. QED
  BY StartsSo, GoesOnSo, <1>1, PTL DEF Spec
=============================================================================
