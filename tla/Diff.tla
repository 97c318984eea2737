-------------------------------- MODULE Diff ---------------------------------
(* The line diff, internal/diff: the alignment of two states with its stack *)
(* of regions, Myers' search from both corners, the anchoring it falls back *)
(* to when the effort runs out, and the hunks made of the result.           *)
(*                                                                          *)
(* A line stands for its identifier: the table that numbers lines, and the  *)
(* goroutines that look the right-hand ones up, give equal lines equal      *)
(* numbers. Indexes count from zero, as in the code. Cancellation, which    *)
(* ends a comparison with an error anywhere, is left out.                   *)
EXTENDS Integers, Sequences, FiniteSets, FiniteSetsExt, SequencesExt

CONSTANTS
    Inputs,       \* pairs of states to compare
    Efforts,      \* values of exactEffort and totalEffort
    SmallRegion,
    ContextLines

ASSUME DiffAssumption ==
    /\ \A p \in Inputs : p[1] \in Seq(Nat) /\ p[2] \in Seq(Nat)
    /\ \A e \in Efforts : e.exact \in Nat /\ e.total \in Nat
    /\ SmallRegion \in Nat
    /\ ContextLines \in Nat

VARIABLES
    left, right,
    limits,       \* exactEffort and totalEffort
    effort,
    pc,
    trimmed,      \* lines of the common prefix and suffix
    a, b,         \* region indexes of the lines both sides have
    stack,        \* tasks, the next one last
    out,          \* matched pairs of positions in a and b, in order
    region,       \* the task being split
    myers,        \* bisect's frontiers and loop variables
    anchor,       \* anchoring: pairs, chains and the loop's position
    script,       \* the builder's runs and cursors, and the loop's position
    open,         \* runs of the hunk being made
    hunks

input == <<left, right, limits>>
lines == <<trimmed, a, b>>
alignment == <<stack, out, region>>
result == <<script, open, hunks>>
vars == <<input, effort, pc, lines, alignment, myers, anchor, result>>

None == << >>
L(i) == left[i + 1]
R(j) == right[j + 1]

(* Lines of the alignment, by position in a and b.                          *)
X(i) == L(trimmed.prefix + a[i + 1])
Y(j) == R(trimmed.prefix + b[j + 1])

Init ==
    /\ \E p \in Inputs : left = p[1] /\ right = p[2]
    /\ limits \in Efforts
    /\ effort = 0
    /\ pc = "script"
    /\ trimmed = [prefix |-> 0, suffix |-> 0]
    /\ a = << >> /\ b = << >>
    /\ stack = << >>
    /\ out = << >>
    /\ region = None
    /\ myers = None
    /\ anchor = None
    /\ script = [runs |-> << >>, left |-> 0, right |-> 0, next |-> 1]
    /\ open = << >>
    /\ hunks = << >>

------------------------------------------------------------------------------
(* script and matches: trimming, and dropping lines only one side has.      *)

Lesser(m, n) == IF m < n THEN m ELSE n

(* How many lines match from the start; s and t give a line by its offset.  *)
Common(most, s(_), t(_)) ==
    Max({k \in 0..most : \A i \in 0..(k - 1) : s(i) = t(i)})

(* Some of the first n positions, in order.                                 *)
InOrder(n, positions) ==
    LET upto[k \in 0..n] ==
            IF k = 0 THEN << >>
            ELSE IF k - 1 \in positions THEN Append(upto[k - 1], k - 1) ELSE upto[k - 1]
    IN upto[n]

Kept(n, line(_), others) == InOrder(n, {i \in 0..(n - 1) : line(i) \in others})

Script ==
    /\ pc = "script"
    /\ LET shorter == Lesser(Len(left), Len(right))
           prefix == Common(shorter, L, R)
           suffix == Common(shorter - prefix, LAMBDA i : L(Len(left) - 1 - i),
                                              LAMBDA j : R(Len(right) - 1 - j))
           n == Len(left) - prefix - suffix
           m == Len(right) - prefix - suffix
           texts(from, count, line(_)) == {line(from + i) : i \in 0..(count - 1)}
       IN
        /\ trimmed' = [prefix |-> prefix, suffix |-> suffix]
        /\ a' = Kept(n, LAMBDA i : L(prefix + i), texts(prefix, m, R))
        /\ b' = Kept(m, LAMBDA j : R(prefix + j), texts(prefix, n, L))
    /\ stack' = IF a' = << >> \/ b' = << >> THEN << >>
                ELSE <<[a0 |-> 0, a1 |-> Len(a'), b0 |-> 0, b1 |-> Len(b'), match |-> FALSE]>>
    /\ pc' = "align"
    /\ UNCHANGED <<input, effort, out, region, myers, anchor, result>>

------------------------------------------------------------------------------
(* align: one task of the stack at a time.                                  *)

Task(a0, a1, b0, b1) == [a0 |-> a0, a1 |-> a1, b0 |-> b0, b1 |-> b1, match |-> FALSE]
Match(a0, b0, count) == [a0 |-> a0, a1 |-> a0 + count, b0 |-> b0, b1 |-> b0 + count, match |-> TRUE]
Pairs(t) == [i \in 1..(t.a1 - t.a0) |-> <<t.a0 + i - 1, t.b0 + i - 1>>]

Aligning == pc = "align" /\ stack # << >>
Top == Last(stack)

EmitMatch ==
    /\ Aligning
    /\ Top.match
    /\ out' = out \o Pairs(Top)
    /\ stack' = Front(stack)
    /\ UNCHANGED <<input, effort, pc, lines, region, myers, anchor, result>>

(* A region is trimmed; its suffix is emitted after its parts.              *)
Trim ==
    /\ Aligning
    /\ ~Top.match
    /\ LET t == Top
           shorter == Lesser(t.a1 - t.a0, t.b1 - t.b0)
           prefix == Common(shorter, LAMBDA i : X(t.a0 + i), LAMBDA j : Y(t.b0 + j))
           suffix == Common(shorter - prefix, LAMBDA i : X(t.a1 - 1 - i), LAMBDA j : Y(t.b1 - 1 - j))
       IN
        /\ out' = out \o Pairs(Match(t.a0, t.b0, prefix))
        /\ region' = Task(t.a0 + prefix, t.a1 - suffix, t.b0 + prefix, t.b1 - suffix)
        /\ stack' = IF suffix = 0 THEN Front(stack)
                    ELSE Append(Front(stack), Match(t.a1 - suffix, t.b1 - suffix, suffix))
    /\ pc' = "split"
    /\ UNCHANGED <<input, effort, lines, myers, anchor, result>>

------------------------------------------------------------------------------
(* split.                                                                   *)

Width == region.a1 - region.a0
Height == region.b1 - region.b0
x(i) == X(region.a0 + i)
y(j) == Y(region.b0 + j)

(* The parts replace the region, the first one on top.                      *)
Into(parts) ==
    /\ stack' = stack \o Reverse(parts)
    /\ pc' = "align"
    /\ region' = None
    /\ myers' = None
    /\ anchor' = None
    /\ UNCHANGED <<input, lines, out, result>>

Splitting == pc = "split"

(* A side is empty, or one line meets its first copy.                       *)
SplitLine ==
    /\ Splitting
    /\ Width <= 1 \/ Height <= 1
    /\ LET copies == {p \in (0..(Width - 1)) \X (0..(Height - 1)) : x(p[1]) = y(p[2])} IN
        IF copies = {} THEN Into(<< >>)
        ELSE LET first == CHOOSE p \in copies : \A q \in copies : p[1] + p[2] <= q[1] + q[2]
             IN Into(<<Match(region.a0 + first[1], region.b0 + first[2], 1)>>)
    /\ UNCHANGED effort

Wide == Splitting /\ Width > 1 /\ Height > 1
Exact == effort < limits.exact
Small == Width + Height <= SmallRegion /\ effort < limits.total

(* bisect begins: both frontiers stand on the first diagonal. Diagonals are *)
(* numbered from -MaxD.                                                     *)
MaxD == (Width + Height + 1) \div 2
Frontier == [k \in -MaxD..(MaxD - 1) |-> IF k = 1 THEN 0 ELSE -1]

BeginBisect ==
    /\ Wide
    /\ Exact \/ Small
    /\ myers' = [forward |-> Frontier, backward |-> Frontier, d |-> 0, k |-> 0, at |-> "round",
                 limit |-> IF Exact THEN limits.exact ELSE limits.total,
                 fStart |-> 0, fEnd |-> 0, bStart |-> 0, bEnd |-> 0]
    /\ effort' = effort + 2 * MaxD
    /\ pc' = "bisect"
    /\ UNCHANGED <<input, lines, alignment, anchor, result>>

------------------------------------------------------------------------------
(* bisect: rounds, and in each the forward and then the backward diagonals. *)

Bisecting(at) == pc = "bisect" /\ myers.at = at

(* All rounds used up: the region has no line in common.                    *)
NoCommonLine ==
    /\ Bisecting("round")
    /\ myers.d = MaxD
    /\ Into(<< >>)
    /\ UNCHANGED effort

OutOfEffort ==
    /\ Bisecting("round")
    /\ myers.d < MaxD
    /\ effort >= myers.limit
    /\ pc' = "exhausted"
    /\ UNCHANGED <<input, effort, lines, alignment, myers, anchor, result>>

Search(m) ==
    /\ myers' = m
    /\ UNCHANGED <<input, pc, lines, alignment, anchor, result>>

Round ==
    /\ Bisecting("round")
    /\ myers.d < MaxD
    /\ effort < myers.limit
    /\ Search([myers EXCEPT !.at = "forward", !.k = -myers.d + myers.fStart])
    /\ UNCHANGED effort

Turn ==
    /\ Bisecting("forward")
    /\ myers.k > myers.d - myers.fEnd
    /\ Search([myers EXCEPT !.at = "backward", !.k = -myers.d + myers.bStart])
    /\ UNCHANGED effort

RoundEnds ==
    /\ Bisecting("backward")
    /\ myers.k > myers.d - myers.bEnd
    /\ Search([myers EXCEPT !.at = "round", !.d = @ + 1])
    /\ UNCHANGED effort

(* Where diagonal k is entered: from the neighbour that reached further.    *)
Entered(f, k) ==
    IF k = -myers.d \/ (k # myers.d /\ f[k - 1] < f[k + 1]) THEN f[k + 1] ELSE f[k - 1] + 1

Delta == Width - Height
Odd == Delta % 2 # 0

(* Fault: the frontiers have to pass each other.                            *)
MeetsPast(px, k, other) == k \in DOMAIN other /\ other[k] # -1 /\ px > Width - other[k]

(* A path that reached px meets the other frontier's path on its diagonal.  *)
Meets(px, k, other) == k \in DOMAIN other /\ other[k] # -1 /\ px >= Width - other[k]

(* checkSplit panics unless both parts are smaller than the region.         *)
SplitAt(px, py) ==
    IF px \in 0..Width /\ py \in 0..Height /\ px + py \notin {0, Width + Height}
    THEN Into(<<Task(region.a0, region.a0 + px, region.b0, region.b0 + py),
                Task(region.a0 + px, region.a1, region.b0 + py, region.b1)>>)
    ELSE pc' = "panic" /\ UNCHANGED <<input, lines, alignment, myers, anchor, result>>

Follow(px, py, line(_), other(_)) ==
    Common(Max({0, Lesser(Width - px, Height - py)}),
           LAMBDA i : line(px + i), LAMBDA j : other(py + j))

Forward ==
    /\ Bisecting("forward")
    /\ myers.k <= myers.d - myers.fEnd
    /\ LET k == myers.k
           entered == Entered(myers.forward, k)
           snake == Follow(entered, entered - k, x, y)
           px == entered + snake
           py == px - k
           next == [myers EXCEPT !.forward[k] = px, !.k = k + 2]
       IN
        /\ effort' = effort + 1 + snake
        /\ \/ px > Width /\ Search([next EXCEPT !.fEnd = @ + 2])
           \/ px <= Width /\ py > Height /\ Search([next EXCEPT !.fStart = @ + 2])
           \/ /\ px <= Width /\ py <= Height
              /\ IF Odd /\ Meets(px, Delta - k, myers.backward)
                 THEN SplitAt(px, py) ELSE Search(next)

Backward ==
    /\ Bisecting("backward")
    /\ myers.k <= myers.d - myers.bEnd
    /\ LET k == myers.k
           entered == Entered(myers.backward, k)
           snake == Follow(entered, entered - k, LAMBDA i : x(Width - i - 1),
                                                 LAMBDA j : y(Height - j - 1))
           qx == entered + snake
           qy == qx - k
           next == [myers EXCEPT !.backward[k] = qx, !.k = k + 2]
           px == myers.forward[Delta - k]
       IN
        /\ effort' = effort + 1 + snake
        /\ \/ qx > Width /\ Search([next EXCEPT !.bEnd = @ + 2])
           \/ qx <= Width /\ qy > Height /\ Search([next EXCEPT !.bStart = @ + 2])
           \/ /\ qx <= Width /\ qy <= Height
              /\ IF ~Odd /\ Meets(qx, Delta - k, myers.forward)
                 THEN SplitAt(px, px - (Delta - k)) ELSE Search(next)

------------------------------------------------------------------------------
(* Without the exact search: anchors, or a plain change.                    *)

(* Fault: a search that gave up is taken for one that has split the region. *)
NeverSearched == Wide /\ ~Exact /\ ~Small

Unsearched == pc = "exhausted" \/ (Wide /\ ~Exact /\ ~Small)

Plain ==
    /\ Unsearched
    /\ effort >= limits.total
    /\ Into(<< >>)
    /\ UNCHANGED effort

OnceIn(line, n, at(_)) == Cardinality({i \in 0..(n - 1) : at(i) = line}) = 1

(* Lines that occur once on each side, in left order.                       *)
Unique ==
    LET i0 == InOrder(Width, {i \in 0..(Width - 1) : OnceIn(x(i), Width, x) /\ OnceIn(x(i), Height, y)})
    IN [n \in 1..Len(i0) |-> <<i0[n], CHOOSE j \in 0..(Height - 1) : y(j) = x(i0[n])>>]

BeginAnchor ==
    /\ Unsearched
    /\ effort < limits.total
    /\ anchor' = [pairs |-> Unique, chains |-> << >>, next |-> 1]
    /\ effort' = effort + 3 * (Width + Height)
    /\ pc' = "anchor"
    /\ UNCHANGED <<input, lines, alignment, myers, result>>

(* Patience: chains[k] is the chain of k pairs whose last right index is    *)
(* least so far. Each pair extends the longest chain it can, and takes the  *)
(* place of the one that was as long.                                       *)
AnchorPair ==
    /\ pc = "anchor"
    /\ anchor.next <= Len(anchor.pairs)
    /\ LET p == anchor.pairs[anchor.next]
           k == Cardinality({c \in DOMAIN anchor.chains : Last(anchor.chains[c])[2] < p[2]})
           chain == IF k = 0 THEN <<p>> ELSE Append(anchor.chains[k], p)
       IN anchor' = [anchor EXCEPT !.next = @ + 1, !.chains =
                       [c \in (DOMAIN @) \cup {k + 1} |-> IF c = k + 1 THEN chain ELSE @[c]]]
    /\ UNCHANGED <<input, effort, pc, lines, alignment, myers, result>>

(* The anchors as matches, and what lies between them as regions.           *)
Anchors(chain) ==
    LET from(n) == IF n = 1 THEN <<0, 0>> ELSE <<chain[n - 1][1] + 1, chain[n - 1][2] + 1>>
        gap(p, q) == IF p = q THEN << >>
                     ELSE <<Task(region.a0 + p[1], region.a0 + q[1], region.b0 + p[2], region.b0 + q[2])>>
        part(n) == gap(from(n), chain[n]) \o <<Match(region.a0 + chain[n][1], region.b0 + chain[n][2], 1)>>
    IN FlattenSeq([n \in DOMAIN chain |-> part(n)]) \o gap(from(Len(chain) + 1), <<Width, Height>>)

OrNothing(chains) == IF chains = << >> THEN << >> ELSE Anchors(Last(chains))

AnchorSplit ==
    /\ pc = "anchor"
    /\ anchor.next > Len(anchor.pairs)
    /\ Into(OrNothing(anchor.chains))
    /\ effort' = effort + 16 * Len(anchor.pairs)

------------------------------------------------------------------------------
(* The edit script, one match at a time.                                    *)

Run(op, l, r, count) == [op |-> op, left |-> l, right |-> r, count |-> count]

(* builder.gap: what is unmatched, deletions first.                         *)
NonEmpty(run) == IF run.count = 0 THEN << >> ELSE <<run>>
Gap(l, r) ==
    NonEmpty(Run("delete", script.left, script.right, l - script.left))
    \o NonEmpty(Run("insert", l, script.right, r - script.right))

(* builder.equal, for a match of one line.                                  *)
Equal(l, r) ==
    LET runs == script.runs \o Gap(l, r)
        n == Len(runs)
    IN IF n # 0 /\ runs[n].op = "equal" THEN [runs EXCEPT ![n].count = @ + 1]
       ELSE Append(runs, Run("equal", l, r, 1))

(* Every matched pair of lines, prefix and suffix included.                 *)
Matches ==
    [i \in 1..trimmed.prefix |-> <<i - 1, i - 1>>]
    \o [i \in DOMAIN out |-> <<trimmed.prefix + a[out[i][1] + 1], trimmed.prefix + b[out[i][2] + 1]>>]
    \o [i \in 1..trimmed.suffix |-> <<Len(left) - trimmed.suffix + i - 1, Len(right) - trimmed.suffix + i - 1>>]

Aligned ==
    /\ pc = "align"
    /\ stack = << >>
    /\ pc' = "build"
    /\ UNCHANGED <<input, effort, lines, alignment, myers, anchor, result>>

AddMatch ==
    /\ pc = "build"
    /\ script.next <= Len(Matches)
    /\ LET m == Matches[script.next] IN
        script' = [runs |-> Equal(m[1], m[2]), left |-> m[1] + 1, right |-> m[2] + 1,
                   next |-> script.next + 1]
    /\ UNCHANGED <<input, effort, pc, lines, alignment, myers, anchor, open, hunks>>

AddRest ==
    /\ pc = "build"
    /\ script.next > Len(Matches)
    /\ script' = [runs |-> script.runs \o Gap(Len(left), Len(right)),
                  left |-> Len(left), right |-> Len(right), next |-> 1]
    /\ pc' = "group"
    /\ UNCHANGED <<input, effort, lines, alignment, myers, anchor, open, hunks>>

------------------------------------------------------------------------------
(* group, one run at a time.                                                *)

HeadOf(run) == [run EXCEPT !.count = Lesser(@, ContextLines)]
TailOf(run) ==
    LET skip == run.count - Lesser(run.count, ContextLines)
    IN Run(run.op, run.left + skip, run.right + skip, run.count - skip)

Count(runs, ops) ==
    LET upto[i \in 0..Len(runs)] ==
            IF i = 0 THEN 0
            ELSE upto[i - 1] + (IF runs[i].op \in ops THEN runs[i].count ELSE 0)
    IN upto[Len(runs)]

Hunk(runs) ==
    [leftStart |-> runs[1].left, rightStart |-> runs[1].right, runs |-> runs,
     leftCount |-> Count(runs, {"equal", "delete"}), rightCount |-> Count(runs, {"equal", "insert"})]

(* Fault: the context before a change is kept whole.                        *)
AfterDistant(run) == <<run>>

AfterLong(run) == <<TailOf(run)>>

Group(run, first, last) ==
    IF run.op # "equal" \/ (~first /\ ~last /\ run.count <= 2 * ContextLines)
    THEN open' = Append(open, run) /\ UNCHANGED hunks
    ELSE IF first /\ last THEN UNCHANGED <<open, hunks>>
    ELSE IF first THEN open' = AfterLong(run) /\ UNCHANGED hunks
    ELSE IF last THEN open' = Append(open, HeadOf(run)) /\ UNCHANGED hunks
    ELSE /\ hunks' = Append(hunks, Hunk(Append(open, HeadOf(run))))
         /\ open' = AfterLong(run)

GroupRun ==
    /\ pc = "group"
    /\ script.next <= Len(script.runs)
    /\ Group(script.runs[script.next], script.next = 1, script.next = Len(script.runs))
    /\ script' = [script EXCEPT !.next = @ + 1]
    /\ UNCHANGED <<input, effort, pc, lines, alignment, myers, anchor>>

GroupRest ==
    /\ pc = "group"
    /\ script.next > Len(script.runs)
    /\ hunks' = IF open = << >> THEN hunks ELSE Append(hunks, Hunk(open))
    /\ open' = << >>
    /\ pc' = "done"
    /\ UNCHANGED <<input, effort, lines, alignment, myers, anchor, script>>

Next ==
    \/ Script \/ EmitMatch \/ Trim \/ SplitLine
    \/ BeginBisect \/ NoCommonLine \/ OutOfEffort \/ Round \/ Turn \/ RoundEnds
    \/ Forward \/ Backward
    \/ Plain \/ BeginAnchor \/ AnchorPair \/ AnchorSplit
    \/ Aligned \/ AddMatch \/ AddRest \/ GroupRun \/ GroupRest

Spec == Init /\ [][Next]_vars

FairSpec == Spec /\ WF_vars(Next)

------------------------------------------------------------------------------
(* Applying the hunks to the left state, as patch does, gives the right one: *)
(* what lies between hunks is the same on both sides, each hunk starts where *)
(* its header says, its context and deletions are the lines the left state   *)
(* has there, its context and insertions those of the right state, it        *)
(* changes something and it carries no more context than promised.           *)
Slice(s, from, to) == SubSeq(s, from + 1, to)
Shown(h, ops) ==
    LET line(run, i) == IF run.op = "insert" THEN R(run.right + i - 1) ELSE L(run.left + i - 1)
    IN FlattenSeq([n \in DOMAIN h.runs |->
           IF h.runs[n].op \in ops THEN [i \in 1..h.runs[n].count |-> line(h.runs[n], i)] ELSE << >>])
Context(run) == IF run.op = "equal" THEN run.count ELSE 0

EndOf(n) == IF n = 0 THEN <<0, 0>>
            ELSE <<hunks[n].leftStart + hunks[n].leftCount, hunks[n].rightStart + hunks[n].rightCount>>
StartOf(n) == IF n > Len(hunks) THEN <<Len(left), Len(right)>>
              ELSE <<hunks[n].leftStart, hunks[n].rightStart>>

HunksPatchLeftIntoRight ==
    pc = "done" =>
        /\ \A n \in 1..(Len(hunks) + 1) :
            /\ EndOf(n - 1)[1] <= StartOf(n)[1]
            /\ Slice(left, EndOf(n - 1)[1], StartOf(n)[1]) = Slice(right, EndOf(n - 1)[2], StartOf(n)[2])
        /\ \A n \in DOMAIN hunks :
            LET h == hunks[n] IN
            /\ Shown(h, {"equal", "delete"}) = Slice(left, StartOf(n)[1], EndOf(n)[1])
            /\ Shown(h, {"equal", "insert"}) = Slice(right, StartOf(n)[2], EndOf(n)[2])
            /\ Count(h.runs, {"delete", "insert"}) > 0
            /\ Context(h.runs[1]) <= ContextLines
            /\ Context(Last(h.runs)) <= ContextLines

(* Length of a longest common subsequence of the first i and j lines.       *)
Longest[i \in Nat, j \in Nat] ==
    IF i = 0 \/ j = 0 THEN 0
    ELSE IF left[i] = right[j] THEN Longest[i - 1, j - 1] + 1
    ELSE Max({Longest[i - 1, j], Longest[i, j - 1]})

(* A comparison that stayed within the exact effort has a minimal diff.     *)
MinimalWithinEffort ==
    pc = "done" /\ effort < limits.exact =>
        Len(Matches) = Longest[Len(left), Len(right)]

(* Every comparison ends with hunks, without a panic: every split leaves    *)
(* smaller regions, whatever stage the effort allows.                       *)
Ends == <>(pc = "done")

==============================================================================
