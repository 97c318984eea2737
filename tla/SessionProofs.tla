---------------------------- MODULE SessionProofs ----------------------------
(* A session of the browser: how the program that runs it ends, and the      *)
(* documents its worker holds meanwhile.                                     *)
(*                                                                          *)
(* However signals, keys, results and failures meet at the end of the        *)
(* browser, and whichever signals there are, the process exits with a true   *)
(* status and leaves nothing behind. The way out is a fixed order of steps   *)
(* of the main goroutine, so WayOut says for each of its places what is      *)
(* still running; Accounts says what the outcome knows by then.              *)
(*                                                                          *)
(* The cache answers for one load only, its parts agree at every step of     *)
(* put's loop, and the nodes most recently used stay for as long as they fit: *)
(* for every session, node, charge and budget.                               *)
(* The workspace holds the text that its edits make, within its bounds, for  *)
(* every chunk size, line limit and set of texts.                           *)
(* The screen is never scrolled outside what it shows, whatever is shown.     *)
(*                                                                          *)
(* The list held is shown to be the first Len(recent) of all the nodes of    *)
(* this owner by last use (ListIInv), and every longer beginning of that    *)
(* history to be over the budget (FullIInv): an entry leaves only when it   *)
(* and what was used after it no longer fit. What a list costs is recursive *)
(* along the list; Foundations.tla carries the arithmetic over it.          *)
(*                                                                          *)
(* The chunks are shown to tile the text (Tiles): chunk i has the lines     *)
(* between two marks. Every operation is then stated over marks: find, what *)
(* bytesIn adds up, what a rebuild keeps, and the chunks an edit leaves.     *)
(*                                                                          *)
(* What is shown is shown to be prepared content, so that its rows and      *)
(* widths are numbers, and each scroll position to fit the length of what   *)
(* it scrolls (PaneIInv).                                                   *)
EXTENDS Program, Cache, Text, Screen, Foundations

\* What runs at each place of the main goroutine.
WayOut ==
    /\ main \in {"browse", "notify", "run", "stop", "close", "join", "worker", "report", "done"}
    /\ (status = None) = (main # "done")
    /\ main = "browse" => ~working
    /\ main \in {"browse", "notify"} => relay = "unborn"
    /\ notified => main \in {"run", "stop"}
    /\ owned => main = "run" /\ notified /\ ~killed
    /\ main \in {"run", "stop"} => notified
    /\ main \in {"worker", "report"} => relay = "gone"
    /\ main = "report" => ~working
    /\ main = "done" => relay \in {"unborn", "gone"} /\ ~working

\* What is known of the signals, and of what ended the program.
Accounts ==
    /\ sent \subseteq Signals
    /\ signals \in {<<>>} \cup {<<s>> : s \in sent}
    /\ outcome \in [signal : {None} \cup sent, interrupted : BOOLEAN]
    /\ fatal \in {"none", "load", "crash"}
    /\ "signal" \in messages \/ endedBy = "signal" => outcome.signal # None
    /\ "fatal" \in messages \/ endedBy = "fatal" => fatal # "none"
    /\ main \in {"browse", "notify"} => endedBy = "none"
    /\ main # "done" =>
        /\ endedBy \in {"none", "q", "ctrl+c", "fatal", "signal", "failed"}
        /\ err \in {"none", "interrupted", "failed"}
        /\ err = "interrupted" <=> endedBy = "ctrl+c"
        /\ err = "failed" <=> endedBy = "failed"
    /\ main \in {"stop", "close", "join", "worker", "report"} => endedBy # "none"
    /\ OutcomeIsTrue

IInv == WayOut /\ Accounts

LEMMA IInvInit == Init => IInv
BY DEF Init, IInv, WayOut, Accounts, OutcomeIsTrue, None

\* The status that Report leaves is a true one.
LEMMA TrueStatus ==
    ASSUME WayOut, Accounts, main = "report"
    PROVE  LET code == Status
           IN /\ code = exitSuccess => endedBy = "q"
              /\ code = exitFailure <=> (endedBy = "failed" \/ fatal # "none")
              /\ code \in {exitSuccess, exitFailure, exitInterrupt} \cup {128 + s : s \in sent}
              /\ code = exitInterrupt => endedBy = "ctrl+c" \/ exitInterrupt - 128 \in sent
              /\ endedBy = "signal" => code \in {exitFailure} \cup {128 + s : s \in sent}
<1> USE DEF exitSuccess, exitFailure, exitInterrupt, None
<1>1. /\ endedBy \in {"q", "ctrl+c", "fatal", "signal", "failed"}
      /\ endedBy = "fatal" => fatal # "none"
      /\ endedBy = "signal" => outcome.signal # None
      /\ outcome.signal \in {None} \cup sent
      /\ sent \subseteq Nat \ {0}
      /\ fatal \in Fatal <=> fatal # "none"
  BY ProgramAssumption DEF Accounts, Fatal
<1>2. CASE err = "failed" \/ fatal \in Fatal
  <2>1. Status = exitFailure
    BY <1>2 DEF Status
  <2>2. endedBy = "failed" \/ fatal # "none"
    BY <1>1, <1>2 DEF Accounts
  <2>3. QED
    BY <2>1, <2>2
<1>3. CASE ~(err = "failed" \/ fatal \in Fatal) /\ outcome.signal # None
  <2>1. Status = 128 + outcome.signal /\ outcome.signal \in sent /\ outcome.signal \in Nat \ {0}
    BY <1>1, <1>3 DEF Status
  <2>2. endedBy # "failed" /\ fatal = "none"
    BY <1>1, <1>3 DEF Accounts
  <2>3. QED
    BY <2>1, <2>2
<1>4. CASE ~(err = "failed" \/ fatal \in Fatal) /\ outcome.signal = None
  <2>1. Status = IF err = "interrupted" THEN exitInterrupt ELSE exitSuccess
    BY <1>4 DEF Status
  <2>2. endedBy \in {"q", "ctrl+c"} /\ fatal = "none" /\ (err = "interrupted" <=> endedBy = "ctrl+c")
    BY <1>1, <1>4 DEF Accounts
  <2>3. QED
    BY <2>1, <2>2
<1>5. QED
  BY <1>2, <1>3, <1>4

LEMMA WayOutNext == WayOut /\ Accounts /\ [Next]_vars => WayOut'
<1> SUFFICES ASSUME WayOut, Accounts, [Next]_vars PROVE WayOut'
  OBVIOUS
<1> USE DEF WayOut, Alive, mainVars, uiVars
<1>1. CASE Refuse
  BY <1>1 DEF Refuse, Exit, exitSuccess, exitFailure, exitUsage, None
<1>2. CASE FailEarly
  BY <1>2 DEF FailEarly, Exit, exitFailure, None
<1>3. CASE StartWorker
  BY <1>3 DEF StartWorker
<1>4. CASE Notify
  BY <1>4 DEF Notify
<1>5. CASE Own
  BY <1>5 DEF Own
<1>6. CASE Return
  BY <1>6 DEF Return
<1>7. CASE Stop
  BY <1>7 DEF Stop
<1>8. CASE CloseStopped
  BY <1>8 DEF CloseStopped
<1>9. CASE JoinRelay
  BY <1>9 DEF JoinRelay
<1>10. CASE JoinWorker
  BY <1>10 DEF JoinWorker
<1>11. CASE Report
  <2>1. Status # None
    BY <1>11, TrueStatus, ProgramAssumption DEF Report, Accounts, None, exitSuccess, exitFailure, exitInterrupt
  <2>2. /\ main = "report" /\ main' = "done" /\ status' # None
        /\ UNCHANGED <<working, relay, notified, owned, killed>>
    BY <1>11, <2>1 DEF Report, Exit
  <2>3. QED
    BY <2>2
<1>12. CASE \/ \E key \in {"q", "ctrl+c"} : Press(key)
            \/ \E what \in Fatal : BecomeFatal(what)
            \/ Loop \/ TerminalFails
            \/ \E s \in Signals : Send(s)
  BY <1>12 DEF Press, BecomeFatal, Loop, Take, TerminalFails, Send
<1>13. CASE Kill
  BY <1>13 DEF Kill
<1>14. CASE Relay
  BY <1>14 DEF Relay, RelaySignal, RelayQuit, RelayStop
<1>15. CASE UNCHANGED vars
  BY <1>15 DEF vars
<1>16. QED
  BY <1>1, <1>2, <1>3, <1>4, <1>5, <1>6, <1>7, <1>8, <1>9, <1>10, <1>11, <1>12, <1>13, <1>14,
     <1>15 DEF Next, Main

LEMMA AccountsNext == WayOut /\ Accounts /\ [Next]_vars => Accounts'
<1> SUFFICES ASSUME WayOut, Accounts, [Next]_vars PROVE Accounts'
  OBVIOUS
<1> USE DEF Alive, mainVars, uiVars
<1>0. (status # None) = (main = "done")
  BY DEF WayOut
<1>a. ASSUME status' = status, status = None PROVE OutcomeIsTrue'
  BY <1>a DEF OutcomeIsTrue
<1>1. CASE Refuse
  BY <1>1 DEF Refuse, Exit, Accounts, OutcomeIsTrue
<1>2. CASE FailEarly
  BY <1>2, ProgramAssumption DEF FailEarly, Exit, Accounts, OutcomeIsTrue, exitFailure, exitSuccess, exitInterrupt
<1>3. CASE StartWorker \/ Notify \/ Own \/ Stop \/ CloseStopped \/ JoinRelay \/ JoinWorker
  <2>1. OutcomeIsTrue'
    BY <1>3, <1>a DEF StartWorker, Notify, Own, Stop, CloseStopped, JoinRelay, JoinWorker
  <2>2. QED
    BY <1>3, <2>1 DEF StartWorker, Notify, Own, Stop, CloseStopped, JoinRelay, JoinWorker, Accounts
<1>4. CASE Return
  BY <1>4, <1>a DEF Return, Accounts
<1>5. CASE Report
  <2>1. outcome' \in [signal : {None} \cup sent', interrupted : BOOLEAN] /\ outcome'.signal = outcome.signal
    BY <1>5 DEF Report, Accounts
  <2>2. OutcomeIsTrue'
    BY <1>5, TrueStatus DEF Report, Exit, OutcomeIsTrue
  <2>3. QED
    BY <1>5, <2>1, <2>2 DEF Report, Exit, Accounts
<1>6. CASE \E key \in {"q", "ctrl+c"} : Press(key)
  BY <1>6, <1>a DEF Press, Running, Accounts
<1>7. CASE \E what \in Fatal : BecomeFatal(what)
  BY <1>7, <1>a DEF BecomeFatal, Running, Accounts, Fatal
<1>8. CASE Loop
  BY <1>8, <1>a DEF Loop, Take, Running, Accounts
<1>9. CASE TerminalFails
  BY <1>9, <1>a DEF TerminalFails, Accounts
<1>10. CASE \E s \in Signals : Send(s)
  BY <1>10, <1>a DEF Send, Accounts
<1>11. CASE Kill
  BY <1>11, <1>a DEF Kill, Accounts
<1>12. CASE RelaySignal
  <2>1. PICK s \in sent : signals = <<s>>
    BY <1>12 DEF RelaySignal, Accounts
  <2>2. /\ Head(signals) \in sent /\ signals' = <<>> /\ sent' = sent
        /\ UNCHANGED <<main, fatal, endedBy, err, status>> /\ status = None
        /\ messages' = messages \cup {"signal"}
    BY <1>12, <2>1 DEF RelaySignal
  <2>3. outcome' \in [signal : {None} \cup sent, interrupted : BOOLEAN] /\ outcome'.signal = Head(signals)
    BY <1>12, <2>2 DEF RelaySignal, Accounts
  <2>4. Head(signals) # None
    BY <2>2, ProgramAssumption DEF Accounts, None
  <2>5. QED
    BY <1>a, <2>2, <2>3, <2>4 DEF Accounts
<1>13. CASE RelayQuit \/ RelayStop
  BY <1>13, <1>a DEF RelayQuit, RelayStop, Accounts
<1>14. CASE UNCHANGED vars
  BY <1>14 DEF vars, Accounts, OutcomeIsTrue
<1>15. QED
  BY <1>1, <1>2, <1>3, <1>4, <1>5, <1>6, <1>7, <1>8, <1>9, <1>10, <1>11, <1>12, <1>13, <1>14
     DEF Next, Main, Relay

LEMMA IInvNext == IInv /\ [Next]_vars => IInv'
BY WayOutNext, AccountsNext DEF IInv

\* The exit status never lies (browse.go, run.go), whichever of a signal, a
\* key, a result and a failure the event loop sees first.
THEOREM Outcomes == Spec => []OutcomeIsTrue
<1>1. IInv => OutcomeIsTrue
  BY DEF IInv, Accounts
<1>2. QED
  BY <1>1, IInvInit, IInvNext, PTL DEF Spec

\* Run leaves no goroutine, no handler and no raw terminal behind (run.go).
THEOREM Cleanup == Spec => []NothingIsLeftRunning
<1>1. IInv => NothingIsLeftRunning
  BY DEF IInv, WayOut, NothingIsLeftRunning
<1>2. QED
  BY <1>1, IInvInit, IInvNext, PTL DEF Spec

-----------------------------------------------------------------------------
(* The cache.                                                                *)

(* Documents are held for the owner, by its nodes, and none without one;    *)
(* put inserts only for an owner it has bound.                              *)
HeldIInv ==
    /\ HeldForOwner
    /\ DOMAIN entries \subseteq Node
    /\ putting \in {<< >>} \cup {<<n>> : n \in Node}
    /\ owner \in Session \cup {Nil}
    /\ owner = Nil => DOMAIN entries = {} /\ Idle

LEMMA HeldInit == CacheInit => HeldIInv
BY DEF CacheInit, HeldIInv, HeldForOwner, Idle

LEMMA HeldNext == HeldIInv /\ [CacheNext]_cacheVars => HeldIInv'
<1> SUFFICES ASSUME HeldIInv, [CacheNext]_cacheVars PROVE HeldIInv'
  OBVIOUS
<1> USE DEF HeldIInv, HeldForOwner, Idle
<1>a. ASSUME NEW s \in Session \cup {Nil}, Emptied(s), putting' \in {<< >>} \cup {<<n>> : n \in Node},
             s = Nil => putting' = << >>
      PROVE  HeldIInv'
  BY <1>a DEF Emptied
<1>1. CASE Reset
  BY <1>1, <1>a DEF Reset
<1>2. CASE \E s \in Session, n \in Node : Hit(s, n)
  BY <1>2 DEF Hit
<1>3. ASSUME NEW s \in Session, NEW n \in Node, Put(s, n) PROVE HeldIInv'
  <2>1. putting' \in {<< >>, <<n>>} /\ s # Nil
    BY <1>3, CacheAssumption DEF Put
  <2>2. CASE s = owner
    BY <1>3, <2>1, <2>2 DEF Put
  <2>3. CASE s # owner
    BY <1>3, <1>a, <2>1, <2>3 DEF Put
  <2>4. QED
    BY <2>2, <2>3
<1>4. CASE Evict
  BY <1>4 DEF Evict
<1>5. CASE Insert
  <2>1. PICK n \in Node : putting = <<n>>
    BY <1>5 DEF Insert
  <2>2. /\ entries' = [m \in DOMAIN entries \cup {n} |-> IF m = n THEN owner ELSE entries[m]]
        /\ putting' = << >> /\ owner' = owner /\ owner # Nil
    BY <1>5, <2>1 DEF Insert
  <2>3. QED
    BY <2>2
<1>6. CASE UNCHANGED cacheVars
  BY <1>6 DEF cacheVars
<1>7. QED
  BY <1>1, <1>2, <1>3, <1>4, <1>5, <1>6 DEF CacheNext

(* "Entries of an earlier load can never answer for a later one" (cache.go):*)
(* what get returns was put for the session that asks.                      *)
THEOREM Ownership == CacheSpec => []HeldForOwner
<1>1. HeldIInv => HeldForOwner
  BY DEF HeldIInv
<1>2. QED
  BY <1>1, HeldInit, HeldNext, PTL DEF CacheSpec

----------------------------------------------------------------------------
(* What a list of documents costs, and what moving one to its front costs.   *)

LEMMA TotalIs ==
    ASSUME NEW s \in Seq(Node)
    PROVE  \E f \in [0..Len(s) -> Nat] :
             /\ f[0] = 0 /\ f[Len(s)] = Total(s)
             /\ \A k \in 1..Len(s) : f[k] = f[k-1] + Charge[s[k]]
<1> DEFINE b == Len(s)
           F == [p \in (1..b) \X Nat |-> p[2] + Charge[s[p[1]]]]
           Is(h) == h = [k \in 0..b |-> IF k = 0 THEN 0 ELSE h[k-1] + Charge[s[k]]]
<1>1. b \in Nat /\ \A k \in 1..b : Charge[s[k]] \in Nat
  <2>1. \A k \in 1..b : s[k] \in Node
    BY ElementOfSeq
  <2>2. QED
    BY <2>1, LenProperties, CacheAssumption
<1>2. F \in [(1..b) \X Nat -> Nat]
  BY <1>1
<1>3. \A k \in 1..b, v \in Nat : F[<<k, v>>] = v + Charge[s[k]]
  OBVIOUS
<1>a. PICK f \in [0..b -> Nat] : IsRecursiveTo(b, f, 0, F)
  <2> HIDE DEF F, b
  <2>1. 0 \in Nat
    OBVIOUS
  <2>2. QED
    BY <1>1, <1>2, <2>1, RecursionUpTo
<1>4. f \in [0..b -> Nat] /\ f[0] = 0 /\ \A k \in 1..b : f[k] = F[<<k, f[k-1]>>]
  BY <1>a DEF IsRecursiveTo
<1> HIDE DEF F
<1>5. \A k \in 1..b : f[k] = f[k-1] + Charge[s[k]]
  <2> HIDE DEF b
  <2>1. \A k \in 1..b : k - 1 \in 0..b
    BY <1>1
  <2>2. QED
    BY <1>3, <1>4, <2>1
<1>6. Is(f)
  <2>1. \A k \in 0..b : f[k] = IF k = 0 THEN 0 ELSE f[k-1] + Charge[s[k]]
    BY <1>1, <1>4, <1>5
  <2>2. f = [k \in 0..b |-> f[k]]
    BY <1>4
  <2>3. QED
    BY <2>1, <2>2
<1> DEFINE g == CHOOSE h : Is(h)
<1>7. Is(g)
  <2> HIDE DEF Is
  <2>1. QED
    BY <1>6
<1>8. Total(s) = g[b]
  BY DEF Total
<1>9. g = f
  <2> HIDE DEF g
  <2>1. g = [k \in 0..b |-> g[k]] /\ \A k \in 0..b : g[k] = IF k = 0 THEN 0 ELSE g[k-1] + Charge[s[k]]
    BY <1>7
  <2>2. f = [k \in 0..b |-> f[k]]
    BY <1>4
  <2> DEFINE S == {k \in Nat : k <= b => f[k] = g[k]}
  <2>3. 0 \in S
    <3>1. 0 \in 0..b
      BY <1>1
    <3>2. g[0] = 0
      BY <2>1, <3>1
    <3>3. f[0] = 0
      BY <1>4
    <3>4. QED
      BY <3>2, <3>3
  <2>4. ASSUME NEW k \in Nat, k \in S PROVE k + 1 \in S
    <3> SUFFICES ASSUME k + 1 <= b PROVE f[k+1] = g[k+1]
      OBVIOUS
    <3>1. k + 1 \in 1..b /\ k + 1 \in 0..b /\ (k + 1) - 1 = k /\ k + 1 # 0 /\ k <= b
      BY <1>1
    <3>2. f[k] = g[k]
      BY <2>4, <3>1
    <3>3. f[k+1] = f[k] + Charge[s[k+1]]
      BY <1>5, <3>1
    <3>4. g[k+1] = g[k] + Charge[s[k+1]]
      BY <2>1, <3>1
    <3>5. QED
      BY <3>2, <3>3, <3>4
  <2>5. Nat \subseteq S
    <3> HIDE DEF S
    <3>1. QED
      BY <2>3, <2>4, SetInduction
  <2>6. \A k \in 0..b : f[k] = g[k]
    BY <1>1, <2>5
  <2>7. QED
    BY <2>1, <2>2, <2>6
<1> HIDE DEF g
<1>10. QED
  BY <1>4, <1>5, <1>8, <1>9

(* The charge of the first k documents of a list.                            *)
Cost(s, k) == Total(SubSeq(s, 1, k))

LEMMA CostSteps ==
    ASSUME NEW s \in Seq(Node)
    PROVE  /\ Cost(s, 0) = 0 /\ Cost(s, Len(s)) = Total(s)
           /\ \A k \in 0..Len(s) : Cost(s, k) \in Nat
           /\ \A k \in 1..Len(s) : Cost(s, k) = Cost(s, k-1) + Charge[s[k]]
<1>1. PICK f \in [0..Len(s) -> Nat] :
        /\ f[0] = 0 /\ f[Len(s)] = Total(s)
        /\ \A k \in 1..Len(s) : f[k] = f[k-1] + Charge[s[k]]
  BY TotalIs
<1>2. Len(s) \in Nat /\ \A k \in 1..Len(s) : s[k] \in Node
  BY LenProperties, ElementOfSeq
<1>3. ASSUME NEW k \in 0..Len(s) PROVE Cost(s, k) = f[k]
  <2> DEFINE t == SubSeq(s, 1, k)
  <2>1. t \in Seq(Node) /\ Len(t) = k /\ \A i \in 1..k : t[i] = s[i]
    <3>1. 1 \in Int /\ k \in Int /\ \A i \in 1..k : s[i] \in Node
      BY <1>2
    <3>2. /\ t \in Seq(Node) /\ Len(t) = IF 1 <= k THEN k - 1 + 1 ELSE 0
          /\ \A i \in 1..k - 1 + 1 : t[i] = s[1 + i - 1]
      BY <3>1, SubSeqProperties
    <3>3. k - 1 + 1 = k /\ \A i \in Int : 1 + i - 1 = i
      BY <3>1
    <3> HIDE DEF t
    <3>4. QED
      BY <1>2, <3>2, <3>3
  <2> HIDE DEF t
  <2>2. PICK g \in [0..k -> Nat] :
          /\ g[0] = 0 /\ g[k] = Total(t)
          /\ \A i \in 1..k : g[i] = g[i-1] + Charge[t[i]]
    BY <2>1, TotalIs
  <2> DEFINE S == {i \in Nat : i <= k => f[i] = g[i]}
  <2>3. 0 \in S
    BY <1>1, <2>2
  <2>4. ASSUME NEW i \in Nat, i \in S PROVE i + 1 \in S
    <3> SUFFICES ASSUME i + 1 <= k PROVE f[i+1] = g[i+1]
      OBVIOUS
    <3>1. i + 1 \in 1..k /\ i + 1 \in 1..Len(s) /\ (i + 1) - 1 = i /\ i <= k
      BY <1>2
    <3>2. f[i] = g[i]
      BY <2>4, <3>1
    <3>3. f[i+1] = f[i] + Charge[s[i+1]]
      BY <1>1, <3>1
    <3>4. g[i+1] = g[i] + Charge[t[i+1]]
      BY <2>2, <3>1
    <3>5. QED
      BY <2>1, <3>1, <3>2, <3>3, <3>4
  <2>5. Nat \subseteq S
    <3> HIDE DEF S
    <3>1. QED
      BY <2>3, <2>4, SetInduction
  <2>6. f[k] = g[k]
    BY <1>2, <2>5
  <2>7. QED
    BY <2>2, <2>6 DEF Cost, t
<1>4. \A k \in 1..Len(s) : k \in 0..Len(s) /\ k - 1 \in 0..Len(s)
  BY <1>2
<1>5. 0 \in 0..Len(s) /\ Len(s) \in 0..Len(s)
  BY <1>2
<1>6. QED
  BY <1>1, <1>3, <1>4, <1>5

(* Lists that begin alike cost the same so far.                              *)
LEMMA SameCost ==
    ASSUME NEW s \in Seq(Node), NEW t \in Seq(Node), NEW n \in Nat, n <= Len(s), n <= Len(t),
           \A i \in 1..n : s[i] = t[i]
    PROVE  \A k \in 0..n : Cost(s, k) = Cost(t, k)
<1>1. Len(s) \in Nat /\ Len(t) \in Nat
  BY LenProperties
<1> DEFINE S == {k \in Nat : k <= n => Cost(s, k) = Cost(t, k)}
<1>2. 0 \in S
  BY CostSteps
<1>3. ASSUME NEW k \in Nat, k \in S PROVE k + 1 \in S
  <2> SUFFICES ASSUME k + 1 <= n PROVE Cost(s, k+1) = Cost(t, k+1)
    OBVIOUS
  <2>1. k + 1 \in 1..n /\ k + 1 \in 1..Len(s) /\ k + 1 \in 1..Len(t) /\ (k + 1) - 1 = k /\ k <= n
    BY <1>1
  <2>2. Cost(s, k) = Cost(t, k)
    BY <1>3, <2>1
  <2>3. Cost(s, k+1) = Cost(s, k) + Charge[s[k+1]] /\ Cost(t, k+1) = Cost(t, k) + Charge[t[k+1]]
    BY <2>1, CostSteps
  <2>4. QED
    BY <2>1, <2>2, <2>3
<1>4. Nat \subseteq S
  <2> HIDE DEF S
  <2>1. QED
    BY <1>2, <1>3, SetInduction
<1>5. QED
  BY <1>4

(* Where a node is in a list without repetition, one past the end if nowhere.*)
IsPlace(s, n, p) ==
    /\ p \in 1..Len(s)+1
    /\ IF p <= Len(s) THEN s[p] = n ELSE \A i \in 1..Len(s) : s[i] # n

LEMMA PlaceExists == ASSUME NEW s \in Seq(Node), NEW n PROVE \E p \in Nat : IsPlace(s, n, p)
<1>1. Len(s) \in Nat
  BY LenProperties
<1>2. CASE \E i \in 1..Len(s) : s[i] = n
  BY <1>1, <1>2 DEF IsPlace
<1>3. CASE \A i \in 1..Len(s) : s[i] # n
  <2>1. IsPlace(s, n, Len(s) + 1) /\ Len(s) + 1 \in Nat
    BY <1>1, <1>3 DEF IsPlace
  <2>2. QED
    BY <2>1
<1>4. QED
  BY <1>2, <1>3

LEMMA ToFrontIs ==
    ASSUME NEW s \in Seq(Node), Once(s), NEW n \in Node, NEW p \in Nat, IsPlace(s, n, p)
    PROVE  LET t == ToFront(s, n) IN
           /\ t \in Seq(Node) /\ Len(t) = (IF p <= Len(s) THEN Len(s) ELSE Len(s) + 1)
           /\ t[1] = n
           /\ \A k \in 2..p : t[k] = s[k-1]
           /\ \A k \in p+1..Len(s) : t[k] = s[k]
<1> DEFINE r == RemoveFirst(s, n)
           t == ToFront(s, n)
<1>1. Len(s) \in Nat /\ p \in 1..Len(s)+1 /\ \A i \in 1..Len(s) : s[i] \in Node
  BY LenProperties, ElementOfSeq DEF IsPlace
<1>2. /\ r \in Seq(Node) /\ Len(r) = (IF p <= Len(s) THEN Len(s) - 1 ELSE Len(s))
      /\ \A k \in 1..p-1 : r[k] = s[k]
      /\ \A k \in p..Len(s)-1 : r[k] = s[k+1]
  <2>1. CASE p = Len(s) + 1
    <3>1. r = s
      BY <1>1, <2>1 DEF IsPlace, RemoveFirst
    <3> HIDE DEF r
    <3>2. QED
      BY <1>1, <2>1, <3>1
  <2>2. CASE p <= Len(s)
    <3>1. s[p] = n /\ p \in 1..Len(s) /\ \A i \in 1..Len(s) : s[i] = n => i = p
      BY <1>1, <2>2 DEF IsPlace, Once
    <3>2. SelectInSeq(s, LAMBDA v : v = n) = p
      <4>1. {i \in 1..Len(s) : s[i] = n} = {p}
        BY <3>1
      <4>2. Min({p}) = p
        BY DEF Min
      <4>3. QED
        BY <4>1, <4>2 DEF SelectInSeq
    <3>3. r = SubSeq(s, 1, p-1) \o SubSeq(s, p+1, Len(s))
      BY <3>1, <3>2 DEF RemoveFirst, RemoveAt
    <3> DEFINE a == SubSeq(s, 1, p-1)
               b == SubSeq(s, p+1, Len(s))
    <3>4. a \in Seq(Node) /\ Len(a) = p - 1 /\ \A i \in 1..p-1 : a[i] = s[i]
      <4>1. 1 \in Nat \ {0} /\ p - 1 \in Nat /\ 1 <= (p - 1) + 1 /\ p - 1 <= Len(s)
        BY <1>1, <3>1
      <4>2. /\ a \in Seq(Node) /\ Len(a) = ((p - 1) + 1) - 1
            /\ \A i \in 1..((p - 1) + 1) - 1 : a[i] = s[(1 - 1) + i]
        BY <4>1, Part
      <4>3. ((p - 1) + 1) - 1 = p - 1 /\ \A i \in Int : (1 - 1) + i = i
        OBVIOUS
      <4> HIDE DEF a
      <4>4. QED
        BY <4>2, <4>3
    <3>5. b \in Seq(Node) /\ Len(b) = Len(s) - p /\ \A i \in 1..Len(s)-p : b[i] = s[p + i]
      <4>1. p + 1 \in Nat \ {0} /\ Len(s) \in Nat /\ p + 1 <= Len(s) + 1 /\ Len(s) <= Len(s)
        BY <1>1, <3>1
      <4>2. /\ b \in Seq(Node) /\ Len(b) = (Len(s) + 1) - (p + 1)
            /\ \A i \in 1..(Len(s)+1)-(p+1) : b[i] = s[((p + 1) - 1) + i]
        BY <4>1, Part
      <4>3. (Len(s) + 1) - (p + 1) = Len(s) - p /\ \A i \in Int : ((p + 1) - 1) + i = p + i
        BY <1>1
      <4> HIDE DEF b
      <4>4. Len(b) = Len(s) - p /\ b \in Seq(Node)
        BY <4>2, <4>3
      <4>5. ASSUME NEW i \in 1..Len(s)-p PROVE b[i] = s[p + i]
        <5>1. i \in Int /\ i \in 1..(Len(s)+1)-(p+1)
          BY <1>1, <4>3
        <5>2. QED
          BY <4>2, <4>3, <5>1
      <4>6. QED
        BY <4>4, <4>5
    <3> HIDE DEF a, b, r
    <3>6. /\ r \in Seq(Node) /\ Len(r) = Len(a) + Len(b)
          /\ \A i \in 1..Len(a)+Len(b) : r[i] = IF i <= Len(a) THEN a[i] ELSE b[i - Len(a)]
      BY <3>3, <3>4, <3>5, ConcatProperties DEF a, b
    <3>7. ASSUME NEW k \in 1..p-1 PROVE r[k] = s[k]
      <4>1. k \in 1..Len(a)+Len(b) /\ k <= Len(a)
        BY <1>1, <3>1, <3>4, <3>5
      <4>2. QED
        BY <3>4, <3>6, <4>1
    <3>8. ASSUME NEW k \in p..Len(s)-1 PROVE r[k] = s[k+1]
      <4>1. k \in 1..Len(a)+Len(b) /\ ~(k <= Len(a)) /\ k - Len(a) \in 1..Len(s)-p /\ p + (k - Len(a)) = k + 1
        <5> DEFINE la == Len(a)
                   lb == Len(b)
                   ls == Len(s)
        <5>1. ls \in Nat /\ p \in 1..ls /\ la = p - 1 /\ lb = ls - p /\ k \in p..ls-1
          BY <1>1, <3>1, <3>4, <3>5
        <5> HIDE DEF la, lb, ls
        <5>2. k \in 1..la+lb /\ ~(k <= la) /\ k - la \in 1..ls-p /\ p + (k - la) = k + 1
          BY ONLY <5>1
        <5>3. QED
          BY <5>2 DEF la, lb, ls
      <4>2. r[k] = b[k - Len(a)]
        BY <3>6, <4>1
      <4>3. b[k - Len(a)] = s[p + (k - Len(a))]
        BY <3>5, <4>1
      <4>4. QED
        BY <4>1, <4>2, <4>3
    <3>9. Len(r) = Len(s) - 1
      BY <1>1, <3>1, <3>4, <3>5, <3>6
    <3>10. QED
      BY <2>2, <3>6, <3>7, <3>8, <3>9
  <2>3. p = Len(s) + 1 \/ p <= Len(s)
    BY <1>1
  <2> HIDE DEF r, t
  <2>4. QED
    BY <2>1, <2>2, <2>3
<1>3. t = <<n>> \o r
  BY DEF ToFront
<1> HIDE DEF r, t
<1>4. <<n>> \in Seq(Node) /\ Len(<<n>>) = 1 /\ <<n>>[1] = n
  OBVIOUS
<1>5. /\ t \in Seq(Node) /\ Len(t) = 1 + Len(r)
      /\ \A i \in 1..1+Len(r) : t[i] = IF i <= 1 THEN <<n>>[i] ELSE r[i - 1]
  BY <1>2, <1>3, <1>4, ConcatProperties
<1>6. Len(r) \in Nat /\ Len(t) = (IF p <= Len(s) THEN Len(s) ELSE Len(s) + 1)
  BY <1>1, <1>2, <1>5
<1>7. t[1] = n
  BY <1>4, <1>5, <1>6
<1>8. ASSUME NEW k \in 2..p PROVE t[k] = s[k-1]
  <2>1. k \in 1..1+Len(r) /\ ~(k <= 1) /\ k - 1 \in 1..p-1
    BY <1>1, <1>2, <1>8
  <2>2. QED
    BY <1>2, <1>5, <2>1
<1>9. ASSUME NEW k \in p+1..Len(s) PROVE t[k] = s[k]
  <2>1. k \in 1..1+Len(r) /\ ~(k <= 1) /\ k - 1 \in p..Len(s)-1 /\ (k - 1) + 1 = k
    BY <1>1, <1>2, <1>9
  <2>2. t[k] = r[k - 1]
    BY <1>5, <2>1
  <2>3. r[k - 1] = s[(k - 1) + 1]
    BY <1>2, <2>1
  <2>4. QED
    BY <2>1, <2>2, <2>3
<1>10. QED
  BY <1>5, <1>6, <1>7, <1>8, <1>9 DEF t

(* Up to its place the node is one more; from there on the sum is the same.  *)
LEMMA ToFrontCost ==
    ASSUME NEW s \in Seq(Node), Once(s), NEW n \in Node, NEW p \in Nat, IsPlace(s, n, p)
    PROVE  LET t == ToFront(s, n) IN
           /\ \A k \in 1..p : Cost(t, k) = Charge[n] + Cost(s, k-1)
           /\ \A k \in p..Len(s) : Cost(t, k) = Cost(s, k)
<1> DEFINE t == ToFront(s, n)
<1>1. /\ t \in Seq(Node) /\ Len(t) = (IF p <= Len(s) THEN Len(s) ELSE Len(s) + 1)
      /\ t[1] = n
      /\ \A k \in 2..p : t[k] = s[k-1]
      /\ \A k \in p+1..Len(s) : t[k] = s[k]
  BY ToFrontIs
<1> HIDE DEF t
<1>2. Len(s) \in Nat /\ p \in 1..Len(s)+1 /\ (p <= Len(s) => s[p] = n)
  BY LenProperties DEF IsPlace
<1>3. /\ Cost(s, 0) = 0 /\ \A k \in 0..Len(s) : Cost(s, k) \in Nat
      /\ \A k \in 1..Len(s) : Cost(s, k) = Cost(s, k-1) + Charge[s[k]]
  BY CostSteps
<1>4. /\ Cost(t, 0) = 0 /\ \A k \in 0..Len(t) : Cost(t, k) \in Nat
      /\ \A k \in 1..Len(t) : Cost(t, k) = Cost(t, k-1) + Charge[t[k]]
  BY <1>1, CostSteps
<1>5. Charge[n] \in Nat
  BY CacheAssumption
<1> DEFINE S == {k \in Nat : k + 1 <= p => Cost(t, k+1) = Charge[n] + Cost(s, k)}
<1>6. 0 \in S
  <2>1. 1 \in 1..Len(t) /\ 0 + 1 = 1 /\ 1 - 1 = 0
    BY <1>1, <1>2
  <2>2. Cost(t, 1) = Cost(t, 0) + Charge[t[1]]
    BY <1>4, <2>1
  <2>3. QED
    BY <1>1, <1>3, <1>4, <1>5, <2>1, <2>2
<1>7. ASSUME NEW k \in Nat, k \in S PROVE k + 1 \in S
  <2> SUFFICES ASSUME (k + 1) + 1 <= p PROVE Cost(t, (k + 1) + 1) = Charge[n] + Cost(s, k+1)
    OBVIOUS
  <2>1. /\ (k + 1) + 1 \in 1..Len(t) /\ ((k + 1) + 1) - 1 = k + 1 /\ (k + 1) + 1 \in 2..p
        /\ k + 1 \in 1..Len(s) /\ (k + 1) - 1 = k /\ k \in 0..Len(s) /\ k + 1 <= p
    BY <1>1, <1>2
  <2>2. Cost(t, k+1) = Charge[n] + Cost(s, k)
    BY <1>7, <2>1
  <2>3. Cost(t, (k + 1) + 1) = Cost(t, k+1) + Charge[t[(k + 1) + 1]]
    BY <1>4, <2>1
  <2>4. t[(k + 1) + 1] = s[k+1]
    BY <1>1, <2>1, SMTT(30)
  <2>5. Cost(s, k+1) = Cost(s, k) + Charge[s[k+1]]
    BY <1>3, <2>1
  <2>6. Cost(s, k) \in Nat /\ Charge[s[k+1]] \in Nat
    BY <1>3, <2>1, ElementOfSeq, CacheAssumption
  <2>7. QED
    BY <1>5, <2>2, <2>3, <2>4, <2>5, <2>6
<1>8. Nat \subseteq S
  <2> HIDE DEF S
  <2>1. QED
    BY <1>6, <1>7, SetInduction
<1>9. ASSUME NEW k \in 1..p PROVE Cost(t, k) = Charge[n] + Cost(s, k-1)
  <2>1. k - 1 \in Nat /\ (k - 1) + 1 = k /\ (k - 1) + 1 <= p
    BY <1>2
  <2>2. QED
    BY <1>8, <2>1
<1> DEFINE R == {k \in Nat : p + k <= Len(s) => Cost(t, p + k) = Cost(s, p + k)}
<1>10. 0 \in R
  <2> SUFFICES ASSUME p <= Len(s) PROVE Cost(t, p) = Cost(s, p)
    BY <1>2
  <2>1. p \in 1..p /\ p \in 1..Len(s) /\ p - 1 \in 0..Len(s) /\ s[p] = n
    BY <1>2
  <2>2. Cost(t, p) = Charge[n] + Cost(s, p-1)
    BY <1>9, <2>1
  <2>3. Cost(s, p) = Cost(s, p-1) + Charge[n] /\ Cost(s, p-1) \in Nat
    BY <1>3, <2>1
  <2>4. QED
    BY <1>5, <2>2, <2>3
<1>11. ASSUME NEW k \in Nat, k \in R PROVE k + 1 \in R
  <2> SUFFICES ASSUME p + (k + 1) <= Len(s) PROVE Cost(t, p + (k + 1)) = Cost(s, p + (k + 1))
    OBVIOUS
  <2>1. /\ p + (k + 1) \in 1..Len(s) /\ p + (k + 1) \in 1..Len(t) /\ p + (k + 1) \in p+1..Len(s)
        /\ (p + (k + 1)) - 1 = p + k /\ p + k <= Len(s)
    BY <1>1, <1>2
  <2>2. Cost(t, p + k) = Cost(s, p + k)
    BY <1>11, <2>1
  <2>3. Cost(t, p + (k + 1)) = Cost(t, p + k) + Charge[s[p + (k + 1)]]
    BY <1>1, <1>4, <2>1
  <2>4. Cost(s, p + (k + 1)) = Cost(s, p + k) + Charge[s[p + (k + 1)]]
    BY <1>3, <2>1
  <2>5. QED
    BY <2>2, <2>3, <2>4
<1>12. Nat \subseteq R
  <2> HIDE DEF R
  <2>1. QED
    BY <1>10, <1>11, SetInduction
<1>13. ASSUME NEW k \in p..Len(s) PROVE Cost(t, k) = Cost(s, k)
  <2>1. k - p \in Nat /\ p + (k - p) = k /\ p + (k - p) <= Len(s)
    BY <1>2
  <2>2. QED
    BY <1>12, <2>1
<1>14. QED
  BY <1>9, <1>13 DEF t

----------------------------------------------------------------------------
(* The inductive invariant.                                                 *)

(* The nodes held are the first of the nodes by last use, as far as they fit.*)
ListIInv ==
    LET held == Len(recent) IN
    /\ recent \in Seq(Node) /\ uses \in Seq(Node) /\ Once(uses)
    /\ held <= Len(uses)
    /\ \A i \in 1..held : recent[i] = uses[i]
    /\ DOMAIN entries = {uses[i] : i \in 1..held}
    /\ used = Cost(uses, held) /\ used <= Budget

(* What is not held did not fit; the document being put has room made for it *)
(* only while it does not.                                                   *)
FullIInv ==
    IF Idle
    THEN \A k \in Len(recent)+1..Len(uses) : Cost(uses, k) > Budget
    ELSE \E n \in Node :
           /\ putting = <<n>> /\ n \notin DOMAIN entries /\ Charge[n] <= Budget
           /\ \A k \in Len(recent)+2..Len(ToFront(uses, n)) : Cost(ToFront(uses, n), k) > Budget

LRUIInv == ListIInv /\ FullIInv

LEMMA Numbers ==
    ASSUME ListIInv
    PROVE  /\ Len(recent) \in Nat /\ Len(uses) \in Nat /\ Budget \in Nat
           /\ \A k \in 0..Len(uses) : Cost(uses, k) \in Nat
           /\ \A n \in Node : Charge[n] \in Nat \ {0}
           /\ used \in Nat
<1>1. /\ Len(recent) \in Nat /\ Len(uses) \in Nat /\ Budget \in Nat
      /\ \A k \in 0..Len(uses) : Cost(uses, k) \in Nat
      /\ \A n \in Node : Charge[n] \in Nat \ {0}
  BY CostSteps, LenProperties, CacheAssumption DEF ListIInv
<1>2. used \in Nat
  BY <1>1 DEF ListIInv
<1>3. QED
  BY <1>1, <1>2

LEMMA StillOnce ==
    ASSUME NEW s \in Seq(Node), Once(s), NEW n \in Node, NEW p \in Nat, IsPlace(s, n, p)
    PROVE  /\ Once(ToFront(s, n))
           /\ \A m \in 0..Len(s) : p <= m =>
                {ToFront(s, n)[i] : i \in 1..m} = {s[i] : i \in 1..m}
           /\ {ToFront(s, n)[i] : i \in 1..p} = {s[i] : i \in 1..p-1} \cup {n}
<1> DEFINE t == ToFront(s, n)
<1>1. /\ t \in Seq(Node) /\ Len(t) = (IF p <= Len(s) THEN Len(s) ELSE Len(s) + 1)
      /\ t[1] = n
      /\ \A k \in 2..p : t[k] = s[k-1]
      /\ \A k \in p+1..Len(s) : t[k] = s[k]
  BY ToFrontIs
<1> HIDE DEF t
<1>2. /\ Len(s) \in Nat /\ p \in 1..Len(s)+1 /\ (p <= Len(s) => s[p] = n)
      /\ (p = Len(s) + 1 => \A i \in 1..Len(s) : s[i] # n)
  BY LenProperties DEF IsPlace
<1> DEFINE from(k) == IF k = 1 THEN p ELSE IF k <= p THEN k - 1 ELSE k
<1>3. ASSUME NEW k \in 1..Len(t)
      PROVE  /\ from(k) \in 1..Len(s)+1
             /\ from(k) <= Len(s) => t[k] = s[from(k)]
             /\ from(k) = Len(s) + 1 => t[k] = n /\ k = 1 /\ p = Len(s) + 1
  <2>1. CASE k = 1
    BY <1>1, <1>2, <2>1
  <2>2. CASE k # 1 /\ k <= p
    BY <1>1, <1>2, <2>2
  <2>3. CASE k # 1 /\ ~(k <= p)
    BY <1>1, <1>2, <2>3
  <2>4. QED
    BY <2>1, <2>2, <2>3
<1>4. \A k, l \in 1..Len(t) : from(k) = from(l) => k = l
  BY <1>1, <1>2
<1> HIDE DEF from
<1>5. Once(t)
  <2> SUFFICES ASSUME NEW k \in 1..Len(t), NEW l \in 1..Len(t), t[k] = t[l] PROVE k = l
    BY DEF Once
  <2>1. CASE from(k) <= Len(s) /\ from(l) <= Len(s)
    <3>1. s[from(k)] = s[from(l)] /\ from(k) \in 1..Len(s) /\ from(l) \in 1..Len(s)
      BY <1>2, <1>3, <2>1
    <3>2. QED
      BY <1>4, <3>1 DEF Once
  <2>2. \A m \in 1..Len(t) : from(m) \in 1..Len(s) \/ from(m) = Len(s) + 1
    BY <1>2, <1>3
  <2>3. CASE from(k) = Len(s) + 1 /\ from(l) = Len(s) + 1
    BY <1>4, <2>3
  <2>4. ASSUME NEW a \in 1..Len(t), NEW b \in 1..Len(t), from(a) = Len(s) + 1, from(b) \in 1..Len(s)
        PROVE  t[a] # t[b]
    <3>1. t[a] = n /\ p = Len(s) + 1
      BY <1>3, <2>4
    <3>2. t[b] = s[from(b)]
      BY <1>2, <1>3, <2>4
    <3>3. QED
      BY <1>2, <2>4, <3>1, <3>2
  <2>5. QED
    BY <1>2, <2>1, <2>2, <2>3, <2>4
<1>6. {t[i] : i \in 1..p} = {s[i] : i \in 1..p-1} \cup {n}
  <2>1. ASSUME NEW i \in 1..p PROVE t[i] \in {s[j] : j \in 1..p-1} \cup {n}
    <3>1. i # 1 => i \in 2..p /\ i - 1 \in 1..p-1
      BY <1>2
    <3>2. QED
      BY <1>1, <3>1
  <2>2. ASSUME NEW j \in 1..p-1 PROVE s[j] \in {t[i] : i \in 1..p}
    <3>1. j + 1 \in 2..p /\ j + 1 \in 1..p /\ (j + 1) - 1 = j
      BY <1>2
    <3>2. t[j + 1] = s[(j + 1) - 1]
      BY <1>1, <3>1
    <3>3. QED
      BY <3>1, <3>2
  <2>3. n \in {t[i] : i \in 1..p}
    BY <1>1, <1>2
  <2>4. QED
    BY <2>1, <2>2, <2>3
<1>7. ASSUME NEW m \in 0..Len(s), p <= m PROVE {t[i] : i \in 1..m} = {s[i] : i \in 1..m}
  <2>1. 1..m = (1..p) \cup (p+1..m) /\ 1..p = (1..p-1) \cup {p} /\ s[p] = n
    BY <1>2, <1>7
  <2>2. \A i \in p+1..m : t[i] = s[i]
    BY <1>1, <1>2, <1>7
  <2>3. {t[i] : i \in 1..m} = {t[i] : i \in 1..p} \cup {t[i] : i \in p+1..m}
    BY <2>1
  <2>4. {s[i] : i \in 1..m} = {s[i] : i \in 1..p-1} \cup {n} \cup {s[i] : i \in p+1..m}
    BY <2>1
  <2>5. {t[i] : i \in p+1..m} = {s[i] : i \in p+1..m}
    BY <2>2
  <2>6. QED
    BY <1>6, <2>3, <2>4, <2>5
<1>8. QED
  BY <1>5, <1>6, <1>7 DEF t

LEMMA InitLRU == CacheInit => LRUIInv
<1> SUFFICES ASSUME CacheInit PROVE LRUIInv
  OBVIOUS
<1>1. << >> \in Seq(Node) /\ Len(<< >>) = 0 /\ 1..0 = {} /\ DOMAIN << >> = {}
  OBVIOUS
<1>2. Cost(<< >>, 0) = 0
  BY <1>1, CostSteps
<1>3. QED
  BY <1>1, <1>2, CacheAssumption DEF CacheInit, LRUIInv, ListIInv, FullIInv, Idle, Once

LEMMA EmptiedLRU ==
    ASSUME NEW s, Emptied(s)
    PROVE  ListIInv' /\ recent' = << >> /\ uses' = << >> /\ entries' = << >> /\ Len(uses') = 0 /\ Len(recent') = 0
<1>1. << >> \in Seq(Node) /\ Len(<< >>) = 0 /\ 1..0 = {} /\ DOMAIN << >> = {}
  OBVIOUS
<1>2. Cost(<< >>, 0) = 0
  BY <1>1, CostSteps
<1>3. recent' = << >> /\ uses' = << >> /\ entries' = << >> /\ used' = 0
  BY DEF Emptied
<1>4. Cost(uses, Len(recent))' = 0
  BY <1>1, <1>2, <1>3 DEF Cost
<1>5. QED
  BY <1>1, <1>3, <1>4, CacheAssumption DEF ListIInv, Once

LEMMA HitLRU == ASSUME LRUIInv, NEW s \in Session, NEW n \in Node, Hit(s, n) PROVE LRUIInv'
<1> DEFINE L == Len(recent)
           t == ToFront(uses, n)
           o == ToFront(recent, n)
<1>1. /\ Idle /\ n \in DOMAIN entries /\ recent' = o /\ uses' = t
      /\ UNCHANGED <<owner, entries, used, putting>>
  BY DEF Hit
<1>2. /\ recent \in Seq(Node) /\ uses \in Seq(Node) /\ Once(uses) /\ L <= Len(uses)
      /\ \A i \in 1..L : recent[i] = uses[i]
      /\ DOMAIN entries = {uses[i] : i \in 1..L}
      /\ used = Cost(uses, L) /\ used <= Budget
      /\ L \in Nat /\ Len(uses) \in Nat
  BY Numbers DEF LRUIInv, ListIInv
<1>3. PICK p \in 1..L : uses[p] = n
  BY <1>1, <1>2
<1>4. Once(recent)
  BY <1>2 DEF Once
<1>5. IsPlace(uses, n, p) /\ IsPlace(recent, n, p) /\ p \in Nat
  BY <1>2, <1>3 DEF IsPlace
<1>6. /\ t \in Seq(Node) /\ Len(t) = Len(uses) /\ t[1] = n
      /\ \A k \in 2..p : t[k] = uses[k-1]
      /\ \A k \in p+1..Len(uses) : t[k] = uses[k]
  BY <1>2, <1>3, <1>5, ToFrontIs
<1>7. /\ o \in Seq(Node) /\ Len(o) = L /\ o[1] = n
      /\ \A k \in 2..p : o[k] = recent[k-1]
      /\ \A k \in p+1..L : o[k] = recent[k]
  BY <1>2, <1>3, <1>4, <1>5, ToFrontIs
<1>8. Once(t) /\ {t[i] : i \in 1..L} = {uses[i] : i \in 1..L}
  <2>1. L \in 0..Len(uses) /\ p <= L
    BY <1>2, <1>3
  <2> HIDE DEF L
  <2>2. uses \in Seq(Node) /\ Once(uses) /\ IsPlace(uses, n, p) /\ p \in Nat
    BY <1>2, <1>5
  <2>a. /\ Once(ToFront(uses, n))
        /\ \A m \in 0..Len(uses) : p <= m =>
             {ToFront(uses, n)[i] : i \in 1..m} = {uses[i] : i \in 1..m}
    BY <2>2, StillOnce, ZenonT(40)
  <2>b. Once(t) /\ \A m \in 0..Len(uses) : p <= m => {t[i] : i \in 1..m} = {uses[i] : i \in 1..m}
    BY <2>a
  <2> HIDE DEF t
  <2>3. QED
    BY <2>1, <2>b
<1>9. \A k \in p..Len(uses) : Cost(t, k) = Cost(uses, k)
  BY <1>2, <1>5, ToFrontCost
<1> HIDE DEF t, o, L
<1>10. \A i \in 1..L : o[i] = t[i]
  <2> TAKE i \in 1..L
  <2>1. CASE i = 1
    BY <1>6, <1>7, <2>1
  <2>2. CASE i \in 2..p
    <3>1. i - 1 \in 1..L
      BY <1>2, <1>3, <2>2
    <3>2. QED
      BY <1>2, <1>6, <1>7, <2>2, <3>1
  <2>3. CASE i \in p+1..L
    <3>1. i \in p+1..Len(uses)
      BY <1>2, <2>3
    <3>2. QED
      BY <1>2, <1>6, <1>7, <2>3, <3>1
  <2>4. QED
    BY <1>2, <1>3, <2>1, <2>2, <2>3
<1>11. Cost(t, L) = Cost(uses, L)
  BY <1>2, <1>3, <1>9
<1>12. ListIInv'
  <2>1. Len(recent') = L /\ Len(uses') = Len(uses) /\ Cost(uses, Len(recent))' = Cost(t, L)
    BY <1>1, <1>6, <1>7 DEF Cost
  <2>2. recent' \in Seq(Node) /\ uses' \in Seq(Node) /\ Once(uses)'
    BY <1>1, <1>6, <1>7, <1>8 DEF Once
  <2>3. \A i \in 1..L : recent'[i] = uses'[i]
    BY <1>1, <1>10
  <2>4. DOMAIN entries' = {uses'[i] : i \in 1..L}
    BY <1>1, <1>2, <1>8
  <2>5. used' = Cost(t, L) /\ used' <= Budget
    BY <1>1, <1>2, <1>11
  <2>6. L <= Len(uses')
    BY <1>2, <2>1
  <2>7. QED
    BY <2>1, <2>2, <2>3, <2>4, <2>5, <2>6 DEF ListIInv
<1>13. FullIInv'
  <2>1. \A k \in L+1..Len(uses) : Cost(uses, k) > Budget
    BY <1>1 DEF LRUIInv, FullIInv, L
  <2>2. \A k \in L+1..Len(uses) : Cost(t, k) > Budget
    <3>1. \A k \in L+1..Len(uses) : k \in p..Len(uses)
      BY <1>2, <1>3
    <3>2. QED
      BY <1>9, <2>1, <3>1
  <2>3. Idle'
    BY <1>1 DEF Idle
  <2>4. QED
    BY <1>1, <1>6, <1>7, <2>2, <2>3 DEF FullIInv, Cost
<1>14. QED
  BY <1>12, <1>13 DEF LRUIInv

LEMMA PutLRU == ASSUME LRUIInv, NEW s \in Session, NEW n \in Node, Put(s, n) PROVE LRUIInv'
<1>1. Idle /\ putting' = (IF Charge[n] <= Budget THEN <<n>> ELSE << >>)
  BY DEF Put
<1>2. CASE s = owner
  <2> DEFINE L == Len(recent)
             t == ToFront(uses, n)
  <2>1. n \notin DOMAIN entries /\ UNCHANGED <<entries, recent, used, uses>>
    BY <1>2 DEF Put
  <2>2. /\ uses \in Seq(Node) /\ Once(uses) /\ L <= Len(uses)
        /\ DOMAIN entries = {uses[i] : i \in 1..L}
        /\ L \in Nat /\ Len(uses) \in Nat /\ Budget \in Nat /\ Charge[n] \in Nat
        /\ \A k \in 0..Len(uses) : Cost(uses, k) \in Nat
        /\ \A k \in L+1..Len(uses) : Cost(uses, k) > Budget
    BY <1>1, Numbers DEF LRUIInv, ListIInv, FullIInv
  <2>3. PICK p \in Nat : IsPlace(uses, n, p)
    BY <2>2, PlaceExists
  <2>4. p \in L+1..Len(uses)+1
    BY <2>1, <2>2, <2>3 DEF IsPlace
  <2>5. /\ \A k \in 1..p : Cost(t, k) = Charge[n] + Cost(uses, k-1)
        /\ \A k \in p..Len(uses) : Cost(t, k) = Cost(uses, k)
        /\ Len(t) = (IF p <= Len(uses) THEN Len(uses) ELSE Len(uses) + 1)
    BY <2>2, <2>3, ToFrontCost, ToFrontIs
  <2> HIDE DEF t, L
  <2>6. ASSUME NEW k \in L+2..Len(t) PROVE Cost(t, k) > Budget
    <3>1. CASE k <= p
      <4>1. k \in 1..p /\ k - 1 \in L+1..Len(uses) /\ k - 1 \in 0..Len(uses)
        BY <2>2, <2>4, <2>5, <3>1
      <4>2. Cost(t, k) = Charge[n] + Cost(uses, k-1) /\ Cost(uses, k-1) > Budget /\ Cost(uses, k-1) \in Nat
        BY <2>2, <2>5, <4>1
      <4>3. QED
        BY <2>2, <4>2
    <3>2. CASE k > p
      <4>1. k \in p..Len(uses) /\ k \in L+1..Len(uses)
        BY <2>2, <2>4, <2>5, <3>2
      <4>2. QED
        BY <2>2, <2>5, <4>1
    <3>3. QED
      BY <2>2, <2>4, <3>1, <3>2
  <2>7. ListIInv'
    BY <2>1 DEF LRUIInv, ListIInv, Once, Cost
  <2>8. FullIInv'
    <3>1. CASE Charge[n] <= Budget
      <4>1. putting' = <<n>> /\ ~Idle'
        BY <1>1, <3>1 DEF Idle
      <4>2. \A k \in Len(recent')+2..Len(ToFront(uses', n)) : Cost(ToFront(uses', n), k) > Budget
        BY <2>1, <2>6 DEF t, L
      <4>3. QED
        BY <2>1, <3>1, <4>1, <4>2 DEF FullIInv, ToFront, Cost
    <3>2. CASE ~(Charge[n] <= Budget)
      <4>1. Idle'
        BY <1>1, <3>2 DEF Idle
      <4>2. QED
        BY <2>1, <2>2, <4>1 DEF FullIInv, Cost, L
    <3>3. QED
      BY <3>1, <3>2
  <2>9. QED
    BY <2>7, <2>8 DEF LRUIInv
<1>3. CASE s # owner
  <2>1. Emptied(s)
    BY <1>3 DEF Put
  <2>2. ListIInv' /\ recent' = << >> /\ uses' = << >> /\ entries' = << >> /\ Len(uses') = 0 /\ Len(recent') = 0
    BY <2>1, EmptiedLRU
  <2>3. Len(ToFront(<< >>, n)) = 1
    <3>1. << >> \in Seq(Node) /\ Len(<< >>) = 0 /\ 1..0 = {} /\ 1 \in Nat /\ 1 \in 1..0+1 /\ ~(1 <= 0)
      OBVIOUS
    <3> DEFINE e == << >>
    <3>2. e \in Seq(Node) /\ Len(e) = 0
      BY <3>1
    <3> HIDE DEF e
    <3>3. Once(e) /\ IsPlace(e, n, 1)
      BY <3>1, <3>2 DEF Once, IsPlace
    <3>4. Len(ToFront(e, n)) = IF 1 <= Len(e) THEN Len(e) ELSE Len(e) + 1
      BY <3>1, <3>2, <3>3, ToFrontIs
    <3>5. QED
      BY <3>1, <3>2, <3>4 DEF e
  <2>4. FullIInv'
    <3>1. CASE Charge[n] <= Budget
      <4>1. putting' = <<n>> /\ ~Idle'
        BY <1>1, <3>1 DEF Idle
      <4>2. Len(recent')+2..Len(ToFront(uses', n)) = {}
        <5>1. 0+2..1 = {}
          OBVIOUS
        <5>2. Len(ToFront(uses', n)) = 1
          BY <2>2, <2>3
        <5>3. QED
          BY <2>2, <5>1, <5>2
      <4>3. n \notin DOMAIN entries'
        BY <2>2
      <4>4. QED
        BY <3>1, <4>1, <4>2, <4>3 DEF FullIInv, ToFront, Cost
    <3>2. CASE ~(Charge[n] <= Budget)
      <4>1. Idle'
        BY <1>1, <3>2 DEF Idle
      <4>2. QED
        BY <2>2, <4>1 DEF FullIInv
    <3>3. QED
      BY <3>1, <3>2
  <2>5. QED
    BY <2>2, <2>4 DEF LRUIInv
<1>4. QED
  BY <1>2, <1>3

LEMMA PuttingIs ==
    ASSUME LRUIInv, ~Idle
    PROVE  \E n \in Node : 
           /\ putting = <<n>> /\ Head(putting) = n /\ n \notin DOMAIN entries /\ Charge[n] <= Budget
           /\ \A k \in Len(recent)+2..Len(ToFront(uses, n)) : Cost(ToFront(uses, n), k) > Budget
BY DEF LRUIInv, FullIInv

LEMMA EvictLRU == ASSUME LRUIInv, Evict PROVE LRUIInv'
<1> DEFINE L == Len(recent)
<1>1. PICK n \in Node :
        /\ putting = <<n>> /\ Head(putting) = n /\ n \notin DOMAIN entries /\ Charge[n] <= Budget
        /\ \A k \in L+2..Len(ToFront(uses, n)) : Cost(ToFront(uses, n), k) > Budget
  BY PuttingIs DEF Evict
<1> DEFINE t == ToFront(uses, n)
           oldest == Last(recent)
<1>2. /\ used + Charge[n] > Budget /\ recent # << >>
      /\ entries' = [m \in DOMAIN entries \ {oldest} |-> entries[m]]
      /\ used' = used - Charge[oldest] /\ recent' = Front(recent)
      /\ UNCHANGED <<owner, putting, uses>>
  BY <1>1 DEF Evict
<1>3. /\ recent \in Seq(Node) /\ uses \in Seq(Node) /\ Once(uses) /\ L <= Len(uses)
      /\ \A i \in 1..L : recent[i] = uses[i]
      /\ DOMAIN entries = {uses[i] : i \in 1..L}
      /\ used = Cost(uses, L) /\ used <= Budget /\ used \in Nat
      /\ L \in Nat /\ Len(uses) \in Nat /\ Budget \in Nat
      /\ \A k \in 0..Len(uses) : Cost(uses, k) \in Nat
      /\ \A m \in Node : Charge[m] \in Nat \ {0}
  BY Numbers DEF LRUIInv, ListIInv
<1>4. L # 0
  BY <1>2, <1>3, EmptySeq
<1> DEFINE q == L - 1
<1>5. q \in Nat /\ q \in 0..L /\ L = q + 1 /\ L \in 1..Len(uses)
  BY <1>3, <1>4
<1>6. oldest = uses[L]
  BY <1>3, <1>5 DEF Last
<1>7. recent' \in Seq(Node) /\ Len(recent') = q /\ \A i \in 1..q : recent'[i] = recent[i]
  <2>1. /\ SubSeq(recent, 1, q) \in Seq(Node) /\ Len(SubSeq(recent, 1, q)) = q - 1 + 1
        /\ \A i \in 1..q-1+1 : SubSeq(recent, 1, q)[i] = recent[1 + i - 1]
    <3>1. 1 \in 1..L+1 /\ 1 <= q + 1
      BY <1>5
    <3> HIDE DEF q
    <3>2. QED
      BY <1>3, <1>5, <3>1, Part
  <2>2. q - 1 + 1 = q /\ \A i \in Int : 1 + i - 1 = i
    BY <1>5
  <2>3. recent' = SubSeq(recent, 1, q)
    BY <1>2 DEF Front
  <2> HIDE DEF q
  <2>4. QED
    BY <2>1, <2>2, <2>3
<1>8. DOMAIN entries' = {uses[i] : i \in 1..q}
  <2>1. 1..L = (1..q) \cup {L} /\ L \notin 1..q /\ \A i \in 1..q : i \in 1..Len(uses)
    BY <1>3, <1>5
  <2>2. \A i \in 1..q : uses[i] # uses[L]
    BY <1>5, <2>1, <1>3 DEF Once
  <2>3. DOMAIN entries' = DOMAIN entries \ {uses[L]}
    BY <1>2, <1>6
  <2> HIDE DEF q, L
  <2>4. QED
    BY <1>3, <2>1, <2>2, <2>3, ZenonT(30)
<1>9. used' = Cost(uses, q) /\ used' <= Budget
  <2>1. Cost(uses, L) = Cost(uses, L-1) + Charge[uses[L]]
    BY <1>3, <1>5, CostSteps
  <2>2. Cost(uses, q) \in Nat /\ Charge[uses[L]] \in Nat
    <3>1. q \in 0..Len(uses)
      BY <1>3, <1>5
    <3>2. uses[L] \in Node
      BY <1>3, <1>5, ElementOfSeq
    <3>3. QED
      BY <1>3, <3>1, <3>2
  <2>3. QED
    BY <1>2, <1>3, <1>6, <2>1, <2>2
<1>10. PICK p \in Nat : IsPlace(uses, n, p)
  BY <1>3, PlaceExists
<1>11. p \in L+1..Len(uses)+1
  BY <1>1, <1>3, <1>10 DEF IsPlace
<1>12. Cost(t, L + 1) > Budget
  <2>1. L + 1 \in 1..p /\ (L + 1) - 1 = L
    BY <1>3, <1>11
  <2>a. \A k \in 1..p : Cost(t, k) = Charge[n] + Cost(uses, k-1)
    BY <1>3, <1>10, ToFrontCost
  <2> HIDE DEF t, L
  <2>2. Cost(t, L + 1) = Charge[n] + Cost(uses, L)
    BY <2>1, <2>a
  <2>3. QED
    BY <1>2, <1>3, <2>2
<1> HIDE DEF q
<1>13. ListIInv'
  <2>1. q <= Len(uses) /\ \A i \in 1..q : i \in 1..L
    BY <1>3, <1>5
  <2>2. Len(recent') = q /\ uses' = uses /\ Cost(uses, Len(recent))' = Cost(uses, q)
    BY <1>2, <1>7 DEF Cost
  <2>3. \A i \in 1..q : recent'[i] = uses[i]
    BY <1>3, <1>7, <2>1
  <2>4. Once(uses)'
    BY <1>3, <2>2 DEF Once
  <2>5. QED
    BY <1>3, <1>7, <1>8, <1>9, <2>1, <2>2, <2>3, <2>4 DEF ListIInv
<1>14. FullIInv'
  <2>1. putting' = <<n>> /\ ~Idle' /\ n \notin DOMAIN entries'
    BY <1>1, <1>2 DEF Idle
  <2>2. ASSUME NEW k \in q+2..Len(t) PROVE Cost(t, k) > Budget
    <3>1. k = L + 1 \/ k \in L+2..Len(t)
      BY <1>5
    <3>2. QED
      BY <1>1, <1>12, <3>1
  <2>3. \A k \in Len(recent')+2..Len(ToFront(uses', n)) : Cost(ToFront(uses', n), k) > Budget
    BY <1>2, <1>7, <2>2
  <2>4. QED
    BY <1>1, <2>1, <2>3 DEF FullIInv, ToFront, Cost
<1>15. QED
  BY <1>13, <1>14 DEF LRUIInv

LEMMA InsertLRU == ASSUME LRUIInv, Insert PROVE LRUIInv'
<1> DEFINE L == Len(recent)
<1>1. PICK n \in Node :
        /\ putting = <<n>> /\ Head(putting) = n /\ n \notin DOMAIN entries /\ Charge[n] <= Budget
        /\ \A k \in L+2..Len(ToFront(uses, n)) : Cost(ToFront(uses, n), k) > Budget
  BY PuttingIs DEF Insert
<1> DEFINE t == ToFront(uses, n)
<1>2. /\ used + Charge[n] <= Budget
      /\ entries' = [m \in DOMAIN entries \cup {n} |-> IF m = n THEN owner ELSE entries[m]]
      /\ recent' = <<n>> \o recent /\ used' = used + Charge[n] /\ uses' = t
      /\ putting' = << >>
  BY <1>1 DEF Insert
<1>3. /\ recent \in Seq(Node) /\ uses \in Seq(Node) /\ Once(uses) /\ L <= Len(uses)
      /\ \A i \in 1..L : recent[i] = uses[i]
      /\ DOMAIN entries = {uses[i] : i \in 1..L}
      /\ used = Cost(uses, L) /\ used \in Nat
      /\ L \in Nat /\ Len(uses) \in Nat
      /\ \A m \in Node : Charge[m] \in Nat \ {0}
  BY Numbers DEF LRUIInv, ListIInv
<1>4. PICK p \in Nat : IsPlace(uses, n, p)
  BY <1>3, PlaceExists
<1>5. p \in L+1..Len(uses)+1
  BY <1>1, <1>3, <1>4 DEF IsPlace
<1>6. /\ t \in Seq(Node) /\ Len(t) = (IF p <= Len(uses) THEN Len(uses) ELSE Len(uses) + 1)
      /\ t[1] = n /\ \A k \in 2..p : t[k] = uses[k-1]
      /\ \A k \in 1..p : Cost(t, k) = Charge[n] + Cost(uses, k-1)
      /\ Once(t)
  BY <1>3, <1>4, ToFrontIs, ToFrontCost, StillOnce
<1>7. /\ recent' \in Seq(Node) /\ Len(recent') = L + 1 /\ recent'[1] = n
      /\ \A i \in 2..L+1 : recent'[i] = recent[i-1]
  <2>1. <<n>> \in Seq(Node) /\ Len(<<n>>) = 1 /\ <<n>>[1] = n
    OBVIOUS
  <2>2. /\ recent' \in Seq(Node) /\ Len(recent') = 1 + L
        /\ \A i \in 1..1+L : recent'[i] = IF i <= 1 THEN <<n>>[i] ELSE recent[i-1]
    BY <1>2, <1>3, <2>1, ConcatProperties
  <2> HIDE DEF L
  <2>3. 1 \in 1..1+L /\ 1 + L = L + 1 /\ \A i \in 2..L+1 : i \in 1..1+L /\ ~(i <= 1)
    BY <1>3
  <2>4. QED
    BY <2>1, <2>2, <2>3
<1> HIDE DEF L, t
<1>8. \A i \in 1..L+1 : recent'[i] = t[i]
  <2> TAKE i \in 1..L+1
  <2>1. CASE i = 1
    BY <1>6, <1>7, <2>1
  <2>2. CASE i # 1
    <3>1. i \in 2..L+1 /\ i \in 2..p /\ i - 1 \in 1..L
      BY <1>3, <1>5, <2>2
    <3>2. QED
      BY <1>3, <1>6, <1>7, <3>1
  <2>3. QED
    BY <2>1, <2>2
<1>9. DOMAIN entries' = {t[i] : i \in 1..L+1}
  <2>1. DOMAIN entries' = {uses[i] : i \in 1..L} \cup {n}
    BY <1>2, <1>3
  <2>2. ASSUME NEW i \in 1..L+1 PROVE t[i] \in {uses[j] : j \in 1..L} \cup {n}
    <3>1. i # 1 => i \in 2..p /\ i - 1 \in 1..L
      BY <1>3, <1>5
    <3>2. QED
      BY <1>6, <3>1
  <2>3. ASSUME NEW j \in 1..L PROVE uses[j] \in {t[i] : i \in 1..L+1}
    <3>1. j + 1 \in 2..p /\ j + 1 \in 1..L+1 /\ (j + 1) - 1 = j
      BY <1>3, <1>5
    <3>2. t[j + 1] = uses[(j + 1) - 1]
      BY <1>6, <3>1
    <3>3. QED
      BY <3>1, <3>2
  <2>4. n \in {t[i] : i \in 1..L+1}
    <3>1. 1 \in 1..L+1
      BY <1>3
    <3>2. t[1] = n
      BY <1>6
    <3>3. QED
      BY <3>1, <3>2
  <2>5. QED
    BY <2>1, <2>2, <2>3, <2>4
<1>10. used' = Cost(t, L + 1)
  <2>1. L + 1 \in 1..p /\ (L + 1) - 1 = L
    BY <1>3, <1>5
  <2>2. Cost(t, L + 1) = Charge[n] + Cost(uses, L)
    BY <1>6, <2>1
  <2>3. QED
    BY <1>2, <1>3, <2>2
<1>11. ListIInv'
  <2>1. L + 1 <= Len(t)
    BY <1>3, <1>5, <1>6
  <2>2. used' <= Budget
    BY <1>2
  <2>3. /\ recent' \in Seq(Node) /\ Len(recent') = L + 1
        /\ uses' = t /\ t \in Seq(Node) /\ Once(t)
    BY <1>2, <1>6, <1>7
  <2> HIDE DEF L, t
  <2>4. QED
    BY <1>8, <1>9, <1>10, <2>1, <2>2, <2>3 DEF ListIInv, Once, Cost
<1>12. FullIInv'
  <2>1. Idle'
    BY <1>2 DEF Idle
  <2>2. \A k \in L+2..Len(t) : Cost(t, k) > Budget
    BY <1>1 DEF L, t
  <2>3. (L + 1) + 1 = L + 2
    BY <1>3
  <2>4. QED
    BY <1>2, <1>7, <2>1, <2>2, <2>3 DEF FullIInv, Cost
<1>13. QED
  BY <1>11, <1>12 DEF LRUIInv

LEMMA NextLRU == LRUIInv /\ [CacheNext]_cacheVars => LRUIInv'
<1> SUFFICES ASSUME LRUIInv, [CacheNext]_cacheVars PROVE LRUIInv'
  OBVIOUS
<1>1. CASE Reset
  <2>1. Idle' /\ Emptied(Nil)
    BY <1>1 DEF Reset, Idle
  <2>2. ListIInv' /\ Len(uses') = 0 /\ Len(recent') = 0
    BY <2>1, EmptiedLRU
  <2>3. FullIInv'
    BY <2>1, <2>2 DEF FullIInv
  <2>4. QED
    BY <2>2, <2>3 DEF LRUIInv
<1>2. CASE \E s \in Session, n \in Node : Hit(s, n) \/ Put(s, n)
  BY <1>2, HitLRU, PutLRU
<1>3. CASE Evict
  BY <1>3, EvictLRU
<1>4. CASE Insert
  BY <1>4, InsertLRU
<1>5. CASE UNCHANGED cacheVars
  <2>1. UNCHANGED <<owner, entries, recent, used, putting, uses>>
    BY <1>5 DEF cacheVars
  <2>2. Once(uses)' = Once(uses) /\ Cost(uses, Len(recent))' = Cost(uses, Len(recent))
    BY <2>1 DEF Once, Cost
  <2>3. ListIInv'
    BY <2>1, <2>2 DEF LRUIInv, ListIInv
  <2>4. CASE Idle
    <3>1. \A k \in Len(recent)+1..Len(uses) : Cost(uses, k)' = Cost(uses, k)
      BY <2>1 DEF Cost
    <3>2. QED
      BY <2>1, <2>3, <2>4, <3>1 DEF LRUIInv, FullIInv, Idle, Cost
  <2>5. CASE ~Idle
    <3>1. PICK n \in Node :
            /\ putting = <<n>> /\ n \notin DOMAIN entries /\ Charge[n] <= Budget
            /\ \A k \in Len(recent)+2..Len(ToFront(uses, n)) : Cost(ToFront(uses, n), k) > Budget
      BY <2>5, PuttingIs
    <3>2. \A k \in Len(recent')+2..Len(ToFront(uses', n)) : Cost(ToFront(uses', n), k) > Budget
      BY <2>1, <3>1
    <3>3. ~Idle' /\ putting' = <<n>> /\ n \notin DOMAIN entries'
      BY <2>1, <2>5, <3>1 DEF Idle
    <3>4. QED
      BY <2>3, <3>1, <3>2, <3>3 DEF LRUIInv, FullIInv, ToFront, Cost
  <2>6. QED
    BY <2>4, <2>5
<1>6. QED
  BY <1>1, <1>2, <1>3, <1>4, <1>5 DEF CacheNext

(* What has been used most recently and fits together is still held: put    *)
(* evicts from the far end of the list, and no more than it must (cache.go).*)
THEOREM LeastRecentlyUsedLeaves == CacheSpec => []RecentStay
<1>1. LRUIInv => RecentStay
  <2> SUFFICES ASSUME LRUIInv, Idle, NEW k \in 1..Len(uses), Total(SubSeq(uses, 1, k)) <= Budget
               PROVE  uses[k] \in DOMAIN entries
    BY DEF RecentStay
  <2>1. k \in 1..Len(recent)
    <3>1. Len(recent) \in Nat /\ Len(uses) \in Nat /\ Budget \in Nat /\ Cost(uses, k) \in Nat
      <4>1. k \in 0..Len(uses)
        BY Numbers DEF LRUIInv
      <4>2. QED
        BY <4>1, Numbers DEF LRUIInv
    <3>2. k \notin Len(recent)+1..Len(uses)
      BY <3>1 DEF LRUIInv, FullIInv, Cost
    <3>3. QED
      BY <3>1, <3>2
  <2>2. QED
    BY <2>1 DEF LRUIInv, ListIInv
<1>2. QED
  BY <1>1, InitLRU, NextLRU, PTL DEF CacheSpec

(* The map, the list and the charge agree at every step of put's loop       *)
(* (cache.go): what eviction removes is a live entry, and the loop ends.    *)
THEOREM PartsAgree == CacheSpec => []Consistent
<1>1. LRUIInv /\ HeldIInv => Consistent
  <2> SUFFICES ASSUME LRUIInv, HeldIInv PROVE Consistent
    OBVIOUS
  <2> DEFINE L == Len(recent)
  <2>1. /\ recent \in Seq(Node) /\ uses \in Seq(Node) /\ Once(uses) /\ L <= Len(uses)
        /\ \A i \in 1..L : recent[i] = uses[i]
        /\ DOMAIN entries = {uses[i] : i \in 1..L}
        /\ used = Cost(uses, L) /\ used <= Budget
        /\ L \in Nat /\ Len(uses) \in Nat /\ used \in Nat /\ Budget \in Nat
    BY Numbers DEF LRUIInv, ListIInv
  <2>2. DOMAIN recent = 1..L
    BY <2>1, LenProperties
  <2>3. TypeOK
    BY <2>1 DEF TypeOK, HeldIInv
  <2>4. MapAgreesWithList
    <3>1. ToSet(recent) = DOMAIN entries
      BY <2>1, <2>2 DEF ToSet
    <3>2. IsInjective(recent)
      BY <2>1, <2>2 DEF IsInjective, Once
    <3>3. QED
      BY <3>1, <3>2 DEF MapAgreesWithList
  <2>5. UsedIsTheCharge
    <3>1. Cost(recent, L) = Cost(uses, L)
      <4>1. L \in Nat /\ L <= Len(recent) /\ L <= Len(uses) /\ L \in 0..L
        BY <2>1
      <4> HIDE DEF L
      <4>2. \A k \in 0..L : Cost(recent, k) = Cost(uses, k)
        BY <2>1, <4>1, SameCost
      <4>3. QED
        BY <4>1, <4>2
    <3>2. Cost(recent, L) = Total(recent)
      BY <2>1, CostSteps
    <3>3. ASSUME ~Idle, recent = << >> PROVE used + Charge[Head(putting)] <= Budget
      <4>1. PICK n \in Node : Head(putting) = n /\ Charge[n] <= Budget
        BY <3>3, PuttingIs
      <4>2. L = 0
        BY <3>3
      <4>3. used = 0
        BY <2>1, <4>2, CostSteps
      <4>4. Charge[n] \in Nat
        BY CacheAssumption
      <4>5. QED
        BY <4>1, <4>3, <4>4
    <3>4. QED
      BY <2>1, <3>1, <3>2, <3>3 DEF UsedIsTheCharge
  <2>6. QED
    BY <2>3, <2>4, <2>5 DEF Consistent, HeldIInv
<1>2. QED
  BY <1>1, InitLRU, NextLRU, HeldInit, HeldNext, PTL DEF CacheSpec

-----------------------------------------------------------------------------
(* The workspace: sums along a row, and slices of it.                       *)

LEMMA Quotient ==
    ASSUME NEW a \in Nat, NEW b \in Nat \ {0}
    PROVE  /\ a \div b \in Nat
           /\ b * (a \div b) <= a /\ a < b * (a \div b) + b
OBVIOUS

LEMMA Times ==
    ASSUME NEW c \in Nat, NEW x \in Int, NEW y \in Int, x <= y
    PROVE  c * x <= c * y
OBVIOUS

(* A function whose steps are the counts knows their sum.                    *)
LEMMA TallyIs ==
    ASSUME NEW n \in Nat, NEW counts, Len(counts) = n, NEW g \in [0..n -> Int],
           \A k \in 1..n : counts[k] = g[k] - g[k-1]
    PROVE  Tally(counts) = g[n] - g[0]
<1> DEFINE Is(h) == h = [k \in 0..n |-> IF k = 0 THEN 0 ELSE h[k-1] + counts[k]]
           f == [k \in 0..n |-> g[k] - g[0]]
           h == CHOOSE x : Is(x)
<1>1. Is(f)
  <2>1. \A k \in 1..n : k - 1 \in 0..n /\ k \in 0..n /\ g[k] \in Int /\ g[k-1] \in Int /\ g[0] \in Int
    OBVIOUS
  <2>2. ASSUME NEW k \in 1..n PROVE f[k] = f[k-1] + counts[k]
    BY <2>1
  <2>3. f[0] = 0 /\ f = [k \in 0..n |-> f[k]]
    OBVIOUS
  <2> HIDE DEF f
  <2>4. \A k \in 0..n : k = 0 \/ k \in 1..n
    OBVIOUS
  <2>5. \A k \in 1..n : k # 0
    OBVIOUS
  <2>6. \A k \in 0..n : f[k] = IF k = 0 THEN 0 ELSE f[k-1] + counts[k]
    BY <2>2, <2>3, <2>4, <2>5
  <2>7. QED
    BY <2>3, <2>6
<1>2. Is(h)
  <2> HIDE DEF Is, f
  <2>1. QED
    BY <1>1
<1>3. Tally(counts) = h[n]
  BY DEF Tally
<1> HIDE DEF h
<1>4. \A k \in 0..n : h[k] = IF k = 0 THEN 0 ELSE h[k-1] + counts[k]
  BY <1>2
<1> DEFINE S == {k \in Nat : k <= n => h[k] = g[k] - g[0]}
<1>5. 0 \in S
  BY <1>4
<1>6. ASSUME NEW k \in Nat, k \in S PROVE k + 1 \in S
  <2> SUFFICES ASSUME k + 1 <= n PROVE h[k+1] = g[k+1] - g[0]
    OBVIOUS
  <2>1. k + 1 \in 1..n /\ k + 1 \in 0..n /\ (k + 1) - 1 = k /\ k + 1 # 0 /\ k \in 0..n
    OBVIOUS
  <2>2. h[k+1] = h[k] + counts[k+1] /\ h[k] = g[k] - g[0]
    BY <1>4, <1>6, <2>1
  <2>3. counts[k+1] = g[k+1] - g[k] /\ g[k+1] \in Int /\ g[k] \in Int /\ g[0] \in Int
    BY <2>1
  <2>4. QED
    BY <2>2, <2>3
<1>7. Nat \subseteq S
  <2> HIDE DEF S
  <2>1. QED
    BY <1>5, <1>6, SetInduction
<1>8. QED
  BY <1>3, <1>7

(* Lines between two offsets.                                               *)
LEMMA Slice ==
    ASSUME NEW S, NEW w \in Seq(S), NEW a \in Nat, NEW b \in Nat, a <= b, b <= Len(w)
    PROVE  /\ SubSeq(w, a + 1, b) \in Seq(S)
           /\ Len(SubSeq(w, a + 1, b)) = b - a
           /\ \A x \in 1..b-a : SubSeq(w, a + 1, b)[x] = w[a + x]
<1> DEFINE c == a + 1
<1>1. c \in Nat \ {0} /\ c <= b + 1 /\ (b + 1) - c = b - a /\ c - 1 = a
  OBVIOUS
<1> HIDE DEF c
<1>2. /\ SubSeq(w, c, b) \in Seq(S)
      /\ Len(SubSeq(w, c, b)) = (b + 1) - c
      /\ \A x \in 1..(b + 1) - c : SubSeq(w, c, b)[x] = w[(c - 1) + x]
  BY <1>1, Part
<1>3. QED
  BY <1>1, <1>2 DEF c

(* A slice of a slice is one of the whole. *)
LEMMA SliceOfSlice ==
    ASSUME NEW S, NEW w \in Seq(S), NEW a \in Nat, NEW b \in Nat, a <= b, b <= Len(w),
           NEW i \in Nat, NEW j \in Nat, i <= j, j <= b - a
    PROVE  SubSeq(SubSeq(w, a + 1, b), i + 1, j) = SubSeq(w, (a + i) + 1, a + j)
<1> DEFINE s == SubSeq(w, a + 1, b)
           t == SubSeq(s, i + 1, j)
<1>1. s \in Seq(S) /\ Len(s) = b - a /\ \A x \in 1..b-a : s[x] = w[a + x]
  BY Slice
<1> HIDE DEF s
<1>2. t \in Seq(S) /\ Len(t) = j - i /\ \A x \in 1..j-i : t[x] = s[i + x]
  BY <1>1, Slice
<1> HIDE DEF t
<1> DEFINE k == j - i
<1>3. k \in Nat /\ a + i \in Nat /\ (a + i) + k = a + j /\ (a + i) + k <= Len(w) /\ Len(t) = k
  BY <1>2, LenProperties
<1>4. \A x \in 1..k : i + x \in 1..b-a /\ a + (i + x) = (a + i) + x
  OBVIOUS
<1>5. \A x \in 1..k : w[(a + i) + x] = t[x]
  BY <1>1, <1>2, <1>4
<1> HIDE DEF k
<1>6. SubSeq(w, (a + i) + 1, (a + i) + k) = t
  BY <1>2, <1>3, <1>5, PartIs
<1>7. QED
  BY <1>3, <1>6 DEF s, t

LEMMA SliceOfHead ==
    ASSUME NEW S, NEW w \in Seq(S), NEW b \in Nat, b <= Len(w),
           NEW i \in Nat, NEW j \in Nat, i <= j, j <= b
    PROVE  SubSeq(SubSeq(w, 1, b), i + 1, j) = SubSeq(w, i + 1, j)
<1> DEFINE z == 0
<1>1. z \in Nat /\ z <= b /\ j <= b - z /\ z + 1 = 1 /\ z + i = i /\ z + j = j
  OBVIOUS
<1> HIDE DEF z
<1>2. SubSeq(SubSeq(w, z + 1, b), i + 1, j) = SubSeq(w, (z + i) + 1, z + j)
  BY <1>1, SliceOfSlice
<1>3. QED
  BY <1>1, <1>2

(* Slices that meet join to one. *)
LEMMA Adjoin ==
    ASSUME NEW S, NEW w \in Seq(S), NEW a \in Nat, NEW b \in Nat, NEW c \in Nat, a <= b, b <= c, c <= Len(w)
    PROVE  SubSeq(w, a + 1, b) \o SubSeq(w, b + 1, c) = SubSeq(w, a + 1, c)
<1> DEFINE m == a + 1
<1>1. Len(w) \in Nat
  BY LenProperties
<1>2. m \in 1..Len(w)+1 /\ b \in m-1..Len(w) /\ c \in b..Len(w)
  BY <1>1
<1> HIDE DEF m
<1>3. SubSeq(w, m, b) \o SubSeq(w, b + 1, c) = SubSeq(w, m, c)
  BY <1>2, ConcatAdjacentSubSeq
<1>4. QED
  BY <1>3 DEF m

-----------------------------------------------------------------------------
(* What lines weigh.                                                        *)

Filled(t, a, b) == {i \in a+1..b : t[i] # EmptyLine}

\* The bytes of the first k lines.
Weight(t) == [k \in 0..Len(t) |-> k + Cardinality(Filled(t, 0, k))]

(* The lines that are not empty are counted from the start. *)
LEMMA FilledIs ==
    ASSUME NEW t, NEW a \in Nat, NEW b \in Nat
    PROVE  IsFiniteSet(Filled(t, a, b)) /\ Cardinality(Filled(t, a, b)) \in Nat
<1>1. IsFiniteSet(a+1..b)
  BY FS_Interval
<1>2. Filled(t, a, b) \subseteq a+1..b
  BY DEF Filled
<1>3. QED
  BY <1>1, <1>2, FS_Subset, FS_CardinalityType

LEMMA FilledSplits ==
    ASSUME NEW t, NEW a \in Nat, NEW b \in Nat, a <= b
    PROVE  Cardinality(Filled(t, 0, b)) = Cardinality(Filled(t, 0, a)) + Cardinality(Filled(t, a, b))
<1>1. Filled(t, 0, b) = Filled(t, 0, a) \cup Filled(t, a, b) /\ Filled(t, 0, a) \cap Filled(t, a, b) = {}
  <2>1. \A i \in Int : (i \in 0+1..b <=> i \in 0+1..a \/ i \in a+1..b) /\ ~(i \in 0+1..a /\ i \in a+1..b)
    OBVIOUS
  <2>2. QED
    BY <2>1 DEF Filled
<1>2. /\ IsFiniteSet(Filled(t, 0, a)) /\ IsFiniteSet(Filled(t, a, b))
      /\ Cardinality(Filled(t, 0, a)) \in Nat /\ Cardinality(Filled(t, a, b)) \in Nat
  BY FilledIs
<1> DEFINE A == Filled(t, 0, a)
           B == Filled(t, a, b)
<1>3. IsFiniteSet(A) /\ IsFiniteSet(B) /\ A \cap B = {} /\ Cardinality(A) \in Nat /\ Cardinality(B) \in Nat
  BY <1>1, <1>2
<1> HIDE DEF A, B
<1>4. Cardinality(A \cup B) = Cardinality(A) + Cardinality(B) - Cardinality(A \cap B)
  BY <1>3, FS_Union
<1>5. Cardinality(A \cap B) = 0
  BY <1>3, FS_EmptySet
<1>6. Cardinality(A \cup B) = Cardinality(A) + Cardinality(B)
  BY <1>3, <1>4, <1>5
<1>7. QED
  BY <1>1, <1>6 DEF A, B

LEMMA FilledShifts ==
    ASSUME NEW t, NEW u, NEW a \in Nat, NEW n \in Nat, \A x \in 1..n : u[x] = t[a + x]
    PROVE  Cardinality(Filled(u, 0, n)) = Cardinality(Filled(t, a, a + n))
<1> DEFINE U == Filled(u, 0, n)
           T == Filled(t, a, a + n)
           f == [x \in U |-> a + x]
<1>1. IsFiniteSet(U)
  BY FilledIs
<1>2. \A x \in U : x \in 1..n /\ u[x] # EmptyLine
  BY DEF Filled
<1>3. \A x \in U : f[x] \in T
  <2> TAKE x \in U
  <2>1. x \in 1..n /\ a + x \in a+1..a+n /\ t[a + x] # EmptyLine
    BY <1>2
  <2>2. QED
    BY <2>1 DEF Filled
<1>4. \A y \in T : \E x \in U : f[x] = y
  <2> TAKE y \in T
  <2>1. y \in a+1..a+n /\ t[y] # EmptyLine
    BY DEF Filled
  <2>2. y - a \in 0+1..n /\ y - a \in 1..n /\ a + (y - a) = y
    BY <2>1
  <2>3. y - a \in U
    BY <2>1, <2>2 DEF Filled
  <2>4. QED
    BY <2>2, <2>3
<1>5. \A x, y \in U : f[x] = f[y] => x = y
  BY <1>2
<1>6. f \in [U -> T]
  BY <1>3
<1> HIDE DEF U, T, f
<1>7. f \in Bijection(U, T)
  <2>1. DOMAIN f = U
    BY <1>6
  <2>2. IsInjective(f)
    BY <1>5, <2>1 DEF IsInjective
  <2>3. QED
    BY <1>4, <1>6, <2>2 DEF Bijection, Injection, Surjection
<1>8. Cardinality(U) = Cardinality(T)
  BY <1>1, <1>7, FS_Bijection DEF ExistsBijection
<1>9. QED
  BY <1>8 DEF U, T

(* The bytes of a slice are the difference of two weights. *)
LEMMA BytesIs ==
    ASSUME NEW w \in Seq(Line)
    PROVE  Bytes(w) = Len(w) + Cardinality(Filled(w, 0, Len(w))) /\ Bytes(w) \in Nat
<1>1. Len(w) \in Nat /\ DOMAIN w = 1..Len(w)
  BY LenProperties
<1>2. {i \in DOMAIN w : w[i] # EmptyLine} = Filled(w, 0, Len(w))
  BY <1>1 DEF Filled
<1>3. Bytes(w) = Len(w) + Cardinality(Filled(w, 0, Len(w)))
  BY <1>2 DEF Bytes
<1>4. Cardinality(Filled(w, 0, Len(w))) \in Nat
  BY <1>1, FilledIs
<1>5. QED
  BY <1>1, <1>3, <1>4

LEMMA BytesOfSlice ==
    ASSUME NEW t \in Seq(Line), NEW a \in Nat, NEW b \in Nat, a <= b, b <= Len(t)
    PROVE  /\ Bytes(SubSeq(t, a + 1, b)) = Weight(t)[b] - Weight(t)[a]
           /\ Weight(t)[b] \in Nat /\ Weight(t)[a] \in Nat
<1> DEFINE w == SubSeq(t, a + 1, b)
           n == b - a
<1>1. w \in Seq(Line) /\ Len(w) = n /\ \A x \in 1..n : w[x] = t[a + x]
  BY Slice
<1>2. n \in Nat /\ a + n = b /\ a \in 0..Len(t) /\ b \in 0..Len(t)
  BY LenProperties
<1> HIDE DEF w, n
<1>3. Bytes(w) = n + Cardinality(Filled(w, 0, n))
  <2>1. Bytes(w) = Len(w) + Cardinality(Filled(w, 0, Len(w)))
    BY <1>1, BytesIs
  <2>2. QED
    BY <1>1, <2>1
<1>4. Cardinality(Filled(w, 0, n)) = Cardinality(Filled(t, a, b))
  <2>1. a \in Nat /\ n \in Nat /\ \A x \in 1..n : w[x] = t[a + x]
    BY <1>1, <1>2
  <2>2. Cardinality(Filled(w, 0, n)) = Cardinality(Filled(t, a, a + n))
    BY ONLY <2>1, FilledShifts, ZenonT(60)
  <2>3. QED
    BY <1>2, <2>2
<1>5. Cardinality(Filled(t, 0, b)) = Cardinality(Filled(t, 0, a)) + Cardinality(Filled(t, a, b))
  BY FilledSplits
<1>6. /\ Cardinality(Filled(t, 0, b)) \in Nat /\ Cardinality(Filled(t, 0, a)) \in Nat
      /\ Cardinality(Filled(t, a, b)) \in Nat
  BY FilledIs
<1>7. /\ Weight(t)[b] = b + Cardinality(Filled(t, 0, b))
      /\ Weight(t)[a] = a + Cardinality(Filled(t, 0, a))
  BY <1>2 DEF Weight
<1>8. QED
  BY <1>2, <1>3, <1>4, <1>5, <1>6, <1>7, SMTT(40) DEF w

LEMMA BytesOfAll ==
    ASSUME NEW t \in Seq(Line)
    PROVE  Bytes(t) = Weight(t)[Len(t)] /\ Weight(t)[0] = 0
<1>1. Len(t) \in Nat /\ SubSeq(t, 0 + 1, Len(t)) = t
  BY LenProperties, SubSeqFull
<1>2. Bytes(t) = Weight(t)[Len(t)] - Weight(t)[0] /\ Weight(t)[Len(t)] \in Nat
  <2>1. 0 \in Nat /\ 0 <= Len(t) /\ Len(t) <= Len(t)
    BY <1>1
  <2>2. Bytes(SubSeq(t, 0 + 1, Len(t))) = Weight(t)[Len(t)] - Weight(t)[0] /\ Weight(t)[Len(t)] \in Nat
    BY <1>1, <2>1, BytesOfSlice
  <2>3. QED
    BY <1>1, <2>2
<1>3. Filled(t, 0, 0) = {}
  BY DEF Filled
<1>4. Weight(t)[0] = 0
  BY <1>1, <1>3, FS_EmptySet, SMTT(40) DEF Weight
<1>5. QED
  BY <1>2, <1>4

LEMMA BytesOfJoin ==
    ASSUME NEW s \in Seq(Line), NEW t \in Seq(Line)
    PROVE  Bytes(s \o t) = Bytes(s) + Bytes(t)
<1> DEFINE u == s \o t
           n == Len(s)
           m == Len(u)
<1>1. u \in Seq(Line) /\ n \in Nat /\ m \in Nat /\ n <= m
      /\ SubSeq(u, 0 + 1, n) = s /\ SubSeq(u, n + 1, m) = t /\ SubSeq(u, 0 + 1, m) = u
  <2>1. <<>> \in Seq(Line) /\ Len(<<>>) = 0 /\ u = (s \o t) \o <<>>
    BY EmptySeq, ConcatProperties, ConcatEmptySeq
  <2>2. Len(s) \in Nat /\ Len(t) \in Nat /\ u \in Seq(Line) /\ Len(u) = Len(s) + Len(t)
    BY LenProperties, ConcatProperties
  <2>3. SubSeq(u, 1, Len(s)) = s /\ SubSeq(u, Len(s) + 1, Len(s) + Len(t)) = t
    <3> HIDE DEF u
    <3>1. QED
      BY <2>1, Cut
  <2>4. SubSeq(u, 1, Len(u)) = u
    BY <2>2, SubSeqFull
  <2> HIDE DEF u
  <2>5. QED
    BY <2>2, <2>3, <2>4
<1> HIDE DEF u, n, m
<1>2. /\ Bytes(s) = Weight(u)[n] - Weight(u)[0] /\ Bytes(t) = Weight(u)[m] - Weight(u)[n]
      /\ Bytes(u) = Weight(u)[m] - Weight(u)[0]
      /\ Weight(u)[0] \in Nat /\ Weight(u)[n] \in Nat /\ Weight(u)[m] \in Nat
  <2>1. m = Len(u) /\ m <= Len(u) /\ n <= Len(u) /\ 0 \in Nat /\ 0 <= n /\ 0 <= m
    BY <1>1 DEF m
  <2>2. QED
    BY <1>1, <2>1, BytesOfSlice, ZenonT(60)
<1>3. QED
  BY <1>2 DEF u

-----------------------------------------------------------------------------
(* Split.                                                                   *)

Count(n) == (n + MaxLines - 1) \div MaxLines
MarkAt(n, i) == (i * n) \div Count(n)

(* splitLines makes the fewest chunks that hold the lines. *)
LEMMA Counted ==
    ASSUME NEW n \in Nat \ {0}
    PROVE  /\ Count(n) \in Nat \ {0}
           /\ n <= MaxLines * Count(n) /\ MaxLines * Count(n) < n + MaxLines
           /\ (n <= MaxLines => Count(n) = 1)
<1> DEFINE M == MaxLines
           c == Count(n)
<1>1. M \in Nat \ {0, 1} /\ M \in Nat \ {0} /\ n + M - 1 \in Nat
  BY TextAssumption
<1>2. c \in Nat /\ M * c <= n + M - 1 /\ n + M - 1 < M * c + M
  BY <1>1, Quotient DEF Count
<1> HIDE DEF M, c
<1>3. M * 0 = 0
  BY <1>1
<1>4. c # 0
  BY <1>1, <1>2, <1>3
<1>5. n <= M * c /\ M * c < n + M
  <2> DEFINE p == M * c
  <2>1. p \in Nat /\ p <= n + M - 1 /\ n + M - 1 < p + M
    BY <1>1, <1>2
  <2> HIDE DEF p
  <2>2. n <= p /\ p < n + M
    BY <1>1, <2>1
  <2>3. QED
    BY <2>2 DEF p
<1>6. ASSUME n <= M, c >= 2 PROVE FALSE
  <2>1. M * 2 <= M * c
    BY <1>1, <1>2, <1>6, Times
  <2>2. M * 2 = M + M /\ M * 2 \in Nat /\ M * c \in Nat
    BY <1>1, <1>2
  <2>3. QED
    BY <1>1, <1>5, <1>6, <2>1, <2>2
<1>7. n <= M => c = 1
  BY <1>2, <1>4, <1>6
<1>8. QED
  BY <1>2, <1>4, <1>5, <1>7 DEF M, c

(* The chunks are as even as whole numbers allow, so that each is between    *)
(* half full and full when there are two or more.                           *)
LEMMA Evenly ==
    ASSUME NEW n \in Nat \ {0}
    PROVE  /\ \A i \in 0..Count(n) : MarkAt(n, i) \in Nat
           /\ MarkAt(n, 0) = 0 /\ MarkAt(n, Count(n)) = n
           /\ \A i \in 1..Count(n) :
                /\ MarkAt(n, i-1) + 1 <= MarkAt(n, i) /\ MarkAt(n, i) <= MarkAt(n, i-1) + MaxLines
                /\ Count(n) > 1 => MarkAt(n, i-1) + Half <= MarkAt(n, i)
<1> DEFINE M == MaxLines
           H == Half
           c == Count(n)
           f(i) == MarkAt(n, i)
<1>1. /\ M \in Nat /\ M >= 2 /\ c \in Nat \ {0} /\ c \in Nat /\ c >= 1 /\ n >= 1
      /\ n <= M * c /\ M * c < n + M
      /\ H \in Nat /\ H >= 1 /\ H + H <= M
  BY TextAssumption, Counted DEF Half
<1>2. ASSUME NEW i \in 0..c PROVE f(i) \in Nat /\ c * f(i) <= i * n /\ i * n < c * f(i) + c
  <2>1. i \in Nat /\ i * n \in Nat
    BY <1>1
  <2>2. QED
    BY <1>1, <2>1, Quotient DEF MarkAt
<1>3. f(0) = 0
  <2>1. 0 \in 0..c /\ 0 * n = 0
    BY <1>1
  <2>2. f(0) \in Nat /\ c * f(0) <= 0
    BY <1>2, <2>1
  <2> DEFINE x == f(0)
  <2> HIDE DEF f
  <2> SUFFICES ASSUME x >= 1 PROVE FALSE
    BY <2>2
  <2> HIDE DEF x
  <2>3. c * 1 <= c * x
    BY <1>1, <2>2, Times DEF x
  <2>4. QED
    BY <1>1, <2>2, <2>3 DEF x
<1>4. f(c) = n
  <2>1. f(c) \in Nat /\ c * f(c) <= c * n /\ c * n < c * f(c) + c
    BY <1>1, <1>2
  <2> DEFINE x == f(c)
  <2>2. x \in Nat /\ c * x <= c * n /\ c * n < c * x + c
    BY <2>1
  <2> HIDE DEF f, c, x
  <2>3. ASSUME x < n PROVE FALSE
    <3>1. c * (x + 1) <= c * n
      BY <1>1, <2>2, <2>3, Times
    <3>2. c * (x + 1) = c * x + c
      BY <1>1, <2>2
    <3>3. QED
      BY <1>1, <2>2, <3>1, <3>2
  <2>4. ASSUME n < x PROVE FALSE
    <3>1. c * (n + 1) <= c * x
      BY <1>1, <2>2, <2>4, Times
    <3>2. c * (n + 1) = c * n + c
      BY <1>1, <2>2
    <3>3. QED
      BY <1>1, <2>2, <3>1, <3>2
  <2>5. x = n
    BY <2>2, <2>3, <2>4
  <2>6. QED
    BY <2>5 DEF x
<1>5. ASSUME NEW i \in 1..c
      PROVE  f(i-1) + 1 <= f(i) /\ f(i) <= f(i-1) + M /\ (c > 1 => f(i-1) + H <= f(i))
  <2> DEFINE x == f(i-1)
             y == f(i)
             p == (i - 1) * n
  <2>1. i - 1 \in 0..c /\ i \in 0..c
    BY <1>1
  <2>2. x \in Nat /\ y \in Nat /\ c * x <= p /\ p < c * x + c /\ c * y <= i * n /\ i * n < c * y + c
    BY <1>2, <2>1
  <2>3. p \in Nat /\ i * n = p + n
    BY <1>1
  <2> HIDE DEF x, y, p, f
  <2>4. c * y <= p + n /\ p + n < c * y + c
    BY <2>2, <2>3
  <2> HIDE DEF c
  <2>5. c * x \in Nat /\ c * y \in Nat /\ M * c \in Nat /\ M * c = c * M
    BY <1>1, <2>2
  <2>6. ASSUME y > x + M PROVE FALSE
    <3>1. c * ((x + M) + 1) <= c * y
      BY <1>1, <2>2, <2>6, Times
    <3>2. c * ((x + M) + 1) = (c * x + c * M) + c
      BY <1>1, <2>2
    <3>3. QED
      BY <1>1, <2>2, <2>3, <2>4, <2>5, <3>1, <3>2
  <2>7. ASSUME c > 1, y < x + H PROVE FALSE
    <3> DEFINE G == M - H
    <3>1. G \in Nat /\ G + G >= M /\ M = G + H
      BY <1>1
    <3>2. c * (y + 1) <= c * (x + H)
      BY <1>1, <2>2, <2>7, Times
    <3>3. c * (y + 1) = c * y + c /\ c * (x + H) = c * x + c * H
      BY <1>1, <2>2
    <3> HIDE DEF G
    <3>4. c * M = c * G + c * H /\ c * G \in Nat /\ c * H \in Nat
      BY <1>1, <3>1
    <3>5. G * 2 <= G * c
      BY <1>1, <2>7, <3>1, Times
    <3>6. G * 2 = G + G /\ G * c = c * G
      BY <1>1, <3>1
    <3>7. QED
      BY <1>1, <2>2, <2>3, <2>4, <2>5, <3>1, <3>2, <3>3, <3>4, <3>5, <3>6
  <2>8. ASSUME c = 1, y <= x PROVE FALSE
    <3>1. i = 1
      BY <2>8
    <3>2. f(1) = n /\ f(0) = 0
      BY <1>3, <1>4, <2>8 DEF f
    <3>3. x = f(0) /\ y = f(1)
      BY <3>1 DEF x, y
    <3>4. QED
      BY <1>1, <2>8, <3>2, <3>3
  <2>9. x + 1 <= y /\ y <= x + M /\ (c > 1 => x + H <= y)
    BY <1>1, <2>2, <2>6, <2>7, <2>8
  <2>10. QED
    BY <2>9 DEF x, y
<1>6. QED
  BY <1>2, <1>3, <1>4, <1>5

-----------------------------------------------------------------------------
(* Chunks that hold a text: chunk i has the lines after at[i-1] up to at[i]. *)

Chunk == [lines : Seq(Line), bytes : Nat, array : Nat, from : Nat, cap : Nat]

Tiles(cs, t, at) ==
    /\ cs \in Seq(Chunk) /\ t \in Seq(Line)
    /\ at \in [0..Len(cs) -> Nat] /\ at[0] = 0 /\ at[Len(cs)] = Len(t)
    /\ \A i \in 1..Len(cs) : at[i-1] <= at[i] /\ cs[i].lines = SubSeq(t, at[i-1] + 1, at[i])

Holds(cs, t) == \E at \in [0..Len(cs) -> Nat] : Tiles(cs, t, at)

LEMMA Rising ==
    ASSUME NEW n \in Nat, NEW at \in [0..n -> Nat], \A i \in 1..n : at[i-1] <= at[i]
    PROVE  \A i, j \in 0..n : i <= j => at[i] <= at[j]
<1> DEFINE S == {j \in 0..n : \A i \in 0..n : i <= j => at[i] <= at[j]}
<1>1. 0 \in S
  BY 0 \in 0..n
<1>2. ASSUME NEW j \in 0..n-1, j \in S PROVE j + 1 \in S
  <2>1. j + 1 \in 1..n /\ j + 1 \in 0..n /\ j \in 0..n /\ (j + 1) - 1 = j
    OBVIOUS
  <2>2. at[j] <= at[j+1] /\ at[j] \in Nat /\ at[j+1] \in Nat
    BY <2>1
  <2>3. ASSUME NEW i \in 0..n, i <= j + 1 PROVE at[i] <= at[j+1]
    <3>1. CASE i = j + 1
      BY <2>2, <3>1
    <3>2. CASE i # j + 1
      <4>1. i <= j
        BY <2>1, <2>3, <3>2
      <4>2. at[i] <= at[j] /\ at[i] \in Nat
        BY <1>2, <4>1
      <4>3. QED
        BY <2>2, <4>2
    <3>3. QED
      BY <3>1, <3>2
  <2>4. QED
    BY <2>1, <2>3
<1>3. 0..n \subseteq S
  <2> HIDE DEF S
  <2>1. QED
    BY <1>1, <1>2, UpTo
<1>4. QED
  BY <1>3

(* What tiles are, and how they are cut, joined and made. *)
LEMMA TilesFacts ==
    ASSUME NEW cs, NEW t, NEW at, Tiles(cs, t, at)
    PROVE  /\ cs \in Seq(Chunk) /\ t \in Seq(Line) /\ Len(cs) \in Nat /\ Len(t) \in Nat
           /\ DOMAIN cs = 1..Len(cs) /\ \A i \in 1..Len(cs) : cs[i] \in Chunk
           /\ \A i \in 0..Len(cs) : at[i] \in Nat /\ at[i] <= Len(t)
           /\ \A i, j \in 0..Len(cs) : i <= j => at[i] <= at[j]
           /\ at[0] = 0 /\ at[Len(cs)] = Len(t)
           /\ \A i \in 1..Len(cs) : at[i-1] <= at[i] /\ cs[i].lines = SubSeq(t, at[i-1] + 1, at[i])
           /\ \A i \in 1..Len(cs) : Size(cs[i]) = at[i] - at[i-1]
<1> DEFINE n == Len(cs)
<1>1. cs \in Seq(Chunk) /\ t \in Seq(Line) /\ n \in Nat /\ Len(t) \in Nat /\ DOMAIN cs = 1..n
  BY LenProperties DEF Tiles
<1>2. \A i \in 1..n : cs[i] \in Chunk
  BY <1>1, ElementOfSeq
<1>3. at \in [0..n -> Nat] /\ at[0] = 0 /\ at[n] = Len(t) /\ \A i \in 1..n : at[i-1] <= at[i]
  BY DEF Tiles
<1> HIDE DEF n
<1>4. \A i, j \in 0..n : i <= j => at[i] <= at[j]
  BY <1>1, <1>3, Rising
<1>5. ASSUME NEW i \in 0..n PROVE at[i] \in Nat /\ at[i] <= Len(t)
  <2>1. n \in 0..n /\ i <= n
    BY <1>1
  <2>2. QED
    BY <1>3, <1>4, <2>1
<1>6. ASSUME NEW i \in 1..n
      PROVE  at[i-1] <= at[i] /\ cs[i].lines = SubSeq(t, at[i-1] + 1, at[i]) /\ Size(cs[i]) = at[i] - at[i-1]
  <2>1. i \in 0..n /\ i - 1 \in 0..n
    BY <1>1
  <2>2. at[i-1] <= at[i] /\ cs[i].lines = SubSeq(t, at[i-1] + 1, at[i])
    BY DEF Tiles, n
  <2>3. at[i] \in Nat /\ at[i-1] \in Nat /\ at[i] <= Len(t)
    BY <1>5, <2>1
  <2>4. Len(SubSeq(t, at[i-1] + 1, at[i])) = at[i] - at[i-1]
    BY <1>1, <2>2, <2>3, Slice
  <2>5. QED
    BY <2>2, <2>4 DEF Size
<1>7. QED
  BY <1>1, <1>2, <1>3, <1>4, <1>5, <1>6 DEF n

LEMMA TilesHold == ASSUME NEW cs, NEW t, NEW at, Tiles(cs, t, at) PROVE Holds(cs, t)
BY DEF Tiles, Holds

LEMMA TilesPart ==
    ASSUME NEW cs, NEW t, NEW at, Tiles(cs, t, at),
           NEW i \in Nat, NEW j \in Nat, i <= j, j <= Len(cs)
    PROVE  Holds(SubSeq(cs, i + 1, j), SubSeq(t, at[i] + 1, at[j]))
<1> DEFINE n == Len(cs)
           m == j - i
           ds == SubSeq(cs, i + 1, j)
           a == at[i]
           b == at[j]
           u == SubSeq(t, a + 1, b)
           bt == [k \in 0..m |-> at[i + k] - a]
<1>1. /\ cs \in Seq(Chunk) /\ t \in Seq(Line) /\ n \in Nat /\ Len(t) \in Nat
      /\ \A k \in 0..n : at[k] \in Nat /\ at[k] <= Len(t)
      /\ \A k, l \in 0..n : k <= l => at[k] <= at[l]
      /\ \A k \in 1..n : at[k-1] <= at[k] /\ cs[k].lines = SubSeq(t, at[k-1] + 1, at[k])
  BY TilesFacts
<1>2. i \in 0..n /\ j \in 0..n /\ m \in Nat /\ i + m = j /\ \A k \in 0..m : i + k \in 0..n /\ i <= i + k /\ i + k <= j
  BY <1>1
<1>3. a \in Nat /\ b \in Nat /\ a <= b /\ b <= Len(t)
  BY <1>1, <1>2
<1>4. ds \in Seq(Chunk) /\ Len(ds) = m /\ \A x \in 1..m : ds[x] = cs[i + x]
  <2>1. cs \in Seq(Chunk) /\ i \in Nat /\ j \in Nat /\ i <= j /\ j <= Len(cs)
    BY <1>1
  <2>2. QED
    BY ONLY <2>1, Slice
<1> HIDE DEF n, m, ds, a, b
<1>5. u \in Seq(Line) /\ Len(u) = b - a
  <2>1. t \in Seq(Line)
    BY <1>1
  <2>2. QED
    BY ONLY <1>3, <2>1, Slice
<1> HIDE DEF u
<1>6. ASSUME NEW k \in 0..m PROVE at[i + k] \in Nat /\ a <= at[i + k] /\ at[i + k] <= b
  BY <1>1, <1>2 DEF a, b
<1>7. bt \in [0..m -> Nat] /\ \A k \in 0..m : bt[k] = at[i + k] - a
  BY <1>3, <1>6
<1>8. bt[0] = 0 /\ bt[m] = Len(u)
  <2>1. 0 \in 0..m /\ m \in 0..m /\ i + 0 = i /\ i + m = j
    BY <1>2
  <2>2. bt[0] = a - a /\ bt[m] = b - a
    BY <1>7, <2>1 DEF a, b
  <2>3. QED
    BY <1>3, <1>5, <2>2
<1> HIDE DEF bt
<1>9. ASSUME NEW k \in 1..m PROVE bt[k-1] <= bt[k] /\ ds[k].lines = SubSeq(u, bt[k-1] + 1, bt[k])
  <2> DEFINE x == at[i + (k-1)]
             y == at[i + k]
  <2>1. k - 1 \in 0..m /\ k \in 0..m /\ i + k \in 1..n /\ (i + k) - 1 = i + (k - 1)
    BY <1>2
  <2>2. x <= y /\ cs[i + k].lines = SubSeq(t, x + 1, y)
    BY <1>1, <2>1
  <2>3. bt[k-1] = x - a /\ bt[k] = y - a /\ bt[k-1] \in Nat /\ bt[k] \in Nat
        /\ x \in Nat /\ y \in Nat /\ a <= x /\ y <= b
    BY <1>6, <1>7, <2>1
  <2> HIDE DEF x, y
  <2>4. bt[k-1] <= bt[k] /\ bt[k] <= b - a /\ a + bt[k-1] = x /\ a + bt[k] = y
    BY <1>3, <2>2, <2>3
  <2>5. SubSeq(u, bt[k-1] + 1, bt[k]) = SubSeq(t, (a + bt[k-1]) + 1, a + bt[k])
    BY <1>1, <1>3, <2>3, <2>4, SliceOfSlice DEF u
  <2>6. QED
    BY <1>4, <2>2, <2>4, <2>5
<1>10. Tiles(ds, u, bt)
  BY <1>4, <1>5, <1>7, <1>8, <1>9 DEF Tiles
<1>11. QED
  BY <1>10, TilesHold DEF ds, u, a, b

LEMMA TilesJoin ==
    ASSUME NEW cs, NEW t, Holds(cs, t), NEW ds, NEW u, Holds(ds, u)
    PROVE  Holds(cs \o ds, t \o u)
<1>1. PICK a : Tiles(cs, t, a)
  BY DEF Holds
<1>2. PICK b : Tiles(ds, u, b)
  BY DEF Holds
<1> DEFINE n == Len(cs)
           m == Len(ds)
           k == Len(t)
           es == cs \o ds
           w == t \o u
           at == [i \in 0..n+m |-> IF i <= n THEN a[i] ELSE k + b[i - n]]
<1>3. /\ cs \in Seq(Chunk) /\ t \in Seq(Line) /\ n \in Nat /\ k \in Nat
      /\ \A i \in 0..n : a[i] \in Nat /\ a[i] <= k
      /\ a[0] = 0 /\ a[n] = k
      /\ \A i \in 1..n : a[i-1] <= a[i] /\ cs[i].lines = SubSeq(t, a[i-1] + 1, a[i])
  BY <1>1, TilesFacts
<1>4. /\ ds \in Seq(Chunk) /\ u \in Seq(Line) /\ m \in Nat /\ Len(u) \in Nat
      /\ \A i \in 0..m : b[i] \in Nat /\ b[i] <= Len(u)
      /\ b[0] = 0 /\ b[m] = Len(u)
      /\ \A i \in 1..m : b[i-1] <= b[i] /\ ds[i].lines = SubSeq(u, b[i-1] + 1, b[i])
  BY <1>2, TilesFacts
<1>5. /\ es \in Seq(Chunk) /\ Len(es) = n + m
      /\ \A i \in 1..n+m : es[i] = IF i <= n THEN cs[i] ELSE ds[i - n]
  BY <1>3, <1>4, ConcatProperties
<1>6. w \in Seq(Line) /\ Len(w) = k + Len(u) /\ t = SubSeq(w, 1, k) /\ u = SubSeq(w, k + 1, Len(w))
  <2>1. <<>> \in Seq(Line) /\ Len(<<>>) = 0 /\ w = (t \o u) \o <<>>
    BY <1>3, <1>4, EmptySeq, ConcatProperties, ConcatEmptySeq
  <2>2. w \in Seq(Line) /\ Len(w) = k + Len(u)
    BY <1>3, <1>4, ConcatProperties
  <2> HIDE DEF w
  <2>3. SubSeq(w, 1, Len(t)) = t /\ SubSeq(w, Len(t) + 1, Len(t) + Len(u)) = u
    BY <1>3, <1>4, <2>1, Cut
  <2>4. QED
    BY <2>2, <2>3
<1> HIDE DEF n, m, k, es, w
<1>7. at \in [0..n+m -> Nat] /\ \A i \in 0..n+m : at[i] = IF i <= n THEN a[i] ELSE k + b[i - n]
  <2>1. ASSUME NEW i \in 0..n+m PROVE (i <= n => i \in 0..n) /\ (~(i <= n) => i - n \in 0..m)
    BY <1>3, <1>4
  <2>2. QED
    BY <1>3, <1>4, <2>1, SMTT(40)
<1> HIDE DEF at
<1>8. \A i \in 0..m : at[n + i] = k + b[i]
  <2> TAKE i \in 0..m
  <2>1. n + i \in 0..n+m /\ (n + i <= n <=> i = 0) /\ (n + i) - n = i
    BY <1>3, <1>4
  <2>2. CASE i = 0
    BY <1>3, <1>4, <1>7, <2>1, <2>2
  <2>3. CASE i # 0
    BY <1>7, <2>1, <2>3
  <2>4. QED
    BY <2>2, <2>3
<1>9. at[0] = 0 /\ at[n + m] = Len(w)
  <2>1. 0 \in 0..n+m /\ 0 <= n /\ m \in 0..m
    BY <1>3, <1>4
  <2>2. QED
    BY <1>3, <1>4, <1>6, <1>7, <1>8, <2>1
<1>10. ASSUME NEW i \in 1..n+m PROVE at[i-1] <= at[i] /\ es[i].lines = SubSeq(w, at[i-1] + 1, at[i])
  <2>1. CASE i <= n
    <3>1. i \in 1..n /\ i - 1 \in 0..n /\ i \in 0..n /\ i - 1 \in 0..n+m /\ i \in 0..n+m /\ i - 1 <= n
      BY <1>3, <1>4, <2>1
    <3>2. at[i] = a[i] /\ at[i-1] = a[i-1] /\ es[i] = cs[i]
      BY <1>5, <1>7, <2>1, <3>1
    <3>3. a[i-1] \in Nat /\ a[i] \in Nat /\ a[i] <= k /\ a[i-1] <= a[i] /\ cs[i].lines = SubSeq(t, a[i-1] + 1, a[i])
      BY <1>3, <3>1
    <3>4. SubSeq(SubSeq(w, 1, k), a[i-1] + 1, a[i]) = SubSeq(w, a[i-1] + 1, a[i])
      <4> DEFINE x == a[i-1]
                 y == a[i]
      <4>1. /\ k \in Nat /\ k <= Len(w) /\ w \in Seq(Line)
            /\ x \in Nat /\ y \in Nat /\ x <= y /\ y <= k
        BY <1>3, <1>4, <1>6, <3>3
      <4> HIDE DEF x, y
      <4>2. SubSeq(SubSeq(w, 1, k), x + 1, y) = SubSeq(w, x + 1, y)
        BY ONLY <4>1, SliceOfHead
      <4>3. QED
        BY <4>2 DEF x, y
    <3>5. SubSeq(t, a[i-1] + 1, a[i]) = SubSeq(w, a[i-1] + 1, a[i])
      BY <1>6, <3>4
    <3>6. QED
      BY <3>2, <3>3, <3>5
  <2>2. CASE ~(i <= n)
    <3> DEFINE j == i - n
    <3>1. j \in 1..m /\ j - 1 \in 0..m /\ j \in 0..m /\ n + j = i /\ n + (j - 1) = i - 1
      BY <1>3, <1>4, <2>2
    <3>2. es[i] = ds[j]
      BY <1>5, <2>2
    <3> HIDE DEF j
    <3>3. at[i] = k + b[j] /\ at[i-1] = k + b[j-1]
      BY <1>8, <3>1
    <3>4. b[j-1] \in Nat /\ b[j] \in Nat /\ b[j] <= Len(u) /\ b[j-1] <= b[j] /\ ds[j].lines = SubSeq(u, b[j-1] + 1, b[j])
      BY <1>4, <3>1
    <3>5. SubSeq(SubSeq(w, k + 1, Len(w)), b[j-1] + 1, b[j]) = SubSeq(w, (k + b[j-1]) + 1, k + b[j])
      <4> DEFINE x == b[j-1]
                 y == b[j]
                 q == Len(w)
      <4>1. /\ q \in Nat /\ k \in Nat /\ k <= q /\ q <= Len(w) /\ w \in Seq(Line)
            /\ x \in Nat /\ y \in Nat /\ x <= y /\ y <= q - k
        BY <1>3, <1>4, <1>6, <3>4
      <4> HIDE DEF x, y, q
      <4>2. SubSeq(SubSeq(w, k + 1, q), x + 1, y) = SubSeq(w, (k + x) + 1, k + y)
        BY ONLY <4>1, SliceOfSlice
      <4>3. QED
        BY <4>2 DEF x, y, q
    <3>6. k + b[j-1] <= k + b[j]
      BY <1>3, <3>4
    <3>7. QED
      BY <1>6, <3>2, <3>3, <3>4, <3>5, <3>6
  <2>3. QED
    BY <2>1, <2>2
<1>11. Tiles(es, w, at)
  BY <1>5, <1>6, <1>7, <1>9, <1>10 DEF Tiles
<1>12. QED
  BY <1>11, TilesHold DEF es, w

(* splitLines tiles its lines. *)
LEMMA TilesSplit ==
    ASSUME NEW ls \in Seq(Line), Len(ls) > 0, NEW a \in Nat
    PROVE  /\ Holds(Split(ls, a), ls)
           /\ Len(Split(ls, a)) = Count(Len(ls))
           /\ \A i \in 1..Count(Len(ls)) :
                Split(ls, a)[i] = [lines |-> SubSeq(ls, MarkAt(Len(ls), i-1) + 1, MarkAt(Len(ls), i)),
                                   bytes |-> Bytes(SubSeq(ls, MarkAt(Len(ls), i-1) + 1, MarkAt(Len(ls), i))),
                                   array |-> a, from |-> MarkAt(Len(ls), i-1),
                                   cap |-> Len(SubSeq(ls, MarkAt(Len(ls), i-1) + 1, MarkAt(Len(ls), i)))]
<1> DEFINE n == Len(ls)
           c == Count(n)
           at == [i \in 0..c |-> MarkAt(n, i)]
           cs == Split(ls, a)
           part(i) == SubSeq(ls, MarkAt(n, i-1) + 1, MarkAt(n, i))
           piece(i) == [lines |-> part(i), bytes |-> Bytes(part(i)), array |-> a,
                        from |-> MarkAt(n, i-1), cap |-> Len(part(i))]
<1>1. n \in Nat \ {0} /\ n \in Nat
  BY LenProperties
<1>2. c \in Nat \ {0}
  BY <1>1, Counted
<1>3. /\ \A i \in 0..c : MarkAt(n, i) \in Nat
      /\ MarkAt(n, 0) = 0 /\ MarkAt(n, c) = n
      /\ \A i \in 1..c : MarkAt(n, i-1) + 1 <= MarkAt(n, i)
  BY <1>1, Evenly
<1>4. at \in [0..c -> Nat] /\ \A i \in 0..c : at[i] = MarkAt(n, i)
  BY <1>3
<1>5. at[0] = 0 /\ at[c] = n
  BY <1>2, <1>3, <1>4
<1>6. cs = [i \in 1..c |-> piece(i)]
  BY DEF Split, Count, MarkAt
<1> HIDE DEF cs, at, c, n
<1>7. ASSUME NEW i \in 1..c PROVE i \in 0..c /\ i - 1 \in 0..c /\ MarkAt(n, i-1) \in Nat /\ MarkAt(n, i) \in Nat
  <2>1. i \in 0..c /\ i - 1 \in 0..c
    BY <1>2
  <2>2. QED
    BY <1>3, <2>1
<1>8. ASSUME NEW i \in 0..c PROVE MarkAt(n, i) <= n
  <2>1. \A k \in 1..c : at[k-1] <= at[k]
    <3> TAKE k \in 1..c
    <3>1. k \in 0..c /\ k - 1 \in 0..c /\ MarkAt(n, k-1) \in Nat /\ MarkAt(n, k) \in Nat /\ MarkAt(n, k-1) + 1 <= MarkAt(n, k)
      BY <1>3, <1>7
    <3>2. QED
      BY <1>4, <3>1
  <2>2. c \in Nat /\ c \in 0..c /\ i <= c
    BY <1>2
  <2>3. at[i] <= at[c]
    BY <1>4, <2>1, <2>2, Rising
  <2>4. QED
    BY <1>4, <1>5, <2>3
<1>9. ASSUME NEW i \in 1..c PROVE piece(i) \in Chunk
  <2> DEFINE x == MarkAt(n, i-1)
             y == MarkAt(n, i)
  <2>1. x \in Nat /\ y \in Nat /\ x <= y /\ y <= Len(ls)
    BY <1>3, <1>7, <1>8 DEF n
  <2> HIDE DEF x, y
  <2>2. SubSeq(ls, x + 1, y) \in Seq(Line)
    BY ONLY <2>1, ls \in Seq(Line), Slice
  <2> DEFINE p == SubSeq(ls, x + 1, y)
  <2>3. p \in Seq(Line) /\ Len(p) \in Nat /\ Bytes(p) \in Nat
    BY <2>2, LenProperties, BytesIs
  <2> HIDE DEF p
  <2>4. [lines |-> p, bytes |-> Bytes(p), array |-> a, from |-> x, cap |-> Len(p)] \in Chunk
    BY <2>1, <2>3 DEF Chunk
  <2>5. QED
    BY <2>4 DEF p, x, y
<1>10. \A i \in 1..c : cs[i] = piece(i)
  BY <1>6
<1>11. cs \in Seq(Chunk) /\ Len(cs) = c
  <2>1. cs \in [1..c -> Chunk] /\ c \in Nat
    BY <1>2, <1>6, <1>9
  <2>2. QED
    BY <2>1, LenProperties
<1>12. \A i \in 1..c : at[i-1] <= at[i] /\ cs[i].lines = SubSeq(ls, at[i-1] + 1, at[i])
  <2> TAKE i \in 1..c
  <2>1. at[i-1] = MarkAt(n, i-1) /\ at[i] = MarkAt(n, i) /\ MarkAt(n, i-1) <= MarkAt(n, i)
    <3>1. i \in 0..c /\ i - 1 \in 0..c /\ MarkAt(n, i-1) \in Nat /\ MarkAt(n, i) \in Nat
      BY <1>7
    <3>2. MarkAt(n, i-1) + 1 <= MarkAt(n, i)
      BY <1>3
    <3>3. QED
      BY <1>4, <3>1, <3>2
  <2>2. cs[i].lines = part(i)
    <3>1. cs[i] = piece(i)
      BY <1>10
    <3>2. piece(i).lines = part(i)
      <4> HIDE DEF part
      <4>1. QED
        OBVIOUS
    <3> HIDE DEF part, piece
    <3>3. QED
      BY <3>1, <3>2
  <2>3. cs[i].lines = SubSeq(ls, at[i-1] + 1, at[i])
    BY <2>1, <2>2
  <2>4. at[i-1] <= at[i]
    BY <2>1
  <2>5. QED
    BY <2>3, <2>4
<1>13. Tiles(cs, ls, at)
  BY <1>4, <1>5, <1>11, <1>12 DEF Tiles, n
<1>14. Holds(cs, ls)
  BY <1>13, TilesHold
<1>15. QED
  BY <1>10, <1>11, <1>14 DEF cs, c, n

LEMMA TilesOne ==
    ASSUME NEW c \in Chunk PROVE Holds(<<c>>, c.lines)
<1> DEFINE t == c.lines
           at == [k \in 0..1 |-> IF k = 0 THEN 0 ELSE Len(t)]
           cs == <<c>>
<1>1. t \in Seq(Line) /\ Len(t) \in Nat /\ SubSeq(t, 1, Len(t)) = t
  <2>1. t \in Seq(Line)
    BY DEF Chunk
  <2>2. QED
    BY <2>1, LenProperties, SubSeqFull
<1>2. cs \in Seq(Chunk) /\ Len(cs) = 1 /\ cs[1] = c
  OBVIOUS
<1> HIDE DEF t, cs
<1>3. at \in [0..1 -> Nat] /\ at[0] = 0 /\ at[1] = Len(t)
  BY <1>1
<1> HIDE DEF at
<1>4. \A i \in 1..1 : at[i-1] <= at[i] /\ cs[i].lines = SubSeq(t, at[i-1] + 1, at[i])
  <2> TAKE i \in 1..1
  <2>1. i = 1 /\ i - 1 = 0
    OBVIOUS
  <2>2. at[i-1] = 0 /\ at[i] = Len(t) /\ 0 <= Len(t) /\ 0 + 1 = 1
    BY <1>1, <1>3, <2>1
  <2>3. cs[i].lines = t
    BY <1>2, <2>1 DEF t
  <2>4. QED
    BY <1>1, <2>2, <2>3
<1>5. Tiles(cs, t, at)
  BY <1>1, <1>2, <1>3, <1>4 DEF Tiles
<1>6. QED
  BY <1>5, TilesHold DEF cs, t

(* The lines of tiles, flattened, are the text. *)
LEMMA TilesFlatten ==
    ASSUME NEW cs, NEW t, Holds(cs, t), cs # <<>>
    PROVE  FlattenSeq([i \in DOMAIN cs |-> cs[i].lines]) = t
<1>1. PICK at : Tiles(cs, t, at)
  BY DEF Holds
<1> DEFINE n == Len(cs)
           ss == [i \in 1..n |-> cs[i].lines]
           Is(h) == h = [i \in 1..n |-> IF i = 1 THEN ss[i] ELSE h[i-1] \o ss[i]]
           f == [i \in 1..n |-> SubSeq(t, 0 + 1, at[i])]
           h == CHOOSE x : Is(x)
<1>2. /\ cs \in Seq(Chunk) /\ t \in Seq(Line) /\ n \in Nat /\ n # 0 /\ DOMAIN cs = 1..n /\ Len(t) \in Nat
      /\ \A i \in 0..n : at[i] \in Nat /\ at[i] <= Len(t)
      /\ at[0] = 0 /\ at[n] = Len(t)
      /\ \A i \in 1..n : at[i-1] <= at[i] /\ cs[i].lines = SubSeq(t, at[i-1] + 1, at[i])
  BY <1>1, TilesFacts, EmptySeq
<1> HIDE DEF n
<1>3. ASSUME NEW i \in 1..n
      PROVE  /\ i = 1 => f[i] = ss[i]
             /\ i # 1 => i - 1 \in 1..n /\ f[i] = f[i-1] \o ss[i]
  <2> DEFINE x == at[i-1]
             y == at[i]
  <2>1. i \in 0..n /\ i - 1 \in 0..n /\ (i # 1 => i - 1 \in 1..n)
    BY <1>2
  <2>2. x \in Nat /\ y \in Nat /\ x <= y /\ y <= Len(t) /\ ss[i] = SubSeq(t, x + 1, y) /\ f[i] = SubSeq(t, 0 + 1, y)
    BY <1>2, <2>1
  <2>3. CASE i = 1
    <3>1. x = 0
      BY <1>2, <2>3
    <3>2. QED
      BY <2>2, <2>3, <3>1
  <2>4. CASE i # 1
    <3>1. f[i-1] = SubSeq(t, 0 + 1, x)
      BY <2>1, <2>4
    <3> HIDE DEF x, y, f, ss
    <3>2. /\ 0 \in Nat /\ 0 <= x /\ x \in Nat /\ y \in Nat /\ x <= y /\ y <= Len(t)
          /\ t \in Seq(Line)
      BY <1>2, <2>2
    <3>3. SubSeq(t, 0 + 1, x) \o SubSeq(t, x + 1, y) = SubSeq(t, 0 + 1, y)
      BY ONLY <3>2, Adjoin
    <3>4. QED
      BY <2>1, <2>2, <2>4, <3>1, <3>3
  <2>5. QED
    BY <2>3, <2>4
<1>4. f = [i \in 1..n |-> f[i]]
  OBVIOUS
<1> HIDE DEF f, ss
<1>5. Is(f)
  BY <1>3, <1>4
<1>6. Is(h)
  <2> HIDE DEF Is
  <2>1. QED
    BY <1>5
<1> HIDE DEF h
<1>7. \A i \in 1..n : h[i] = IF i = 1 THEN ss[i] ELSE h[i-1] \o ss[i]
  BY <1>6
<1> DEFINE S == {i \in Nat : i \in 1..n => h[i] = f[i]}
<1>8. 0 \in S
  OBVIOUS
<1>9. ASSUME NEW k \in Nat, k \in S PROVE k + 1 \in S
  <2> SUFFICES ASSUME k + 1 \in 1..n PROVE h[k+1] = f[k+1]
    OBVIOUS
  <2>1. (k + 1) - 1 = k /\ (k + 1 # 1 => k \in 1..n)
    BY <1>2
  <2>2. CASE k + 1 = 1
    BY <1>3, <1>7, <2>2
  <2>3. CASE k + 1 # 1
    <3>1. h[k+1] = h[k] \o ss[k+1]
      BY <1>7, <2>1, <2>3
    <3>2. f[k+1] = f[k] \o ss[k+1]
      BY <1>3, <2>1, <2>3
    <3>3. h[k] = f[k]
      BY <1>9, <2>1, <2>3
    <3>4. QED
      BY <3>1, <3>2, <3>3
  <2>4. QED
    BY <2>2, <2>3
<1>10. n \in S
  <2>1. Nat \subseteq S
    <3> HIDE DEF S
    <3>1. QED
      BY <1>8, <1>9, SetInduction
  <2>2. QED
    BY <1>2, <2>1
<1>11. h[n] = t
  <2>1. n \in 1..n
    BY <1>2
  <2>2. h[n] = f[n] /\ f[n] = SubSeq(t, 0 + 1, Len(t)) /\ 0 + 1 = 1
    BY <1>2, <1>10, <2>1 DEF f
  <2>3. SubSeq(t, 1, Len(t)) = t
    BY <1>2, SubSeqFull
  <2>4. QED
    BY <2>2, <2>3
<1>12. Len(ss) = n
  <2>1. ss \in [1..n -> {ss[i] : i \in 1..n}]
    BY DEF ss
  <2>2. QED
    BY <1>2, <2>1, LenProperties
<1>13. FlattenSeq(ss) = h[n]
  BY <1>2, <1>12 DEF FlattenSeq, h
<1>14. [i \in DOMAIN cs |-> cs[i].lines] = ss
  BY <1>2 DEF ss
<1>15. QED
  BY <1>11, <1>13, <1>14

(* The chunks know what they weigh.                                         *)
Honest(cs) == \A i \in 1..Len(cs) : cs[i].bytes = Bytes(cs[i].lines)

(* Totals that are right add up to the bytes of the text. *)
LEMMA Weighs ==
    ASSUME NEW cs, NEW t, Holds(cs, t), Honest(cs)
    PROVE  BytesOf(cs) = Bytes(t)
<1>1. PICK at : Tiles(cs, t, at)
  BY DEF Holds
<1> DEFINE n == Len(cs)
           counts == [i \in 1..n |-> cs[i].bytes]
           g == [i \in 0..n |-> Weight(t)[at[i]]]
<1>2. /\ t \in Seq(Line) /\ n \in Nat /\ DOMAIN cs = 1..n /\ Len(t) \in Nat
      /\ \A i \in 0..n : at[i] \in Nat /\ at[i] <= Len(t)
      /\ at[0] = 0 /\ at[n] = Len(t)
      /\ \A i \in 1..n : at[i-1] <= at[i] /\ cs[i].lines = SubSeq(t, at[i-1] + 1, at[i])
  BY <1>1, TilesFacts
<1>3. \A i \in 1..n : counts[i] = Bytes(cs[i].lines)
  BY DEF Honest
<1> HIDE DEF n
<1>4. ASSUME NEW i \in 0..n PROVE g[i] = Weight(t)[at[i]] /\ g[i] \in Int
  <2> DEFINE b == at[i]
  <2>1. b \in Nat /\ b <= b /\ b <= Len(t)
    BY <1>2
  <2> HIDE DEF b
  <2>2. Weight(t)[b] \in Nat
    BY ONLY <2>1, <1>2, TextAssumption, BytesOfSlice
  <2>3. QED
    BY <2>2 DEF b
<1>5. g \in [0..n -> Int]
  BY <1>4
<1> HIDE DEF counts, g
<1>6. \A i \in 1..n : counts[i] = g[i] - g[i-1]
  <2> TAKE i \in 1..n
  <2> DEFINE a == at[i-1]
             b == at[i]
  <2>1. i \in 0..n /\ i - 1 \in 0..n
    BY <1>2
  <2>2. a \in Nat /\ b \in Nat /\ a <= b /\ b <= Len(t) /\ counts[i] = Bytes(SubSeq(t, a + 1, b))
    BY <1>2, <1>3, <2>1
  <2>3. g[i] = Weight(t)[b] /\ g[i-1] = Weight(t)[a]
    BY <1>4, <2>1
  <2> HIDE DEF a, b
  <2>4. t \in Seq(Line)
    BY <1>2
  <2>5. Bytes(SubSeq(t, a + 1, b)) = Weight(t)[b] - Weight(t)[a]
    BY ONLY <2>2, <2>4, BytesOfSlice
  <2>6. QED
    BY <2>2, <2>3, <2>5
<1>7. Len(counts) = n
  <2>1. counts \in [1..n -> {counts[i] : i \in 1..n}]
    BY DEF counts
  <2>2. QED
    BY <1>2, <2>1, LenProperties
<1>8. Tally(counts) = g[n] - g[0]
  BY <1>2, <1>5, <1>6, <1>7, TallyIs
<1>9. g[n] = Bytes(t) /\ g[0] = 0 /\ Bytes(t) \in Nat
  <2>1. n \in 0..n /\ 0 \in 0..n
    BY <1>2
  <2>2. g[n] = Weight(t)[Len(t)] /\ g[0] = Weight(t)[0]
    BY <1>2, <1>4, <2>1
  <2>3. QED
    BY <1>2, <2>2, BytesOfAll, BytesIs
<1>10. [i \in DOMAIN cs |-> cs[i].bytes] = counts
  BY <1>2 DEF counts
<1>11. QED
  BY <1>8, <1>9, <1>10 DEF BytesOf

(* The lines before a chunk are where its tile starts. *)
LEMMA StartIs ==
    ASSUME NEW at, Tiles(chunks, flat, at), NEW i \in 1..Len(chunks)+1
    PROVE  Start(i) = at[i-1]
<1> DEFINE n == Len(chunks)
           m == i - 1
           counts == [k \in 1..m |-> Size(chunks[k])]
           g == [k \in 0..m |-> at[k]]
<1>1. /\ n \in Nat /\ at[0] = 0 /\ \A k \in 0..n : at[k] \in Nat
      /\ \A k \in 1..n : Size(chunks[k]) = at[k] - at[k-1]
  BY TilesFacts
<1>2. m \in Nat /\ m <= n
  BY <1>1
<1> HIDE DEF n, m
<1>3. \A k \in 0..m : k \in 0..n /\ g[k] = at[k] /\ g[k] \in Int
  BY <1>1, <1>2
<1>4. g \in [0..m -> Int]
  BY <1>3
<1>5. \A k \in 1..m : counts[k] = g[k] - g[k-1]
  <2> TAKE k \in 1..m
  <2>1. k \in 0..m /\ k - 1 \in 0..m /\ k \in 1..n
    BY <1>1, <1>2
  <2>2. QED
    BY <1>1, <1>3, <2>1
<1>6. Len(counts) = m
  <2>1. counts \in [1..m -> {counts[k] : k \in 1..m}]
    OBVIOUS
  <2> HIDE DEF counts
  <2>2. QED
    BY <1>2, <2>1, LenProperties
<1> HIDE DEF g
<1>7. Tally(counts) = g[m] - g[0]
  <2> HIDE DEF counts
  <2>1. QED
    BY <1>2, <1>4, <1>5, <1>6, TallyIs
<1>8. g[m] = at[m] /\ g[0] = 0 /\ at[m] \in Nat
  BY <1>1, <1>2, <1>3
<1>9. Start(i) = Tally(counts)
  BY DEF Start, m
<1>10. QED
  BY <1>7, <1>8, <1>9 DEF m

LEMMA HoldingIs ==
    ASSUME NEW at, Tiles(chunks, flat, at), NEW p \in Nat, NEW i \in 1..Len(chunks)
    PROVE  /\ Holding(p, i) \in i..Len(chunks)
           /\ p < at[Holding(p, i)] \/ Holding(p, i) = Len(chunks)
           /\ \A k \in i..Holding(p, i)-1 : at[k] <= p
<1> DEFINE n == Len(chunks)
           Fit(j) == /\ p < Start(j + 1) \/ j = n
                     /\ \A k \in i..j-1 : p >= Start(k + 1)
           S == {j \in i..n : p < at[j] \/ j = n}
<1>1. n \in Nat /\ \A k \in 0..n : at[k] \in Nat
  BY TilesFacts
<1>2. \A j \in i..n : Start(j + 1) = at[j]
  <2> TAKE j \in i..n
  <2>1. j + 1 \in 1..n+1 /\ (j + 1) - 1 = j
    BY <1>1
  <2>2. QED
    BY <2>1, StartIs
<1> HIDE DEF n
<1>3. S \in SUBSET Nat /\ n \in S
  BY <1>1 DEF n
<1>4. PICK j \in S : \A m \in S : j <= m
  BY <1>3, LeastNumber
<1>5. j \in i..n /\ (p < at[j] \/ j = n)
  BY <1>4
<1>6. \A k \in i..j-1 : at[k] <= p
  <2> TAKE k \in i..j-1
  <2>1. k \in i..n /\ k \in 0..n /\ k # n /\ ~(j <= k)
    BY <1>1, <1>5
  <2>2. at[k] \in Nat /\ ~(p < at[k])
    BY <1>1, <1>4, <2>1
  <2>3. QED
    BY <2>2
<1>7. ASSUME NEW x \in i..n
      PROVE  Fit(x) <=> (p < at[x] \/ x = n) /\ \A k \in i..x-1 : at[k] <= p
  <2>1. \A k \in i..x-1 : k \in i..n /\ k \in 0..n
    BY <1>1
  <2>2. \A k \in i..x-1 : (p >= Start(k + 1) <=> at[k] <= p)
    BY <1>1, <1>2, <2>1
  <2>3. QED
    BY <1>2, <2>2
<1> HIDE DEF Fit, S
<1>8. Fit(j)
  BY <1>5, <1>6, <1>7
<1>9. Holding(p, i) = CHOOSE x \in i..n : Fit(x)
  BY DEF Holding, Fit, n
<1>10. Holding(p, i) \in i..n /\ Fit(Holding(p, i))
  BY <1>5, <1>8, <1>9
<1>11. QED
  BY <1>7, <1>10 DEF n

(* The search ends at chunks around the range.                              *)
LEMMA FindIs ==
    ASSUME NEW at, Tiles(chunks, flat, at), chunks # <<>>,
           NEW low \in Nat, NEW end \in Nat, low <= end, end <= Len(flat)
    PROVE  LET s == Find(low, end)
           IN /\ s.top = low /\ s.end = end
              /\ s.first \in 1..Len(chunks) /\ s.last \in s.first..Len(chunks)
              /\ s.firstStart = at[s.first - 1] /\ s.lastStart = at[s.last - 1]
              /\ at[s.first - 1] <= low /\ low <= at[s.first]
              /\ at[s.last - 1] <= end /\ end <= at[s.last]
<1> DEFINE n == Len(chunks)
           p == IF end - 1 > low THEN end - 1 ELSE low
           f == Holding(low, 1)
           l == Holding(p, f)
<1>1. /\ n \in Nat /\ n # 0 /\ at[0] = 0 /\ at[n] = Len(flat)
      /\ \A k \in 0..n : at[k] \in Nat
      /\ \A k, m \in 0..n : k <= m => at[k] <= at[m]
  BY TilesFacts, EmptySeq
<1>2. p \in Nat /\ end - 1 <= p /\ low <= p /\ p <= end
  OBVIOUS
<1> HIDE DEF p
<1>3. f \in 1..n /\ (low < at[f] \/ f = n) /\ \A k \in 1..f-1 : at[k] <= low
  <2>1. 1 \in 1..n
    BY <1>1
  <2>2. QED
    BY <2>1, HoldingIs
<1> HIDE DEF f
<1>4. l \in f..n /\ (p < at[l] \/ l = n) /\ \A k \in f..l-1 : at[k] <= p
  BY <1>2, <1>3, HoldingIs
<1> HIDE DEF l, n
<1>5. f - 1 \in 0..n /\ f \in 0..n /\ l - 1 \in 0..n /\ l \in 0..n
  BY <1>1, <1>3, <1>4
<1>6. at[f-1] \in Nat /\ at[f] \in Nat /\ at[l-1] \in Nat /\ at[l] \in Nat
  BY <1>1, <1>5
<1>7. at[f-1] <= low /\ low <= at[f]
  <2>1. CASE f = 1
    BY <1>1, <1>3, <1>6, <2>1
  <2>2. CASE f # 1
    <3>1. f - 1 \in 1..f-1
      BY <1>3, <2>2
    <3>2. QED
      BY <1>1, <1>3, <1>6, <3>1
  <2>3. QED
    BY <2>1, <2>2
<1>8. at[l-1] <= end /\ end <= at[l]
  <2>1. end <= at[l]
    BY <1>1, <1>2, <1>4, <1>6
  <2>2. CASE l = f
    BY <1>6, <1>7, <2>1, <2>2
  <2>3. CASE l # f
    <3>1. l - 1 \in f..l-1
      BY <1>3, <1>4, <2>3
    <3>2. at[l-1] <= p
      BY <1>4, <3>1
    <3>3. QED
      BY <1>2, <1>6, <2>1, <3>2
  <2>4. QED
    BY <2>2, <2>3
<1>9. Start(f) = at[f-1] /\ Start(l) = at[l-1]
  <2>1. f \in 1..n+1 /\ l \in 1..n+1
    BY <1>1, <1>3, <1>4
  <2>2. QED
    BY <2>1, StartIs DEF n
<1>10. Find(low, end) = [top |-> low, end |-> end, first |-> f, firstStart |-> at[f-1],
                         last |-> l, lastStart |-> at[l-1]]
  BY <1>9 DEF Find, f, l, p
<1>11. QED
  BY <1>3, <1>4, <1>7, <1>8, <1>10 DEF n

LinesOf(t, a, b) == SubSeq(t, a + 1, b)

(* Lines of a chunk are lines of the text. *)
LEMMA ChunkSlice ==
    ASSUME NEW cs, NEW t, NEW at, Tiles(cs, t, at), NEW i \in 1..Len(cs),
           NEW x, NEW y, x = at[i-1], y = at[i],
           NEW a \in Nat, NEW b \in Nat, x <= a, a <= b, b <= y,
           NEW p \in Nat, NEW q \in Nat, x + p = a, x + q = b
    PROVE  LinesOf(cs[i].lines, p, q) = LinesOf(t, a, b)
<1>1. x \in Nat /\ y \in Nat /\ x <= y /\ y <= Len(t) /\ t \in Seq(Line) /\ cs[i].lines = SubSeq(t, x + 1, y)
  <2>1. i - 1 \in 0..Len(cs) /\ i \in 0..Len(cs)
    BY TilesFacts
  <2>2. QED
    BY <2>1, TilesFacts, SMTT(40)
<1>2. x \in Nat /\ y \in Nat /\ x <= a /\ a <= b /\ b <= y /\ a \in Nat /\ b \in Nat
      /\ p \in Nat /\ q \in Nat /\ x + p = a /\ x + q = b
  BY <1>1
<1>3. p \in Nat /\ q \in Nat /\ p <= q /\ q <= y - x /\ x + p = a /\ x + q = b
  BY ONLY <1>2
<1>4. SubSeq(SubSeq(t, x + 1, y), p + 1, q) = SubSeq(t, (x + p) + 1, x + q)
  BY ONLY <1>1, <1>3, SliceOfSlice
<1>5. QED
  BY <1>1, <1>3, <1>4 DEF LinesOf

\* Where the edit of a range is: at is where the chunks end.
Around(at, low, end) ==
    /\ Tiles(chunks, flat, at) /\ chunks # <<>>
    /\ low \in Nat /\ end \in Nat /\ low <= end /\ end <= Len(flat)

(* bytesIn counts exactly the bytes of the lines in the range. *)
LEMMA BytesInIs ==
    ASSUME NEW at, NEW low, NEW end, Around(at, low, end), Honest(chunks)
    PROVE  BytesIn(Find(low, end)) = Weight(flat)[end] - Weight(flat)[low]
<1> DEFINE n == Len(chunks)
           s == Find(low, end)
           f == s.first
           l == s.last
           x == at[f-1]
           y == at[f]
           u == at[l-1]
           v == at[l]
           W == Weight(flat)
<1>1. /\ n \in Nat /\ flat \in Seq(Line) /\ Len(flat) \in Nat
      /\ \A k \in 0..n : at[k] \in Nat /\ at[k] <= Len(flat)
      /\ \A k, m \in 0..n : k <= m => at[k] <= at[m]
      /\ \A k \in 1..n : Size(chunks[k]) = at[k] - at[k-1]
  BY TilesFacts DEF Around
<1>2. low \in Nat /\ end \in Nat /\ low <= end /\ end <= Len(flat)
  BY DEF Around
<1>3. /\ s.top = low /\ s.end = end /\ f \in 1..n /\ l \in f..n
      /\ s.firstStart = x /\ s.lastStart = u
      /\ x <= low /\ low <= y /\ u <= end /\ end <= v
  BY FindIs DEF Around
<1> HIDE DEF n, s
<1>4. f \in 1..n /\ l \in 1..n /\ f <= l /\ f - 1 \in 0..n /\ f \in 0..n /\ l - 1 \in 0..n /\ l \in 0..n
  BY <1>1, <1>3, SMTT(40)
<1>5. /\ x \in Nat /\ y \in Nat /\ u \in Nat /\ v \in Nat /\ y <= Len(flat) /\ u <= Len(flat)
      /\ Size(chunks[f]) = y - x
      /\ x = at[f-1] /\ y = at[f] /\ u = at[l-1] /\ v = at[l] /\ s.first = f /\ s.last = l
  BY <1>1, <1>4
<1> HIDE DEF f, l, x, y, u, v, W
<1>6. ASSUME NEW a \in Nat, NEW b \in Nat, a <= b, b <= Len(flat)
      PROVE  /\ Bytes(SubSeq(flat, a + 1, b)) = W[b] - W[a] /\ W[a] \in Nat /\ W[b] \in Nat
  BY ONLY <1>1, <1>6, BytesOfSlice DEF W
<1>7. ASSUME NEW i \in 1..n, NEW c, c = at[i-1], NEW d, d = at[i],
             NEW a \in Nat, NEW b \in Nat, c <= a, a <= b, b <= d
      PROVE  SubSeq(chunks[i].lines, (a - c) + 1, b - c) = SubSeq(flat, a + 1, b)
  <2>1. /\ Tiles(chunks, flat, at) /\ i \in 1..Len(chunks) /\ a \in Nat /\ b \in Nat
        /\ c = at[i-1] /\ d = at[i] /\ c <= a /\ a <= b /\ b <= d
    BY <1>7 DEF Around, n
  <2> DEFINE p == a - c
             q == b - c
  <2>2. p \in Nat /\ q \in Nat /\ c + p = a /\ c + q = b
    <3>1. i - 1 \in 0..n
      BY <1>1
    <3>2. c \in Nat /\ c <= a /\ a <= b
      BY <1>1, <1>7, <3>1
    <3>3. QED
      BY ONLY <3>2, <2>1, SMTT(40)
  <2> HIDE DEF p, q
  <2>3. LinesOf(chunks[i].lines, p, q) = LinesOf(flat, a, b)
    BY ONLY <2>1, <2>2, ChunkSlice
  <2>4. QED
    BY <2>3 DEF LinesOf, p, q
<1>8. CASE low = end
  <2>1. W[low] \in Nat
    BY <1>2, <1>6
  <2>2. W[end] - W[low] = 0
    BY <1>8, <2>1
  <2>3. BytesIn(s) = 0
    BY <1>3, <1>8 DEF BytesIn
  <2>4. QED
    BY <2>2, <2>3 DEF s, W
<1>9. CASE low # end /\ f = l
  <2>1. SubSeq(chunks[f].lines, (low - x) + 1, end - x) = SubSeq(flat, low + 1, end)
    <3>1. f \in 1..n /\ x = at[f-1] /\ y = at[f] /\ low \in Nat /\ end \in Nat /\ x <= low /\ low <= end /\ end <= y
      BY <1>2, <1>3, <1>4, <1>5, <1>9
    <3>2. QED
      BY ONLY <1>7, <3>1
  <2>2. BytesIn(s) = Bytes(SubSeq(chunks[f].lines, (low - x) + 1, end - x))
    BY <1>3, <1>5, <1>9 DEF BytesIn
  <2>3. Bytes(SubSeq(flat, low + 1, end)) = W[end] - W[low]
    BY <1>2, <1>6
  <2>4. QED
    BY <2>1, <2>2, <2>3 DEF s, W
<1>10. CASE low # end /\ f # l
  <2>1. f <= l - 1 /\ f \in Nat /\ l - 1 \in Nat /\ l - 1 <= n
    BY <1>1, <1>4, <1>10
  <2>2. y <= u
    BY <1>1, <1>4, <1>5, <2>1
  <2>3. SubSeq(chunks[f].lines, (low - x) + 1, y - x) = SubSeq(flat, low + 1, y)
    <3>1. f \in 1..n /\ x = at[f-1] /\ y = at[f] /\ low \in Nat /\ y \in Nat /\ x <= low /\ low <= y /\ y <= y
      BY <1>2, <1>3, <1>4, <1>5
    <3>2. QED
      BY ONLY <1>7, <3>1, ZenonT(60)
  <2>4. SubSeq(chunks[l].lines, (u - u) + 1, end - u) = SubSeq(flat, u + 1, end)
    <3>1. l \in 1..n /\ u = at[l-1] /\ v = at[l] /\ u \in Nat /\ end \in Nat /\ u <= u /\ u <= end /\ end <= v
      BY <1>2, <1>3, <1>4, <1>5
    <3>2. QED
      BY ONLY <1>7, <3>1
  <2>5. Holds(SubSeq(chunks, f + 1, l - 1), SubSeq(flat, y + 1, u))
    BY <1>5, <2>1, TilesPart DEF n, Around
  <2>6. Honest(SubSeq(chunks, f + 1, l - 1))
    <3>1. chunks \in Seq(Chunk)
      BY TilesFacts DEF Around
    <3> DEFINE k == l - 1
               part == SubSeq(chunks, f + 1, k)
    <3>2. f \in Nat /\ k \in Nat /\ f <= k /\ k <= Len(chunks)
      BY <2>1 DEF n
    <3> HIDE DEF k
    <3>3. Len(part) = k - f /\ \A z \in 1..k-f : part[z] = chunks[f + z]
      BY ONLY <3>1, <3>2, Slice
    <3> HIDE DEF part
    <3>4. \A z \in 1..k-f : f + z \in 1..Len(chunks)
      BY <1>1, <3>2 DEF n
    <3>5. Honest(part)
      BY <3>3, <3>4 DEF Honest
    <3>6. QED
      BY <3>5 DEF part, k
  <2>7. BytesOf(SubSeq(chunks, f + 1, l - 1)) = Bytes(SubSeq(flat, y + 1, u))
    BY <2>5, <2>6, Weighs
  <2>8. BytesIn(s) = Bytes(SubSeq(flat, low + 1, y)) + Bytes(SubSeq(flat, u + 1, end)) + Bytes(SubSeq(flat, y + 1, u))
    <3>1. Len(chunks[f].lines) = y - x /\ u - u = 0 /\ 0 + 1 = 1
      BY <1>5 DEF Size
    <3>2. BytesIn(s) = Bytes(SubSeq(chunks[f].lines, (low - x) + 1, Len(chunks[f].lines)))
                       + Bytes(SubSeq(chunks[l].lines, 1, end - u))
                       + BytesOf(SubSeq(chunks, f + 1, l - 1))
      BY <1>3, <1>5, <1>10 DEF BytesIn
    <3>3. SubSeq(chunks[l].lines, 1, end - u) = SubSeq(flat, u + 1, end)
      BY <2>4, <3>1
    <3>4. QED
      BY <2>3, <2>7, <3>1, <3>2, <3>3
  <2>9. /\ Bytes(SubSeq(flat, low + 1, y)) = W[y] - W[low] /\ W[low] \in Nat
        /\ Bytes(SubSeq(flat, u + 1, end)) = W[end] - W[u] /\ W[end] \in Nat
        /\ Bytes(SubSeq(flat, y + 1, u)) = W[u] - W[y] /\ W[y] \in Nat /\ W[u] \in Nat
    BY <1>2, <1>3, <1>5, <1>6, <2>2
  <2>10. BytesIn(s) = W[end] - W[low]
    BY <2>8, <2>9
  <2>11. QED
    BY <2>10 DEF s, W
<1>11. QED
  BY <1>8, <1>9, <1>10

-----------------------------------------------------------------------------
(* What an edit leaves.                                                     *)

\* The lines of t between a and d, with m in place of those between b and c.
Between(t, a, b, m, c, d) == (LinesOf(t, a, b) \o m) \o LinesOf(t, c, d)

(* How long a replaced stretch is, and its bytes. *)
LEMMA BetweenIs ==
    ASSUME NEW t \in Seq(Line), NEW m \in Seq(Line),
           NEW a \in Nat, NEW b \in Nat, NEW c \in Nat, NEW d \in Nat,
           a <= b, b <= c, c <= d, d <= Len(t)
    PROVE  /\ Between(t, a, b, m, c, d) \in Seq(Line)
           /\ Len(Between(t, a, b, m, c, d)) = ((b - a) + Len(m)) + (d - c)
           /\ Bytes(Between(t, a, b, m, c, d)) = ((Weight(t)[b] - Weight(t)[a]) + Bytes(m)) + (Weight(t)[d] - Weight(t)[c])
           /\ Weight(t)[a] \in Nat /\ Weight(t)[b] \in Nat /\ Weight(t)[c] \in Nat /\ Weight(t)[d] \in Nat
<1> DEFINE h == SubSeq(t, a + 1, b)
           k == SubSeq(t, c + 1, d)
           W == Weight(t)
<1>1. Len(t) \in Nat /\ b <= Len(t) /\ t \in Seq(Line) /\ a \in Nat /\ b \in Nat /\ c \in Nat /\ d \in Nat
      /\ a <= b /\ c <= d /\ d <= Len(t)
  BY LenProperties
<1>2. h \in Seq(Line) /\ Len(h) = b - a
  BY ONLY <1>1, Slice
<1>3. k \in Seq(Line) /\ Len(k) = d - c
  BY ONLY <1>1, Slice
<1>4. Bytes(h) = W[b] - W[a] /\ W[a] \in Nat /\ W[b] \in Nat
  BY ONLY <1>1, BytesOfSlice
<1>5. Bytes(k) = W[d] - W[c] /\ W[c] \in Nat /\ W[d] \in Nat
  BY ONLY <1>1, BytesOfSlice
<1> HIDE DEF h, k, W
<1> DEFINE g == h \o m
<1>6. g \in Seq(Line) /\ Len(g) = Len(h) + Len(m) /\ Bytes(g) = Bytes(h) + Bytes(m)
  BY <1>2, ConcatProperties, BytesOfJoin
<1>7. Between(t, a, b, m, c, d) = g \o k
  BY DEF Between, LinesOf, h, k
<1> HIDE DEF g
<1>8. g \o k \in Seq(Line) /\ Len(g \o k) = Len(g) + Len(k)
  <2>1. g \in Seq(Line) /\ k \in Seq(Line)
    BY <1>3, <1>6
  <2>2. QED
    BY ONLY <2>1, ConcatProperties
<1>9. Bytes(g \o k) = Bytes(g) + Bytes(k)
  BY <1>3, <1>6, BytesOfJoin
<1>10. QED
  BY <1>2, <1>3, <1>4, <1>5, <1>6, <1>7, <1>8, <1>9 DEF W

Follows(p, q, w) == p \o q = w

LEMMA GrowsBefore ==
    ASSUME NEW t \in Seq(Line), NEW m \in Seq(Line), NEW x \in Nat,
           NEW a \in Nat, NEW b \in Nat, NEW c \in Nat, NEW d \in Nat,
           x <= a, a <= b, b <= c, c <= d, d <= Len(t)
    PROVE  Follows(LinesOf(t, x, a), Between(t, a, b, m, c, d), Between(t, x, b, m, c, d))
<1> DEFINE p == SubSeq(t, x + 1, a)
           h == SubSeq(t, a + 1, b)
           k == SubSeq(t, c + 1, d)
<1>1. /\ t \in Seq(Line) /\ x \in Nat /\ a \in Nat /\ b \in Nat /\ c \in Nat /\ d \in Nat /\ Len(t) \in Nat
      /\ x <= a /\ a <= b /\ c <= d /\ d <= Len(t) /\ a <= Len(t) /\ b <= Len(t)
  BY LenProperties
<1>2. p \in Seq(Line)
  BY ONLY <1>1, Slice
<1>3. h \in Seq(Line)
  BY ONLY <1>1, Slice
<1>4. k \in Seq(Line)
  BY ONLY <1>1, Slice
<1>5. p \o h = SubSeq(t, x + 1, b)
  BY ONLY <1>1, Adjoin
<1> HIDE DEF p, h, k
<1>6. p \o ((h \o m) \o k) = ((p \o h) \o m) \o k
  <2>1. p \in Seq(Line) /\ h \in Seq(Line) /\ m \in Seq(Line) /\ k \in Seq(Line)
    BY <1>2, <1>3, <1>4
  <2>2. QED
    BY ONLY <2>1, SMTT(40)
<1>7. QED
  BY <1>5, <1>6 DEF Between, LinesOf, Follows, p, h, k

LEMMA GrowsAfter ==
    ASSUME NEW t \in Seq(Line), NEW m \in Seq(Line), NEW y \in Nat,
           NEW a \in Nat, NEW b \in Nat, NEW c \in Nat, NEW d \in Nat,
           a <= b, b <= c, c <= d, d <= y, y <= Len(t)
    PROVE  Follows(Between(t, a, b, m, c, d), LinesOf(t, d, y), Between(t, a, b, m, c, y))
<1> DEFINE h == SubSeq(t, a + 1, b)
           k == SubSeq(t, c + 1, d)
           q == SubSeq(t, d + 1, y)
<1>1. /\ t \in Seq(Line) /\ y \in Nat /\ a \in Nat /\ b \in Nat /\ c \in Nat /\ d \in Nat /\ Len(t) \in Nat
      /\ a <= b /\ c <= d /\ d <= y /\ y <= Len(t) /\ b <= Len(t) /\ d <= Len(t)
  BY LenProperties
<1>2. h \in Seq(Line)
  BY ONLY <1>1, Slice
<1>3. k \in Seq(Line)
  BY ONLY <1>1, Slice
<1>4. q \in Seq(Line)
  BY ONLY <1>1, Slice
<1>5. k \o q = SubSeq(t, c + 1, y)
  BY ONLY <1>1, Adjoin
<1> HIDE DEF h, k, q
<1>6. ((h \o m) \o k) \o q = (h \o m) \o (k \o q)
  <2>1. q \in Seq(Line) /\ h \in Seq(Line) /\ m \in Seq(Line) /\ k \in Seq(Line)
    BY <1>2, <1>3, <1>4
  <2>2. QED
    BY ONLY <2>1, SMTT(40)
<1>7. QED
  BY <1>5, <1>6 DEF Between, LinesOf, Follows, h, k, q

\* The sequence cs with new in place of its elements after i up to j.
Edited(cs, i, new, j) == (SubSeq(cs, 1, i) \o new) \o SubSeq(cs, j + 1, Len(cs))

(* Chunks in place of those that hold the lines around a range.             *)
LEMMA InPlace ==
    ASSUME NEW cs, NEW t, NEW at, Tiles(cs, t, at), NEW m \in Seq(Line),
           NEW i \in Nat, NEW j \in Nat, i <= j, j <= Len(cs),
           NEW a, NEW d, a = at[i], d = at[j],
           NEW b \in Nat, NEW c \in Nat, a <= b, b <= c, c <= d,
           NEW new, Holds(new, Between(t, a, b, m, c, d))
    PROVE  Holds(Edited(cs, i, new, j), Between(t, 0, b, m, c, Len(t)))
<1> DEFINE n == Len(cs)
           k == Len(t)
           z == 0
           P == SubSeq(cs, z + 1, i)
           Q == SubSeq(cs, j + 1, n)
           p == LinesOf(t, z, a)
           q == LinesOf(t, d, k)
           M == Between(t, a, b, m, c, d)
<1>1. /\ cs \in Seq(Chunk) /\ t \in Seq(Line) /\ n \in Nat /\ k \in Nat
      /\ \A x \in 0..n : at[x] \in Nat /\ at[x] <= k
      /\ at[0] = 0 /\ at[n] = k
  BY TilesFacts
<1>2. i \in 0..n /\ j \in 0..n /\ n <= n /\ z \in Nat /\ z <= i /\ z + 1 = 1 /\ i <= n
  BY <1>1
<1>3. a \in Nat /\ d \in Nat /\ d <= k /\ z <= a /\ k <= Len(t)
  BY <1>1, <1>2
<1> HIDE DEF n, k, z
<1>4. Holds(P, SubSeq(t, at[z] + 1, a))
  <2>1. z <= i /\ i <= Len(cs) /\ z \in Nat
    BY <1>2 DEF n
  <2>2. Holds(SubSeq(cs, z + 1, i), SubSeq(t, at[z] + 1, at[i]))
    BY <2>1, TilesPart
  <2>3. QED
    BY <2>2
<1>5. Holds(P, p)
  BY <1>1, <1>4 DEF z, LinesOf
<1>6. Holds(Q, q)
  <2>1. n \in Nat /\ j <= n /\ n <= Len(cs)
    BY <1>1 DEF n
  <2>2. Holds(SubSeq(cs, j + 1, n), SubSeq(t, at[j] + 1, at[n]))
    BY <2>1, TilesPart
  <2>3. QED
    BY <1>1, <2>2 DEF LinesOf
<1> HIDE DEF P, Q
<1>7. Holds((P \o new) \o Q, (p \o M) \o q)
  <2> HIDE DEF p, q, M
  <2>1. Holds(new, M)
    BY DEF M
  <2>2. Holds(P \o new, p \o M)
    BY <1>5, <2>1, TilesJoin
  <2>3. QED
    BY <1>6, <2>2, TilesJoin
<1>8. Follows(p, M, Between(t, z, b, m, c, d))
  <2>1. /\ t \in Seq(Line) /\ m \in Seq(Line) /\ a \in Nat /\ b \in Nat /\ c \in Nat /\ d \in Nat /\ z \in Nat
        /\ z <= a /\ a <= b /\ b <= c /\ c <= d /\ d <= Len(t)
    BY <1>1, <1>2, <1>3 DEF k
  <2>2. QED
    BY ONLY <2>1, GrowsBefore
<1>9. Follows(Between(t, z, b, m, c, d), q, Between(t, z, b, m, c, k))
  <2>1. /\ t \in Seq(Line) /\ m \in Seq(Line) /\ z \in Nat /\ b \in Nat /\ c \in Nat /\ d \in Nat /\ k \in Nat
        /\ z <= b /\ b <= c /\ c <= d /\ d <= k /\ k <= Len(t)
    BY <1>1, <1>2, <1>3 DEF k
  <2>2. QED
    BY ONLY <2>1, GrowsAfter
<1> HIDE DEF p, q, M
<1>10. QED
  BY <1>2, <1>7, <1>8, <1>9 DEF Follows, Edited, P, Q, n, k, z

-----------------------------------------------------------------------------
(* The chunks to rebuild.                                                   *)

Balanced(cs) ==
    /\ \A i \in 1..Len(cs) : Size(cs[i]) \in 1..MaxLines
    /\ Len(cs) > 1 => \A i \in 1..Len(cs) : Size(cs[i]) >= Half

\* What Region keeps of the chunks around the range.
Kept(s, added) ==
    (SubSeq(chunks[s.first].lines, 1, s.top - s.firstStart) \o added)
        \o SubSeq(chunks[s.last].lines, (s.end - s.lastStart) + 1, Size(chunks[s.last]))

(* The lines of a chunk before and after an offset. *)
LEMMA EndsOfChunk ==
    ASSUME NEW cs, NEW t, NEW at, Tiles(cs, t, at), NEW i \in 1..Len(cs),
           NEW x, NEW y, x = at[i-1], y = at[i],
           NEW b \in Nat, x <= b, b <= y, NEW q \in Nat, x + q = b
    PROVE  /\ SubSeq(cs[i].lines, 1, q) = LinesOf(t, x, b)
           /\ SubSeq(cs[i].lines, q + 1, Size(cs[i])) = LinesOf(t, b, y)
           /\ cs[i].lines = LinesOf(t, x, y)
<1> DEFINE z == 0
           n == Size(cs[i])
<1>1. x \in Nat /\ y \in Nat /\ n = y - x /\ cs[i].lines = SubSeq(t, x + 1, y)
  <2>1. i - 1 \in 0..Len(cs) /\ i \in 0..Len(cs)
    BY TilesFacts
  <2>2. QED
    BY <2>1, TilesFacts
<1> HIDE DEF n
<1>2. x \in Nat /\ y \in Nat /\ n = y - x /\ x <= b /\ b <= y /\ b \in Nat
  BY <1>1
<1>3. z \in Nat /\ z + 1 = 1 /\ x + z = x /\ x <= x /\ n \in Nat /\ x + n = y /\ y <= y
  BY ONLY <1>2
<1> HIDE DEF z
<1>4. /\ Tiles(cs, t, at) /\ i \in 1..Len(cs) /\ x = at[i-1] /\ y = at[i] /\ q \in Nat /\ x + q = b
      /\ x \in Nat /\ y \in Nat /\ b \in Nat /\ x <= b /\ b <= y
  BY <1>1
<1>5. LinesOf(cs[i].lines, z, q) = LinesOf(t, x, b)
  BY ONLY <1>3, <1>4, ChunkSlice, SMTT(40)
<1>6. LinesOf(cs[i].lines, q, n) = LinesOf(t, b, y)
  <2>1. /\ Tiles(cs, t, at) /\ i \in 1..Len(cs) /\ x = at[i-1] /\ y = at[i]
        /\ b \in Nat /\ y \in Nat /\ x <= b /\ b <= y /\ y <= y
        /\ q \in Nat /\ n \in Nat /\ x + q = b /\ x + n = y
    BY <1>3, <1>4
  <2>2. QED
    BY ONLY <2>1, ChunkSlice, SMTT(40)
<1>7. QED
  BY <1>1, <1>3, <1>5, <1>6 DEF LinesOf, n

(* What Region keeps and adds are lines of the new text. *)
LEMMA KeptIs ==
    ASSUME NEW at, NEW low, NEW end, Around(at, low, end), NEW added \in Seq(Line)
    PROVE  LET s == Find(low, end)
           IN Kept(s, added) = Between(flat, at[s.first - 1], low, added, end, at[s.last])
<1> DEFINE n == Len(chunks)
           s == Find(low, end)
           f == s.first
           l == s.last
           x == at[f-1]
           y == at[f]
           u == at[l-1]
           v == at[l]
           p == low - x
           q == end - u
<1>1. n \in Nat /\ Tiles(chunks, flat, at) /\ \A k \in 0..n : at[k] \in Nat
  BY TilesFacts DEF Around
<1>2. low \in Nat /\ end \in Nat
  BY DEF Around
<1>3. /\ s.top = low /\ s.end = end /\ f \in 1..n /\ l \in f..n
      /\ s.firstStart = x /\ s.lastStart = u
      /\ x <= low /\ low <= y /\ u <= end /\ end <= v
  BY FindIs DEF Around
<1> HIDE DEF n, s
<1>4. f \in 1..n /\ l \in 1..n /\ f - 1 \in 0..n /\ f \in 0..n /\ l - 1 \in 0..n /\ l \in 0..n
  BY <1>1, <1>3
<1>5. /\ x \in Nat /\ y \in Nat /\ u \in Nat /\ v \in Nat
      /\ x = at[f-1] /\ y = at[f] /\ u = at[l-1] /\ v = at[l] /\ s.first = f /\ s.last = l
  BY <1>1, <1>4
<1> HIDE DEF f, l, x, y, u, v
<1>6. p \in Nat /\ x + p = low /\ q \in Nat /\ u + q = end /\ p = low - x /\ q = end - u
  <2>1. low \in Nat /\ end \in Nat /\ x \in Nat /\ u \in Nat /\ x <= low /\ u <= end
    BY <1>2, <1>3, <1>5
  <2>2. QED
    BY ONLY <2>1
<1> HIDE DEF p, q
<1>7. SubSeq(chunks[f].lines, 1, p) = LinesOf(flat, x, low)
  <2>1. /\ Tiles(chunks, flat, at) /\ f \in 1..Len(chunks) /\ x = at[f-1] /\ y = at[f]
        /\ low \in Nat /\ x <= low /\ low <= y /\ p \in Nat /\ x + p = low
    BY <1>1, <1>2, <1>3, <1>4, <1>5, <1>6 DEF n
  <2>2. QED
    BY ONLY <2>1, EndsOfChunk
<1>8. SubSeq(chunks[l].lines, q + 1, Size(chunks[l])) = LinesOf(flat, end, v)
  <2>1. /\ Tiles(chunks, flat, at) /\ l \in 1..Len(chunks) /\ u = at[l-1] /\ v = at[l]
        /\ end \in Nat /\ u <= end /\ end <= v /\ q \in Nat /\ u + q = end
    BY <1>1, <1>2, <1>3, <1>4, <1>5, <1>6 DEF n
  <2>2. QED
    BY ONLY <2>1, EndsOfChunk
<1>9. Kept(s, added) = (SubSeq(chunks[f].lines, 1, p) \o added) \o SubSeq(chunks[l].lines, q + 1, Size(chunks[l]))
  BY <1>3, <1>5, <1>6 DEF Kept
<1>10. Kept(s, added) = Between(flat, x, low, added, end, v)
  BY <1>7, <1>8, <1>9 DEF Between
<1>11. QED
  BY <1>5, <1>10 DEF s

(* Region has enough lines for its chunks to stay half full, or it has all   *)
(* there are.                                                               *)
LEMMA RegionIs ==
    ASSUME NEW at, NEW low, NEW end, Around(at, low, end), NEW added \in Seq(Line), Balanced(chunks)
    PROVE  LET r == Region(Find(low, end), added)
           IN /\ r.first \in 1..Len(chunks) /\ r.last \in r.first..Len(chunks)
              /\ at[r.first - 1] <= low /\ end <= at[r.last]
              /\ r.lines = Between(flat, at[r.first - 1], low, added, end, at[r.last])
              /\ Len(r.lines) >= Half \/ (r.first = 1 /\ r.last = Len(chunks))
<1> DEFINE n == Len(chunks)
           s == Find(low, end)
           f == s.first
           l == s.last
           x == at[f-1]
           v == at[l]
           k == Kept(s, added)
           r == Region(s, added)
           Right == /\ r.first \in 1..n /\ r.last \in r.first..n
                    /\ at[r.first - 1] <= low /\ end <= at[r.last]
                    /\ r.lines = Between(flat, at[r.first - 1], low, added, end, at[r.last])
                    /\ Len(r.lines) >= Half \/ (r.first = 1 /\ r.last = n)
<1>1. /\ n \in Nat /\ flat \in Seq(Line) /\ Len(flat) \in Nat
      /\ \A i \in 0..n : at[i] \in Nat /\ at[i] <= Len(flat)
      /\ \A i \in 1..n : at[i-1] <= at[i] /\ chunks[i].lines = SubSeq(flat, at[i-1] + 1, at[i])
      /\ \A i \in 1..n : Size(chunks[i]) = at[i] - at[i-1]
  BY TilesFacts DEF Around
<1>2. /\ low \in Nat /\ end \in Nat /\ low <= end /\ end <= Len(flat) /\ Half \in Nat
      /\ Len(added) \in Nat
  BY TextAssumption, LenProperties DEF Around, Half
<1>3. f \in 1..n /\ l \in f..n /\ x <= low /\ end <= v
  BY FindIs DEF Around
<1>4. k = Between(flat, x, low, added, end, v)
  BY KeptIs
<1>5. n > 1 => \A i \in 1..n : Size(chunks[i]) >= Half
  BY DEF Balanced
<1> HIDE DEF n, s
<1>6. f \in 1..n /\ l \in 1..n /\ f <= l /\ f - 1 \in 0..n /\ l \in 0..n
  BY <1>1, <1>3, SMTT(40)
<1>7. x \in Nat /\ v \in Nat /\ v <= Len(flat) /\ x = at[f-1] /\ v = at[l] /\ s.first = f /\ s.last = l
  BY <1>1, <1>6
<1> HIDE DEF f, l, x, v
<1> DEFINE A == [first |-> f, last |-> l + 1, lines |-> k \o chunks[l + 1].lines]
           B == [first |-> f - 1, last |-> l, lines |-> chunks[f - 1].lines \o k]
           C == [first |-> f, last |-> l, lines |-> k]
<1>8. r = CASE Len(k) < Half /\ l < n -> A
            [] Len(k) < Half /\ l = n /\ f > 1 -> B
            [] OTHER -> C
  BY <1>7 DEF Region, Kept, n
<1> HIDE DEF k, r, A, B, C
<1>9. CASE Len(k) < Half /\ l < n
  <2> DEFINE w == at[l+1]
             b == chunks[l + 1].lines
             m == Between(flat, x, low, added, end, w)
  <2>1. r.first = f /\ r.last = l + 1 /\ r.lines = k \o b
    <3>1. r = A
      <4>1. l # n
        BY <1>1, <1>6, <1>9
      <4>2. QED
        BY <1>8, <1>9, <4>1
    <3>2. QED
      BY <3>1 DEF A
  <2>2. l + 1 \in 1..n /\ l + 1 \in 0..n /\ (l + 1) - 1 = l /\ n > 1 /\ l + 1 \in f..n
    BY <1>1, <1>6, <1>9
  <2>3. w \in Nat /\ w <= Len(flat) /\ v <= w /\ b = SubSeq(flat, v + 1, w) /\ w - v >= Half
    BY <1>1, <1>5, <1>7, <2>2
  <2> HIDE DEF w, b, m
  <2>4. Follows(Between(flat, x, low, added, end, v), LinesOf(flat, v, w), Between(flat, x, low, added, end, w))
    <3>1. /\ flat \in Seq(Line) /\ added \in Seq(Line) /\ x \in Nat /\ low \in Nat /\ end \in Nat /\ v \in Nat /\ w \in Nat
          /\ x <= low /\ low <= end /\ end <= v /\ v <= w /\ w <= Len(flat)
      BY <1>1, <1>2, <1>3, <1>7, <2>3
    <3>2. QED
      BY ONLY <3>1, GrowsAfter
  <2>5. r.lines = m
    BY <1>4, <2>1, <2>3, <2>4 DEF Follows, LinesOf, m
  <2>6. end <= w
    BY <1>2, <1>3, <1>7, <2>3
  <2>7. Len(m) = ((low - x) + Len(added)) + (w - end)
    <3>1. /\ flat \in Seq(Line) /\ added \in Seq(Line) /\ x \in Nat /\ low \in Nat /\ end \in Nat /\ w \in Nat
          /\ x <= low /\ low <= end /\ end <= w /\ w <= Len(flat)
      BY <1>1, <1>2, <1>3, <1>7, <2>3, <2>6
    <3>2. QED
      BY ONLY <3>1, BetweenIs DEF m
  <2>8. Len(m) >= Half
    <3>1. /\ low \in Nat /\ end \in Nat /\ x \in Nat /\ v \in Nat /\ w \in Nat /\ Len(added) \in Nat /\ Half \in Nat
          /\ x <= low /\ low <= end /\ end <= v /\ w - v >= Half
      BY <1>2, <1>3, <1>7, <2>3
    <3>2. ((low - x) + Len(added)) + (w - end) >= Half
      BY ONLY <3>1
    <3>3. QED
      BY <2>7, <3>2
  <2>9. x = at[r.first - 1] /\ w = at[r.last]
    BY <1>7, <2>1 DEF w
  <2>10. Right
    BY <1>3, <1>6, <2>1, <2>2, <2>5, <2>6, <2>8, <2>9 DEF m
  <2>11. QED
    BY <2>10 DEF r, s, n
<1>10. CASE Len(k) < Half /\ l = n /\ f > 1
  <2> DEFINE w == at[(f-1)-1]
             b == chunks[f - 1].lines
             m == Between(flat, w, low, added, end, v)
  <2>1. r.first = f - 1 /\ r.last = l /\ r.lines = b \o k
    <3>1. r = B
      <4>1. ~(l < n)
        BY <1>1, <1>6, <1>10
      <4>2. QED
        BY <1>8, <1>10, <4>1
    <3>2. QED
      BY <3>1 DEF B
  <2>2. f - 1 \in 1..n /\ (f - 1) - 1 \in 0..n /\ n > 1 /\ l \in (f-1)..n
    BY <1>1, <1>6, <1>10
  <2>3. w \in Nat /\ w <= x /\ b = SubSeq(flat, w + 1, x) /\ x - w >= Half
    BY <1>1, <1>5, <1>7, <2>2
  <2> HIDE DEF w, b, m
  <2>4. Follows(LinesOf(flat, w, x), Between(flat, x, low, added, end, v), Between(flat, w, low, added, end, v))
    <3>1. /\ flat \in Seq(Line) /\ added \in Seq(Line) /\ x \in Nat /\ low \in Nat /\ end \in Nat /\ v \in Nat /\ w \in Nat
          /\ w <= x /\ x <= low /\ low <= end /\ end <= v /\ v <= Len(flat)
      BY <1>1, <1>2, <1>3, <1>7, <2>3
    <3>2. QED
      BY ONLY <3>1, GrowsBefore
  <2>5. r.lines = m
    BY <1>4, <2>1, <2>3, <2>4 DEF Follows, LinesOf, m
  <2>6. w <= low
    BY <1>2, <1>3, <1>7, <2>3
  <2>7. Len(m) = ((low - w) + Len(added)) + (v - end)
    <3>1. /\ flat \in Seq(Line) /\ added \in Seq(Line) /\ w \in Nat /\ low \in Nat /\ end \in Nat /\ v \in Nat
          /\ w <= low /\ low <= end /\ end <= v /\ v <= Len(flat)
      BY <1>1, <1>2, <1>3, <1>7, <2>3, <2>6
    <3>2. QED
      BY ONLY <3>1, BetweenIs DEF m
  <2>8. Len(m) >= Half
    <3>1. /\ low \in Nat /\ end \in Nat /\ x \in Nat /\ v \in Nat /\ w \in Nat /\ Len(added) \in Nat /\ Half \in Nat
          /\ x <= low /\ low <= end /\ end <= v /\ x - w >= Half
      BY <1>2, <1>3, <1>7, <2>3
    <3>2. ((low - w) + Len(added)) + (v - end) >= Half
      BY ONLY <3>1
    <3>3. QED
      BY <2>7, <3>2
  <2>9. w = at[r.first - 1] /\ v = at[r.last]
    BY <1>7, <2>1 DEF w
  <2>10. Right
    BY <1>3, <1>6, <2>1, <2>2, <2>5, <2>6, <2>8, <2>9 DEF m
  <2>11. QED
    BY <2>10 DEF r, s, n
<1>11. CASE ~(Len(k) < Half /\ l < n) /\ ~(Len(k) < Half /\ l = n /\ f > 1)
  <2>1. r.first = f /\ r.last = l /\ r.lines = k
    <3>1. r = C
      BY <1>8, <1>11
    <3>2. QED
      BY <3>1 DEF C
  <2>2. Len(k) = ((low - x) + Len(added)) + (v - end)
    <3>1. /\ flat \in Seq(Line) /\ added \in Seq(Line) /\ x \in Nat /\ low \in Nat /\ end \in Nat /\ v \in Nat
          /\ x <= low /\ low <= end /\ end <= v /\ v <= Len(flat)
      BY <1>1, <1>2, <1>3, <1>7
    <3>2. Len(Between(flat, x, low, added, end, v)) = ((low - x) + Len(added)) + (v - end)
      BY ONLY <3>1, BetweenIs
    <3>3. QED
      BY <1>4, <3>2
  <2>3. Len(k) \in Int
    BY <1>2, <1>7, <2>2
  <2>4. Len(k) >= Half \/ (f = 1 /\ l = n)
    BY <1>1, <1>2, <1>6, <1>11, <2>3
  <2>5. x = at[r.first - 1] /\ v = at[r.last]
    BY <1>7, <2>1
  <2>6. Right
    BY <1>3, <1>4, <1>6, <2>1, <2>4, <2>5
  <2>7. QED
    BY <2>6 DEF r, s, n
<1>12. QED
  BY <1>9, <1>10, <1>11

-----------------------------------------------------------------------------
(* Chunks that keep out of each other's cells.                              *)

Clear(c, d) == c.array = d.array => c.from + c.cap <= d.from \/ d.from + d.cap <= c.from
Apart(cs) == \A i, j \in 1..Len(cs) : i # j => Clear(cs[i], cs[j])

Sized(cs, least) == \A i \in 1..Len(cs) : Size(cs[i]) >= least /\ Size(cs[i]) <= MaxLines

\* The chunks are as replace has to leave them.
Good(cs) ==
    /\ Sized(cs, 1) /\ (Len(cs) > 1 => Sized(cs, Half))
    /\ Honest(cs) /\ Apart(cs)

(* splitLines leaves its chunks balanced and apart. *)
LEMMA SplitGood ==
    ASSUME NEW ls \in Seq(Line), Len(ls) > 0, NEW a \in Nat
    PROVE  /\ Good(Split(ls, a)) /\ Len(Split(ls, a)) > 0
           /\ Len(ls) >= Half => Sized(Split(ls, a), Half)
           /\ Len(ls) < Half => Len(Split(ls, a)) = 1
           /\ \A i \in 1..Len(Split(ls, a)) : Split(ls, a)[i].array = a
<1> DEFINE n == Len(ls)
           c == Count(n)
           cs == Split(ls, a)
           M == MaxLines
           f(i) == MarkAt(n, i)
           part(i) == SubSeq(ls, f(i-1) + 1, f(i))
<1>1. /\ n \in Nat \ {0} /\ n \in Nat /\ n > 0 /\ M \in Nat /\ Half \in Nat /\ Half >= 1 /\ Half <= M
  BY TextAssumption, LenProperties DEF Half
<1>2. c \in Nat \ {0} /\ (n <= M => c = 1)
  BY <1>1, Counted
<1>3. /\ \A i \in 0..c : f(i) \in Nat
      /\ f(0) = 0 /\ f(c) = n
      /\ \A i \in 1..c : f(i-1) + 1 <= f(i) /\ f(i) <= f(i-1) + M /\ (c > 1 => f(i-1) + Half <= f(i))
  BY <1>1, Evenly
<1>4. Len(cs) = c /\ cs \in Seq(Chunk)
  BY TilesSplit, TilesFacts DEF Holds
<1>5. \A i \in 1..c : /\ cs[i].lines = part(i) /\ cs[i].bytes = Bytes(part(i)) /\ cs[i].array = a
                      /\ cs[i].from = f(i-1) /\ cs[i].cap = Len(part(i))
  <2> TAKE i \in 1..c
  <2>1. cs[i] = [lines |-> part(i), bytes |-> Bytes(part(i)), array |-> a,
                 from |-> f(i-1), cap |-> Len(part(i))]
    BY TilesSplit
  <2> HIDE DEF part, f, cs
  <2>2. QED
    BY <2>1
<1> DEFINE at == [i \in 0..c |-> f(i)]
<1>6. at \in [0..c -> Nat] /\ \A i \in 0..c : at[i] = f(i)
  BY <1>3
<1> HIDE DEF at, cs, c, n, f, M
<1>7. ASSUME NEW i \in 1..c PROVE /\ i \in 0..c /\ i - 1 \in 0..c /\ f(i-1) \in Nat /\ f(i) \in Nat
  <2>1. i \in 0..c /\ i - 1 \in 0..c
    BY <1>2
  <2>2. QED
    BY <1>3, <2>1
<1>8. \A i, j \in 0..c : i <= j => f(i) <= f(j)
  <2>1. \A i \in 1..c : at[i-1] <= at[i]
    <3> TAKE i \in 1..c
    <3>1. f(i-1) + 1 <= f(i) /\ f(i-1) \in Nat /\ f(i) \in Nat /\ at[i] = f(i) /\ at[i-1] = f(i-1)
      BY <1>3, <1>6, <1>7
    <3>2. QED
      BY <3>1
  <2>2. \A i, j \in 0..c : i <= j => at[i] <= at[j]
    BY <1>2, <1>6, <2>1, Rising
  <2>3. QED
    BY <1>6, <2>2
<1>9. ASSUME NEW i \in 1..c PROVE Size(cs[i]) = f(i) - f(i-1) /\ cs[i].cap = f(i) - f(i-1)
  <2> DEFINE x == f(i-1)
             y == f(i)
  <2>1. c \in 0..c /\ i <= c
    BY <1>2
  <2>2. y <= f(c)
    BY <1>7, <1>8, <2>1
  <2>3. ls \in Seq(Line) /\ x \in Nat /\ y \in Nat /\ x <= y /\ y <= Len(ls)
    BY <1>3, <1>7, <2>2 DEF n
  <2>4. cs[i].lines = SubSeq(ls, x + 1, y) /\ cs[i].cap = Len(SubSeq(ls, x + 1, y))
    BY <1>5
  <2> HIDE DEF x, y
  <2>5. Len(SubSeq(ls, x + 1, y)) = y - x
    BY ONLY <2>3, Slice
  <2>6. QED
    BY <2>4, <2>5 DEF Size, x, y
<1>10. \A i \in 1..c : Size(cs[i]) >= 1 /\ Size(cs[i]) <= M /\ (c > 1 => Size(cs[i]) >= Half)
  <2> TAKE i \in 1..c
  <2>1. /\ f(i-1) \in Nat /\ f(i) \in Nat /\ M \in Nat /\ Half \in Nat
        /\ f(i-1) + 1 <= f(i) /\ f(i) <= f(i-1) + M /\ (c > 1 => f(i-1) + Half <= f(i))
        /\ Size(cs[i]) = f(i) - f(i-1)
    BY <1>1, <1>3, <1>7, <1>9
  <2>2. QED
    BY ONLY <2>1
<1>11. ASSUME c = 1 PROVE \A i \in 1..c : Size(cs[i]) = n
  <2> TAKE i \in 1..c
  <2>1. i = 1 /\ i = c /\ i - 1 = 0
    BY <1>11
  <2>2. Size(cs[i]) = n - 0
    BY <1>3, <1>9, <2>1
  <2>3. QED
    BY <1>1, <2>2
<1>12. Sized(cs, 1) /\ (c > 1 => Sized(cs, Half))
  BY <1>4, <1>10 DEF Sized, M
<1>13. n >= Half => Sized(cs, Half)
  <2>1. CASE c = 1
    BY <1>4, <1>10, <1>11, <2>1 DEF Sized, M
  <2>2. CASE c # 1
    BY <1>2, <1>12, <2>2
  <2>3. QED
    BY <2>1, <2>2
<1>14. Honest(cs)
  BY <1>4, <1>5 DEF Honest
<1>15. Apart(cs)
  <2> SUFFICES ASSUME NEW i \in 1..c, NEW j \in 1..c, i # j PROVE Clear(cs[i], cs[j])
    BY <1>4 DEF Apart
  <2>1. /\ f(i-1) \in Nat /\ f(i) \in Nat /\ f(j-1) \in Nat /\ f(j) \in Nat
        /\ i \in 0..c /\ i - 1 \in 0..c /\ j \in 0..c /\ j - 1 \in 0..c
    BY <1>7
  <2>2. /\ cs[i].from = f(i-1) /\ cs[i].cap = f(i) - f(i-1)
        /\ cs[j].from = f(j-1) /\ cs[j].cap = f(j) - f(j-1)
    BY <1>5, <1>9
  <2>3. i <= j - 1 \/ j <= i - 1
    BY <1>2
  <2>4. f(i) <= f(j-1) \/ f(j) <= f(i-1)
    BY <1>8, <2>1, <2>3
  <2>5. cs[i].from + cs[i].cap = f(i) /\ cs[j].from + cs[j].cap = f(j)
    BY <2>1, <2>2
  <2>6. QED
    BY <2>2, <2>4, <2>5 DEF Clear
<1>16. n < Half => c = 1
  BY <1>1, <1>2
<1>17. \A i \in 1..Len(cs) : cs[i].array = a
  BY <1>4, <1>5
<1>18. Good(cs) /\ Len(cs) > 0
  BY <1>2, <1>4, <1>12, <1>14, <1>15 DEF Good
<1>19. QED
  BY <1>4, <1>13, <1>16, <1>17, <1>18 DEF cs, n

(* An array that no chunk has yet is a new one. *)
LEMMA FreshIs ==
    ASSUME chunks \in Seq(Chunk)
    PROVE  FreshArray \in Nat /\ \A i \in 1..Len(chunks) : chunks[i].array # FreshArray
<1> DEFINE n == Len(chunks)
           U == {chunks[i].array : i \in 1..n}
           V == (1..n+1) \ U
           Free(a) == /\ \A i \in DOMAIN chunks : chunks[i].array # a
                      /\ \A b \in 1..a-1 : \E i \in DOMAIN chunks : chunks[i].array = b
<1>1. n \in Nat /\ DOMAIN chunks = 1..n
  BY LenProperties
<1> HIDE DEF n
<1>2. V # {}
  <2> SUFFICES ASSUME 1..n+1 \subseteq U PROVE FALSE
    OBVIOUS
  <2>1. IsFiniteSet(1..n) /\ Cardinality(1..n) = n /\ IsFiniteSet(1..n+1) /\ Cardinality(1..n+1) = n + 1
    <3>1. \A k \in Nat : IsFiniteSet(1..k) /\ Cardinality(1..k) = k
      <4> TAKE k \in Nat
      <4>1. IsFiniteSet(1..k) /\ Cardinality(1..k) = IF 1 > k THEN 0 ELSE k-1+1
        BY FS_Interval
      <4>2. (IF 1 > k THEN 0 ELSE k-1+1) = k
        OBVIOUS
      <4>3. QED
        BY <4>1, <4>2
    <3>2. n + 1 \in Nat
      BY <1>1
    <3>3. QED
      BY <1>1, <3>1, <3>2
  <2>2. IsFiniteSet(U) /\ Cardinality(U) <= n
    <3> DEFINE g == [i \in 1..n |-> chunks[i].array]
    <3>1. g \in Surjection(1..n, U)
      BY DEF Surjection
    <3>2. QED
      BY <2>1, <3>1, FS_Surjection
  <2> HIDE DEF U
  <2>3. Cardinality(1..n+1) <= Cardinality(U) /\ Cardinality(U) \in Nat
    BY <2>2, FS_Subset, FS_CardinalityType
  <2>4. QED
    BY <1>1, <2>1, <2>2, <2>3
<1>3. V \in SUBSET Nat
  BY <1>1
<1>4. PICK a \in V : \A b \in V : a <= b
  <2> HIDE DEF V
  <2>1. QED
    BY <1>2, <1>3, LeastNumber
<1>5. a \in 1..n+1 /\ \A i \in DOMAIN chunks : chunks[i].array # a
  BY <1>1
<1>6. ASSUME NEW b \in 1..a-1 PROVE \E i \in DOMAIN chunks : chunks[i].array = b
  <2>1. b \in 1..n+1 /\ ~(a <= b)
    BY <1>1, <1>5
  <2>2. b \in U
    BY <1>4, <2>1
  <2>3. QED
    BY <1>1, <2>2
<1>7. Free(a)
  BY <1>5, <1>6
<1> HIDE DEF Free
<1>8. FreshArray = CHOOSE b \in 1..n+1 : Free(b)
  BY DEF FreshArray, Free, n
<1>9. FreshArray \in 1..n+1 /\ Free(FreshArray)
  BY <1>5, <1>7, <1>8
<1>10. QED
  BY <1>1, <1>9 DEF Free, n

-----------------------------------------------------------------------------
(* The chunks after an edit.                                                *)

(* Where each chunk is after an edit. *)
Placed(es, cs, i, new, j) ==
    /\ Len(es) = (i + Len(new)) + (Len(cs) - j)
    /\ \A e \in 1..Len(es) :
         /\ e <= i => es[e] = cs[e]
         /\ e > i /\ e <= i + Len(new) => es[e] = new[e - i]
         /\ e > i + Len(new) => es[e] = cs[(e - (i + Len(new))) + j]

(* An edit of the chunks puts each where Placed says. *)
LEMMA EditIs ==
    ASSUME NEW S, NEW cs \in Seq(S), NEW new \in Seq(S), NEW i \in Nat, NEW j \in Nat, i <= j, j <= Len(cs),
           NEW es, es = Edited(cs, i, new, j)
    PROVE  es \in Seq(S) /\ Placed(es, cs, i, new, j)
<1> DEFINE n == Len(cs)
           m == Len(new)
           z == 0
           p == SubSeq(cs, z + 1, i)
           q == SubSeq(cs, j + 1, n)
           g == p \o new
<1>1. n \in Nat /\ m \in Nat /\ z \in Nat /\ z <= i /\ i <= n /\ j <= n /\ n <= Len(cs) /\ z + 1 = 1
      /\ i - z = i /\ n = Len(cs) /\ i <= Len(cs)
  BY LenProperties
<1> HIDE DEF n, z
<1>2. p \in Seq(S) /\ Len(p) = i - z /\ \A x \in 1..i-z : p[x] = cs[z + x]
  <2>1. cs \in Seq(S) /\ z \in Nat /\ i \in Nat /\ z <= i /\ i <= Len(cs)
    BY <1>1
  <2>2. QED
    BY ONLY <2>1, Slice
<1>3. q \in Seq(S) /\ Len(q) = n - j /\ \A x \in 1..n-j : q[x] = cs[j + x]
  <2>1. cs \in Seq(S) /\ j \in Nat /\ n \in Nat /\ j <= n /\ n <= Len(cs)
    BY <1>1
  <2>2. QED
    BY ONLY <2>1, Slice
<1>4. es = g \o q
  BY <1>1 DEF Edited
<1> HIDE DEF p, q
<1>5. /\ g \in Seq(S) /\ Len(g) = i + m
      /\ \A x \in 1..i+m : g[x] = IF x <= i THEN p[x] ELSE new[x - i]
  <2>1. p \in Seq(S) /\ new \in Seq(S)
    BY <1>2
  <2>2. /\ g \in Seq(S) /\ Len(g) = Len(p) + Len(new)
        /\ \A x \in 1..Len(p)+Len(new) : g[x] = IF x <= Len(p) THEN p[x] ELSE new[x - Len(p)]
    BY ONLY <2>1, ConcatProperties
  <2> HIDE DEF g
  <2>3. Len(p) = i
    BY <1>1, <1>2
  <2>4. QED
    BY <2>2, <2>3
<1> HIDE DEF g
<1>6. /\ es \in Seq(S) /\ Len(es) = (i + m) + (n - j)
      /\ \A x \in 1..(i+m)+(n-j) : es[x] = IF x <= i + m THEN g[x] ELSE q[x - (i + m)]
  <2>1. g \in Seq(S) /\ q \in Seq(S)
    BY <1>3, <1>5
  <2>2. /\ g \o q \in Seq(S) /\ Len(g \o q) = Len(g) + Len(q)
        /\ \A x \in 1..Len(g)+Len(q) : (g \o q)[x] = IF x <= Len(g) THEN g[x] ELSE q[x - Len(g)]
    BY ONLY <2>1, ConcatProperties
  <2> HIDE DEF m
  <2>3. QED
    BY <1>3, <1>4, <1>5, <2>2
<1> HIDE DEF m
<1>7. ASSUME NEW e \in 1..(i+m)+(n-j)
      PROVE  /\ e <= i => es[e] = cs[e]
             /\ e > i /\ e <= i + m => es[e] = new[e - i]
             /\ e > i + m => es[e] = cs[(e - (i + m)) + j]
  <2> e \in Nat /\ m \in Nat /\ n \in Nat
    BY <1>1
  <2>1. CASE e <= i
    <3>1. e \in 1..i+m /\ e \in 1..i-z /\ z + e = e /\ e <= i + m
      BY <1>1, <2>1 DEF z
    <3>2. es[e] = p[e] /\ p[e] = cs[e]
      BY <1>2, <1>5, <1>6, <2>1, <3>1
    <3>3. ~(e > i) /\ ~(e > i + m)
      BY ONLY <2>1, <3>1, e \in Nat, i \in Nat, m \in Nat
    <3>4. QED
      BY <3>2, <3>3
  <2>2. CASE e > i /\ e <= i + m
    <3>1. e \in 1..i+m /\ ~(e <= i)
      BY <1>1, <2>2
    <3>2. es[e] = new[e - i]
      BY <1>5, <1>6, <2>2, <3>1
    <3>3. ~(e > i + m)
      BY ONLY <2>2, e \in Nat, i \in Nat, m \in Nat
    <3>4. QED
      BY <3>1, <3>2, <3>3
  <2>3. CASE e > i + m
    <3> DEFINE x == e - (i + m)
    <3>1. x \in 1..n-j /\ ~(e <= i + m) /\ ~(e <= i) /\ j + x = x + j
      BY <1>1, <2>3
    <3> HIDE DEF x
    <3>2. es[e] = q[x]
      BY <1>6, <3>1 DEF x
    <3>3. es[e] = cs[x + j]
      BY <1>3, <3>1, <3>2
    <3>4. QED
      BY <2>3, <3>1, <3>3 DEF x
  <2>4. QED
    BY <1>1, <2>1, <2>2, <2>3
<1>8. QED
  BY <1>6, <1>7 DEF m, n, Placed

(* New chunks keep the others as replace has to leave them if they are big   *)
(* enough, unless they are alone, and out of the cells of those that stay.  *)
LEMMA EditGood ==
    ASSUME NEW cs \in Seq(Chunk), NEW new \in Seq(Chunk), Good(cs), Honest(new), Apart(new),
           NEW i \in Nat, NEW j \in Nat, i < j, j <= Len(cs),
           NEW es, es = Edited(cs, i, new, j),
           Sized(new, 1),
           i > 0 \/ j < Len(cs) \/ Len(new) > 1 => Sized(new, Half),
           \A e \in 1..Len(cs) : e <= i \/ e > j => \A k \in 1..Len(new) : Clear(cs[e], new[k])
    PROVE  Good(es)
<1> DEFINE n == Len(cs)
           m == Len(new)
           N == (i + m) + (n - j)
<1>1. /\ n \in Nat /\ m \in Nat /\ i \in Nat /\ j \in Nat /\ i < j /\ j <= n
      /\ \A e \in 1..n : cs[e] \in Chunk
      /\ \A e \in 1..m : new[e] \in Chunk
  BY LenProperties, ElementOfSeq
<1>2. /\ Len(es) = N
      /\ \A e \in 1..Len(es) :
           /\ e <= i => es[e] = cs[e]
           /\ e > i /\ e <= i + m => es[e] = new[e - i]
           /\ e > i + m => es[e] = cs[(e - (i + m)) + j]
  <2>1. /\ i \in Nat /\ j \in Nat /\ i <= j /\ j <= Len(cs)
        /\ cs \in Seq(Chunk) /\ new \in Seq(Chunk) /\ es = Edited(cs, i, new, j)
    BY <1>1
  <2>2. Placed(es, cs, i, new, j)
    BY ONLY <2>1, EditIs
  <2>3. QED
    BY <2>2 DEF Placed
<1> HIDE DEF n, m, N
(* The new place of a chunk is that of one that stays or of a new one.       *)
<1> DEFINE Stays(e, o) == o \in 1..n /\ (o <= i \/ o > j) /\ es[e] = cs[o] /\ e = (IF o <= i THEN o ELSE (o - j) + (i + m))
           IsNew(e, k) == k \in 1..m /\ es[e] = new[k] /\ e = i + k
<1>3. ASSUME NEW e \in 1..N PROVE (\E o \in 1..n : Stays(e, o)) \/ (\E k \in 1..m : IsNew(e, k))
  <2> e \in Nat
    OBVIOUS
  <2>1. CASE e <= i
    <3>1. e \in 1..n
      BY <1>1, <2>1
    <3>2. Stays(e, e)
      BY <1>2, <2>1, <3>1
    <3>3. QED
      BY <3>1, <3>2
  <2>2. CASE e > i /\ e <= i + m
    <3>1. e - i \in 1..m /\ e = i + (e - i)
      BY <1>1, <2>2
    <3>2. es[e] = new[e - i]
      BY <1>2, <2>2
    <3>3. IsNew(e, e - i)
      BY <3>1, <3>2
    <3>4. QED
      BY <3>1, <3>3
  <2>3. CASE e > i + m
    <3> DEFINE o == (e - (i + m)) + j
    <3>1. o \in 1..n /\ o > j /\ ~(o <= i) /\ e = (o - j) + (i + m)
      BY <1>1, <2>3, SMTT(40) DEF N
    <3>2. es[e] = cs[o]
      BY <1>2, <2>3
    <3> HIDE DEF o
    <3>3. Stays(e, o)
      BY <3>1, <3>2
    <3>4. QED
      BY <3>1, <3>3
  <2>4. e <= i \/ (e > i /\ e <= i + m) \/ e > i + m
    BY <1>1
  <2> HIDE DEF Stays, IsNew
  <2>5. QED
    BY <2>1, <2>2, <2>3, <2>4
<1> HIDE DEF Stays, IsNew
<1>4. Sized(cs, 1) /\ (n > 1 => Sized(cs, Half)) /\ Honest(cs) /\ Apart(cs)
  BY DEF Good, n
<1>5. Sized(es, 1)
  <2> SUFFICES ASSUME NEW e \in 1..N PROVE Size(es[e]) >= 1 /\ Size(es[e]) <= MaxLines
    BY <1>2 DEF Sized
  <2>1. ASSUME NEW o \in 1..n, Stays(e, o) PROVE Size(es[e]) >= 1 /\ Size(es[e]) <= MaxLines
    BY <1>4, <2>1 DEF Stays, Sized, n
  <2>2. ASSUME NEW k \in 1..m, IsNew(e, k) PROVE Size(es[e]) >= 1 /\ Size(es[e]) <= MaxLines
    BY <2>2 DEF IsNew, Sized, m
  <2>3. QED
    BY <1>3, <2>1, <2>2
<1>6. Len(es) > 1 => Sized(es, Half)
  <2> SUFFICES ASSUME N > 1, NEW e \in 1..N PROVE Size(es[e]) >= Half /\ Size(es[e]) <= MaxLines
    BY <1>2 DEF Sized
  <2>1. ASSUME NEW o \in 1..n, Stays(e, o) PROVE Size(es[e]) >= Half /\ Size(es[e]) <= MaxLines
    <3>1. o \in 1..n /\ (o <= i \/ o > j) /\ es[e] = cs[o]
      BY <2>1 DEF Stays
    <3>2. n > 1
      BY <1>1, <3>1
    <3>3. QED
      BY <1>4, <3>1, <3>2 DEF Sized, n
  <2>2. ASSUME NEW k \in 1..m, IsNew(e, k) PROVE Size(es[e]) >= Half /\ Size(es[e]) <= MaxLines
    <3>1. i > 0 \/ j < n \/ m > 1
      BY <1>1 DEF N
    <3>2. Sized(new, Half)
      BY <3>1 DEF n, m
    <3>3. QED
      BY <2>2, <3>2 DEF IsNew, Sized, m
  <2>3. QED
    BY <1>3, <2>1, <2>2
<1>7. Honest(es)
  <2> SUFFICES ASSUME NEW e \in 1..N PROVE es[e].bytes = Bytes(es[e].lines)
    BY <1>2 DEF Honest
  <2>1. ASSUME NEW o \in 1..n, Stays(e, o) PROVE es[e].bytes = Bytes(es[e].lines)
    BY <1>4, <2>1 DEF Stays, Honest, n
  <2>2. ASSUME NEW k \in 1..m, IsNew(e, k) PROVE es[e].bytes = Bytes(es[e].lines)
    BY <2>2 DEF IsNew, Honest, m
  <2>3. QED
    BY <1>3, <2>1, <2>2
<1>8. Apart(es)
  <2> SUFFICES ASSUME NEW e \in 1..N, NEW d \in 1..N, e # d PROVE Clear(es[e], es[d])
    BY <1>2 DEF Apart
  <2>1. ASSUME NEW o \in 1..n, Stays(e, o), NEW q \in 1..n, Stays(d, q) PROVE Clear(es[e], es[d])
    <3>1. o # q
      BY <2>1 DEF Stays
    <3>2. QED
      BY <1>4, <2>1, <3>1 DEF Apart, Stays, n
  <2>2. ASSUME NEW o \in 1..n, Stays(e, o), NEW q \in 1..m, IsNew(d, q) PROVE Clear(es[e], es[d])
    BY <2>2 DEF Stays, IsNew, n, m
  <2>3. ASSUME NEW o \in 1..m, IsNew(e, o), NEW q \in 1..n, Stays(d, q) PROVE Clear(es[e], es[d])
    <3>1. Clear(es[d], es[e])
      BY <2>3 DEF Stays, IsNew, n, m
    <3>2. QED
      BY <3>1 DEF Clear
  <2>4. ASSUME NEW o \in 1..m, IsNew(e, o), NEW q \in 1..m, IsNew(d, q) PROVE Clear(es[e], es[d])
    <3>1. o # q
      BY <2>4 DEF IsNew
    <3>2. QED
      BY <2>4, <3>1 DEF Apart, IsNew, m
  <2>5. QED
    BY <1>3, <2>1, <2>2, <2>3, <2>4
<1>9. QED
  BY <1>5, <1>6, <1>7, <1>8 DEF Good

(* Writing one chunk is an edit of that chunk. *)
LEMMA OneIsEdited ==
    ASSUME NEW S, NEW cs \in Seq(S), NEW f \in 1..Len(cs), NEW i \in Nat, i + 1 = f, NEW d \in S
    PROVE  [cs EXCEPT ![f] = d] = Edited(cs, i, <<d>>, f)
<1> DEFINE n == Len(cs)
           es == Edited(cs, i, <<d>>, f)
           one == <<d>>
<1>1. n \in Nat /\ f \in Nat /\ i <= f /\ f <= n /\ DOMAIN cs = 1..n /\ one \in Seq(S) /\ Len(one) = 1 /\ one[1] = d
  BY LenProperties
<1>2. es \in Seq(S) /\ Placed(es, cs, i, one, f)
  <2>1. cs \in Seq(S) /\ one \in Seq(S) /\ i \in Nat /\ f \in Nat /\ i <= f /\ f <= Len(cs)
    BY <1>1
  <2>2. QED
    BY ONLY <2>1, EditIs
<1> HIDE DEF es, one
<1>3. /\ Len(es) = n
      /\ \A e \in 1..n :
           /\ e <= i => es[e] = cs[e]
           /\ e > i /\ e <= i + 1 => es[e] = one[e - i]
           /\ e > i + 1 => es[e] = cs[(e - (i + 1)) + f]
  <2>1. (i + 1) + (n - f) = n
    BY <1>1
  <2>2. QED
    BY <1>1, <1>2, <2>1 DEF Placed
<1>4. DOMAIN es = 1..n /\ es = [e \in 1..n |-> es[e]]
  BY <1>2, <1>3, LenProperties
<1>5. ASSUME NEW e \in 1..n PROVE es[e] = IF e = f THEN d ELSE cs[e]
  <2>1. CASE e = f
    <3>1. e > i /\ e <= i + 1 /\ e - i = 1
      BY <1>1, <2>1
    <3>2. QED
      BY <1>1, <1>3, <2>1, <3>1
  <2>2. CASE e # f /\ e <= i
    BY <1>3, <2>2
  <2>3. CASE e # f /\ e > i
    <3>1. e > i + 1 /\ (e - (i + 1)) + f = e
      BY <1>1, <2>3
    <3>2. QED
      BY <1>3, <2>3, <3>1
  <2>4. QED
    BY <1>1, <2>1, <2>2, <2>3
<1>6. QED
  <2>1. cs \in [1..n -> S] /\ cs = [e \in 1..n |-> cs[e]]
    BY <1>1, ElementOfSeq
  <2>2. [cs EXCEPT ![f] = d] = [e \in 1..n |-> IF e = f THEN d ELSE cs[e]]
    BY <1>1, <2>1
  <2>3. QED
    BY <1>4, <1>5, <2>2 DEF es, one

\* What an edit adds to the bytes of the text.
Gain(low, end, added) == Bytes(added) - (Weight(flat)[end] - Weight(flat)[low])

\* Chunks of the text that the edit makes, as replace has to leave them.
Replaced(es, low, end, added) ==
    /\ es \in Seq(Chunk) /\ es # <<>> /\ Good(es)
    /\ Holds(es, Between(flat, 0, low, added, end, Len(flat)))

\* The length and the bytes of Between.
Adds(w, t, a, b, m, c, d) ==
    /\ w \in Seq(Line) /\ Len(w) = ((b - a) + Len(m)) + (d - c)
    /\ Bytes(w) = ((Weight(t)[b] - Weight(t)[a]) + Bytes(m)) + (Weight(t)[d] - Weight(t)[c])
    /\ Weight(t)[a] \in Nat /\ Weight(t)[b] \in Nat /\ Weight(t)[c] \in Nat /\ Weight(t)[d] \in Nat

LEMMA BetweenAdds ==
    ASSUME NEW t \in Seq(Line), NEW m \in Seq(Line),
           NEW a \in Nat, NEW b \in Nat, NEW c \in Nat, NEW d \in Nat,
           a <= b, b <= c, c <= d, d <= Len(t), NEW w, w = Between(t, a, b, m, c, d)
    PROVE  Adds(w, t, a, b, m, c, d)
<1>1. /\ Between(t, a, b, m, c, d) \in Seq(Line)
      /\ Len(Between(t, a, b, m, c, d)) = ((b - a) + Len(m)) + (d - c)
      /\ Bytes(Between(t, a, b, m, c, d)) = ((Weight(t)[b] - Weight(t)[a]) + Bytes(m)) + (Weight(t)[d] - Weight(t)[c])
      /\ Weight(t)[a] \in Nat /\ Weight(t)[b] \in Nat /\ Weight(t)[c] \in Nat /\ Weight(t)[d] \in Nat
  BY BetweenIs, ZenonT(60)
<1>2. QED
  BY <1>1 DEF Adds

(* What an edit makes of the text, and of its bytes. *)
LEMMA BytesReplaced ==
    ASSUME NEW at, NEW low, NEW end, Around(at, low, end), NEW added \in Seq(Line)
    PROVE  LET new == Between(flat, 0, low, added, end, Len(flat))
           IN /\ new \in Seq(Line) /\ Len(new) = (low + Len(added)) + (Len(flat) - end)
              /\ Bytes(new) = Bytes(flat) + Gain(low, end, added)
<1> DEFINE m == Len(flat)
           W == Weight(flat)
           new == Between(flat, 0, low, added, end, m)
           z == 0
<1>1. /\ flat \in Seq(Line) /\ z \in Nat /\ low \in Nat /\ end \in Nat /\ m \in Nat
      /\ z <= low /\ low <= end /\ end <= m /\ m <= Len(flat)
  <2>1. flat \in Seq(Line) /\ low \in Nat /\ end \in Nat /\ low <= end /\ end <= m
    BY TilesFacts DEF Around
  <2>2. m \in Nat
    BY <2>1, LenProperties
  <2>3. QED
    BY <2>1, <2>2
<1>2. /\ Between(flat, z, low, added, end, m) \in Seq(Line)
      /\ Len(Between(flat, z, low, added, end, m)) = ((low - z) + Len(added)) + (m - end)
      /\ Bytes(Between(flat, z, low, added, end, m)) = ((W[low] - W[z]) + Bytes(added)) + (W[m] - W[end])
      /\ W[z] \in Nat /\ W[low] \in Nat /\ W[end] \in Nat /\ W[m] \in Nat
  <2> HIDE DEF z, m
  <2>1. QED
    BY <1>1, BetweenIs, ZenonT(60)
<1>3. Bytes(flat) = W[m] /\ W[z] = 0
  BY <1>1, BytesOfAll
<1>4. Bytes(added) \in Nat /\ Len(added) \in Nat
  BY BytesIs, LenProperties
<1>5. Gain(low, end, added) = Bytes(added) - (W[end] - W[low])
  BY DEF Gain
<1> HIDE DEF W
<1>6. new = Between(flat, z, low, added, end, m) /\ low - z = low
  BY <1>1
<1> HIDE DEF new, z, m
<1>7. new \in Seq(Line) /\ Len(new) = (low + Len(added)) + (m - end)
      /\ Bytes(new) = ((W[low] - W[z]) + Bytes(added)) + (W[m] - W[end])
  BY <1>2, <1>6
<1>8. Bytes(new) = Bytes(flat) + Gain(low, end, added)
  <2>1. Bytes(new) = ((W[low] - 0) + Bytes(added)) + (Bytes(flat) - W[end])
    BY <1>3, <1>7
  <2>2. W[low] \in Nat /\ W[end] \in Nat /\ Bytes(flat) \in Nat /\ Bytes(added) \in Nat
    BY <1>2, <1>3, <1>4
  <2>3. QED
    BY ONLY <1>5, <2>1, <2>2
<1>9. QED
  BY <1>7, <1>8 DEF new, m

(* replaceWithin makes the new text, with the total it notes. *)
LEMMA WithinIs ==
    ASSUME NEW at, NEW low, NEW end, Around(at, low, end), NEW added \in Seq(Line), Good(chunks),
           NEW s, s = Find(low, end), Fits(s, added), NEW es, es = Within(s, added)
    PROVE  /\ Replaced(es, low, end, added)
           /\ es[s.first].bytes - chunks[s.first].bytes \in {Gain(low, end, added)}
<1> DEFINE n == Len(chunks)
           f == s.first
           i == f - 1
           W == Weight(flat)
           x == at[i]
           y == at[f]
           p == low - x
           q == end - x
           c == chunks[f]
           removed == SubSeq(c.lines, p + 1, q)
           edited == Kept(s, added)
           more == c.bytes + Bytes(added) - Bytes(removed)
           d == IF Len(edited) <= c.cap
                THEN [c EXCEPT !.lines = edited, !.bytes = more]
                ELSE [c EXCEPT !.lines = edited, !.bytes = more, !.array = FreshArray, !.from = 0, !.cap = MaxLines]
<1>1. /\ Tiles(chunks, flat, at) /\ n \in Nat /\ chunks \in Seq(Chunk) /\ flat \in Seq(Line)
      /\ chunks # <<>> /\ \A k \in 1..n : chunks[k] \in Chunk
      /\ \A k \in 0..n : at[k] \in Nat /\ at[k] <= Len(flat)
  BY TilesFacts DEF Around
<1>2. low \in Nat /\ end \in Nat /\ low <= end /\ end <= Len(flat)
  BY DEF Around
<1>3. /\ s.top = low /\ s.end = end /\ f \in 1..n /\ s.last = f
      /\ s.firstStart = x /\ s.lastStart = x
      /\ x <= low /\ end <= y
  <2>1. /\ s.top = low /\ s.end = end
        /\ s.first \in 1..Len(chunks) /\ s.firstStart = at[s.first - 1] /\ s.lastStart = at[s.last - 1]
        /\ at[s.first - 1] <= low /\ end <= at[s.last]
    BY <1>1, <1>2, FindIs
  <2>2. s.first = s.last
    BY DEF Fits
  <2>3. QED
    BY <2>1, <2>2
<1> HIDE DEF n, f
<1>4. f \in Nat /\ i \in Nat /\ i + 1 = f /\ i \in 0..n /\ f \in 0..n /\ f \in 1..n /\ i <= f /\ i < f /\ f <= n
  BY <1>1, <1>3
<1>5. /\ x \in Nat /\ y \in Nat /\ x <= low /\ low <= end /\ end <= y /\ y <= Len(flat)
      /\ x = at[f-1] /\ x = at[i] /\ y = at[f]
  BY <1>1, <1>2, <1>3, <1>4
<1>6. p \in Nat /\ q \in Nat /\ x + p = low /\ x + q = end /\ p = low - x /\ q = end - x
  BY ONLY <1>2, <1>5
<1> HIDE DEF i, x, y, p, q
<1>7. c \in Chunk /\ Size(c) = y - x /\ c.lines = SubSeq(flat, x + 1, y)
  <2>1. /\ chunks[f].lines = SubSeq(flat, at[f-1] + 1, at[f])
        /\ Size(chunks[f]) = at[f] - at[f-1] /\ chunks[f] \in Chunk
    BY <1>1, <1>4, TilesFacts DEF n
  <2>2. QED
    BY <1>5, <2>1
(* The lines and the bytes of the chunk after the edit. *)
<1>8. edited = Between(flat, x, low, added, end, y)
  <2>1. Kept(Find(low, end), added)
        = Between(flat, at[Find(low, end).first - 1], low, added, end, at[Find(low, end).last])
    BY KeptIs
  <2>2. QED
    BY <1>3, <1>5, <2>1 DEF f
<1>9. /\ edited \in Seq(Line) /\ Len(edited) = ((low - x) + Len(added)) + (y - end)
      /\ Bytes(edited) = ((W[low] - W[x]) + Bytes(added)) + (W[y] - W[end])
      /\ W[x] \in Nat /\ W[low] \in Nat /\ W[end] \in Nat /\ W[y] \in Nat
  <2> HIDE DEF edited
  <2> HIDE DEF edited
  <2>1. flat \in Seq(Line) /\ x \in Nat /\ low \in Nat /\ end \in Nat /\ y \in Nat
        /\ x <= low /\ low <= end /\ end <= y /\ y <= Len(flat)
        /\ added \in Seq(Line) /\ edited = Between(flat, x, low, added, end, y)
    BY <1>1, <1>2, <1>5, <1>8
  <2>2. Adds(edited, flat, x, low, added, end, y)
    BY ONLY <2>1, BetweenAdds
  <2>3. QED
    BY <2>2 DEF Adds
<1>10. Bytes(removed) = W[end] - W[low]
  <2>1. /\ Tiles(chunks, flat, at) /\ f \in 1..Len(chunks) /\ x = at[f-1] /\ y = at[f]
        /\ low \in Nat /\ end \in Nat /\ x <= low /\ low <= end /\ end <= y
        /\ p \in Nat /\ q \in Nat /\ x + p = low /\ x + q = end
    BY <1>1, <1>2, <1>4, <1>5, <1>6 DEF n
  <2> HIDE DEF removed, c, edited
  <2>2. LinesOf(chunks[f].lines, p, q) = LinesOf(flat, low, end)
    BY ONLY <2>1, ChunkSlice, SMTT(40)
  <2>3. removed = SubSeq(flat, low + 1, end)
    BY <2>2 DEF LinesOf, removed, c
  <2>4. QED
    BY <1>1, <1>2, <2>3, BytesOfSlice
<1>11. c.bytes = W[y] - W[x]
  <2>1. c.bytes = Bytes(c.lines)
    BY <1>4 DEF Good, Honest, n
  <2>2. flat \in Seq(Line) /\ x \in Nat /\ y \in Nat /\ x <= y /\ y <= Len(flat)
    BY <1>1, <1>2, <1>5
  <2>3. Bytes(SubSeq(flat, x + 1, y)) = W[y] - W[x]
    BY <2>2, BytesOfSlice
  <2>4. QED
    BY <1>7, <2>1, <2>3
<1>12. Bytes(added) \in Nat /\ Len(added) \in Nat /\ Bytes(edited) \in Nat /\ Len(edited) \in Nat
  BY <1>9, BytesIs, LenProperties
<1>13. /\ d.lines = edited /\ d.bytes = more /\ d \in Chunk
       /\ d.array = FreshArray \/ (d.array = c.array /\ d.from = c.from /\ d.cap = c.cap)
  <2>1. more = Bytes(edited)
    BY <1>9, <1>10, <1>11, <1>12
  <2>2. FreshArray \in Nat /\ MaxLines \in Nat /\ 0 \in Nat
    BY <1>1, FreshIs, TextAssumption
  <2> HIDE DEF c, edited, more
  <2>3. more \in Nat /\ edited \in Seq(Line)
    BY <1>9, <1>12, <2>1
  <2>4. CASE Len(edited) <= c.cap
    <3>1. d = [c EXCEPT !.lines = edited, !.bytes = more]
      BY <2>4
    <3>2. QED
      BY <1>7, <2>3, <3>1 DEF Chunk
  <2>5. CASE ~(Len(edited) <= c.cap)
    <3>1. d = [c EXCEPT !.lines = edited, !.bytes = more, !.array = FreshArray, !.from = 0, !.cap = MaxLines]
      BY <2>5
    <3>2. QED
      BY <1>7, <2>2, <2>3, <3>1 DEF Chunk
  <2>6. QED
    BY <2>4, <2>5
<1>14. more = Bytes(edited) /\ more - c.bytes = Gain(low, end, added)
  BY <1>9, <1>10, <1>11, <1>12, SMTT(40) DEF Gain
<1>15. es = [chunks EXCEPT ![f] = d]
  <2>1. edited = SubSeq(c.lines, 1, p) \o added \o SubSeq(c.lines, q + 1, Size(c))
    BY <1>3, <1>6 DEF Kept, f
  <2>2. QED
    BY <1>3, <1>6, <2>1 DEF Within, f
<1> DEFINE new == <<d>>
<1>16. Len(edited) \in 1..MaxLines /\ (n > 1 => Len(edited) >= Half)
  <2>1. /\ (Size(c) - (end - low)) + Len(added) \in 1..MaxLines
        /\ n > 1 => (Size(c) - (end - low)) + Len(added) >= Half
    BY <1>3 DEF Fits, f, n
  <2>2. (Size(c) - (end - low)) + Len(added) = Len(edited)
    <3>1. /\ Size(c) = y - x /\ Len(edited) = ((low - x) + Len(added)) + (y - end) /\ Len(added) \in Nat
          /\ x \in Nat /\ y \in Nat /\ low \in Nat /\ end \in Nat
      BY <1>2, <1>5, <1>7, <1>9, <1>12
    <3> HIDE DEF edited, c
    <3>2. QED
      BY ONLY <3>1
  <2>3. QED
    BY <2>1, <2>2
<1> HIDE DEF d, more, edited, removed
<1>17. Size(d) = Len(edited) /\ d.bytes = Bytes(d.lines) /\ d.lines = Between(flat, x, low, added, end, y)
  BY <1>8, <1>13, <1>14 DEF Size
<1>18. /\ new \in Seq(Chunk) /\ Len(new) = 1 /\ new[1] = d
       /\ Honest(new) /\ Apart(new) /\ Sized(new, 1) /\ (n > 1 => Sized(new, Half))
  BY <1>12, <1>13, <1>16, <1>17, TextAssumption DEF Honest, Apart, Sized
<1>19. es = Edited(chunks, i, new, f)
  <2>1. chunks \in Seq(Chunk) /\ f \in 1..Len(chunks) /\ i \in Nat /\ i + 1 = f /\ d \in Chunk
    BY <1>1, <1>4, <1>13 DEF n
  <2>2. [chunks EXCEPT ![f] = d] = Edited(chunks, i, <<d>>, f)
    BY ONLY <2>1, OneIsEdited
  <2>3. QED
    BY <1>15, <2>2
<1> HIDE DEF c
<1>20. Good(es)
  <2>1. ASSUME NEW e \in 1..n, e <= i \/ e > f, NEW k \in 1..Len(new) PROVE Clear(chunks[e], new[k])
    <3>1. e # f /\ new[k] = d
      BY <1>4, <1>18, <2>1
    <3>2. Clear(chunks[e], c)
      BY <1>4, <3>1 DEF Good, Apart, c, n
    <3>3. chunks[e].array # FreshArray
      BY <1>1, FreshIs DEF n
    <3>4. Clear(chunks[e], d)
      BY <1>13, <3>2, <3>3 DEF Clear
    <3>5. QED
      BY <3>1, <3>4
  <2> HIDE DEF new
  <2>2. /\ chunks \in Seq(Chunk) /\ new \in Seq(Chunk) /\ Good(chunks) /\ Honest(new) /\ Apart(new)
        /\ i \in Nat /\ f \in Nat /\ i < f /\ f <= Len(chunks) /\ es = Edited(chunks, i, new, f)
        /\ Sized(new, 1)
    BY <1>1, <1>4, <1>18, <1>19 DEF n
  <2>3. i > 0 \/ f < Len(chunks) \/ Len(new) > 1 => Sized(new, Half)
    <3>1. i > 0 \/ f < n \/ Len(new) > 1 => n > 1
      BY <1>1, <1>4, <1>18
    <3>2. QED
      BY <1>18, <3>1 DEF n
  <2>4. \A e \in 1..Len(chunks) : e <= i \/ e > f => \A k \in 1..Len(new) : Clear(chunks[e], new[k])
    BY <2>1 DEF n
  <2>5. QED
    BY ONLY <2>2, <2>3, <2>4, EditGood
<1>21. Holds(es, Between(flat, 0, low, added, end, Len(flat)))
  <2>1. Holds(new, Between(flat, x, low, added, end, y))
    BY <1>13, <1>17, TilesOne
  <2> HIDE DEF new
  <2>2. /\ Tiles(chunks, flat, at) /\ i \in Nat /\ f \in Nat /\ i <= f /\ f <= Len(chunks)
        /\ x = at[i] /\ y = at[f] /\ low \in Nat /\ end \in Nat /\ x <= low /\ low <= end /\ end <= y
        /\ added \in Seq(Line)
    BY <1>1, <1>2, <1>4, <1>5 DEF n
  <2>3. Holds(Edited(chunks, i, new, f), Between(flat, 0, low, added, end, Len(flat)))
    BY ONLY <2>1, <2>2, InPlace
  <2>4. QED
    BY <1>19, <2>3
<1>22. es \in Seq(Chunk) /\ es # <<>> /\ es[f] = d
  BY <1>1, <1>4, <1>13, <1>15 DEF n
<1>23. es[f].bytes - chunks[f].bytes = Gain(low, end, added)
  BY <1>13, <1>14, <1>22 DEF c
<1>24. QED
  BY <1>20, <1>21, <1>22, <1>23 DEF Replaced, f

(* A rebuild makes the new text, with the total it notes. *)
LEMMA RebuiltIs ==
    ASSUME NEW at, NEW low, NEW end, Around(at, low, end), NEW added \in Seq(Line), Good(chunks),
           (low + Len(added)) + (Len(flat) - end) > 0,
           NEW r, r = Region(Find(low, end), added), NEW es, es = Rebuilt(r)
    PROVE  /\ Replaced(es, low, end, added)
           /\ BytesOf(Split(r.lines, 1)) - BytesOf(SubSeq(chunks, r.first, r.last)) \in {Gain(low, end, added)}
           /\ BytesOf(Split(r.lines, 1)) \in Int /\ BytesOf(SubSeq(chunks, r.first, r.last)) \in Int
<1> DEFINE n == Len(chunks)
           i == r.first - 1
           j == r.last
           W == Weight(flat)
           x == at[i]
           y == at[j]
           ls == r.lines
           new == Split(ls, FreshArray)
<1>1. /\ Tiles(chunks, flat, at) /\ n \in Nat /\ chunks \in Seq(Chunk) /\ flat \in Seq(Line)
      /\ chunks # <<>> /\ \A k \in 1..n : chunks[k] \in Chunk
      /\ \A k \in 0..n : at[k] \in Nat /\ at[k] <= Len(flat)
      /\ at[0] = 0 /\ at[n] = Len(flat) /\ Len(flat) \in Nat
  BY TilesFacts DEF Around
<1>2. low \in Nat /\ end \in Nat /\ low <= end /\ end <= Len(flat)
  BY DEF Around
<1>3. /\ r.first \in 1..n /\ r.last \in r.first..n
      /\ at[r.first - 1] <= low /\ end <= at[r.last]
      /\ r.lines = Between(flat, at[r.first - 1], low, added, end, at[r.last])
      /\ Len(r.lines) >= Half \/ (r.first = 1 /\ r.last = n)
  <2>1. Balanced(chunks)
    <3>1. Sized(chunks, 1) /\ (Len(chunks) > 1 => Sized(chunks, Half))
      BY DEF Good
    <3>2. \A k \in 1..n : Size(chunks[k]) \in Nat
      BY <1>1, LenProperties DEF Size, Chunk
    <3>3. QED
      BY <3>1, <3>2, TextAssumption DEF Balanced, Sized
  <2>2. QED
    BY <2>1, RegionIs
<1> HIDE DEF n
<1>4. i \in Nat /\ j \in Nat /\ i + 1 = r.first /\ i < j /\ i <= j /\ j <= n /\ i \in 0..n /\ j \in 0..n
  <2> DEFINE p == r.first
             q == r.last
  <2>1. n \in Nat /\ p \in 1..n /\ q \in p..n
    BY <1>1, <1>3
  <2> HIDE DEF p, q
  <2>2. /\ p - 1 \in Nat /\ q \in Nat /\ (p - 1) + 1 = p /\ p - 1 < q /\ p - 1 <= q /\ q <= n
        /\ p - 1 \in 0..n /\ q \in 0..n
    BY ONLY <2>1
  <2>3. QED
    BY <2>2 DEF p, q
<1>5. /\ x \in Nat /\ y \in Nat /\ x <= low /\ low <= end /\ end <= y /\ y <= Len(flat) /\ x <= y
      /\ x = at[i] /\ y = at[j]
  BY <1>1, <1>2, <1>3, <1>4, SMTT(40)
<1>6. Len(ls) >= Half \/ (x = 0 /\ y = Len(flat))
  BY <1>1, <1>3
<1>7. ls = Between(flat, x, low, added, end, y)
  BY <1>3
<1>8. es = Edited(chunks, i, new, j)
  BY DEF Rebuilt, Edited
<1> HIDE DEF i, j, x, y, ls
<1>9. /\ ls \in Seq(Line) /\ Len(ls) = ((low - x) + Len(added)) + (y - end)
      /\ Bytes(ls) = ((W[low] - W[x]) + Bytes(added)) + (W[y] - W[end])
      /\ W[x] \in Nat /\ W[low] \in Nat /\ W[end] \in Nat /\ W[y] \in Nat
  <2> HIDE DEF ls
  <2>1. flat \in Seq(Line) /\ x \in Nat /\ low \in Nat /\ end \in Nat /\ y \in Nat
        /\ x <= low /\ low <= end /\ end <= y /\ y <= Len(flat)
        /\ added \in Seq(Line) /\ ls = Between(flat, x, low, added, end, y)
    BY <1>1, <1>2, <1>5, <1>7
  <2>2. Adds(ls, flat, x, low, added, end, y)
    BY ONLY <2>1, BetweenAdds
  <2>3. QED
    BY <2>2 DEF Adds
<1>10. Len(ls) > 0 /\ Len(ls) \in Nat /\ Half \in Nat
  <2>1. Len(ls) \in Nat /\ Len(added) \in Nat
    BY <1>9, LenProperties
  <2>2. Half \in Nat /\ Half >= 1
    BY TextAssumption DEF Half
  <2>3. CASE Len(ls) >= Half
    BY <2>1, <2>2, <2>3
  <2>4. CASE x = 0 /\ y = Len(flat)
    <3>1. Len(ls) = (low + Len(added)) + (Len(flat) - end)
      BY <1>2, <1>9, <2>4
    <3>2. QED
      BY <2>1, <2>2, <3>1
  <2>5. QED
    BY <1>6, <2>3, <2>4
<1>11. FreshArray \in Nat /\ \A k \in 1..n : chunks[k].array # FreshArray
  BY <1>1, FreshIs DEF n
<1>12. Holds(new, ls)
  BY <1>9, <1>10, <1>11, TilesSplit
<1>13. /\ Good(new) /\ Len(new) > 0
       /\ Len(ls) >= Half => Sized(new, Half)
       /\ Len(ls) < Half => Len(new) = 1
       /\ \A k \in 1..Len(new) : new[k].array = FreshArray
  BY <1>9, <1>10, <1>11, SplitGood
<1> HIDE DEF new
<1>14. new \in Seq(Chunk)
  BY <1>12 DEF Holds, Tiles
<1>15. Good(es)
  <2>1. /\ chunks \in Seq(Chunk) /\ new \in Seq(Chunk) /\ Good(chunks) /\ Honest(new) /\ Apart(new)
        /\ i \in Nat /\ j \in Nat /\ i < j /\ j <= Len(chunks) /\ es = Edited(chunks, i, new, j)
        /\ Sized(new, 1)
    BY <1>1, <1>4, <1>8, <1>13, <1>14 DEF Good, n
  <2>2. i > 0 \/ j < Len(chunks) \/ Len(new) > 1 => Sized(new, Half)
    <3>1. CASE Len(ls) >= Half
      BY <1>13, <3>1
    <3>2. CASE ~(Len(ls) >= Half)
      <4>1. Len(new) = 1
        BY <1>10, <1>13, <3>2
      <4>2. i = 0 /\ j = n
        BY <1>3, <3>2 DEF i, j, ls
      <4>3. QED
        BY <1>1, <4>1, <4>2 DEF n
    <3>3. QED
      BY <3>1, <3>2
  <2>3. \A e \in 1..Len(chunks) : e <= i \/ e > j => \A k \in 1..Len(new) : Clear(chunks[e], new[k])
    BY <1>11, <1>13 DEF Clear, n
  <2>4. QED
    BY ONLY <2>1, <2>2, <2>3, EditGood
<1>16. Holds(es, Between(flat, 0, low, added, end, Len(flat)))
  <2>1. Holds(new, Between(flat, x, low, added, end, y))
    BY <1>7, <1>12
  <2>2. /\ Tiles(chunks, flat, at) /\ i \in Nat /\ j \in Nat /\ i <= j /\ j <= Len(chunks)
        /\ x = at[i] /\ y = at[j] /\ low \in Nat /\ end \in Nat /\ x <= low /\ low <= end /\ end <= y
        /\ added \in Seq(Line)
    BY <1>1, <1>2, <1>4, <1>5 DEF n
  <2>3. Holds(Edited(chunks, i, new, j), Between(flat, 0, low, added, end, Len(flat)))
    BY ONLY <2>1, <2>2, InPlace
  <2>4. QED
    BY <1>8, <2>3
<1>17. es \in Seq(Chunk) /\ es # <<>>
  <2>1. chunks \in Seq(Chunk) /\ new \in Seq(Chunk) /\ i \in Nat /\ j \in Nat /\ i <= j /\ j <= Len(chunks)
        /\ es = Edited(chunks, i, new, j)
    BY <1>1, <1>4, <1>8, <1>14 DEF n
  <2>2. es \in Seq(Chunk) /\ Placed(es, chunks, i, new, j)
    BY ONLY <2>1, EditIs
  <2>3. Len(new) \in Nat /\ Len(new) > 0
    BY <1>13, <1>14, LenProperties
  <2>4. Len(es) > 0
    BY <1>1, <1>4, <2>2, <2>3 DEF Placed, n
  <2>5. QED
    BY <2>2, <2>4
(* The bytes. *)
<1>18. BytesOf(Split(ls, 1)) = Bytes(ls)
  <2>1. Holds(Split(ls, 1), ls) /\ Good(Split(ls, 1))
    BY <1>9, <1>10, TilesSplit, SplitGood
  <2>2. QED
    BY <2>1, Weighs DEF Good
<1>19. BytesOf(SubSeq(chunks, r.first, r.last)) = W[y] - W[x]
  <2> DEFINE part == SubSeq(chunks, i + 1, j)
  <2>1. Holds(part, SubSeq(flat, x + 1, y))
    <3>1. Tiles(chunks, flat, at) /\ i \in Nat /\ j \in Nat /\ i <= j /\ j <= Len(chunks)
      BY <1>1, <1>4 DEF n
    <3>2. Holds(SubSeq(chunks, i + 1, j), SubSeq(flat, at[i] + 1, at[j]))
      BY ONLY <3>1, TilesPart
    <3>3. QED
      BY <1>5, <3>2
  <2>2. Len(part) = j - i /\ \A k \in 1..j-i : part[k] = chunks[i + k]
    <3>1. chunks \in Seq(Chunk) /\ i \in Nat /\ j \in Nat /\ i <= j /\ j <= Len(chunks)
      BY <1>1, <1>4 DEF n
    <3>2. QED
      BY ONLY <3>1, Slice
  <2> HIDE DEF part
  <2>3. Honest(part)
    <3> SUFFICES ASSUME NEW k \in 1..j-i PROVE part[k].bytes = Bytes(part[k].lines)
      BY <2>2 DEF Honest
    <3>1. part[k] = chunks[i + k] /\ i + k \in 1..n
      BY <1>1, <1>4, <2>2
    <3>2. QED
      BY <3>1 DEF Good, Honest, n
  <2>4. BytesOf(part) = Bytes(SubSeq(flat, x + 1, y))
    BY <2>1, <2>3, Weighs
  <2>5. Bytes(SubSeq(flat, x + 1, y)) = W[y] - W[x]
    BY <1>1, <1>5, BytesOfSlice
  <2>6. part = SubSeq(chunks, r.first, r.last)
    BY <1>4 DEF part, j
  <2>7. QED
    BY <2>4, <2>5, <2>6
<1>20. BytesOf(Split(ls, 1)) - BytesOf(SubSeq(chunks, r.first, r.last)) = Gain(low, end, added)
  <2>1. Bytes(added) \in Nat
    BY BytesIs
  <2>2. QED
    BY <1>9, <1>18, <1>19, <2>1, SMTT(40) DEF Gain
<1>21. BytesOf(Split(ls, 1)) \in Int /\ BytesOf(SubSeq(chunks, r.first, r.last)) \in Int
  BY <1>9, <1>18, <1>19, BytesIs
<1>22. QED
  BY <1>15, <1>16, <1>17, <1>20, <1>21 DEF Replaced, ls

-----------------------------------------------------------------------------
(* The invariant: the chunks tile the text, and replace left them so.       *)

TextIInv ==
    /\ chunks \in Seq(Chunk) /\ chunks # <<>> /\ Good(chunks)
    /\ Holds(chunks, flat)
    /\ lines = Len(flat) /\ bytes = Bytes(flat) /\ promised = bytes

LEMMA TextInitIInv == TextInit => TextIInv
<1> SUFFICES ASSUME TextInit PROVE TextIInv
  OBVIOUS
<1>1. flat \in Seq(Line) /\ Len(flat) > 0 /\ 1 \in Nat
  BY TextAssumption DEF TextInit
<1>2. chunks = Split(flat, 1) /\ lines = Len(flat) /\ bytes = BytesOf(chunks) /\ promised = bytes
  BY DEF TextInit
<1>3. Holds(Split(flat, 1), flat)
  BY <1>1, TilesSplit
<1>4. Good(Split(flat, 1)) /\ Len(Split(flat, 1)) > 0
  BY <1>1, SplitGood
<1>5. Holds(chunks, flat) /\ Good(chunks) /\ Len(chunks) > 0
  BY <1>2, <1>3, <1>4
<1>6. chunks \in Seq(Chunk) /\ chunks # <<>>
  BY <1>5 DEF Holds, Tiles
<1>7. BytesOf(chunks) = Bytes(flat)
  BY <1>5, Weighs DEF Good
<1>8. QED
  BY <1>2, <1>5, <1>6, <1>7 DEF TextIInv

LEMMA TextNextIInv ==
    ASSUME TextIInv, NEW low \in 0..StateLines, NEW end \in 0..StateLines, NEW stored \in Stored,
           Replace(low, end, stored)
    PROVE  TextIInv'
<1> DEFINE size == lines - (end - low) + Len(stored)
           added == IF size = 0 THEN <<EmptyLine>> ELSE stored
           s == Find(low, end)
           r == Region(s, added)
           m == Len(flat)
           W == Weight(flat)
           new == Between(flat, 0, low, added, end, m)
<1>1. /\ Good(chunks) /\ Holds(chunks, flat) /\ chunks # <<>>
      /\ lines = m /\ bytes = Bytes(flat) /\ promised = bytes
  BY DEF TextIInv
<1>2. PICK at : Tiles(chunks, flat, at)
  BY <1>1 DEF Holds
<1>3. flat \in Seq(Line) /\ m \in Nat
  BY <1>2, TilesFacts
<1>4. /\ low <= end /\ end <= lines
      /\ promised' = IF size = 0 THEN 1 ELSE bytes - BytesIn(s) + Bytes(stored)
      /\ chunks' = IF Fits(s, added) THEN Within(s, added) ELSE Rebuilt(r)
      /\ bytes' = IF Fits(s, added)
                  THEN bytes + (chunks'[s.first].bytes - chunks[s.first].bytes)
                  ELSE bytes + BytesOf(Split(r.lines, 1)) - BytesOf(SubSeq(chunks, r.first, r.last))
      /\ lines' = lines - (end - low) + Len(added)
      /\ flat' = SubSeq(flat, 1, low) \o added \o SubSeq(flat, end + 1, m)
  BY DEF Replace
<1>5. low \in Nat /\ end \in Nat /\ low <= end /\ end <= m
  BY <1>1, <1>4, TextAssumption
<1>6. Around(at, low, end)
  BY <1>1, <1>2, <1>5 DEF Around
<1>7. stored \in Seq(Line) /\ <<EmptyLine>> \in Seq(Line) /\ Len(<<EmptyLine>>) = 1 /\ Len(stored) \in Nat
  BY TextAssumption
<1>8. added \in Seq(Line) /\ size = (low + Len(stored)) + (m - end)
  BY <1>1, <1>3, <1>5, <1>7
<1>9. (low + Len(added)) + (m - end) > 0 /\ Len(added) \in Nat
  <2>1. CASE size = 0
    BY <1>3, <1>5, <1>7, <2>1
  <2>2. CASE size # 0
    <3>1. added = stored
      BY <2>2
    <3>2. QED
      BY <1>3, <1>5, <1>7, <1>8, <2>2, <3>1
  <2>3. QED
    BY <2>1, <2>2
<1>10. flat' = new
  <2>1. 0 + 1 = 1
    OBVIOUS
  <2>2. QED
    BY <1>4, <2>1 DEF Between, LinesOf
<1> HIDE DEF added, new, m, size, s, r
<1>11. new \in Seq(Line) /\ Len(new) = (low + Len(added)) + (m - end) /\ Bytes(new) = Bytes(flat) + Gain(low, end, added)
  BY <1>6, <1>8, BytesReplaced, ZenonT(60) DEF new, m
<1>12. Replaced(chunks', low, end, added) /\ bytes' = bytes + Gain(low, end, added)
  <2>1. bytes \in Nat /\ Bytes(added) \in Nat /\ W[end] \in Nat /\ W[low] \in Nat
    BY <1>1, <1>3, <1>5, <1>8, BytesIs, BytesOfSlice DEF m
  <2>2. CASE Fits(s, added)
    <3> DEFINE es == Within(s, added)
    <3>1. Around(at, low, end) /\ added \in Seq(Line) /\ Good(chunks) /\ s = Find(low, end) /\ Fits(s, added)
          /\ es = Within(s, added)
      BY <1>1, <1>6, <1>8, <2>2 DEF s
    <3> HIDE DEF es
    <3>2. /\ Replaced(es, low, end, added)
          /\ es[s.first].bytes - chunks[s.first].bytes \in {Gain(low, end, added)}
      BY ONLY <3>1, WithinIs
    <3>3. chunks' = es
      BY <1>4, <2>2 DEF es
    <3>4. bytes' = bytes + (chunks'[s.first].bytes - chunks[s.first].bytes)
      BY <1>4, <2>2
    <3>5. QED
      BY <3>2, <3>3, <3>4
  <2>3. CASE ~Fits(s, added)
    <3> DEFINE es == Rebuilt(r)
               more == BytesOf(Split(r.lines, 1))
               less == BytesOf(SubSeq(chunks, r.first, r.last))
    <3>1. Around(at, low, end) /\ added \in Seq(Line) /\ Good(chunks) /\ r = Region(Find(low, end), added)
          /\ (low + Len(added)) + (Len(flat) - end) > 0 /\ es = Rebuilt(r)
      BY <1>1, <1>6, <1>8, <1>9 DEF r, s, m
    <3> HIDE DEF es
    <3>2. /\ Replaced(es, low, end, added) /\ more - less \in {Gain(low, end, added)}
          /\ more \in Int /\ less \in Int
      BY ONLY <3>1, RebuiltIs
    <3>3. chunks' = es
      BY <1>4, <2>3 DEF es
    <3>4. bytes' = bytes + more - less
      BY <1>4, <2>3
    <3>5. QED
      BY <2>1, <3>2, <3>3, <3>4
  <2>4. QED
    BY <2>2, <2>3
<1>13. chunks' \in Seq(Chunk) /\ chunks' # <<>> /\ Good(chunks') /\ Holds(chunks', flat')
  BY <1>10, <1>12 DEF Replaced, new, m
<1>14. bytes' = Bytes(flat')
  <2>1. Bytes(flat') = Bytes(new)
    BY <1>10
  <2>2. Bytes(new) = bytes + Gain(low, end, added)
    BY <1>1, <1>11
  <2>3. QED
    BY <1>12, <2>1, <2>2
<1>15. lines' = Len(flat')
  <2>1. lines' = lines - (end - low) + Len(added) /\ lines = m
    BY <1>1, <1>4
  <2>2. Len(flat') = (low + Len(added)) + (m - end)
    BY <1>10, <1>11
  <2>3. QED
    BY <1>3, <1>5, <1>9, <2>1, <2>2
<1>16. promised' = bytes'
  <2>1. W[end] \in Nat /\ W[low] \in Nat /\ Bytes(added) \in Nat /\ bytes \in Nat
    BY <1>1, <1>3, <1>5, <1>8, BytesIs, BytesOfSlice DEF m
  <2>2. CASE size = 0
    <3>1. added = <<EmptyLine>> /\ low = 0 /\ end = m
      BY <1>3, <1>5, <1>7, <1>8, <2>2 DEF added
    <3>2. Bytes(added) = 1
      <4>1. DOMAIN added = 1..1 /\ added[1] = EmptyLine /\ Len(added) = 1
        BY <3>1
      <4>2. {k \in DOMAIN added : added[k] # EmptyLine} = {}
        BY <4>1
      <4>3. QED
        BY <4>1, <4>2, FS_EmptySet DEF Bytes
    <3>3. W[end] = bytes /\ W[low] = 0
      BY <1>1, <1>3, <3>1, BytesOfAll DEF m
    <3>4. Gain(low, end, added) = 1 - (bytes - 0)
      BY <3>2, <3>3 DEF Gain
    <3>5. promised' = 1
      BY <1>4, <2>2
    <3>6. QED
      BY <1>12, <2>1, <3>4, <3>5
  <2>3. CASE size # 0
    <3>1. added = stored
      BY <2>3 DEF added
    <3>2. BytesIn(s) = W[end] - W[low]
      BY <1>1, <1>6, BytesInIs DEF s, Good
    <3>3. promised' = bytes - BytesIn(s) + Bytes(stored)
      BY <1>4, <2>3
    <3> HIDE DEF W
    <3>4. QED
      BY <1>12, <2>1, <3>1, <3>2, <3>3 DEF Gain, W
  <2>4. QED
    BY <2>2, <2>3
<1>17. QED
  BY <1>13, <1>14, <1>15, <1>16 DEF TextIInv

LEMMA TextIInvariant == TextSpec => []TextIInv
<1>1. TextIInv /\ [TextNext]_textVars => TextIInv'
  <2> SUFFICES ASSUME TextIInv, [TextNext]_textVars PROVE TextIInv'
    OBVIOUS
  <2>1. CASE TextNext
    <3>1. PICK low \in 0..StateLines, end \in 0..StateLines, stored \in Stored : Replace(low, end, stored)
      BY <2>1 DEF TextNext
    <3>2. QED
      BY <3>1, TextNextIInv
  <2>2. CASE UNCHANGED textVars
    BY <2>2 DEF textVars, TextIInv
  <2>3. QED
    BY <2>1, <2>2
<1>2. QED
  BY <1>1, TextInitIInv, PTL DEF TextSpec

LEMMA TextIInvGivesText == TextIInv => ChunksHoldTheText
<1> SUFFICES ASSUME TextIInv PROVE ChunksHoldTheText
  OBVIOUS
<1> DEFINE n == Len(chunks)
<1>1. /\ chunks \in Seq(Chunk) /\ chunks # <<>> /\ Good(chunks) /\ Holds(chunks, flat)
      /\ lines = Len(flat) /\ bytes = Bytes(flat) /\ promised = bytes
  BY DEF TextIInv
<1>2. n \in Nat /\ DOMAIN chunks = 1..n /\ \A i \in 1..n : chunks[i] \in Chunk
  BY <1>1, LenProperties, ElementOfSeq
<1>3. FlattenSeq([i \in DOMAIN chunks |-> chunks[i].lines]) = flat
  BY <1>1, TilesFlatten
<1>4. TotalsAgree
  BY <1>1, <1>2 DEF TotalsAgree, Good, Honest
<1>5. ChunksStayBalanced
  <2> SUFFICES ASSUME NEW i \in 1..n
               PROVE  Size(chunks[i]) \in (IF n > 1 THEN Half ELSE 1)..MaxLines
    BY <1>2 DEF ChunksStayBalanced
  <2>1. Size(chunks[i]) \in Nat
    BY <1>2, LenProperties DEF Chunk, Size
  <2>2. Size(chunks[i]) >= 1 /\ Size(chunks[i]) <= MaxLines /\ (n > 1 => Size(chunks[i]) >= Half)
    BY <1>1 DEF Good, Sized
  <2>3. QED
    BY <2>1, <2>2, TextAssumption
<1>6. NoCellIsShared
  BY <1>1, <1>2 DEF NoCellIsShared, Good, Apart, Clear
<1>7. QED
  BY <1>1, <1>3, <1>4, <1>5, <1>6 DEF ChunksHoldTheText

(* After any mix of edits in place and rebuilds (text.replace), the chunks   *)
(* are the text that the same edits make of a flat sequence of lines, every  *)
(* total is that of the lines, the size applyEntry checks is the one it gets *)
(* and no edit in place can reach the cells of another chunk: for every      *)
(* chunk size, line limit and set of stored texts.                           *)
THEOREM TextIsHeld == TextSpec => []ChunksHoldTheText
BY TextIInvariant, TextIInvGivesText, PTL
-----------------------------------------------------------------------------
(* The greatest of some numbers.                                            *)

LEMMA MaxIs ==
    ASSUME NEW S \in SUBSET Nat, S # {}, NEW b \in Nat, \A x \in S : x <= b
    PROVE  Max(S) \in S /\ \A x \in S : x <= Max(S)
<1> DEFINE T == {b - x : x \in S}
<1>1. T \in SUBSET Nat /\ T # {}
  <2>1. \A x \in S : b - x \in Nat
    OBVIOUS
  <2>2. QED
    BY <2>1
<1>2. PICK n \in T : \A m \in T : n <= m
  <2> HIDE DEF T
  <2>1. QED
    BY <1>1, LeastNumber
<1>3. PICK y \in S : n = b - y
  BY <1>2
<1>4. \A x \in S : y >= x
  <2> SUFFICES ASSUME NEW x \in S PROVE y >= x
    OBVIOUS
  <2>1. b - x \in T
    OBVIOUS
  <2>2. b - y <= b - x
    BY <1>2, <1>3, <2>1
  <2>3. QED
    BY <2>2
<1>5. Max(S) \in S /\ \A x \in S : Max(S) >= x
  BY <1>3, <1>4 DEF Max
<1>6. QED
  BY <1>5

LEMMA Bounded ==
    ASSUME NEW y \in Nat, NEW z \in Int, NEW w, \A r \in y..z : w[r] \in Nat
    PROVE  \E b \in Nat : \A r \in y..z : w[r] <= b
<1> DEFINE S == {k \in Nat : \E b \in Nat : \A r \in y..z : r < y + k => w[r] <= b}
<1>1. 0 \in S
  OBVIOUS
<1>2. ASSUME NEW k \in Nat, k \in S PROVE k + 1 \in S
  <2>1. PICK b \in Nat : \A r \in y..z : r < y + k => w[r] <= b
    BY <1>2
  <2>2. \A r \in y..z : r < y + (k + 1) => r < y + k \/ r = y + k
    OBVIOUS
  <2>3. CASE y + k \in y..z
    <3>1. PICK d \in Nat : d = w[y + k]
      BY <2>3
    <3>2. PICK e \in Nat : b <= e /\ d <= e
      BY b <= b /\ d <= d /\ (b <= d \/ d <= b)
    <3>3. ASSUME NEW r \in y..z, r < y + (k + 1) PROVE w[r] <= e
      <4>1. w[r] \in Nat
        OBVIOUS
      <4>2. QED
        BY <2>1, <2>2, <3>1, <3>2, <3>3, <4>1
    <3>4. QED
      BY <3>3
  <2>4. CASE y + k \notin y..z
    BY <2>1, <2>2, <2>4
  <2>5. QED
    BY <2>3, <2>4
<1>3. Nat \subseteq S
  <2> HIDE DEF S
  <2>1. QED
    BY <1>1, <1>2, SetInduction
<1>4. CASE y <= z
  <2>1. (z + 1) - y \in Nat /\ y + ((z + 1) - y) = z + 1
    BY <1>4
  <2>2. (z + 1) - y \in S
    BY <1>3, <2>1
  <2>3. PICK b \in Nat : \A r \in y..z : r < y + ((z + 1) - y) => w[r] <= b
    BY <2>2
  <2>4. QED
    BY <2>1, <2>3
<1>5. CASE ~(y <= z)
  BY <1>5
<1>6. QED
  BY <1>4, <1>5

LEMMA MaxOver ==
    ASSUME NEW y \in Nat, NEW z \in Int, NEW w, \A r \in y..z : w[r] \in Nat,
           NEW S, S # {}, S \subseteq {0} \cup {w[r] : r \in y..z}
    PROVE  Max(S) \in Nat /\ Max(S) \in S /\ \A x \in S : x <= Max(S)
<1>1. PICK b \in Nat : \A r \in y..z : w[r] <= b
  BY Bounded
<1>2. S \in SUBSET Nat /\ \A x \in S : x <= b
  BY <1>1
<1>3. QED
  BY <1>2, MaxIs

-----------------------------------------------------------------------------
(* The units of a line.                                                     *)

\* What goes from each place to a later one goes somewhere, and what it passes.
Place == (Nat \ {0}) \X Nat
GoesFrom(item, next, n, X) ==
    \A at \in Place : at[1] <= n => item[at] \in X /\ next[at] \in Place /\ next[at][1] > at[1]
Walk(f, item, next, n) ==
    f = [at \in Place |-> IF at[1] > n THEN <<>> ELSE <<item[at]>> \o f[next[at]]]

LEMMA WalkExists ==
    ASSUME NEW n \in Nat, NEW X, NEW item, NEW next, GoesFrom(item, next, n, X)
    PROVE  \E f : Walk(f, item, next, n)
<1> DEFINE T == [Place -> Seq(X)]
           a == [at \in Place |-> <<>>]
           F == [p \in Nat \X T |->
                   [at \in Place |-> IF at[1] > n THEN <<>> ELSE <<item[at]>> \o p[2][next[at]]]]
<1>1. a \in T
  BY EmptySeq
<1>2. F \in [Nat \X T -> T]
  <2> SUFFICES ASSUME NEW k \in Nat, NEW g \in T, NEW at \in Place
               PROVE  (IF at[1] > n THEN <<>> ELSE <<item[at]>> \o g[next[at]]) \in Seq(X)
    OBVIOUS
  <2>1. CASE at[1] > n
    BY <2>1, EmptySeq
  <2>2. CASE ~(at[1] > n)
    <3>1. at[1] <= n
      BY <2>2 DEF Place
    <3>2. item[at] \in X /\ next[at] \in Place
      BY <3>1 DEF GoesFrom
    <3>3. <<item[at]>> \in Seq(X) /\ g[next[at]] \in Seq(X)
      BY <3>2
    <3>4. <<item[at]>> \o g[next[at]] \in Seq(X)
      BY <3>3, ConcatProperties
    <3>5. QED
      BY <2>2, <3>4
  <2>3. QED
    BY <2>1, <2>2
<1>3. PICK g \in [Nat -> T] : IsRecursive(g, a, F)
  <2> HIDE DEF T, a, F
  <2>1. QED
    BY <1>1, <1>2, Recursion
<1>4. \A k \in Nat : \A at \in Place :
        g[k + 1][at] = IF at[1] > n THEN <<>> ELSE <<item[at]>> \o g[k][next[at]]
  <2> TAKE k \in Nat
  <2>1. g[k + 1] = F[<<k + 1, g[k]>>]
    <3>1. k + 1 \in Nat /\ k + 1 # 0 /\ (k + 1) - 1 = k
      OBVIOUS
    <3> HIDE DEF F, T, a
    <3>2. QED
      BY <1>3, <3>1 DEF IsRecursive
  <2>2. <<k + 1, g[k]>> \in Nat \X T
    BY <1>3
  <2>3. QED
    BY <2>1, <2>2
<1>5. g[0] = a
  <2> HIDE DEF F, T, a
  <2>1. QED
    BY <1>3 DEF IsRecursive
<1> DEFINE S == {k \in Nat : \A at \in Place : at[1] + k > n => g[k + 1][at] = g[k][at]}
<1>6. 0 \in S
  <2> SUFFICES ASSUME NEW at \in Place, at[1] + 0 > n PROVE g[0 + 1][at] = g[0][at]
    OBVIOUS
  <2>1. at[1] > n
    BY DEF Place
  <2>2. g[0 + 1][at] = <<>>
    BY <1>4, <2>1
  <2>3. g[0][at] = <<>>
    BY <1>5
  <2>4. QED
    BY <2>2, <2>3
<1>7. ASSUME NEW k \in Nat, k \in S PROVE k + 1 \in S
  <2> SUFFICES ASSUME NEW at \in Place, at[1] + (k + 1) > n PROVE g[(k + 1) + 1][at] = g[k + 1][at]
    OBVIOUS
  <2> HIDE DEF T, a, F, S
  <2>0. k + 1 \in Nat
    OBVIOUS
  <2>1. /\ g[(k + 1) + 1][at] = IF at[1] > n THEN <<>> ELSE <<item[at]>> \o g[k + 1][next[at]]
        /\ g[k + 1][at] = IF at[1] > n THEN <<>> ELSE <<item[at]>> \o g[k][next[at]]
    BY <1>4, <2>0
  <2>2. CASE at[1] > n
    BY <2>1, <2>2
  <2>3. CASE ~(at[1] > n)
    <3>1. at[1] <= n
      BY <2>3 DEF Place
    <3>2. next[at] \in Place /\ next[at][1] > at[1]
      BY <3>1 DEF GoesFrom
    <3>3. next[at][1] + k > n
      <4>1. next[at][1] \in Nat /\ at[1] \in Nat /\ n \in Nat /\ k \in Nat /\ at[1] + (k + 1) > n
        BY <3>2 DEF Place
      <4>2. QED
        BY ONLY <3>2, <4>1
    <3>4. g[k + 1][next[at]] = g[k][next[at]]
      BY <1>7, <3>2, <3>3 DEF S
    <3>5. QED
      BY <2>1, <2>3, <3>4
  <2>4. QED
    BY <2>2, <2>3
<1>8. Nat \subseteq S
  <2> HIDE DEF S
  <2>1. QED
    BY <1>6, <1>7, SetInduction
<1>9. \A at \in Place : g[n + 1][at] = g[n][at]
  <2>1. n \in S
    BY <1>8
  <2>2. \A at \in Place : at[1] + n > n
    BY DEF Place
  <2>3. QED
    BY <2>1, <2>2
<1>10. g[n] \in T
  BY <1>3
<1>11. \A at \in Place : g[n][at] = IF at[1] > n THEN <<>> ELSE <<item[at]>> \o g[n][next[at]]
  BY <1>4, <1>9
<1>12. g[n] = [at \in Place |-> IF at[1] > n THEN <<>> ELSE <<item[at]>> \o g[n][next[at]]]
  BY <1>10, <1>11
<1>13. QED
  BY <1>12 DEF Walk

LEMMA WalkType ==
    ASSUME NEW n \in Nat, NEW X, NEW item, NEW next, GoesFrom(item, next, n, X),
           NEW f, Walk(f, item, next, n), NEW at \in Place
    PROVE  f[at] \in Seq(X)
<1> DEFINE S == {k \in Nat : \A p \in Place : p[1] + k > n => f[p] \in Seq(X)}
<1>1. \A p \in Place : f[p] = IF p[1] > n THEN <<>> ELSE <<item[p]>> \o f[next[p]]
  BY DEF Walk
<1>2. 0 \in S
  <2> SUFFICES ASSUME NEW p \in Place, p[1] + 0 > n PROVE f[p] \in Seq(X)
    OBVIOUS
  <2>1. p[1] > n
    BY DEF Place
  <2>2. QED
    BY <1>1, <2>1, EmptySeq
<1>3. ASSUME NEW k \in Nat, k \in S PROVE k + 1 \in S
  <2> SUFFICES ASSUME NEW p \in Place, p[1] + (k + 1) > n PROVE f[p] \in Seq(X)
    OBVIOUS
  <2>1. CASE p[1] > n
    BY <1>1, <2>1, EmptySeq
  <2>2. CASE ~(p[1] > n)
    <3>1. p[1] <= n
      BY <2>2 DEF Place
    <3>2. item[p] \in X /\ next[p] \in Place /\ next[p][1] > p[1]
      BY <3>1 DEF GoesFrom
    <3>3. next[p][1] + k > n
      <4>1. next[p][1] \in Nat /\ p[1] \in Nat
        BY <3>2 DEF Place
      <4>2. QED
        BY <3>2, <4>1
    <3>4. f[next[p]] \in Seq(X) /\ <<item[p]>> \in Seq(X)
      BY <1>3, <3>2, <3>3
    <3>5. <<item[p]>> \o f[next[p]] \in Seq(X)
      BY <3>4, ConcatProperties
    <3>6. QED
      BY <1>1, <2>2, <3>5
  <2>3. QED
    BY <2>1, <2>2
<1>4. Nat \subseteq S
  <2> HIDE DEF S
  <2>1. QED
    BY <1>2, <1>3, SetInduction
<1>5. n \in S /\ at[1] + n > n
  BY <1>4 DEF Place
<1>6. QED
  BY <1>5

LEMMA MinIs ==
    ASSUME NEW S \in SUBSET Nat, S # {}
    PROVE  Min(S) \in S /\ \A x \in S : Min(S) <= x
<1>1. PICK n \in S : \A m \in S : n <= m
  BY LeastNumber
<1>2. QED
  BY <1>1 DEF Min

LEMMA ClusterType ==
    ASSUME NEW S, NEW text \in Seq(S), Len(text) # 0
    PROVE  Cluster(text) \in Seq(S) /\ Len(Cluster(text)) \in Nat \ {0}
<1> DEFINE joined(i) == \/ text[i] \in Joining
                        \/ /\ text[1] = Symbol
                           /\ text[i - 1] = Joiner
                           /\ text[i] = Symbol
           length(k) == k = 1 \/ (text[1] \notin {Tab, Control} /\ \A i \in 2..k : joined(i))
           K == {k \in 1..Len(text) : length(k)}
           n == Max(K)
<1>1. Cluster(text) = SubSeq(text, 1, n)
  BY DEF Cluster
<1>2. Len(text) \in Nat \ {0} /\ length(1)
  BY LenProperties
<1>3. K \in SUBSET Nat /\ 1 \in K /\ K \subseteq 1..Len(text)
  BY <1>2
<1> HIDE DEF K
<1>4. n \in K
  <2>1. \A x \in K : x <= Len(text)
    BY <1>3
  <2>2. K # {} /\ Len(text) \in Nat
    BY <1>2, <1>3
  <2>3. QED
    BY <1>3, <2>1, <2>2, MaxIs
<1>5. n \in 1..Len(text)
  BY <1>3, <1>4
<1> HIDE DEF n
<1>6. 1 \in Nat \ {0} /\ n \in Nat /\ 1 <= n + 1 /\ n <= Len(text) /\ (n + 1) - 1 = n /\ n # 0
  BY <1>2, <1>5
<1>7. SubSeq(text, 1, n) \in Seq(S) /\ Len(SubSeq(text, 1, n)) = (n + 1) - 1
  BY <1>6, Part
<1>8. QED
  BY <1>1, <1>6, <1>7

LEMMA EscapeWidth ==
    ASSUME NEW S, NEW raw \in Seq(S)
    PROVE  Escape(raw).size = Len(raw) /\ Escape(raw).width \in Nat
<1> DEFINE part(i) == IF Ascii(raw[i]) THEN <<raw[i]>> ELSE Quoted(raw[i])
           parts == [i \in DOMAIN raw |-> part(i)]
           G == S \cup {"\\", "u"} \cup {Code(r) : r \in S}
<1>1. Escape(raw) = Drawn(Len(raw), Len(FlattenSeq(parts)), FlattenSeq(parts), "ascii")
  BY DEF Escape
<1>2. ASSUME NEW i \in DOMAIN raw PROVE part(i) \in Seq(G)
  <2>1. raw[i] \in S
    BY ElementOfSeq, LenProperties
  <2>2. <<raw[i]>> \in Seq(G)
    BY <2>1
  <2>3. "\\" \in G /\ "u" \in G /\ Code(raw[i]) \in G
    BY <2>1
  <2> HIDE DEF G
  <2>4. Quoted(raw[i]) \in Seq(G)
    BY <2>3 DEF Quoted
  <2>5. QED
    BY <2>2, <2>4
<1>3. parts \in Seq(Seq(G))
  <2>1. Len(raw) \in Nat /\ DOMAIN raw = 1..Len(raw)
    BY LenProperties
  <2>2. parts \in [1..Len(raw) -> Seq(G)]
    BY <1>2, <2>1
  <2> HIDE DEF parts, G
  <2>3. QED
    BY <2>1, <2>2
<1> HIDE DEF parts, G
<1>4. Len(FlattenSeq(parts)) \in Nat
  BY <1>3, FlattenType, LenProperties
<1>5. QED
  BY <1>1, <1>4 DEF Drawn

LEMMA ClusterWidthType == ASSUME NEW text, NEW m PROVE ClusterWidth(text, m) \in Nat
<1>1. \A r : RuneWidth(r) \in Nat
  BY DEF RuneWidth
<1>2. QED
  BY <1>1 DEF ClusterWidth

\* A unit has a rune at least, and a width.
LEMMA UnitType ==
    ASSUME NEW S, NEW line \in Seq(S), NEW o \in 1..Len(line), NEW c \in Nat, NEW m
    PROVE  Unit(line, o, c, m).size \in Nat \ {0} /\ Unit(line, o, c, m).width \in Nat
<1> DEFINE breaks == {i \in o + 1 .. Len(line) : line[i] = Tab \/ ~Readable(line[i])}
           limit == Min({o + MaxCluster, Len(line) + 1} \cup breaks)
           cluster == Cluster(SubSeq(line, o, limit - 1))
           wide == ClusterWidth(cluster, m)
           single == Ascii(line[o]) /\ (o = Len(line) \/ line[o + 1] \notin Foreign)
<1>1. Unit(line, o, c, m) =
        IF line[o] = Tab THEN Drawn(1, TabWidth - (c % TabWidth), <<>>, "tab")
        ELSE IF single THEN Drawn(1, 1, <<line[o]>>, "ascii")
        ELSE IF ~Readable(line[o]) THEN Escape(<<line[o]>>)
        ELSE IF wide = 0 \/ CutOff(line, o + Len(cluster), limit) \/ Joins(cluster)
        THEN Escape(cluster)
        ELSE Drawn(Len(cluster), wide, cluster, "cluster")
  BY DEF Unit
<1>2. TabWidth \in Nat \ {0} /\ MaxCluster \in Nat \ {0} /\ Len(line) \in Nat
  BY ViewportAssumption, LenProperties
<1>3. limit \in Nat /\ o < limit /\ limit <= Len(line) + 1
  <2>1. o + MaxCluster \in Nat /\ Len(line) + 1 \in Nat /\ o < o + MaxCluster /\ o < Len(line) + 1
    BY <1>2
  <2>2. breaks \subseteq o + 1 .. Len(line) /\ breaks \subseteq Nat
    OBVIOUS
  <2> HIDE DEF breaks
  <2>3. /\ {o + MaxCluster, Len(line) + 1} \cup breaks \in SUBSET Nat
        /\ {o + MaxCluster, Len(line) + 1} \cup breaks # {}
    BY <2>1, <2>2
  <2>4. limit \in {o + MaxCluster, Len(line) + 1} \cup breaks /\ limit <= Len(line) + 1
    BY <2>3, MinIs
  <2> HIDE DEF limit
  <2>5. CASE limit \in breaks
    BY <1>2, <2>1, <2>2, <2>4, <2>5
  <2>6. CASE limit \in {o + MaxCluster, Len(line) + 1}
    BY <1>2, <2>1, <2>4, <2>6
  <2>7. QED
    BY <2>4, <2>5, <2>6
<1> HIDE DEF limit
<1>4. SubSeq(line, o, limit - 1) \in Seq(S) /\ Len(SubSeq(line, o, limit - 1)) # 0
  <2>1. /\ o \in Nat \ {0} /\ limit - 1 \in Nat /\ o <= (limit - 1) + 1 /\ limit - 1 <= Len(line)
        /\ ((limit - 1) + 1) - o # 0
    BY <1>2, <1>3
  <2>2. SubSeq(line, o, limit - 1) \in Seq(S) /\ Len(SubSeq(line, o, limit - 1)) = ((limit - 1) + 1) - o
    BY <2>1, Part
  <2>3. QED
    BY <2>1, <2>2
<1>5. cluster \in Seq(S) /\ Len(cluster) \in Nat \ {0}
  BY <1>4, ClusterType
<1> HIDE DEF cluster
<1>6. wide \in Nat
  BY ClusterWidthType
<1>7. /\ Escape(cluster).size \in Nat \ {0} /\ Escape(cluster).width \in Nat
      /\ Escape(<<line[o]>>).size \in Nat \ {0} /\ Escape(<<line[o]>>).width \in Nat
  <2>1. line[o] \in S
    BY ElementOfSeq, LenProperties
  <2>2. PICK one : one = <<line[o]>>
    OBVIOUS
  <2>3. one \in Seq(S) /\ Len(one) = 1
    BY <2>1, <2>2
  <2>4. /\ Escape(cluster).size = Len(cluster) /\ Escape(cluster).width \in Nat
        /\ Escape(one).size = Len(one) /\ Escape(one).width \in Nat
    BY <1>5, <2>3, EscapeWidth
  <2>5. QED
    BY <1>5, <2>2, <2>3, <2>4
<1>8. TabWidth - (c % TabWidth) \in Nat
  BY <1>2
<1> HIDE DEF wide, single
<1>9. QED
  BY <1>1, <1>5, <1>6, <1>7, <1>8 DEF Drawn

Steps(line, m) ==
    [item |-> [at \in Place |-> [offset |-> at[1], column |-> at[2], unit |-> Unit(line, at[1], at[2], m)]],
     next |-> [at \in Place |-> <<at[1] + Unit(line, at[1], at[2], m).size,
                                  at[2] + Unit(line, at[1], at[2], m).width>>]]
Measured(u) == u.column \in Nat /\ u.unit.width \in Nat /\ u.offset \in Nat
UnitsOf(line, m) == {u \in {Steps(line, m).item[at] : at \in Place} : Measured(u)}

LEMMA UnitsFromType ==
    ASSUME NEW S, NEW line \in Seq(S), NEW m, NEW start \in Place
    PROVE  UnitsFrom(line, start, m) \in Seq(UnitsOf(line, m))
<1> DEFINE unit(at) == Unit(line, at[1], at[2], m)
           place(at) == [offset |-> at[1], column |-> at[2], unit |-> unit(at)]
           P(f) == f = [at \in Place |->
                          IF at[1] > Len(line) THEN <<>>
                          ELSE <<place(at)>> \o f[<<at[1] + unit(at).size, at[2] + unit(at).width>>]]
           U == CHOOSE f : P(f)
           item == Steps(line, m).item
           next == Steps(line, m).next
           X == UnitsOf(line, m)
<1>1. UnitsFrom(line, start, m) = U[start]
  BY DEF UnitsFrom, Place
<1>2. /\ item = [at \in Place |-> place(at)]
      /\ next = [at \in Place |-> <<at[1] + unit(at).size, at[2] + unit(at).width>>]
  BY DEF Steps
<1>3. Len(line) \in Nat
  BY LenProperties
<1>4. GoesFrom(item, next, Len(line), X)
  <2> SUFFICES ASSUME NEW at \in Place, at[1] <= Len(line)
               PROVE  item[at] \in X /\ next[at] \in Place /\ next[at][1] > at[1]
    BY DEF GoesFrom
  <2>1. at[1] \in 1..Len(line) /\ at[2] \in Nat
    BY <1>3 DEF Place
  <2>2. unit(at).size \in Nat \ {0} /\ unit(at).width \in Nat
    BY <2>1, UnitType
  <2>3. item[at] = place(at) /\ next[at] = <<at[1] + unit(at).size, at[2] + unit(at).width>>
    BY <1>2
  <2>4. Measured(place(at))
    BY <2>1, <2>2 DEF Measured
  <2>5. item[at] \in X
    BY <2>3, <2>4 DEF UnitsOf
  <2> HIDE DEF unit, item, next
  <2>6. at[1] + unit(at).size \in Nat \ {0} /\ at[2] + unit(at).width \in Nat /\ at[1] + unit(at).size > at[1]
    <3>1. PICK s \in Nat \ {0}, w \in Nat : s = unit(at).size /\ w = unit(at).width
      BY <2>2
    <3>2. PICK o \in Nat \ {0}, c \in Nat : o = at[1] /\ c = at[2]
      BY <2>1
    <3>3. o + s \in Nat \ {0} /\ c + w \in Nat /\ o + s > o
      OBVIOUS
    <3>4. QED
      BY ONLY <3>1, <3>2, <3>3
  <2>7. next[at] \in Place /\ next[at][1] = at[1] + unit(at).size
    BY <2>3, <2>6 DEF Place
  <2>8. QED
    BY <2>5, <2>6, <2>7
<1>5. \A f : P(f) <=> Walk(f, item, next, Len(line))
  <2> SUFFICES ASSUME NEW f PROVE P(f) <=> Walk(f, item, next, Len(line))
    OBVIOUS
  <2>1. \A at \in Place :
          (IF at[1] > Len(line) THEN <<>>
           ELSE <<place(at)>> \o f[<<at[1] + unit(at).size, at[2] + unit(at).width>>])
          = (IF at[1] > Len(line) THEN <<>> ELSE <<item[at]>> \o f[next[at]])
    <3> HIDE DEF unit, item, next
    <3>1. QED
      BY <1>2
  <2>2. QED
    BY <2>1 DEF Walk
<1>6. \E f : Walk(f, item, next, Len(line))
  <2> HIDE DEF item, next, X
  <2>1. QED
    BY <1>3, <1>4, WalkExists
<1>7. P(U)
  <2>1. \E f : P(f)
    BY <1>5, <1>6
  <2> HIDE DEF P
  <2>2. QED
    BY <2>1
<1>8. Walk(U, item, next, Len(line))
  BY <1>5, <1>7
<1> HIDE DEF U, item, next, X
<1>9. U[start] \in Seq(X)
  BY <1>3, <1>4, <1>8, WalkType
<1>10. QED
  BY <1>1, <1>9 DEF X

LEMMA EndColumnType ==
    ASSUME NEW X, \A u \in X : Measured(u), NEW units \in Seq(X)
    PROVE  EndColumn(units) \in Nat
<1>1. CASE units = <<>>
  BY <1>1 DEF EndColumn
<1>2. CASE units # <<>>
  <2>1. Last(units) \in X
    <3>1. Len(units) \in Nat /\ Len(units) # 0
      BY <1>2, EmptySeq, LenProperties
    <3>2. Len(units) \in 1..Len(units)
      BY <3>1
    <3>3. QED
      BY <3>2, ElementOfSeq DEF Last
  <2>2. QED
    BY <1>2, <2>1 DEF EndColumn, Measured
<1>3. QED
  BY <1>1, <1>2

\* The columns of a line say how wide it is.
ColumnsType(m) == [method : {m}, width : Nat, checkpoints : Seq(Nat \X Nat)]
After(so, u) ==
    [so EXCEPT
        !.width = u.column + u.unit.width,
        !.checkpoints = IF Due(so.checkpoints, u.offset)
                        THEN Append(so.checkpoints, <<u.offset, u.column>>) ELSE so.checkpoints]

LEMMA AfterType ==
    ASSUME NEW m, NEW so \in ColumnsType(m), NEW u, Measured(u)
    PROVE  After(so, u) \in ColumnsType(m)
<1>1. u.column + u.unit.width \in Nat /\ u.offset \in Nat /\ u.column \in Nat
  BY DEF Measured
<1>2. so.checkpoints \in Seq(Nat \X Nat) /\ <<u.offset, u.column>> \in Nat \X Nat
  BY <1>1 DEF ColumnsType
<1>3. Append(so.checkpoints, <<u.offset, u.column>>) \in Seq(Nat \X Nat)
  BY <1>2, AppendProperties
<1>4. \A w \in Nat, s \in Seq(Nat \X Nat) :
        [so EXCEPT !.width = w, !.checkpoints = s] \in ColumnsType(m)
  BY DEF ColumnsType
<1>5. QED
  BY <1>1, <1>2, <1>3, <1>4 DEF After

LEMMA ColumnsAre ==
    ASSUME NEW S, NEW line \in Seq(S), NEW m
    PROVE  ColumnsOf(line, m) \in {NoColumns} \cup ColumnsType(m)
<1> DEFINE units == UnitsFrom(line, <<1, 0>>, m)
           none == [method |-> m, width |-> 0, checkpoints |-> <<>>]
           P(f) == f = [n \in 0..Len(units) |-> IF n = 0 THEN none ELSE After(f[n-1], units[n])]
           A == CHOOSE f : P(f)
           T == ColumnsType(m)
<1>1. ColumnsOf(line, m) = IF Len(line) <= Stride THEN NoColumns ELSE A[Len(units)]
  BY DEF ColumnsOf, After
<1>2. units \in Seq(UnitsOf(line, m))
  BY UnitsFromType DEF Place
<1> HIDE DEF units
<1>3. Len(units) \in Nat /\ \A n \in 1..Len(units) : Measured(units[n])
  <2>1. \A n \in 1..Len(units) : units[n] \in UnitsOf(line, m)
    BY <1>2, ElementOfSeq
  <2>2. QED
    BY <1>2, <2>1, LenProperties DEF UnitsOf
<1>4. none \in T
  BY EmptySeq DEF ColumnsType
<1> DEFINE F == [p \in (1..Len(units)) \X T |-> After(p[2], units[p[1]])]
<1> HIDE DEF none, T
<1>5. F \in [(1..Len(units)) \X T -> T]
  <2>1. ASSUME NEW n \in 1..Len(units), NEW so \in T PROVE After(so, units[n]) \in T
    BY <1>3, AfterType DEF T
  <2>2. QED
    BY <2>1
<1>6. PICK g \in [0..Len(units) -> T] : IsRecursiveTo(Len(units), g, none, F)
  <2> HIDE DEF F
  <2>1. QED
    BY <1>3, <1>4, <1>5, RecursionUpTo
<1>7. P(g)
  <2>1. g[0] = none /\ \A n \in 1..Len(units) : g[n] = F[<<n, g[n-1]>>]
    BY <1>6 DEF IsRecursiveTo
  <2>2. ASSUME NEW n \in 0..Len(units)
        PROVE  g[n] = IF n = 0 THEN none ELSE After(g[n-1], units[n])
    <3>1. CASE n = 0
      BY <2>1, <3>1
    <3>2. CASE n # 0
      <4>1. n \in 1..Len(units) /\ n - 1 \in 0..Len(units)
        BY <1>3, <3>2
      <4>2. g[n-1] \in T
        BY <4>1
      <4>3. F[<<n, g[n-1]>>] = After(g[n-1], units[n])
        BY <4>1, <4>2
      <4> HIDE DEF F
      <4>4. QED
        BY <2>1, <3>2, <4>1, <4>3
    <3>3. QED
      BY <3>1, <3>2
  <2> HIDE DEF F
  <2>3. QED
    BY <2>2
<1>8. P(A)
  <2> HIDE DEF P
  <2>1. QED
    BY <1>7
<1>9. \A n \in 0..Len(units) : A[n] = IF n = 0 THEN none ELSE After(A[n-1], units[n])
  <2> HIDE DEF A
  <2>1. QED
    BY <1>8
<1> HIDE DEF A, P, F
<1> DEFINE S0 == {n \in 0..Len(units) : A[n] \in T}
<1>10. 0 \in S0
  BY <1>3, <1>4, <1>9
<1>11. ASSUME NEW n \in 0..Len(units)-1, n \in S0 PROVE n + 1 \in S0
  <2>1. n + 1 \in 0..Len(units) /\ n + 1 # 0 /\ (n + 1) - 1 = n /\ n + 1 \in 1..Len(units)
    BY <1>3
  <2>2. A[n + 1] = After(A[n], units[n + 1])
    BY <1>9, <2>1
  <2>3. After(A[n], units[n + 1]) \in T
    BY <1>3, <1>11, <2>1, AfterType DEF T
  <2>4. QED
    BY <2>1, <2>2, <2>3
<1>12. 0..Len(units) \subseteq S0
  <2> HIDE DEF S0
  <2>1. QED
    BY <1>3, <1>10, <1>11, UpTo
<1>13. Len(units) \in S0
  BY <1>3, <1>12
<1>14. QED
  BY <1>1, <1>13 DEF T

LEMMA WidthType ==
    ASSUME NEW S, NEW line \in Seq(S), NEW m, m # "none", NEW m2,
           NEW ix \in {NoColumns} \cup ColumnsType(m2)
    PROVE  Width(line, ix, m) \in Nat
<1>1. EndColumn(UnitsFrom(line, <<1, 0>>, m)) \in Nat
  <2>1. UnitsFrom(line, <<1, 0>>, m) \in Seq(UnitsOf(line, m))
    BY UnitsFromType DEF Place
  <2>2. \A u \in UnitsOf(line, m) : Measured(u)
    BY DEF UnitsOf
  <2>3. QED
    BY <2>1, <2>2, EndColumnType
<1>2. ix.method = m => ix.width \in Nat
  BY DEF NoColumns, ColumnsType
<1>3. QED
  BY <1>1, <1>2 DEF Width

-----------------------------------------------------------------------------
(* What is shown.                                                           *)

IsColumns(x) == \E m : x \in {NoColumns} \cup ColumnsType(m)
IsDoc(d) == d.lines \in AnyText /\ \A i \in DOMAIN d.lines : IsColumns(d.columns[i])
HunkLine == [op : {" ", "-", "+"}, number : Nat]
IsComparison(c) ==
    /\ IsDoc(c.from) /\ IsDoc(c.to)
    /\ c.hunks \in Seq(Seq(HunkLine))
    /\ \A h \in DOMAIN c.hunks : \A i \in DOMAIN c.hunks[h] :
           LET l == c.hunks[h][i] IN l.number \in DOMAIN (IF l.op = "+" THEN c.to ELSE c.from).lines
    /\ c.starts = Starts(c.hunks) /\ c.rows = RowsOf(c.hunks)[Len(c.hunks)]
IsContent(c) ==
    \/ c = Nothing
    \/ c.mode = "preview" /\ IsDoc(c.doc)
    \/ c.mode = "compare" /\ IsComparison(c)

LEMMA PreparedIsDoc ==
    ASSUME NEW text \in AnyText, NEW m
    PROVE  IsDoc(Prepared(text, m)) /\ Prepared(text, m).lines = text
<1>1. \A i \in DOMAIN text : text[i] \in Seq(Rune)
  BY ElementOfSeq, LenProperties DEF AnyText
<1>2. \A i \in DOMAIN text : IsColumns(ColumnsOf(text[i], m))
  BY <1>1, ColumnsAre DEF IsColumns
<1>3. QED
  BY <1>2 DEF IsDoc, Prepared

LEMMA AcceptedIsContent ==
    ASSUME inputs \in Inputs, loaded \in inputs, NEW c \in Previews \cup Comparisons
    PROVE  IsContent(c)
<1>1. loaded \in UNION Inputs
  OBVIOUS
<1>2. loaded.texts \subseteq AnyText /\ \A x \in loaded.changes : IsChange(x)
  BY <1>1, ScreenAssumption
<1>3. CASE c \in Previews
  <2>1. PICK t \in loaded.texts : c = [mode |-> "preview", doc |-> Prepared(t, method)]
    BY <1>3 DEF Previews
  <2>2. IsDoc(Prepared(t, method))
    BY <1>2, PreparedIsDoc
  <2>3. QED
    BY <2>1, <2>2 DEF IsContent
<1>4. CASE c \in Comparisons
  <2>1. PICK x \in loaded.changes :
          c = [mode |-> "compare", from |-> Prepared(x.from, method), to |-> Prepared(x.to, method),
               hunks |-> x.hunks, starts |-> Starts(x.hunks),
               rows |-> RowsOf(x.hunks)[Len(x.hunks)]]
    BY <1>4 DEF Comparisons
  <2>2. IsChange(x)
    BY <1>2
  <2>3. /\ x.from \in AnyText /\ x.to \in AnyText /\ x.hunks \in Seq(Seq(HunkLine))
        /\ \A h \in DOMAIN x.hunks : \A i \in DOMAIN x.hunks[h] :
              LET l == x.hunks[h][i] IN l.number \in DOMAIN (IF l.op = "+" THEN x.to ELSE x.from)
    BY <2>2 DEF IsChange, HunkLine
  <2>4. /\ c.mode = "compare" /\ c.from = Prepared(x.from, method) /\ c.to = Prepared(x.to, method)
        /\ c.hunks = x.hunks /\ c.starts = Starts(x.hunks) /\ c.rows = RowsOf(x.hunks)[Len(x.hunks)]
    BY <2>1
  <2>5. /\ IsDoc(c.from) /\ IsDoc(c.to) /\ c.from.lines = x.from /\ c.to.lines = x.to
    BY <2>3, <2>4, PreparedIsDoc
  <2>6. ASSUME NEW h \in DOMAIN c.hunks, NEW i \in DOMAIN c.hunks[h]
        PROVE  c.hunks[h][i].number \in DOMAIN (IF c.hunks[h][i].op = "+" THEN c.to ELSE c.from).lines
    BY <2>3, <2>4, <2>5
  <2>7. IsComparison(c)
    BY ONLY <2>3, <2>4, <2>5, <2>6 DEF IsComparison
  <2>8. QED
    BY <2>4, <2>7 DEF IsContent
<1>5. QED
  BY <1>3, <1>4

LEMMA RowsOfIs ==
    ASSUME NEW H, NEW hunks \in Seq(Seq(H))
    PROVE  /\ RowsOf(hunks) \in [0..Len(hunks) -> Nat]
           /\ RowsOf(hunks)[0] = 0
           /\ \A i \in 1..Len(hunks) : RowsOf(hunks)[i] = RowsOf(hunks)[i-1] + 1 + Len(hunks[i])
<1> DEFINE P(f) == f = [i \in 0..Len(hunks) |-> IF i = 0 THEN 0 ELSE f[i-1] + 1 + Len(hunks[i])]
           A == CHOOSE f : P(f)
           F == [p \in (1..Len(hunks)) \X Nat |-> p[2] + 1 + Len(hunks[p[1]])]
<1>1. RowsOf(hunks) = A
  BY DEF RowsOf
<1>2. Len(hunks) \in Nat /\ \A i \in 1..Len(hunks) : Len(hunks[i]) \in Nat
  <2>1. \A i \in 1..Len(hunks) : hunks[i] \in Seq(H)
    BY ElementOfSeq
  <2>2. QED
    BY <2>1, LenProperties
<1>3. F \in [(1..Len(hunks)) \X Nat -> Nat]
  BY <1>2
<1>4. PICK g \in [0..Len(hunks) -> Nat] : IsRecursiveTo(Len(hunks), g, 0, F)
  <2> HIDE DEF F
  <2>1. QED
    BY <1>2, <1>3, RecursionUpTo
<1>5. g[0] = 0 /\ \A i \in 1..Len(hunks) : g[i] = F[<<i, g[i-1]>>]
  <2> HIDE DEF F
  <2>1. QED
    BY <1>4 DEF IsRecursiveTo
<1>6. ASSUME NEW i \in 0..Len(hunks)
      PROVE  g[i] = IF i = 0 THEN 0 ELSE g[i-1] + 1 + Len(hunks[i])
  <2>1. CASE i = 0
    BY <1>5, <2>1
  <2>2. CASE i # 0
    <3>1. i \in 1..Len(hunks) /\ i - 1 \in 0..Len(hunks)
      BY <1>2, <2>2
    <3>2. g[i-1] \in Nat
      BY <3>1
    <3>3. F[<<i, g[i-1]>>] = g[i-1] + 1 + Len(hunks[i])
      BY <3>1, <3>2
    <3> HIDE DEF F
    <3>4. QED
      BY <1>5, <2>2, <3>1, <3>3
  <2>3. QED
    BY <2>1, <2>2
<1>7. P(g)
  <2> HIDE DEF F
  <2>1. QED
    BY <1>6
<1>8. P(A)
  <2> HIDE DEF P
  <2>1. QED
    BY <1>7
<1>9. /\ DOMAIN A = 0..Len(hunks)
      /\ \A i \in 0..Len(hunks) : A[i] = IF i = 0 THEN 0 ELSE A[i-1] + 1 + Len(hunks[i])
      /\ A = [i \in 0..Len(hunks) |-> A[i]]
  <2> HIDE DEF A
  <2>1. QED
    BY <1>8
<1> HIDE DEF A, P, F
<1>10. A[0] = 0 /\ \A i \in 1..Len(hunks) : A[i] = A[i-1] + 1 + Len(hunks[i])
  <2>1. 0 \in 0..Len(hunks) /\ \A i \in 1..Len(hunks) : i \in 0..Len(hunks) /\ i # 0
    BY <1>2
  <2>2. QED
    BY ONLY <1>9, <2>1
<1> DEFINE S == {i \in 0..Len(hunks) : A[i] \in Nat}
<1>11. 0 \in S
  BY <1>2, <1>10
<1>12. ASSUME NEW i \in 0..Len(hunks)-1, i \in S PROVE i + 1 \in S
  <2>1. i + 1 \in 1..Len(hunks) /\ (i + 1) - 1 = i /\ i + 1 \in 0..Len(hunks)
    BY <1>2
  <2>2. A[i + 1] = A[i] + 1 + Len(hunks[i + 1]) /\ Len(hunks[i + 1]) \in Nat
    BY <1>2, <1>10, <2>1
  <2>3. QED
    BY <1>12, <2>1, <2>2
<1>13. 0..Len(hunks) \subseteq S
  <2> HIDE DEF S
  <2>1. QED
    BY <1>2, <1>11, <1>12, UpTo
<1>14. QED
  BY <1>1, <1>9, <1>10, <1>13

\* A row is in a hunk, or is its header.
LEMMA RowIsIn ==
    ASSUME NEW c, IsComparison(c), NEW r \in Nat, r < c.rows
    PROVE  /\ Row(c, r).hunk \in DOMAIN c.hunks
           /\ Row(c, r).line \in 0..Len(c.hunks[Row(c, r).hunk])
<1> DEFINE n == Len(c.hunks)
           R == RowsOf(c.hunks)
           K == {i \in DOMAIN c.starts : c.starts[i] <= r}
           h == Max(K)
<1>1. /\ c.hunks \in Seq(Seq(HunkLine)) /\ n \in Nat /\ DOMAIN c.hunks = 1..n
      /\ c.starts = [i \in 1..n |-> R[i-1]]
      /\ c.rows = R[n]
  BY LenProperties DEF IsComparison, Starts
<1>2. \A i \in 1..n : Len(c.hunks[i]) \in Nat
  BY <1>1, ElementOfSeq, LenProperties
<1>3. /\ R \in [0..n -> Nat] /\ R[0] = 0
      /\ \A i \in 1..n : R[i] = R[i-1] + 1 + Len(c.hunks[i])
  BY <1>1, RowsOfIs
<1> HIDE DEF R, n
<1>4. n # 0
  BY <1>1, <1>3
<1>5. DOMAIN c.starts = 1..n /\ \A i \in 1..n : c.starts[i] = R[i-1]
  BY <1>1
<1>6. K \in SUBSET Nat /\ K \subseteq 1..n /\ 1 \in K /\ \A i \in 1..n : i \in K <=> R[i-1] <= r
  <2>1. K = {i \in 1..n : R[i-1] <= r}
    BY <1>5
  <2>2. 1 \in 1..n /\ R[1-1] = 0
    BY <1>1, <1>3, <1>4
  <2> HIDE DEF K
  <2>3. QED
    BY <2>1, <2>2
<1> HIDE DEF K
<1>7. h \in K /\ \A x \in K : x <= h
  <2>1. K # {} /\ n \in Nat /\ \A x \in K : x <= n
    BY <1>1, <1>6
  <2>2. QED
    BY <1>6, <2>1, MaxIs
<1> HIDE DEF h
<1>8. h \in 1..n /\ R[h-1] <= r
  BY <1>6, <1>7
<1>9. r < R[h]
  <2>1. CASE h = n
    BY <1>1, <2>1
  <2>2. CASE h # n
    <3>1. h + 1 \in 1..n /\ (h + 1) - 1 = h /\ ~(h + 1 <= h)
      BY <1>1, <1>8, <2>2
    <3>2. h + 1 \notin K
      BY <1>7, <3>1
    <3>3. ~(R[h] <= r)
      BY <1>6, <3>1, <3>2
    <3>4. R[h] \in Nat
      BY <1>1, <1>3, <1>8
    <3>5. QED
      BY <3>3, <3>4
  <2>3. QED
    BY <2>1, <2>2
<1>10. r - R[h-1] \in 0..Len(c.hunks[h])
  <2>1. R[h] = R[h-1] + 1 + Len(c.hunks[h]) /\ R[h-1] \in Nat /\ Len(c.hunks[h]) \in Nat
    <3>1. h - 1 \in 0..n
      BY <1>1, <1>8
    <3>2. QED
      BY <1>2, <1>3, <1>8, <3>1
  <2>2. /\ r >= R[h-1] /\ r < R[h-1] + 1 + Len(c.hunks[h])
    BY <1>8, <1>9, <2>1
  <2>3. QED
    <3>1. PICK a \in Nat, b \in Nat : a = R[h-1] /\ b = Len(c.hunks[h])
      BY <2>1
    <3>2. r >= a /\ r < a + 1 + b
      BY <2>2, <3>1
    <3>3. r \in Nat
      OBVIOUS
    <3>4. r - a \in 0..b
      BY ONLY <3>2, <3>3, a \in Nat, b \in Nat
    <3>5. QED
      BY <3>1, <3>4
<1>11. Row(c, r) = [hunk |-> h, line |-> r - c.starts[h]] /\ c.starts[h] = R[h-1]
  BY <1>5, <1>8 DEF Row, h, K
<1>12. QED
  BY <1>1, <1>8, <1>10, <1>11

Modes == {"preview", "compare"}
LenOf(content, p) ==
    IF content.mode # p THEN 0
    ELSE IF p = "preview" THEN Len(content.doc.lines) ELSE content.rows

LEMMA LenOfType ==
    ASSUME NEW content, IsContent(content), NEW p \in Modes
    PROVE  LenOf(content, p) \in Nat
<1>1. CASE content.mode # p
  BY <1>1 DEF LenOf
<1>2. CASE content.mode = p /\ p = "preview"
  <2>1. content.doc.lines \in AnyText
    BY <1>2 DEF IsContent, IsDoc, Nothing
  <2>2. QED
    BY <1>2, <2>1, LenProperties DEF LenOf, AnyText
<1>3. CASE content.mode = p /\ p = "compare"
  <2>1. IsComparison(content)
    BY <1>3 DEF IsContent, Nothing
  <2>2. content.hunks \in Seq(Seq(HunkLine)) /\ content.rows = RowsOf(content.hunks)[Len(content.hunks)]
    BY <2>1 DEF IsComparison
  <2>3. Len(content.hunks) \in Nat /\ Len(content.hunks) \in 0..Len(content.hunks)
    BY <2>2, LenProperties
  <2>4. RowsOf(content.hunks) \in [0..Len(content.hunks) -> Nat]
    BY <2>2, RowsOfIs
  <2>5. QED
    BY <1>3, <2>2, <2>3, <2>4 DEF LenOf
<1>4. QED
  BY <1>1, <1>2, <1>3 DEF Modes

\* Every row has a line with its columns.
RowWidth(content, r, m) ==
    LET l == ContentRow(content, r) IN Width(l.line, l.columns, m)

LEMMA ColumnsWidth ==
    ASSUME NEW line \in Seq(Rune), NEW x, IsColumns(x), NEW m \in Methods
    PROVE  Width(line, x, m) \in Nat
<1>1. m # "none"
  BY DEF Methods
<1>2. PICK m2 : x \in {NoColumns} \cup ColumnsType(m2)
  BY DEF IsColumns
<1>3. QED
  BY <1>1, <1>2, WidthType

LEMMA LineOfWidth ==
    ASSUME NEW d, IsDoc(d), NEW i \in DOMAIN d.lines, NEW sign, NEW m \in Methods
    PROVE  Width(LineOf(d, i, sign).line, LineOf(d, i, sign).columns, m) \in Nat
<1>1. d.lines[i] \in Seq(Rune)
  <2>1. d.lines \in Seq(Seq(Rune))
    BY DEF IsDoc, AnyText
  <2>2. QED
    BY <2>1, ElementOfSeq, LenProperties
<1>2. IsColumns(d.columns[i])
  BY DEF IsDoc
<1>3. Width(d.lines[i], d.columns[i], m) \in Nat
  BY <1>1, <1>2, ColumnsWidth
<1>4. QED
  BY <1>3 DEF LineOf

LEMMA RowWidthType ==
    ASSUME NEW content, IsContent(content), NEW p \in Modes, NEW r \in Nat, r < LenOf(content, p),
           NEW m \in Methods
    PROVE  RowWidth(content, r, m) \in Nat
<1>1. content.mode = p
  BY DEF LenOf
<1>2. CASE p = "preview"
  <2>1. IsDoc(content.doc) /\ LenOf(content, p) = Len(content.doc.lines)
    BY <1>1, <1>2 DEF IsContent, Nothing, LenOf
  <2>2. content.doc.lines \in Seq(Seq(Rune))
    BY <2>1 DEF IsDoc, AnyText
  <2>3. r + 1 \in DOMAIN content.doc.lines
    <3>1. Len(content.doc.lines) \in Nat /\ DOMAIN content.doc.lines = 1..Len(content.doc.lines)
      BY <2>2, LenProperties
    <3>2. QED
      BY <2>1, <3>1
  <2>4. Width(LineOf(content.doc, r + 1, " ").line, LineOf(content.doc, r + 1, " ").columns, m) \in Nat
    BY <2>1, <2>3, LineOfWidth
  <2>5. ContentRow(content, r) = LineOf(content.doc, r + 1, " ")
    BY <1>1, <1>2 DEF ContentRow
  <2>6. QED
    BY <2>4, <2>5 DEF RowWidth
<1>3. CASE p = "compare"
  <2>1. IsComparison(content) /\ r < content.rows
    BY <1>1, <1>3 DEF IsContent, Nothing, LenOf
  <2> DEFINE at == Row(content, r)
             l == content.hunks[at.hunk][at.line]
             side == IF l.op = "+" THEN content.to ELSE content.from
  <2>2. at.hunk \in DOMAIN content.hunks /\ at.line \in 0..Len(content.hunks[at.hunk])
    BY <2>1, RowIsIn
  <2>3. ContentRow(content, r) = IF at.line = 0 THEN Header ELSE LineOf(side, l.number, l.op)
    BY <1>1, <1>3 DEF ContentRow
  <2> HIDE DEF at
  <2>4. CASE at.line = 0
    <3>1. <<>> \in Seq(Rune) /\ IsColumns(NoColumns)
      BY EmptySeq DEF IsColumns
    <3>2. Width(<<>>, NoColumns, m) \in Nat
      BY <3>1, ColumnsWidth
    <3>3. QED
      BY <2>3, <2>4, <3>2 DEF RowWidth, Header
  <2>5. CASE at.line # 0
    <3>1. content.hunks[at.hunk] \in Seq(HunkLine)
      BY <2>1, <2>2, ElementOfSeq, LenProperties DEF IsComparison
    <3>2. at.line \in DOMAIN content.hunks[at.hunk]
      <4>1. Len(content.hunks[at.hunk]) \in Nat /\ DOMAIN content.hunks[at.hunk] = 1..Len(content.hunks[at.hunk])
        BY <3>1, LenProperties
      <4>2. QED
        BY <2>2, <2>5, <4>1
    <3>3. l.number \in DOMAIN side.lines
      BY <2>1, <2>2, <3>2 DEF IsComparison
    <3>4. IsDoc(side)
      BY <2>1 DEF IsComparison
    <3> HIDE DEF l, side
    <3>5. Width(LineOf(side, l.number, l.op).line, LineOf(side, l.number, l.op).columns, m) \in Nat
      BY <3>3, <3>4, LineOfWidth
    <3>6. QED
      BY <2>3, <2>5, <3>5 DEF RowWidth
  <2>6. QED
    BY <2>4, <2>5
<1>4. QED
  BY <1>2, <1>3 DEF Modes

LEMMA WidestType ==
    ASSUME NEW content, IsContent(content), NEW p \in Modes, NEW y \in Nat, NEW count \in Nat,
           NEW m \in Methods
    PROVE  WidestOf(content, RowsFrom(y, count, LenOf(content, p)), m) \in Nat
<1> DEFINE z == Least(y + count, LenOf(content, p)) - 1
           w == [r \in y..z |-> RowWidth(content, r, m)]
           S == {0} \cup {Width(l.line, l.columns, m) :
                              l \in {ContentRow(content, r) : r \in RowsFrom(y, count, LenOf(content, p))}}
<1>1. WidestOf(content, RowsFrom(y, count, LenOf(content, p)), m) = Max(S)
  BY DEF WidestOf
<1>2. LenOf(content, p) \in Nat
  BY LenOfType
<1>3. z \in Int /\ \A r \in y..z : r \in Nat /\ r < LenOf(content, p)
  BY <1>2 DEF Least
<1>4. \A r \in y..z : w[r] \in Nat
  BY <1>3, RowWidthType
<1>5. S # {} /\ S \subseteq {0} \cup {w[r] : r \in y..z}
  BY DEF RowsFrom, RowWidth
<1> HIDE DEF S, w, z
<1>6. Max(S) \in Nat
  BY <1>3, <1>4, <1>5, MaxOver
<1>7. QED
  BY <1>1, <1>6

-----------------------------------------------------------------------------
(* Overlays.                                                                *)

LEMMA ShortSequences ==
    ASSUME NEW X, NEW x1 \in X, NEW x2 \in X, NEW x3 \in X, NEW x4 \in X
    PROVE  <<>> \in Seq(X) /\ <<x1>> \in Seq(X) /\ <<x1, x2>> \in Seq(X) /\ <<x1, x2, x3, x4>> \in Seq(X)
<1>1. <<>> \in Seq(X)
  BY EmptySeq
<1>2. <<x1>> \in Seq(X)
  OBVIOUS
<1>3. <<x1, x2>> \in Seq(X)
  OBVIOUS
<1>4. <<x1, x2, x3, x4>> \in Seq(X)
  OBVIOUS
<1>5. QED
  BY <1>1, <1>2, <1>3, <1>4

Glyph == Rune \cup {"'", "\\", "$", "x", " ", "a"} \cup {Code(r) : r \in Rune}

LEMMA QuotedType ==
    ASSUME NEW arg \in Seq(Rune)
    PROVE  ShellQuote(arg) \in Seq(Glyph)
<1> DEFINE single(i) == IF arg[i] = "'" THEN <<"'", "\\", "'", "'">> ELSE <<arg[i]>>
           byte(i) == IF arg[i] \in {"'", "\\"} THEN <<"\\", arg[i]>>
                      ELSE IF NeedsByte(arg[i]) THEN <<"\\", "x", Code(arg[i])>>
                      ELSE <<arg[i]>>
           singles == [i \in DOMAIN arg |-> single(i)]
           parts == [i \in DOMAIN arg |-> byte(i)]
<1>1. {"'", "\\", "$", "x"} \subseteq Glyph /\ Rune \subseteq Glyph /\ \A r \in Rune : Code(r) \in Glyph
  BY DEF Glyph
<1>2. Len(arg) \in Nat /\ DOMAIN arg = 1..Len(arg) /\ \A i \in 1..Len(arg) : arg[i] \in Rune
  BY ElementOfSeq, LenProperties
<1>3. ASSUME NEW i \in 1..Len(arg) PROVE single(i) \in Seq(Glyph) /\ byte(i) \in Seq(Glyph)
  <2>1. arg[i] \in Glyph /\ Code(arg[i]) \in Glyph
    BY <1>1, <1>2
  <2>2. "'" \in Glyph /\ "\\" \in Glyph /\ "x" \in Glyph
    BY <1>1
  <2>3. /\ <<"'", "\\", "'", "'">> \in Seq(Glyph) /\ <<arg[i]>> \in Seq(Glyph)
        /\ <<"\\", arg[i]>> \in Seq(Glyph) /\ <<"\\", "x", Code(arg[i])>> \in Seq(Glyph)
    BY <2>1, <2>2
  <2>4. QED
    BY <2>3
<1>4. singles \in Seq(Seq(Glyph)) /\ parts \in Seq(Seq(Glyph))
  <2>1. singles \in [1..Len(arg) -> Seq(Glyph)] /\ parts \in [1..Len(arg) -> Seq(Glyph)]
    BY <1>2, <1>3
  <2>2. \A Q : [1..Len(arg) -> Q] \subseteq Seq(Q)
    BY <1>2
  <2> HIDE DEF singles, parts
  <2>3. QED
    BY ONLY <2>1, <2>2
<1>5. SingleQuoted(arg) = (<<"'">> \o FlattenSeq(singles)) \o <<"'">>
  BY DEF SingleQuoted
<1>6. ByteQuoted(arg) = (<<"$", "'">> \o FlattenSeq(parts)) \o <<"'">>
  BY DEF ByteQuoted
<1> HIDE DEF singles, parts
<1>7. /\ FlattenSeq(singles) \in Seq(Glyph) /\ FlattenSeq(parts) \in Seq(Glyph)
      /\ <<"'">> \in Seq(Glyph) /\ <<"$", "'">> \in Seq(Glyph)
  BY <1>1, <1>4, FlattenType
<1>8. /\ <<"'">> \o FlattenSeq(singles) \in Seq(Glyph) /\ <<"$", "'">> \o FlattenSeq(parts) \in Seq(Glyph)
  BY <1>7, ConcatProperties
<1>9. SingleQuoted(arg) \in Seq(Glyph) /\ ByteQuoted(arg) \in Seq(Glyph)
  BY <1>5, <1>6, <1>7, <1>8, ConcatProperties
<1>10. arg \in Seq(Glyph)
  <2>1. arg \in [1..Len(arg) -> Glyph]
    BY <1>1, <1>2
  <2>2. QED
    BY <1>2, <2>1
<1>11. QED
  BY <1>9, <1>10 DEF ShellQuote

LEMMA WidestLineType ==
    ASSUME NEW all \in Seq(Seq(Glyph)), NEW m \in Methods
    PROVE  Max({0} \cup {Width(line, NoColumns, m) : line \in Range(all)}) \in Nat
<1> DEFINE w == [i \in 1..Len(all) |-> Width(all[i], NoColumns, m)]
           S == {0} \cup {Width(line, NoColumns, m) : line \in Range(all)}
<1>1. Len(all) \in Nat /\ DOMAIN all = 1..Len(all)
  BY LenProperties
<1>2. \A i \in 1..Len(all) : w[i] \in Nat
  <2> SUFFICES ASSUME NEW i \in 1..Len(all) PROVE w[i] \in Nat
    OBVIOUS
  <2>1. all[i] \in Seq(Glyph) /\ m # "none"
    BY ElementOfSeq DEF Methods
  <2>2. Width(all[i], NoColumns, m) \in Nat
    BY <2>1, WidthType
  <2>3. QED
    BY <2>2
<1>3. S \subseteq {0} \cup {w[i] : i \in 1..Len(all)}
  BY <1>1 DEF Range
<1>4. S # {}
  OBVIOUS
<1> HIDE DEF S, w
<1>5. Max(S) \in Nat
  <2>1. 1 \in Nat /\ Len(all) \in Int
    BY <1>1
  <2>2. QED
    BY <1>2, <1>3, <1>4, <2>1, MaxOver
<1>6. QED
  BY <1>5 DEF S

LEMMA OverlayLinesType ==
    ASSUME Overlaid, loaded.path \in Seq(Rune)
    PROVE  overlayLines \in Seq(Seq(Glyph)) /\ overlayLines # <<>>
<1>1. CASE overlay = "help"
  <2>1. overlayLines = HelpLines /\ HelpLines \in AnyText \ {<<>>}
    BY <1>1, ScreenAssumption DEF overlayLines
  <2>2. Rune \subseteq Glyph
    BY DEF Glyph
  <2>3. Seq(Rune) \subseteq Seq(Glyph)
    BY <2>2
  <2>4. Seq(Seq(Rune)) \subseteq Seq(Seq(Glyph))
    BY <2>3
  <2>5. QED
    BY <2>1, <2>4 DEF AnyText
<1>2. CASE overlay = "export"
  <2>1. overlayLines = ExportLines
    BY <1>2 DEF overlayLines
  <2>2. " " \in Glyph /\ "\\" \in Glyph /\ "a" \in Glyph
    BY DEF Glyph
  <2>3. ShellQuote(loaded.path) \in Seq(Glyph)
    BY QuotedType
  <2>4. <<" ">> \in Seq(Glyph) /\ <<" ", "\\">> \in Seq(Glyph) /\ <<"a">> \in Seq(Glyph) /\ <<>> \in Seq(Glyph)
    BY ONLY <2>2, ShortSequences
  <2>5. <<" ">> \o ShellQuote(loaded.path) \in Seq(Glyph)
    BY <2>3, <2>4, ConcatProperties
  <2>6. (<<" ">> \o ShellQuote(loaded.path)) \o <<" ", "\\">> \in Seq(Glyph)
    BY <2>4, <2>5, ConcatProperties
  <2>7. ExportLine \in Seq(Glyph)
    BY <2>6 DEF ExportLine
  <2>8. <<<<"a">>, <<>>, ExportLine, <<"a">>>> \in Seq(Seq(Glyph)) /\ <<<<"a">>>> \in Seq(Seq(Glyph))
    BY ONLY <2>4, <2>7, ShortSequences
  <2>9. QED
    BY <2>1, <2>8 DEF ExportLines
<1>3. QED
  BY <1>1, <1>2 DEF Overlaid

-----------------------------------------------------------------------------
(* The scroll positions.                                                    *)

OverlayLen(o, s) ==
    CASE o = "help" -> Len(HelpLines)
      [] o = "export" -> IF s THEN 4 ELSE 1
      [] OTHER -> 0
ContentFits(content, p, y, r) == content.mode = p => y <= Most(LenOf(content, p) - Most(r - 1, 0), 0)
OverlayFits(o, s, y, r) == o \in {"help", "export"} => y <= Most(OverlayLen(o, s) - r, 0)
TextWidthOf(w, p, n) ==
    Most((IF w >= splitWidth THEN w - Clamp(w \div 3, treeMin, treeMax) - 1 ELSE w)
         - (IF p = "compare" THEN 1 ELSE DigitsOf(Most(n, 1)) + 1), 0)

SizeIInv ==
    /\ width \in Nat /\ rows \in Nat /\ mode \in Modes /\ method \in Methods
    /\ inputs \in Inputs /\ loaded \in inputs
ScrollIInv ==
    /\ IsContent(shown)
    /\ scrollY \in Nat /\ scrollX \in Nat /\ overlayY \in Nat /\ overlayX \in Nat
    /\ ContentFits(shown, mode, scrollY, rows)
    /\ OverlayFits(overlay, session, overlayY, rows)
PaneIInv == SizeIInv /\ ScrollIInv

LEMMA MostType == ASSUME NEW x \in Int PROVE Most(x, 0) \in Nat
BY DEF Most

LEMMA ClampType ==
    ASSUME NEW y \in Int, NEW h \in Nat
    PROVE  Clamp(y, 0, h) \in Nat /\ Clamp(y, 0, h) <= h
BY DEF Clamp, Least, Most

LEMMA OverlayLenType == ASSUME NEW o, NEW s PROVE OverlayLen(o, s) \in Nat
<1>1. Len(HelpLines) \in Nat
  BY ScreenAssumption, LenProperties DEF AnyText
<1>2. CASE o = "help"
  BY <1>1, <1>2 DEF OverlayLen
<1>3. CASE o = "export"
  BY <1>3 DEF OverlayLen
<1>4. CASE o # "help" /\ o # "export"
  BY <1>4 DEF OverlayLen
<1>5. QED
  BY <1>2, <1>3, <1>4

LEMMA TextWidthType ==
    ASSUME NEW w \in Nat, NEW p, NEW n
    PROVE  TextWidthOf(w, p, n) \in Nat
<1>1. splitWidth \in Nat /\ treeMin \in Nat /\ treeMax \in Nat
  BY ScreenAssumption
<1>2. \A x : DigitsOf(x) \in Nat
  <2> SUFFICES ASSUME NEW x PROVE DigitsOf(x) \in Nat
    OBVIOUS
  <2> DEFINE K == {k \in 0..5 : 10 ^ k <= x}
  <2>1. IsFiniteSet(0..5) /\ K \subseteq 0..5
    <3>1. 0 \in Int /\ 5 \in Int /\ K \subseteq 0..5
      OBVIOUS
    <3>2. IsFiniteSet(0..5)
      BY ONLY <3>1, FS_Interval
    <3>3. QED
      BY <3>1, <3>2
  <2>2. DigitsOf(x) = Cardinality(K)
    BY DEF DigitsOf
  <2> HIDE DEF K
  <2>3. IsFiniteSet(K)
    BY <2>1, FS_Subset
  <2>4. QED
    BY <2>2, <2>3, FS_CardinalityType
<1>3. (IF p = "compare" THEN 1 ELSE DigitsOf(Most(n, 1)) + 1) \in Nat
  <2>1. DigitsOf(Most(n, 1)) \in Nat
    BY <1>2
  <2>2. QED
    BY <2>1
<1>4. Clamp(w \div 3, treeMin, treeMax) \in Nat
  <2>1. w \div 3 \in Nat
    OBVIOUS
  <2>2. QED
    BY <1>1, <2>1 DEF Clamp, Least, Most
<1>5. (IF w >= splitWidth THEN w - Clamp(w \div 3, treeMin, treeMax) - 1 ELSE w) \in Int
  BY <1>1, <1>4
<1>6. ASSUME NEW x \in Int, NEW y \in Nat PROVE Most(x - y, 0) \in Nat
  BY MostType
<1>7. QED
  BY ONLY <1>3, <1>5, <1>6 DEF TextWidthOf

LEMMA NothingFits == ASSUME NEW p \in Modes PROVE \A y, r : ContentFits(Nothing, p, y, r)
BY DEF ContentFits, Nothing, Modes

\* The names of the code for these.
LEMMA Readings ==
    /\ contentLen = LenOf(shown, mode) /\ contentLen' = LenOf(shown', mode')
    /\ contentRows = Most(rows - 1, 0) /\ contentRows' = Most(rows' - 1, 0)
    /\ textWidth = TextWidthOf(width, mode, contentLen) /\ textWidth' = TextWidthOf(width', mode', contentLen')
    /\ overlayLength = OverlayLen(overlay, session) /\ overlayLength' = OverlayLen(overlay', session')
<1>1. contentLen = LenOf(shown, mode) /\ contentLen' = LenOf(shown', mode')
  BY DEF contentLen, LenOf
<1>2. contentRows = Most(rows - 1, 0) /\ contentRows' = Most(rows' - 1, 0)
  BY DEF contentRows
<1>3. textWidth = TextWidthOf(width, mode, contentLen) /\ textWidth' = TextWidthOf(width', mode', contentLen')
  BY DEF textWidth, TextWidthOf, contentWidth, treeWidth, gutterWidth
<1>4. overlayLength = OverlayLen(overlay, session) /\ overlayLength' = OverlayLen(overlay', session')
  BY DEF overlayLength, OverlayLen
<1>5. QED
  BY <1>1, <1>2, <1>3, <1>4

LEMMA SettleFits ==
    ASSUME SizeIInv', IsContent(shown'), overlayY \in Nat, overlayX \in Nat, \E y \in Int : Settle(y)
    PROVE  /\ scrollY' \in Nat /\ overlayY' \in Nat /\ overlayX' \in Nat
           /\ ContentFits(shown', mode', scrollY', rows')
           /\ OverlayFits(overlay', session', overlayY', rows')
<1>1. PICK y \in Int : /\ scrollY' = Clamp(y, 0, Most(LenOf(shown', mode') - Most(rows' - 1, 0), 0))
                       /\ overlayY' = Clamp(overlayY, 0, Most(OverlayLen(overlay', session') - rows', 0))
                       /\ overlayX' = overlayX
  BY Readings DEF Settle, SettleY, SettleOverlay
<1>2. LenOf(shown', mode') \in Nat /\ OverlayLen(overlay', session') \in Nat /\ rows' \in Nat
  BY LenOfType, OverlayLenType DEF SizeIInv
<1>3. LenOf(shown', mode') - Most(rows' - 1, 0) \in Int /\ OverlayLen(overlay', session') - rows' \in Int
  BY <1>2, MostType
<1>4. /\ Most(LenOf(shown', mode') - Most(rows' - 1, 0), 0) \in Nat
      /\ Most(OverlayLen(overlay', session') - rows', 0) \in Nat
  BY <1>3, MostType
<1>5. /\ scrollY' \in Nat /\ scrollY' <= Most(LenOf(shown', mode') - Most(rows' - 1, 0), 0)
      /\ overlayY' \in Nat /\ overlayY' <= Most(OverlayLen(overlay', session') - rows', 0)
  BY <1>1, <1>4, ClampType
<1>6. QED
  BY <1>1, <1>5 DEF ContentFits, OverlayFits

\* The text on screen is all the sideways scroll may pass.
OnText == scrollX' = 0 \/ scrollX' + textWidth' <= WidestOf(shown', VisibleRows', method')

LEMMA WidestIs ==
    ASSUME NEW content, IsContent(content), NEW p \in Modes, NEW y \in Nat, NEW r \in Nat,
           NEW m \in Methods
    PROVE  WidestOf(content, RowsFrom(y, Most(r - 1, 0), LenOf(content, p)), m) \in Nat
<1>1. Most(r - 1, 0) \in Nat
  BY MostType
<1>2. QED
  BY <1>1, WidestType

LEMMA ClampFits ==
    ASSUME SizeIInv', IsContent(shown'), scrollY' \in Nat, \E x \in Nat : ClampSideways(x)
    PROVE  scrollX' \in Nat /\ OnText
<1> DEFINE widest == WidestOf(shown', RowsFrom(scrollY', Most(rows' - 1, 0), LenOf(shown', mode')), method')
<1>1. WidestOf(shown', VisibleRows', method') = widest
  BY Readings DEF VisibleRows
<1>2. widest \in Nat
  BY WidestIs DEF SizeIInv
<1>3. textWidth' \in Nat
  BY Readings, TextWidthType DEF SizeIInv
<1>4. PICK x \in Nat : scrollX' = Least(x, Most(WidestOf(shown', VisibleRows', method') - textWidth', 0))
  BY DEF ClampSideways
<1>5. PICK a \in Nat, t \in Nat : a = WidestOf(shown', VisibleRows', method') /\ t = textWidth'
  BY <1>1, <1>2, <1>3
<1> HIDE DEF widest
<1>6. scrollX' = Least(x, Most(a - t, 0))
  BY <1>4, <1>5
<1>7. Least(x, Most(a - t, 0)) \in Nat /\ (Least(x, Most(a - t, 0)) = 0 \/ Least(x, Most(a - t, 0)) + t <= a)
  BY DEF Least, Most
<1>8. QED
  BY <1>5, <1>6, <1>7 DEF OnText

-----------------------------------------------------------------------------
(* What each kind of step does to the scroll positions.                     *)

\* What the properties say of a state and of a step.
OpensOn == shown' # Nothing /\ (shown' # shown \/ width' # width \/ height' # height) => OnText
Frees == shown' = shown /\ UNCHANGED sizeVars

LEMMA FreesOpens == ASSUME Frees PROVE OpensOn
BY DEF Frees, OpensOn, sizeVars

LEMMA InitScrolls == ScreenInit => PaneIInv
<1> SUFFICES ASSUME ScreenInit PROVE PaneIInv
  OBVIOUS
<1>1. SizeIInv
  BY DEF ScreenInit, SizeIInv, Modes, Methods
<1>2. IsContent(shown)
  BY DEF ScreenInit, IsContent
<1>3. ContentFits(shown, mode, scrollY, rows)
  BY NothingFits DEF ScreenInit, Modes
<1>4. OverlayFits(overlay, session, overlayY, rows)
  BY DEF ScreenInit, OverlayFits
<1>5. QED
  BY <1>1, <1>2, <1>3, <1>4 DEF ScreenInit, PaneIInv, ScrollIInv

\* Nothing that bounds the scroll positions changes, but for what takes them
\* back to the start or away from the screen.
Quiet ==
    /\ mode' \in Modes /\ method' \in Methods
    /\ UNCHANGED <<width, rows, inputs, loaded, overlayX, overlayY>>
    /\ shown' \in {shown, Nothing} /\ scrollX' \in Nat
    /\ (scrollY' = scrollY /\ (mode' = mode \/ shown' = Nothing)) \/ scrollY' = 0
    /\ (overlay' = overlay /\ session' = session) \/ overlay' \in {"none", "prompt"}

LEMMA QuietStep == ASSUME PaneIInv, Quiet PROVE PaneIInv'
<1> USE DEF Quiet
<1>1. SizeIInv'
  BY DEF PaneIInv, SizeIInv
<1>2. IsContent(shown')
  BY DEF PaneIInv, ScrollIInv, IsContent
<1>3. ContentFits(shown', mode', scrollY', rows')
  <2>1. CASE shown' = shown /\ mode' = mode /\ scrollY' = scrollY
    BY <2>1 DEF PaneIInv, ScrollIInv
  <2>2. CASE shown' = Nothing
    BY <2>2, NothingFits
  <2>3. CASE scrollY' = 0
    <3>1. rows' \in Nat
      BY DEF PaneIInv, SizeIInv
    <3>2. LenOf(shown', mode') \in Nat /\ Most(rows' - 1, 0) \in Nat
      BY <1>2, <3>1, LenOfType, MostType
    <3>3. Most(LenOf(shown', mode') - Most(rows' - 1, 0), 0) \in Nat
      BY <3>2, MostType
    <3>4. QED
      BY <2>3, <3>3 DEF ContentFits
  <2>4. QED
    BY <2>1, <2>2, <2>3
<1>4. OverlayFits(overlay', session', overlayY', rows')
  BY DEF PaneIInv, ScrollIInv, OverlayFits
<1>5. QED
  BY <1>1, <1>2, <1>3, <1>4 DEF PaneIInv, ScrollIInv

\* Content and an overlay that were settled.
LEMMA SettledStep ==
    ASSUME PaneIInv, SizeIInv', IsContent(shown'), \E y \in Int : Settle(y), scrollX' \in Nat
    PROVE  PaneIInv'
<1>1. overlayY \in Nat /\ overlayX \in Nat
  BY DEF PaneIInv, ScrollIInv
<1>2. /\ scrollY' \in Nat /\ overlayY' \in Nat /\ overlayX' \in Nat
      /\ ContentFits(shown', mode', scrollY', rows')
      /\ OverlayFits(overlay', session', overlayY', rows')
  BY <1>1, SettleFits
<1>3. QED
  BY <1>2 DEF PaneIInv, ScrollIInv

LEMMA ClampedStep ==
    ASSUME PaneIInv, SizeIInv', IsContent(shown'), Settle(scrollY), ClampSideways(scrollX)
    PROVE  PaneIInv' /\ OnText
<1>1. /\ scrollY \in Int /\ scrollX \in Nat /\ overlayY \in Nat /\ overlayX \in Nat
  BY DEF PaneIInv, ScrollIInv
<1>2. \E y \in Int : Settle(y)
  BY <1>1
<1>3. \E x \in Nat : ClampSideways(x)
  BY <1>1
<1>4. scrollY' \in Nat
  BY <1>1, <1>2, SettleFits
<1>5. scrollX' \in Nat /\ OnText
  BY <1>3, <1>4, ClampFits
<1>6. QED
  BY <1>2, <1>5, SettledStep

-----------------------------------------------------------------------------
(* The steps.                                                               *)

LEMMA ResizeStep ==
    ASSUME PaneIInv, NEW w \in Widths, NEW h \in {r + chromeRows : r \in Heights} \cup {0, 1},
           WindowSize(w, h)
    PROVE  PaneIInv' /\ OpensOn
<1>1. w \in Nat /\ h \in Int
  BY ScreenAssumption, TreeNavAssumption DEF chromeRows
<1>2. bodyRows(h) \in Nat
  <2>1. h - chromeRows \in Int
    BY <1>1 DEF chromeRows
  <2>2. QED
    BY <2>1, MostType DEF bodyRows
<1>3. rows' = bodyRows(h) /\ width' = w
  BY DEF WindowSize, Resize
<1>4. UNCHANGED <<mode, method, inputs, loaded, shown>>
  BY DEF WindowSize, loadVars
<1>5. SizeIInv'
  BY <1>1, <1>2, <1>3, <1>4 DEF SizeIInv, PaneIInv
<1>6. IsContent(shown')
  BY <1>4 DEF PaneIInv, ScrollIInv
<1>7. Settle(scrollY) /\ ClampSideways(scrollX)
  BY DEF WindowSize
<1>8. QED
  BY <1>5, <1>6, <1>7, ClampedStep DEF OpensOn

LEMMA ContentStep ==
    ASSUME PaneIInv, NEW content \in Previews \cup Comparisons, AcceptContent(content)
    PROVE  PaneIInv' /\ OpensOn
<1>1. shown' = content /\ UNCHANGED <<width, rows, mode, method, inputs, loaded>>
  BY DEF AcceptContent, sizeVars, loadVars
<1>2. SizeIInv'
  BY <1>1 DEF SizeIInv, PaneIInv
<1>3. IsContent(shown')
  BY <1>1, AcceptedIsContent DEF SizeIInv, PaneIInv
<1>4. Settle(scrollY) /\ ClampSideways(scrollX)
  BY DEF AcceptContent
<1>5. QED
  BY <1>2, <1>3, <1>4, ClampedStep DEF OpensOn

LEMMA LoadStep ==
    ASSUME PaneIInv, NEW load \in inputs, AcceptLoad(load)
    PROVE  PaneIInv' /\ OpensOn
<1>1. /\ shown' = Nothing /\ loaded' = load /\ scrollX' = 0 /\ Settle(0)
      /\ UNCHANGED <<width, rows, mode, method, inputs>>
  BY DEF AcceptLoad, sizeVars
<1>2. SizeIInv'
  BY <1>1 DEF SizeIInv, PaneIInv
<1>3. IsContent(shown') /\ OpensOn
  BY <1>1 DEF IsContent, OpensOn
<1>4. \E y \in Int : Settle(y)
  BY <1>1
<1>5. scrollX' \in Nat
  BY <1>1
<1>6. QED
  BY <1>2, <1>3, <1>4, <1>5, SettledStep

\* Results and keys that leave all that is on screen, or take it away.
LEMMA QuietSteps ==
    ASSUME PaneIInv,
           \/ ReportMode \/ AcceptNoReload \/ AcceptFailure \/ Esc \/ SwitchPane
           \/ \E m \in {"preview", "compare"} : Show(m)
           \/ Pin \/ Reload \/ OpenPrompt \/ PromptKey
    PROVE  PaneIInv' /\ OpensOn
<1>1. shown' = Nothing \/ Frees
  BY DEF ReportMode, AcceptNoReload, AcceptFailure, Esc, SwitchPane, Show, Pin, Reload, OpenPrompt,
         PromptKey, Frees
<1>2. OpensOn
  BY <1>1, FreesOpens DEF OpensOn
<1>3. mode \in Modes /\ method \in Methods /\ scrollX \in Nat
  BY DEF PaneIInv, SizeIInv, ScrollIInv
<1>4. CASE ReportMode
  <2>1. Quiet
    BY <1>3, <1>4 DEF ReportMode, Quiet, sizeVars, loadVars, scrollVars, overlayVars, navVars, Methods
  <2>2. QED
    BY <1>2, <2>1, QuietStep
<1>5. CASE AcceptNoReload
  <2>1. Quiet
    BY <1>3, <1>5 DEF AcceptNoReload, Quiet, sizeVars, scrollVars, overlayVars, navVars
  <2>2. QED
    BY <1>2, <2>1, QuietStep
<1>6. CASE AcceptFailure
  <2>1. Quiet
    BY <1>3, <1>6 DEF AcceptFailure, Quiet, sizeVars, loadVars, scrollVars, overlayVars, navVars
  <2>2. QED
    BY <1>2, <2>1, QuietStep
<1>7. CASE Esc
  <2>1. Quiet
    BY <1>3, <1>7 DEF Esc, Quiet, sizeVars, loadVars, scrollVars, overlayVars, navVars
  <2>2. QED
    BY <1>2, <2>1, QuietStep
<1>8. CASE SwitchPane
  <2>1. Quiet
    BY <1>3, <1>8 DEF SwitchPane, Quiet, sizeVars, loadVars, scrollVars, overlayVars, navVars
  <2>2. QED
    BY <1>2, <2>1, QuietStep
<1>9. ASSUME NEW m \in {"preview", "compare"}, Show(m) PROVE Quiet
  BY <1>3, <1>9 DEF Show, Quiet, Modes, sizeVars, loadVars, overlayVars, navVars
<1>10. CASE Pin
  <2>1. Quiet
    BY <1>3, <1>10 DEF Pin, Quiet, sizeVars, loadVars, scrollVars, overlayVars, navVars
  <2>2. QED
    BY <1>2, <2>1, QuietStep
<1>11. CASE Reload
  <2>1. Quiet
    BY <1>3, <1>11 DEF Reload, Quiet, sizeVars, scrollVars, overlayVars, navVars
  <2>2. QED
    BY <1>2, <2>1, QuietStep
<1>12. CASE OpenPrompt
  <2>1. Quiet
    BY <1>3, <1>12 DEF OpenPrompt, Quiet, sizeVars, loadVars, scrollVars, overlayVars, navVars
  <2>2. QED
    BY <1>2, <2>1, QuietStep
<1>13. CASE PromptKey
  <2>1. Quiet
    BY <1>3, <1>13 DEF PromptKey, Quiet, sizeVars, loadVars, scrollVars, overlayVars, navVars
  <2>2. QED
    BY <1>2, <2>1, QuietStep
<1>14. QED
  BY <1>2, <1>4, <1>5, <1>6, <1>7, <1>8, <1>9, <1>10, <1>11, <1>12, <1>13, QuietStep

\* Neither the height nor the content changes, and an overlay only closes.
LEMMA RowsStep ==
    ASSUME PaneIInv,
           UNCHANGED <<width, height, rows, inputs, loaded, session, mode, shown, scrollX, method>>,
           overlay' \in {overlay, "none"}, Settle(scrollY) \/ UNCHANGED <<scrollY, overlayVars>>
    PROVE  PaneIInv' /\ OpensOn
<1>1. OpensOn
  BY FreesOpens DEF Frees, sizeVars
<1>2. SizeIInv' /\ IsContent(shown') /\ scrollX' \in Nat /\ scrollY \in Int
  BY DEF PaneIInv, SizeIInv, ScrollIInv
<1>3. CASE Settle(scrollY)
  <2>1. \E y \in Int : Settle(y)
    BY <1>2, <1>3
  <2>2. QED
    BY <1>1, <1>2, <2>1, SettledStep
<1>4. CASE UNCHANGED <<scrollY, overlayVars>>
  <2>1. Quiet
    BY <1>4 DEF Quiet, overlayVars, PaneIInv, SizeIInv, ScrollIInv
  <2>2. QED
    BY <1>1, <2>1, QuietStep
<1>5. QED
  BY <1>3, <1>4

\* A tree key settles or changes nothing that bounds the scroll positions.
LEMMA TreeKeyStep ==
    ASSUME PaneIInv, TreeKey
    PROVE  PaneIInv' /\ OpensOn
<1>1. rows' = rows
  <2>1. KeyUp \/ KeyDown \/ KeyPageUp \/ KeyPageDown \/ KeyHome \/ KeyEnd \/ KeyLeft \/ KeyRight
    BY DEF TreeKey
  <2>2. CASE KeyUp \/ KeyDown \/ KeyPageUp \/ KeyPageDown \/ KeyHome \/ KeyEnd
    BY <2>2 DEF KeyUp, KeyDown, KeyPageUp, KeyPageDown, KeyHome, KeyEnd, Choose
  <2>3. CASE KeyLeft
    BY <2>3 DEF KeyLeft, Fold, Choose
  <2>4. CASE KeyRight
    BY <2>4 DEF KeyRight, Choose
  <2>5. QED
    BY <2>1, <2>2, <2>3, <2>4
<1>2. UNCHANGED <<width, height, inputs, loaded, session, mode, overlay, shown, scrollX, method>>
  BY DEF TreeKey, sizeVars, loadVars
<1>3. Settle(scrollY) \/ UNCHANGED <<scrollY, overlayVars>>
  BY DEF TreeKey
<1>4. QED
  BY <1>1, <1>2, <1>3, RowsStep

\* The prompt selects a state or changes nothing.
LEMMA PromptStep ==
    ASSUME PaneIInv, EnterPrompt
    PROVE  PaneIInv' /\ OpensOn
<1>1. UNCHANGED <<width, height, inputs, loaded, session, mode, shown, scrollX, method>> /\ overlay' = "none"
  BY DEF EnterPrompt, sizeVars, loadVars
<1>2. CASE Known
  <2>1. rows' = rows /\ Settle(scrollY)
    BY <1>2 DEF EnterPrompt, Jump
  <2>2. QED
    BY <1>1, <2>1, RowsStep
<1>3. CASE ~Known
  <2>1. rows' = rows /\ UNCHANGED <<scrollY, overlayVars>>
    BY <1>3 DEF EnterPrompt, navVars
  <2>2. QED
    BY <1>1, <2>1, RowsStep
<1>4. QED
  BY <1>2, <1>3

\* The first line of an overlay, at its start.
LEMMA ToggleStep ==
    ASSUME PaneIInv, NEW o \in {"help", "export"}, Toggle(o)
    PROVE  PaneIInv' /\ OpensOn
<1>1. UNCHANGED <<width, height, rows, inputs, loaded, session, mode, shown, scrollY, scrollX, method>>
  BY DEF Toggle, navVars, sizeVars, loadVars, scrollVars
<1>2. \/ overlay' = "none" /\ UNCHANGED overlayVars
      \/ overlayY' = 0 /\ overlayX' = 0
  BY DEF Toggle
<1>3. SizeIInv'
  BY <1>1 DEF PaneIInv, SizeIInv
<1>4. IsContent(shown') /\ scrollY' \in Nat /\ scrollX' \in Nat /\ ContentFits(shown', mode', scrollY', rows')
  BY <1>1 DEF PaneIInv, ScrollIInv
<1>5. overlayY' \in Nat /\ overlayX' \in Nat
  BY <1>2 DEF overlayVars, PaneIInv, ScrollIInv
<1>6. OverlayFits(overlay', session', overlayY', rows')
  <2>1. CASE overlay' = "none"
    BY <2>1 DEF OverlayFits
  <2>2. CASE overlayY' = 0
    <3>1. OverlayLen(overlay', session') \in Nat /\ rows' \in Nat
      BY <1>3, OverlayLenType DEF SizeIInv
    <3>2. Most(OverlayLen(overlay', session') - rows', 0) \in Nat
      BY <3>1, MostType
    <3>3. QED
      BY <2>2, <3>2 DEF OverlayFits
  <2>3. QED
    BY <1>2, <2>1, <2>2
<1>7. OpensOn
  BY <1>1, FreesOpens DEF Frees, sizeVars
<1>8. QED
  BY <1>3, <1>4, <1>5, <1>6, <1>7 DEF PaneIInv, ScrollIInv

\* An overlay stops at its last line and the end of its widest one.
LEMMA OverlayStep ==
    ASSUME PaneIInv, ScrollOverlay
    PROVE  PaneIInv' /\ OpensOn
<1>1. /\ UNCHANGED <<width, height, rows, inputs, loaded, session, mode, overlay, shown, scrollY, scrollX, method>>
      /\ Overlaid
  BY DEF ScrollOverlay, navVars, sizeVars, loadVars, scrollVars
<1>2. SizeIInv'
  BY <1>1 DEF PaneIInv, SizeIInv
<1>3. IsContent(shown') /\ scrollY' \in Nat /\ scrollX' \in Nat /\ ContentFits(shown', mode', scrollY', rows')
  BY <1>1 DEF PaneIInv, ScrollIInv
<1>4. /\ overlayLength \in Nat /\ rows \in Nat /\ width \in Nat /\ horizontalStep \in Nat
      /\ overlayY \in Nat /\ overlayX \in Nat
  BY Readings, OverlayLenType, ScreenAssumption DEF PaneIInv, SizeIInv, ScrollIInv
<1>5. PICK at \in LET page == Most(rows, 1)
                  IN {<<y, overlayX>> : y \in {overlayY - 1, overlayY + 1, overlayY - page,
                                               overlayY + page, 0, overlayLength}}
                     \cup {<<overlayY, overlayX + step>> : step \in {-horizontalStep, horizontalStep}} :
           /\ overlayY' = Clamp(at[1], 0, Most(overlayLength - rows, 0))
           /\ overlayX' = Clamp(at[2], 0, Most(widestOverlay - width, 0))
  BY DEF ScrollOverlay
<1>6. widestOverlay \in Nat
  <2>1. loaded.path \in Seq(Rune)
    <3>1. loaded \in UNION Inputs
      BY DEF PaneIInv, SizeIInv
    <3>2. QED
      BY <3>1, ScreenAssumption
  <2>2. overlayLines \in Seq(Seq(Glyph)) /\ overlayLines # <<>>
    BY <1>1, <2>1, OverlayLinesType
  <2>3. method \in Methods
    BY DEF PaneIInv, SizeIInv
  <2>4. QED
    BY <2>2, <2>3, WidestLineType DEF widestOverlay
<1>7. at[1] \in Int /\ at[2] \in Int
  <2>1. Most(rows, 1) \in Int
    BY <1>4 DEF Most
  <2>2. QED
    BY <1>4, <2>1
<1>8. overlayLength - rows \in Int /\ widestOverlay - width \in Int
  BY <1>4, <1>6
<1>9. Most(overlayLength - rows, 0) \in Nat /\ Most(widestOverlay - width, 0) \in Nat
  BY <1>8, MostType
<1>10. overlayY' \in Nat /\ overlayX' \in Nat /\ overlayY' <= Most(overlayLength - rows, 0)
  BY <1>5, <1>7, <1>9, ClampType
<1>11. OverlayFits(overlay', session', overlayY', rows')
  BY <1>1, <1>10, Readings DEF OverlayFits
<1>12. OpensOn
  BY <1>1, FreesOpens DEF Frees, sizeVars
<1>13. QED
  BY <1>2, <1>3, <1>10, <1>11, <1>12 DEF PaneIInv, ScrollIInv

\* A key of the content pane.
LEMMA ContentKeyStep ==
    ASSUME PaneIInv, ContentKey
    PROVE  PaneIInv' /\ OpensOn
<1>1. UNCHANGED <<width, height, rows, inputs, loaded, session, mode, overlay, shown, method>>
  BY DEF ContentKey, sizeVars, loadVars
<1>2. SizeIInv' /\ IsContent(shown')
  BY <1>1 DEF PaneIInv, SizeIInv, ScrollIInv
<1>3. contentLen \in Nat /\ textWidth \in Nat /\ widestContent \in Nat
  <2>1. /\ width \in Nat /\ rows \in Nat /\ mode \in Modes /\ method \in Methods /\ IsContent(shown)
        /\ scrollY \in Nat
    BY DEF PaneIInv, SizeIInv, ScrollIInv
  <2>2. contentLen \in Nat
    BY <2>1, Readings, LenOfType
  <2>3. textWidth \in Nat
    BY <2>1, Readings, TextWidthType
  <2>4. WidestOf(shown, RowsFrom(scrollY, Most(rows - 1, 0), LenOf(shown, mode)), method) \in Nat
    BY <2>1, WidestIs
  <2>5. VisibleRows = RowsFrom(scrollY, Most(rows - 1, 0), LenOf(shown, mode))
    BY Readings DEF VisibleRows
  <2>6. QED
    BY <2>2, <2>3, <2>4, <2>5 DEF widestContent
<1>4. PICK page \in Int, most \in Nat :
          page = Most(contentRows, 1) /\ most = Most(widestContent - textWidth, 0)
  <2>1. rows \in Nat
    BY DEF PaneIInv, SizeIInv
  <2>2. contentRows \in Nat
    BY <2>1, Readings, MostType
  <2>3. Most(contentRows, 1) \in Int
    BY <2>2 DEF Most
  <2>4. widestContent - textWidth \in Int
    BY <1>3
  <2>5. QED
    BY <2>3, <2>4, MostType
<1>5. \/ /\ \E y \in {scrollY - 1, scrollY + 1, scrollY - page, scrollY + page, 0, contentLen} : Settle(y)
         /\ UNCHANGED scrollX
      \/ /\ scrollX' \in {Most(scrollX - horizontalStep, 0), Least(scrollX + horizontalStep, most), 0, most}
         /\ Settle(scrollY)
  BY <1>4 DEF ContentKey
<1>6. scrollY \in Nat /\ scrollX \in Nat /\ horizontalStep \in Nat
  BY ScreenAssumption DEF PaneIInv, ScrollIInv
<1>7. \E y \in Int : Settle(y)
  BY <1>3, <1>4, <1>5, <1>6
<1>8. scrollX' \in Nat
  <2>1. Most(scrollX - horizontalStep, 0) \in Nat /\ Least(scrollX + horizontalStep, most) \in Nat
    BY <1>4, <1>6 DEF Most, Least
  <2>2. QED
    BY <1>4, <1>5, <1>6, <2>1
<1>9. OpensOn
  BY <1>1, FreesOpens DEF Frees, sizeVars
<1>10. QED
  BY <1>2, <1>7, <1>8, <1>9, SettledStep

LEMMA StepScrolls == PaneIInv /\ [ScreenNext]_screenVars => PaneIInv' /\ (ScreenNext => OpensOn)
<1> SUFFICES ASSUME PaneIInv, [ScreenNext]_screenVars PROVE PaneIInv' /\ (ScreenNext => OpensOn)
  OBVIOUS
<1>1. CASE ScreenNext
  <2>1. ASSUME NEW w \in Widths, NEW h \in {r + chromeRows : r \in Heights} \cup {0, 1}, WindowSize(w, h)
        PROVE  PaneIInv' /\ OpensOn
    BY <2>1, ResizeStep
  <2>2. ASSUME NEW load \in inputs, AcceptLoad(load) PROVE PaneIInv' /\ OpensOn
    BY <2>2, LoadStep
  <2>3. ASSUME NEW content \in Previews \cup Comparisons, AcceptContent(content)
        PROVE  PaneIInv' /\ OpensOn
    BY <2>3, ContentStep
  <2>4. ASSUME NEW o \in {"help", "export"}, Toggle(o) PROVE PaneIInv' /\ OpensOn
    BY <2>4, ToggleStep
  <2>5. CASE ScrollOverlay
    BY <2>5, OverlayStep
  <2>6. CASE TreeKey
    BY <2>6, TreeKeyStep
  <2>7. CASE ContentKey
    BY <2>7, ContentKeyStep
  <2>8. CASE EnterPrompt
    BY <2>8, PromptStep
  <2>9. CASE \/ ReportMode \/ AcceptNoReload \/ AcceptFailure \/ Esc \/ SwitchPane
             \/ \E m \in {"preview", "compare"} : Show(m)
             \/ Pin \/ Reload \/ OpenPrompt \/ PromptKey
    BY <2>9, QuietSteps
  <2>10. QED
    BY <1>1, <2>1, <2>2, <2>3, <2>4, <2>5, <2>6, <2>7, <2>8, <2>9 DEF ScreenNext
<1>2. CASE UNCHANGED screenVars
  <2>1. /\ UNCHANGED <<width, height, rows, inputs, loaded, session, mode, overlay, shown, scrollY, scrollX,
                       overlayY, overlayX, method>>
    BY <1>2 DEF screenVars, navVars, sizeVars, loadVars, scrollVars, overlayVars
  <2>2. PaneIInv'
    BY <2>1 DEF PaneIInv, SizeIInv, ScrollIInv
  <2>3. OpensOn
    BY <2>1, FreesOpens DEF Frees, sizeVars
  <2>4. QED
    BY <2>2, <2>3
<1>3. QED
  BY <1>1, <1>2

\* No key, result, reload or resize leaves the content scrolled past its last
\* row, an overlay past its last line, or either left of its start, whatever the
\* lines, sizes and histories (settle of model.go).
THEOREM ScrollStays == ScreenSpec => []ScrollInRange
<1>1. PaneIInv /\ [ScreenNext]_screenVars => PaneIInv'
  BY StepScrolls
<1>2. PaneIInv => ScrollInRange
  <2> SUFFICES ASSUME PaneIInv PROVE ScrollInRange
    OBVIOUS
  <2>1. scrollY \in Nat /\ scrollX \in Nat /\ overlayY \in Nat /\ overlayX \in Nat /\ rows \in Nat
    BY DEF PaneIInv, ScrollIInv, SizeIInv
  <2>2. shown.mode = mode => scrollY <= Most(contentLen - contentRows, 0)
    BY Readings DEF PaneIInv, ScrollIInv, ContentFits
  <2>3. Overlaid => overlayY <= Most(overlayLength - rows, 0)
    BY Readings DEF PaneIInv, ScrollIInv, OverlayFits, Overlaid
  <2>4. overlayLength \in Nat
    BY Readings, OverlayLenType
  <2>5. Most(overlayLength - rows, 0) \in Nat
    <3>1. overlayLength - rows \in Int
      BY <2>1, <2>4
    <3>2. QED
      BY <3>1, MostType
  <2>6. QED
    BY <2>1, <2>2, <2>3, <2>5 DEF ScrollInRange
<1>3. QED
  BY <1>1, <1>2, InitScrolls, PTL DEF ScreenSpec

\* A result or a new size never leaves the content's sideways scroll past the end
\* of the widest row on screen, whatever the rows it had been set over
\* (clampSideways of model.go).
THEOREM ScrollOpensOnText == ScreenSpec => OpensOnText
<1>1. PaneIInv /\ [ScreenNext]_screenVars => PaneIInv'
  BY StepScrolls
<1>2. PaneIInv /\ [ScreenNext]_screenVars
        => [shown' # Nothing /\ (shown' # shown \/ width' # width \/ height' # height) =>
             scrollX' = 0 \/ scrollX' + textWidth' <= WidestOf(shown', VisibleRows', method')]_screenVars
  BY StepScrolls DEF OpensOn, OnText
<1>3. QED
  BY <1>1, <1>2, InitScrolls, PTL DEF ScreenSpec, OpensOnText
=============================================================================
