------------------------------- MODULE Worker -------------------------------
(* The browser's background worker, internal/tui/worker.go: one goroutine   *)
(* that performs requests one at a time, a mailbox of one pending request   *)
(* guarded by a mutex, a wake-up channel of capacity one, and an unbuffered *)
(* channel of results.                                                      *)
(*                                                                          *)
(* Every section of code under w.mu is one action; every channel operation  *)
(* is one action; what a request does is out of scope, only when it starts, *)
(* may be cancelled, and ends. Requests are numbered in submission order.   *)
EXTENDS Naturals

CONSTANT MaxSubmits       \* a bound on how many requests are submitted

ASSUME MaxSubmitsAssumption == MaxSubmits \in Nat

Submission == 1 .. MaxSubmits
NoSubmission == 0            \* a nil *request

VARIABLES
    pendingRequest,      \* w.pending
    installed,    \* w.cancel # nil
    cancelled,    \* the context derived last for a request is done
    closed,       \* w.closed
    stopped,      \* w.base is done
    wake,         \* the wake channel holds a token
    pc,           \* where the loop goroutine is
    cur,          \* the last request the loop took
    submitted,    \* how many requests were accepted (history)
    delivered,    \* the last request whose result was received (history)
    waiting,      \* a call of next is blocked in its select
    closing       \* where the goroutine that calls close is

loopVars == <<wake, pc, cur>>
workerVars == <<pendingRequest, installed, cancelled, closed, stopped, wake, pc, cur,
          submitted, delivered, waiting, closing>>

(* "select": at the top of the loop; "woken": before the lock; "running":   *)
(* in w.run; "returned": before the second lock; "sending": in the select   *)
(* over results; "done": the goroutine has ended and closed w.done.         *)
PC == {"select", "woken", "running", "returned", "sending", "done"}
Busy == {"running", "returned", "sending"}

WorkerTypeOK ==
    /\ pendingRequest \in Submission \cup {NoSubmission}
    /\ installed \in BOOLEAN
    /\ cancelled \in BOOLEAN
    /\ closed \in BOOLEAN
    /\ stopped \in BOOLEAN
    /\ wake \in BOOLEAN
    /\ pc \in PC
    /\ cur \in Submission \cup {NoSubmission}
    /\ pc \in Busy => cur # NoSubmission      \* the loop dereferences it
    /\ submitted \in 0 .. MaxSubmits
    /\ delivered \in Submission \cup {NoSubmission}
    /\ waiting \in BOOLEAN
    /\ closing \in {"out", "marked", "joining", "joined"}

WorkerInit ==
    /\ pendingRequest = NoSubmission
    /\ installed = FALSE
    /\ cancelled = FALSE
    /\ closed = FALSE
    /\ stopped = FALSE
    /\ wake = FALSE
    /\ pc = "select"
    /\ cur = NoSubmission
    /\ submitted = 0
    /\ delivered = NoSubmission
    /\ waiting = FALSE
    /\ closing = "out"

----------------------------------------------------------------------------
(* Faults the checks must notice: a submit that does not cancel the running *)
(* request, and one that sends a wake-up only while nothing runs.           *)
SubmitWithoutCancel ==
    /\ submitted < MaxSubmits
    /\ ~closed
    /\ submitted' = submitted + 1
    /\ pendingRequest' = submitted'
    /\ wake' = TRUE
    /\ UNCHANGED <<installed, cancelled, closed, stopped, pc, cur, delivered, waiting, closing>>

SubmitWakingIdleOnly ==
    /\ submitted < MaxSubmits
    /\ ~closed
    /\ submitted' = submitted + 1
    /\ cancelled' = (cancelled \/ installed)
    /\ pendingRequest' = submitted'
    /\ wake' = (wake \/ ~installed)
    /\ UNCHANGED <<installed, closed, stopped, pc, cur, delivered, waiting, closing>>

(* submit: a closed worker refuses, which changes nothing.                  *)
Submit ==
    /\ submitted < MaxSubmits
    /\ ~closed
    /\ submitted' = submitted + 1
    /\ cancelled' = (cancelled \/ installed)
    /\ pendingRequest' = submitted'
    /\ wake' = TRUE
    /\ UNCHANGED <<installed, closed, stopped, pc, cur, delivered, waiting, closing>>

(* close, which may be called again once it has returned: the section under *)
(* the lock, w.stop, and the wait for w.done.                               *)
CloseMark ==
    /\ closing \in {"out", "joined"}
    /\ closing' = "marked"
    /\ closed' = TRUE
    /\ pendingRequest' = NoSubmission
    /\ UNCHANGED <<installed, cancelled, stopped, loopVars, submitted, delivered, waiting>>

CloseStop ==
    /\ closing = "marked"
    /\ closing' = "joining"
    /\ stopped' = TRUE
    /\ cancelled' = (cancelled \/ installed)
    /\ UNCHANGED <<pendingRequest, installed, closed, loopVars, submitted, delivered, waiting>>

CloseJoin ==
    /\ closing = "joining"
    /\ pc = "done"
    /\ closing' = "joined"
    /\ UNCHANGED <<pendingRequest, installed, cancelled, closed, stopped, loopVars,
                   submitted, delivered, waiting>>

(* next: the call blocks, and ends with a result (Deliver) or, once the     *)
(* loop has ended, with nil.                                                *)
NextCall ==
    /\ ~waiting
    /\ waiting' = TRUE
    /\ UNCHANGED <<pendingRequest, installed, cancelled, closed, stopped, loopVars,
                   submitted, delivered, closing>>

NextNil ==
    /\ waiting
    /\ pc = "done"
    /\ waiting' = FALSE
    /\ UNCHANGED <<pendingRequest, installed, cancelled, closed, stopped, loopVars,
                   submitted, delivered, closing>>

----------------------------------------------------------------------------
(* loop. When both channels of its first select are ready, Go picks either. *)
Exit ==
    /\ pc = "select"
    /\ stopped
    /\ pc' = "done"
    /\ UNCHANGED <<pendingRequest, installed, cancelled, closed, stopped, wake, cur,
                   submitted, delivered, waiting, closing>>

Wake ==
    /\ pc = "select"
    /\ wake
    /\ wake' = FALSE
    /\ pc' = "woken"
    /\ UNCHANGED <<pendingRequest, installed, cancelled, closed, stopped, cur,
                   submitted, delivered, waiting, closing>>

(* Under the lock: nothing is pending any more ...                          *)
TakeNothing ==
    /\ pc = "woken"
    /\ pendingRequest = NoSubmission
    /\ pc' = "select"
    /\ UNCHANGED <<pendingRequest, installed, cancelled, closed, stopped, wake, cur,
                   submitted, delivered, waiting, closing>>

(* Faults: a nil request is taken too, and the request taken stays pending. *)
TakeUnchecked ==
    /\ pc = "woken"
    /\ pc' = "running"
    /\ cur' = pendingRequest
    /\ pendingRequest' = NoSubmission
    /\ installed' = TRUE
    /\ cancelled' = stopped
    /\ UNCHANGED <<closed, stopped, wake, submitted, delivered, waiting, closing>>

TakeKeepingPending ==
    /\ pc = "woken"
    /\ pendingRequest # NoSubmission
    /\ pc' = "running"
    /\ cur' = pendingRequest
    /\ installed' = TRUE
    /\ cancelled' = stopped
    /\ UNCHANGED <<pendingRequest, closed, stopped, wake, submitted, delivered, waiting, closing>>

(* ... or the pending request is taken and its context, derived from the    *)
(* base context, becomes the one that submit and close cancel.              *)
Take ==
    /\ pc = "woken"
    /\ pendingRequest # NoSubmission
    /\ pc' = "running"
    /\ cur' = pendingRequest
    /\ pendingRequest' = NoSubmission
    /\ installed' = TRUE
    /\ cancelled' = stopped
    /\ UNCHANGED <<closed, stopped, wake, submitted, delivered, waiting, closing>>

(* run returns: perform answered, or panicked and run made the panic a      *)
(* crash result. The loop treats both alike.                                *)
Return ==
    /\ pc = "running"
    /\ pc' = "returned"
    /\ UNCHANGED <<pendingRequest, installed, cancelled, closed, stopped, wake, cur,
                   submitted, delivered, waiting, closing>>

(* Fault: the result of a request that was cancelled is not sent.           *)
ClearDroppingCancelled ==
    /\ pc = "returned"
    /\ pc' = (IF cancelled THEN "select" ELSE "sending")
    /\ installed' = FALSE
    /\ cancelled' = TRUE
    /\ UNCHANGED <<pendingRequest, closed, stopped, wake, cur, submitted, delivered, waiting, closing>>

(* The cancel function is removed under the lock, then called to release    *)
(* the context.                                                             *)
Clear ==
    /\ pc = "returned"
    /\ pc' = "sending"
    /\ installed' = FALSE
    /\ cancelled' = TRUE
    /\ UNCHANGED <<pendingRequest, closed, stopped, wake, cur, submitted, delivered, waiting, closing>>

(* The send of the loop's last select and the receive of a waiting next.    *)
Deliver ==
    /\ pc = "sending"
    /\ waiting
    /\ delivered' = cur
    /\ waiting' = FALSE
    /\ pc' = "select"
    /\ UNCHANGED <<pendingRequest, installed, cancelled, closed, stopped, wake, cur,
                   submitted, closing>>

(* Fault: the send does not watch for the stop, so only a reader frees the  *)
(* loop.                                                                    *)
AbandonRead ==
    /\ pc = "sending"
    /\ stopped
    /\ waiting
    /\ pc' = "done"
    /\ UNCHANGED <<pendingRequest, installed, cancelled, closed, stopped, wake, cur,
                   submitted, delivered, waiting, closing>>

Abandon ==
    /\ pc = "sending"
    /\ stopped
    /\ pc' = "done"
    /\ UNCHANGED <<pendingRequest, installed, cancelled, closed, stopped, wake, cur,
                   submitted, delivered, waiting, closing>>

----------------------------------------------------------------------------
WorkerNext ==
    \/ Submit \/ CloseMark \/ CloseStop \/ CloseJoin
    \/ NextCall \/ NextNil
    \/ Exit \/ Wake \/ TakeNothing \/ Take \/ Return \/ Clear \/ Deliver \/ Abandon

WorkerSpec == WorkerInit /\ [][WorkerNext]_workerVars

(* The Go scheduler runs every goroutine that can run. A request that was   *)
(* cancelled returns, because all the work behind perform polls its         *)
(* context; one that was not may take as long as its input takes to read.   *)
LoopFairness ==
    /\ WF_workerVars(Exit) /\ WF_workerVars(Wake) /\ WF_workerVars(TakeNothing \/ Take)
    /\ WF_workerVars(cancelled /\ Return)
    /\ WF_workerVars(Clear) /\ WF_workerVars(Deliver) /\ WF_workerVars(Abandon)

(* The model re-arms next after every result until the program ends, when   *)
(* it also closes the worker; close runs to its end.                        *)
CallerFairness ==
    WF_workerVars(~closed /\ NextCall) /\ WF_workerVars(CloseStop) /\ WF_workerVars(CloseJoin)

WorkerFairSpec == WorkerSpec /\ LoopFairness /\ CallerFairness

----------------------------------------------------------------------------
(* A pending request is never forgotten: while one waits, either a wake-up  *)
(* is queued or the loop is between receiving one and looking under the     *)
(* lock. Capacity one and a dropped second wake-up lose nothing (submit's   *)
(* default case).                                                           *)
NoLostWakeup == pendingRequest # NoSubmission => wake \/ pc = "woken"

(* The request being performed is obsolete as soon as a newer one waits or  *)
(* the worker closes, and its context says so: nobody waits for work whose  *)
(* result will be discarded.                                                *)
SupersededIsCancelled ==
    pc = "running" /\ (pendingRequest # NoSubmission \/ stopped) => cancelled

(* A request nobody superseded is never told to stop. A load in particular  *)
(* is not cancelled by a wake-up or a cancel function left from before.     *)
NewestIsNotCancelled ==
    pc = "running" /\ cancelled => cur < submitted \/ stopped

(* "A worker delivers exactly one result for every request it starts,       *)
(* unless it is closing": whatever was taken is in hand or was received.    *)
EveryStartIsAnswered == cur # delivered => pc \in Busy \/ stopped

(* No request is lost: one that was accepted waits with a wake-up on its    *)
(* way, is in hand, was answered, or was replaced by a newer one.           *)
NothingIsLost == NoLostWakeup /\ EveryStartIsAnswered

(* The context of the work being performed is done exactly when that work   *)
(* is superseded or the worker stops.                                       *)
CancelledExactly == SupersededIsCancelled /\ NewestIsNotCancelled

(* Results are received in the order of submission and none twice, although *)
(* requests may be skipped: an old answer never follows a newer one.        *)
ResultsInOrder == [][Deliver => delivered' > delivered]_workerVars

(* Once close has marked the worker, no request starts, even if a wake-up   *)
(* was queued or received before; once close returns the goroutine is gone  *)
(* and none of its work is left running.                                    *)
NothingStartsOnceClosed ==
    [][pc # "running" /\ pc' = "running" => ~closed /\ ~closed']_workerVars

JoinedMeansGone == closing = "joined" => pc = "done" /\ pendingRequest = NoSubmission

(* close returns, whatever the loop was doing and whether or not anybody    *)
(* is there to receive a result.                                            *)
CloseReturns == closing = "marked" ~> closing = "joined"

----------------------------------------------------------------------------
(* The worker implements the mailbox.                                       *)
Contract == INSTANCE Mailbox WITH
    Request <- Submission,
    NoRequest <- NoSubmission,
    slot <- pendingRequest,
    active <- IF pc \in Busy THEN cur ELSE NoSubmission,
    working <- pc = "running",
    obsolete <- pc = "running" /\ cancelled,
    open <- ~closed

(* Every step of the goroutines is a step of the mailbox or invisible in    *)
(* it.                                                                      *)
ImplementsMailbox == Contract!BoxSpec

(* The mailbox's progress follows from the scheduler's fairness and from a  *)
(* model that keeps one call of next outstanding.                           *)
ImplementsFairMailbox == Contract!BoxFairness
=============================================================================
