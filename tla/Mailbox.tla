------------------------------ MODULE Mailbox ------------------------------
(* What the browser may assume of its background worker, whatever           *)
(* goroutines, channels and locks implement it (internal/tui/worker.go):    *)
(* a slot that keeps the newest request only, one request worked on at a    *)
(* time, and one answer for every request that was started.                 *)
(*                                                                          *)
(* Worker.tla is shown to implement this module and Browser.tla is built    *)
(* on it, so the browser is checked without the worker's inner steps.       *)
CONSTANTS
    Request,      \* the requests that can be submitted
    NoRequest     \* none of them: an empty slot, an idle worker

VARIABLES
    slot,         \* the request waiting to be started, or NoRequest
    active,       \* the request started and not yet answered, or NoRequest
    working,      \* TRUE while the active request is being performed
    obsolete,     \* TRUE once the request being performed was told to stop
    open          \* FALSE once the worker is closing

boxVars == <<slot, active, working, obsolete, open>>

BoxTypeOK ==
    /\ slot \in Request \cup {NoRequest}
    /\ active \in Request \cup {NoRequest}
    /\ working \in BOOLEAN
    /\ obsolete \in BOOLEAN
    /\ open \in BOOLEAN

BoxInit ==
    /\ slot = NoRequest
    /\ active = NoRequest
    /\ working = FALSE
    /\ obsolete = FALSE
    /\ open = TRUE

----------------------------------------------------------------------------
(* The newest request replaces a waiting one and makes the one being        *)
(* performed obsolete.                                                      *)
Put(r) ==
    /\ open
    /\ slot' = r
    /\ obsolete' = working
    /\ UNCHANGED <<active, working, open>>

Start ==
    /\ active = NoRequest
    /\ slot # NoRequest
    /\ active' = slot
    /\ slot' = NoRequest
    /\ working' = TRUE
    /\ UNCHANGED <<obsolete, open>>

(* The work is over, by success, failure or panic; its answer waits for     *)
(* a reader.                                                                *)
Finish ==
    /\ working
    /\ working' = FALSE
    /\ obsolete' = FALSE
    /\ UNCHANGED <<slot, active, open>>

(* A reader takes the answer.                                               *)
Answer ==
    /\ active # NoRequest
    /\ ~working
    /\ active' = NoRequest
    /\ UNCHANGED <<slot, working, obsolete, open>>

(* Closing refuses new requests and forgets the waiting one, then tells the *)
(* active one to stop; only then may an answer be dropped.                  *)
Shut ==
    /\ open' = FALSE
    /\ slot' = NoRequest
    /\ UNCHANGED <<active, working, obsolete>>

Stop ==
    /\ ~open
    /\ obsolete' = working
    /\ UNCHANGED <<slot, active, working, open>>

Drop ==
    /\ ~open
    /\ Answer

----------------------------------------------------------------------------
BoxNext ==
    \/ \E r \in Request : Put(r)
    \/ Start
    \/ Finish
    \/ Answer
    \/ Shut
    \/ Stop
    \/ Drop

BoxSpec == BoxInit /\ [][BoxNext]_boxVars

(* A waiting request is started once the worker is free, an obsolete one    *)
(* ends, and answers are taken. Nothing promises that a request nobody has  *)
(* superseded ever ends: it may be reading a slow disk.                     *)
BoxFairness ==
    /\ WF_boxVars(Start)
    /\ WF_boxVars(obsolete /\ Finish)
    /\ WF_boxVars(Answer)

=============================================================================
