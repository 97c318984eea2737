------------------------------ MODULE Browser ------------------------------
(* The interactive browser: the model that Bubble Tea updates               *)
(* (internal/tui/model.go), the engine that performs its requests           *)
(* (internal/tui/session.go) on the worker (Mailbox.tla), and the command   *)
(* that carries one result at a time back to the model.                     *)
(*                                                                          *)
(* Positions in the tree, node IDs, sessions and width methods are modelled *)
(* because an answer can be wrong in each of them. Folds, scrolling,        *)
(* overlays and the prompt only decide which of these keys can be pressed   *)
(* next, so every key is simply enabled here.                               *)
EXTENDS Naturals, Sequences

CONSTANTS
    NodeId,           \* node IDs that occur in histories
    Histories,        \* the histories a load may find: [ids, reference]
    MaxLoads,         \* bound: how many loads are started
    MaxSelections     \* bound: no key is pressed past this generation

(* A history lists its nodes in preorder, each once, and its reference is   *)
(* one of them. (The code counts positions from 0, TLA+ from 1.)            *)
ASSUME HistoriesAssumption ==
    /\ MaxLoads \in Nat \ {0}
    /\ MaxSelections \in Nat
    /\ \A h \in Histories :
        /\ h.ids \in Seq(NodeId)
        /\ \A p, q \in DOMAIN h.ids : h.ids[p] = h.ids[q] => p = q
        /\ h.reference \in DOMAIN h.ids

VARIABLES
    \* the model
    session,      \* the installed load
    load,         \* generation of the last load started
    selection,    \* generation of what the content pane should show
    loading, selected, origin, mode, method, pending,
    failure,      \* m.failure # nil
    shown,        \* m.doc or m.cmp, whichever is set
    fatal,        \* m.fatal # nil
    quit,         \* a command that ends the program was returned
    ended,        \* program.Run has returned
    \* results on their way to the model
    armed,        \* a call of the worker's next is outstanding
    inbox,        \* the result it returned, not yet seen by Update
    \* the worker, and the result it is sending
    slot, active, working, obsolete, open,
    answer,
    \* the engine: its width method, and the cache's owner and documents
    engine

modelVars == <<session, load, selection, loading, selected, origin, mode, method,
               pending, failure, shown, fatal>>
programVars == <<quit, ended>>
replyVars == <<armed, inbox>>
boxVars == <<slot, active, working, obsolete, open>>
vars == <<modelVars, programVars, replyVars, boxVars, answer, engine>>

----------------------------------------------------------------------------
Methods == {"runes", "clusters"}
Modes == {"preview", "compare"}
Loads == 0 .. MaxLoads      \* 0 is no load: a nil session

NoSession == [load |-> 0, ids |-> << >>, reference |-> 0]
SessionOf(n, h) == [load |-> n, ids |-> h.ids, reference |-> h.reference]
Sessions == {SessionOf(n, h) : n \in 1 .. MaxLoads, h \in Histories}

(* A prepared document: the load and node it was reconstructed from and the *)
(* method its columns follow.                                               *)
Doc(n, id, m) == [load |-> n, id |-> id, method |-> m]
Docs == [load : 1 .. MaxLoads, id : NodeId, method : Methods]
NoDoc == [load |-> 0]

(* What a preview or a comparison holds.                                    *)
Preview(d) == [mode |-> "preview", from |-> NoDoc, to |-> d]
Comparison(c, d) == [mode |-> "compare", from |-> c, to |-> d]
NoContent == [mode |-> "none"]
Contents == {Preview(d) : d \in Docs} \cup {Comparison(c, d) : c, d \in Docs}

LoadRequest(n, s) == [kind |-> "load", load |-> n, selection |-> s]
LoadRequests == [kind : {"load"}, load : 1 .. MaxLoads, selection : Nat]
ContentRequests ==
    [kind : Modes, load : 1 .. MaxLoads, selection : Nat, session : 1 .. MaxLoads,
     origin : NodeId, target : NodeId, method : Methods]
Request == LoadRequests \cup ContentRequests
NoRequest == [kind |-> "none"]

Box == INSTANCE Mailbox

(* A result: its request, and the session or content it carries.            *)
NoResult == [outcome |-> "none"]
Failed(r) == [request |-> r, outcome |-> "failed"]
Crash(r) == [request |-> r, outcome |-> "crash"]
Loaded(r, s) == [request |-> r, outcome |-> "ok", session |-> s]
Prepared(r, c) == [request |-> r, outcome |-> "ok", content |-> c]
Results ==
    {Failed(r) : r \in Request} \cup {Crash(r) : r \in Request}
        \cup {Loaded(r, s) : r \in LoadRequests, s \in Sessions}
        \cup {Prepared(r, c) : r \in ContentRequests, c \in Contents}

----------------------------------------------------------------------------
Init ==
    /\ session = NoSession
    \* model.Init has started the first load
    /\ load = 1
    /\ selection = 1
    /\ loading = TRUE
    /\ selected = 0
    /\ origin = 0
    /\ mode = "preview"
    /\ method = "runes"
    /\ pending = FALSE
    /\ failure = FALSE
    /\ shown = NoContent
    /\ fatal = FALSE
    /\ quit = FALSE
    /\ ended = FALSE
    /\ armed = TRUE
    /\ inbox = NoResult
    /\ slot = LoadRequest(1, 1)
    /\ active = NoRequest
    /\ working = FALSE
    /\ obsolete = FALSE
    /\ open = TRUE
    /\ answer = NoResult
    /\ engine = [method |-> "runes", owner |-> 0, docs |-> {}]

----------------------------------------------------------------------------
(* request(): asks for what the content pane should now show, from the      *)
(* fields the calling handler has just set. The worker is open for as long  *)
(* as Update runs, so submit accepts. (A preview has no origin; its request *)
(* repeats the target in that field.)                                       *)
Wanted ==
    [kind |-> mode, load |-> load, selection |-> selection, session |-> session.load,
     origin |-> session.ids[IF mode = "compare" THEN origin ELSE selected],
     target |-> session.ids[selected], method |-> method]

(* Fault: content is asked for while a load is outstanding.                 *)
AskWhileLoading ==
    /\ selection' = selection + 1
    /\ failure' = FALSE
    /\ IF session' = NoSession
       THEN /\ pending' = FALSE
            /\ UNCHANGED boxVars
       ELSE /\ pending' = TRUE
            /\ Box!Put(Wanted')

Ask ==
    /\ selection' = selection + 1
    /\ failure' = FALSE
    /\ IF session' = NoSession \/ loading'
       THEN /\ pending' = FALSE
            /\ UNCHANGED boxVars
       ELSE /\ pending' = TRUE
            /\ Box!Put(Wanted')

(* Update runs one message at a time until the program ends; a key needs a  *)
(* session to act on.                                                       *)
Key == ~ended /\ session # NoSession /\ selection < MaxSelections

(* The tree keys and the node prompt: choose(p), a no-op for the selected   *)
(* row.                                                                     *)
Choose(p) ==
    /\ Key
    /\ p # selected
    /\ selected' = p
    /\ UNCHANGED <<session, load, loading, origin, mode, method, shown, fatal,
                   programVars, replyVars, answer, engine>>
    /\ Ask

(* p and d: show(mode).                                                     *)
Show(m) ==
    /\ Key
    /\ m # mode
    /\ mode' = m
    /\ UNCHANGED <<session, load, loading, selected, origin, method, shown, fatal,
                   programVars, replyVars, answer, engine>>
    /\ Ask

(* space: pin() asks again only when a comparison is shown.                 *)
Pin ==
    /\ Key
    /\ origin' = selected
    /\ UNCHANGED <<session, load, loading, selected, mode, method, shown, fatal,
                   programVars, replyVars, answer, engine>>
    /\ IF mode = "compare"
       THEN Ask
       ELSE UNCHANGED <<selection, failure, pending, boxVars>>

(* r: startLoad(), unless a load is outstanding. The results on screen are  *)
(* released; the session stays.                                             *)
Reload ==
    /\ Key
    /\ load < MaxLoads
    /\ ~loading
    /\ load' = load + 1
    /\ selection' = selection + 1
    /\ loading' = TRUE
    /\ pending' = FALSE
    /\ failure' = FALSE
    /\ shown' = NoContent
    /\ Box!Put(LoadRequest(load', selection'))
    /\ UNCHANGED <<session, selected, origin, mode, method, fatal, programVars,
                   replyVars, answer, engine>>

(* The terminal reports Unicode core mode: report() switches the width      *)
(* method once, drops what was measured the old way, and asks again.        *)
Report ==
    /\ ~ended
    /\ method = "runes"
    /\ method' = "clusters"
    /\ shown' = NoContent
    /\ UNCHANGED <<session, load, loading, selected, origin, mode, fatal, programVars,
                   replyVars, answer, engine>>
    /\ Ask

(* q, ctrl+c, or a termination signal relayed by Run.                       *)
Quit ==
    /\ ~ended
    /\ ~quit
    /\ quit' = TRUE
    /\ UNCHANGED <<modelVars, ended, replyVars, boxVars, answer, engine>>

----------------------------------------------------------------------------
(* accept(): what Update does with a result. Every way out but the two that *)
(* end the program returns wait, which arms the next call of next.          *)
StaleByLoadOnly(r) ==       \* fault: the selection generation is not compared
    IF r.kind = "load" THEN ~loading \/ r.load # load ELSE r.load # load

Stale(r) ==
    IF r.kind = "load"
    THEN ~loading \/ r.load # load
    ELSE r.load # load \/ r.selection # selection

Accepting(outcome) == ~ended /\ inbox # NoResult /\ inbox.outcome = outcome
Fresh(kinds) == inbox.request.kind \in kinds /\ ~Stale(inbox.request)
Rearm == armed' = TRUE /\ inbox' = NoResult

(* Fault: a crash is noted but does not end the program.                    *)
AcceptCrashWithoutQuit ==
    /\ Accepting("crash")
    /\ fatal' = TRUE
    /\ inbox' = NoResult
    /\ UNCHANGED <<session, load, selection, loading, selected, origin, mode, method,
                   pending, failure, shown, quit, ended, armed, boxVars, answer, engine>>

AcceptCrash ==
    /\ Accepting("crash")
    /\ fatal' = TRUE
    /\ quit' = TRUE
    /\ inbox' = NoResult
    /\ UNCHANGED <<session, load, selection, loading, selected, origin, mode, method,
                   pending, failure, shown, ended, armed, boxVars, answer, engine>>

(* Fault: a discarded result does not arm the next call.                    *)
AcceptStaleWithoutWait ==
    /\ Accepting("ok") \/ Accepting("failed")
    /\ Stale(inbox.request)
    /\ inbox' = NoResult
    /\ UNCHANGED <<modelVars, programVars, armed, boxVars, answer, engine>>

AcceptStale ==
    /\ Accepting("ok") \/ Accepting("failed")
    /\ Stale(inbox.request)
    /\ Rearm
    /\ UNCHANGED <<modelVars, programVars, boxVars, answer, engine>>

(* The first load failed: there is nothing to browse.                       *)
AcceptNoLoad ==
    /\ Accepting("failed")
    /\ Fresh({"load"})
    /\ session = NoSession
    /\ loading' = FALSE
    /\ fatal' = TRUE
    /\ quit' = TRUE
    /\ inbox' = NoResult
    /\ UNCHANGED <<session, load, selection, selected, origin, mode, method, pending,
                   failure, shown, ended, armed, boxVars, answer, engine>>

(* A reload failed: the earlier session stays and its content is asked for. *)
AcceptNoReload ==
    /\ Accepting("failed")
    /\ Fresh({"load"})
    /\ session # NoSession
    /\ loading' = FALSE
    /\ Rearm
    /\ UNCHANGED <<session, load, selected, origin, mode, method, shown, fatal,
                   programVars, answer, engine>>
    /\ Ask

(* install(): the selection is carried over by node ID when that ID still   *)
(* exists; positions of the old history mean nothing in the new one.        *)
Carried(s) ==
    IF session = NoSession THEN {} ELSE {p \in DOMAIN s.ids : s.ids[p] = session.ids[selected]}

(* Faults: the pinned row stays, or the selection is never carried over.    *)
InstallKeepingOrigin(s) ==
    /\ session' = s
    /\ selected' \in (IF Carried(s) = {} THEN {s.reference} ELSE Carried(s))
    /\ shown' = NoContent
    /\ UNCHANGED origin

InstallAtReference(s) ==
    /\ session' = s
    /\ selected' = s.reference
    /\ origin' = s.reference
    /\ shown' = NoContent

Install(s) ==
    /\ session' = s
    /\ selected' \in (IF Carried(s) = {} THEN {s.reference} ELSE Carried(s))
    /\ origin' = s.reference
    /\ shown' = NoContent

AcceptLoad ==
    /\ Accepting("ok")
    /\ Fresh({"load"})
    /\ loading' = FALSE
    /\ Install(inbox.session)
    /\ Rearm
    /\ UNCHANGED <<load, mode, method, fatal, programVars, answer, engine>>
    /\ Ask

AcceptFailure ==
    /\ Accepting("failed")
    /\ Fresh(Modes)
    /\ pending' = FALSE
    /\ failure' = TRUE
    /\ Rearm
    /\ UNCHANGED <<session, load, selection, loading, selected, origin, mode, method,
                   shown, fatal, programVars, boxVars, answer, engine>>

AcceptContent ==
    /\ Accepting("ok")
    /\ Fresh(Modes)
    /\ pending' = FALSE
    /\ shown' = inbox.content
    /\ Rearm
    /\ UNCHANGED <<session, load, selection, loading, selected, origin, mode, method,
                   failure, fatal, programVars, boxVars, answer, engine>>

(* Bubble Tea acts on the quit command; Run then closes the worker.         *)
End ==
    /\ quit
    /\ ~ended
    /\ ended' = TRUE
    /\ UNCHANGED <<modelVars, quit, replyVars, boxVars, answer, engine>>

Close ==
    /\ ended
    /\ open
    /\ Box!Shut
    /\ UNCHANGED <<modelVars, programVars, replyVars, answer, engine>>

StopWork ==
    /\ ended
    /\ Box!Stop
    /\ UNCHANGED <<modelVars, programVars, replyVars, answer, engine>>

----------------------------------------------------------------------------
(* perform(): the engine's part of a request. The cache is reset when the   *)
(* width method differs, before a load, and when a document of another      *)
(* session is put; which documents it evicts is left open (Cache.tla).      *)
Reset(e, n) == [e EXCEPT !.owner = n, !.docs = {}]

MeasuredWithOldCache(e, r) ==       \* fault: documents measured before stay
    IF r.kind # "load" THEN [e EXCEPT !.method = r.method] ELSE e

Measured(e, r) ==
    IF r.kind # "load" /\ r.method # e.method
    THEN [Reset(e, 0) EXCEPT !.method = r.method]
    ELSE e

Hits(e, n, id) == {d \in e.docs : e.owner = n /\ d.id = id}

(* put(n, d): the engines it can leave.                                     *)
Kept(e, n, d) ==
    LET b == IF e.owner = n THEN e ELSE Reset(e, n)
    IN {b} \cup {[b EXCEPT !.docs = kept \cup {d}] : kept \in SUBSET b.docs}

(* document(n, id): a hit is returned as it is, a miss is reconstructed     *)
(* with the engine's method and put. The pairs of engine and document that  *)
(* can come out of it.                                                      *)
Document(e, n, id) ==
    IF Hits(e, n, id) # {}
    THEN {<<e, d>> : d \in Hits(e, n, id)}
    ELSE LET d == Doc(n, id, e.method) IN {<<k, d>> : k \in Kept(e, n, d)}

Done(result, e) ==
    /\ Box!Finish
    /\ answer' = result
    /\ engine' = e
    /\ UNCHANGED <<modelVars, programVars, replyVars>>

StartWork ==
    /\ Box!Start
    /\ UNCHANGED <<modelVars, programVars, replyVars, answer, engine>>

PerformLoad ==
    /\ active.kind = "load"
    /\ \/ \E h \in Histories :
            Done(Loaded(active, SessionOf(active.load, h)), Reset(engine, 0))
       \/ Done(Failed(active), Reset(engine, 0))

PerformPreview ==
    /\ active.kind = "preview"
    /\ LET e == Measured(engine, active)
       IN \/ \E out \in Document(e, active.session, active.target) :
                Done(Prepared(active, Preview(out[2])), out[1])
          \/ Done(Failed(active), e)

(* Either document, or the comparison itself, may fail; what was prepared   *)
(* before stays cached.                                                     *)
PerformCompare ==
    /\ active.kind = "compare"
    /\ LET e == Measured(engine, active)
       IN \/ Done(Failed(active), e)
          \/ \E from \in Document(e, active.session, active.origin) :
                \/ Done(Failed(active), from[1])
                \/ \E to \in Document(from[1], active.session, active.target) :
                    \/ Done(Failed(active), to[1])
                    \/ Done(Prepared(active, Comparison(from[2], to[2])), to[1])

(* A panic while performing: its result ends the browser, so the state it   *)
(* leaves the engine in is never used for another accepted answer.          *)
Panic ==
    /\ active # NoRequest
    /\ Done(Crash(active), Measured(engine, active))

(* next() receives the result the worker is sending ...                     *)
Receive ==
    /\ armed
    /\ Box!Answer
    /\ armed' = FALSE
    /\ inbox' = answer
    /\ answer' = NoResult
    /\ UNCHANGED <<modelVars, programVars, engine>>

(* ... or closing releases that send.                                       *)
Release ==
    /\ Box!Drop
    /\ answer' = NoResult
    /\ UNCHANGED <<modelVars, programVars, replyVars, engine>>

----------------------------------------------------------------------------
Perform == PerformLoad \/ PerformPreview \/ PerformCompare \/ Panic

Accept ==
    \/ AcceptCrash \/ AcceptStale \/ AcceptNoLoad \/ AcceptNoReload
    \/ AcceptLoad \/ AcceptFailure \/ AcceptContent

Next ==
    \/ \E p \in DOMAIN session.ids : Choose(p)
    \/ \E m \in Modes : Show(m)
    \/ Pin \/ Reload \/ Report \/ Quit
    \/ Accept
    \/ End \/ Close \/ StopWork
    \/ StartWork \/ Perform \/ Receive \/ Release

Spec == Init /\ [][Next]_vars

(* Bubble Tea delivers every message and runs every command; the worker is  *)
(* as fair as Mailbox.tla promises, and requests end by themselves.         *)
Fairness ==
    /\ WF_vars(Accept) /\ WF_vars(End) /\ WF_vars(Close)
    /\ WF_vars(StartWork) /\ WF_vars(Perform) /\ WF_vars(Receive)

FairSpec == Spec /\ Fairness

----------------------------------------------------------------------------
EngineTypeOK ==
    /\ engine.method \in Methods
    /\ engine.owner \in Loads
    /\ engine.docs \subseteq Docs
    /\ engine = [method |-> engine.method, owner |-> engine.owner, docs |-> engine.docs]

(* The selected and the pinned row exist in the installed history, which is *)
(* what every handler that indexes the tree with them assumes.              *)
RowsExist ==
    IF session = NoSession
    THEN selected = 0 /\ origin = 0
    ELSE {selected, origin} \subseteq DOMAIN session.ids

TypeOK ==
    /\ session \in Sessions \cup {NoSession}
    /\ load \in 1 .. MaxLoads
    /\ selection \in Nat
    /\ mode \in Modes
    /\ method \in Methods
    /\ {loading, pending, failure, fatal, quit, ended, armed} \subseteq BOOLEAN
    /\ shown = NoContent \/ shown.mode \in Modes
    /\ inbox = NoResult \/ inbox.outcome \in {"ok", "failed", "crash"}
    /\ Box!BoxTypeOK
    /\ answer = NoResult \/ answer.outcome \in {"ok", "failed", "crash"}
    /\ EngineTypeOK
    /\ RowsExist

----------------------------------------------------------------------------
(* What the content pane's header says, from view.go: contentHeader and the *)
(* test current, which compares node IDs only.                              *)
Current ==
    /\ shown # NoContent
    /\ shown.mode = mode
    /\ shown.to.id = session.ids[selected]
    /\ mode = "compare" => shown.from.id = session.ids[origin]

Header ==
    CASE session = NoSession -> "loading"
      [] session # NoSession /\ loading -> "reloading"
      [] session # NoSession /\ ~loading /\ failure -> "failed"
      [] OTHER -> IF Current THEN "current"
                  ELSE IF ~pending THEN "bare"
                  ELSE IF shown # NoContent /\ shown.mode = mode THEN "earlier" ELSE "waiting"

(* The content that answers the present selection.                          *)
Right ==
    LET d(row) == Doc(session.load, session.ids[row], method)
    IN IF mode = "preview" THEN Preview(d(selected)) ELSE Comparison(d(origin), d(selected))

(* Whatever stays on screen while an answer is awaited belongs to the       *)
(* installed load and is measured as the renderer measures.                 *)
ShownIsOurs ==
    shown # NoContent =>
        \A d \in {shown.from, shown.to} \ {NoDoc} :
            d.load = session.load /\ d.method = method

(* "An old state is never shown as the new one": when the header names the  *)
(* selection and nothing else, the pane shows exactly that state of the     *)
(* installed load, measured with the present width method; the header never *)
(* falls through to a bare name over something else; and what it names as   *)
(* an earlier state is one of this load.                                    *)
NeverMislabelled ==
    /\ Header = "current" => shown = Right
    /\ Header # "bare"
    /\ ShownIsOurs

(* Where a request is between submit and accept.                            *)
InFlight(kinds) ==
    \E r \in {slot, active} \cup (IF inbox = NoResult THEN {} ELSE {inbox.request}) :
        r.kind \in kinds /\ r.load = load /\ (r.kind = "load" \/ r.selection = selection)

(* "reconstructing..." and "Reloading the inputs..." are never empty        *)
(* promises: the newest request is waiting, being performed, or answered.   *)
PendingIsInFlight ==
    ~fatal /\ ~ended =>
        /\ pending => InFlight(Modes)
        /\ loading => InFlight({"load"})

(* The model keeps exactly one call of next outstanding until it ends the   *)
(* program, so no result is lost and no two are accepted out of order.      *)
OneReader == ~fatal => (armed <=> inbox = NoResult)

(* Nothing supersedes a load: while one is outstanding it is not told to    *)
(* stop and no request follows it, so the worker needs no priorities.       *)
LoadIsNotSuperseded ==
    loading /\ ~ended /\ ~fatal =>
        /\ slot # NoRequest => slot.kind = "load"
        /\ active # NoRequest /\ active.kind = "load" => slot = NoRequest /\ ~obsolete

(* What the pane says it waits for is coming, no load is superseded on the  *)
(* way, and one call of next is there to bring it.                          *)
AwaitedIsComing == OneReader /\ PendingIsInFlight /\ LoadIsNotSuperseded

(* The cache answers only for its owner's load and for the width method in  *)
(* use, so a cached document is the one a reconstruction would give.        *)
CacheIsCoherent ==
    \A d \in engine.docs : d.load = engine.owner /\ d.method = engine.method

(* An answer holds what its request asked for, whatever loads, width        *)
(* methods and evictions came before.                                       *)
AnswersAsAsked ==
    answer # NoResult /\ answer.outcome = "ok" /\ answer.request.kind \in Modes =>
        LET r == answer.request
            d(id) == Doc(r.session, id, r.method)
        IN answer.content = IF r.kind = "preview"
                            THEN Preview(d(r.target))
                            ELSE Comparison(d(r.origin), d(r.target))

(* The engine is exact: neither its cache nor its answers mix loads or      *)
(* width methods.                                                           *)
EngineIsExact == CacheIsCoherent /\ AnswersAsAsked

(* The session changes only into the result of the newest load, while that  *)
(* load is awaited, and the selected node keeps its ID if it still exists.  *)
SessionsFollowLoads ==
    [][session' # session =>
        /\ loading
        /\ session'.load = load
        /\ (session # NoSession /\ \E p \in DOMAIN session'.ids :
                session'.ids[p] = session.ids[selected])
            => session'.ids[selected'] = session.ids[selected]]_vars

(* Every selection is answered, unless the user moves on or the program     *)
(* ends, and every load ends.                                               *)
SelectionsSettle ==
    \A n \in 1 .. MaxSelections + MaxLoads :
        selection = n /\ pending ~> ~pending \/ selection # n \/ ended

LoadsEnd == loading ~> ~loading \/ ended
AnswersArrive == SelectionsSettle /\ LoadsEnd

(* A fatal result ends the program, and the worker is closed with it.       *)
FatalEnds == fatal ~> ended /\ ~open
=============================================================================
