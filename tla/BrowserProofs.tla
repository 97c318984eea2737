--------------------------- MODULE BrowserProofs ---------------------------
(* What holds of the browser for every tree, every number of loads and      *)
(* selections and every policy of the cache, and of the worker it submits   *)
(* its requests to.                                                         *)
(*                                                                          *)
(* EngineIInv is about the worker's side and inductive by itself.           *)
(* TrafficIInv says where requests and results are, whatever the model      *)
(* does with them. AskedIInv ties each request on its way to the model that *)
(* sent it; only with it can a result that passes accept be trusted.        *)
EXTENDS Browser, Worker, TLAPS

----------------------------------------------------------------------------
(* The engine.                                                              *)

Exact(e) ==
    /\ DOMAIN e = {"method", "owner", "docs"}
    /\ \A d \in e.docs : d = Doc(e.owner, d.id, e.method)

(* What a content request asks for.                                         *)
Asked(r) ==
    IF r.kind = "preview"
    THEN Preview(Doc(r.session, r.target, r.method))
    ELSE Comparison(Doc(r.session, r.origin, r.method), Doc(r.session, r.target, r.method))

(* A result carries what its request asked for.                             *)
Sound(a) ==
    /\ a # NoResult => a.outcome \in {"ok", "failed", "crash"}
    /\ a # NoResult /\ a.outcome = "ok" /\ a.request.kind = "load" =>
            a.session.load = a.request.load
    /\ a # NoResult /\ a.outcome = "ok" /\ a.request.kind \in Modes =>
            a.content = Asked(a.request)

EngineIInv == Exact(engine) /\ Sound(answer) /\ Sound(inbox)

LEMMA ResetExact ==
    ASSUME NEW e, NEW n, Exact(e)
    PROVE  /\ Exact(Reset(e, n))
           /\ Reset(e, n).method = e.method
           /\ Reset(e, n).owner = n
           /\ Reset(e, n).docs = {}
BY DEF Exact, Reset

(* A change of the width method leaves no document measured the other way.  *)
LEMMA MeasuredExact ==
    ASSUME NEW e, NEW r, Exact(e), r.kind # "load"
    PROVE  Exact(Measured(e, r)) /\ Measured(e, r).method = r.method
<1>1. CASE r.method = e.method
  BY <1>1 DEF Measured
<1>2. CASE r.method # e.method
  <2> DEFINE b == Reset(e, 0)
  <2>1. Exact(b) /\ b.docs = {}
    BY ResetExact
  <2>2. Measured(e, r) = [b EXCEPT !.method = r.method]
    BY <1>2 DEF Measured
  <2> HIDE DEF b
  <2>3. QED
    BY <2>1, <2>2 DEF Exact
<1>3. QED
  BY <1>1, <1>2

(* Whatever put keeps is of the owner it leaves.                            *)
LEMMA KeptExact ==
    ASSUME NEW e, NEW n, NEW id, Exact(e), NEW k \in Kept(e, n, Doc(n, id, e.method))
    PROVE  Exact(k) /\ k.method = e.method
<1> DEFINE b == IF e.owner = n THEN e ELSE Reset(e, n)
<1>1. Exact(b) /\ b.owner = n /\ b.method = e.method
  BY DEF Exact, Reset
<1>2. k = b \/ \E kept \in SUBSET b.docs : k = [b EXCEPT !.docs = kept \cup {Doc(n, id, e.method)}]
  BY DEF Kept
<1>3. CASE k = b
  BY <1>1, <1>3
<1>4. ASSUME NEW kept \in SUBSET b.docs, k = [b EXCEPT !.docs = kept \cup {Doc(n, id, e.method)}]
      PROVE  Exact(k) /\ k.method = e.method
  <2>1. /\ DOMAIN k = {"method", "owner", "docs"}
        /\ k.method = b.method /\ k.owner = b.owner /\ k.docs = kept \cup {Doc(n, id, e.method)}
    BY <1>1, <1>4 DEF Exact
  <2>2. \A d \in k.docs : d = Doc(k.owner, d.id, k.method)
    BY <1>1, <2>1 DEF Exact, Doc
  <2>3. QED
    BY <1>1, <2>1, <2>2 DEF Exact
<1>5. QED
  BY <1>2, <1>3, <1>4

(* A document is the one a reconstruction would give, cached or not.        *)
LEMMA DocumentExact ==
    ASSUME NEW e, NEW n, NEW id, Exact(e), NEW out \in Document(e, n, id)
    PROVE  Exact(out[1]) /\ out[1].method = e.method /\ out[2] = Doc(n, id, e.method)
<1>1. CASE Hits(e, n, id) # {}
  <2>1. PICK d \in Hits(e, n, id) : out = <<e, d>>
    BY <1>1 DEF Document
  <2>2. QED
    BY <2>1 DEF Hits, Exact
<1>2. CASE Hits(e, n, id) = {}
  <2>1. PICK k \in Kept(e, n, Doc(n, id, e.method)) : out = <<k, Doc(n, id, e.method)>>
    BY <1>2 DEF Document
  <2>2. QED
    BY <2>1, KeptExact
<1>3. QED
  BY <1>1, <1>2

(* Only Perform touches the engine and makes results; Receive hands one on. *)
LEMMA EngineNext == EngineIInv /\ [Next]_vars => EngineIInv'
<1> SUFFICES ASSUME EngineIInv, [Next]_vars PROVE EngineIInv'
  OBVIOUS
<1>a. ASSUME UNCHANGED <<engine, answer, inbox>> PROVE EngineIInv'
  BY <1>a DEF EngineIInv, Exact, Sound
<1>b. ASSUME UNCHANGED <<engine, answer>>, inbox' = NoResult PROVE EngineIInv'
  BY <1>b DEF EngineIInv, Exact, Sound
<1>c. ASSUME NEW a, NEW e, Done(a, e), Sound(a), Exact(e) PROVE EngineIInv'
  BY <1>c DEF EngineIInv, Exact, Sound, Done, replyVars
<1>1. CASE PerformLoad
  <2>1. Exact(Reset(engine, 0))
    BY ResetExact DEF EngineIInv
  <2>2. \A h \in Histories : Sound(Loaded(active, SessionOf(active.load, h)))
    BY <1>1 DEF PerformLoad, Sound, Loaded, SessionOf, Modes
  <2>3. Sound(Failed(active))
    BY DEF Sound, Failed
  <2>4. QED
    BY <1>1, <1>c, <2>1, <2>2, <2>3 DEF PerformLoad
<1>2. CASE PerformPreview
  <2> DEFINE e == Measured(engine, active)
  <2>1. Exact(e) /\ e.method = active.method
    BY <1>2, MeasuredExact DEF PerformPreview, EngineIInv
  <2>2. Sound(Failed(active))
    BY DEF Sound, Failed
  <2>3. ASSUME NEW out \in Document(e, active.session, active.target)
        PROVE  Sound(Prepared(active, Preview(out[2]))) /\ Exact(out[1])
    <3>1. Exact(out[1]) /\ out[2] = Doc(active.session, active.target, active.method)
      BY <2>1, DocumentExact
    <3>2. QED
      BY <1>2, <3>1 DEF PerformPreview, Sound, Prepared, Asked
  <2>4. QED
    BY <1>2, <1>c, <2>1, <2>2, <2>3 DEF PerformPreview
<1>3. CASE PerformCompare
  <2> DEFINE e == Measured(engine, active)
  <2>1. Exact(e) /\ e.method = active.method
    BY <1>3, MeasuredExact DEF PerformCompare, EngineIInv
  <2>2. Sound(Failed(active))
    BY DEF Sound, Failed
  <2>3. ASSUME NEW from \in Document(e, active.session, active.origin)
        PROVE  /\ Exact(from[1]) /\ from[1].method = active.method
               /\ from[2] = Doc(active.session, active.origin, active.method)
    BY <2>1, DocumentExact
  <2>4. ASSUME NEW from \in Document(e, active.session, active.origin),
               NEW to \in Document(from[1], active.session, active.target)
        PROVE  Sound(Prepared(active, Comparison(from[2], to[2]))) /\ Exact(to[1])
    <3>1. Exact(to[1]) /\ to[2] = Doc(active.session, active.target, active.method)
      BY <2>3, DocumentExact
    <3>2. QED
      BY <1>3, <2>3, <3>1 DEF PerformCompare, Sound, Prepared, Asked
  <2>5. QED
    BY <1>3, <1>c, <2>1, <2>2, <2>3, <2>4 DEF PerformCompare
<1>4. CASE Panic
  <2>1. Exact(Measured(engine, active))
    BY MeasuredExact DEF EngineIInv, Measured
  <2>2. Sound(Crash(active))
    BY DEF Sound, Crash
  <2>3. QED
    BY <1>4, <1>c, <2>1, <2>2 DEF Panic
<1>5. CASE Receive
  BY <1>5 DEF Receive, EngineIInv, Exact, Sound
<1>6. CASE Release
  BY <1>6 DEF Release, EngineIInv, Exact, Sound, replyVars
<1>7. CASE Accept
  BY <1>7, <1>b DEF Accept, AcceptCrash, AcceptStale, AcceptNoLoad, AcceptNoReload,
     AcceptLoad, AcceptFailure, AcceptContent, Rearm
<1>8. CASE \/ \E p \in DOMAIN session.ids : Choose(p)
           \/ \E m \in Modes : Show(m)
           \/ Pin \/ Reload \/ Report \/ Quit \/ End \/ Close \/ StopWork \/ StartWork
  BY <1>8, <1>a DEF Choose, Show, Pin, Reload, Report, Quit, End, Close, StopWork,
     StartWork, replyVars
<1>9. CASE UNCHANGED vars
  BY <1>9, <1>a DEF vars, replyVars
<1>10. QED
  BY <1>1, <1>2, <1>3, <1>4, <1>5, <1>6, <1>7, <1>8, <1>9 DEF Next, Perform

LEMMA EngineInit == Init => EngineIInv
BY DEF Init, EngineIInv, Exact, Sound, NoResult

(* The engine is exact: its cache and its answers never mix loads or width  *)
(* methods, whatever is evicted and however requests follow each other      *)
(* (session.go, cache.go).                                                  *)
THEOREM Exactness == Spec => []EngineIsExact
<1>1. EngineIInv => EngineIsExact
  BY DEF EngineIInv, EngineIsExact, CacheIsCoherent, AnswersAsAsked, Exact, Sound, Asked, Doc, Modes
<1>2. QED
  BY <1>1, EngineInit, EngineNext, PTL DEF Spec

----------------------------------------------------------------------------
(* Requests and results on their way.                                       *)

(* The request whose result is on its way to accept.                        *)
Returned == IF inbox = NoResult THEN NoRequest ELSE inbox.request

TrafficIInv ==
    /\ working \in BOOLEAN /\ obsolete \in BOOLEAN
    /\ working => active # NoRequest /\ answer = NoResult
    /\ answer # NoResult => active # NoRequest /\ answer.request = active
    /\ active # NoRequest /\ ~working => answer # NoResult
    /\ obsolete => working
    /\ armed => inbox = NoResult
    /\ inbox = NoResult => armed \/ fatal
    /\ open \/ ended

LEMMA TrafficInit == Init => TrafficIInv
BY DEF Init, TrafficIInv, NoRequest, NoResult

LEMMA TrafficNext == TrafficIInv /\ [Next]_vars => TrafficIInv'
<1> SUFFICES ASSUME TrafficIInv, [Next]_vars PROVE TrafficIInv'
  OBVIOUS
<1> USE DEF TrafficIInv
<1>a. ASSUME UNCHANGED <<active, working, open, ended, answer, armed, inbox>>,
             fatal => fatal', obsolete' \in {obsolete, working}
      PROVE  TrafficIInv'
  BY <1>a
<1>1. CASE Perform
  <2>1. ASSUME NEW a, NEW e, Done(a, e), active # NoRequest, a # NoResult, a.request = active
        PROVE  TrafficIInv'
    BY <2>1 DEF Done, Box!Finish, modelVars, programVars, replyVars
  <2>2. /\ \A r, s : Loaded(r, s) # NoResult /\ Loaded(r, s).request = r
        /\ \A r, c : Prepared(r, c) # NoResult /\ Prepared(r, c).request = r
        /\ \A r : Failed(r) # NoResult /\ Failed(r).request = r
        /\ \A r : Crash(r) # NoResult /\ Crash(r).request = r
    BY DEF Loaded, Prepared, Failed, Crash, NoResult
  <2>3. CASE PerformLoad
    BY <2>1, <2>2, <2>3 DEF PerformLoad, NoRequest
  <2>4. CASE PerformPreview
    BY <2>1, <2>2, <2>4 DEF PerformPreview, NoRequest
  <2>5. CASE PerformCompare
    BY <2>1, <2>2, <2>5 DEF PerformCompare, NoRequest
  <2>6. CASE Panic
    BY <2>1, <2>2, <2>6 DEF Panic
  <2>7. QED
    BY <1>1, <2>3, <2>4, <2>5, <2>6 DEF Perform
<1>2. CASE StartWork
  BY <1>2 DEF StartWork, Box!Start, modelVars, programVars, replyVars
<1>3. CASE Receive
  BY <1>3 DEF Receive, Box!Answer, modelVars, programVars
<1>4. CASE Release
  BY <1>4 DEF Release, Box!Drop, Box!Answer, modelVars, programVars, replyVars
<1>5. ASSUME Ask PROVE UNCHANGED <<active, working, open>> /\ obsolete' \in {obsolete, working}
  BY <1>5 DEF Ask, boxVars, Box!Put
<1>6. CASE Accept
  BY <1>5, <1>6 DEF Accept, AcceptCrash, AcceptStale, AcceptNoLoad, AcceptNoReload,
     AcceptLoad, AcceptFailure, AcceptContent, Accepting, Rearm, modelVars, programVars, boxVars
<1>7. CASE (\E p \in DOMAIN session.ids : Choose(p)) \/ (\E m \in Modes : Show(m)) \/ Pin \/ Report
  BY <1>5, <1>7, <1>a DEF Choose, Show, Pin, Report, programVars, replyVars, boxVars
<1>8. CASE Reload \/ Quit \/ End \/ Close \/ StopWork
  BY <1>8 DEF Reload, Quit, End, Close, StopWork, Box!Put, Box!Shut, Box!Stop,
     modelVars, programVars, replyVars, boxVars
<1>9. CASE UNCHANGED vars
  BY <1>9, <1>a DEF vars, modelVars, programVars, replyVars, boxVars
<1>10. QED
  BY <1>1, <1>2, <1>3, <1>4, <1>6, <1>7, <1>8, <1>9 DEF Next

----------------------------------------------------------------------------
(* What a request says of the model that sent it.                           *)

(* It asks for what the content pane should show now.                       *)
Answers(r) ==
    /\ r.load = load /\ r.session = session.load /\ r.method = method
    /\ r.kind = mode /\ r.target = session.ids[selected]
    /\ mode = "compare" => r.origin = session.ids[origin]

(* A request on its way is the load that is awaited, or a request for       *)
(* content that is either what is wanted now or of an earlier generation.   *)
Ours(r) ==
    \/ r = NoRequest
    \/ r.kind = "load" /\ r.load = load /\ loading
    \/ /\ r.kind \in Modes /\ r.selection \in Nat /\ r.selection <= selection
       /\ r.selection = selection => Answers(r)

AskedIInv ==
    /\ selection \in Nat /\ load \in Nat /\ mode \in Modes /\ loading \in BOOLEAN
    /\ Ours(slot) /\ Ours(active) /\ Ours(Returned)
    /\ slot.kind = "load" => active.kind # "load"
    /\ Returned.kind = "load" => slot.kind # "load" /\ active.kind # "load"

LEMMA AskedInit == Init => AskedIInv
BY DEF Init, AskedIInv, Ours, Returned, LoadRequest, NoRequest, Modes

(* request() in a handler that leaves the load alone, or that has just      *)
(* accepted its result.                                                     *)
LEMMA AskedByAsk ==
    ASSUME AskedIInv, Ask, load' = load, mode' \in Modes, loading' \in BOOLEAN,
           \/ loading' = loading /\ inbox' = inbox
           \/ Returned.kind = "load" /\ inbox' = NoResult
    PROVE  AskedIInv'
<1> USE DEF AskedIInv, Modes
<1>1. selection' \in Nat /\ selection' = selection + 1
  BY DEF Ask
<1>2. ASSUME NEW r, Ours(r), r.kind = "load" => loading' = loading PROVE Ours(r)'
  BY <1>1, <1>2 DEF Ours
<1>3. active' = active
  BY DEF Ask, boxVars, Box!Put
<1>5. Returned' = NoRequest \/ (Returned' = Returned /\ loading' = loading)
  BY DEF Returned
<1>6. Ours(Returned)'
  BY <1>2, <1>5 DEF Ours
<1>7. Ours(active)'
  BY <1>2, <1>3 DEF Ours
<1>8. CASE slot' = slot
  BY <1>1, <1>2, <1>3, <1>5, <1>6, <1>7, <1>8 DEF NoRequest
<1>9. CASE slot' = Wanted'
  <2>1. slot'.kind = mode' /\ Ours(slot)'
    BY <1>1, <1>9 DEF Wanted, Ours, Answers
  <2>2. QED
    BY <1>1, <1>3, <1>5, <1>6, <1>7, <2>1 DEF NoRequest
<1>10. QED
  BY <1>8, <1>9 DEF Ask, boxVars, Box!Put

LEMMA AskedNext == TrafficIInv /\ AskedIInv /\ [Next]_vars => AskedIInv'
<1> SUFFICES ASSUME TrafficIInv, AskedIInv, [Next]_vars PROVE AskedIInv'
  OBVIOUS
<1> DEFINE asking == <<session, load, selection, loading, selected, origin, mode, method>>
<1>k. NoRequest.kind = "none"
  BY DEF NoRequest
<1>a. ASSUME NEW r, Ours(r), UNCHANGED asking PROVE Ours(r)'
  BY <1>a DEF Ours, Answers
<1>b. ASSUME UNCHANGED asking, UNCHANGED <<slot, active>>, Returned' \in {Returned, NoRequest}
      PROVE  AskedIInv'
  <2>1. Ours(slot)' /\ Ours(active)'
    BY <1>a, <1>b DEF AskedIInv, Ours, Answers
  <2>2. Ours(Returned)'
    BY <1>a, <1>b DEF AskedIInv, Ours, Answers
  <2>3. QED
    BY <1>b, <1>k, <2>1, <2>2 DEF AskedIInv
<1>c. ASSUME inbox' \in {inbox, NoResult} PROVE Returned' \in {Returned, NoRequest}
  BY <1>c DEF Returned
<1>1. CASE \/ \E p \in DOMAIN session.ids : Choose(p)
           \/ \E m \in Modes : Show(m)
           \/ Report
  BY <1>1, AskedByAsk DEF AskedIInv, Choose, Show, Report, replyVars
<1>2. CASE Pin
  <2>1. CASE mode = "compare"
    BY <1>2, <2>1, AskedByAsk DEF AskedIInv, Pin, replyVars
  <2>2. CASE mode # "compare"
    <3>1. ASSUME NEW r, Ours(r) PROVE Ours(r)'
      BY <1>2, <2>2, <3>1 DEF Pin, Ours, Answers, boxVars
    <3>2. UNCHANGED <<slot, active, inbox, selection, load, mode, loading>>
      BY <1>2, <2>2 DEF Pin, boxVars, replyVars
    <3>3. Returned' = Returned
      BY <3>2 DEF Returned
    <3>4. Ours(slot)' /\ Ours(active)' /\ Ours(Returned)'
      BY <3>1, <3>2, <3>3 DEF AskedIInv, Ours, Answers
    <3>5. QED
      BY <3>2, <3>3, <3>4 DEF AskedIInv
  <2>3. QED
    BY <2>1, <2>2
<1>3. CASE Reload
  <2>1. /\ ~loading /\ load' = load + 1 /\ selection' = selection + 1 /\ loading' = TRUE
        /\ slot' = LoadRequest(load', selection') /\ active' = active /\ inbox' = inbox
        /\ mode' = mode
    BY <1>3 DEF Reload, Box!Put, replyVars
  <2>2. Returned' = Returned
    BY <2>1 DEF Returned
  <2>3. ASSUME NEW r, Ours(r) PROVE r.kind # "load" /\ Ours(r)'
    BY <1>k, <2>1, <2>3 DEF AskedIInv, Ours, Modes
  <2>4. Ours(slot)' /\ slot'.kind = "load"
    BY <2>1 DEF Ours, LoadRequest
  <2>5. Ours(active)' /\ Ours(Returned)'
    BY <2>1, <2>2, <2>3 DEF AskedIInv, Ours, Answers
  <2>6. active.kind # "load" /\ Returned.kind # "load"
    BY <2>3 DEF AskedIInv
  <2>7. QED
    BY <2>1, <2>2, <2>4, <2>5, <2>6 DEF AskedIInv
<1>4. CASE Quit \/ End \/ StopWork \/ Perform
  BY <1>4, <1>b, <1>c DEF Quit, End, StopWork, Box!Stop, Perform, PerformLoad, PerformPreview,
     PerformCompare, Panic, Done, Box!Finish, modelVars, replyVars, boxVars
<1>5. CASE StartWork \/ Close
  <2>1. UNCHANGED asking /\ Returned' = Returned /\ slot' = NoRequest /\ active' \in {active, slot}
    BY <1>5 DEF StartWork, Close, Box!Start, Box!Shut, modelVars, replyVars, Returned
  <2>2. Ours(slot)' /\ Ours(active)'
    BY <1>a, <2>1 DEF AskedIInv, Ours, Answers
  <2>3. Ours(Returned)'
    BY <1>a, <2>1 DEF AskedIInv, Ours, Answers
  <2>4. QED
    BY <1>k, <2>1, <2>2, <2>3 DEF AskedIInv
<1>6. CASE Receive
  <2>1. UNCHANGED asking /\ UNCHANGED slot /\ active' = NoRequest
    BY <1>6 DEF Receive, Box!Answer, modelVars
  <2>2. Returned' = active
    BY <1>6 DEF Receive, Box!Answer, TrafficIInv, Returned
  <2>3. Ours(slot)' /\ Ours(active)' /\ Ours(Returned)'
    BY <1>a, <2>1, <2>2 DEF AskedIInv, Ours, Answers
  <2>4. QED
    BY <1>k, <2>1, <2>2, <2>3 DEF AskedIInv
<1>7. CASE Release
  <2>1. UNCHANGED asking /\ UNCHANGED <<slot, inbox>> /\ active' = NoRequest
    BY <1>7 DEF Release, Box!Drop, Box!Answer, modelVars, replyVars
  <2>2. Returned' = Returned
    BY <2>1 DEF Returned
  <2>3. Ours(slot)' /\ Ours(active)' /\ Ours(Returned)'
    BY <1>a, <2>1, <2>2 DEF AskedIInv, Ours, Answers
  <2>4. QED
    BY <1>k, <2>1, <2>2, <2>3 DEF AskedIInv
<1>8. CASE AcceptCrash \/ AcceptStale \/ AcceptFailure \/ AcceptContent
  BY <1>8, <1>b, <1>c DEF AcceptCrash, AcceptStale, AcceptFailure, AcceptContent, Rearm,
     modelVars, boxVars
<1>9. CASE AcceptNoLoad
  <2>1. /\ UNCHANGED <<session, load, selection, selected, origin, mode, method, slot, active>>
        /\ loading' = FALSE /\ Returned' = NoRequest
    BY <1>9 DEF AcceptNoLoad, boxVars, Returned
  <2>2. Returned.kind = "load"
    BY <1>9 DEF AcceptNoLoad, Accepting, Fresh, Returned
  <2>3. slot.kind # "load" /\ active.kind # "load"
    BY <2>2 DEF AskedIInv
  <2>4. ASSUME NEW r, Ours(r), r.kind # "load" PROVE Ours(r)'
    BY <2>1, <2>4 DEF Ours, Answers
  <2>5. Ours(slot)' /\ Ours(active)' /\ Ours(Returned)'
    BY <2>1, <2>3, <2>4 DEF AskedIInv, Ours, Answers
  <2>6. QED
    BY <1>k, <2>1, <2>3, <2>5 DEF AskedIInv
<1>10. CASE AcceptNoReload \/ AcceptLoad
  <2>1. Returned.kind = "load"
    BY <1>10 DEF AcceptNoReload, AcceptLoad, Accepting, Fresh, Returned
  <2>2. load' = load /\ mode' = mode /\ loading' = FALSE /\ inbox' = NoResult /\ Ask
    BY <1>10 DEF AcceptNoReload, AcceptLoad, Rearm
  <2>3. QED
    BY <2>1, <2>2, AskedByAsk DEF AskedIInv
<1>11. CASE UNCHANGED vars
  BY <1>11, <1>b, <1>c DEF vars, modelVars, replyVars, boxVars
<1>12. QED
  BY <1>1, <1>2, <1>3, <1>4, <1>5, <1>6, <1>7, <1>8, <1>9, <1>10, <1>11 DEF Next, Accept

----------------------------------------------------------------------------
(* What is on screen.                                                       *)

(* Content is of the installed load and measured as the renderer measures.  *)
Fits(c) ==
    \/ c = NoContent
    \/ \E a, b : \/ c = Preview(Doc(session.load, b, method))
                 \/ c = Comparison(Doc(session.load, a, method), Doc(session.load, b, method))

ScreenIInv ==
    /\ Fits(shown)
    /\ session # NoSession /\ ~loading /\ ~failure /\ ~pending => Current

LEMMA ScreenInit == Init => ScreenIInv
BY DEF Init, ScreenIInv, Fits

LEMMA ScreenNext ==
    AskedIInv /\ EngineIInv /\ ScreenIInv /\ [Next]_vars => ScreenIInv'
<1> SUFFICES ASSUME AskedIInv, EngineIInv, ScreenIInv, [Next]_vars PROVE ScreenIInv'
  OBVIOUS
<1> DEFINE told == <<session, selected, mode, shown, method>>
<1>a. ASSUME UNCHANGED told, origin' = origin \/ mode # "compare",
             session # NoSession /\ ~loading' /\ ~failure' /\ ~pending' =>
                 ~loading /\ ~failure /\ ~pending
      PROVE  ScreenIInv'
  BY <1>a DEF ScreenIInv, Fits, Current
<1>b. ASSUME Ask, shown' = NoContent \/ UNCHANGED <<shown, session, method>> PROVE ScreenIInv'
  <2>1. Fits(shown)'
    BY <1>b DEF ScreenIInv, Fits
  <2>2. session' # NoSession /\ ~loading' => pending'
    BY <1>b DEF Ask
  <2>3. QED
    BY <2>1, <2>2 DEF ScreenIInv
<1>1. CASE \/ \E p \in DOMAIN session.ids : Choose(p)
           \/ \E m \in Modes : Show(m)
           \/ Report \/ AcceptNoReload \/ AcceptLoad
  BY <1>1, <1>b DEF Choose, Show, Report, AcceptNoReload, AcceptLoad, Install
<1>2. CASE Pin
  BY <1>2, <1>a, <1>b DEF Pin
<1>3. CASE Reload
  BY <1>3 DEF Reload, ScreenIInv, Fits
<1>4. CASE AcceptNoLoad
  BY <1>4, <1>a DEF AcceptNoLoad
<1>5. CASE AcceptFailure
  BY <1>5, <1>a DEF AcceptFailure
<1>6. CASE AcceptContent
  <2> DEFINE r == inbox.request
  <2>1. inbox # NoResult /\ inbox.outcome = "ok" /\ r.kind \in Modes /\ ~Stale(r)
    BY <1>6 DEF AcceptContent, Accepting, Fresh
  <2>2. inbox.content = Asked(r)
    BY <2>1 DEF EngineIInv, Sound
  <2>3. Returned = r /\ r.kind # "load" /\ r # NoRequest
    BY <2>1 DEF Returned, Modes, NoRequest
  <2>4. Answers(r)
    BY <2>1, <2>3 DEF AskedIInv, Ours, Stale
  <2>5. /\ shown' = Asked(r)
        /\ UNCHANGED <<session, selected, origin, mode, method>>
    BY <1>6, <2>2 DEF AcceptContent
  <2>6. CASE mode = "preview"
    <3>1. shown' = Preview(Doc(session.load, session.ids[selected], method))
      BY <2>4, <2>5, <2>6 DEF Answers, Asked
    <3>2. Fits(shown)'
      BY <2>5, <3>1 DEF Fits
    <3>3. Current'
      BY <2>5, <2>6, <3>1 DEF Current, Preview, Doc, NoContent
    <3>4. QED
      BY <3>2, <3>3 DEF ScreenIInv
  <2>7. CASE mode = "compare"
    <3>1. shown' = Comparison(Doc(session.load, session.ids[origin], method),
                              Doc(session.load, session.ids[selected], method))
      BY <2>4, <2>5, <2>7 DEF Answers, Asked
    <3>2. Fits(shown)'
      BY <2>5, <3>1 DEF Fits
    <3>3. Current'
      BY <2>5, <2>7, <3>1 DEF Current, Comparison, Doc, NoContent
    <3>4. QED
      BY <3>2, <3>3 DEF ScreenIInv
  <2>8. QED
    BY <2>6, <2>7 DEF AskedIInv, Modes
<1>7. CASE \/ Quit \/ End \/ Close \/ StopWork \/ StartWork \/ Perform \/ Receive \/ Release
           \/ AcceptCrash \/ AcceptStale
  BY <1>7, <1>a DEF Quit, End, Close, StopWork, StartWork, Perform, PerformLoad, PerformPreview,
     PerformCompare, Panic, Done, Receive, Release, AcceptCrash, AcceptStale, modelVars
<1>8. CASE UNCHANGED vars
  BY <1>8, <1>a DEF vars, modelVars
<1>9. QED
  BY <1>1, <1>2, <1>3, <1>4, <1>5, <1>6, <1>7, <1>8 DEF Next, Accept

(* An old state is never shown as the new one (view.go), in any history and *)
(* after any number of reloads, selections and crashes.                     *)
THEOREM Labelling == Spec => []NeverMislabelled
<1>1. ScreenIInv => NeverMislabelled
  <2> SUFFICES ASSUME ScreenIInv PROVE NeverMislabelled
    OBVIOUS
  <2>1. ShownIsOurs
    BY DEF ScreenIInv, Fits, ShownIsOurs, Preview, Comparison, Doc, NoDoc
  <2>2. ASSUME Header = "current" PROVE shown = Right
    <3>1. Current
      BY <2>2 DEF Header
    <3>2. QED
      BY <3>1 DEF ScreenIInv, Fits, Current, Right, Preview, Comparison, Doc
  <2>3. Header # "bare"
    BY DEF ScreenIInv, Header
  <2>4. QED
    BY <2>1, <2>2, <2>3 DEF NeverMislabelled
<1>2. QED
  BY <1>1, EngineInit, EngineNext, TrafficInit, TrafficNext, AskedInit, AskedNext,
     ScreenInit, ScreenNext, PTL DEF Spec

----------------------------------------------------------------------------
(* What is awaited.                                                         *)

AwaitIInv == PendingIsInFlight /\ LoadIsNotSuperseded

LEMMA AwaitInit == Init => AwaitIInv
BY DEF Init, AwaitIInv, PendingIsInFlight, LoadIsNotSuperseded, InFlight, LoadRequest, NoRequest

(* request() leaves an outstanding load alone, or asks for what is pending. *)
LEMMA AwaitByAsk ==
    ASSUME AskedIInv, AwaitIInv, Ask, load' = load, mode' \in Modes, loading' \in BOOLEAN,
           fatal' = fatal, ended' = ended,
           loading' => loading /\ inbox' = inbox
    PROVE  AwaitIInv'
<1>1. CASE session' = NoSession \/ loading'
  <2>1. UNCHANGED boxVars /\ pending' = FALSE
    BY <1>1 DEF Ask
  <2>2. PendingIsInFlight'
    BY <2>1 DEF AwaitIInv, PendingIsInFlight, InFlight, boxVars
  <2>3. LoadIsNotSuperseded'
    BY <2>1 DEF AwaitIInv, LoadIsNotSuperseded, boxVars
  <2>4. QED
    BY <2>2, <2>3 DEF AwaitIInv
<1>2. CASE ~(session' = NoSession \/ loading')
  <2>1. slot' = Wanted' /\ ~loading'
    BY <1>2 DEF Ask, Box!Put
  <2>2. slot'.kind = mode' /\ slot'.load = load' /\ slot'.selection = selection'
    BY <2>1 DEF Wanted
  <2>3. PendingIsInFlight'
    BY <2>1, <2>2 DEF PendingIsInFlight, InFlight
  <2>4. LoadIsNotSuperseded'
    BY <2>1 DEF LoadIsNotSuperseded
  <2>5. QED
    BY <2>3, <2>4 DEF AwaitIInv
<1>3. QED
  BY <1>1, <1>2

LEMMA AwaitNext ==
    TrafficIInv /\ AskedIInv /\ AskedIInv' /\ AwaitIInv /\ [Next]_vars => AwaitIInv'
<1> SUFFICES ASSUME TrafficIInv, AskedIInv, AskedIInv', AwaitIInv, [Next]_vars PROVE AwaitIInv'
  OBVIOUS
<1> DEFINE told == <<load, selection, fatal, ended>>
           onWay == {slot, active} \cup (IF inbox = NoResult THEN {} ELSE {inbox.request})
<1>a. ASSUME UNCHANGED told, pending' => pending, loading' => loading, onWay \subseteq onWay' \cup {NoRequest}
      PROVE  PendingIsInFlight'
  BY <1>a DEF AwaitIInv, PendingIsInFlight, InFlight, NoRequest, Modes
<1>b. ASSUME UNCHANGED <<slot, active>>, obsolete' \in {obsolete, FALSE}, loading' => loading,
             fatal => fatal', ended => ended'
      PROVE  LoadIsNotSuperseded'
  BY <1>b DEF AwaitIInv, LoadIsNotSuperseded
<1>1. CASE \/ \E p \in DOMAIN session.ids : Choose(p)
           \/ \E m \in Modes : Show(m)
           \/ Report \/ AcceptNoReload \/ AcceptLoad
  BY <1>1, AwaitByAsk DEF AskedIInv, Choose, Show, Report, AcceptNoReload, AcceptLoad,
     programVars, replyVars
<1>2. CASE Pin
  <2>1. CASE mode = "compare"
    BY <1>2, <2>1, AwaitByAsk DEF AskedIInv, Pin, programVars, replyVars
  <2>2. CASE mode # "compare"
    BY <1>2, <2>2, <1>a, <1>b DEF AwaitIInv, Pin, programVars, replyVars, boxVars
  <2>3. QED
    BY <2>1, <2>2
<1>3. CASE Reload
  <2>1. /\ slot' = LoadRequest(load', selection') /\ pending' = FALSE /\ loading' = TRUE
    BY <1>3 DEF Reload, Box!Put
  <2>2. PendingIsInFlight'
    BY <2>1 DEF PendingIsInFlight, InFlight, LoadRequest
  <2>3. slot'.kind = "load" /\ active'.kind # "load"
    BY <2>1 DEF AskedIInv, LoadRequest
  <2>4. QED
    BY <2>2, <2>3 DEF AwaitIInv, LoadIsNotSuperseded
<1>4. CASE Quit \/ Perform
  <2>1. /\ UNCHANGED told /\ UNCHANGED <<slot, active, inbox, pending, loading>>
        /\ obsolete' \in {obsolete, FALSE}
    BY <1>4 DEF Quit, Perform, PerformLoad, PerformPreview, PerformCompare, Panic, Done,
       Box!Finish, modelVars, programVars, replyVars, boxVars
  <2>2. PendingIsInFlight'
    BY <1>a, <2>1
  <2>3. LoadIsNotSuperseded'
    BY <1>b, <2>1
  <2>4. QED
    BY <2>2, <2>3 DEF AwaitIInv
<1>5. CASE End \/ StopWork \/ Close \/ Release \/ AcceptCrash \/ AcceptNoLoad
  <2>1. ended' \/ fatal'
    BY <1>5 DEF End, StopWork, Close, Release, AcceptCrash, AcceptNoLoad, programVars,
       Box!Stop, Box!Drop, TrafficIInv
  <2>2. QED
    BY <2>1 DEF AwaitIInv, PendingIsInFlight, LoadIsNotSuperseded
<1>6. CASE StartWork
  <2>1. /\ active' = slot /\ slot' = NoRequest /\ obsolete' = obsolete /\ active = NoRequest
        /\ UNCHANGED told /\ UNCHANGED <<pending, loading, inbox>>
    BY <1>6 DEF StartWork, Box!Start, modelVars, programVars, replyVars
  <2>2. ~obsolete
    BY <2>1 DEF TrafficIInv
  <2>3. PendingIsInFlight'
    BY <1>a, <2>1
  <2>4. LoadIsNotSuperseded'
    BY <2>1, <2>2 DEF LoadIsNotSuperseded
  <2>5. QED
    BY <2>3, <2>4 DEF AwaitIInv
<1>7. CASE Receive
  <2>1. /\ active' = NoRequest /\ slot' = slot /\ inbox' = answer /\ inbox = NoResult
        /\ answer # NoResult /\ answer.request = active
        /\ UNCHANGED told /\ UNCHANGED <<pending, loading>>
    BY <1>7 DEF Receive, Box!Answer, TrafficIInv, modelVars, programVars
  <2>2. PendingIsInFlight'
    BY <1>a, <2>1
  <2>3. LoadIsNotSuperseded'
    BY <2>1 DEF AwaitIInv, LoadIsNotSuperseded
  <2>4. QED
    BY <2>2, <2>3 DEF AwaitIInv
<1>8. CASE AcceptStale \/ AcceptFailure \/ AcceptContent
  <2>1. /\ inbox # NoResult /\ inbox' = NoResult
        /\ UNCHANGED told /\ UNCHANGED <<slot, active, obsolete, loading>>
        /\ pending' => pending
    BY <1>8 DEF AcceptStale, AcceptFailure, AcceptContent, Accepting, Rearm, modelVars,
       programVars, boxVars
  <2>2. \/ Stale(inbox.request) /\ pending' = pending
        \/ inbox.request.kind \in Modes /\ pending' = FALSE
    BY <1>8 DEF AcceptStale, AcceptFailure, AcceptContent, Fresh, modelVars
  <2>3. ASSUME NEW r \in onWay, r.load = load, r.kind = "load", loading
        PROVE  r \in onWay'
    BY <2>1, <2>2, <2>3 DEF Stale, Modes
  <2>4. ASSUME NEW r \in onWay, r.load = load, r.kind \in Modes, r.selection = selection, pending'
        PROVE  r \in onWay'
    BY <2>1, <2>2, <2>4 DEF Stale, Modes
  <2>5. PendingIsInFlight'
    BY <2>1, <2>3, <2>4 DEF AwaitIInv, PendingIsInFlight, InFlight, Modes
  <2>6. QED
    BY <1>b, <2>1, <2>5 DEF AwaitIInv
<1>9. CASE UNCHANGED vars
  BY <1>9, <1>a, <1>b DEF AwaitIInv, vars, modelVars, programVars, replyVars, boxVars
<1>10. QED
  BY <1>1, <1>2, <1>3, <1>4, <1>5, <1>6, <1>7, <1>8, <1>9 DEF Next, Accept

(* What the pane waits for is coming: a pending answer and an awaited load  *)
(* are always on their way, one call of next is there to bring them, and a  *)
(* load is never told to stop (model.go, worker.go).                        *)
THEOREM Awaiting == Spec => []AwaitedIsComing
<1>1. TrafficIInv /\ AwaitIInv => AwaitedIsComing
  BY DEF TrafficIInv, AwaitIInv, AwaitedIsComing, OneReader
<1>2. QED
  BY <1>1, TrafficInit, TrafficNext, AskedInit, AskedNext, AwaitInit, AwaitNext, PTL DEF Spec

----------------------------------------------------------------------------
(* A session changes only into the result of the newest load, and the       *)
(* selected node keeps its ID if it still exists (install in model.go).     *)
THEOREM Following == Spec => SessionsFollowLoads
<1> DEFINE Follows ==
        session' # session =>
            /\ loading
            /\ session'.load = load
            /\ (session # NoSession /\ \E p \in DOMAIN session'.ids :
                    session'.ids[p] = session.ids[selected])
                => session'.ids[selected'] = session.ids[selected]
<1>1. EngineIInv /\ [Next]_vars => Follows
  <2> SUFFICES ASSUME EngineIInv, [Next]_vars PROVE Follows
    OBVIOUS
  <2>1. CASE AcceptLoad
    <3> DEFINE r == inbox.request
    <3>1. inbox # NoResult /\ inbox.outcome = "ok" /\ r.kind = "load" /\ loading /\ r.load = load
      BY <2>1 DEF AcceptLoad, Accepting, Fresh, Stale
    <3>2. session' = inbox.session /\ session'.load = load
      BY <2>1, <3>1 DEF AcceptLoad, Install, EngineIInv, Sound
    <3>3. /\ selected' \in (IF Carried(session') = {} THEN {session'.reference} ELSE Carried(session'))
      BY <2>1, <3>2 DEF AcceptLoad, Install
    <3>4. QED
      BY <3>1, <3>2, <3>3 DEF Carried
  <2>2. CASE ~AcceptLoad
    <3>1. session' = session
      BY <2>2 DEF Next, Accept, Perform, Choose, Show, Pin, Reload, Report, Quit, AcceptCrash,
         AcceptStale, AcceptNoLoad, AcceptNoReload, AcceptFailure, AcceptContent, End, Close,
         StopWork, StartWork, PerformLoad, PerformPreview, PerformCompare, Panic, Done, Receive,
         Release, vars, modelVars
    <3>2. QED
      BY <3>1
  <2>3. QED
    BY <2>1, <2>2
<1>2. QED
  BY <1>1, EngineInit, EngineNext, PTL DEF Spec, SessionsFollowLoads

----------------------------------------------------------------------------
(* The types. TypeOK is not inductive: what an answer on its way carries    *)
(* decides what the next session and the next content are, so TypeIInv types*)
(* it too.                                                                  *)

(* What travels has the type of what it says it is.                         *)
TypedAnswer(a) ==
    a # NoResult =>
        /\ a.outcome \in {"ok", "failed", "crash"} /\ a.request \in Request
        /\ a.outcome = "ok" /\ a.request.kind = "load" => a.session \in Sessions
        /\ a.outcome = "ok" /\ a.request.kind \in Modes => a.content.mode \in Modes

Engines == [method : Methods, owner : Loads, docs : SUBSET Docs]

TypeIInv == TypeOK /\ engine \in Engines /\ TypedAnswer(inbox) /\ TypedAnswer(answer)

LEMMA TypeInit == Init => TypeIInv
<1> SUFFICES ASSUME Init PROVE TypeIInv
  OBVIOUS
<1>1. engine \in Engines
  BY HistoriesAssumption DEF Init, Engines, Methods, Loads
<1>2. EngineTypeOK
  BY <1>1 DEF Engines, EngineTypeOK
<1>3. slot \in Request
  BY HistoriesAssumption DEF Init, LoadRequest, Request, LoadRequests
<1>4. Box!BoxTypeOK
  BY <1>3 DEF Init, Box!BoxTypeOK
<1>5. RowsExist
  BY DEF Init, RowsExist
<1>6. {loading, pending, failure, fatal, quit, ended, armed} \subseteq BOOLEAN
  BY Zenon DEF Init
<1>7. load \in 1 .. MaxLoads /\ selection \in Nat
  BY HistoriesAssumption DEF Init
<1>8. TypeOK
  BY <1>2, <1>4, <1>5, <1>6, <1>7 DEF Init, TypeOK, Modes, Methods
<1>9. QED
  BY <1>1, <1>8 DEF Init, TypeIInv, TypedAnswer

(* request() sends a well-formed request.                                   *)
LEMMA WantedTyped ==
    ASSUME NEW s \in Sessions, NEW p \in DOMAIN s.ids, NEW q \in DOMAIN s.ids,
           NEW kind \in Modes, NEW n \in 1 .. MaxLoads, NEW i \in Nat, NEW m \in Methods
    PROVE  [kind |-> kind, load |-> n, selection |-> i, session |-> s.load,
            origin |-> s.ids[q], target |-> s.ids[p], method |-> m] \in Request
<1>1. PICK l \in 1 .. MaxLoads, h \in Histories : s = SessionOf(l, h)
  BY DEF Sessions
<1>2. s.load \in 1 .. MaxLoads /\ s.ids = h.ids /\ h.ids \in Seq(NodeId)
  BY <1>1, HistoriesAssumption DEF SessionOf
<1>3. s.ids[p] \in NodeId /\ s.ids[q] \in NodeId
  BY <1>2
<1>4. QED
  BY <1>2, <1>3 DEF Request, ContentRequests

LEMMA RequestTyped ==
    ASSUME NEW r \in Request
    PROVE  /\ r.load \in 1 .. MaxLoads
           /\ r.kind = "load" \/ r.kind \in Modes
           /\ r.kind \in Modes =>
                /\ r.session \in 1 .. MaxLoads /\ r.method \in Methods
                /\ r.target \in NodeId /\ r.origin \in NodeId
BY DEF Request, LoadRequests, ContentRequests, Modes

LEMMA ResetTyped ==
    ASSUME NEW e \in Engines, NEW n \in Loads
    PROVE  Reset(e, n) \in Engines
<1>1. {} \in SUBSET Docs
  OBVIOUS
<1>2. QED
  BY <1>1 DEF Reset, Engines

LEMMA DocumentTyped ==
    ASSUME NEW e \in Engines, NEW n \in 1 .. MaxLoads, NEW id \in NodeId,
           NEW out \in Document(e, n, id)
    PROVE  out[1] \in Engines
<1>1. ASSUME NEW k \in Kept(e, n, Doc(n, id, e.method)) PROVE k \in Engines
  <2> DEFINE b == IF e.owner = n THEN e ELSE Reset(e, n)
             d == Doc(n, id, e.method)
  <2>1. b \in Engines
    BY ResetTyped, HistoriesAssumption DEF Loads
  <2>2. d \in Docs
    BY DEF Doc, Docs, Engines
  <2>3. k = b \/ \E kept \in SUBSET b.docs : k = [b EXCEPT !.docs = kept \cup {d}]
    BY <1>1 DEF Kept
  <2> HIDE DEF b, d
  <2>4. QED
    BY <2>1, <2>2, <2>3 DEF Engines
<1>2. QED
  BY <1>1 DEF Document

LEMMA MeasuredTyped ==
    ASSUME NEW e \in Engines, NEW r \in Request
    PROVE  Measured(e, r) \in Engines /\ Reset(e, 0) \in Engines
<1>1. Reset(e, 0) \in Engines
  BY ResetTyped, HistoriesAssumption DEF Loads
<1>2. r.kind # "load" => r.method \in Methods
  BY RequestTyped
<1> DEFINE b == Reset(e, 0)
<1>3. Measured(e, r) = IF r.kind # "load" /\ r.method # e.method THEN [b EXCEPT !.method = r.method] ELSE e
  BY DEF Measured
<1> HIDE DEF b
<1>4. b \in Engines
  BY <1>1 DEF b
<1>5. Measured(e, r) \in Engines
  BY <1>2, <1>3, <1>4 DEF Engines
<1>6. QED
  BY <1>1, <1>5

LEMMA TypeNext == TypeIInv /\ [Next]_vars => TypeIInv'
<1> SUFFICES ASSUME TypeIInv, [Next]_vars PROVE TypeIInv'
  OBVIOUS
<1> DEFINE place == <<session, selected, origin>>
           sends == <<inbox, answer, engine>>
<1>0. ASSUME engine' \in Engines PROVE EngineTypeOK'
  BY <1>0 DEF Engines, EngineTypeOK
<1>a. ASSUME UNCHANGED sends \/ (UNCHANGED <<answer, engine>> /\ inbox' = NoResult)
      PROVE  /\ engine' \in Engines /\ EngineTypeOK'
             /\ TypedAnswer(inbox)' /\ TypedAnswer(answer)'
             /\ inbox' = NoResult \/ inbox'.outcome \in {"ok", "failed", "crash"}
             /\ answer' = NoResult \/ answer'.outcome \in {"ok", "failed", "crash"}
  BY <1>a, <1>0 DEF TypeIInv, TypedAnswer
<1>b. ASSUME UNCHANGED place PROVE RowsExist'
  BY <1>b DEF TypeIInv, TypeOK, RowsExist
<1>c. ASSUME NEW p \in DOMAIN session.ids PROVE session # NoSession
  BY <1>c DEF NoSession
<1>d. ASSUME Ask, RowsExist', session' \in Sessions \cup {NoSession}, load' = load,
             mode' \in Modes, method' \in Methods
      PROVE  selection' \in Nat /\ pending' \in BOOLEAN /\ failure' \in BOOLEAN /\ Box!BoxTypeOK'
  <2>1. selection' = selection + 1 /\ pending' \in {TRUE, FALSE} /\ failure' = FALSE
    BY <1>d DEF Ask
  <2>2. selection' \in Nat
    BY <2>1 DEF TypeIInv, TypeOK
  <2>3. pending' \in BOOLEAN /\ failure' \in BOOLEAN
    BY <2>1, Zenon
  <2>4. CASE UNCHANGED boxVars
    BY <2>2, <2>3, <2>4 DEF TypeIInv, TypeOK, Box!BoxTypeOK, boxVars
  <2>5. CASE session' # NoSession /\ Box!Put(Wanted')
    <3>1. session' \in Sessions /\ ({selected, origin} \subseteq DOMAIN session.ids)'
      BY <1>d, <2>5 DEF RowsExist
    <3>2. Wanted' \in Request
      BY <1>d, <2>2, <3>1, WantedTyped DEF Wanted, TypeIInv, TypeOK
    <3>3. QED
      BY <2>2, <2>3, <2>5, <3>2 DEF Box!Put, Box!BoxTypeOK, TypeIInv, TypeOK
  <2>6. QED
    BY <1>d, <2>2, <2>3, <2>4, <2>5 DEF Ask
<1>1. CASE \E p \in DOMAIN session.ids : Choose(p)
  <2>1. PICK p \in DOMAIN session.ids : Choose(p)
    BY <1>1
  <2>2. RowsExist'
    BY <1>c, <2>1 DEF Choose, RowsExist, TypeIInv, TypeOK
  <2>3. QED
    BY <1>a, <1>d, <2>1, <2>2 DEF Choose, TypeIInv, TypeOK, programVars, replyVars
<1>2. CASE (\E m \in Modes : Show(m)) \/ Report
  BY <1>2, <1>a, <1>b, <1>d DEF Show, Report, TypeIInv, TypeOK, programVars, replyVars, Methods, NoContent
<1>3. CASE Pin
  <2>1. RowsExist'
    BY <1>3 DEF Pin, Key, RowsExist, TypeIInv, TypeOK
  <2>2. CASE Ask
    BY <1>3, <1>a, <1>d, <2>1, <2>2 DEF Pin, TypeIInv, TypeOK, programVars, replyVars
  <2>3. CASE UNCHANGED <<selection, failure, pending, boxVars>>
    BY <1>3, <1>a, <2>1, <2>3 DEF Pin, TypeIInv, TypeOK, programVars, replyVars, boxVars, Box!BoxTypeOK
  <2>4. QED
    BY <1>3, <2>2, <2>3 DEF Pin
<1>4. CASE Reload
  <2>1. load' \in 1 .. MaxLoads /\ selection' \in Nat
    BY <1>4, HistoriesAssumption DEF Reload, TypeIInv, TypeOK
  <2>2. slot' \in Request
    BY <1>4, <2>1 DEF Reload, Box!Put, LoadRequest, Request, LoadRequests
  <2>3. Box!BoxTypeOK'
    BY <1>4, <2>2 DEF Reload, Box!Put, Box!BoxTypeOK, TypeIInv, TypeOK
  <2>4. QED
    BY <1>4, <1>a, <1>b, <2>1, <2>3 DEF Reload, TypeIInv, TypeOK, programVars, replyVars
<1>5. CASE Quit \/ End \/ Close \/ StopWork \/ StartWork
  BY <1>5, <1>a, <1>b DEF Quit, End, Close, StopWork, StartWork, TypeIInv, TypeOK, Box!Shut,
     Box!Stop, Box!Start, Box!BoxTypeOK, modelVars, programVars, replyVars, boxVars
<1>6. CASE Perform
  <2>0. ASSUME NEW a, NEW e \in Engines, Done(a, e), a # NoResult, TypedAnswer(a) PROVE TypeIInv'
    <3>1. /\ UNCHANGED <<modelVars, programVars, replyVars>> /\ answer' = a /\ engine' = e
          /\ working' = FALSE /\ obsolete' = FALSE /\ UNCHANGED <<slot, active, open>>
      BY <2>0 DEF Done, Box!Finish
    <3>2. Box!BoxTypeOK'
      BY <3>1 DEF TypeIInv, TypeOK, Box!BoxTypeOK
    <3>3. TypedAnswer(answer') /\ answer'.outcome \in {"ok", "failed", "crash"}
      BY <2>0, <3>1 DEF TypedAnswer
    <3>4. UNCHANGED modelVars /\ UNCHANGED programVars /\ armed' = armed /\ inbox' = inbox
      BY <3>1 DEF replyVars
    <3>5. EngineTypeOK' /\ RowsExist' /\ engine' \in Engines
      BY <1>0, <1>b, <2>0, <3>1, <3>4 DEF modelVars
    <3>6. TypeOK'
      BY <3>2, <3>3, <3>4, <3>5 DEF TypeIInv, TypeOK, modelVars, programVars
    <3>7. TypedAnswer(inbox')
      BY <3>4 DEF TypeIInv
    <3>8. QED
      BY <3>3, <3>5, <3>6, <3>7 DEF TypeIInv, TypedAnswer
  <2>1. active \in Request
    BY <1>6 DEF Perform, PerformLoad, PerformPreview, PerformCompare, Panic, TypeIInv, TypeOK,
       Box!BoxTypeOK, NoRequest
  <2>2. /\ TypedAnswer(Failed(active)) /\ Failed(active) # NoResult
        /\ TypedAnswer(Crash(active)) /\ Crash(active) # NoResult
    BY <2>1 DEF TypedAnswer, Failed, Crash, NoResult
  <2>3. ASSUME NEW c, c.mode \in Modes, active.kind \in Modes
        PROVE  TypedAnswer(Prepared(active, c)) /\ Prepared(active, c) # NoResult
    BY <2>1, <2>3 DEF TypedAnswer, Prepared, NoResult, Modes
  <2>4. Measured(engine, active) \in Engines /\ Reset(engine, 0) \in Engines
    BY <2>1, MeasuredTyped DEF TypeIInv
  <2>5. CASE PerformLoad
    <3>1. ASSUME NEW h \in Histories
          PROVE  /\ TypedAnswer(Loaded(active, SessionOf(active.load, h)))
                 /\ Loaded(active, SessionOf(active.load, h)) # NoResult
      <4>1. SessionOf(active.load, h) \in Sessions
        BY <2>1, RequestTyped DEF Sessions
      <4>2. QED
        BY <2>1, <2>5, <4>1 DEF PerformLoad, TypedAnswer, Loaded, NoResult, Modes
    <3>2. QED
      BY <2>0, <2>2, <2>4, <2>5, <3>1 DEF PerformLoad
  <2>6. CASE PerformPreview
    <3>1. active.kind \in Modes /\ active.session \in 1 .. MaxLoads /\ active.target \in NodeId
      BY <2>1, <2>6, RequestTyped DEF PerformPreview, Modes
    <3>2. ASSUME NEW out \in Document(Measured(engine, active), active.session, active.target)
          PROVE  out[1] \in Engines
      BY <2>4, <3>1, DocumentTyped
    <3>3. \A d : Preview(d).mode \in Modes
      BY DEF Preview, Modes
    <3>4. QED
      BY <2>0, <2>2, <2>3, <2>4, <2>6, <3>1, <3>2, <3>3 DEF PerformPreview
  <2>7. CASE PerformCompare
    <3>1. /\ active.kind \in Modes /\ active.session \in 1 .. MaxLoads
          /\ active.target \in NodeId /\ active.origin \in NodeId
      BY <2>1, <2>7, RequestTyped DEF PerformCompare, Modes
    <3>2. ASSUME NEW from \in Document(Measured(engine, active), active.session, active.origin)
          PROVE  from[1] \in Engines
      BY <2>4, <3>1, DocumentTyped
    <3>3. ASSUME NEW from \in Document(Measured(engine, active), active.session, active.origin),
                 NEW to \in Document(from[1], active.session, active.target)
          PROVE  to[1] \in Engines
      BY <3>1, <3>2, DocumentTyped
    <3>4. \A c, d : Comparison(c, d).mode \in Modes
      BY DEF Comparison, Modes
    <3>5. QED
      BY <2>0, <2>2, <2>3, <2>4, <2>7, <3>1, <3>2, <3>3, <3>4 DEF PerformCompare
  <2>8. CASE Panic
    BY <2>0, <2>2, <2>4, <2>8 DEF Panic
  <2>9. QED
    BY <1>6, <2>5, <2>6, <2>7, <2>8 DEF Perform
<1>7. CASE Receive
  BY <1>7, <1>0, <1>b DEF Receive, Box!Answer, Box!BoxTypeOK, TypeIInv, TypeOK, TypedAnswer, modelVars, programVars
<1>8. CASE Release
  BY <1>8, <1>0, <1>b DEF Release, Box!Drop, Box!Answer, Box!BoxTypeOK, TypeIInv, TypeOK, TypedAnswer, modelVars,
     programVars, replyVars
<1>9. CASE AcceptCrash \/ AcceptStale \/ AcceptNoLoad \/ AcceptFailure
  BY <1>9, <1>a, <1>b DEF AcceptCrash, AcceptStale, AcceptNoLoad, AcceptFailure, Rearm, TypeIInv,
     TypeOK, Box!BoxTypeOK, modelVars, programVars, boxVars
<1>10. CASE AcceptContent
  <2>1. inbox.content.mode \in Modes
    BY <1>10 DEF AcceptContent, Accepting, Fresh, TypeIInv, TypedAnswer
  <2>2. QED
    BY <1>10, <1>a, <1>b, <2>1 DEF AcceptContent, Rearm, TypeIInv, TypeOK, Box!BoxTypeOK, programVars, boxVars
<1>11. CASE AcceptNoReload
  BY <1>11, <1>a, <1>b, <1>d DEF AcceptNoReload, Rearm, TypeIInv, TypeOK, programVars
<1>12. CASE AcceptLoad
  <2>1. session' \in Sessions
    BY <1>12 DEF AcceptLoad, Accepting, Fresh, Install, TypeIInv, TypedAnswer
  <2>2. PICK n \in 1 .. MaxLoads, h \in Histories : session' = SessionOf(n, h)
    BY <2>1 DEF Sessions
  <2>3. session'.ids = h.ids /\ session'.reference \in DOMAIN session'.ids
    BY <2>2, HistoriesAssumption DEF SessionOf
  <2>4. {selected', origin'} \subseteq DOMAIN session'.ids
    BY <1>12, <2>3 DEF AcceptLoad, Install, Carried
  <2>5. session' # NoSession
    BY <2>3 DEF NoSession
  <2>6. RowsExist'
    BY <2>4, <2>5 DEF RowsExist
  <2>7. QED
    BY <1>12, <1>a, <1>d, <2>1, <2>6 DEF AcceptLoad, Install, Rearm, TypeIInv, TypeOK, programVars, NoContent
<1>13. CASE UNCHANGED vars
  BY <1>13, <1>a, <1>b DEF vars, TypeIInv, TypeOK, Box!BoxTypeOK, modelVars, programVars, replyVars, boxVars
<1>14. QED
  BY <1>1, <1>2, <1>3, <1>4, <1>5, <1>6, <1>7, <1>8, <1>9, <1>10, <1>11, <1>12, <1>13
     DEF Next, Accept

(* The selected and the pinned row always exist in the installed history,   *)
(* and every variable keeps its type.                                       *)
THEOREM Typing == Spec => []TypeOK
<1>1. TypeIInv => TypeOK
  BY DEF TypeIInv
<1>2. QED
  BY <1>1, TypeInit, TypeNext, PTL DEF Spec

----------------------------------------------------------------------------
(* The background worker, for every number of submissions. Its safety       *)
(* properties are not inductive one by one. WorkerIInv joins them with the  *)
(* facts that tie the cancel function to the loop's position, the close     *)
(* sequence to the flags it sets, and the four request numbers to each      *)
(* other.                                                                   *)


(* The cancel function is there exactly while the loop may be performing.   *)
CancelIInv == installed <=> pc \in {"running", "returned"}

(* What each stage of close, and the loop's end, implies.                   *)
CloseIInv ==
    /\ closed => pendingRequest = NoSubmission
    /\ stopped => closed
    /\ closing # "out" => closed
    /\ closing \in {"joining", "joined"} => stopped
    /\ closing = "joined" => pc = "done"
    /\ pc = "done" => stopped

(* delivered, cur, pending and submitted come in the order of submission,   *)
(* and what waits is always the newest.                                     *)
OrderIInv ==
    /\ delivered <= cur
    /\ cur <= submitted
    /\ pendingRequest # NoSubmission => pendingRequest = submitted /\ cur < pendingRequest
    /\ pc \in Busy => delivered < cur

WorkerIInv ==
    /\ WorkerTypeOK
    /\ CancelIInv
    /\ CloseIInv
    /\ OrderIInv
    /\ NoLostWakeup
    /\ SupersededIsCancelled
    /\ NewestIsNotCancelled
    /\ EveryStartIsAnswered
    /\ JoinedMeansGone

LEMMA WorkerInitIInv == WorkerInit => WorkerIInv
<1> SUFFICES ASSUME WorkerInit PROVE WorkerIInv
  OBVIOUS
<1>1. WorkerTypeOK
  <2>1. submitted \in 0 .. MaxSubmits
    BY MaxSubmitsAssumption DEF WorkerInit
  <2>2. QED
    BY <2>1 DEF WorkerInit, WorkerTypeOK, PC, Busy
<1>2. CancelIInv /\ CloseIInv
  <2>1. CancelIInv
    BY DEF WorkerInit, CancelIInv
  <2>2. CloseIInv
    BY DEF WorkerInit, CloseIInv
  <2>3. QED
    BY <2>1, <2>2
<1>3. OrderIInv
  BY DEF WorkerInit, OrderIInv, Busy, NoSubmission
<1>4. /\ NoLostWakeup /\ SupersededIsCancelled /\ NewestIsNotCancelled
      /\ EveryStartIsAnswered /\ JoinedMeansGone
  BY DEF WorkerInit, NoLostWakeup, SupersededIsCancelled, NewestIsNotCancelled,
         EveryStartIsAnswered, JoinedMeansGone
<1>5. QED
  BY <1>1, <1>2, <1>3, <1>4 DEF WorkerIInv

LEMMA WorkerNextIInv == WorkerIInv /\ [WorkerNext]_workerVars => WorkerIInv'
<1> SUFFICES ASSUME WorkerIInv, [WorkerNext]_workerVars PROVE WorkerIInv'
  OBVIOUS
<1> USE MaxSubmitsAssumption
    DEF WorkerIInv, WorkerTypeOK, CancelIInv, CloseIInv, OrderIInv, NoLostWakeup,
        SupersededIsCancelled, NewestIsNotCancelled, EveryStartIsAnswered,
        JoinedMeansGone, PC, Busy, Submission, NoSubmission, loopVars
<1>1. CASE Submit
  BY <1>1 DEF Submit
<1>2. CASE CloseMark
  BY <1>2 DEF CloseMark
<1>3. CASE CloseStop
  BY <1>3 DEF CloseStop
<1>4. CASE CloseJoin
  BY <1>4 DEF CloseJoin
<1>5. CASE NextCall
  BY <1>5 DEF NextCall
<1>6. CASE NextNil
  BY <1>6 DEF NextNil
<1>7. CASE Exit
  BY <1>7 DEF Exit
<1>8. CASE Wake
  BY <1>8 DEF Wake
<1>9. CASE TakeNothing
  BY <1>9 DEF TakeNothing
<1>10. CASE Take
  BY <1>10 DEF Take
<1>11. CASE Return
  BY <1>11 DEF Return
<1>12. CASE Clear
  BY <1>12 DEF Clear
<1>13. CASE Deliver
  <2>1. WorkerTypeOK' /\ CancelIInv' /\ CloseIInv'
    BY <1>13 DEF Deliver
  <2>2. OrderIInv'
    BY <1>13 DEF Deliver
  <2>3. /\ NoLostWakeup' /\ SupersededIsCancelled' /\ NewestIsNotCancelled'
        /\ EveryStartIsAnswered' /\ JoinedMeansGone'
    BY <1>13 DEF Deliver
  <2>4. QED
    BY <2>1, <2>2, <2>3
<1>14. CASE Abandon
  BY <1>14 DEF Abandon
<1>15. CASE UNCHANGED workerVars
  BY <1>15 DEF workerVars
<1>16. QED
  BY <1>1, <1>2, <1>3, <1>4, <1>5, <1>6, <1>7, <1>8, <1>9, <1>10, <1>11,
     <1>12, <1>13, <1>14, <1>15 DEF WorkerNext

(* The inductive invariant holds throughout every behaviour of the worker.  *)
THEOREM WorkerInvariance == WorkerSpec => []WorkerIInv
  BY WorkerInitIInv, WorkerNextIInv, PTL DEF WorkerSpec

(* Every variable keeps its type; worker.go's fields and the two goroutines *)
(* around it never leave the states the actions name.                       *)
THEOREM TypeCorrect == WorkerSpec => []WorkerTypeOK
  BY WorkerInvariance, PTL DEF WorkerIInv

(* A pending request always has a wake-up on its way to it, so the single   *)
(* token of the wake channel is enough, and every request the loop took is  *)
(* in hand or was answered, until the worker stops.                         *)
THEOREM NoRequestIsLost == WorkerSpec => []NothingIsLost
  BY WorkerInvariance, PTL DEF WorkerIInv, NothingIsLost

(* The context of the work being performed is done exactly when that work   *)
(* has been superseded or the worker stops.                                 *)
THEOREM CancellationIsExact == WorkerSpec => []CancelledExactly
  BY WorkerInvariance, PTL DEF WorkerIInv, CancelledExactly

(* When close has returned nothing is running and nothing waits.            *)
THEOREM JoinIsFinal == WorkerSpec => []JoinedMeansGone
  BY WorkerInvariance, PTL DEF WorkerIInv

(* Results come out in the order of submission, none twice.                 *)
THEOREM Ordered == WorkerSpec => ResultsInOrder
<1>1. WorkerIInv /\ [WorkerNext]_workerVars => [Deliver => delivered' > delivered]_workerVars
  BY MaxSubmitsAssumption
  DEF Deliver, WorkerIInv, WorkerTypeOK, OrderIInv, Busy, Submission, NoSubmission
<1>2. QED
  BY <1>1, WorkerInvariance, PTL DEF WorkerSpec, ResultsInOrder

(* No request starts once close has marked the worker.                      *)
THEOREM ClosedWorkerIsQuiet == WorkerSpec => NothingStartsOnceClosed
<1>1. WorkerIInv /\ [WorkerNext]_workerVars
        => [pc # "running" /\ pc' = "running" => ~closed /\ ~closed']_workerVars
  <2> SUFFICES ASSUME WorkerIInv, WorkerNext, pc # "running", pc' = "running"
               PROVE  ~closed /\ ~closed'
    OBVIOUS
  <2>1. Take
    BY DEF WorkerNext, Submit, CloseMark, CloseStop, CloseJoin, NextCall, NextNil, Exit,
           Wake, TakeNothing, Return, Clear, Deliver, Abandon, loopVars
  <2>2. QED
    BY <2>1 DEF Take, WorkerIInv, CloseIInv
<1>2. QED
  BY <1>1, WorkerInvariance, PTL DEF WorkerSpec, NothingStartsOnceClosed

----------------------------------------------------------------------------
(* Refinement: the worker's initial state is the mailbox's, and each of its *)
(* steps is one of the mailbox's or changes nothing the mailbox shows.      *)
LEMMA InitIsMailbox == WorkerInit => Contract!BoxInit
  BY DEF WorkerInit, Contract!BoxInit, Busy, NoSubmission

LEMMA StepIsMailbox == WorkerIInv /\ [WorkerNext]_workerVars => [Contract!BoxNext]_(Contract!boxVars)
<1> SUFFICES ASSUME WorkerIInv, [WorkerNext]_workerVars
             PROVE  [Contract!BoxNext]_(Contract!boxVars)
  OBVIOUS
<1> USE DEF Busy, Contract!boxVars, loopVars
<1>1. CASE Submit
  <2>1. pendingRequest' \in Submission
    BY <1>1, MaxSubmitsAssumption DEF Submit, WorkerIInv, WorkerTypeOK, Submission
  <2>2. Contract!Put(pendingRequest')
    BY <1>1 DEF Submit, Contract!Put, WorkerIInv, CancelIInv
  <2>3. QED
    BY <2>1, <2>2 DEF Contract!BoxNext
<1>2. CASE CloseMark
  <2>1. Contract!Shut
    BY <1>2 DEF CloseMark, Contract!Shut
  <2>2. QED
    BY <2>1 DEF Contract!BoxNext
<1>3. CASE CloseStop
  <2>1. Contract!Stop
    BY <1>3 DEF CloseStop, Contract!Stop, WorkerIInv, CloseIInv, CancelIInv
  <2>2. QED
    BY <2>1 DEF Contract!BoxNext
<1>4. CASE Take
  <2>1. Contract!Start
    BY <1>4 DEF Take, Contract!Start, WorkerIInv, CloseIInv, CancelIInv, WorkerTypeOK
  <2>2. QED
    BY <2>1 DEF Contract!BoxNext
<1>5. CASE Return
  <2>1. Contract!Finish
    BY <1>5 DEF Return, Contract!Finish
  <2>2. QED
    BY <2>1 DEF Contract!BoxNext
<1>6. CASE Deliver
  <2>1. Contract!Answer
    BY <1>6 DEF Deliver, Contract!Answer, WorkerIInv, OrderIInv, WorkerTypeOK, Submission, NoSubmission
  <2>2. QED
    BY <2>1 DEF Contract!BoxNext
<1>7. CASE Abandon
  <2>1. Contract!Drop
    BY <1>7 DEF Abandon, Contract!Drop, Contract!Answer, WorkerIInv, OrderIInv, CloseIInv,
       WorkerTypeOK, Submission, NoSubmission
  <2>2. QED
    BY <2>1 DEF Contract!BoxNext
<1>8. CASE CloseJoin \/ NextCall \/ NextNil \/ Exit \/ Wake \/ TakeNothing \/ Clear
  BY <1>8 DEF CloseJoin, NextCall, NextNil, Exit, Wake, TakeNothing, Clear
<1>9. CASE UNCHANGED workerVars
  BY <1>9 DEF workerVars
<1>10. QED
  BY <1>1, <1>2, <1>3, <1>4, <1>5, <1>6, <1>7, <1>8, <1>9 DEF WorkerNext

(* The goroutine, mutex and channels of worker.go implement the mailbox the *)
(* browser is modelled with.                                                *)
THEOREM Refinement == WorkerSpec => ImplementsMailbox
  BY InitIsMailbox, StepIsMailbox, WorkerInvariance, PTL
  DEF WorkerSpec, ImplementsMailbox, Contract!BoxSpec
=============================================================================
