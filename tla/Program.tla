------------------------------ MODULE Program -------------------------------
(***************************************************************************)
(* How the browser ends: browse (cmd/xunhen/browse.go), Run                *)
(* (internal/tui/run.go) and its relay goroutine, the Bubble Tea program   *)
(* between them, and the termination signals that may come at any moment.  *)
(* What the model does between its first and its last message is           *)
(* Browser.tla; of it this module keeps what can end the program.          *)
(***************************************************************************)
EXTENDS Integers, Sequences

CONSTANT Signals          \* the termination signals, by number

ASSUME ProgramAssumption == Signals \subseteq Nat \ {0}

VARIABLES
    main,        \* where the main goroutine is
    relay,       \* where the relay goroutine is
    signals,     \* the channel of capacity one that signal.Notify fills
    notified,    \* signal.Notify is in force
    stopped,     \* the channel close(stopped) closes
    messages,    \* messages that goroutines of the program wait to hand over
    fatal,       \* model.fatal and crashed: "none", "load" or "crash"
    err,         \* what program.Run returned: "none", "interrupted" or "failed"
    outcome,     \* Outcome.Signal and Interrupted
    working,     \* the worker's goroutine lives
    owned,       \* Bubble Tea owns the terminal
    status,      \* the exit status, None before
    endedBy,     \* the message or failure that ended the program (history)
    sent,        \* signals sent while they were notified (history)
    killed       \* a signal met its default disposition

mainVars == <<main, stopped, err, working, status>>
uiVars == <<messages, fatal, owned, endedBy>>
vars == <<mainVars, uiVars, relay, signals, notified, outcome, sent, killed>>

None == -1
Fatal == {"load", "crash"}
exitSuccess == 0
exitFailure == 1
exitUsage == 2
exitInterrupt == 130

Init ==
    /\ main = "browse" /\ relay = "unborn"
    /\ signals = <<>> /\ notified = FALSE /\ stopped = FALSE
    /\ messages = {} /\ fatal = "none" /\ err = "none"
    /\ outcome = [signal |-> None, interrupted |-> FALSE]
    /\ working = FALSE /\ owned = FALSE
    /\ status = None /\ endedBy = "none" /\ sent = {} /\ killed = FALSE

Alive == ~killed /\ status = None

-----------------------------------------------------------------------------
(* browse. *)

Exit(code) == status' = code /\ main' = "done"

\* Help, a usage error, or a terminal that cannot host the browser: nothing is
\* opened. (The first two exit with failure when their text cannot be written.)
Refuse ==
    /\ Alive /\ main = "browse"
    /\ \E code \in {exitSuccess, exitUsage, exitFailure} : Exit(code)
    /\ endedBy' = "refused"
    /\ UNCHANGED <<stopped, err, working, messages, fatal, owned, relay, signals, notified,
                   outcome, sent, killed>>

\* Run: the limits and the environment may fail before anything starts.
FailEarly ==
    /\ Alive /\ main = "browse"
    /\ Exit(exitFailure)
    /\ endedBy' = "failed"
    /\ UNCHANGED <<stopped, err, working, messages, fatal, owned, relay, signals, notified,
                   outcome, sent, killed>>

\* The worker's goroutine starts before the signals are notified.
StartWorker ==
    /\ Alive /\ main = "browse"
    /\ main' = "notify" /\ working' = TRUE
    /\ UNCHANGED <<stopped, err, status, uiVars, relay, signals, notified, outcome, sent, killed>>

Notify ==
    /\ Alive /\ main = "notify"
    /\ main' = "run" /\ notified' = TRUE /\ relay' = "select"
    /\ UNCHANGED <<stopped, err, working, status, uiVars, signals, outcome, sent, killed>>

\* program.Run takes the terminal over.
Own ==
    /\ Alive /\ main = "run" /\ ~owned /\ endedBy = "none"
    /\ owned' = TRUE
    /\ UNCHANGED <<mainVars, messages, fatal, endedBy, relay, signals, notified, outcome, sent,
                   killed>>

-----------------------------------------------------------------------------
(* What can end the program. *)

Running == Alive /\ main = "run" /\ owned /\ endedBy = "none"

\* q and ctrl+c return commands, which Bubble Tea runs on goroutines of their
\* own: their messages may come in any order.
Press(key) ==
    /\ Running
    /\ messages' = messages \cup {key}
    /\ UNCHANGED <<mainVars, fatal, owned, endedBy, relay, signals, notified, outcome, sent,
                   killed>>

\* accept: a failed first load or a crashed worker is fatal.  The next result
\* is not asked for, so nothing becomes fatal after it.
BecomeFatal(what) ==
    /\ Running /\ fatal = "none"
    /\ fatal' = what
    /\ messages' = messages \cup {"fatal"}
    /\ UNCHANGED <<mainVars, owned, endedBy, relay, signals, notified, outcome, sent, killed>>

\* The event loop takes one of the messages, or the terminal fails.
Take(message) ==
    /\ Running /\ message \in messages
    /\ endedBy' = message
    /\ err' = IF message = "ctrl+c" THEN "interrupted" ELSE "none"
    /\ UNCHANGED <<main, stopped, working, status, messages, fatal, owned, relay, signals,
                   notified, outcome, sent, killed>>

TerminalFails ==
    /\ Alive /\ main = "run" /\ endedBy = "none"
    /\ endedBy' = "failed"
    /\ err' = "failed"
    /\ UNCHANGED <<main, stopped, working, status, messages, fatal, owned, relay, signals,
                   notified, outcome, sent, killed>>

-----------------------------------------------------------------------------
(* Signals and the relay. *)

\* os/signal never blocks: a signal that finds the channel full is dropped.
\* (Bound: each signal is sent once.)
Send(s) ==
    /\ Alive /\ notified
    /\ s \notin sent
    /\ sent' = sent \cup {s}
    /\ signals' = IF signals = <<>> THEN <<s>> ELSE signals
    /\ UNCHANGED <<mainVars, uiVars, relay, notified, outcome, killed>>

\* Before Notify and after Stop a signal ends the process at once.
Kill ==
    /\ Alive /\ ~notified
    /\ killed' = TRUE
    /\ UNCHANGED <<mainVars, uiVars, relay, signals, notified, outcome, sent>>

RelaySignal ==
    /\ Alive /\ relay = "select" /\ signals # <<>>
    /\ outcome' = [outcome EXCEPT !.signal = Head(signals)]
    /\ signals' = Tail(signals)
    /\ messages' = messages \cup {"signal"}
    /\ relay' = "quitting"
    /\ UNCHANGED <<mainVars, fatal, owned, endedBy, notified, sent, killed>>

\* Quit returns once the program takes the message or has already ended.
RelayQuitTaken ==       \* fault: only once the program takes it
    /\ Alive /\ relay = "quitting"
    /\ endedBy = "signal"
    /\ relay' = "gone"
    /\ UNCHANGED <<mainVars, uiVars, signals, notified, outcome, sent, killed>>

RelayQuit ==
    /\ Alive /\ relay = "quitting"
    /\ endedBy = "signal" \/ main # "run"
    /\ relay' = "gone"
    /\ UNCHANGED <<mainVars, uiVars, signals, notified, outcome, sent, killed>>

RelayStop ==
    /\ Alive /\ relay = "select" /\ stopped
    /\ relay' = "gone"
    /\ UNCHANGED <<mainVars, uiVars, signals, notified, outcome, sent, killed>>

-----------------------------------------------------------------------------
(* The way out. *)

\* program.Run returns with the terminal restored and no sender left waiting.
Return ==
    /\ Alive /\ main = "run" /\ endedBy # "none"
    /\ main' = "stop" /\ owned' = FALSE /\ messages' = {}
    /\ UNCHANGED <<stopped, err, working, status, fatal, endedBy, relay, signals, notified,
                   outcome, sent, killed>>

\* signal.Stop; a signal already in the channel stays there.
Stop ==
    /\ Alive /\ main = "stop"
    /\ main' = "close" /\ notified' = FALSE
    /\ UNCHANGED <<stopped, err, working, status, uiVars, relay, signals, outcome, sent, killed>>

CloseStopped ==
    /\ Alive /\ main = "close"
    /\ main' = "join" /\ stopped' = TRUE
    /\ UNCHANGED <<err, working, status, uiVars, relay, signals, notified, outcome, sent, killed>>

\* Fault: Run goes on without <-relayed.
JoinAtOnce ==
    /\ Alive /\ main = "join"
    /\ main' = "worker"
    /\ UNCHANGED <<stopped, err, working, status, uiVars, relay, signals, notified, outcome,
                   sent, killed>>

JoinRelay ==
    /\ Alive /\ main = "join" /\ relay = "gone"
    /\ main' = "worker"
    /\ UNCHANGED <<stopped, err, working, status, uiVars, relay, signals, notified, outcome,
                   sent, killed>>

\* w.close, which returns when the goroutine is gone (Worker.tla).
JoinWorker ==
    /\ Alive /\ main = "worker"
    /\ main' = "report" /\ working' = FALSE
    /\ UNCHANGED <<stopped, err, status, uiVars, relay, signals, notified, outcome, sent, killed>>

\* Run's outcome and browse's status: a failure comes before a signal, and a
\* signal before an interrupt.
\* Fault: an interrupt hides what was fatal.
StatusInterruptFirst ==
    IF err = "interrupted" THEN exitInterrupt
    ELSE IF err = "failed" \/ fatal \in Fatal THEN exitFailure
    ELSE IF outcome.signal # None THEN 128 + outcome.signal
    ELSE exitSuccess

Status ==
    IF err = "failed" \/ fatal \in Fatal THEN exitFailure
    ELSE IF outcome.signal # None THEN 128 + outcome.signal
    ELSE IF err = "interrupted" THEN exitInterrupt
    ELSE exitSuccess

Report ==
    /\ Alive /\ main = "report"
    /\ Exit(Status)
    /\ outcome' = [outcome EXCEPT !.interrupted = err = "interrupted"]
    /\ UNCHANGED <<stopped, err, working, uiVars, relay, signals, notified, sent, killed>>

-----------------------------------------------------------------------------
Relay == RelaySignal \/ RelayQuit \/ RelayStop
Main ==
    \/ StartWorker \/ Notify \/ Own \/ Return \/ Stop \/ CloseStopped
    \/ JoinRelay \/ JoinWorker \/ Report
Loop == \E message \in {"q", "ctrl+c", "fatal", "signal"} : Take(message)

Next ==
    \/ Refuse \/ FailEarly
    \/ Main
    \/ \E key \in {"q", "ctrl+c"} : Press(key)
    \/ \E what \in Fatal : BecomeFatal(what)
    \/ Loop
    \/ TerminalFails
    \/ \E s \in Signals : Send(s)
    \/ Kill
    \/ Relay

\* The scheduler runs every goroutine that can go on, and the event loop takes
\* messages as long as the program runs.
Spec == Init /\ [][Next]_vars
FairSpec == Spec /\ WF_vars(Main) /\ WF_vars(Relay) /\ WF_vars(Loop)

-----------------------------------------------------------------------------
(* Properties. *)

\* The exit status is true: success only when q ended the browser, failure
\* exactly when something failed, and otherwise a signal that was sent or an
\* interrupt that was asked for.  A signal that ended the browser is named
\* unless something failed, whatever came at the same time.
OutcomeIsTrue ==
    status # None /\ endedBy # "refused" =>
        /\ status = exitSuccess => endedBy = "q"
        /\ status = exitFailure <=> (endedBy = "failed" \/ fatal # "none")
        /\ status \in {exitSuccess, exitFailure, exitInterrupt} \cup {128 + s : s \in sent}
        /\ status = exitInterrupt => endedBy = "ctrl+c" \/ exitInterrupt - 128 \in sent
        /\ endedBy = "signal" => status \in {exitFailure} \cup {128 + s : s \in sent}

\* Whichever way the browser ends, the process exits with the relay gone, the
\* worker joined and the terminal restored, and no signal kills it with the
\* terminal still taken over.
NothingIsLeftRunning ==
    /\ status # None => relay \in {"unborn", "gone"} /\ ~working /\ ~notified
    /\ status # None \/ killed => ~owned

\* A signal in the channel, or a key that ends the program, ends the process
\* whenever it comes: the relay and Run never wait for each other.
EndsWhenAsked == (signals # <<>> \/ messages # {}) ~> (status # None \/ killed)
=============================================================================
