------------------------------- MODULE Lifecycle -------------------------------
(***************************************************************************)
(* One process from its start to its exit: run of cmd/placement-manager,   *)
(* Run of the server with the goroutine that shuts it down, the opening    *)
(* and closing of the store, and what becomes of the requests meanwhile.   *)
(*                                                                         *)
(* A signal may come at any time.  It ends the process on the spot unless  *)
(* NotifyContext catches it, and then it only cancels a context.  Nothing  *)
(* waits for the handlers: Serve returns as soon as Shutdown begins.       *)
(***************************************************************************)
EXTENDS Naturals, Sequences

CONSTANTS
  Req,        \* the requests
  MaxSignals  \* bound: signals sent to the process

ASSUME LifecycleAssumption == MaxSignals \in Nat

VARIABLES
  pc,        \* the step of run that is next
  deferred,  \* the deferred calls still to run
  code,      \* what run returns, or Running
  exit,      \* how the process ended: "none", "0", "1" or "killed"
  store,     \* "none", "open", "closed", or "leaked" by a failed InitDB
  listener,  \* "none", "open" or "closed"
  serving,   \* whether Serve is in its accept loop
  notified,  \* whether the context's signals are caught
  cancelled, \* whether the context is cancelled
  watcher,   \* the goroutine: "none", "waiting" or "done"
  req,       \* where each request is
  signals,   \* signals sent so far
  failed     \* whether a step or Serve has failed

process == <<pc, deferred, code, exit, serving>>
vars    == <<process, store, listener, notified, cancelled, watcher, req, signals, failed>>

Running == "running"

\* Faulty: the goroutine is started behind Serve.
OrderServeFirst ==
  <<"load", "initDb", "policyClient", "sprmClient", "listen", "notify", "router", "serve", "watch">>

\* The steps of run and of Run within it.
Order ==
  <<"load", "initDb", "policyClient", "sprmClient", "listen", "notify", "router", "watch", "serve">>

Fallible == {"load", "initDb", "policyClient", "sprmClient", "listen", "router"}

\* Faulty: the store is closed only if the clients could be built.
DefersLate(step) ==
  CASE step = "sprmClient" -> {"close"}
    [] step = "notify"     -> {"cancel"}
    [] OTHER               -> {}

Defers(step) ==
  CASE step = "initDb" -> {"close"}
    [] step = "notify" -> {"cancel"}
    [] OTHER           -> {}

\* What a failed InitDB leaves: nothing, or the connection, when it is the
\* migration that failed.
InitDBLeaves == {"none", "leaked"}

\* Faulty: Serve's ErrServerClosed is an error like any other.
ServeCodeStrict(err) == "1"

ServeCode(err) == IF err = "ErrServerClosed" THEN "0" ELSE "1"

\* Shutdown has begun: Serve does not start, or returns.
ServeEnds == watcher = "done"

Active(s) == s \in {"queued", "connected", "running", "statement"}

-----------------------------------------------------------------------------
Init ==
  /\ pc = 1 /\ deferred = {} /\ code = Running /\ exit = "none"
  /\ store = "none" /\ listener = "none" /\ serving = FALSE
  /\ notified = FALSE /\ cancelled = FALSE /\ watcher = "none"
  /\ req = [r \in Req |-> "none"]
  /\ signals = 0 /\ failed = FALSE

\* run has come to step s.
At(s) == exit = "none" /\ code = Running /\ pc <= Len(Order) /\ Order[pc] = s

Succeeds(s) ==
  /\ At(s) /\ s # "serve"
  /\ pc' = pc + 1
  /\ deferred' = deferred \cup Defers(s)
  /\ store'    = IF s = "initDb" THEN "open" ELSE store
  /\ listener' = IF s = "listen" THEN "open" ELSE listener
  /\ notified' = (notified \/ s = "notify")
  /\ watcher'  = IF s = "watch" THEN "waiting" ELSE watcher
  /\ UNCHANGED <<code, exit, serving, cancelled, req, signals, failed>>

\* A failed step is logged and run returns.
Fails(s) ==
  /\ At(s) /\ s \in Fallible
  /\ code' = "1" /\ failed' = TRUE
  /\ store' \in IF s = "initDb" THEN InitDBLeaves ELSE {store}
  /\ UNCHANGED <<pc, deferred, exit, serving, listener, notified, cancelled, watcher, req, signals>>

\* Serve begins, unless Shutdown came first.
Serve ==
  /\ At("serve") /\ ~serving /\ ~ServeEnds
  /\ serving' = TRUE
  /\ UNCHANGED <<pc, deferred, code, exit, store, listener, notified, cancelled, watcher, req,
                 signals, failed>>

\* Serve returns with err, which closes the listener.
ServeReturns(err) ==
  /\ At("serve")
  /\ code' = ServeCode(err) /\ serving' = FALSE /\ listener' = "closed"
  /\ UNCHANGED <<pc, deferred, exit, store, notified, cancelled, watcher, req, signals>>

Stops == ServeEnds /\ ServeReturns("ErrServerClosed") /\ UNCHANGED failed

\* Serve can accept no more connections.
Breaks == serving /\ ServeReturns("accept") /\ failed' = TRUE

\* The deferred calls run last in, first out.
Cancel ==
  /\ exit = "none" /\ code # Running /\ "cancel" \in deferred
  /\ deferred' = deferred \ {"cancel"}
  /\ cancelled' = TRUE /\ notified' = FALSE
  /\ UNCHANGED <<pc, code, exit, serving, store, listener, watcher, req, signals, failed>>

Close ==
  /\ exit = "none" /\ code # Running /\ "close" \in deferred /\ "cancel" \notin deferred
  /\ deferred' = deferred \ {"close"}
  /\ store' = "closed"
  /\ UNCHANGED <<pc, code, exit, serving, listener, notified, cancelled, watcher, req, signals,
                 failed>>

\* The process ends, with every request in it.
End(how) ==
  /\ exit' = how /\ serving' = FALSE /\ listener' = "closed"
  /\ req' = [r \in Req |-> IF Active(req[r]) THEN "lost" ELSE req[r]]

Exit ==
  /\ exit = "none" /\ code # Running /\ deferred = {}
  /\ End(code)
  /\ UNCHANGED <<pc, deferred, code, store, notified, cancelled, watcher, signals, failed>>

\* Faulty: the goroutine does not wait for the context.
ShutdownAtOnce ==
  /\ exit = "none" /\ watcher = "waiting"
  /\ watcher' = "done"
  /\ listener' = IF serving THEN "closed" ELSE listener
  /\ UNCHANGED <<process, store, notified, cancelled, req, signals, failed>>

\* The goroutine wakes up and has the server shut down.
Shutdown ==
  /\ exit = "none" /\ watcher = "waiting" /\ cancelled
  /\ watcher' = "done"
  /\ listener' = IF serving THEN "closed" ELSE listener
  /\ UNCHANGED <<process, store, notified, cancelled, req, signals, failed>>

Signal ==
  /\ exit = "none" /\ signals < MaxSignals /\ signals' = signals + 1
  /\ IF notified THEN cancelled' = TRUE /\ UNCHANGED <<exit, serving, listener, req>>
                 ELSE End("killed") /\ UNCHANGED cancelled
  /\ UNCHANGED <<pc, deferred, code, store, notified, watcher, failed>>

-----------------------------------------------------------------------------
\* A request: its connection waits for Accept, then for its handler, which may
\* start even after Serve has returned and goes to the store and back.

Goes(r, from, to) ==
  /\ exit = "none" /\ req[r] = from
  /\ req' = [req EXCEPT ![r] = to]
  /\ UNCHANGED <<process, store, listener, notified, cancelled, watcher, signals, failed>>

Connect(r) == listener = "open" /\ Goes(r, "none", "queued")
Accept(r)  == serving /\ listener = "open" /\ Goes(r, "queued", "connected")
Handle(r)  == Goes(r, "connected", "running")
Query(r)   == Goes(r, "running", IF store = "open" THEN "statement" ELSE "refused")
Result(r)  == Goes(r, "statement", "running")
Answer(r)  == Goes(r, "running", "answered")

Request(r) == Connect(r) \/ Accept(r) \/ Handle(r) \/ Query(r) \/ Result(r) \/ Answer(r)

Steps == {Order[i] : i \in 1..Len(Order)}

Run == (\E s \in Steps : Succeeds(s) \/ Fails(s)) \/ Serve \/ Stops \/ Cancel \/ Close \/ Exit

Next == Run \/ Breaks \/ Shutdown \/ Signal \/ \E r \in Req : Request(r)

\* The two goroutines run, and what they call returns.  A signal, a broken
\* listener and the progress of a handler are nobody's to count on.
Spec == Init /\ [][Next]_vars /\ WF_vars(Run) /\ WF_vars(Shutdown)

-----------------------------------------------------------------------------
(***************************************************************************)
(* Whenever run returns, the store it opened has been closed, whichever    *)
(* step failed (main.go:44-96); only a signal that is not caught leaves it *)
(* open, and a migration that failed inside InitDB.                        *)
(***************************************************************************)
ClosesStore == exit \in {"0", "1"} => store # "open"

(***************************************************************************)
(* The process reports success exactly when a signal stopped it, and a     *)
(* failure only if something failed (main.go:92-96, server.go:77-82).      *)
(***************************************************************************)
ExitStatus == /\ exit = "0" => signals > 0 /\ ~failed
              /\ exit = "1" => failed

(***************************************************************************)
(* A request that has come in is lost, or finds the store closed, only if  *)
(* a signal was sent or the server could not start or accept.              *)
(***************************************************************************)
LostWhenStopped == (\E r \in Req : req[r] \in {"lost", "refused"}) => signals > 0 \/ failed

(***************************************************************************)
(* A signal ends the process, whenever it comes and whatever the handlers  *)
(* do: no signal is lost between NotifyContext and Serve, and neither      *)
(* Shutdown nor Close waits for a handler that does not return.            *)
(***************************************************************************)
SignalStops == signals > 0 ~> exit # "none"
=============================================================================
