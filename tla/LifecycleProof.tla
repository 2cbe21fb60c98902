---------------------------- MODULE LifecycleProof ----------------------------
(***************************************************************************)
(* What Lifecycle keeps for any number of requests and signals.            *)
(*                                                                         *)
(* The status of a process tells how it ended because run returns "0" only *)
(* after Shutdown, Shutdown waits for the context, and while run has not   *)
(* returned only a signal cancels the context.  The store is closed        *)
(* because the deferred call that closes it is registered in the step that *)
(* opens it.                                                               *)
(***************************************************************************)
EXTENDS Lifecycle, TLAPS

TypeOK ==
  /\ pc \in 1..9 /\ deferred \subseteq {"close", "cancel"}
  /\ code \in {Running, "0", "1"} /\ exit \in {"none", "0", "1", "killed"}
  /\ store \in {"none", "open", "closed", "leaked"}
  /\ listener \in {"none", "open", "closed"} /\ watcher \in {"none", "waiting", "done"}
  /\ req \in [Req -> {"none", "queued", "connected", "running", "statement", "refused",
                      "answered", "lost"}]
  /\ signals \in Nat

\* An open store has its deferred call, and is closed by nothing else.
StoreDeferred ==
  /\ exit = "none" /\ store = "open" => "close" \in deferred
  /\ store = "closed" => code # Running
  /\ pc > 2 => store \in {"open", "closed"}

\* Why run has returned, and the context been cancelled.
Reason ==
  /\ code = "0" => signals > 0 /\ ~failed
  /\ code = "1" => failed
  /\ code = Running => ~failed
  /\ exit \in {"0", "1"} => exit = code
  /\ exit = "killed" => signals > 0
  /\ cancelled /\ code = Running => signals > 0
  /\ watcher = "done" => cancelled

\* A request comes in after the store is open.
ComesLate ==
  /\ listener # "none" => pc > 5 \/ exit # "none"
  /\ serving => pc = 9
  /\ exit = "none" => \A r \in Req : Active(req[r]) => pc > 5

Inv == TypeOK /\ StoreDeferred /\ Reason /\ ComesLate /\ ClosesStore /\ LostWhenStopped

\* The step run has come to is that of its counter.
LEMMA AtStep ==
  ASSUME NEW s, At(s), TypeOK
  PROVE  /\ exit = "none" /\ code = Running
         /\ s = "load" => pc = 1
         /\ s = "initDb" => pc = 2
         /\ s \in {"policyClient", "sprmClient"} => pc > 2 /\ pc < 5
         /\ s = "listen" => pc = 5
         /\ s \in {"notify", "router", "watch"} => pc > 5 /\ pc < 9
         /\ s = "serve" <=> pc = 9
         /\ s \in Steps
  BY DEF At, Order, TypeOK, Steps

LEMMA InitInv == Init => Inv
  BY DEF Init, Inv, TypeOK, StoreDeferred, Reason, ComesLate, ClosesStore, LostWhenStopped, Active,
    Running

LEMMA SucceedsStep ==
  ASSUME Inv, NEW s \in Steps, Succeeds(s)
  PROVE  Inv'
<1>. /\ At(s) /\ s # "serve" /\ pc' = pc + 1 /\ deferred' = deferred \cup Defers(s)
     /\ store' = (IF s = "initDb" THEN "open" ELSE store)
     /\ listener' = (IF s = "listen" THEN "open" ELSE listener)
     /\ watcher' = (IF s = "watch" THEN "waiting" ELSE watcher)
     /\ UNCHANGED <<code, exit, serving, cancelled, req, signals, failed>>
  BY DEF Succeeds
<1>1. /\ s = "initDb" <=> pc = 2
      /\ s = "listen" <=> pc = 5
      /\ pc \in 1..8
  BY AtStep DEF Inv, TypeOK, Steps, Order, At
<1>2. Defers(s) \subseteq {"close", "cancel"} /\ (s = "initDb" => "close" \in Defers(s))
  BY DEF Defers
<1>3. TypeOK'
  <2>1. deferred' \subseteq {"close", "cancel"}  BY <1>2 DEF Inv, TypeOK
  <2>2. pc' \in 1..9  BY <1>1
  <2>. QED  BY <2>1, <2>2 DEF Inv, TypeOK
<1>4. StoreDeferred'  BY <1>1, <1>2 DEF Inv, TypeOK, StoreDeferred, At
<1>5. Reason'  BY DEF Inv, Reason
<1>6. ComesLate'
  <2>1. ~serving  BY <1>1 DEF Inv, ComesLate
  <2>. QED  BY <1>1, <2>1 DEF Inv, ComesLate
<1>7. ClosesStore' /\ LostWhenStopped'
  BY DEF Inv, ClosesStore, LostWhenStopped, At
<1>. QED  BY <1>3, <1>4, <1>5, <1>6, <1>7 DEF Inv

LEMMA FailsStep ==
  ASSUME Inv, NEW s \in Steps, Fails(s)
  PROVE  Inv'
<1>1. /\ exit = "none" /\ code = Running /\ code' = "1" /\ failed' = TRUE
      /\ store' \in (IF s = "initDb" THEN InitDBLeaves ELSE {store})
      /\ s = "initDb" => pc = 2
      /\ UNCHANGED <<pc, deferred, exit, serving, listener, notified, cancelled, watcher, req, signals>>
  BY AtStep DEF Inv, Fails
<1>2. TypeOK'  BY <1>1 DEF Inv, TypeOK, Running, InitDBLeaves
<1>3. StoreDeferred'  BY <1>1 DEF Inv, TypeOK, StoreDeferred, Running, InitDBLeaves
<1>4. Reason'  BY <1>1 DEF Inv, Reason, Running
<1>5. ComesLate'  BY <1>1 DEF Inv, ComesLate
<1>6. ClosesStore' /\ LostWhenStopped'
  BY <1>1 DEF Inv, ClosesStore, LostWhenStopped, InitDBLeaves
<1>. QED  BY <1>2, <1>3, <1>4, <1>5, <1>6 DEF Inv

\* Serve returns because of a signal, or because it fails.
LEMMA ServeReturnsStep ==
  ASSUME Inv, Stops \/ Breaks
  PROVE  Inv'
<1>1. /\ exit = "none" /\ code = Running /\ pc = 9
      /\ listener' = "closed"
      /\ UNCHANGED <<pc, deferred, exit, store, notified, cancelled, watcher, req, signals>>
  BY AtStep DEF Inv, Stops, Breaks, ServeReturns
<1>2. \/ code' = "0" /\ signals > 0 /\ failed' = failed
      \/ code' = "1" /\ failed' = TRUE
  BY <1>1 DEF Inv, Reason, Stops, Breaks, ServeEnds, ServeReturns, ServeCode
<1>3. TypeOK'  BY <1>1, <1>2 DEF Inv, TypeOK
<1>4. StoreDeferred'  BY <1>1, <1>2 DEF Inv, StoreDeferred, Running
<1>5. Reason'  BY <1>1, <1>2 DEF Inv, Reason, Running
<1>6. ComesLate'  BY <1>1 DEF Inv, ComesLate
<1>7. ClosesStore' /\ LostWhenStopped'
  BY <1>1, <1>2 DEF Inv, ClosesStore, LostWhenStopped
<1>. QED  BY <1>3, <1>4, <1>5, <1>6, <1>7 DEF Inv

\* What run does after it has returned.
LEMMA ReturnedStep ==
  ASSUME Inv, Cancel \/ Close \/ Exit
  PROVE  Inv'
<1>1. CASE Cancel
  BY <1>1 DEF Cancel, Inv, TypeOK, StoreDeferred, Reason, ComesLate, ClosesStore, LostWhenStopped
<1>2. CASE Close
  BY <1>2 DEF Close, Inv, TypeOK, StoreDeferred, Reason, ComesLate, ClosesStore, LostWhenStopped
<1>3. CASE Exit
  <2>1. /\ exit = "none" /\ code \in {"0", "1"} /\ deferred = {} /\ exit' = code
        /\ listener' = "closed" /\ ~serving'
        /\ req' = [r \in Req |-> IF Active(req[r]) THEN "lost" ELSE req[r]]
        /\ UNCHANGED <<pc, deferred, code, store, notified, cancelled, watcher, signals, failed>>
    BY <1>3 DEF Exit, End, Inv, TypeOK
  <2>2. signals > 0 \/ failed  BY <2>1 DEF Inv, Reason
  <2>3. store # "open"  BY <2>1 DEF Inv, StoreDeferred
  <2>4. TypeOK'  BY <2>1 DEF Inv, TypeOK
  <2>5. StoreDeferred' /\ Reason' /\ ComesLate' /\ ClosesStore' /\ LostWhenStopped'
    BY <2>1, <2>2, <2>3 DEF Inv, StoreDeferred, Reason, ComesLate, ClosesStore, LostWhenStopped,
      Running
  <2>. QED  BY <2>4, <2>5 DEF Inv
<1>. QED  BY <1>1, <1>2, <1>3

LEMMA SignalStep ==
  ASSUME Inv, Signal
  PROVE  Inv'
<1>1. /\ exit = "none" /\ signals' = signals + 1 /\ signals' > 0
      /\ UNCHANGED <<pc, deferred, code, store, notified, watcher, failed>>
  BY DEF Signal, Inv, TypeOK
<1>2. CASE notified
  <2>1. cancelled' = TRUE /\ UNCHANGED <<exit, serving, listener, req>>
    BY <1>2 DEF Signal
  <2>. QED
    BY <1>1, <2>1 DEF Inv, TypeOK, StoreDeferred, Reason, ComesLate, ClosesStore, LostWhenStopped
<1>3. CASE ~notified
  <2>1. /\ exit' = "killed" /\ listener' = "closed" /\ ~serving' /\ cancelled' = cancelled
        /\ req' = [r \in Req |-> IF Active(req[r]) THEN "lost" ELSE req[r]]
    BY <1>3 DEF Signal, End
  <2>2. TypeOK'  BY <1>1, <2>1 DEF Inv, TypeOK
  <2>3. StoreDeferred' /\ Reason' /\ ComesLate' /\ ClosesStore' /\ LostWhenStopped'
    BY <1>1, <2>1 DEF Inv, StoreDeferred, Reason, ComesLate, ClosesStore, LostWhenStopped
  <2>. QED  BY <2>2, <2>3 DEF Inv
<1>. QED  BY <1>2, <1>3

LEMMA RequestStep ==
  ASSUME Inv, NEW r \in Req, Request(r)
  PROVE  Inv'
<1>1. PICK from \in {"none", "queued", "connected", "running", "statement"},
           to \in {"queued", "connected", "running", "statement", "refused", "answered"} :
        /\ Goes(r, from, to)
        /\ from = "none" => listener = "open"
        /\ to = "refused" => from = "running" /\ store # "open"
  BY DEF Request, Connect, Accept, Handle, Query, Result, Answer
<1>2. /\ exit = "none" /\ req[r] = from /\ req' = [req EXCEPT ![r] = to]
      /\ UNCHANGED <<pc, deferred, code, exit, serving, store, listener, cancelled, watcher, signals,
                     failed>>
  BY <1>1 DEF Goes, process
<1>3. pc > 5
  BY <1>1, <1>2 DEF Inv, ComesLate, Active
<1>4. to = "refused" => signals > 0 \/ failed
  <2>1. SUFFICES ASSUME to = "refused" PROVE code # Running
    BY DEF Inv, TypeOK, Reason
  <2>2. store = "closed"  BY <1>1, <1>3, <2>1 DEF Inv, StoreDeferred, TypeOK
  <2>. QED  BY <2>2 DEF Inv, StoreDeferred
<1>5. TypeOK'  BY <1>1, <1>2 DEF Inv, TypeOK
<1>6. StoreDeferred' /\ Reason' /\ ClosesStore'
  BY <1>2 DEF Inv, StoreDeferred, Reason, ClosesStore
<1>7. ComesLate'  BY <1>2, <1>3 DEF Inv, ComesLate
<1>8. LostWhenStopped'
  BY <1>1, <1>2, <1>4 DEF Inv, TypeOK, LostWhenStopped
<1>. QED  BY <1>5, <1>6, <1>7, <1>8 DEF Inv

LEMMA StepInv == Inv /\ [Next]_vars => Inv'
<1>. SUFFICES ASSUME Inv, [Next]_vars PROVE Inv'  OBVIOUS
<1>1. ASSUME NEW s \in Steps, Succeeds(s)  PROVE Inv'  BY <1>1, SucceedsStep
<1>2. ASSUME NEW s \in Steps, Fails(s)  PROVE Inv'  BY <1>2, FailsStep
<1>3. CASE Serve
  <2>1. pc = 9  BY <1>3, AtStep DEF Inv, Serve
  <2>. QED
    BY <1>3, <2>1 DEF Serve, Inv, TypeOK, StoreDeferred, Reason, ComesLate, ClosesStore,
      LostWhenStopped
<1>4. CASE Stops \/ Breaks  BY <1>4, ServeReturnsStep
<1>5. CASE Cancel \/ Close \/ Exit  BY <1>5, ReturnedStep
<1>6. CASE Shutdown
  <2>1. /\ watcher' = "done" /\ cancelled
        /\ listener' = IF serving THEN "closed" ELSE listener
        /\ UNCHANGED <<pc, deferred, code, exit, serving, store, notified, cancelled, req, signals,
                       failed>>
    BY <1>6 DEF Shutdown, process
  <2>2. TypeOK'  BY <2>1 DEF Inv, TypeOK
  <2>. QED
    BY <2>1, <2>2 DEF Inv, StoreDeferred, Reason, ComesLate, ClosesStore, LostWhenStopped
<1>7. CASE Signal  BY <1>7, SignalStep
<1>8. ASSUME NEW r \in Req, Request(r)  PROVE Inv'  BY <1>8, RequestStep
<1>9. CASE UNCHANGED vars
  BY <1>9 DEF vars, process, Inv, TypeOK, StoreDeferred, Reason, ComesLate, ClosesStore,
    LostWhenStopped
<1>. QED  BY <1>1, <1>2, <1>3, <1>4, <1>5, <1>6, <1>7, <1>8, <1>9 DEF Next, Run

LEMMA AlwaysInv == Spec => []Inv
<1>. QED  BY InitInv, StepInv, PTL DEF Spec

(***************************************************************************)
(* run closes the store it has opened, whichever step fails (main.go:44-96).*)
(***************************************************************************)
THEOREM StoreClosed == Spec => []ClosesStore
<1>1. Inv => ClosesStore  BY DEF Inv
<1>. QED  BY <1>1, AlwaysInv, PTL

(***************************************************************************)
(* The exit status tells a stop from a failure (main.go:92-96).            *)
(***************************************************************************)
THEOREM StatusTells == Spec => []ExitStatus
<1>1. Inv => ExitStatus  BY DEF Inv, Reason, ExitStatus
<1>. QED  BY <1>1, AlwaysInv, PTL

(***************************************************************************)
(* However many requests there are, none is lost or refused by a process   *)
(* that is neither signalled nor broken.                                   *)
(***************************************************************************)
THEOREM NothingLost == Spec => []LostWhenStopped
<1>1. Inv => LostWhenStopped  BY DEF Inv
<1>. QED  BY <1>1, AlwaysInv, PTL
=============================================================================
