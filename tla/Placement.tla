------------------------------ MODULE Placement ------------------------------
(***************************************************************************)
(* The placement service: the requests that create, read, delete and       *)
(* rehydrate resources, each a sequence of calls to the policy engine, the *)
(* database and the resource manager (SPRM), with nothing but the database *)
(* between two requests.                                                   *)
(*                                                                         *)
(* A request occupies a slot r of Req.  pc[r] is the call it makes next,   *)
(* one step per call; job[r] is what its handler knows so far.  The calls  *)
(* of different requests interleave, a client may disconnect (Cancel), the *)
(* process may stop in the middle of anything (Crash), and the SPRM may    *)
(* execute a call after the service has given up on it (Deliver).          *)
(***************************************************************************)
EXTENDS Naturals, FiniteSets, ServiceErrors

CONSTANTS
  Req,            \* slots for concurrent requests
  Id,             \* resource ids
  UserId,         \* the ids clients choose and may use again; the others are UUIDs
  Cat,            \* catalog item instances
  ServiceSpec,    \* service specifications
  OrigSpec,       \* the specification a client asks for, per catalog item instance
  Provider,       \* service providers
  None,           \* the absence of a row, an instance, a name, a job
  Kinds,          \* the kinds of request clients send
  Faults,         \* what may go wrong around the service: see FaultKinds
  Lingering,      \* the SPRM calls that may be executed after their caller left: all
                  \* of Ops in the code, fewer to tell what depends on which
  Exclusive,      \* TRUE when clients serialise their requests: see MaySubmit
  Refusals,       \* the statuses the SPRM may refuse each kind of call with
  PolicyFailures, \* the statuses a policy evaluation may fail with
  MaxTries,       \* attempts of one call, 4 in the code
  MaxLate         \* bound on the SPRM calls under way after their caller left

VARIABLES
  db, sprm, cleanup,
  late,           \* SPRM calls whose caller is gone that may still be executed
  minted,         \* the UUIDs used so far
  pc, job,
  tries,          \* failed attempts of the current SPRM call
  alive,          \* whether the request's context is not cancelled
  resp            \* the answer of a finished request: "OK" or an error code

INSTANCE Store
INSTANCE ResourceManager

vars == <<db, sprm, cleanup, late, minted, pc, job, tries, alive, resp>>

AllKinds   == {"create", "get", "delete", "rehydrate"}
FaultKinds == {"loss",    \* an SPRM call or its answer is lost or late
               "cancel",  \* a client disconnects before its answer
               "crash",   \* the process stops
               "db"}      \* the database fails or loses an acknowledgement

Row      == [cat : Cat, spec : ServiceSpec, prov : Provider]
Instance == [spec : ServiceSpec, prov : Provider]
Job      == [kind : Kinds, id : Id \cup {None}, new : Id \cup {None},
             cat : Cat \cup {None}, spec : ServiceSpec \cup {None},
             prov : Provider \cup {None}, eval : ServiceSpec \cup {None}]
SprmCall == [op : Ops, id : Id, inst : Instance \cup {None}, by : Req, try : Nat]

PC == {"idle", "get", "policy", "insert", "provision", "rollback",
       "unprovision", "deferred", "remove", "done"}

ASSUME IdAssumption     == UserId \subseteq Id
ASSUME SpecAssumption   == OrigSpec \in [Cat -> ServiceSpec]
ASSUME NoneAssumption   == /\ None \notin Row \cup Instance \cup Job
                           /\ None \notin Id \cup Cat \cup ServiceSpec \cup Provider
                           /\ None \notin ErrorCode \cup {"OK"}
ASSUME KindAssumption   == Kinds \subseteq AllKinds /\ Faults \subseteq FaultKinds
ASSUME StatusAssumption == /\ Refusals \in [Ops -> SUBSET (400..599)]
                           /\ PolicyFailures \subseteq (400..599) \cup {NoAnswer}
ASSUME CallAssumption   == Lingering \subseteq Ops
ASSUME BoundAssumption  == MaxTries \in Nat \ {0} /\ MaxLate \in Nat
ASSUME ClientAssumption == Exclusive \in BOOLEAN

Init ==
  /\ db = [x \in Id |-> None]
  /\ sprm = [x \in Id |-> None]
  /\ cleanup = {}
  /\ late = {}
  /\ minted = {}
  /\ pc = [r \in Req |-> "idle"]
  /\ job = [r \in Req |-> None]
  /\ tries = [r \in Req |-> 0]
  /\ alive = [r \in Req |-> TRUE]
  /\ resp = [r \in Req |-> None]

-----------------------------------------------------------------------------
\* Control of one request.

\* Go on with the call at `at`; a call starts with no failed attempt.
Go(r, at) ==
  /\ pc' = [pc EXCEPT ![r] = at]
  /\ tries' = [tries EXCEPT ![r] = 0]
  /\ resp' = resp

\* Go on at `at` with the answer settled.
Answer(r, code, at) ==
  /\ pc' = [pc EXCEPT ![r] = at]
  /\ tries' = [tries EXCEPT ![r] = 0]
  /\ resp' = [resp EXCEPT ![r] = code]

\* Return to the handler.
Finish(r, code) == Answer(r, code, "done")

\* Faulty: nothing is rolled back.
FailUnprovisionedOnly(r, code) == Finish(r, code)

\* Faulty: a rehydration replaces the old resource although the new one failed.
FailUnprovisionedReplacing(r, code) ==
  Answer(r, code, IF job[r].kind = "rehydrate" THEN "deferred" ELSE "rollback")

\* Faulty: the provisioning starts over instead.
FailUnprovisionedAgain(r, code) == Go(r, "provision")

\* Fail because the new row has no instance: it is rolled back first.
FailUnprovisioned(r, code) == Answer(r, code, "rollback")

-----------------------------------------------------------------------------
\* Clients.

Uses(r) == IF job[r] = None THEN {} ELSE {job[r].id, job[r].new} \ {None}

\* Clients that serialise their requests use no id a running request uses, and
\* place a catalog item instance once: not while it has a row or is being placed.
MaySubmit(ids, cats) ==
  Exclusive => /\ \A q \in Req : pc[q] # "idle" => Uses(q) \cap ids = {}
               /\ \A q \in Req : job[q] # None => job[q].cat \notin cats
               /\ \A x \in Id : db[x] # None => db[x].cat \notin cats

\* The id of a new resource is the client's, or a UUID never seen before.
NewId(x) ==
  /\ x \in UserId \/ x \notin minted
  /\ minted' = minted \cup ({x} \ UserId)

Begin(r, j, at) ==
  /\ pc[r] = "idle"
  /\ j.kind \in Kinds
  /\ MaySubmit({j.id, j.new} \ {None}, {j.cat} \ {None})
  /\ job' = [job EXCEPT ![r] = j]
  /\ Go(r, at)
  /\ UNCHANGED <<db, sprm, cleanup, late, alive>>

Asked(kind, id, new, cat, spec) ==
  [kind |-> kind, id |-> id, new |-> new, cat |-> cat, spec |-> spec,
   prov |-> None, eval |-> None]

SubmitCreate(r) ==
  \E x \in Id, c \in Cat :
    /\ NewId(x)
    /\ Begin(r, Asked("create", None, x, c, OrigSpec[c]), "policy")

SubmitById(r) ==
  \E kind \in {"get", "delete"}, x \in Id :
    /\ Begin(r, Asked(kind, x, None, None, None), "get")
    /\ minted' = minted

SubmitRehydrate(r) ==
  \E x \in Id, y \in Id :
    /\ NewId(y)
    /\ Begin(r, Asked("rehydrate", x, y, None, None), "get")

\* The client reads the answer and the slot is free again.
Reply(r) ==
  /\ pc[r] = "done"
  /\ pc' = [pc EXCEPT ![r] = "idle"]
  /\ job' = [job EXCEPT ![r] = None]
  /\ alive' = [alive EXCEPT ![r] = TRUE]
  /\ resp' = [resp EXCEPT ![r] = None]
  /\ UNCHANGED <<db, sprm, cleanup, late, minted, tries>>

\* The client disconnects: net/http cancels the request's context.
Cancel(r) ==
  /\ "cancel" \in Faults
  /\ pc[r] \notin {"idle", "done"}
  /\ alive[r]
  /\ alive' = [alive EXCEPT ![r] = FALSE]
  /\ UNCHANGED <<db, sprm, cleanup, late, minted, pc, job, tries, resp>>

-----------------------------------------------------------------------------
\* Calls to the SPRM.

SprmRequest(r, op) ==
  [op |-> op,
   id |-> IF op = "create" THEN job[r].new ELSE job[r].id,
   inst |-> IF op = "create" THEN [spec |-> job[r].eval, prov |-> job[r].prov] ELSE None,
   by |-> r, try |-> tries[r]]

\* The callers of `calls` are gone.  What they have sent may stay under way.
MayLinger(calls) ==
  late' \in {late} \cup {l \in {late \cup sent : sent \in SUBSET {c \in calls : c.op \in Lingering}} :
                            Cardinality(l) <= MaxLate}

\* The answer does not arrive: a dead context stops waiting for it, or it is lost.
Unanswered(r, status) == status = NoAnswer /\ (~alive[r] \/ "loss" \in Faults)

\* One attempt: the SPRM executes it and its answer arrives, or the answer does
\* not arrive and the SPRM executes it all the same, later, or never.
Attempt(r, c, status) ==
  \/ /\ alive[r]
     /\ Serve(c, status)
     /\ late' = late
  \/ /\ Unanswered(r, status)
     /\ \E unheard \in Answers : Serve(c, unheard)
     /\ late' = late
  \/ /\ Unanswered(r, status)
     /\ MayLinger({c})
     /\ UNCHANGED <<sprm, cleanup>>

\* Faulty: one attempt too many.
RetriesOnceMore(r, status) ==
  /\ tries[r] < MaxTries
  /\ ~IsPermanentHTTPError(status)
  /\ alive[r]

\* backoff.Retry: another attempt unless this one was the last, the failure is
\* permanent, or the context is gone.
Retries(r, status) ==
  /\ tries[r] + 1 < MaxTries
  /\ ~IsPermanentHTTPError(status)
  /\ alive[r]

TryAgain(r) ==
  /\ tries' = [tries EXCEPT ![r] = @ + 1]
  /\ UNCHANGED <<pc, resp>>

Statuses == Answers \cup {NoAnswer}

-----------------------------------------------------------------------------
\* The service: one action per call a handler waits for.

\* The first call of every request on an existing resource.
Get(r) ==
  /\ pc[r] = "get"
  /\ \E err \in StoreError :
       /\ StoreGet(job[r].id, alive[r], err)
       /\ \/ /\ err = Nil /\ job[r].kind = "get"
             /\ Finish(r, "OK") /\ job' = job
          \/ /\ err = Nil /\ job[r].kind = "delete"
             /\ Go(r, "unprovision") /\ job' = job
          \/ /\ err = Nil /\ job[r].kind = "rehydrate"
             /\ Go(r, "policy")
             /\ job' = [job EXCEPT ![r].cat = db[job[r].id].cat,
                                   ![r].spec = db[job[r].id].spec]
          \/ err = "ErrResourceNotFound" /\ Finish(r, "NOT_FOUND") /\ job' = job
          \/ err = "error" /\ Finish(r, "INTERNAL_ERROR") /\ job' = job
  /\ UNCHANGED <<sprm, cleanup, late, minted, alive>>

\* An evaluation has no effect, so its attempts are one step: what the last one
\* answers.  The engine may select no provider, and change the specification.
Evaluate(r) ==
  /\ pc[r] = "policy"
  /\ \/ \E p \in Provider, e \in ServiceSpec :
          /\ alive[r]
          /\ job' = [job EXCEPT ![r].prov = p, ![r].eval = e]
          /\ Go(r, "insert")
     \/ alive[r] /\ Finish(r, "POLICY_INTERNAL_ERROR") /\ job' = job
     \/ \E status \in PolicyFailures :
          alive[r] /\ Finish(r, HandlePolicyError(status)) /\ job' = job
     \/ ~alive[r] /\ Finish(r, HandlePolicyError(NoAnswer)) /\ job' = job
  /\ UNCHANGED <<db, sprm, cleanup, late, minted, alive>>

\* Faulty: the row keeps the specification the policies made.
NewRowEvaluated(j) == [cat |-> j.cat, spec |-> j.eval, prov |-> j.prov]

\* Faulty: a rehydrated row is a copy of the old one, provider included.
NewRowCopied(j) == IF j.kind = "rehydrate" THEN db[j.id]
                   ELSE [cat |-> j.cat, spec |-> j.spec, prov |-> j.prov]

\* The row keeps the specification asked for, not the one evaluated.
NewRow(j) == [cat |-> j.cat, spec |-> j.spec, prov |-> j.prov]

\* Faulty: a duplicate id is rolled back like a failed provisioning.
InsertedOrUndone(r, err) ==
  \/ err = Nil                  /\ Go(r, "provision")
  \/ err = "ErrResourceIdExist" /\ Answer(r, "CONFLICT", "rollback")
  \/ err = "error"              /\ Finish(r, "INTERNAL_ERROR")

\* Faulty: a failed insertion is rolled back, in case it took effect.
InsertedOrUnsure(r, err) ==
  \/ err = Nil                  /\ Go(r, "provision")
  \/ err = "ErrResourceIdExist" /\ Finish(r, "CONFLICT")
  \/ err = "error"              /\ Answer(r, "INTERNAL_ERROR", "rollback")

\* Faulty: only a duplicate id stops the creation.
InsertedAnyway(r, err) ==
  \/ err # "ErrResourceIdExist" /\ Go(r, "provision")
  \/ err = "ErrResourceIdExist" /\ Finish(r, "CONFLICT")

Inserted(r, err) ==
  \/ err = Nil                  /\ Go(r, "provision")
  \/ err = "ErrResourceIdExist" /\ Finish(r, "CONFLICT")
  \/ err = "error"              /\ Finish(r, "INTERNAL_ERROR")

Insert(r) ==
  /\ pc[r] = "insert"
  /\ \E err \in StoreError :
       /\ StoreCreate(job[r].new, NewRow(job[r]), alive[r], err)
       /\ Inserted(r, err)
  /\ UNCHANGED <<sprm, cleanup, late, minted, job, alive>>

Provision(r) ==
  /\ pc[r] = "provision"
  /\ \E status \in Statuses :
       /\ Attempt(r, SprmRequest(r, "create"), status)
       /\ \/ status = 201 /\ job[r].kind = "create"    /\ Finish(r, "OK")
          \/ status = 201 /\ job[r].kind = "rehydrate" /\ Go(r, "deferred")
          \/ status # 201 /\ Retries(r, status)        /\ TryAgain(r)
          \/ /\ status # 201 /\ ~Retries(r, status)
             /\ FailUnprovisioned(r, HandleSPRMError(status))
  /\ UNCHANGED <<db, minted, job, alive>>

\* Faulty: the row is deleted under a context of its own.
UndoDetached(r, err) == StoreDelete(job[r].new, TRUE, err)

\* Faulty: a rehydration deletes the row it was to replace.
UndoOld(r, err) ==
  StoreDelete(IF job[r].kind = "rehydrate" THEN job[r].id ELSE job[r].new, alive[r], err)

\* The row is deleted under the request's own context.
Undo(r, err) == StoreDelete(job[r].new, alive[r], err)

\* A failure to delete it is only logged.
Rollback(r) ==
  /\ pc[r] = "rollback"
  /\ \E err \in StoreError : Undo(r, err)
  /\ Finish(r, resp[r])
  /\ UNCHANGED <<sprm, cleanup, late, minted, job, alive>>

\* Faulty: the row goes even if the SPRM does not answer 204.
NotUnprovisionedAnyway(r, status) == Go(r, "remove")

\* Faulty: what the SPRM does not have is deleted.
NotUnprovisionedFine(r, status) ==
  Finish(r, IF status = 404 THEN "OK" ELSE HandleSPRMError(status))

\* The row stays if the SPRM does not answer 204.
NotUnprovisioned(r, status) == Finish(r, HandleSPRMError(status))

\* Deletion: the SPRM first.
Unprovision(r) ==
  /\ pc[r] = "unprovision"
  /\ \E status \in Statuses :
       /\ Attempt(r, SprmRequest(r, "delete"), status)
       /\ \/ status = 204 /\ Go(r, "remove")
          \/ status # 204 /\ Retries(r, status)  /\ TryAgain(r)
          \/ status # 204 /\ ~Retries(r, status) /\ NotUnprovisioned(r, status)
  /\ UNCHANGED <<db, minted, job, alive>>

\* Faulty: an ordinary deletion, which the SPRM does not queue when it fails.
OldInstanceNow(r) == SprmRequest(r, "delete")

OldInstance(r) == SprmRequest(r, "deferred")

\* Faulty: the old row is kept.
ReplacedOnly(r) == Finish(r, "OK")

Replaced(r) == Go(r, "remove")

\* Rehydration: the old instance, whatever the SPRM answers in the end.
Deferred(r) ==
  /\ pc[r] = "deferred"
  /\ \E status \in Statuses :
       /\ Attempt(r, OldInstance(r), status)
       /\ \/ status # 204 /\ Retries(r, status) /\ TryAgain(r)
          \/ (status = 204 \/ ~Retries(r, status)) /\ Replaced(r)
  /\ UNCHANGED <<db, minted, job, alive>>

\* The row of the deleted or replaced resource.  A deletion must remove a row;
\* a rehydration has succeeded whatever becomes of the old row.
Remove(r) ==
  /\ pc[r] = "remove"
  /\ \E err \in StoreError :
       /\ StoreDelete(job[r].id, alive[r], err)
       /\ \/ (err = Nil \/ job[r].kind = "rehydrate")               /\ Finish(r, "OK")
          \/ job[r].kind = "delete" /\ err = "ErrResourceNotFound" /\ Finish(r, "NOT_FOUND")
          \/ job[r].kind = "delete" /\ err = "error"               /\ Finish(r, "INTERNAL_ERROR")
  /\ UNCHANGED <<sprm, cleanup, late, minted, job, alive>>

-----------------------------------------------------------------------------
\* The surroundings.

\* An SPRM call whose caller is gone is executed now.
Deliver(c) ==
  /\ c \in late
  /\ \E status \in Statuses : Serve(c, status)
  /\ late' = late \ {c}
  /\ UNCHANGED <<db, minted, pc, job, tries, alive, resp>>

SprmCleanUp(x) ==
  /\ CleanUp(x)
  /\ UNCHANGED <<db, late, minted, pc, job, tries, alive, resp>>

\* The calls to the SPRM that handlers are waiting for.
InFlight ==
  LET op == [provision |-> "create", unprovision |-> "delete", deferred |-> "deferred"]
  IN  {SprmRequest(r, op[pc[r]]) : r \in {q \in Req : pc[q] \in DOMAIN op}}

\* The process stops, killed or shut down: Run returns without waiting for the
\* handlers, and nothing of a running request survives a restart but the SPRM
\* calls it has sent.  (One that is executed before the stop is an Attempt.)
Crash ==
  /\ "crash" \in Faults
  /\ \E r \in Req : pc[r] # "idle"
  /\ pc' = [r \in Req |-> "idle"]
  /\ job' = [r \in Req |-> None]
  /\ tries' = [r \in Req |-> 0]
  /\ alive' = [r \in Req |-> TRUE]
  /\ resp' = [r \in Req |-> None]
  /\ MayLinger(InFlight)
  /\ UNCHANGED <<db, sprm, cleanup, minted>>

-----------------------------------------------------------------------------
Submit(r) == SubmitCreate(r) \/ SubmitById(r) \/ SubmitRehydrate(r)

\* A step the service itself owes a request it has accepted.
Step(r) ==
  \/ Get(r) \/ Evaluate(r) \/ Insert(r) \/ Provision(r) \/ Rollback(r)
  \/ Unprovision(r) \/ Deferred(r) \/ Remove(r) \/ Reply(r)

Next ==
  \/ \E r \in Req : Submit(r) \/ Step(r) \/ Cancel(r)
  \/ \E c \in late : Deliver(c)
  \/ \E x \in Id : SprmCleanUp(x)
  \/ Crash

\* Every call of a handler returns: the HTTP clients and the database time out.
\* The SPRM's worker retries until the queue is empty.
Fairness ==
  /\ \A r \in Req : WF_vars(Step(r))
  /\ \A x \in Id : WF_vars(SprmCleanUp(x))

Spec == Init /\ [][Next]_vars /\ Fairness
=============================================================================
