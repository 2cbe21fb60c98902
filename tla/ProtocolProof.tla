----------------------------- MODULE ProtocolProof -----------------------------
(***************************************************************************)
(* The service keeps to RecordProtocol where NoOrphan holds, under every   *)
(* disconnect, stop and database fault; and where there are none of        *)
(* these, no record is left without its instance.                          *)
(*                                                                         *)
(* Every call changes one store at most.  What makes the change one of     *)
(* RecordProtocol is ownership: the request that provisions or removes a   *)
(* row finds it there and without an instance (OneHolder), and a creation  *)
(* whose caller is gone finds its row (LateOwned).  A creation answered OK *)
(* was the owner of its row a step before.                                 *)
(***************************************************************************)
EXTENDS OrphanProof

\* No deferred deletion is sent or queued where nothing rehydrates.
NoQueue == cleanup = {} /\ \A c \in late : c.op # "deferred"

-----------------------------------------------------------------------------
\* Changes of the two stores and steps of the protocol.

LEMMA Stutters ==
  ASSUME db' = db, sprm' = sprm, cleanup' = cleanup
  PROVE  UNCHANGED Protocol!protocolVars
  BY DEF Protocol!protocolVars, Recorded, Provisioned

LEMMA Records ==
  ASSUME TypeOK, NEW x \in Id, ~Recorded(x), NEW row, row # None,
         db' = [db EXCEPT ![x] = row], sprm' = sprm, cleanup' = cleanup
  PROVE  Protocol!Next
<1>1. \A y \in Id : Recorded(y)' <=> y = x \/ Recorded(y)
  BY DEF TypeOK, Recorded
<1>2. {y \in Id : Recorded(y)}' = {y \in Id : Recorded(y)} \cup {x}  BY <1>1
<1>3. {y \in Id : Provisioned(y)}' = {y \in Id : Provisioned(y)}  BY DEF Provisioned
<1>4. Protocol!Record(x)  BY <1>2, <1>3 DEF Protocol!Record
<1>. QED  BY <1>4 DEF Protocol!Next

LEMMA Provisions ==
  ASSUME TypeOK, NEW x \in Id, Recorded(x), ~Provisioned(x), NEW inst, inst # None,
         sprm' = [sprm EXCEPT ![x] = inst], db' = db, cleanup' = cleanup
  PROVE  Protocol!Next
<1>1. \A y \in Id : Provisioned(y)' <=> y = x \/ Provisioned(y)
  BY DEF TypeOK, Provisioned
<1>2. {y \in Id : Provisioned(y)}' = {y \in Id : Provisioned(y)} \cup {x}  BY <1>1
<1>3. {y \in Id : Recorded(y)}' = {y \in Id : Recorded(y)}  BY DEF Recorded
<1>4. Protocol!Provision(x)  BY <1>2, <1>3 DEF Protocol!Provision
<1>. QED  BY <1>4 DEF Protocol!Next

LEMMA Unprovisions ==
  ASSUME TypeOK, NEW x \in Id, Provisioned(x),
         sprm' = [sprm EXCEPT ![x] = None], db' = db, cleanup' = cleanup \ {x}
  PROVE  Protocol!Next
<1>1. \A y \in Id : Provisioned(y)' <=> y # x /\ Provisioned(y)
  BY DEF TypeOK, Provisioned
<1>2. {y \in Id : Provisioned(y)}' = {y \in Id : Provisioned(y)} \ {x}  BY <1>1
<1>3. {y \in Id : Recorded(y)}' = {y \in Id : Recorded(y)}  BY DEF Recorded
<1>4. Protocol!Unprovision(x)  BY <1>2, <1>3 DEF Protocol!Unprovision
<1>. QED  BY <1>4 DEF Protocol!Next

\* The resource manager has nothing for x that nobody will remove.
Clear(x) == ~Provisioned(x) \/ x \in cleanup

LEMMA Enqueues ==
  ASSUME TypeOK, NEW x \in Id, Recorded(x), Provisioned(x), x \notin cleanup,
         cleanup' = cleanup \cup {x}, db' = db, sprm' = sprm
  PROVE  Protocol!Next
<1>1. /\ {y \in Id : Recorded(y)}' = {y \in Id : Recorded(y)}
      /\ {y \in Id : Provisioned(y)}' = {y \in Id : Provisioned(y)}
  BY DEF Recorded, Provisioned
<1>2. Protocol!Enqueue(x)  BY <1>1 DEF Protocol!Enqueue
<1>. QED  BY <1>2 DEF Protocol!Next

LEMMA Forgets ==
  ASSUME TypeOK, NEW x \in Id, Recorded(x), Clear(x),
         db' = [db EXCEPT ![x] = None], sprm' = sprm, cleanup' = cleanup
  PROVE  Protocol!Next
<1>1. \A y \in Id : Recorded(y)' <=> y # x /\ Recorded(y)
  BY DEF TypeOK, Recorded
<1>2. {y \in Id : Recorded(y)}' = {y \in Id : Recorded(y)} \ {x}  BY <1>1
<1>3. {y \in Id : Provisioned(y)}' = {y \in Id : Provisioned(y)}  BY DEF Provisioned
<1>4. Protocol!Forget(x)  BY <1>2, <1>3 DEF Protocol!Forget, Clear
<1>. QED  BY <1>4 DEF Protocol!Next

-----------------------------------------------------------------------------
\* The calls of the service.

\* The requests a handler sends are those of its kind.
LEMMA Sends ==
  ASSUME Tame, TypeOK, NEW r \in Req, pc[r] \in {"provision", "unprovision"}
  PROVE  \E x \in Id, c \in SprmCall :
           /\ c.id = x
           /\ pc[r] = "provision" =>
                x = job[r].new /\ c = SprmRequest(r, "create") /\ c.op = "create" /\ c.inst # None
           /\ pc[r] = "unprovision" =>
                x = job[r].id /\ c = SprmRequest(r, "delete") /\ c.op = "delete"
<1>1. CASE pc[r] = "provision"
  <2>1. /\ job[r].new \in Id /\ SprmRequest(r, "create") \in SprmCall
        /\ job[r].eval \in ServiceSpec /\ job[r].prov \in Provider
    BY <1>1, TameJob, RequestType, BusySlot DEF Ops, JobOK
  <2>2. [spec |-> job[r].eval, prov |-> job[r].prov] # None
    BY <2>1, NoneAssumption DEF Instance
  <2>. QED  BY <1>1, <2>1, <2>2 DEF SprmRequest
<1>2. CASE pc[r] = "unprovision"
  <2>1. job[r].id \in Id /\ SprmRequest(r, "delete") \in SprmCall
    BY <1>2, TameJob, RequestType DEF Ops
  <2>. QED  BY <1>2, <2>1 DEF SprmRequest
<1>. QED  BY <1>1, <1>2

\* What an attempt does to the SPRM, and what it leaves on its way.
LEMMA AttemptEffect ==
  ASSUME TypeOK, NEW r \in Req, NEW c \in SprmCall, NEW status,
         c.op \in {"create", "delete"}, Attempt(r, c, status)
  PROVE  /\ late' \subseteq late \cup {c}
         /\ \/ sprm' = sprm /\ cleanup' = cleanup
            \/ /\ c.op = "create" /\ ~Provisioned(c.id)
               /\ sprm' = [sprm EXCEPT ![c.id] = c.inst] /\ cleanup' = cleanup
            \/ /\ c.op = "delete" /\ Provisioned(c.id)
               /\ sprm' = [sprm EXCEPT ![c.id] = None] /\ cleanup' = cleanup \ {c.id}
  BY Lingers DEF Attempt, Serve, Provisioned

LEMMA ProvisionKeeps ==
  ASSUME Tame, TypeOK, Owned, NoQueue, NEW r \in Req, Provision(r)
  PROVE  NoQueue' /\ [Protocol!Next]_(Protocol!protocolVars)
<1>1. PICK x \in Id, c \in SprmCall :
        /\ c.id = x /\ x = job[r].new /\ c = SprmRequest(r, "create")
        /\ c.op = "create" /\ c.inst # None
  BY Sends DEF Provision
<1>2. /\ db' = db /\ Holds(r, x) /\ \E status \in Statuses : Attempt(r, c, status)
  BY <1>1 DEF Provision, Holds
<1>3. Recorded(x) /\ ~Provisioned(x)  BY <1>2 DEF Owned, OneHolder
<1>4. /\ late' \subseteq late \cup {c} /\ cleanup' = cleanup
      /\ sprm' = sprm \/ sprm' = [sprm EXCEPT ![x] = c.inst]
  BY <1>1, <1>2, AttemptEffect
<1>. QED  BY <1>1, <1>2, <1>3, <1>4, Stutters, Provisions DEF NoQueue

LEMMA UnprovisionKeeps ==
  ASSUME Tame, TypeOK, Owned, NoQueue, NEW r \in Req, Unprovision(r)
  PROVE  NoQueue' /\ [Protocol!Next]_(Protocol!protocolVars)
<1>1. PICK x \in Id, c \in SprmCall : c.id = x /\ c = SprmRequest(r, "delete") /\ c.op = "delete"
  BY Sends DEF Unprovision
<1>2. db' = db /\ \E status \in Statuses : Attempt(r, c, status)
  BY <1>1 DEF Unprovision
<1>3. /\ late' \subseteq late \cup {c}
      /\ \/ sprm' = sprm /\ cleanup' = cleanup
         \/ Provisioned(x) /\ sprm' = [sprm EXCEPT ![x] = None] /\ cleanup' = cleanup \ {x}
  BY <1>1, <1>2, AttemptEffect
<1>. QED  BY <1>1, <1>2, <1>3, Stutters, Unprovisions DEF NoQueue

LEMMA InsertKeeps ==
  ASSUME Tame, TypeOK, NoQueue, NEW r \in Req, Insert(r)
  PROVE  NoQueue' /\ [Protocol!Next]_(Protocol!protocolVars)
<1>1. PICK x \in Id : x = job[r].new  BY TameJob DEF Insert
<1>2. /\ NewRow(job[r]) # None /\ UNCHANGED <<sprm, cleanup, late>>
      /\ \E err \in StoreError : StoreCreate(x, NewRow(job[r]), alive[r], err)
  <2>1. NewRow(job[r]) \in Row  BY BusySlot DEF Insert, JobOK, NewRow, Row
  <2>. QED  BY <1>1, <2>1, NoneAssumption DEF Insert
<1>3. \/ db' = db
      \/ ~Recorded(x) /\ db' = [db EXCEPT ![x] = NewRow(job[r])]
  BY <1>2 DEF StoreCreate, Breaks, Recorded
<1>. QED  BY <1>2, <1>3, Stutters, Records DEF NoQueue

\* A row is removed by the request that owns it.
LEMMA RemovalKeeps ==
  ASSUME TypeOK, Owned, NoQueue, NEW r \in Req, NEW x \in Id, NEW err,
         StoreDelete(x, alive[r], err), alive[r] => Holds(r, x),
         UNCHANGED <<sprm, cleanup, late>>
  PROVE  NoQueue' /\ [Protocol!Next]_(Protocol!protocolVars)
<1>1. \/ db' = db
      \/ alive[r] /\ db' = [db EXCEPT ![x] = None]
  BY DEF TypeOK, StoreDelete, Breaks
<1>2. alive[r] => Recorded(x) /\ ~Provisioned(x)  BY DEF Owned, OneHolder
<1>. QED  BY <1>1, <1>2, Stutters, Forgets DEF NoQueue, Clear

LEMMA RollbackKeeps ==
  ASSUME Tame, TypeOK, Owned, NoQueue, NEW r \in Req, Rollback(r)
  PROVE  NoQueue' /\ [Protocol!Next]_(Protocol!protocolVars)
<1>1. PICK x \in Id : x = job[r].new  BY TameJob DEF Rollback
<1>2. alive[r] => Holds(r, x)  BY <1>1 DEF Rollback, Holds
<1>. QED  BY <1>1, <1>2, RemovalKeeps DEF Rollback, Undo

LEMMA RemoveKeeps ==
  ASSUME Tame, TypeOK, Owned, NoQueue, NEW r \in Req, Remove(r)
  PROVE  NoQueue' /\ [Protocol!Next]_(Protocol!protocolVars)
<1>1. PICK x \in Id : x = job[r].id  BY TameJob DEF Remove
<1>2. Holds(r, x)  BY <1>1 DEF Remove, Holds
<1>. QED  BY <1>1, <1>2, RemovalKeeps DEF Remove

LEMMA DeliverKeeps ==
  ASSUME TypeOK, Owned, NoQueue, NEW c \in late, Deliver(c)
  PROVE  NoQueue' /\ [Protocol!Next]_(Protocol!protocolVars)
<1>1. /\ c \in SprmCall /\ c.id \in Id /\ c.op \in {"create", "delete"}
      /\ db' = db /\ late' = late \ {c}
  BY DEF Deliver, TypeOK, SprmCall, NoQueue, Ops
<1>2. PICK status \in Statuses : Serve(c, status)  BY DEF Deliver
<1>3. CASE sprm' = sprm /\ cleanup' = cleanup
  BY <1>1, <1>3, Stutters DEF NoQueue
<1>4. CASE c.op = "create" /\ sprm' = [sprm EXCEPT ![c.id] = c.inst] /\ cleanup' = cleanup
  <2>1. Recorded(c.id) /\ ~Provisioned(c.id)  BY <1>4 DEF Owned, LateOwned
  <2>2. CASE c.inst # None  BY <1>1, <1>4, <2>1, <2>2, Provisions DEF NoQueue
  <2>3. CASE c.inst = None
    <3>1. sprm' = sprm  BY <1>1, <1>4, <2>1, <2>3 DEF Provisioned, TypeOK
    <3>. QED  BY <1>1, <1>4, <3>1, Stutters DEF NoQueue
  <2>. QED  BY <2>2, <2>3
<1>5. CASE /\ c.op = "delete" /\ Provisioned(c.id)
           /\ sprm' = [sprm EXCEPT ![c.id] = None] /\ cleanup' = cleanup \ {c.id}
  BY <1>1, <1>5, Unprovisions DEF NoQueue
<1>. QED  BY <1>1, <1>2, <1>3, <1>4, <1>5 DEF Serve, Provisioned

\* What a process that stops leaves under way are creations and deletions.
LEMMA CrashKeeps ==
  ASSUME Tame, TypeOK, NoQueue, Crash
  PROVE  NoQueue' /\ [Protocol!Next]_(Protocol!protocolVars)
<1>1. \A c \in InFlight : c.op # "deferred"
  BY InFlightType, TameJob DEF WaitsFor, SprmRequest
<1>2. UNCHANGED <<db, sprm, cleanup>> /\ late' \subseteq late \cup InFlight
  BY Lingers DEF Crash
<1>. QED  BY <1>1, <1>2, Stutters DEF NoQueue

\* Every other step leaves the stores and the calls under way alone.
LEMMA QuietKeeps ==
  ASSUME NoQueue, UNCHANGED <<db, sprm, cleanup, late>>
  PROVE  NoQueue' /\ [Protocol!Next]_(Protocol!protocolVars)
  BY Stutters DEF NoQueue

LEMMA NextKeeps ==
  ASSUME Tame, TypeOK, Owned, NoQueue, [Next]_vars
  PROVE  NoQueue' /\ [Protocol!Next]_(Protocol!protocolVars)
<1>1. ASSUME NEW r \in Req, Submit(r) \/ Get(r) \/ Evaluate(r) \/ Reply(r) \/ Cancel(r)
      PROVE  UNCHANGED <<db, sprm, cleanup, late>>
  BY <1>1 DEF Submit, SubmitCreate, SubmitById, SubmitRehydrate, Begin, Get, StoreGet, Evaluate,
    Reply, Cancel
<1>2. ASSUME NEW r \in Req, Submit(r) \/ Step(r) \/ Cancel(r)
      PROVE  NoQueue' /\ [Protocol!Next]_(Protocol!protocolVars)
  <2>1. ~Deferred(r)  BY TameJob DEF Deferred
  <2>. QED
    BY <1>1, <1>2, <2>1, QuietKeeps, InsertKeeps, ProvisionKeeps, RollbackKeeps, UnprovisionKeeps,
      RemoveKeeps DEF Step
<1>3. ~ \E x \in Id : SprmCleanUp(x)  BY DEF SprmCleanUp, CleanUp, NoQueue
<1>4. CASE UNCHANGED vars  BY <1>4, QuietKeeps DEF vars
<1>. QED  BY <1>2, <1>3, <1>4, CrashKeeps, DeliverKeeps DEF Next

-----------------------------------------------------------------------------
LEMMA InitKeeps == Init => NoQueue /\ Protocol!Init
  BY DEF Init, NoQueue, Protocol!Init, Recorded, Provisioned

(***************************************************************************)
(* Where nothing rehydrates and no answer of the SPRM is lost while its    *)
(* caller waits, the steps of any number of requests are steps of          *)
(* RecordProtocol, wherever clients disconnect, the process stops or the   *)
(* database fails, and whenever the calls so cut off are executed: the two *)
(* stores never change in an order the protocol does not have.             *)
(***************************************************************************)
THEOREM StaysInProtocol ==
  ASSUME Tame
  PROVE  Spec => KeepsToProtocol
<1>1. Init => NoQueue /\ Protocol!Init  BY InitKeeps
<1>2. TypeOK /\ Owned /\ NoQueue /\ [Next]_vars =>
        NoQueue' /\ [Protocol!Next]_(Protocol!protocolVars)
  BY NextKeeps
<1>3. Spec => [](TypeOK /\ Owned)  BY AlwaysOwned
<1>. QED  BY <1>1, <1>2, <1>3, PTL DEF Spec, KeepsToProtocol

-----------------------------------------------------------------------------
\* The circumstances of the second theorem: no faults either.
Calm == Faults = {} /\ "rehydrate" \notin Kinds

\* Nothing is under way or queued at the SPRM, and every client still listens.
Undisturbed == NoQueue /\ late = {} /\ \A r \in Req : alive[r]

\* A step of r makes no stale row but one it holds, and abandons none.
LEMMA KeepsHolding ==
  ASSUME NoStaleRecord, NEW r \in Req, OthersKept(r),
         \A y \in Id : Recorded(y)' /\ ~Provisioned(y)' =>
           \/ Holds(r, y)'
           \/ Recorded(y) /\ ~Provisioned(y) /\ ~Holds(r, y)
  PROVE  NoStaleRecord'
  BY DEF NoStaleRecord, Holds, OthersKept

\* A request that owns nothing may do what it likes but to the two stores.
LEMMA QuietCalm ==
  ASSUME TypeOK, NoStaleRecord, Undisturbed, NEW r \in Req,
         Submit(r) \/ Get(r) \/ Evaluate(r) \/ Reply(r)
  PROVE  (NoStaleRecord /\ Undisturbed)'
<1>1. UNCHANGED <<db, sprm, cleanup, late>> /\ pc[r] \in {"idle", "get", "policy", "done"}
  BY DEF Submit, SubmitCreate, SubmitById, SubmitRehydrate, Begin, Get, StoreGet, Evaluate, Reply
<1>2. OthersKept(r) /\ alive' \in {alive, [alive EXCEPT ![r] = TRUE]}
  <2>1. CASE Submit(r)
    BY <2>1 DEF OthersKept, Submit, SubmitCreate, SubmitById, SubmitRehydrate, Begin, Go, TypeOK
  <2>2. CASE Get(r) BY <2>2 DEF OthersKept, Get, Finish, Answer, Go, TypeOK
  <2>3. CASE Evaluate(r) BY <2>3 DEF OthersKept, Evaluate, Finish, Answer, Go, TypeOK
  <2>4. CASE Reply(r) BY <2>4 DEF OthersKept, Reply, TypeOK
  <2>. QED  BY <2>1, <2>2, <2>3, <2>4
<1>3. Undisturbed'  BY <1>1, <1>2 DEF Undisturbed, NoQueue, TypeOK
<1>4. \A y \in Id : ~Holds(r, y)  BY <1>1 DEF Holds
<1>5. \A y \in Id : (Recorded(y)' <=> Recorded(y)) /\ (Provisioned(y)' <=> Provisioned(y))
  BY <1>1 DEF Recorded, Provisioned
<1>. QED  BY <1>2, <1>3, <1>4, <1>5, KeepsHolding

LEMMA InsertCalm ==
  ASSUME Calm, TypeOK, NoStaleRecord, Undisturbed, NEW r \in Req, Insert(r)
  PROVE  (NoStaleRecord /\ Undisturbed)'
<1>1. PICK x \in Id : x = job[r].new  BY TameJob DEF Insert, Calm, Tame
<1>2. /\ pc[r] = "insert" /\ alive[r] /\ UNCHANGED <<sprm, cleanup, late, job, alive>>
      /\ \E err \in StoreError :
           StoreCreate(x, NewRow(job[r]), alive[r], err) /\ Inserted(r, err)
  BY <1>1 DEF Insert, Undisturbed
<1>3. /\ OthersKept(r)
      /\ \/ db' = db
         \/ db' = [db EXCEPT ![x] = NewRow(job[r])] /\ pc'[r] = "provision"
  BY <1>2, Moves DEF OthersKept, Finish, StoreCreate, Breaks, Inserted, Calm, Nil
<1>4. \A y \in Id : (Recorded(y)' => Recorded(y) \/ Holds(r, y)') /\ (Provisioned(y)' <=> Provisioned(y))
  BY <1>1, <1>2, <1>3 DEF Recorded, Provisioned, Holds, TypeOK
<1>5. \A y \in Id : ~Holds(r, y)  BY <1>2 DEF Holds
<1>. QED  BY <1>2, <1>3, <1>4, <1>5, KeepsHolding DEF Undisturbed, NoQueue

\* An attempt of a request whose client listens is answered.
LEMMA CalmAttempt ==
  ASSUME Calm, Undisturbed, NEW r \in Req, NEW c, NEW status, Attempt(r, c, status)
  PROVE  alive[r] /\ Serve(c, status) /\ late' = late
  BY DEF Calm, Undisturbed, Attempt, Unanswered

\* The request holds its row until the instance runs.
LEMMA ProvisionCalm ==
  ASSUME Calm, TypeOK, NoStaleRecord, Undisturbed, NEW r \in Req, Provision(r)
  PROVE  (NoStaleRecord /\ Undisturbed)'
<1>1. PICK x \in Id, c \in SprmCall :
        /\ c.id = x /\ x = job[r].new /\ c = SprmRequest(r, "create")
        /\ c.op = "create" /\ c.inst # None
  BY Sends DEF Provision, Calm, Tame
<1>2. /\ pc[r] = "provision" /\ job[r].kind = "create" /\ alive[r]
      /\ UNCHANGED <<db, job, alive>>
  BY TameJob DEF Provision, Undisturbed, Calm, Tame
<1>3. PICK status \in Statuses :
        /\ Serve(c, status) /\ late' = late
        /\ \/ status = 201 /\ Finish(r, "OK")
           \/ status # 201 /\ TryAgain(r)
           \/ status # 201 /\ Answer(r, HandleSPRMError(status), "rollback")
  BY <1>1, <1>2, CalmAttempt DEF Provision, FailUnprovisioned
<1>4. cleanup' = cleanup  BY <1>1, <1>3 DEF Serve
<1>5. CASE status = 201
  <2>1. sprm' = [sprm EXCEPT ![x] = c.inst]
    BY <1>1, <1>3, <1>5, StatusAssumption DEF Serve, Ops
  <2>2. OthersKept(r)  BY <1>2, <1>3, <1>5, Moves DEF OthersKept, Finish
  <2>3. \A y \in Id : (Recorded(y)' <=> Recorded(y)) /\ (Provisioned(y)' <=> y = x \/ Provisioned(y))
    BY <1>1, <1>2, <2>1 DEF Recorded, Provisioned, TypeOK
  <2>4. \A y \in Id : Holds(r, y) => y = x  BY <1>1, <1>2 DEF Holds
  <2>. QED  BY <1>2, <1>3, <1>4, <2>2, <2>3, <2>4, KeepsHolding DEF Undisturbed, NoQueue
<1>6. CASE status # 201
  <2>1. sprm' = sprm  BY <1>1, <1>3, <1>6 DEF Serve
  <2>2. OthersKept(r) /\ pc'[r] \in {"provision", "rollback"}
    <3>1. CASE TryAgain(r)  BY <1>2, <3>1 DEF TryAgain, OthersKept
    <3>2. CASE Answer(r, HandleSPRMError(status), "rollback")
      BY <1>2, <3>2, Moves DEF OthersKept
    <3>. QED  BY <1>3, <1>6, <3>1, <3>2
  <2>3. \A y \in Id : Holds(r, y) => Holds(r, y)'  BY <1>2, <2>2 DEF Holds
  <2>4. \A y \in Id : (Recorded(y)' <=> Recorded(y)) /\ (Provisioned(y)' <=> Provisioned(y))
    BY <1>2, <2>1 DEF Recorded, Provisioned
  <2>. QED  BY <1>2, <1>3, <1>4, <2>2, <2>3, <2>4, KeepsHolding DEF Undisturbed, NoQueue
<1>. QED  BY <1>5, <1>6

\* A row deletion removes the row, or finds it gone.
LEMMA RemovalCalm ==
  ASSUME Calm, TypeOK, NoStaleRecord, Undisturbed, NEW r \in Req, NEW x \in Id, NEW err,
         StoreDelete(x, alive[r], err), \A y \in Id : Holds(r, y) => y = x,
         UNCHANGED <<sprm, cleanup, late, alive>>, OthersKept(r)
  PROVE  (NoStaleRecord /\ Undisturbed)'
<1>1. \A y \in Id : Recorded(y)' => Recorded(y) /\ y # x
  BY DEF StoreDelete, Breaks, RowsAffected, Calm, Undisturbed, Recorded, TypeOK
<1>2. \A y \in Id : Provisioned(y)' <=> Provisioned(y)  BY DEF Provisioned
<1>. QED  BY <1>1, <1>2, KeepsHolding DEF Undisturbed, NoQueue

LEMMA RollbackCalm ==
  ASSUME Calm, TypeOK, NoStaleRecord, Undisturbed, NEW r \in Req, Rollback(r)
  PROVE  (NoStaleRecord /\ Undisturbed)'
<1>1. PICK x \in Id : x = job[r].new  BY TameJob DEF Rollback, Calm, Tame
<1>2. /\ pc[r] = "rollback" /\ UNCHANGED <<sprm, cleanup, late, job, alive>>
      /\ Finish(r, resp[r]) /\ \E err \in StoreError : StoreDelete(x, alive[r], err)
  BY <1>1 DEF Rollback, Undo
<1>3. OthersKept(r)  BY <1>2, Moves DEF OthersKept, Finish
<1>4. \A y \in Id : Holds(r, y) => y = x  BY <1>1, <1>2 DEF Holds
<1>. QED  BY <1>2, <1>3, <1>4, RemovalCalm

LEMMA RemoveCalm ==
  ASSUME Calm, TypeOK, NoStaleRecord, Undisturbed, NEW r \in Req, Remove(r)
  PROVE  (NoStaleRecord /\ Undisturbed)'
<1>1. PICK x \in Id : x = job[r].id  BY TameJob DEF Remove, Calm, Tame
<1>2. /\ pc[r] = "remove" /\ UNCHANGED <<sprm, cleanup, late, job, alive>>
      /\ \E code : Finish(r, code)
      /\ \E err \in StoreError : StoreDelete(x, alive[r], err)
  BY <1>1 DEF Remove
<1>3. OthersKept(r)  BY <1>2, Moves DEF OthersKept, Finish
<1>4. \A y \in Id : Holds(r, y) => y = x  BY <1>1, <1>2 DEF Holds
<1>. QED  BY <1>2, <1>3, <1>4, RemovalCalm

\* A deletion takes the row over the moment its instance goes.
LEMMA UnprovisionCalm ==
  ASSUME Calm, TypeOK, NoStaleRecord, Undisturbed, NEW r \in Req, Unprovision(r)
  PROVE  (NoStaleRecord /\ Undisturbed)'
<1>1. PICK x \in Id, c \in SprmCall :
        c.id = x /\ x = job[r].id /\ c = SprmRequest(r, "delete") /\ c.op = "delete"
  BY Sends DEF Unprovision, Calm, Tame
<1>2. pc[r] = "unprovision" /\ alive[r] /\ UNCHANGED <<db, job, alive>>
  BY DEF Unprovision, Undisturbed
<1>3. PICK status \in Statuses :
        /\ Serve(c, status) /\ late' = late
        /\ \/ status = 204 /\ Go(r, "remove")
           \/ status # 204 /\ TryAgain(r)
           \/ status # 204 /\ Answer(r, HandleSPRMError(status), "done")
  BY <1>1, <1>2, CalmAttempt DEF Unprovision, NotUnprovisioned, Finish
<1>4. OthersKept(r)
  <2>1. CASE TryAgain(r)  BY <1>2, <2>1 DEF TryAgain, OthersKept
  <2>2. CASE Go(r, "remove") \/ Answer(r, HandleSPRMError(status), "done")
    BY <1>2, <2>2, Moves DEF OthersKept
  <2>. QED  BY <1>3, <2>1, <2>2
<1>5. cleanup' \subseteq cleanup  BY <1>1, <1>3 DEF Serve
<1>6. \A y \in Id : ~Holds(r, y)  BY <1>2 DEF Holds
<1>7. \A y \in Id : Recorded(y)' <=> Recorded(y)  BY <1>2 DEF Recorded
<1>8. \A y \in Id : Provisioned(y) => Provisioned(y)' \/ Holds(r, y)'
  <2>1. CASE status = 204
    <3>1. sprm' = [sprm EXCEPT ![x] = None]
      BY <1>1, <1>3, <2>1, StatusAssumption DEF Serve, Ops
    <3>2. Go(r, "remove")  BY <1>3, <2>1
    <3>3. pc'[r] = "remove"  BY <3>2 DEF Go, TypeOK
    <3>. QED  BY <1>1, <1>2, <3>1, <3>3 DEF Provisioned, Holds, TypeOK
  <2>2. CASE status # 204
    BY <1>1, <1>3, <2>2 DEF Serve, Provisioned
  <2>. QED  BY <2>1, <2>2
<1>. QED  BY <1>2, <1>3, <1>4, <1>5, <1>6, <1>7, <1>8, KeepsHolding DEF Undisturbed, NoQueue

LEMMA NextCalm ==
  ASSUME Calm, TypeOK, NoStaleRecord, Undisturbed, [Next]_vars
  PROVE  (NoStaleRecord /\ Undisturbed)'
<1>1. ASSUME NEW r \in Req, Submit(r) \/ Step(r)
      PROVE  (NoStaleRecord /\ Undisturbed)'
  <2>1. ~Deferred(r)  BY TameJob DEF Deferred, Calm, Tame
  <2>. QED
    BY <1>1, <2>1, QuietCalm, InsertCalm, ProvisionCalm, RollbackCalm, UnprovisionCalm, RemoveCalm
    DEF Step
<1>2. /\ ~Crash /\ \A r \in Req : ~Cancel(r)
      /\ ~ \E c \in late : Deliver(c)
      /\ ~ \E x \in Id : SprmCleanUp(x)
  BY DEF Calm, Undisturbed, NoQueue, Crash, Cancel, SprmCleanUp, CleanUp
<1>3. CASE UNCHANGED vars
  BY <1>3 DEF vars, NoStaleRecord, Recorded, Provisioned, Holds, Undisturbed, NoQueue
<1>. QED  BY <1>1, <1>2, <1>3 DEF Next

(***************************************************************************)
(* Without faults, while nothing rehydrates, a record without its instance *)
(* is always some request's to finish: whatever requests interleave, a     *)
(* creation provisions its row or takes it back, and a deletion removes    *)
(* the row whose instance it deleted.                                      *)
(***************************************************************************)
THEOREM NeverStale ==
  ASSUME Calm
  PROVE  Spec => []NoStaleRecord
<1>1. Init => NoStaleRecord /\ Undisturbed
  BY InitKeeps DEF Init, NoStaleRecord, Recorded, Undisturbed
<1>2. TypeOK /\ NoStaleRecord /\ Undisturbed /\ [Next]_vars => (NoStaleRecord /\ Undisturbed)'
  BY NextCalm
<1>3. Calm => Tame  BY DEF Calm, Tame
<1>4. Spec => [](TypeOK /\ Owned)  BY <1>3, AlwaysOwned
<1>. QED  BY <1>1, <1>2, <1>4, PTL DEF Spec

-----------------------------------------------------------------------------
\* A rollback has a failure to answer.
FailedRollback(r) == pc[r] = "rollback" => resp[r] # "OK"
Failed == \A r \in Req : FailedRollback(r)

\* An evaluation goes on to the insertion or answers an error.
LEMMA Evaluations ==
  ASSUME NEW r \in Req, Evaluate(r)
  PROVE  Go(r, "insert") \/ \E code : code # "OK" /\ Finish(r, code)
<1>1. ASSUME NEW status PROVE HandlePolicyError(status) # "OK"
  BY CodeType DEF ErrorCode
<1>2. \/ Go(r, "insert")
      \/ Finish(r, "POLICY_INTERNAL_ERROR")
      \/ \E status : Finish(r, HandlePolicyError(status))
  BY DEF Evaluate
<1>. QED  BY <1>1, <1>2

\* What moves a request into a rollback, if anything does.
LEMMA NextFailed ==
  ASSUME TypeOK, Failed, [Next]_vars
  PROVE  Failed'
<1>1. ASSUME NEW r \in Req,
             \/ UNCHANGED <<pc, resp>>
             \/ \E at : Go(r, at) /\ at # "rollback"
             \/ \E code, at : Answer(r, code, at) /\ (at = "rollback" => code # "OK")
             \/ TryAgain(r)
             \/ Reply(r)
      PROVE  Failed'
  BY <1>1 DEF Failed, FailedRollback, Go, Answer, TryAgain, Reply, TypeOK
<1>2. ASSUME NEW r \in Req, Submit(r) PROVE Failed'
  <2>1. \E j, at : Begin(r, j, at) /\ at \in {"get", "policy"}
    <3>1. CASE SubmitCreate(r)  BY <3>1 DEF SubmitCreate
    <3>2. CASE SubmitById(r)  BY <3>2 DEF SubmitById
    <3>3. CASE SubmitRehydrate(r)  BY <3>3 DEF SubmitRehydrate
    <3>. QED  BY <1>2, <3>1, <3>2, <3>3 DEF Submit
  <2>2. \E at : Go(r, at) /\ at # "rollback"  BY <2>1 DEF Begin
  <2>. QED  BY <1>1, <2>2
<1>3. ASSUME NEW r \in Req, Provision(r) PROVE Failed'
  <2>1. ASSUME NEW status PROVE HandleSPRMError(status) # "OK"
    BY CodeType DEF ErrorCode
  <2>. QED  BY <1>1, <1>3, <2>1 DEF Provision, FailUnprovisioned, Finish
<1>4. ASSUME NEW r \in Req, Step(r) PROVE Failed'
  <2>1. CASE Get(r)  BY <1>1, <2>1 DEF Get, Finish
  <2>2. CASE Evaluate(r)  BY <1>1, <2>2, Evaluations DEF Finish
  <2>3. CASE Insert(r)  BY <1>1, <2>3 DEF Insert, Inserted, Finish
  <2>4. CASE Rollback(r)  BY <1>1, <2>4 DEF Rollback, Finish
  <2>5. CASE Unprovision(r)  BY <1>1, <2>5 DEF Unprovision, NotUnprovisioned, Finish
  <2>6. CASE Remove(r)  BY <1>1, <2>6 DEF Remove, Finish
  <2>7. CASE Reply(r)  BY <1>1, <2>7
  <2>8. CASE Deferred(r)  BY <1>1, <2>8 DEF Deferred, Replaced
  <2>. QED  BY <1>3, <1>4, <2>1, <2>2, <2>3, <2>4, <2>5, <2>6, <2>7, <2>8 DEF Step
<1>5. CASE UNCHANGED <<pc, resp>>
  BY <1>5 DEF Failed, FailedRollback
<1>6. CASE Crash  BY <1>6 DEF Crash, Failed, FailedRollback
<1>. QED  BY <1>2, <1>4, <1>5, <1>6 DEF Next, Cancel, Deliver, SprmCleanUp, vars

\* What one step may answer a creation.
CreatedNow ==
  \A r \in Req : Replies(r, "OK") /\ job[r].kind = "create" =>
    db'[job[r].new] # None /\ sprm'[job[r].new] # None

\* The only step that answers a creation OK is the one that provisions its row.
LEMMA OKIsProvisioned ==
  ASSUME TypeOK, Failed, NEW r \in Req, Step(r), Replies(r, "OK"), job[r].kind = "create"
  PROVE  /\ pc[r] = "provision" /\ job[r].new \in Id
         /\ db' = db /\ sprm'[job[r].new] # None
<1>1. /\ pc[r] \in {"policy", "insert", "provision", "rollback"}
      /\ job[r].new \in Id
  <2>1. pc[r] # "idle"
    BY DEF Step, Get, Evaluate, Insert, Provision, Rollback, Unprovision, Deferred, Remove, Reply
  <2>. QED  BY <2>1, BusySlot DEF JobOK, PCOf, Replies
<1>2. ASSUME NEW status PROVE HandleSPRMError(status) # "OK"
  BY CodeType DEF ErrorCode
<1>3. ~Evaluate(r)
  BY Evaluations DEF Replies, Finish, Answer, Go, TypeOK
<1>4. ~Insert(r)
  BY DEF Insert, Inserted, Replies, Finish, Answer, Go, TypeOK
<1>5. ~Rollback(r)
  BY DEF Rollback, Replies, Finish, Answer, TypeOK, Failed, FailedRollback
<1>6. Provision(r)
  BY <1>1, <1>3, <1>4, <1>5 DEF Step, Get, Unprovision, Deferred, Remove, Reply
<1>7. PICK c : c = SprmRequest(r, "create")  OBVIOUS
<1>8. c.op = "create" /\ c.id = job[r].new /\ c.inst # None
  <2>1. job[r].eval \in ServiceSpec /\ job[r].prov \in Provider
    BY <1>6, BusySlot DEF Provision, JobOK
  <2>2. [spec |-> job[r].eval, prov |-> job[r].prov] # None
    BY <2>1, NoneAssumption DEF Instance
  <2>. QED  BY <1>7, <2>2 DEF SprmRequest
<1>9. \E status \in Statuses : status = 201 /\ Attempt(r, c, status)
  BY <1>2, <1>6, <1>7 DEF Provision, FailUnprovisioned, Replies, Finish, Answer, Go, TryAgain, TypeOK
<1>10. sprm' = [sprm EXCEPT ![job[r].new] = c.inst]
  BY <1>8, <1>9, StatusAssumption DEF Attempt, Unanswered, Serve, Ops, NoAnswer
<1>. QED  BY <1>1, <1>6, <1>8, <1>10 DEF Provision, TypeOK

(***************************************************************************)
(* In the circumstances of StaysInProtocol, a creation answered OK has its *)
(* record and its instance in that step: no deletion, rollback or other    *)
(* creation can have taken the record from it while it was being           *)
(* provisioned.                                                            *)
(***************************************************************************)
THEOREM CreationIsKept ==
  ASSUME Tame
  PROVE  Spec => CreatedIsRecorded
<1>1. Init => Failed  BY DEF Init, Failed, FailedRollback
<1>2. TypeOK /\ Failed /\ [Next]_vars => Failed'  BY NextFailed
<1>3. TypeOK /\ Owned /\ Failed /\ [Next]_vars => [CreatedNow]_vars
  <2>1. ASSUME TypeOK, Owned, NEW r \in Req, pc[r] = "provision", job[r].new \in Id
        PROVE  Recorded(job[r].new)
    BY <2>1 DEF Owned, OneHolder, Holds
  <2>. QED  BY <2>1, OwnReply, OKIsProvisioned DEF CreatedNow, Recorded
<1>4. Spec => [](TypeOK /\ Owned)  BY AlwaysOwned
<1>. QED  BY <1>1, <1>2, <1>3, <1>4, PTL DEF Spec, CreatedIsRecorded, CreatedNow
=============================================================================
