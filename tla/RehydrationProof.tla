--------------------------- MODULE RehydrationProof ---------------------------
(***************************************************************************)
(* Every kind of request, rehydrations included, among clients that do not *)
(* run two requests on one resource (Exclusive).                           *)
(*                                                                         *)
(* Two running requests then use no id in common (Apart), whatever fails,  *)
(* so that what a handler has found in the database is still there at its  *)
(* next call (Found).  All that follows rests on these two; each property  *)
(* adds the faults it survives.                                            *)
(***************************************************************************)
EXTENDS ProtocolProof

Apart == \A r, q \in Req : r # q => Uses(r) \cap Uses(q) = {}

\* What a handler has read or written is there until it removes it itself: the
\* row of the resource it works on, and the row it has inserted.
FoundBy(r) ==
  /\ pc[r] \notin {"idle", "get", "done"} /\ job[r].id # None => Recorded(job[r].id)
  /\ pc[r] \in {"provision", "rollback"} => db[job[r].new] = NewRow(job[r])

Found == \A r \in Req : FoundBy(r)

-----------------------------------------------------------------------------
\* What a step does to the slots.

\* A submission occupies one slot.  Only a creation knows its catalog item.
Occupies(r, j, at) ==
  /\ j \in Job /\ at \in {"get", "policy"}
  /\ j.kind = "create" => j.id = None /\ at = "policy"
  /\ j.kind # "create" => j.cat = None /\ at = "get"
  /\ MaySubmit({j.id, j.new} \ {None}, {j.cat} \ {None})
  /\ job' = [job EXCEPT ![r] = j] /\ pc' = [pc EXCEPT ![r] = at]
  /\ pc[r] = "idle" /\ UNCHANGED <<db, sprm, cleanup, late, alive>>

LEMMA Submission ==
  ASSUME TypeOK, NEW r \in Req, Submit(r)
  PROVE  \E j, at : Occupies(r, j, at)
<1>. USE DEF Occupies
<1>1. CASE SubmitCreate(r)
  <2>1. PICK x \in Id, c \in Cat : Begin(r, Asked("create", None, x, c, OrigSpec[c]), "policy")
    BY <1>1 DEF SubmitCreate
  <2>2. Asked("create", None, x, c, OrigSpec[c]) \in Job
    BY <2>1, SpecAssumption DEF Begin, Asked, Job
  <2>. QED  BY <2>1, <2>2 DEF Begin, Asked, Go
<1>2. CASE SubmitById(r)
  <2>1. PICK kind \in {"get", "delete"}, x \in Id : Begin(r, Asked(kind, x, None, None, None), "get")
    BY <1>2 DEF SubmitById
  <2>2. Asked(kind, x, None, None, None) \in Job  BY <2>1 DEF Begin, Asked, Job
  <2>. QED  BY <2>1, <2>2 DEF Begin, Asked, Go
<1>3. CASE SubmitRehydrate(r)
  <2>1. PICK x \in Id, y \in Id : Begin(r, Asked("rehydrate", x, y, None, None), "get")
    BY <1>3 DEF SubmitRehydrate
  <2>2. Asked("rehydrate", x, y, None, None) \in Job  BY <2>1 DEF Begin, Asked, Job
  <2>. QED  BY <2>1, <2>2 DEF Begin, Asked, Go
<1>. QED  BY <1>1, <1>2, <1>3 DEF Submit

\* A handler's step concerns its own slot, and keeps what it was asked for.
LEMMA OwnSlot ==
  ASSUME TypeOK, NEW r \in Req, Step(r)
  PROVE  /\ OthersKept(r) /\ pc[r] # "idle"
         /\ \/ job'[r] = None /\ pc'[r] = "idle" /\ pc[r] = "done"
            \/ /\ job'[r] # None /\ pc'[r] # "idle" /\ alive' = alive
               /\ job'[r].kind = job[r].kind /\ job'[r].id = job[r].id /\ job'[r].new = job[r].new
<1>1. pc[r] # "idle"
  BY DEF Step, Get, Evaluate, Insert, Provision, Rollback, Unprovision, Deferred, Remove, Reply
<1>2. job[r] \in Job /\ job[r] # None  BY <1>1, BusySlot
<1>3. CASE Reply(r)  BY <1>1, <1>3 DEF Reply, OthersKept, TypeOK
<1>4. ASSUME ~Reply(r)
      PROVE  /\ alive' = alive
             /\ \/ TryAgain(r)
                \/ \E at : at # "idle" /\ Go(r, at)
                \/ \E code, at : at # "idle" /\ Answer(r, code, at)
             /\ \/ job' = job
                \/ \E a, b : job' = [job EXCEPT ![r].cat = a, ![r].spec = b]
                \/ \E a, b : job' = [job EXCEPT ![r].prov = a, ![r].eval = b]
  <2>1. CASE Get(r)  BY <2>1 DEF Get, Finish
  <2>2. CASE Evaluate(r)  BY <2>2 DEF Evaluate, Finish
  <2>3. CASE Insert(r)  BY <2>3 DEF Insert, Inserted, Finish
  <2>4. CASE Provision(r)  BY <2>4 DEF Provision, FailUnprovisioned, Finish
  <2>5. CASE Rollback(r)  BY <2>5 DEF Rollback, Finish
  <2>6. CASE Unprovision(r)  BY <2>6 DEF Unprovision, NotUnprovisioned, Finish
  <2>7. CASE Deferred(r)  BY <2>7 DEF Deferred, Replaced
  <2>8. CASE Remove(r)  BY <2>8 DEF Remove, Finish
  <2>. QED  BY <1>4, <2>1, <2>2, <2>3, <2>4, <2>5, <2>6, <2>7, <2>8 DEF Step
<1>5. CASE ~Reply(r)
  <2>1. pc'[r] # "idle" /\ \A q \in Req \ {r} : pc'[q] = pc[q]
    BY <1>1, <1>4, <1>5, Moves DEF TryAgain
  <2>2. /\ \A q \in Req \ {r} : job'[q] = job[q]
        /\ job'[r].kind = job[r].kind /\ job'[r].id = job[r].id /\ job'[r].new = job[r].new
    <3>1. job \in [Req -> Job \cup {None}]  BY DEF TypeOK
    <3>2. CASE job' = job  BY <3>2
    <3>3. CASE \E a, b : job' = [job EXCEPT ![r].cat = a, ![r].spec = b]
      BY <1>2, <3>1, <3>3 DEF Job
    <3>4. CASE \E a, b : job' = [job EXCEPT ![r].prov = a, ![r].eval = b]
      BY <1>2, <3>1, <3>4 DEF Job
    <3>. QED  BY <1>4, <1>5, <3>2, <3>3, <3>4
  <2>3. job'[r] # None
    BY <2>1, NextType DEF Next, TypeOK
  <2>. QED  BY <1>1, <1>4, <1>5, <2>1, <2>2, <2>3 DEF OthersKept
<1>. QED  BY <1>3, <1>5

\* The ids a handler knows where it is.
LEMMA Ids ==
  ASSUME TypeOK, NEW r \in Req, pc[r] # "idle"
  PROVE  /\ job[r] # None /\ None \notin Id
         /\ job[r].id \in Id \cup {None} /\ job[r].new \in Id \cup {None}
         /\ Uses(r) = {job[r].id, job[r].new} \ {None}
         /\ pc[r] \in {"policy", "insert", "provision", "rollback"} =>
              job[r].new \in Id /\ job[r].kind \in {"create", "rehydrate"}
         /\ pc[r] \in {"get", "unprovision", "deferred", "remove"} => job[r].id \in Id
         /\ pc[r] = "unprovision" => job[r].kind = "delete"
         /\ pc[r] = "deferred" => job[r].kind = "rehydrate"
         /\ pc[r] = "remove" => job[r].kind \in {"delete", "rehydrate"}
<1>1. job[r] \in Job /\ job[r] # None /\ JobOK(r) /\ job[r].kind \in AllKinds  BY BusySlot
<1>. QED  BY <1>1, NoneAssumption DEF Job, JobOK, PCOf, AllKinds, Uses

\* The rows a handler's step changes are those of its own ids.
LEMMA OwnRows ==
  ASSUME TypeOK, NEW r \in Req, Step(r)
  PROVE  \/ db' = db
         \/ /\ pc[r] = "insert" /\ ~Recorded(job[r].new)
            /\ db' = [db EXCEPT ![job[r].new] = NewRow(job[r])]
         \/ /\ pc[r] = "rollback" /\ pc'[r] = "done"
            /\ db' = [db EXCEPT ![job[r].new] = None]
         \/ /\ pc[r] = "remove" /\ pc'[r] = "done"
            /\ db' = [db EXCEPT ![job[r].id] = None]
<1>1. CASE Get(r) \/ Evaluate(r) \/ Provision(r) \/ Unprovision(r) \/ Deferred(r) \/ Reply(r)
  BY <1>1 DEF Get, StoreGet, Evaluate, Provision, Unprovision, Deferred, Reply
<1>2. CASE Insert(r)  BY <1>2 DEF Insert, StoreCreate, Breaks, Recorded
<1>3. CASE Rollback(r)
  BY <1>3, Moves DEF Rollback, Undo, StoreDelete, Breaks, Finish
<1>4. CASE Remove(r)
  BY <1>4, Moves DEF Remove, StoreDelete, Breaks, Finish
<1>. QED  BY <1>1, <1>2, <1>3, <1>4 DEF Step

LEMMA OwnRowsOnly ==
  ASSUME TypeOK, NEW r \in Req, Step(r)
  PROVE  \A y \in Id \ Uses(r) : db'[y] = db[y]
<1>1. pc[r] # "idle"  BY OwnSlot
<1>2. /\ pc[r] \in {"insert", "rollback"} => job[r].new \in Uses(r)
      /\ pc[r] = "remove" => job[r].id \in Uses(r)
  BY <1>1, Ids
<1>. QED  BY <1>2, OwnRows DEF TypeOK

-----------------------------------------------------------------------------
\* Requests stay apart.
LEMMA NextApart ==
  ASSUME Exclusive, TypeOK, Apart, [Next]_vars
  PROVE  Apart'
<1>1. ASSUME NEW r \in Req, Submit(r) PROVE Apart'
  <2>0. PICK j, at : Occupies(r, j, at)  BY <1>1, Submission
  <2>1. MaySubmit({j.id, j.new} \ {None}, {j.cat} \ {None}) /\ job' = [job EXCEPT ![r] = j]
    BY <2>0 DEF Occupies
  <2>2. \A q \in Req \ {r} : Uses(q)' = Uses(q)  BY <2>1 DEF Uses, TypeOK
  <2>3. Uses(r)' \subseteq {j.id, j.new} \ {None}  BY <2>1 DEF Uses, TypeOK
  <2>4. \A q \in Req : Uses(q) \cap ({j.id, j.new} \ {None}) = {}
    BY <2>1 DEF MaySubmit, Uses, TypeOK
  <2>. QED  BY <2>2, <2>3, <2>4 DEF Apart
<1>2. ASSUME \A q \in Req : Uses(q)' \subseteq Uses(q) PROVE Apart'
  BY <1>2 DEF Apart
<1>3. ASSUME NEW r \in Req, Step(r) PROVE Apart'
  <2>1. \A q \in Req \ {r} : Uses(q)' = Uses(q)  BY <1>3, OwnSlot DEF OthersKept, Uses
  <2>2. Uses(r)' \subseteq Uses(r)  BY <1>3, OwnSlot, Ids DEF Uses
  <2>. QED  BY <1>2, <2>1, <2>2
<1>4. CASE job' = job  BY <1>2, <1>4 DEF Uses
<1>5. CASE Crash  BY <1>2, <1>5 DEF Crash, Uses
<1>. QED  BY <1>1, <1>3, <1>4, <1>5 DEF Next, Cancel, Deliver, SprmCleanUp, vars

\* What a request has found is out of the others' reach.
LEMMA OthersFound ==
  ASSUME TypeOK, Apart, Found, NEW r \in Req, OthersKept(r),
         \A y \in Id \ Uses(r) : db'[y] = db[y]
  PROVE  \A q \in Req \ {r} : FoundBy(q)'
<1>. SUFFICES ASSUME NEW q \in Req \ {r} PROVE FoundBy(q)'
  OBVIOUS
<1>1. pc'[q] = pc[q] /\ job'[q] = job[q]  BY DEF OthersKept
<1>2. CASE pc[q] = "idle"  BY <1>1, <1>2 DEF FoundBy
<1>3. CASE pc[q] # "idle"
  <2>1. Uses(q) = {job[q].id, job[q].new} \ {None} /\ Uses(q) \cap Uses(r) = {}
    BY <1>3, Ids DEF Apart
  <2>2. \A y \in Id \cap Uses(q) : db'[y] = db[y]  BY <2>1
  <2>3. /\ job[q].id \in Id \cup {None} /\ None \notin Id
        /\ pc[q] \in {"provision", "rollback"} => job[q].new \in Id
    BY <1>3, Ids
  <2>. QED  BY <1>1, <2>1, <2>2, <2>3 DEF Found, FoundBy, Recorded, NewRow
<1>. QED  BY <1>2, <1>3

\* A handler's own step: what it finds or writes it knows to be there.
LEMMA OwnFound ==
  ASSUME TypeOK, Found, NEW r \in Req, Step(r)
  PROVE  FoundBy(r)'
<1>. DEFINE rest == {"policy", "insert", "provision", "rollback", "unprovision", "deferred", "remove"}
<1>1. /\ FoundBy(r) /\ job[r] \in Job /\ pc[r] # "idle"
      /\ pc[r] \in rest /\ job[r].id # None => Recorded(job[r].id)
  BY OwnSlot, BusySlot DEF Found, FoundBy
<1>2. CASE Get(r)
  <2>1. db' = db  BY <1>2 DEF Get, StoreGet
  <2>2. pc'[r] \in {"unprovision", "policy"} => Recorded(job[r].id)
    BY <1>2, Moves DEF Get, StoreGet, Finish, Recorded, Nil
  <2>3. pc'[r] \in {"done", "unprovision", "policy"}
    BY <1>2, Moves DEF Get, Finish
  <2>4. job'[r].id = job[r].id \/ pc'[r] = "done"
    BY <1>2, OwnSlot, Moves DEF Step, Reply, Get
  <2>. QED  BY <2>1, <2>2, <2>3, <2>4 DEF FoundBy, Recorded
<1>3. CASE Evaluate(r)
  <2>1. db' = db /\ pc[r] = "policy"  BY <1>3 DEF Evaluate
  <2>2. pc'[r] \in {"done", "insert"}  BY <1>3, Moves DEF Evaluate, Finish
  <2>3. job'[r].id = job[r].id  BY <1>3, <2>1, OwnSlot
  <2>. QED  BY <1>1, <2>1, <2>2, <2>3 DEF FoundBy, Recorded
<1>4. CASE Insert(r)
  <2>1. pc[r] = "insert" /\ job' = job /\ job[r].new \in Id /\ NewRow(job[r]) # None
    <3>1. NewRow(job[r]) \in Row  BY <1>4, BusySlot DEF Insert, JobOK, NewRow, Row
    <3>. QED  BY <1>4, <3>1, Ids, NoneAssumption DEF Insert
  <2>2. \/ pc'[r] = "done"
        \/ pc'[r] = "provision" /\ db' = [db EXCEPT ![job[r].new] = NewRow(job[r])]
    BY <1>4, Moves DEF Insert, StoreCreate, Inserted, Finish, Nil
  <2>3. job[r].id # None => Recorded(job[r].id) /\ job[r].id \in Id
    BY <1>1, <2>1, Ids
  <2>. QED  BY <2>1, <2>2, <2>3 DEF FoundBy, Recorded, NewRow, TypeOK
<1>5. CASE Provision(r) \/ Unprovision(r) \/ Deferred(r)
  <2>1. db' = db /\ job' = job /\ pc[r] \in {"provision", "unprovision", "deferred"}
    BY <1>5 DEF Provision, Unprovision, Deferred
  <2>2. /\ pc'[r] \in {"rollback", "provision"} => pc[r] = "provision"
        /\ pc'[r] \in rest \cup {"done"}
    <3>1. CASE TryAgain(r)  BY <2>1, <3>1 DEF TryAgain
    <3>2. CASE Provision(r) /\ ~TryAgain(r)
      BY <3>2, Moves DEF Provision, FailUnprovisioned, Finish
    <3>3. CASE (Unprovision(r) \/ Deferred(r)) /\ ~TryAgain(r)
      <4>1. Go(r, "remove") \/ \E code : Answer(r, code, "done")
        BY <3>3 DEF Unprovision, NotUnprovisioned, Finish, Deferred, Replaced
      <4>. QED  BY <4>1, Moves
    <3>. QED  BY <1>5, <3>1, <3>2, <3>3
  <2>. QED  BY <1>1, <2>1, <2>2 DEF FoundBy, Recorded, NewRow
<1>6. CASE Rollback(r) \/ Remove(r) \/ Reply(r)
  <2>1. pc'[r] \in {"done", "idle"}
    BY <1>6, Moves DEF Rollback, Remove, Reply, Finish, TypeOK
  <2>. QED  BY <2>1 DEF FoundBy
<1>. QED  BY <1>2, <1>3, <1>4, <1>5, <1>6 DEF Step

LEMMA NextFound ==
  ASSUME TypeOK, Apart, Found, [Next]_vars
  PROVE  Found'
<1>1. ASSUME NEW r \in Req, Submit(r) PROVE Found'
  <2>0. PICK j, at : Occupies(r, j, at)  BY <1>1, Submission
  <2>1. /\ at \in {"get", "policy"}
        /\ at = "policy" => j.id = None
        /\ job' = [job EXCEPT ![r] = j] /\ pc' = [pc EXCEPT ![r] = at] /\ db' = db
    BY <2>0 DEF Occupies
  <2>2. FoundBy(r)'  BY <2>1 DEF FoundBy, TypeOK
  <2>3. \A q \in Req \ {r} : FoundBy(q)'
    BY <2>1 DEF Found, FoundBy, Recorded, NewRow, TypeOK
  <2>. QED  BY <2>2, <2>3 DEF Found
<1>2. ASSUME NEW r \in Req, Step(r) PROVE Found'
  <2>1. \A q \in Req \ {r} : FoundBy(q)'
    BY <1>2, OwnSlot, OwnRowsOnly, OthersFound
  <2>2. FoundBy(r)'  BY <1>2, OwnFound
  <2>. QED  BY <2>1, <2>2 DEF Found
<1>3. CASE UNCHANGED <<db, pc, job>>
  BY <1>3 DEF Found, FoundBy, Recorded, NewRow
<1>4. CASE Crash  BY <1>4 DEF Crash, Found, FoundBy
<1>. QED  BY <1>1, <1>2, <1>3, <1>4 DEF Next, Cancel, Deliver, SprmCleanUp, vars

LEMMA AlwaysFound ==
  ASSUME Exclusive
  PROVE  Spec => [](TypeOK /\ Apart /\ Found)
<1>1. Init => TypeOK /\ Apart /\ Found
  BY InitType DEF Init, Apart, Uses, Found, FoundBy
<1>2. TypeOK /\ Apart /\ Found /\ [Next]_vars => (TypeOK /\ Apart /\ Found)'
  BY NextType, NextApart, NextFound
<1>. QED  BY <1>1, <1>2, PTL DEF Spec

(***************************************************************************)
(* Among exclusive clients, rehydrations included and under every fault, a *)
(* creation answered OK has its record and its instance in that step: only *)
(* the creation itself could have removed the record it has inserted.      *)
(***************************************************************************)
THEOREM CreationIsKeptByExclusion ==
  ASSUME Exclusive
  PROVE  Spec => CreatedIsRecorded
<1>1. Init => Failed  BY DEF Init, Failed, FailedRollback
<1>2. TypeOK /\ Failed /\ [Next]_vars => Failed'  BY NextFailed
<1>3. TypeOK /\ Found /\ Failed /\ [Next]_vars => [CreatedNow]_vars
  <2>1. ASSUME TypeOK, Found, NEW r \in Req, pc[r] = "provision"
        PROVE  Recorded(job[r].new)
    <3>1. NewRow(job[r]) \in Row  BY <2>1, BusySlot DEF JobOK, NewRow, Row
    <3>. QED  BY <2>1, <3>1, NoneAssumption DEF Found, FoundBy, Recorded
  <2>. QED  BY <2>1, OwnReply, OKIsProvisioned DEF CreatedNow, Recorded
<1>. QED  BY <1>1, <1>2, <1>3, AlwaysFound, PTL DEF Spec, CreatedIsRecorded, CreatedNow

-----------------------------------------------------------------------------
\* Where no client disconnects, every handler's context lives.
Listening == \A r \in Req : alive[r]

LEMMA NextListening ==
  ASSUME "cancel" \notin Faults, TypeOK, Listening, [Next]_vars
  PROVE  Listening'
<1>1. ASSUME NEW r \in Req, Step(r), ~Reply(r) PROVE alive' = alive
  BY <1>1 DEF Step, Get, Evaluate, Insert, Provision, Rollback, Unprovision, Deferred, Remove
<1>2. ASSUME NEW r \in Req, Reply(r) PROVE Listening'
  BY <1>2 DEF Reply, Listening, TypeOK
<1>3. ASSUME NEW r \in Req, Submit(r) PROVE alive' = alive
  BY <1>3, Submission DEF Occupies
<1>4. CASE Crash  BY <1>4 DEF Crash, Listening
<1>5. CASE alive' = alive  BY <1>5 DEF Listening
<1>. QED  BY <1>1, <1>2, <1>3, <1>4, <1>5 DEF Next, Cancel, Deliver, SprmCleanUp, vars

LEMMA AlwaysListening ==
  ASSUME "cancel" \notin Faults
  PROVE  Spec => []Listening
<1>1. Init => Listening  BY DEF Init, Listening
<1>2. TypeOK /\ Listening /\ [Next]_vars => Listening'  BY NextListening
<1>. QED  BY <1>1, <1>2, TypeCorrect, PTL DEF Spec

-----------------------------------------------------------------------------
\* The two stores under orderly rehydration: no answer is lost while its caller
\* waits, no creation is executed after its caller has gone, and the SPRM queues
\* what it cannot delete.  Clients may disconnect, the process may stop and the
\* database fail, and the deletions they cut off may be executed at any time.
Orderly ==
  /\ Exclusive
  /\ "loss" \notin Faults
  /\ "create" \in Lingering => Faults \cap {"cancel", "crash"} = {}
  /\ Refusals["deferred"] = {}

\* No creation is cut off that could be executed later.
Patient == "create" \in Lingering => Listening

\* What the stores owe each other; only provisioned ids are queued.
Coherent ==
  /\ NoUntracked
  /\ RecordMatchesInstance
  /\ \A x \in cleanup : Provisioned(x)

\* A row goes or is provisioned only where no instance is left to lose.  (A
\* request whose context is dead removes no row.)
ClearedBy(r) ==
  alive[r] =>
    /\ pc[r] = "remove" => Clear(job[r].id)
    /\ pc[r] \in {"provision", "rollback"} => Clear(job[r].new)

\* Only deletions are under way without their caller.
LateDeletions == \A c \in late : c.op # "create"

Tidy == Coherent /\ LateDeletions /\ \A r \in Req : ClearedBy(r)

\* A step is one of the protocol, or none.
Keeping == [Protocol!Next]_(Protocol!protocolVars)

-----------------------------------------------------------------------------
\* The five ways the stores change, and what each asks for.

LEMMA RecordsCoherently ==
  ASSUME TypeOK, Coherent, NEW x \in Id, ~Recorded(x), NEW row \in Row,
         db' = [db EXCEPT ![x] = row], UNCHANGED <<sprm, cleanup>>
  PROVE  Coherent' /\ Keeping
<1>1. row # None  BY NoneAssumption
<1>2. \A y \in Id : (Recorded(y)' <=> y = x \/ Recorded(y)) /\ (Provisioned(y)' <=> Provisioned(y))
  BY <1>1 DEF TypeOK, Recorded, Provisioned
<1>3. \A y \in Id \ {x} : db'[y] = db[y]  BY DEF TypeOK
<1>4. Coherent'  BY <1>2, <1>3 DEF Coherent, NoUntracked, RecordMatchesInstance, TypeOK
<1>. QED  BY <1>1, <1>4, Records DEF Keeping

LEMMA ForgetsCoherently ==
  ASSUME TypeOK, Coherent, NEW x \in Id, Recorded(x), Clear(x),
         db' = [db EXCEPT ![x] = None], UNCHANGED <<sprm, cleanup>>
  PROVE  Coherent' /\ Keeping
<1>1. \A y \in Id : (Recorded(y)' <=> y # x /\ Recorded(y)) /\ (Provisioned(y)' <=> Provisioned(y))
  BY DEF TypeOK, Recorded, Provisioned
<1>2. \A y \in Id \ {x} : db'[y] = db[y]  BY DEF TypeOK
<1>3. Coherent'  BY <1>1, <1>2 DEF Coherent, NoUntracked, RecordMatchesInstance, TypeOK, Clear
<1>. QED  BY <1>3, Forgets DEF Keeping

LEMMA ProvisionsCoherently ==
  ASSUME TypeOK, Coherent, NEW x \in Id, Recorded(x), ~Provisioned(x),
         NEW inst \in Instance, inst.prov = db[x].prov,
         sprm' = [sprm EXCEPT ![x] = inst], UNCHANGED <<db, cleanup>>
  PROVE  Coherent' /\ Keeping
<1>1. inst # None  BY NoneAssumption
<1>2. \A y \in Id : (Recorded(y)' <=> Recorded(y)) /\ (Provisioned(y)' <=> y = x \/ Provisioned(y))
  BY <1>1 DEF TypeOK, Recorded, Provisioned
<1>3. sprm'[x] = inst /\ \A y \in Id \ {x} : sprm'[y] = sprm[y]  BY DEF TypeOK
<1>4. Coherent'  BY <1>2, <1>3 DEF Coherent, NoUntracked, RecordMatchesInstance, TypeOK
<1>. QED  BY <1>1, <1>4, Provisions DEF Keeping

LEMMA UnprovisionsCoherently ==
  ASSUME TypeOK, Coherent, NEW x \in Id, Provisioned(x),
         sprm' = [sprm EXCEPT ![x] = None], cleanup' = cleanup \ {x}, db' = db
  PROVE  Coherent' /\ Keeping /\ \A y \in Id : Clear(y) \/ y = x => Clear(y)'
<1>1. \A y \in Id : (Recorded(y)' <=> Recorded(y)) /\ (Provisioned(y)' <=> y # x /\ Provisioned(y))
  BY DEF TypeOK, Recorded, Provisioned
<1>2. \A y \in Id \ {x} : sprm'[y] = sprm[y]  BY DEF TypeOK
<1>3. Coherent'  BY <1>1, <1>2 DEF Coherent, NoUntracked, RecordMatchesInstance, TypeOK
<1>. QED  BY <1>1, <1>3, Unprovisions DEF Keeping, Clear

LEMMA EnqueuesCoherently ==
  ASSUME TypeOK, Coherent, NEW x \in Id, Recorded(x), Provisioned(x),
         cleanup' = cleanup \cup {x}, UNCHANGED <<db, sprm>>
  PROVE  Coherent' /\ Keeping /\ \A y \in Id : Clear(y) \/ y = x => Clear(y)'
<1>1. \A y \in Id : (Recorded(y)' <=> Recorded(y)) /\ (Provisioned(y)' <=> Provisioned(y))
  BY DEF Recorded, Provisioned
<1>2. Coherent'  BY <1>1 DEF Coherent, NoUntracked, RecordMatchesInstance, TypeOK
<1>3. Keeping
  <2>1. CASE x \in cleanup
    <3>1. cleanup' = cleanup  BY <2>1
    <3>. QED  BY <3>1, Stutters DEF Keeping
  <2>2. CASE x \notin cleanup  BY <2>2, Enqueues DEF Keeping
  <2>. QED  BY <2>1, <2>2
<1>. QED  BY <1>1, <1>2, <1>3 DEF Clear

LEMMA RestsCoherently ==
  ASSUME Coherent, UNCHANGED <<db, sprm, cleanup>>
  PROVE  Coherent' /\ Keeping /\ \A y \in Id : Clear(y) => Clear(y)'
  BY Stutters DEF Keeping, Coherent, NoUntracked, RecordMatchesInstance, Recorded, Provisioned, Clear

-----------------------------------------------------------------------------
\* A step of r clears nothing that is another's concern.
LEMMA OthersCleared ==
  ASSUME TypeOK, Apart, Tidy, NEW r \in Req, OthersKept(r),
         \A y \in Id \ Uses(r) : Clear(y) => Clear(y)'
  PROVE  \A q \in Req \ {r} : ClearedBy(q)'
<1>. SUFFICES ASSUME NEW q \in Req \ {r} PROVE ClearedBy(q)'
  OBVIOUS
<1>1. pc'[q] = pc[q] /\ job'[q] = job[q] /\ alive'[q] = alive[q] /\ ClearedBy(q)
  BY DEF OthersKept, Tidy
<1>2. CASE pc[q] = "idle"  BY <1>1, <1>2 DEF ClearedBy
<1>3. CASE pc[q] # "idle"
  <2>1. Uses(q) = {job[q].id, job[q].new} \ {None} /\ Uses(q) \cap Uses(r) = {} /\ None \notin Id
    BY <1>3, Ids DEF Apart
  <2>2. pc[q] = "remove" => (Clear(job[q].id) => Clear(job[q].id)')
    <3>1. pc[q] = "remove" => job[q].id \in Id \ Uses(r)  BY <1>3, <2>1, Ids
    <3>. QED  BY <1>1, <3>1
  <2>3. pc[q] \in {"provision", "rollback"} => (Clear(job[q].new) => Clear(job[q].new)')
    <3>1. pc[q] \in {"provision", "rollback"} => job[q].new \in Id \ Uses(r)  BY <1>3, <2>1, Ids
    <3>. QED  BY <1>1, <3>1
  <2>. QED  BY <1>1, <2>2, <2>3 DEF ClearedBy
<1>. QED  BY <1>2, <1>3

\* A handler keeps the stores tidy if its step does, what its own next call
\* relies on included.
LEMMA TidyStep ==
  ASSUME TypeOK, Apart, Tidy, NEW r \in Req, Step(r), LateDeletions', Coherent', ClearedBy(r)',
         \A y \in Id \ Uses(r) : Clear(y) => Clear(y)'
  PROVE  Tidy'
<1>1. \A q \in Req \ {r} : ClearedBy(q)'  BY OwnSlot, OthersCleared
<1>. QED  BY <1>1 DEF Tidy

\* Steps that leave both stores alone.
LEMMA QuietTidy ==
  ASSUME TypeOK, Apart, Tidy, NEW r \in Req, Get(r) \/ Evaluate(r) \/ Reply(r)
  PROVE  Tidy' /\ Keeping
<1>1. UNCHANGED <<db, sprm, cleanup, late>>  BY DEF Get, StoreGet, Evaluate, Reply
<1>2. pc'[r] \in {"done", "unprovision", "policy", "insert", "idle"}
  BY Moves DEF Get, Evaluate, Reply, Finish, TypeOK
<1>3. ClearedBy(r)'  BY <1>2 DEF ClearedBy
<1>4. Coherent' /\ Keeping /\ \A y \in Id : Clear(y) => Clear(y)'
  BY <1>1, RestsCoherently DEF Tidy
<1>5. LateDeletions'  BY <1>1 DEF Tidy, LateDeletions
<1>. QED  BY <1>3, <1>4, <1>5, TidyStep DEF Step

\* A row is inserted where none is, and hence no instance to be tracked by it.
LEMMA InsertTidy ==
  ASSUME TypeOK, Apart, Tidy, NEW r \in Req, Insert(r)
  PROVE  Tidy' /\ Keeping
<1>1. PICK x \in Id : x = job[r].new  BY Ids DEF Insert
<1>2. /\ pc[r] = "insert" /\ UNCHANGED <<sprm, cleanup, late, job>> /\ NewRow(job[r]) \in Row
      /\ \A y \in Id : Clear(y) <=> Clear(y)'
  BY BusySlot DEF Insert, JobOK, NewRow, Row, Clear, Provisioned
<1>3. \/ db' = db /\ pc'[r] = "done"
      \/ /\ ~Recorded(x) /\ db' = [db EXCEPT ![x] = NewRow(job[r])]
         /\ pc'[r] \in {"provision", "done"}
  BY <1>1, Moves DEF Insert, StoreCreate, Breaks, Inserted, Finish, Recorded, Nil
<1>4. Coherent' /\ Keeping
  <2>1. CASE db' = db  BY <1>2, <2>1, RestsCoherently DEF Tidy
  <2>2. CASE ~Recorded(x) /\ db' = [db EXCEPT ![x] = NewRow(job[r])]
    BY <1>2, <2>2, RecordsCoherently DEF Tidy
  <2>. QED  BY <1>3, <2>1, <2>2
<1>5. ClearedBy(r)'
  <2>1. ~Recorded(x) => Clear(x)  BY DEF Tidy, Coherent, NoUntracked, Clear
  <2>. QED  BY <1>1, <1>2, <1>3, <2>1 DEF ClearedBy
<1>6. LateDeletions'  BY <1>2 DEF Tidy, LateDeletions
<1>. QED  BY <1>2, <1>4, <1>5, <1>6, TidyStep DEF Step

\* An attempt is answered, unless the client has gone: the SPRM then executes
\* it at once, later if it is a deletion, or never.
LEMMA OrderlyAttempt ==
  ASSUME Orderly, Patient, Tidy, NEW r \in Req, NEW c, NEW status, Attempt(r, c, status)
  PROVE  /\ LateDeletions'
         /\ \/ alive[r] /\ Serve(c, status) /\ late' = late
            \/ ~alive[r] /\ \E unheard : Serve(c, unheard)
            \/ ~alive[r] /\ UNCHANGED <<sprm, cleanup>>
<1>1. CASE late' = late
  BY <1>1 DEF Orderly, Attempt, Unanswered, Tidy, LateDeletions
<1>2. CASE Unanswered(r, status) /\ MayLinger({c}) /\ UNCHANGED <<sprm, cleanup>>
  BY <1>2, Lingers DEF Orderly, Patient, Listening, Unanswered, Tidy, LateDeletions
<1>. QED  BY <1>1, <1>2 DEF Attempt

\* A creation provisions its id where nothing runs, or does nothing.
LEMMA CreationServed ==
  ASSUME NEW c, NEW status, Serve(c, status), c.op = "create"
  PROVE  \/ /\ ~Provisioned(c.id) /\ status = 201
            /\ sprm' = [sprm EXCEPT ![c.id] = c.inst] /\ cleanup' = cleanup
         \/ status # 201 /\ UNCHANGED <<sprm, cleanup>>
  BY StatusAssumption DEF Serve, Ops, Provisioned

\* A deletion removes or queues the instance it finds, or does nothing; a
\* deferred one does nothing only where nothing runs.
LEMMA DeletionServed ==
  ASSUME Orderly, NEW c, NEW status, Serve(c, status), c.op \in {"delete", "deferred"}
  PROVE  \/ /\ Provisioned(c.id) /\ status = 204
            /\ sprm' = [sprm EXCEPT ![c.id] = None] /\ cleanup' = cleanup \ {c.id}
         \/ /\ Provisioned(c.id) /\ status = 204
            /\ sprm' = sprm /\ cleanup' = cleanup \cup {c.id}
         \/ ~Provisioned(c.id) /\ status = 404 /\ UNCHANGED <<sprm, cleanup>>
         \/ status # 204 /\ c.op = "delete" /\ UNCHANGED <<sprm, cleanup>>
  BY StatusAssumption DEF Serve, Orderly, Provisioned, Ops

\* Where an attempt to provision x leaves the stores and, while its client
\* listens, the request.
ProvisionEnds(r, x) ==
  \/ /\ ~Provisioned(x) /\ cleanup' = cleanup
     /\ sprm' = [sprm EXCEPT ![x] = [spec |-> job[r].eval, prov |-> job[r].prov]]
     /\ alive[r] => pc'[r] \in {"done", "deferred"}
  \/ /\ UNCHANGED <<sprm, cleanup>>
     /\ alive[r] => pc'[r] \in {"provision", "rollback"}

LEMMA ProvisionOutcome ==
  ASSUME Orderly, Patient, TypeOK, Tidy, NEW r \in Req, Provision(r)
  PROVE  \E x \in Id :
           /\ x = job[r].new /\ pc[r] = "provision" /\ UNCHANGED <<db, job, alive>>
           /\ job[r].prov \in Provider /\ job[r].eval \in ServiceSpec /\ NewRow(job[r]) \in Row
           /\ LateDeletions' /\ ProvisionEnds(r, x)
<1>1. PICK x \in Id : x = job[r].new  BY Ids DEF Provision
<1>2. PICK c : c = SprmRequest(r, "create")  OBVIOUS
<1>3. /\ pc[r] = "provision" /\ UNCHANGED <<db, job, alive>>
      /\ job[r].prov \in Provider /\ job[r].eval \in ServiceSpec /\ NewRow(job[r]) \in Row
  BY BusySlot DEF Provision, JobOK, NewRow, Row
<1>4. c.op = "create" /\ c.id = x /\ c.inst = [spec |-> job[r].eval, prov |-> job[r].prov]
  BY <1>1, <1>2 DEF SprmRequest
<1>5. PICK status \in Statuses :
        /\ Attempt(r, c, status)
        /\ \/ status = 201 /\ (Finish(r, "OK") \/ Go(r, "deferred"))
           \/ status # 201 /\ TryAgain(r)
           \/ status # 201 /\ Answer(r, HandleSPRMError(status), "rollback")
  BY <1>2 DEF Provision, FailUnprovisioned
<1>6. LateDeletions'  BY <1>5, OrderlyAttempt
<1>7. ProvisionEnds(r, x)
  <2>1. CASE alive[r] /\ Serve(c, status)
    <3>1. CASE status = 201
      <4>1. pc'[r] \in {"done", "deferred"}  BY <1>5, <3>1, Moves DEF Finish
      <4>. QED  BY <1>4, <2>1, <3>1, <4>1, CreationServed DEF ProvisionEnds
    <3>2. CASE status # 201
      <4>1. pc'[r] \in {"provision", "rollback"}  BY <1>3, <1>5, <3>2, Moves DEF TryAgain
      <4>. QED  BY <1>4, <2>1, <3>2, <4>1, CreationServed DEF ProvisionEnds
    <3>. QED  BY <3>1, <3>2
  <2>2. CASE ~alive[r] /\ \E unheard : Serve(c, unheard)
    BY <1>4, <2>2, CreationServed DEF ProvisionEnds
  <2>3. CASE ~alive[r] /\ UNCHANGED <<sprm, cleanup>>
    BY <2>3 DEF ProvisionEnds
  <2>. QED  BY <1>5, <2>1, <2>2, <2>3, OrderlyAttempt
<1>. QED  BY <1>1, <1>3, <1>6, <1>7

\* The row provisioned names the provider, and has no instance but a queued one.
LEMMA ProvisionTidy ==
  ASSUME Orderly, Patient, TypeOK, Apart, Found, Tidy, NEW r \in Req, Provision(r)
  PROVE  Tidy' /\ Keeping
<1>1. PICK x \in Id :
        /\ x = job[r].new /\ pc[r] = "provision" /\ UNCHANGED <<db, job, alive>>
        /\ job[r].prov \in Provider /\ job[r].eval \in ServiceSpec /\ NewRow(job[r]) \in Row
        /\ LateDeletions' /\ ProvisionEnds(r, x)
  BY ProvisionOutcome
<1>2. Recorded(x) /\ db[x].prov = job[r].prov /\ x \in Uses(r) /\ (alive[r] => Clear(x))
  <2>1. db[x] = NewRow(job[r])  BY <1>1 DEF Found, FoundBy
  <2>2. NewRow(job[r]) # None /\ NewRow(job[r]).prov = job[r].prov
    BY <1>1, NoneAssumption DEF NewRow
  <2>. QED  BY <1>1, <2>1, <2>2, Ids DEF Recorded, Tidy, ClearedBy
<1>3. CASE /\ ~Provisioned(x) /\ cleanup' = cleanup
           /\ sprm' = [sprm EXCEPT ![x] = [spec |-> job[r].eval, prov |-> job[r].prov]]
           /\ alive[r] => pc'[r] \in {"done", "deferred"}
  <2>1. [spec |-> job[r].eval, prov |-> job[r].prov] \in Instance  BY <1>1 DEF Instance
  <2>2. Coherent' /\ Keeping  BY <1>1, <1>2, <1>3, <2>1, ProvisionsCoherently DEF Tidy
  <2>3. \A y \in Id \ Uses(r) : Clear(y) => Clear(y)'
    BY <1>2, <1>3 DEF Clear, Provisioned, TypeOK
  <2>4. ClearedBy(r)'  BY <1>1, <1>3 DEF ClearedBy
  <2>. QED  BY <1>1, <2>2, <2>3, <2>4, TidyStep DEF Step
<1>4. CASE /\ UNCHANGED <<sprm, cleanup>>
           /\ alive[r] => pc'[r] \in {"provision", "rollback"}
  <2>1. Coherent' /\ Keeping /\ \A y \in Id : Clear(y) => Clear(y)'
    BY <1>1, <1>4, RestsCoherently DEF Tidy
  <2>2. ClearedBy(r)'  BY <1>1, <1>2, <1>4, <2>1 DEF ClearedBy
  <2>. QED  BY <1>1, <2>1, <2>2, TidyStep DEF Step
<1>. QED  BY <1>1, <1>3, <1>4 DEF ProvisionEnds

\* Where a deletion of x, deferred or not, leaves the stores and, while its
\* client listens, the request: the row is removed once the instance is gone or
\* queued.
DeletionEnds(r, x) ==
  \/ /\ Provisioned(x) /\ (alive[r] => pc'[r] = "remove")
     /\ sprm' = [sprm EXCEPT ![x] = None] /\ cleanup' = cleanup \ {x}
  \/ /\ Provisioned(x) /\ (alive[r] => pc'[r] = "remove")
     /\ sprm' = sprm /\ cleanup' = cleanup \cup {x}
  \/ /\ UNCHANGED <<sprm, cleanup>>
     /\ alive[r] => \/ pc'[r] \in {"unprovision", "deferred", "done"}
                    \/ pc'[r] = "remove" /\ ~Provisioned(x)

LEMMA DeletionOutcome ==
  ASSUME Orderly, Patient, TypeOK, Tidy, NEW r \in Req, Unprovision(r) \/ Deferred(r)
  PROVE  \E x \in Id :
           /\ x = job[r].id /\ pc[r] \in {"unprovision", "deferred"}
           /\ UNCHANGED <<db, job, alive>> /\ LateDeletions' /\ DeletionEnds(r, x)
<1>1. PICK x \in Id : x = job[r].id  BY Ids DEF Unprovision, Deferred
<1>2. pc[r] \in {"unprovision", "deferred"} /\ UNCHANGED <<db, job, alive>>
  BY DEF Unprovision, Deferred
<1>3. PICK c \in {SprmRequest(r, "delete"), SprmRequest(r, "deferred")}, status \in Statuses :
        /\ c.op \in {"delete", "deferred"} /\ c.id = x /\ Attempt(r, c, status)
        /\ \/ TryAgain(r) /\ status # 204
           \/ \E code : Answer(r, code, "done") /\ status # 204
           \/ Go(r, "remove") /\ (status = 204 \/ c.op = "deferred")
  <2>1. CASE Unprovision(r)
    <3>1. PICK c : c = SprmRequest(r, "delete")  OBVIOUS
    <3>2. c.op = "delete" /\ c.id = x  BY <1>1, <3>1 DEF SprmRequest
    <3>3. \E status \in Statuses :
            /\ Attempt(r, c, status)
            /\ \/ TryAgain(r) /\ status # 204
               \/ \E code : Answer(r, code, "done") /\ status # 204
               \/ Go(r, "remove") /\ status = 204
      BY <2>1, <3>1 DEF Unprovision, NotUnprovisioned, Finish
    <3>. QED  BY <3>1, <3>2, <3>3
  <2>2. CASE Deferred(r)
    <3>1. PICK c : c = SprmRequest(r, "deferred")  OBVIOUS
    <3>2. c.op = "deferred" /\ c.id = x  BY <1>1, <3>1 DEF SprmRequest
    <3>3. \E status \in Statuses :
            /\ Attempt(r, c, status)
            /\ \/ TryAgain(r) /\ status # 204
               \/ Go(r, "remove")
      BY <2>2, <3>1 DEF Deferred, OldInstance, Replaced
    <3>. QED  BY <3>1, <3>2, <3>3
  <2>. QED  BY <2>1, <2>2
<1>4. LateDeletions'  BY <1>3, OrderlyAttempt
<1>5. \/ pc'[r] \in {"unprovision", "deferred", "done"} /\ status # 204
      \/ pc'[r] = "remove" /\ (status = 204 \/ c.op = "deferred")
  <2>1. CASE TryAgain(r) /\ status # 204  BY <1>2, <2>1 DEF TryAgain
  <2>2. CASE \E code : Answer(r, code, "done") /\ status # 204
    <3>1. pc'[r] = "done"  BY <2>2, Moves
    <3>. QED  BY <2>2, <3>1
  <2>3. CASE Go(r, "remove") /\ (status = 204 \/ c.op = "deferred")
    <3>1. pc'[r] = "remove"  BY <2>3, Moves
    <3>. QED  BY <2>3, <3>1
  <2>. QED  BY <1>3, <2>1, <2>2, <2>3
<1>6. DeletionEnds(r, x)
  <2>1. CASE alive[r] /\ Serve(c, status)
    BY <1>3, <1>5, <2>1, DeletionServed DEF DeletionEnds
  <2>2. CASE ~alive[r] /\ \E unheard : Serve(c, unheard)
    BY <1>3, <2>2, DeletionServed DEF DeletionEnds
  <2>3. CASE ~alive[r] /\ UNCHANGED <<sprm, cleanup>>
    BY <2>3 DEF DeletionEnds
  <2>. QED  BY <1>3, <2>1, <2>2, <2>3, OrderlyAttempt
<1>. QED  BY <1>1, <1>2, <1>4, <1>6

\* So the row goes on where its instance is gone or queued.
LEMMA DeletionTidy ==
  ASSUME Orderly, Patient, TypeOK, Apart, Found, Tidy, NEW r \in Req,
         Unprovision(r) \/ Deferred(r)
  PROVE  Tidy' /\ Keeping
<1>1. PICK x \in Id :
        /\ x = job[r].id /\ pc[r] \in {"unprovision", "deferred"}
        /\ UNCHANGED <<db, job, alive>> /\ LateDeletions' /\ DeletionEnds(r, x)
  BY DeletionOutcome
<1>2. Recorded(x) /\ x \in Uses(r)  BY <1>1, Ids DEF Found, FoundBy
<1>3. /\ Coherent' /\ Keeping
      /\ \A y \in Id \ {x} : Clear(y) => Clear(y)'
      /\ alive[r] => /\ pc'[r] \notin {"provision", "rollback"}
                     /\ pc'[r] = "remove" => Clear(x)'
  <2>1. CASE /\ Provisioned(x) /\ (alive[r] => pc'[r] = "remove")
             /\ sprm' = [sprm EXCEPT ![x] = None] /\ cleanup' = cleanup \ {x}
    BY <1>1, <2>1, UnprovisionsCoherently DEF Tidy
  <2>2. CASE /\ Provisioned(x) /\ (alive[r] => pc'[r] = "remove")
             /\ sprm' = sprm /\ cleanup' = cleanup \cup {x}
    BY <1>1, <1>2, <2>2, EnqueuesCoherently DEF Tidy
  <2>3. CASE /\ UNCHANGED <<sprm, cleanup>>
             /\ alive[r] => \/ pc'[r] \in {"unprovision", "deferred", "done"}
                            \/ pc'[r] = "remove" /\ ~Provisioned(x)
    BY <1>1, <2>3, RestsCoherently DEF Tidy, Clear, Provisioned
  <2>. QED  BY <1>1, <2>1, <2>2, <2>3 DEF DeletionEnds
<1>4. ClearedBy(r)'  BY <1>1, <1>3 DEF ClearedBy
<1>. QED  BY <1>1, <1>2, <1>3, <1>4, TidyStep DEF Step

\* A row is removed where no instance is left to lose.
LEMMA RemovalTidy ==
  ASSUME TypeOK, Apart, Found, Tidy, NEW r \in Req, Rollback(r) \/ Remove(r)
  PROVE  Tidy' /\ Keeping
<1>1. PICK x \in Id : /\ Rollback(r) => pc[r] = "rollback" /\ x = job[r].new
                      /\ Remove(r) => pc[r] = "remove" /\ x = job[r].id
  BY Ids DEF Rollback, Remove
<1>2. UNCHANGED <<sprm, cleanup, late>> /\ pc'[r] = "done"
  BY Moves DEF Rollback, Remove, Finish
<1>3. db' = db \/ (alive[r] /\ db' = [db EXCEPT ![x] = None])
  BY <1>1 DEF Rollback, Remove, Undo, StoreDelete, Breaks
<1>4. alive[r] => Clear(x)  BY <1>1 DEF Tidy, ClearedBy
<1>5. Coherent' /\ Keeping
  <2>1. CASE db' = db  BY <1>2, <2>1, RestsCoherently DEF Tidy
  <2>2. CASE Recorded(x) /\ alive[r] /\ db' = [db EXCEPT ![x] = None]
    BY <1>2, <1>4, <2>2, ForgetsCoherently DEF Tidy
  <2>3. CASE ~Recorded(x) /\ db' = [db EXCEPT ![x] = None]
    <3>1. db' = db  BY <2>3 DEF Recorded, TypeOK
    <3>. QED  BY <2>1, <3>1
  <2>. QED  BY <1>3, <2>1, <2>2, <2>3
<1>6. \A y \in Id : Clear(y) => Clear(y)'  BY <1>2 DEF Clear, Provisioned
<1>7. ClearedBy(r)' /\ LateDeletions'  BY <1>2 DEF ClearedBy, Tidy, LateDeletions
<1>. QED  BY <1>5, <1>6, <1>7, TidyStep DEF Step

\* The requests rely on no more than before.
LEMMA ClearedStays ==
  ASSUME TypeOK, Tidy, \A y \in Id : Clear(y) => Clear(y)',
         \A r \in Req : \/ /\ pc'[r] = pc[r] /\ job'[r] = job[r]
                           /\ alive'[r] => alive[r]
                        \/ pc'[r] \in {"idle", "get", "policy"}
  PROVE  \A r \in Req : ClearedBy(r)'
<1>. SUFFICES ASSUME NEW r \in Req, pc'[r] = pc[r], job'[r] = job[r], alive'[r], alive[r]
              PROVE  ClearedBy(r)'
  BY DEF ClearedBy
<1>1. pc[r] = "remove" => job[r].id \in Id  BY Ids
<1>2. pc[r] \in {"provision", "rollback"} => job[r].new \in Id  BY Ids
<1>. QED  BY <1>1, <1>2 DEF Tidy, ClearedBy

\* A deletion whose caller is gone takes or queues an instance whose row stays:
\* one that nobody records is queued already.
LEMMA DeliverTidy ==
  ASSUME Orderly, TypeOK, Tidy, NEW c \in late, Deliver(c)
  PROVE  Tidy' /\ Keeping
<1>1. PICK x \in Id : x = c.id  BY DEF TypeOK, SprmCall
<1>2. c.op \in {"delete", "deferred"}  BY DEF TypeOK, SprmCall, Ops, Tidy, LateDeletions
<1>3. /\ UNCHANGED <<db, pc, job, alive>> /\ late' = late \ {c}
      /\ \E status \in Statuses : Serve(c, status)
  BY DEF Deliver
<1>4. LateDeletions'  BY <1>3 DEF Tidy, LateDeletions
<1>5. Coherent' /\ Keeping /\ \A y \in Id : Clear(y) => Clear(y)'
  <2>1. CASE UNCHANGED <<sprm, cleanup>>  BY <1>3, <2>1, RestsCoherently DEF Tidy
  <2>2. CASE Provisioned(x) /\ sprm' = [sprm EXCEPT ![x] = None] /\ cleanup' = cleanup \ {x}
    BY <1>3, <2>2, UnprovisionsCoherently DEF Tidy
  <2>3. CASE Provisioned(x) /\ sprm' = sprm /\ cleanup' = cleanup \cup {x}
    <3>1. CASE Recorded(x)  BY <1>3, <2>3, <3>1, EnqueuesCoherently DEF Tidy
    <3>2. CASE ~Recorded(x)
      <4>1. cleanup' = cleanup  BY <2>3, <3>2 DEF Tidy, Coherent, NoUntracked
      <4>. QED  BY <2>1, <2>3, <4>1
    <3>. QED  BY <3>1, <3>2
  <2>. QED  BY <1>1, <1>2, <1>3, <2>1, <2>2, <2>3, DeletionServed
<1>6. \A r \in Req : ClearedBy(r)'  BY <1>3, <1>5, ClearedStays
<1>. QED  BY <1>4, <1>5, <1>6 DEF Tidy

\* A process that stops leaves deletions under way, at most.
LEMMA CrashTidy ==
  ASSUME Orderly, TypeOK, Tidy, Crash
  PROVE  Tidy' /\ Keeping
<1>1. UNCHANGED <<db, sprm, cleanup>> /\ \A r \in Req : pc'[r] = "idle"  BY DEF Crash
<1>2. LateDeletions'
  BY Lingers DEF Crash, Orderly, Tidy, LateDeletions
<1>3. Coherent' /\ Keeping  BY <1>1, RestsCoherently DEF Tidy
<1>4. \A r \in Req : ClearedBy(r)'  BY <1>1 DEF ClearedBy
<1>. QED  BY <1>2, <1>3, <1>4 DEF Tidy

LEMMA NextTidy ==
  ASSUME Orderly, Patient, TypeOK, Apart, Found, Tidy, [Next]_vars
  PROVE  Tidy' /\ Keeping
<1>1. ASSUME NEW r \in Req, Step(r) PROVE Tidy' /\ Keeping
  BY <1>1, QuietTidy, InsertTidy, ProvisionTidy, DeletionTidy, RemovalTidy DEF Step
<1>2. ASSUME UNCHANGED <<db, sprm, cleanup, late>>,
             \A r \in Req : \/ /\ pc'[r] = pc[r] /\ job'[r] = job[r]
                               /\ alive'[r] => alive[r]
                            \/ pc'[r] \in {"idle", "get", "policy"}
      PROVE  Tidy' /\ Keeping
  <2>1. Coherent' /\ Keeping /\ \A y \in Id : Clear(y) => Clear(y)'
    BY <1>2, RestsCoherently DEF Tidy
  <2>. QED  BY <1>2, <2>1, ClearedStays DEF Tidy, LateDeletions
<1>3. ASSUME NEW r \in Req, Submit(r) PROVE Tidy' /\ Keeping
  <2>1. PICK j, at : Occupies(r, j, at)  BY <1>3, Submission
  <2>2. \A q \in Req : \/ /\ pc'[q] = pc[q] /\ job'[q] = job[q]
                          /\ alive'[q] => alive[q]
                       \/ pc'[q] \in {"idle", "get", "policy"}
    BY <2>1 DEF Occupies, TypeOK
  <2>. QED  BY <1>2, <2>1, <2>2 DEF Occupies
<1>4. ASSUME NEW r \in Req, Cancel(r) PROVE Tidy' /\ Keeping
  BY <1>2, <1>4 DEF Cancel, TypeOK
<1>5. ASSUME NEW x \in Id, SprmCleanUp(x) PROVE Tidy' /\ Keeping
  <2>1. Provisioned(x) /\ sprm' = [sprm EXCEPT ![x] = None] /\ cleanup' = cleanup \ {x}
        /\ UNCHANGED <<db, late, pc, job, alive>>
    BY <1>5 DEF SprmCleanUp, CleanUp, Tidy, Coherent
  <2>2. Coherent' /\ Keeping /\ \A y \in Id : Clear(y) => Clear(y)'
    BY <2>1, UnprovisionsCoherently DEF Tidy
  <2>3. \A r \in Req : ClearedBy(r)'  BY <2>1, <2>2, ClearedStays
  <2>. QED  BY <2>1, <2>2, <2>3 DEF Tidy, LateDeletions
<1>6. CASE UNCHANGED vars  BY <1>2, <1>6 DEF vars
<1>. QED  BY <1>1, <1>3, <1>4, <1>5, <1>6, DeliverTidy, CrashTidy DEF Next

LEMMA AlwaysTidy ==
  ASSUME Orderly
  PROVE  Spec => [](Patient /\ TypeOK /\ Apart /\ Found /\ Tidy)
<1>1. Init => Tidy
  BY DEF Init, Tidy, Coherent, NoUntracked, RecordMatchesInstance, Recorded, Provisioned,
    LateDeletions, ClearedBy
<1>2. Patient /\ TypeOK /\ Apart /\ Found /\ Tidy /\ [Next]_vars => Tidy'  BY NextTidy
<1>3. Orderly => Exclusive  BY DEF Orderly
<1>4. Spec => [](TypeOK /\ Apart /\ Found)  BY <1>3, AlwaysFound
<1>5. Spec => []Patient
  <2>1. CASE "create" \notin Lingering
    <3>1. Patient  BY <2>1 DEF Patient
    <3>. QED  BY <3>1, PTL
  <2>2. CASE "create" \in Lingering
    <3>1. "cancel" \notin Faults  BY <2>2 DEF Orderly
    <3>2. Listening => Patient  BY DEF Patient
    <3>. QED  BY <3>1, <3>2, AlwaysListening, PTL
  <2>. QED  BY <2>1, <2>2
<1>. QED  BY <1>1, <1>2, <1>4, <1>5, PTL DEF Spec

(***************************************************************************)
(* Under orderly rehydration an instance without a record is queued for    *)
(* deletion, wherever clients disconnect, the process stops and the        *)
(* database fails, and whenever the deletions so cut off are executed.  A  *)
(* row goes only where its instance is gone or queued (ClearedBy): a       *)
(* rehydration deletes the old instance, at once or later, before it       *)
(* removes the row.  It is a theorem of clients that are exclusive, whose  *)
(* answers are not lost while they wait, of deferred deletions the SPRM    *)
(* does not refuse, and of creations that end with their caller (Orderly): *)
(* without any of these four an instance can stay that nobody will remove. *)
(***************************************************************************)
THEOREM NothingUntracked ==
  ASSUME Orderly
  PROVE  Spec => []NoUntracked
<1>1. Tidy => NoUntracked  BY DEF Tidy, Coherent
<1>. QED  BY <1>1, AlwaysTidy, PTL

(***************************************************************************)
(* In the same circumstances a record names the provider of its instance:  *)
(* the one the policies chose goes to the row and to the SPRM, and an      *)
(* instance left from an older use of the id is queued.                    *)
(***************************************************************************)
THEOREM RecordNamesProvider ==
  ASSUME Orderly
  PROVE  Spec => []RecordMatchesInstance
<1>1. Tidy => RecordMatchesInstance  BY DEF Tidy, Coherent
<1>. QED  BY <1>1, AlwaysTidy, PTL

(***************************************************************************)
(* In the same circumstances the steps of the service are steps of         *)
(* RecordProtocol, rehydrations included: the stores change one at a time, *)
(* a record before its instance, and never in an order it does not have.   *)
(***************************************************************************)
THEOREM RehydratesInProtocol ==
  ASSUME Orderly
  PROVE  Spec => KeepsToProtocol
<1>1. Init => Protocol!Init  BY InitKeeps
<1>2. Patient /\ TypeOK /\ Apart /\ Found /\ Tidy /\ [Next]_vars
        => [Protocol!Next]_(Protocol!protocolVars)
  BY NextTidy DEF Keeping
<1>. QED  BY <1>1, <1>2, AlwaysTidy, PTL DEF Spec, KeepsToProtocol

\* What a rollback leaves of the new id.
NothingLeft ==
  \A r \in Req : pc[r] = "rollback" /\ pc'[r] = "done" =>
    LET x == job[r].new IN db'[x] = None /\ (sprm'[x] = None \/ x \in cleanup')

(***************************************************************************)
(* In the same circumstances, and while the database works and no client   *)
(* disconnects, a request whose provisioning fails leaves neither its      *)
(* record nor an instance, whatever other requests do and wherever the     *)
(* process has stopped before: the rollback removes the row that was       *)
(* inserted, and the SPRM has refused the instance.                        *)
(***************************************************************************)
THEOREM FailureIsUndone ==
  ASSUME Orderly, "db" \notin Faults, "cancel" \notin Faults
  PROVE  Spec => FailureLeavesNothing
<1>1. ASSUME TypeOK, Tidy, Listening, [Next]_vars, NEW r \in Req,
             pc[r] = "rollback", pc'[r] = "done"
      PROVE  db'[job[r].new] = None /\ (sprm'[job[r].new] = None \/ job[r].new \in cleanup')
  <2>1. Step(r)  BY <1>1, OwnReply DEF Replies
  <2>2. Rollback(r)
    BY <1>1, <2>1 DEF Step, Get, Evaluate, Insert, Provision, Unprovision, Deferred, Remove, Reply
  <2>3. job[r].new \in Id  BY <1>1, Ids
  <2>4. alive[r] /\ \E err \in StoreError : StoreDelete(job[r].new, alive[r], err)
    BY <1>1, <2>2 DEF Rollback, Undo, Listening
  <2>5. db'[job[r].new] = None
    BY <1>1, <2>3, <2>4 DEF StoreDelete, Breaks, RowsAffected, TypeOK
  <2>6. Clear(job[r].new) /\ UNCHANGED <<sprm, cleanup>>
    BY <1>1, <2>2, <2>4 DEF Rollback, Tidy, ClearedBy
  <2>. QED  BY <2>5, <2>6 DEF Clear, Provisioned
<1>2. TypeOK /\ Tidy /\ Listening /\ [Next]_vars => [NothingLeft]_vars  BY <1>1 DEF NothingLeft
<1>. QED  BY <1>2, AlwaysTidy, AlwaysListening, PTL DEF Spec, FailureLeavesNothing, NothingLeft

-----------------------------------------------------------------------------
\* The same without faults: no request is cut off on the way, so that a record
\* without its instance is still in somebody's hands, and so is one whose
\* instance is queued.
Undistracted == Orderly /\ Faults = {}

InHand == \A x \in Id : Recorded(x) /\ Clear(x) => \E r \in Req : Holds(r, x)

\* Every call has its caller, who waits for the answer.
Heard == late = {} /\ Listening

LEMMA NextHeard ==
  ASSUME Undistracted, TypeOK, Heard, [Next]_vars
  PROVE  Heard'
<1>1. Listening'  BY NextListening DEF Undistracted, Heard
<1>2. ASSUME NEW r \in Req, NEW c, NEW status, Attempt(r, c, status)
      PROVE  late' = late
  BY <1>2 DEF Attempt, Unanswered, Undistracted, Heard, Listening
<1>3. ASSUME NEW r \in Req, Step(r) PROVE late' = late
  <2>1. CASE Provision(r) \/ Unprovision(r) \/ Deferred(r)
    BY <1>2, <2>1 DEF Provision, Unprovision, Deferred
  <2>2. CASE ~Provision(r) /\ ~Unprovision(r) /\ ~Deferred(r)
    BY <1>3, <2>2 DEF Step, Get, Evaluate, Insert, Rollback, Remove, Reply
  <2>. QED  BY <2>1, <2>2
<1>4. ASSUME NEW r \in Req, Submit(r) PROVE late' = late
  BY <1>4, Submission DEF Occupies
<1>5. ~Crash /\ ~ \E c \in late : Deliver(c)
  BY DEF Undistracted, Crash, Heard
<1>6. late' = late
  BY <1>3, <1>4, <1>5 DEF Next, Cancel, SprmCleanUp, vars
<1>. QED  BY <1>1, <1>6 DEF Heard

\* A step of r clears no row but one it holds, and abandons none.
LEMMA KeepsInHand ==
  ASSUME InHand, NEW r \in Req, OthersKept(r),
         \A y \in Id : Recorded(y)' /\ Clear(y)' =>
           \/ Holds(r, y)'
           \/ Recorded(y) /\ Clear(y) /\ ~Holds(r, y)
  PROVE  InHand'
  BY DEF InHand, Holds, OthersKept

LEMMA QuietInHand ==
  ASSUME TypeOK, InHand, NEW r \in Req, Submit(r) \/ Get(r) \/ Evaluate(r) \/ Reply(r)
  PROVE  InHand'
<1>1. UNCHANGED <<db, sprm, cleanup>> /\ pc[r] \in {"idle", "get", "policy", "done"} /\ OthersKept(r)
  <2>1. CASE Submit(r)
    <3>1. PICK j, at : Occupies(r, j, at)  BY <2>1, Submission
    <3>. QED  BY <3>1 DEF Occupies, OthersKept, TypeOK
  <2>2. CASE ~Submit(r)
    <3>1. OthersKept(r)  BY <2>2, OwnSlot DEF Step
    <3>. QED  BY <2>2, <3>1 DEF Get, StoreGet, Evaluate, Reply
  <2>. QED  BY <2>1, <2>2
<1>2. \A y \in Id : ~Holds(r, y)  BY <1>1 DEF Holds
<1>. QED  BY <1>1, <1>2, KeepsInHand DEF Recorded, Provisioned, Clear

\* Whoever inserts a row holds it until it is provisioned or taken back.
LEMMA InsertInHand ==
  ASSUME Undistracted, TypeOK, InHand, NEW r \in Req, Insert(r)
  PROVE  InHand'
<1>1. PICK x \in Id : x = job[r].new  BY Ids DEF Insert
<1>2. pc[r] = "insert" /\ UNCHANGED <<sprm, cleanup, job>> /\ OthersKept(r)
  BY OwnSlot DEF Insert, Step
<1>3. \/ db' = db
      \/ db' = [db EXCEPT ![x] = NewRow(job[r])] /\ pc'[r] = "provision"
  BY <1>1, Moves DEF Insert, StoreCreate, Breaks, Inserted, Undistracted, Nil
<1>4. \A y \in Id : ~Holds(r, y)  BY <1>2 DEF Holds
<1>5. \A y \in Id : Recorded(y)' => Recorded(y) \/ Holds(r, y)'
  BY <1>1, <1>2, <1>3 DEF Recorded, Holds, TypeOK
<1>6. \A y \in Id : Clear(y)' <=> Clear(y)  BY <1>2 DEF Clear, Provisioned
<1>. QED  BY <1>2, <1>4, <1>5, <1>6, KeepsInHand

LEMMA ProvisionInHand ==
  ASSUME Undistracted, TypeOK, Tidy, Heard, InHand, NEW r \in Req, Provision(r)
  PROVE  InHand'
<1>1. PICK x \in Id :
        /\ x = job[r].new /\ pc[r] = "provision" /\ UNCHANGED <<db, job, alive>>
        /\ job[r].eval \in ServiceSpec /\ job[r].prov \in Provider
        /\ ProvisionEnds(r, x)
  BY ProvisionOutcome DEF Undistracted, Patient, Heard
<1>2. OthersKept(r) /\ alive[r] /\ alive'[r]
  BY <1>1, OwnSlot DEF Step, Heard, Listening
<1>3. \A y \in Id : Holds(r, y) => y = x  BY <1>1 DEF Holds
<1>4. CASE /\ ~Provisioned(x) /\ cleanup' = cleanup
           /\ sprm' = [sprm EXCEPT ![x] = [spec |-> job[r].eval, prov |-> job[r].prov]]
  <2>1. [spec |-> job[r].eval, prov |-> job[r].prov] # None
    BY <1>1, NoneAssumption DEF Instance
  <2>2. x \notin cleanup  BY <1>4 DEF Tidy, Coherent
  <2>3. ~Clear(x)'  BY <1>4, <2>1, <2>2 DEF Clear, Provisioned, TypeOK
  <2>4. \A y \in Id : Clear(y)' => Clear(y) /\ y # x
    BY <1>4, <2>3 DEF Clear, Provisioned, TypeOK
  <2>. QED  BY <1>1, <1>2, <1>3, <2>4, KeepsInHand DEF Recorded
<1>5. CASE UNCHANGED <<sprm, cleanup>> /\ pc'[r] \in {"provision", "rollback"}
  <2>1. \A y \in Id : Holds(r, y) => Holds(r, y)'  BY <1>1, <1>2, <1>5 DEF Holds
  <2>2. \A y \in Id : Clear(y)' <=> Clear(y)  BY <1>5 DEF Clear, Provisioned
  <2>. QED  BY <1>1, <1>2, <2>1, <2>2, KeepsInHand DEF Recorded
<1>. QED  BY <1>1, <1>2, <1>4, <1>5 DEF ProvisionEnds

\* Whoever deletes or queues an instance goes on to remove its row.
LEMMA DeletionInHand ==
  ASSUME Undistracted, TypeOK, Tidy, Heard, InHand, NEW r \in Req, Unprovision(r) \/ Deferred(r)
  PROVE  InHand'
<1>1. PICK x \in Id :
        /\ x = job[r].id /\ pc[r] \in {"unprovision", "deferred"}
        /\ UNCHANGED <<db, job, alive>> /\ DeletionEnds(r, x)
  BY DeletionOutcome DEF Undistracted, Patient, Heard
<1>2. OthersKept(r) /\ alive[r] /\ \A y \in Id : ~Holds(r, y)
  BY <1>1, OwnSlot DEF Step, Holds, Heard, Listening
<1>3. \A y \in Id : Clear(y)' => Clear(y) \/ Holds(r, y)'
  BY <1>1, <1>2 DEF DeletionEnds, Clear, Provisioned, Holds, TypeOK
<1>. QED  BY <1>1, <1>2, <1>3, KeepsInHand DEF Recorded

\* The database removes the row it is asked to, or has none.
LEMMA RemovalInHand ==
  ASSUME Undistracted, TypeOK, Heard, InHand, NEW r \in Req, Rollback(r) \/ Remove(r)
  PROVE  InHand'
<1>1. PICK x \in Id : /\ Rollback(r) => pc[r] = "rollback" /\ x = job[r].new
                      /\ Remove(r) => pc[r] = "remove" /\ x = job[r].id
  BY Ids DEF Rollback, Remove
<1>2. UNCHANGED <<sprm, cleanup>> /\ OthersKept(r)
  BY OwnSlot DEF Rollback, Remove, Step
<1>3. alive[r] /\ \E err \in StoreError : StoreDelete(x, alive[r], err)
  BY <1>1 DEF Rollback, Remove, Undo, Heard, Listening
<1>4. \A y \in Id : Recorded(y)' => Recorded(y) /\ y # x
  BY <1>3 DEF StoreDelete, Breaks, RowsAffected, Undistracted, Recorded, TypeOK
<1>5. \A y \in Id : Holds(r, y) => y = x  BY <1>1 DEF Holds, Rollback, Remove
<1>6. \A y \in Id : Clear(y)' <=> Clear(y)  BY <1>2 DEF Clear, Provisioned
<1>. QED  BY <1>2, <1>4, <1>5, <1>6, KeepsInHand

LEMMA NextInHand ==
  ASSUME Undistracted, TypeOK, Tidy, Heard, InHand, [Next]_vars
  PROVE  InHand'
<1>1. ASSUME NEW r \in Req, Submit(r) \/ Step(r) PROVE InHand'
  BY <1>1, QuietInHand, InsertInHand, ProvisionInHand, DeletionInHand, RemovalInHand DEF Step
<1>2. ASSUME NEW x \in Id, SprmCleanUp(x) PROVE InHand'
  <2>1. \A y \in Id : Clear(y)' => Clear(y)
    BY <1>2 DEF SprmCleanUp, CleanUp, Clear, Provisioned, TypeOK
  <2>2. UNCHANGED <<db, pc, job, alive>>  BY <1>2 DEF SprmCleanUp
  <2>. QED  BY <2>1, <2>2 DEF InHand, Recorded, Holds
<1>3. /\ ~Crash /\ ~ \E r \in Req : Cancel(r)
      /\ ~ \E c \in late : Deliver(c)
  BY DEF Undistracted, Crash, Cancel, Heard
<1>4. CASE UNCHANGED vars
  BY <1>4 DEF vars, InHand, Recorded, Clear, Provisioned, Holds
<1>. QED  BY <1>1, <1>2, <1>3, <1>4 DEF Next

(***************************************************************************)
(* Among exclusive clients and without faults, a record without its        *)
(* instance is some request's to finish, rehydrations included: the new    *)
(* row is provisioned or taken back, the old one goes once its instance is *)
(* deleted or queued, and the SPRM works its queue off under no record but *)
(* one that is going.                                                      *)
(***************************************************************************)
THEOREM NeverStaleByRehydration ==
  ASSUME Undistracted
  PROVE  Spec => []NoStaleRecord
<1>1. Init => InHand /\ Heard  BY DEF Init, InHand, Recorded, Heard, Listening
<1>2. InHand => NoStaleRecord  BY DEF InHand, NoStaleRecord, Clear
<1>3. TypeOK /\ Tidy /\ Heard /\ InHand /\ [Next]_vars => (InHand /\ Heard)'
  BY NextInHand, NextHeard
<1>4. Orderly  BY DEF Undistracted
<1>5. Spec => [](TypeOK /\ Tidy)  BY <1>4, AlwaysTidy, PTL
<1>. QED  BY <1>1, <1>2, <1>3, <1>5, PTL DEF Spec

-----------------------------------------------------------------------------
\* Records and catalog item instances, where nothing cuts a request off: SPRM
\* calls and answers may be lost, and the SPRM may refuse what it likes.
Uncut == Exclusive /\ Faults \subseteq {"loss"}

\* The records of a catalog item instance.
RowsOf(c) == {x \in Id : Recorded(x) /\ db[x].cat = c}

\* A request that places a catalog item instance knows all its records; before
\* the insertion there is at most the one to be replaced.
PlacesBy(r) ==
  job[r] # None =>
    /\ job[r].kind = "create" => job[r].id = None
    /\ job[r].cat # None => RowsOf(job[r].cat) \subseteq Uses(r)
    /\ pc[r] \in {"policy", "insert"} => RowsOf(job[r].cat) \subseteq {job[r].id}

\* One request places it at a time.
OnePlaces ==
  \A r, q \in Req : r # q /\ job[r] # None /\ job[q] # None /\ job[r].cat # None =>
    job[q].cat # job[r].cat

Placing == OnePlaces /\ (\A r \in Req : PlacesBy(r)) /\ (\A r \in Req : alive[r])

\* The requests that excuse two records.
Replaces(r) ==
  /\ job[r] # None /\ job[r].kind = "rehydrate"
  /\ pc[r] \in {"provision", "rollback", "deferred", "remove"}

\* Steps that insert nothing, while every request keeps to its item.
LEMMA PlacingKept ==
  ASSUME Placing, \A r \in Req : alive'[r],
         \A x \in Id : Recorded(x)' => Recorded(x) /\ db'[x] = db[x],
         \A q \in Req : \/ job'[q] = None
                        \/ /\ job[q] # None /\ job'[q].cat = job[q].cat
                           /\ job'[q].kind = job[q].kind
                           /\ job'[q].id = job[q].id /\ job'[q].new = job[q].new
                           /\ pc'[q] \in {"policy", "insert"} => pc[q] \in {"policy", "insert"}
  PROVE  Placing'
<1>1. \A c : RowsOf(c)' \subseteq RowsOf(c)  BY DEF RowsOf
<1>2. ASSUME NEW q \in Req PROVE PlacesBy(q)'
  <2>1. CASE job'[q] = None  BY <2>1 DEF PlacesBy
  <2>2. CASE job'[q] # None
    <3>1. Uses(q)' = Uses(q) /\ job'[q].cat = job[q].cat  BY <2>2 DEF Uses
    <3>. QED  BY <1>1, <2>2, <3>1 DEF Placing, PlacesBy
  <2>. QED  BY <2>1, <2>2
<1>3. OnePlaces'  BY DEF Placing, OnePlaces
<1>. QED  BY <1>2, <1>3 DEF Placing

\* Two records stay excused while the request that excuses them goes on, or
\* removes one of them.
LEMMA OneRecordKept ==
  ASSUME OneRecordPerItem, NEW r \in Req, OthersKept(r),
         \A x \in Id : Recorded(x)' => Recorded(x) /\ db'[x] = db[x],
         Replaces(r) =>
           \/ /\ Replaces(r)'
              /\ job'[r].id = job[r].id /\ job'[r].new = job[r].new
           \/ db'[job[r].id] = None
           \/ db'[job[r].new] = None
  PROVE  OneRecordPerItem'
<1>. SUFFICES ASSUME NEW x \in Id, NEW y \in Id, x # y, Recorded(x)', Recorded(y)',
                     db'[x].cat = db'[y].cat
              PROVE  \E q \in Req : Replaces(q)' /\ {job'[q].id, job'[q].new} = {x, y}
  BY DEF OneRecordPerItem, Replaces
<1>1. PICK q \in Req : Replaces(q) /\ {job[q].id, job[q].new} = {x, y}
  BY DEF OneRecordPerItem, Replaces
<1>2. CASE q = r  BY <1>1, <1>2 DEF Recorded
<1>3. CASE q # r  BY <1>1, <1>3 DEF OthersKept, Replaces
<1>. QED  BY <1>2, <1>3

\* A client that places an item does so once, and where it has no record.
LEMMA SubmitPlacing ==
  ASSUME Uncut, TypeOK, Placing, OneRecordPerItem, NEW r \in Req, Submit(r)
  PROVE  (Placing /\ OneRecordPerItem)'
<1>1. PICK j, at : Occupies(r, j, at)  BY Submission
<1>2. /\ db' = db /\ alive' = alive /\ pc[r] = "idle" /\ OthersKept(r)
      /\ job'[r] = j /\ pc'[r] = at
  BY <1>1 DEF Occupies, OthersKept, TypeOK
<1>3. ASSUME j.cat # None
      PROVE  /\ j.kind = "create" /\ j.id = None /\ RowsOf(j.cat) = {}
             /\ \A q \in Req : job[q] # None => job[q].cat # j.cat
  <2>1. j.kind = "create" /\ j.id = None /\ {j.cat} \ {None} = {j.cat}
    BY <1>1, <1>3 DEF Occupies
  <2>2. \A x \in Id : db[x] # None => db[x].cat # j.cat
    BY <1>1, <2>1 DEF Occupies, MaySubmit, Uncut
  <2>3. \A q \in Req : job[q] # None => job[q].cat # j.cat
    BY <1>1, <2>1 DEF Occupies, MaySubmit, Uncut
  <2>. QED  BY <2>1, <2>2, <2>3 DEF RowsOf, Recorded
<1>4. \A c : RowsOf(c)' = RowsOf(c)  BY <1>2 DEF RowsOf, Recorded
<1>5. PlacesBy(r)'
  <2>1. j.kind = "create" => j.id = None  BY <1>1 DEF Occupies
  <2>2. j.cat # None => RowsOf(j.cat)' = {}  BY <1>3, <1>4
  <2>3. at \in {"policy", "insert"} => j.cat # None
    <3>1. at = "policy" => j.kind = "create"  BY <1>1 DEF Occupies
    <3>2. TypeOK'  BY NextType DEF Next
    <3>3. pc'[r] = "policy" => job'[r].cat \in Cat  BY <3>2 DEF TypeOK, JobOK
    <3>. QED  BY <1>1, <1>2, <3>3, NoneAssumption DEF Occupies
  <2>. QED  BY <1>2, <2>1, <2>2, <2>3 DEF PlacesBy
<1>6. ASSUME NEW q \in Req \ {r} PROVE PlacesBy(q)'
  <2>1. job'[q] = job[q] /\ pc'[q] = pc[q] /\ Uses(q)' = Uses(q)  BY <1>2 DEF OthersKept, Uses
  <2>. QED  BY <1>4, <2>1 DEF Placing, PlacesBy
<1>7. OnePlaces'  BY <1>2, <1>3 DEF Placing, OnePlaces, OthersKept
<1>8. OneRecordPerItem'
  <2>1. ~Replaces(r)  BY <1>2 DEF Replaces
  <2>2. \A x \in Id : Recorded(x)' => Recorded(x) /\ db'[x] = db[x]  BY <1>2 DEF Recorded
  <2>. QED  BY <1>2, <2>1, <2>2, OneRecordKept
<1>. QED  BY <1>2, <1>5, <1>6, <1>7, <1>8 DEF Placing

\* A rehydration learns its item from a record no other request works on.
LEMMA GetPlacing ==
  ASSUME Uncut, TypeOK, Apart, Placing, OneRecordPerItem, NEW r \in Req, Get(r)
  PROVE  (Placing /\ OneRecordPerItem)'
<1>1. PICK x \in Id : x = job[r].id  BY Ids DEF Get
<1>2. /\ pc[r] = "get" /\ db' = db /\ alive' = alive /\ OthersKept(r) /\ x \in Uses(r)
      /\ job[r] \in Job /\ job[r] # None
      /\ job'[r] # None
      /\ job'[r].kind = job[r].kind /\ job'[r].id = job[r].id /\ job'[r].new = job[r].new
  <2>1. pc[r] = "get" /\ db' = db /\ alive' = alive  BY DEF Get, StoreGet
  <2>. QED  BY <1>1, <2>1, OwnSlot, Ids, BusySlot DEF Step
<1>3. OneRecordPerItem'
  <2>1. ~Replaces(r)  BY <1>2 DEF Replaces
  <2>2. \A y \in Id : Recorded(y)' => Recorded(y) /\ db'[y] = db[y]  BY <1>2 DEF Recorded
  <2>. QED  BY <1>2, <2>1, <2>2, OneRecordKept
<1>4. CASE job' = job /\ pc'[r] \in {"done", "unprovision"}
  <2>1. Placing'  BY <1>2, <1>4, PlacingKept DEF Placing, Recorded, OthersKept
  <2>. QED  BY <1>3, <2>1
<1>5. CASE Recorded(x) /\ job'[r].cat = db[x].cat
  <2>. DEFINE c == db[x].cat
  <2>1. c \in Cat /\ c # None /\ x \in RowsOf(c)
    BY <1>5, NoneAssumption DEF TypeOK, Row, Recorded, RowsOf
  <2>2. RowsOf(c) \subseteq {x}
    <3>. SUFFICES ASSUME NEW y \in RowsOf(c), y # x PROVE FALSE
      OBVIOUS
    <3>1. PICK q \in Req : /\ job[q] # None /\ {job[q].id, job[q].new} = {x, y}
                           /\ pc[q] \in {"provision", "rollback", "deferred", "remove"}
      BY <1>5 DEF OneRecordPerItem, RowsOf
    <3>2. q # r /\ x \in Uses(q)  BY <1>2, <3>1, Ids DEF Uses
    <3>. QED  BY <1>2, <3>2 DEF Apart
  <2>3. ASSUME NEW q \in Req \ {r}, job[q] # None PROVE job[q].cat # c
    BY <1>2, <2>1, <2>3 DEF Placing, PlacesBy, Apart
  <2>4. \A d : RowsOf(d)' = RowsOf(d)  BY <1>2 DEF RowsOf, Recorded
  <2>5. PlacesBy(r)'
    <3>1. Uses(r)' = Uses(r)  BY <1>2 DEF Uses
    <3>. QED  BY <1>1, <1>2, <1>5, <2>1, <2>2, <2>4, <3>1 DEF Placing, PlacesBy
  <2>6. ASSUME NEW q \in Req \ {r} PROVE PlacesBy(q)'
    <3>1. job'[q] = job[q] /\ pc'[q] = pc[q] /\ Uses(q)' = Uses(q)  BY <1>2 DEF OthersKept, Uses
    <3>. QED  BY <2>4, <3>1 DEF Placing, PlacesBy
  <2>7. OnePlaces'  BY <1>2, <1>5, <2>3 DEF Placing, OnePlaces, OthersKept
  <2>. QED  BY <1>2, <1>3, <2>5, <2>6, <2>7 DEF Placing
<1>. QED
  <2>1. \/ job' = job /\ pc'[r] \in {"done", "unprovision"}
        \/ Recorded(x) /\ job' = [job EXCEPT ![r].cat = db[x].cat, ![r].spec = db[x].spec]
    <3>1. \/ job' = job /\ \E code : Answer(r, code, "done") \/ Go(r, "unprovision")
          \/ Recorded(x) /\ job' = [job EXCEPT ![r].cat = db[x].cat, ![r].spec = db[x].spec]
      BY <1>1 DEF Get, StoreGet, Finish, Recorded, Nil
    <3>. QED  BY <3>1, Moves
  <2>2. job \in [Req -> Job \cup {None}]  BY DEF TypeOK
  <2>. QED  BY <1>2, <1>4, <1>5, <2>1, <2>2 DEF Job

\* The new row is the item's first, or the second one of a rehydration.
LEMMA InsertPlacing ==
  ASSUME Uncut, TypeOK, Apart, Placing, OneRecordPerItem, NEW r \in Req, Insert(r)
  PROVE  (Placing /\ OneRecordPerItem)'
<1>1. PICK x \in Id : x = job[r].new  BY Ids DEF Insert
<1>2. /\ pc[r] = "insert" /\ job' = job /\ alive' = alive /\ OthersKept(r) /\ job[r] # None
      /\ x \in Uses(r) /\ job[r].kind \in {"create", "rehydrate"} /\ job[r].cat \in Cat
      /\ NewRow(job[r]) \in Row /\ NewRow(job[r]).cat = job[r].cat
  <2>1. pc[r] = "insert" /\ job' = job /\ alive' = alive  BY DEF Insert
  <2>2. job[r].cat \in Cat /\ NewRow(job[r]) \in Row /\ NewRow(job[r]).cat = job[r].cat
    BY <2>1, BusySlot DEF JobOK, NewRow, Row
  <2>. QED  BY <1>1, <2>1, <2>2, OwnSlot, Ids DEF Step
<1>3. \/ db' = db /\ pc'[r] = "done"
      \/ ~Recorded(x) /\ db' = [db EXCEPT ![x] = NewRow(job[r])] /\ pc'[r] = "provision"
  <2>1. PICK err \in StoreError :
          StoreCreate(x, NewRow(job[r]), alive[r], err) /\ Inserted(r, err)
    BY <1>1 DEF Insert
  <2>2. alive[r] /\ "db" \notin Faults  BY DEF Placing, Uncut
  <2>3. CASE err = Nil
    BY <2>1, <2>3, Moves DEF StoreCreate, Inserted, Recorded, Nil
  <2>4. CASE err # Nil
    BY <2>1, <2>2, <2>4, Moves DEF StoreCreate, Breaks, Inserted, Finish, Nil
  <2>. QED  BY <2>3, <2>4
<1>4. CASE db' = db /\ pc'[r] = "done"
  <2>1. Placing'  BY <1>2, <1>4, PlacingKept DEF Placing, Recorded, OthersKept
  <2>2. OneRecordPerItem'
    <3>1. ~Replaces(r)  BY <1>2 DEF Replaces
    <3>. QED  BY <1>2, <1>4, <3>1, OneRecordKept DEF Recorded
  <2>. QED  BY <2>1, <2>2
<1>5. CASE ~Recorded(x) /\ db' = [db EXCEPT ![x] = NewRow(job[r])] /\ pc'[r] = "provision"
  <2>. DEFINE c == job[r].cat
  <2>1. c # None /\ NewRow(job[r]) # None  BY <1>2, NoneAssumption
  <2>2. /\ db'[x] = NewRow(job[r]) /\ Recorded(x)'
        /\ \A y \in Id \ {x} : db'[y] = db[y] /\ (Recorded(y)' <=> Recorded(y))
    BY <1>5, <2>1 DEF TypeOK, Recorded
  <2>3. RowsOf(c)' = RowsOf(c) \cup {x}  BY <1>2, <1>5, <2>2 DEF RowsOf
  <2>4. \A d : d # c => RowsOf(d)' = RowsOf(d)  BY <1>2, <1>5, <2>2 DEF RowsOf
  <2>5. RowsOf(c) \subseteq {job[r].id}  BY <1>2 DEF Placing, PlacesBy
  <2>6. \A q \in Req : Uses(q)' = Uses(q)  BY <1>2 DEF Uses
  <2>7. PlacesBy(r)'  BY <1>2, <1>5, <2>1, <2>3, <2>6 DEF Placing, PlacesBy
  <2>8. ASSUME NEW q \in Req \ {r} PROVE PlacesBy(q)'
    <3>1. CASE job[q] = None  BY <1>2, <3>1 DEF PlacesBy
    <3>2. CASE job[q] # None
      <4>1. job[q].cat # c  BY <1>2, <2>1, <3>2 DEF Placing, OnePlaces
      <4>2. RowsOf(job[q].cat)' = RowsOf(job[q].cat)
        BY <1>2, <2>4, <4>1 DEF RowsOf
      <4>. QED  BY <1>2, <2>6, <4>2 DEF Placing, PlacesBy, OthersKept
    <3>. QED  BY <3>1, <3>2
  <2>9. OnePlaces'  BY <1>2 DEF Placing, OnePlaces
  <2>10. OneRecordPerItem'
    <3>. SUFFICES ASSUME NEW y \in Id, NEW z \in Id, y # z, Recorded(y)', Recorded(z)',
                         db'[y].cat = db'[z].cat
                  PROVE  \E q \in Req : Replaces(q)' /\ {job'[q].id, job'[q].new} = {y, z}
      BY DEF OneRecordPerItem, Replaces
    <3>1. CASE x \notin {y, z}
      <4>1. PICK q \in Req : Replaces(q) /\ {job[q].id, job[q].new} = {y, z}
        BY <2>2, <3>1 DEF OneRecordPerItem, Replaces
      <4>2. q # r  BY <1>2, <4>1 DEF Replaces
      <4>. QED  BY <4>1, <4>2, <1>2 DEF Replaces, OthersKept
    <3>2. CASE x \in {y, z}
      <4>1. PICK w \in Id : w # x /\ {y, z} = {w, x} /\ Recorded(w) /\ db[w].cat = c
        BY <1>2, <2>2, <3>2
      <4>2. w = job[r].id  BY <2>5, <4>1 DEF RowsOf
      <4>3. job[r].kind = "rehydrate"
        BY <1>2, <4>2, NoneAssumption DEF Placing, PlacesBy
      <4>. QED  BY <1>1, <1>2, <1>5, <4>1, <4>2, <4>3 DEF Replaces
    <3>. QED  BY <3>1, <3>2
  <2>. QED  BY <1>2, <2>7, <2>8, <2>9, <2>10 DEF Placing
<1>. QED  BY <1>3, <1>4, <1>5

\* The other steps change no row, or remove one of the request's.
LEMMA OtherPlacing ==
  ASSUME Uncut, TypeOK, Placing, OneRecordPerItem, NEW r \in Req,
         \/ Evaluate(r) \/ Provision(r) \/ Rollback(r)
         \/ Unprovision(r) \/ Deferred(r) \/ Remove(r) \/ Reply(r)
  PROVE  (Placing /\ OneRecordPerItem)'
<1>1. Step(r) /\ alive[r] /\ "db" \notin Faults  BY DEF Step, Placing, Uncut
<1>2. /\ OthersKept(r) /\ job[r] # None
      /\ \/ job'[r] = None
         \/ job'[r].kind = job[r].kind /\ job'[r].id = job[r].id /\ job'[r].new = job[r].new
  BY <1>1, OwnSlot, BusySlot
<1>3. \A x \in Id : Recorded(x)' => Recorded(x) /\ db'[x] = db[x]
  <2>1. ~Insert(r) \/ db' = db
    BY DEF Insert, Evaluate, Provision, Rollback, Unprovision, Deferred, Remove, Reply
  <2>2. pc[r] # "insert"
    BY DEF Evaluate, Provision, Rollback, Unprovision, Deferred, Remove, Reply
  <2>. QED  BY <1>1, <2>2, OwnRows DEF Recorded, TypeOK
<1>4. /\ job'[r] = None \/ job'[r].cat = job[r].cat
      /\ pc'[r] \in {"policy", "insert"} => pc[r] \in {"policy", "insert"}
  <2>1. CASE Evaluate(r)
    <3>1. job[r] \in Job /\ job \in [Req -> Job \cup {None}]
      BY <2>1, BusySlot DEF Evaluate, TypeOK
    <3>2. \/ job' = job
          \/ \E p \in Provider, e \in ServiceSpec : job' = [job EXCEPT ![r].prov = p, ![r].eval = e]
      BY <2>1 DEF Evaluate
    <3>3. job'[r].cat = job[r].cat  BY <3>1, <3>2 DEF Job
    <3>. QED  BY <2>1, <3>3 DEF Evaluate
  <2>2. CASE Reply(r)  BY <2>2 DEF Reply, TypeOK
  <2>3. CASE Rollback(r) \/ Remove(r)
    BY <2>3, Moves DEF Rollback, Remove, Finish
  <2>4. CASE Provision(r) \/ Unprovision(r) \/ Deferred(r)
    <3>1. \/ TryAgain(r)
          \/ \E code, at : at \in {"done", "rollback"} /\ Answer(r, code, at)
          \/ \E at : at \in {"deferred", "remove"} /\ Go(r, at)
      <4>1. CASE Provision(r)  BY <4>1 DEF Provision, Finish, FailUnprovisioned
      <4>2. CASE Unprovision(r)  BY <4>2 DEF Unprovision, Finish, NotUnprovisioned
      <4>3. CASE Deferred(r)  BY <4>3 DEF Deferred, Replaced
      <4>. QED  BY <2>4, <4>1, <4>2, <4>3
    <3>2. pc'[r] \in {pc[r], "done", "rollback", "deferred", "remove"}
      BY <3>1, Moves DEF TryAgain
    <3>3. job' = job  BY <2>4 DEF Provision, Unprovision, Deferred
    <3>. QED  BY <3>2, <3>3
  <2>. QED  BY <2>1, <2>2, <2>3, <2>4
<1>5. \A q \in Req : alive'[q]
  <2>1. CASE Reply(r)  BY <2>1 DEF Placing, Reply, TypeOK
  <2>2. CASE ~Reply(r)
    <3>1. alive' = alive  BY <2>2 DEF Evaluate, Provision, Rollback, Unprovision, Deferred, Remove
    <3>. QED  BY <3>1 DEF Placing
  <2>. QED  BY <2>1, <2>2
<1>6. Placing'  BY <1>2, <1>3, <1>4, <1>5, PlacingKept DEF OthersKept
<1>7. ASSUME Replaces(r)
      PROVE  \/ Replaces(r)' /\ job'[r].id = job[r].id /\ job'[r].new = job[r].new
             \/ db'[job[r].id] = None
             \/ db'[job[r].new] = None
  <2>0. job[r].id \in Id /\ job[r].new \in Id  BY <1>7, BusySlot DEF JobOK, Replaces
  <2>1. CASE Rollback(r)
    <3>1. \E err \in StoreError : StoreDelete(job[r].new, TRUE, err)
      BY <1>1, <2>1 DEF Rollback, Undo
    <3>2. db'[job[r].new] = None
      BY <1>1, <2>0, <3>1 DEF StoreDelete, Breaks, RowsAffected, TypeOK
    <3>. QED  BY <3>2
  <2>2. CASE Remove(r)
    <3>1. \E err \in StoreError : StoreDelete(job[r].id, TRUE, err)
      BY <1>1, <2>2 DEF Remove
    <3>2. db'[job[r].id] = None
      BY <1>1, <2>0, <3>1 DEF StoreDelete, Breaks, RowsAffected, TypeOK
    <3>. QED  BY <3>2
  <2>3. CASE Provision(r) \/ Deferred(r)
    <3>1. /\ job' = job /\ pc[r] \in {"provision", "deferred"}
          /\ \/ TryAgain(r)
             \/ \E code : Answer(r, code, "rollback")
             \/ \E at : at \in {"deferred", "remove"} /\ Go(r, at)
      <4>1. CASE Provision(r)
        BY <1>7, <4>1 DEF Provision, FailUnprovisioned, Replaces
      <4>2. CASE Deferred(r)  BY <4>2 DEF Deferred, Replaced
      <4>. QED  BY <2>3, <4>1, <4>2
    <3>2. pc'[r] \in {"provision", "rollback", "deferred", "remove"}
      BY <3>1, Moves DEF TryAgain
    <3>. QED  BY <1>7, <3>1, <3>2 DEF Replaces
  <2>4. ~Evaluate(r) /\ ~Reply(r)  BY <1>7 DEF Replaces, Evaluate, Reply
  <2>5. ~Unprovision(r)  BY <1>7, Ids DEF Unprovision, Replaces
  <2>. QED  BY <2>1, <2>2, <2>3, <2>4, <2>5
<1>8. OneRecordPerItem'  BY <1>2, <1>3, <1>7, OneRecordKept
<1>. QED  BY <1>6, <1>8

LEMMA NextPlacing ==
  ASSUME Uncut, TypeOK, Apart, Placing, OneRecordPerItem, [Next]_vars
  PROVE  (Placing /\ OneRecordPerItem)'
<1>1. ASSUME NEW r \in Req, Submit(r) \/ Step(r) PROVE (Placing /\ OneRecordPerItem)'
  BY <1>1, SubmitPlacing, GetPlacing, InsertPlacing, OtherPlacing DEF Step
<1>2. ~Crash /\ (\A r \in Req : ~Cancel(r))  BY DEF Uncut, Crash, Cancel
<1>3. ASSUME db' = db, pc' = pc, job' = job, alive' = alive
      PROVE  (Placing /\ OneRecordPerItem)'
  <2>1. OneRecordPerItem'  BY <1>3 DEF OneRecordPerItem, Recorded
  <2>2. Placing'
    BY <1>3 DEF Placing, OnePlaces, PlacesBy, RowsOf, Recorded, Uses
  <2>. QED  BY <2>1, <2>2
<1>4. CASE \/ \E c \in late : Deliver(c)
           \/ \E x \in Id : SprmCleanUp(x)
           \/ UNCHANGED vars
  BY <1>3, <1>4 DEF Deliver, SprmCleanUp, vars
<1>. QED  BY <1>1, <1>2, <1>4 DEF Next

\* Among clients that place a catalog item instance once at a time, no instance
\* has two records, but the old and the new one of a rehydration under way,
\* whatever the SPRM answers and however many of its answers are lost.
THEOREM OneRecordEach ==
  ASSUME Uncut
  PROVE  Spec => []OneRecordPerItem
<1>1. Exclusive  BY DEF Uncut
<1>2. Init => Placing /\ OneRecordPerItem
  BY DEF Init, Placing, OnePlaces, PlacesBy, OneRecordPerItem, Recorded
<1>3. TypeOK /\ Apart /\ Placing /\ OneRecordPerItem /\ [Next]_vars
        => (Placing /\ OneRecordPerItem)'
  BY NextPlacing
<1>4. Spec => [](TypeOK /\ Apart)  BY <1>1, AlwaysFound, PTL
<1>. QED  BY <1>2, <1>3, <1>4, PTL DEF Spec
=============================================================================
