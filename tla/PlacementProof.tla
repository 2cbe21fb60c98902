---------------------------- MODULE PlacementProof ----------------------------
(***************************************************************************)
(* What of PlacementProperties holds for every value of the constants and  *)
(* under every fault: types, what a record says (OriginalSpec), and which  *)
(* deletion may report that it removed one (DeletedByItself).              *)
(***************************************************************************)
EXTENDS PlacementProperties, TLAPS

\* Type correctness, in two parts: the stores around the service ...
StoresOK ==
  /\ db \in [Id -> Row \cup {None}]
  /\ sprm \in [Id -> Instance \cup {None}]
  /\ cleanup \subseteq Id
  /\ late \subseteq SprmCall
  /\ minted \subseteq Id \ UserId

\* ... and the slot of one request.
SlotOK(r) == IF pc[r] = "idle" THEN job[r] = None /\ resp[r] = None
                               ELSE job[r] # None /\ JobOK(r)

SlotsOK ==
  /\ pc \in [Req -> PC]
  /\ job \in [Req -> Job \cup {None}]
  /\ tries \in [Req -> 0..(MaxTries - 1)]
  /\ alive \in [Req -> BOOLEAN]
  /\ resp \in [Req -> ErrorCode \cup {"OK", None}]
  /\ \A r \in Req : SlotOK(r)

LEMMA TypeParts == TypeOK <=> StoresOK /\ SlotsOK
  BY DEF TypeOK, StoresOK, SlotsOK, SlotOK

-----------------------------------------------------------------------------
\* The calls keep the types of the stores.

LEMMA CreateType ==
  ASSUME StoresOK, NEW x \in Id, NEW row \in Row, NEW ctx, NEW err, StoreCreate(x, row, ctx, err)
  PROVE  db' \in [Id -> Row \cup {None}]
  BY DEF StoresOK, StoreCreate, Breaks

LEMMA DeleteType ==
  ASSUME StoresOK, NEW x \in Id, NEW ctx, NEW err, StoreDelete(x, ctx, err)
  PROVE  db' \in [Id -> Row \cup {None}]
  BY DEF StoresOK, StoreDelete, Breaks

LEMMA ServeType ==
  ASSUME StoresOK, NEW c \in SprmCall, NEW status, Serve(c, status)
  PROVE  sprm' \in [Id -> Instance \cup {None}] /\ cleanup' \subseteq Id
  BY DEF StoresOK, SprmCall, Serve

\* What is sent stays under way at most, and what is under way stays so.
LEMMA Lingers ==
  ASSUME NEW calls, MayLinger(calls)
  PROVE  /\ late \subseteq late'
         /\ late' \subseteq late \cup {c \in calls : c.op \in Lingering}
  BY DEF MayLinger

LEMMA AttemptType ==
  ASSUME StoresOK, NEW r \in Req, NEW c \in SprmCall, NEW status, Attempt(r, c, status)
  PROVE  /\ sprm' \in [Id -> Instance \cup {None}] /\ cleanup' \subseteq Id
         /\ late' \subseteq SprmCall
<1>1. CASE alive[r] /\ Serve(c, status) /\ late' = late
  BY <1>1, ServeType DEF StoresOK
<1>2. CASE late' = late /\ \E unheard \in Answers : Serve(c, unheard)
  BY <1>2, ServeType DEF StoresOK
<1>3. CASE MayLinger({c}) /\ UNCHANGED <<sprm, cleanup>>
  BY <1>3, Lingers DEF StoresOK
<1>4. QED
  BY <1>1, <1>2, <1>3 DEF Attempt

LEMMA CodeType ==
  ASSUME NEW status
  PROVE  HandlePolicyError(status) \in ErrorCode /\ HandleSPRMError(status) \in ErrorCode
  BY DEF HandlePolicyError, HandleSPRMError, ErrorCode

-----------------------------------------------------------------------------
\* A step of r that leaves the other slots alone keeps their types.

SlotTypes ==
  /\ pc \in [Req -> PC]
  /\ job \in [Req -> Job \cup {None}]
  /\ tries \in [Req -> 0..(MaxTries - 1)]
  /\ alive \in [Req -> BOOLEAN]
  /\ resp \in [Req -> ErrorCode \cup {"OK", None}]

LEMMA SlotStep ==
  ASSUME SlotsOK, NEW r \in Req, SlotTypes', SlotOK(r)',
         \A q \in Req \ {r} : pc'[q] = pc[q] /\ job'[q] = job[q] /\ resp'[q] = resp[q]
  PROVE  SlotsOK'
<1>1. ASSUME NEW q \in Req, q # r PROVE SlotOK(q)'
  BY <1>1 DEF SlotsOK, SlotOK, JobOK
<1>2. QED
  BY <1>1 DEF SlotsOK, SlotTypes

-----------------------------------------------------------------------------
\* A request moves on with its own slot; Finish and Go are its two ways.

LEMMA InitType == Init => TypeOK
  BY BoundAssumption DEF Init, TypeOK, PC

LEMMA BeginType ==
  ASSUME TypeOK, NEW r \in Req, NEW j \in Job, NEW at \in {"get", "policy"},
         Begin(r, j, at), minted' \subseteq Id \ UserId,
         at \in PCOf[j.kind],
         j.kind # "create" => j.id \in Id,
         j.kind \in {"create", "rehydrate"} => j.new \in Id,
         at = "policy" => j.cat \in Cat /\ j.spec \in ServiceSpec
  PROVE  TypeOK'
<1> USE TypeParts
<1>1. SlotOK(r)'
  BY NoneAssumption DEF Begin, Go, SlotsOK, SlotOK, JobOK
<1>2. StoresOK'
  BY DEF Begin, StoresOK
<1>3. SlotTypes'
  BY BoundAssumption DEF SlotTypes, PC, SlotsOK, Begin, Go
<1>4. SlotsOK'
  BY <1>1, <1>3, SlotStep DEF Begin, Go, SlotsOK
<1>5. QED
  BY <1>2, <1>4 DEF TypeOK, StoresOK, SlotsOK, SlotOK

LEMMA SubmitType ==
  ASSUME TypeOK, NEW r \in Req, Submit(r)
  PROVE  TypeOK'
<1>1. CASE SubmitCreate(r)
  <2>1. PICK x \in Id, c \in Cat :
           NewId(x) /\ Begin(r, Asked("create", None, x, c, OrigSpec[c]), "policy")
    BY <1>1 DEF SubmitCreate
  <2>2. Asked("create", None, x, c, OrigSpec[c]) \in Job
    BY <2>1, SpecAssumption DEF Begin, Asked, Job
  <2>3. minted' \subseteq Id \ UserId
    BY <2>1 DEF NewId, TypeOK
  <2>4. QED
    BY <2>1, <2>2, <2>3, BeginType, SpecAssumption DEF Asked, PCOf
<1>2. CASE SubmitById(r)
  <2>1. PICK kind \in {"get", "delete"}, x \in Id :
           Begin(r, Asked(kind, x, None, None, None), "get") /\ minted' = minted
    BY <1>2 DEF SubmitById
  <2>2. Asked(kind, x, None, None, None) \in Job
    BY <2>1 DEF Begin, Asked, Job
  <2>3. QED
    BY <2>1, <2>2, BeginType DEF Asked, PCOf, TypeOK
<1>3. CASE SubmitRehydrate(r)
  <2>1. PICK x \in Id, y \in Id :
           NewId(y) /\ Begin(r, Asked("rehydrate", x, y, None, None), "get")
    BY <1>3 DEF SubmitRehydrate
  <2>2. Asked("rehydrate", x, y, None, None) \in Job
    BY <2>1 DEF Begin, Asked, Job
  <2>3. minted' \subseteq Id \ UserId
    BY <2>1 DEF NewId, TypeOK
  <2>4. QED
    BY <2>1, <2>2, <2>3, BeginType DEF Asked, PCOf
<1>4. QED
  BY <1>1, <1>2, <1>3 DEF Submit

LEMMA ReplyType ==
  ASSUME TypeOK, NEW r \in Req, Reply(r)
  PROVE  TypeOK'
<1> USE TypeParts DEF Reply
<1>1. StoresOK' BY DEF StoresOK
<1>2. SlotTypes' BY DEF SlotsOK, SlotTypes, PC
<1>3. SlotOK(r)' BY DEF SlotsOK, SlotOK
<1>4. SlotsOK' BY <1>2, <1>3, SlotStep DEF SlotsOK
<1>5. QED BY <1>1, <1>4 DEF TypeOK, StoresOK, SlotsOK, SlotOK

LEMMA CancelType ==
  ASSUME TypeOK, NEW r \in Req, Cancel(r)
  PROVE  TypeOK'
<1> USE TypeParts DEF Cancel
<1>1. StoresOK' BY DEF StoresOK
<1>2. SlotTypes' BY DEF SlotsOK, SlotTypes
<1>3. SlotOK(r)' BY DEF SlotsOK, SlotOK, JobOK
<1>4. SlotsOK' BY <1>2, <1>3, SlotStep DEF SlotsOK
<1>5. QED BY <1>1, <1>4 DEF TypeOK, StoresOK, SlotsOK, SlotOK

\* What a busy slot knows, by the kind of its request.
LEMMA BusySlot ==
  ASSUME TypeOK, NEW r \in Req, pc[r] # "idle"
  PROVE  /\ job[r] \in Job /\ job[r] # None /\ JobOK(r)
         /\ job[r].kind \in AllKinds
         /\ PCOf[job[r].kind] \subseteq PC
         /\ pc[r] \in {"rollback", "done"} => resp[r] \in ErrorCode \cup {"OK"}
  BY KindAssumption DEF TypeOK, Job, JobOK, PCOf, AllKinds, PC

\* What an unfinished handler at a place knows of its job.
Knows(j, at) ==
  /\ at \in {"policy", "insert", "provision", "rollback"} => j.cat \in Cat /\ j.spec \in ServiceSpec
  /\ at \in {"insert", "provision", "rollback"} => j.prov \in Provider /\ j.eval \in ServiceSpec

\* Going on keeps the type of the slot ...
LEMMA GoType ==
  ASSUME TypeOK, NEW r \in Req, pc[r] \notin {"idle", "rollback", "done"},
         NEW at \in PC \ {"idle", "rollback", "done"}, Go(r, at),
         NEW j \in Job, job' = [job EXCEPT ![r] = j], alive' = alive,
         at \in PCOf[j.kind], Knows(j, at),
         j.kind = job[r].kind, j.id = job[r].id, j.new = job[r].new
  PROVE  SlotsOK'
<1> USE TypeParts, BusySlot
<1>1. SlotTypes' BY BoundAssumption DEF SlotsOK, SlotTypes, Go
<1>2. job'[r] = j /\ pc'[r] = at /\ resp'[r] = resp[r] BY DEF SlotsOK, Go
<1>3. resp[r] = None BY DEF SlotsOK, SlotOK, JobOK
<1>4. SlotOK(r)' BY <1>2, <1>3, NoneAssumption DEF SlotOK, JobOK, Knows
<1>5. QED BY <1>1, <1>4, SlotStep DEF SlotsOK, Go

\* ... and so does giving an answer.
LEMMA AnswerType ==
  ASSUME TypeOK, NEW r \in Req, pc[r] # "idle",
         NEW at \in {"rollback", "done"}, NEW code \in ErrorCode \cup {"OK"}, Answer(r, code, at),
         job' = job, alive' = alive,
         at \in PCOf[job[r].kind], at = "rollback" => Knows(job[r], at)
  PROVE  SlotsOK'
<1> USE TypeParts, BusySlot
<1>1. SlotTypes' BY BoundAssumption DEF SlotsOK, SlotTypes, Answer, PC
<1>2. job'[r] = job[r] /\ pc'[r] = at /\ resp'[r] = code BY DEF SlotsOK, Answer
<1>3. SlotOK(r)' BY <1>2, NoneAssumption DEF SlotOK, JobOK, Knows
<1>4. QED BY <1>1, <1>3, SlotStep DEF SlotsOK, Answer

\* A failed attempt leaves everything but its number.
LEMMA TryAgainType ==
  ASSUME TypeOK, NEW r \in Req, NEW status, Retries(r, status), TryAgain(r), job' = job, alive' = alive
  PROVE  SlotsOK'
<1> USE TypeParts
<1>1. tries[r] \in Nat /\ tries[r] + 1 \in 0..(MaxTries - 1)
  BY BoundAssumption DEF SlotsOK, Retries
<1>2. SlotTypes' BY <1>1 DEF SlotsOK, SlotTypes, TryAgain
<1>3. SlotOK(r)' BY DEF SlotsOK, SlotOK, JobOK, TryAgain
<1>4. QED BY <1>2, <1>3, SlotStep DEF SlotsOK, TryAgain

LEMMA BothParts == ASSUME StoresOK', SlotsOK' PROVE TypeOK'
  BY DEF TypeOK, StoresOK, SlotsOK, SlotOK

LEMMA GetType ==
  ASSUME TypeOK, NEW r \in Req, Get(r)
  PROVE  TypeOK'
<1> USE TypeParts DEF Get
<1>1. job[r] \in Job /\ job[r].id \in Id /\ job[r].kind \in AllKinds /\ pc[r] = "get"
  BY BusySlot DEF JobOK, PCOf
<1>2. StoresOK' /\ alive' = alive BY DEF StoresOK, StoreGet
<1>3. PICK err \in StoreError : StoreGet(job[r].id, alive[r], err) /\
        (\/ err = Nil /\ job[r].kind = "get" /\ Finish(r, "OK") /\ job' = job
         \/ err = Nil /\ job[r].kind = "delete" /\ Go(r, "unprovision") /\ job' = job
         \/ /\ err = Nil /\ job[r].kind = "rehydrate" /\ Go(r, "policy")
            /\ job' = [job EXCEPT ![r].cat = db[job[r].id].cat, ![r].spec = db[job[r].id].spec]
         \/ err = "ErrResourceNotFound" /\ Finish(r, "NOT_FOUND") /\ job' = job
         \/ err = "error" /\ Finish(r, "INTERNAL_ERROR") /\ job' = job)
  OBVIOUS
<1>4. CASE \E code \in {"OK", "NOT_FOUND", "INTERNAL_ERROR"} :
             Finish(r, code) /\ (code = "OK" => job[r].kind = "get") /\ job' = job
  <2>1. "done" \in PCOf[job[r].kind]
    BY <1>1, BusySlot DEF JobOK, PCOf, AllKinds
  <2>2. SlotsOK' BY <1>1, <1>4, <2>1, AnswerType DEF Finish, ErrorCode
  <2>3. QED BY <1>2, <2>2, BothParts
<1>5. CASE job[r].kind = "delete" /\ Go(r, "unprovision") /\ job' = job
  <2>1. job' = [job EXCEPT ![r] = job[r]] BY <1>5 DEF SlotsOK
  <2>2. /\ "unprovision" \in PC \ {"idle", "rollback", "done"}
        /\ "unprovision" \in PCOf[job[r].kind] /\ Knows(job[r], "unprovision")
    BY <1>5 DEF PC, PCOf, Knows
  <2> HIDE DEF Get
  <2>3. SlotsOK' BY <1>1, <1>2, <1>5, <2>1, <2>2, GoType
  <2>4. QED BY <1>2, <2>3, BothParts
<1>6. CASE /\ err = Nil /\ job[r].kind = "rehydrate" /\ Go(r, "policy")
           /\ job' = [job EXCEPT ![r].cat = db[job[r].id].cat, ![r].spec = db[job[r].id].spec]
  <2> DEFINE j == [job[r] EXCEPT !.cat = db[job[r].id].cat, !.spec = db[job[r].id].spec]
  <2>1. db[job[r].id] \in Row
    BY <1>1, <1>3, <1>6 DEF StoreGet, StoresOK, Nil
  <2>2. /\ j \in Job /\ j.kind = "rehydrate" /\ j.id = job[r].id /\ j.new = job[r].new
        /\ j.cat \in Cat /\ j.spec \in ServiceSpec
    BY <1>1, <1>6, <2>1 DEF Job, Row
  <2>3. job' = [job EXCEPT ![r] = j] BY <1>6 DEF SlotsOK
  <2> HIDE DEF j, Get
  <2>4. /\ "policy" \in PC \ {"idle", "rollback", "done"}
        /\ "policy" \in PCOf[j.kind] /\ Knows(j, "policy")
    BY <2>2 DEF PC, PCOf, Knows
  <2>5. SlotsOK' BY <1>1, <1>2, <1>6, <2>2, <2>3, <2>4, GoType
  <2>6. QED BY <1>2, <2>5, BothParts
<1>7. QED BY <1>3, <1>4, <1>5, <1>6

LEMMA EvaluateType ==
  ASSUME TypeOK, NEW r \in Req, Evaluate(r)
  PROVE  TypeOK'
<1> USE TypeParts
<1>1. /\ job[r] \in Job /\ job[r].kind \in {"create", "rehydrate"} /\ pc[r] = "policy"
      /\ job[r].cat \in Cat /\ job[r].spec \in ServiceSpec
  BY BusySlot DEF JobOK, PCOf, Evaluate, AllKinds
<1>2. StoresOK' /\ alive' = alive BY DEF StoresOK, Evaluate
<1>3. "done" \in PCOf[job[r].kind] BY <1>1 DEF PCOf
<1>4. ASSUME NEW code \in ErrorCode, Finish(r, code), job' = job PROVE SlotsOK'
  BY <1>1, <1>2, <1>3, <1>4, AnswerType DEF Finish
<1>5. ASSUME NEW p \in Provider, NEW e \in ServiceSpec, Go(r, "insert"),
             job' = [job EXCEPT ![r].prov = p, ![r].eval = e]
      PROVE  SlotsOK'
  <2> DEFINE j == [job[r] EXCEPT !.prov = p, !.eval = e]
  <2>1. /\ j \in Job /\ j.kind = job[r].kind /\ j.id = job[r].id /\ j.new = job[r].new
        /\ j.cat = job[r].cat /\ j.spec = job[r].spec /\ j.prov = p /\ j.eval = e
    BY <1>1 DEF Job
  <2>2. job' = [job EXCEPT ![r] = j] BY <1>5 DEF SlotsOK
  <2> HIDE DEF j
  <2>3. /\ "insert" \in PC \ {"idle", "rollback", "done"}
        /\ "insert" \in PCOf[j.kind] /\ Knows(j, "insert")
    BY <1>1, <2>1 DEF PC, PCOf, Knows
  <2>4. QED BY <1>1, <1>2, <1>5, <2>1, <2>2, <2>3, GoType
<1>6. SlotsOK'
  BY <1>4, <1>5, CodeType DEF Evaluate, ErrorCode
<1>7. QED BY <1>2, <1>6, BothParts

LEMMA InsertType ==
  ASSUME TypeOK, NEW r \in Req, Insert(r)
  PROVE  TypeOK'
<1> USE TypeParts
<1>1. /\ job[r] \in Job /\ job[r].kind \in {"create", "rehydrate"} /\ pc[r] = "insert"
      /\ job[r].new \in Id /\ Knows(job[r], "insert") /\ alive' = alive /\ job' = job
  BY BusySlot DEF JobOK, PCOf, Insert, AllKinds, Knows
<1>2. NewRow(job[r]) \in Row BY <1>1 DEF NewRow, Row, Knows
<1>3. PICK err \in StoreError :
        StoreCreate(job[r].new, NewRow(job[r]), alive[r], err) /\ Inserted(r, err)
  BY DEF Insert
<1>4. StoresOK' BY <1>1, <1>2, <1>3, CreateType DEF StoresOK, Insert
<1>5. /\ "done" \in PCOf[job[r].kind] /\ "provision" \in PCOf[job[r].kind]
      /\ "provision" \in PC \ {"idle", "rollback", "done"}
      /\ Knows(job[r], "provision") /\ job' = [job EXCEPT ![r] = job[r]]
  BY <1>1 DEF PCOf, PC, Knows, SlotsOK
<1>6. CASE Go(r, "provision") BY <1>1, <1>4, <1>5, <1>6, GoType, BothParts
<1>7. CASE \E code \in {"CONFLICT", "INTERNAL_ERROR"} : Finish(r, code)
  BY <1>1, <1>4, <1>5, <1>7, AnswerType, BothParts DEF Finish, ErrorCode
<1>8. QED BY <1>3, <1>6, <1>7 DEF Inserted

LEMMA RequestType ==
  ASSUME TypeOK, NEW r \in Req, NEW op \in Ops,
         op = "create" => pc[r] = "provision", op # "create" => pc[r] \in {"unprovision", "deferred"}
  PROVE  SprmRequest(r, op) \in SprmCall
<1>1. op = "create" => /\ job[r].new \in Id
                       /\ [spec |-> job[r].eval, prov |-> job[r].prov] \in Instance
  BY BusySlot DEF JobOK, PCOf, AllKinds, Instance
<1>2. op # "create" => job[r].id \in Id
  BY BusySlot DEF JobOK, PCOf, AllKinds
<1>3. tries[r] \in Nat BY BoundAssumption DEF TypeOK
<1>4. QED BY <1>1, <1>2, <1>3 DEF SprmRequest, SprmCall

\* The call a request waits for.
WaitsFor(r, c) ==
  \/ pc[r] = "provision" /\ c = SprmRequest(r, "create")
  \/ pc[r] = "unprovision" /\ c = SprmRequest(r, "delete")
  \/ pc[r] = "deferred" /\ c = SprmRequest(r, "deferred")

LEMMA InFlightType ==
  ASSUME TypeOK, NEW c \in InFlight
  PROVE  c \in SprmCall /\ \E r \in Req : WaitsFor(r, c)
<1>1. PICK r \in Req : WaitsFor(r, c)
  BY DEF InFlight, WaitsFor
<1>2. c \in SprmCall
  <2>1. CASE pc[r] = "provision"   BY <1>1, <2>1, RequestType DEF WaitsFor, Ops
  <2>2. CASE pc[r] = "unprovision" BY <1>1, <2>2, RequestType DEF WaitsFor, Ops
  <2>3. CASE pc[r] = "deferred"    BY <1>1, <2>3, RequestType DEF WaitsFor, Ops
  <2>. QED BY <1>1, <2>1, <2>2, <2>3 DEF WaitsFor
<1>. QED BY <1>1, <1>2

LEMMA ProvisionType ==
  ASSUME TypeOK, NEW r \in Req, Provision(r)
  PROVE  TypeOK'
<1> USE TypeParts
<1>1. /\ job[r] \in Job /\ job[r].kind \in {"create", "rehydrate"} /\ pc[r] = "provision"
      /\ Knows(job[r], "provision") /\ alive' = alive /\ job' = job
  BY BusySlot DEF JobOK, PCOf, Provision, AllKinds, Knows
<1>2. PICK status \in Statuses :
        /\ Attempt(r, SprmRequest(r, "create"), status)
        /\ \/ status = 201 /\ job[r].kind = "create"    /\ Finish(r, "OK")
           \/ status = 201 /\ job[r].kind = "rehydrate" /\ Go(r, "deferred")
           \/ status # 201 /\ Retries(r, status)        /\ TryAgain(r)
           \/ /\ status # 201 /\ ~Retries(r, status)
              /\ FailUnprovisioned(r, HandleSPRMError(status))
  BY DEF Provision
<1>3. SprmRequest(r, "create") \in SprmCall BY <1>1, RequestType DEF Ops
<1>4. StoresOK' BY <1>2, <1>3, AttemptType DEF StoresOK, Provision
<1>5. /\ "done" \in PCOf[job[r].kind] /\ "rollback" \in PCOf[job[r].kind]
      /\ job[r].kind = "rehydrate" => "deferred" \in PCOf[job[r].kind]
      /\ "deferred" \in PC \ {"idle", "rollback", "done"}
      /\ Knows(job[r], "rollback") /\ Knows(job[r], "deferred")
      /\ job' = [job EXCEPT ![r] = job[r]]
  BY <1>1 DEF PCOf, PC, Knows, SlotsOK
<1>6. CASE Finish(r, "OK")
  BY <1>1, <1>4, <1>5, <1>6, AnswerType, BothParts DEF Finish
<1>7. CASE job[r].kind = "rehydrate" /\ Go(r, "deferred")
  BY <1>1, <1>4, <1>5, <1>7, GoType, BothParts
<1>8. CASE Retries(r, status) /\ TryAgain(r)
  BY <1>1, <1>4, <1>8, TryAgainType, BothParts
<1>9. CASE FailUnprovisioned(r, HandleSPRMError(status))
  BY <1>1, <1>4, <1>5, <1>9, AnswerType, CodeType, BothParts DEF FailUnprovisioned
<1>10. QED BY <1>2, <1>6, <1>7, <1>8, <1>9

LEMMA RollbackType ==
  ASSUME TypeOK, NEW r \in Req, Rollback(r)
  PROVE  TypeOK'
<1> USE TypeParts
<1>1. /\ job[r] \in Job /\ job[r].kind \in {"create", "rehydrate"} /\ pc[r] = "rollback"
      /\ job[r].new \in Id /\ resp[r] \in ErrorCode \cup {"OK"} /\ alive' = alive /\ job' = job
  BY BusySlot DEF JobOK, PCOf, Rollback, AllKinds
<1>2. StoresOK' BY <1>1, DeleteType DEF StoresOK, Rollback, Undo
<1>3. "done" \in PCOf[job[r].kind] BY <1>1 DEF PCOf
<1>4. QED BY <1>1, <1>2, <1>3, AnswerType, BothParts DEF Rollback, Finish

LEMMA UnprovisionType ==
  ASSUME TypeOK, NEW r \in Req, Unprovision(r)
  PROVE  TypeOK'
<1> USE TypeParts
<1>1. /\ job[r] \in Job /\ job[r].kind = "delete" /\ pc[r] = "unprovision"
      /\ alive' = alive /\ job' = job
  BY BusySlot DEF JobOK, PCOf, Unprovision, AllKinds
<1>2. PICK status \in Statuses :
        /\ Attempt(r, SprmRequest(r, "delete"), status)
        /\ \/ status = 204 /\ Go(r, "remove")
           \/ status # 204 /\ Retries(r, status)  /\ TryAgain(r)
           \/ status # 204 /\ ~Retries(r, status) /\ NotUnprovisioned(r, status)
  BY DEF Unprovision
<1>3. SprmRequest(r, "delete") \in SprmCall BY <1>1, RequestType DEF Ops
<1>4. StoresOK' BY <1>2, <1>3, AttemptType DEF StoresOK, Unprovision
<1>5. /\ "done" \in PCOf[job[r].kind] /\ "remove" \in PCOf[job[r].kind]
      /\ "remove" \in PC \ {"idle", "rollback", "done"}
      /\ Knows(job[r], "remove") /\ job' = [job EXCEPT ![r] = job[r]]
  BY <1>1 DEF PCOf, PC, Knows, SlotsOK
<1>6. CASE Go(r, "remove") BY <1>1, <1>4, <1>5, <1>6, GoType, BothParts
<1>7. CASE Retries(r, status) /\ TryAgain(r)
  BY <1>1, <1>4, <1>7, TryAgainType, BothParts
<1>8. CASE NotUnprovisioned(r, status)
  BY <1>1, <1>4, <1>5, <1>8, AnswerType, CodeType, BothParts DEF NotUnprovisioned, Finish
<1>9. QED BY <1>2, <1>6, <1>7, <1>8

LEMMA DeferredType ==
  ASSUME TypeOK, NEW r \in Req, Deferred(r)
  PROVE  TypeOK'
<1> USE TypeParts
<1>1. /\ job[r] \in Job /\ job[r].kind = "rehydrate" /\ pc[r] = "deferred"
      /\ alive' = alive /\ job' = job
  BY BusySlot DEF JobOK, PCOf, Deferred, AllKinds
<1>2. PICK status \in Statuses :
        /\ Attempt(r, OldInstance(r), status)
        /\ \/ status # 204 /\ Retries(r, status) /\ TryAgain(r)
           \/ (status = 204 \/ ~Retries(r, status)) /\ Replaced(r)
  BY DEF Deferred
<1>3. OldInstance(r) \in SprmCall BY <1>1, RequestType DEF Ops, OldInstance
<1>4. StoresOK' BY <1>2, <1>3, AttemptType DEF StoresOK, Deferred
<1>5. /\ "remove" \in PCOf[job[r].kind] /\ "remove" \in PC \ {"idle", "rollback", "done"}
      /\ Knows(job[r], "remove") /\ job' = [job EXCEPT ![r] = job[r]]
  BY <1>1 DEF PCOf, PC, Knows, SlotsOK
<1>6. CASE Retries(r, status) /\ TryAgain(r)
  BY <1>1, <1>4, <1>6, TryAgainType, BothParts
<1>7. CASE Replaced(r) BY <1>1, <1>4, <1>5, <1>7, GoType, BothParts DEF Replaced
<1>8. QED BY <1>2, <1>6, <1>7

LEMMA RemoveType ==
  ASSUME TypeOK, NEW r \in Req, Remove(r)
  PROVE  TypeOK'
<1> USE TypeParts
<1>1. /\ job[r] \in Job /\ job[r].kind \in {"delete", "rehydrate"} /\ pc[r] = "remove"
      /\ job[r].id \in Id /\ alive' = alive /\ job' = job
  BY BusySlot DEF JobOK, PCOf, Remove, AllKinds
<1>2. StoresOK' BY <1>1, DeleteType DEF StoresOK, Remove
<1>3. "done" \in PCOf[job[r].kind] BY <1>1 DEF PCOf
<1>4. \E code \in {"OK", "NOT_FOUND", "INTERNAL_ERROR"} : Finish(r, code)
  BY DEF Remove
<1>5. QED BY <1>1, <1>2, <1>3, <1>4, AnswerType, BothParts DEF Finish, ErrorCode

LEMMA SurroundingsType ==
  ASSUME TypeOK,
         \/ \E c \in late : Deliver(c)
         \/ \E x \in Id : SprmCleanUp(x)
         \/ Crash
  PROVE  TypeOK'
<1> USE TypeParts
<1>1. ASSUME NEW c \in late, Deliver(c) PROVE TypeOK'
  <2>1. c \in SprmCall BY DEF StoresOK
  <2>2. StoresOK' BY <1>1, <2>1, ServeType DEF StoresOK, Deliver
  <2>3. SlotsOK' BY <1>1 DEF SlotsOK, SlotOK, JobOK, Deliver
  <2>4. QED BY <2>2, <2>3, BothParts
<1>2. ASSUME NEW x \in Id, SprmCleanUp(x) PROVE TypeOK'
  <2>1. StoresOK' BY <1>2 DEF StoresOK, SprmCleanUp, CleanUp
  <2>2. SlotsOK' BY <1>2 DEF SlotsOK, SlotOK, JobOK, SprmCleanUp
  <2>3. QED BY <2>1, <2>2, BothParts
<1>3. CASE Crash
  <2>1. late' \subseteq SprmCall BY <1>3, Lingers, InFlightType DEF Crash, StoresOK
  <2>. StoresOK' BY <1>3, <2>1 DEF StoresOK, Crash
  <2>2. SlotsOK' BY <1>3, BoundAssumption DEF SlotsOK, SlotOK, Crash, PC
  <2>3. QED BY <2>2, BothParts
<1>4. QED BY <1>1, <1>2, <1>3

LEMMA StepType ==
  ASSUME TypeOK, NEW r \in Req, Step(r)
  PROVE  TypeOK'
  BY GetType, EvaluateType, InsertType, ProvisionType, RollbackType, UnprovisionType,
     DeferredType, RemoveType, ReplyType DEF Step

LEMMA NextType ==
  ASSUME TypeOK, [Next]_vars
  PROVE  TypeOK'
<1>1. CASE Next
  BY <1>1, SubmitType, StepType, CancelType, SurroundingsType DEF Next
<1>2. CASE UNCHANGED vars
  BY <1>2 DEF TypeOK, JobOK, vars
<1>3. QED BY <1>1, <1>2

(***************************************************************************)
(* The variables keep their types and no handler uses what it has not yet  *)
(* learnt, under every fault and for any number of requests.               *)
(***************************************************************************)
THEOREM TypeCorrect == Spec => []TypeOK
<1>1. Init => TypeOK BY InitType
<1>2. TypeOK /\ [Next]_vars => TypeOK' BY NextType
<1>3. QED BY <1>1, <1>2, PTL DEF Spec

-----------------------------------------------------------------------------

\* OriginalSpec is inductive together with what a handler is about to insert:
\* a creation has the client's specification, a rehydration that of the old row.
AsksOriginal(r) ==
  pc[r] \in {"policy", "insert"} => job[r].spec = OrigSpec[job[r].cat]

Original == OriginalSpec /\ \A r \in Req : AsksOriginal(r)

\* Steps that insert no row and ask for no new specification.
LEMMA OriginalKept ==
  ASSUME Original,
         \A x \in Id : Recorded(x)' => Recorded(x) /\ db'[x] = db[x],
         \A q \in Req : pc'[q] \in {"policy", "insert"} =>
           /\ pc[q] \in {"policy", "insert"}
           /\ job'[q].spec = job[q].spec /\ job'[q].cat = job[q].cat
  PROVE  Original'
  BY DEF Original, OriginalSpec, AsksOriginal, Recorded

\* A step of r that moves it elsewhere asks for nothing.
LEMMA LeavesAsking ==
  ASSUME TypeOK, Original, NEW r \in Req, job' = job,
         \A q \in Req \ {r} : pc'[q] = pc[q],
         pc'[r] \in {pc[r], "provision", "rollback", "unprovision", "deferred", "remove", "done"},
         \A x \in Id : Recorded(x)' => Recorded(x) /\ db'[x] = db[x]
  PROVE  Original'
<1>1. \A q \in Req : pc'[q] \in {"policy", "insert"} => pc'[q] = pc[q] OBVIOUS
<1>2. QED BY <1>1, OriginalKept

\* Deleting a row changes no other.
LEMMA DeleteKeeps ==
  ASSUME TypeOK, NEW x \in Id, NEW ctx, NEW err, StoreDelete(x, ctx, err)
  PROVE  \A y \in Id : Recorded(y)' => Recorded(y) /\ db'[y] = db[y]
<1>1. db' = db \/ db' = [db EXCEPT ![x] = None] BY DEF StoreDelete, Breaks
<1>2. QED BY <1>1 DEF Recorded, TypeOK

-----------------------------------------------------------------------------
LEMMA SubmitOriginal ==
  ASSUME TypeOK, Original, NEW r \in Req, Submit(r)
  PROVE  Original'
<1>1. ASSUME NEW j, NEW at, Begin(r, j, at), at = "policy" => j.spec = OrigSpec[j.cat],
             at \in {"get", "policy"}
      PROVE  Original'
  <2>1. /\ db' = db /\ job'[r] = j /\ pc'[r] = at
        /\ \A q \in Req \ {r} : pc'[q] = pc[q] /\ job'[q] = job[q]
    BY <1>1 DEF Begin, Go, TypeOK
  <2>2. OriginalSpec' BY <2>1 DEF Original, OriginalSpec, Recorded
  <2>3. \A q \in Req : AsksOriginal(q)' BY <1>1, <2>1 DEF Original, AsksOriginal
  <2>4. QED BY <2>2, <2>3 DEF Original
<1>2. CASE SubmitCreate(r) BY <1>1, <1>2 DEF SubmitCreate, Asked
<1>3. CASE SubmitById(r) BY <1>1, <1>3 DEF SubmitById
<1>4. CASE SubmitRehydrate(r) BY <1>1, <1>4 DEF SubmitRehydrate
<1>5. QED BY <1>2, <1>3, <1>4 DEF Submit

LEMMA GetOriginal ==
  ASSUME TypeOK, Original, NEW r \in Req, Get(r)
  PROVE  Original'
<1>1. PICK x \in Id : x = job[r].id BY BusySlot DEF Get, JobOK, PCOf, AllKinds
<1>2. db' = db BY DEF Get, StoreGet
<1>3. CASE /\ job' = job
           /\ (\E code : Finish(r, code)) \/ Go(r, "unprovision")
  <2>1. pc'[r] \in {"done", "unprovision"} /\ \A q \in Req \ {r} : pc'[q] = pc[q]
    BY <1>3 DEF Finish, Answer, Go, TypeOK
  <2>2. QED BY <1>2, <1>3, <2>1, LeavesAsking DEF Recorded
<1>4. CASE /\ Recorded(x) /\ Go(r, "policy")
           /\ job' = [job EXCEPT ![r].cat = db[x].cat, ![r].spec = db[x].spec]
  <2>1. job[r] \in Job BY BusySlot DEF Get
  <2>2. job'[r].cat = db[x].cat /\ job'[r].spec = db[x].spec
    BY <1>4, <2>1 DEF TypeOK, Job
  <2>3. db[x].spec = OrigSpec[db[x].cat] BY <1>4 DEF Original, OriginalSpec
  <2>4. \A q \in Req \ {r} : pc'[q] = pc[q] /\ job'[q] = job[q]
    BY <1>4 DEF Go, TypeOK
  <2>5. \A q \in Req : AsksOriginal(q)'
    BY <2>2, <2>3, <2>4 DEF Original, AsksOriginal
  <2>6. QED BY <1>2, <2>5 DEF Original, OriginalSpec, Recorded
<1>5. QED BY <1>1, <1>3, <1>4 DEF Get, StoreGet, Recorded, Nil

LEMMA EvaluateOriginal ==
  ASSUME TypeOK, Original, NEW r \in Req, Evaluate(r)
  PROVE  Original'
<1>1. db' = db /\ pc[r] = "policy" /\ job[r] \in Job BY BusySlot DEF Evaluate
<1>2. CASE job' = job /\ \E code : Finish(r, code)
  <2>1. pc'[r] = "done" /\ \A q \in Req \ {r} : pc'[q] = pc[q]
    BY <1>2 DEF Finish, Answer, TypeOK
  <2>2. QED BY <1>1, <1>2, <2>1, LeavesAsking DEF Recorded
<1>3. CASE \E p \in Provider, e \in ServiceSpec :
             job' = [job EXCEPT ![r].prov = p, ![r].eval = e] /\ Go(r, "insert")
  <2>1. job'[r].spec = job[r].spec /\ job'[r].cat = job[r].cat
    BY <1>1, <1>3 DEF TypeOK, Job
  <2>2. \A q \in Req \ {r} : pc'[q] = pc[q] /\ job'[q] = job[q]
    BY <1>3 DEF Go, TypeOK
  <2>3. QED BY <1>1, <2>1, <2>2, OriginalKept DEF Recorded
<1>4. QED BY <1>2, <1>3 DEF Evaluate

\* The row inserted has the specification asked for, not the one evaluated.
LEMMA InsertOriginal ==
  ASSUME TypeOK, Original, NEW r \in Req, Insert(r)
  PROVE  Original'
<1>1. PICK x \in Id : x = job[r].new BY BusySlot DEF Insert, JobOK, PCOf, AllKinds
<1>2. PICK row \in Row : row = NewRow(job[r])
  BY BusySlot DEF Insert, JobOK, PCOf, AllKinds, NewRow, Row
<1>3. job' = job /\ row.spec = OrigSpec[row.cat]
  BY <1>2 DEF Insert, NewRow, Original, AsksOriginal
<1>4. pc'[r] \in {"provision", "done"} /\ \A q \in Req \ {r} : pc'[q] = pc[q]
  BY DEF Insert, Inserted, Finish, Answer, Go, TypeOK
<1>5. db' \in {db, [db EXCEPT ![x] = row]}
  BY <1>1, <1>2 DEF Insert, StoreCreate, Breaks
<1>6. OriginalSpec' BY <1>3, <1>5 DEF Original, OriginalSpec, Recorded, TypeOK
<1>7. \A q \in Req : AsksOriginal(q)' BY <1>3, <1>4 DEF Original, AsksOriginal
<1>8. QED BY <1>6, <1>7 DEF Original

\* The other calls: no insertion, and the request moves on.
LEMMA CallOriginal ==
  ASSUME TypeOK, Original, NEW r \in Req,
         Provision(r) \/ Unprovision(r) \/ Deferred(r)
  PROVE  Original'
<1>1. job' = job /\ db' = db BY DEF Provision, Unprovision, Deferred
<1>2. \/ TryAgain(r)
      \/ \E code, at : at \in {"done", "rollback"} /\ Answer(r, code, at)
      \/ \E at : at \in {"deferred", "remove"} /\ Go(r, at)
  <2>1. CASE Provision(r) BY <2>1 DEF Provision, Finish, FailUnprovisioned
  <2>2. CASE Unprovision(r) BY <2>2 DEF Unprovision, Finish, NotUnprovisioned
  <2>3. CASE Deferred(r) BY <2>3 DEF Deferred, Replaced
  <2>4. QED BY <2>1, <2>2, <2>3
<1>3. /\ pc'[r] \in {pc[r], "done", "rollback", "deferred", "remove"}
      /\ \A q \in Req \ {r} : pc'[q] = pc[q]
  BY <1>2 DEF TryAgain, Answer, Go, TypeOK
<1>4. QED BY <1>1, <1>3, LeavesAsking DEF Recorded

LEMMA RowGoneOriginal ==
  ASSUME TypeOK, Original, NEW r \in Req, Rollback(r) \/ Remove(r)
  PROVE  Original'
<1>1. job' = job /\ \E code : Finish(r, code) BY DEF Rollback, Remove
<1>2. \E x \in Id, err \in StoreError : StoreDelete(x, alive[r], err)
  <2>1. CASE Rollback(r)
    BY <2>1, BusySlot DEF Rollback, Undo, JobOK, PCOf, AllKinds
  <2>2. CASE Remove(r)
    BY <2>2, BusySlot DEF Remove, JobOK, PCOf, AllKinds
  <2>3. QED BY <2>1, <2>2
<1>3. pc'[r] = "done" /\ \A q \in Req \ {r} : pc'[q] = pc[q]
  BY <1>1 DEF Finish, Answer, TypeOK
<1>4. QED BY <1>1, <1>2, <1>3, DeleteKeeps, LeavesAsking

LEMMA NextOriginal ==
  ASSUME TypeOK, Original, [Next]_vars
  PROVE  Original'
<1>1. ASSUME NEW r \in Req, Reply(r) \/ Cancel(r) PROVE Original'
  <2>1. \A q \in Req : pc'[q] \in {"policy", "insert"} =>
          pc'[q] = pc[q] /\ job'[q] = job[q]
    BY <1>1 DEF Reply, Cancel, TypeOK
  <2>2. db' = db BY <1>1 DEF Reply, Cancel
  <2>3. QED BY <2>1, <2>2, OriginalKept DEF Recorded
<1>2. ASSUME NEW r \in Req, Step(r) PROVE Original'
  BY <1>1, <1>2, GetOriginal, EvaluateOriginal, InsertOriginal, CallOriginal, RowGoneOriginal
  DEF Step
<1>3. CASE (\E c \in late : Deliver(c)) \/ (\E x \in Id : SprmCleanUp(x)) \/ UNCHANGED vars
  <2>1. UNCHANGED <<db, pc, job>> BY <1>3 DEF Deliver, SprmCleanUp, vars
  <2>2. QED BY <2>1, OriginalKept DEF Recorded
<1>4. CASE Crash
  <2>1. db' = db /\ \A q \in Req : pc'[q] = "idle" BY <1>4 DEF Crash
  <2>2. QED BY <2>1, OriginalKept DEF Recorded
<1>5. QED BY <1>1, <1>2, <1>3, <1>4, SubmitOriginal DEF Next

(***************************************************************************)
(* Under every fault and through any chain of rehydrations, a record has   *)
(* the specification its client asked for: the row is inserted with the    *)
(* request's specification and not with the one the policies evaluated.    *)
(***************************************************************************)
THEOREM SpecIsOriginal == Spec => []OriginalSpec
<1>1. Init => TypeOK /\ Original
  BY InitType DEF Init, Original, OriginalSpec, AsksOriginal, Recorded
<1>2. TypeOK /\ Original /\ [Next]_vars => (TypeOK /\ Original)'
  BY NextType, NextOriginal
<1>3. Original => OriginalSpec BY DEF Original
<1>4. QED BY <1>1, <1>2, <1>3, PTL DEF Spec

-----------------------------------------------------------------------------
\* What one step may answer a deletion.
DeletedNow ==
  \A r \in Req : Replies(r, "OK") /\ job[r].kind = "delete" =>
    db[job[r].id] # None /\ db'[job[r].id] = None

\* A step of q moves no other request.
LEMMA StepMoves ==
  ASSUME TypeOK, NEW q \in Req, Step(q)
  PROVE  \A r \in Req \ {q} : pc'[r] = pc[r]
<1>1. ASSUME NEW code, NEW at, Answer(q, code, at) \/ Go(q, at) \/ TryAgain(q)
      PROVE  \A r \in Req \ {q} : pc'[r] = pc[r]
  BY <1>1 DEF Answer, Go, TryAgain, TypeOK
<1>2. CASE Get(q) BY <1>1, <1>2 DEF Get, Finish
<1>3. CASE Evaluate(q) BY <1>1, <1>3 DEF Evaluate, Finish
<1>4. CASE Insert(q) BY <1>1, <1>4 DEF Insert, Inserted, Finish
<1>5. CASE Provision(q) BY <1>1, <1>5 DEF Provision, FailUnprovisioned, Finish
<1>6. CASE Rollback(q) BY <1>1, <1>6 DEF Rollback, Finish
<1>7. CASE Unprovision(q) BY <1>1, <1>7 DEF Unprovision, NotUnprovisioned, Finish
<1>8. CASE Deferred(q) BY <1>1, <1>8 DEF Deferred, Replaced
<1>9. CASE Remove(q) BY <1>1, <1>9 DEF Remove, Finish
<1>10. CASE Reply(q) BY <1>10 DEF Reply, TypeOK
<1>11. QED
  BY <1>2, <1>3, <1>4, <1>5, <1>6, <1>7, <1>8, <1>9, <1>10 DEF Step

\* A request is answered by a step of its own only.
LEMMA OwnReply ==
  ASSUME TypeOK, NEW r \in Req, NEW code, [Next]_vars, Replies(r, code)
  PROVE  Step(r)
<1>1. ASSUME NEW q \in Req, Submit(q) \/ Step(q) \/ Cancel(q) PROVE q = r
  <2>1. SUFFICES ASSUME q # r PROVE pc'[r] = pc[r]
    BY <2>1 DEF Replies
  <2>2. CASE Submit(q)
    BY <2>1, <2>2 DEF Submit, SubmitCreate, SubmitById, SubmitRehydrate, Begin, Go, TypeOK
  <2>3. CASE Step(q) BY <2>1, <2>3, StepMoves
  <2>4. CASE Cancel(q) BY <2>4 DEF Cancel
  <2>5. QED BY <1>1, <2>2, <2>3, <2>4
<1>2. ~Submit(r) BY DEF Submit, SubmitCreate, SubmitById, SubmitRehydrate, Begin, Go, TypeOK, Replies
<1>3. ~Cancel(r) BY DEF Cancel, Replies
<1>4. ~Crash /\ (\A c \in late : ~Deliver(c)) /\ (\A x \in Id : ~SprmCleanUp(x)) /\ ~UNCHANGED vars
  BY DEF Crash, Deliver, SprmCleanUp, vars, Replies
<1>5. QED BY <1>1, <1>2, <1>3, <1>4 DEF Next

\* The only step that answers a deletion OK is the one that removes its row.
LEMMA ReplyDeletes ==
  ASSUME TypeOK, NEW r \in Req, Step(r), Replies(r, "OK"), job[r].kind = "delete"
  PROVE  db[job[r].id] # None /\ db'[job[r].id] = None
<1>1. pc[r] \in {"get", "unprovision", "remove"} /\ job[r].id \in Id
  <2>1. pc[r] # "idle"
    BY DEF Step, Get, Evaluate, Insert, Provision, Rollback, Unprovision, Deferred, Remove, Reply
  <2>2. QED BY <2>1, BusySlot DEF JobOK, PCOf, Replies
<1>2. ~Get(r)
  BY DEF Get, Replies, Finish, Answer, Go, TypeOK
<1>3. ~Unprovision(r)
  <2>1. ASSUME NEW status PROVE HandleSPRMError(status) # "OK" BY CodeType DEF ErrorCode
  <2>2. QED BY <2>1 DEF Unprovision, NotUnprovisioned, Replies, Finish, Answer, Go, TryAgain, TypeOK
<1>4. Remove(r)
  BY <1>1, <1>2, <1>3 DEF Step, Evaluate, Insert, Provision, Rollback, Deferred, Reply
<1>5. \E err \in StoreError : err = Nil /\ StoreDelete(job[r].id, alive[r], err)
  BY <1>4 DEF Remove, Replies, Finish, Answer, TypeOK
<1>6. QED BY <1>1, <1>5 DEF StoreDelete, RowsAffected, Nil, TypeOK

(***************************************************************************)
(* Under every fault, a deletion answered OK has removed a record in that  *)
(* very step: two deletions of one record never both report success.       *)
(***************************************************************************)
THEOREM DeletionIsOwn == Spec => DeletedByItself
<1>1. TypeOK /\ [Next]_vars => [DeletedNow]_vars
  BY OwnReply, ReplyDeletes DEF DeletedNow
<1>2. QED BY <1>1, TypeCorrect, PTL DEF Spec, DeletedByItself, DeletedNow
=============================================================================
