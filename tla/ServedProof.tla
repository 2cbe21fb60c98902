------------------------------ MODULE ServedProof ------------------------------
(***************************************************************************)
(* AlwaysServed for every value of the constants, where nothing deletes,   *)
(* ids are UUIDs, no client disconnects and no answer of the SPRM is lost  *)
(* while its caller waits.  The process may stop in the middle of calls,   *)
(* and the SPRM executes these at any later time or never.                 *)
(*                                                                         *)
(* A resource is doomed when a rehydration is about to remove it, or its   *)
(* deferred deletion is queued by the SPRM or still on its way there after *)
(* the process has stopped.  Rehydrations race: the replacement of a       *)
(* doomed resource may be doomed itself, or gone, before the rehydration   *)
(* that made it is over.  But a replacement is inserted after the resource *)
(* it replaces was seen, so following replacements never leads back, and   *)
(* the end of the chain is live and not doomed.  The invariant says that   *)
(* with ranks: the order in which the ids were inserted.                   *)
(***************************************************************************)
EXTENDS OrphanProof

\* The circumstances of the theorem.
Continuous == UserId = {} /\ "delete" \notin Kinds /\ Faults \subseteq {"crash", "db"}

\* The calls before the new row is inserted.
Before == {"get", "policy", "insert"}

\* The request r makes resource y ...
Making(r, y) ==
  pc[r] # "idle" /\ job[r].kind \in {"create", "rehydrate"} /\ job[r].new = y

\* ... and has read resource x, which it is to replace ...
Replacing(r, x) ==
  /\ pc[r] \in {"policy", "insert", "provision", "rollback", "deferred", "remove"}
  /\ job[r].kind = "rehydrate" /\ job[r].id = x

\* ... and now removes.
Dooming(r, x) == pc[r] \in {"deferred", "remove"} /\ Replacing(r, x)

Fresh(x) == ~Recorded(x) /\ ~Provisioned(x) /\ x \notin cleanup

-----------------------------------------------------------------------------
\* Ids are used once.
MakesAlone ==
  \A r \in Req, y \in Id : Making(r, y) =>
    y \in minted /\ \A q \in Req : Making(q, y) => q = r

MakesFresh ==
  \A r \in Req, y \in Id : Making(r, y) /\ pc[r] \in Before =>
    Fresh(y) /\ \A q \in Req : ~Replacing(q, y)

MakesItself ==
  \A r \in Req, y \in Id : Making(r, y) /\ pc[r] \in {"provision", "rollback"} => ~Provisioned(y)

ReplacesSeen ==
  \A r \in Req, x \in Id : Replacing(r, x) =>
    x \in minted /\ (Recorded(x) => db[x].cat = job[r].cat)

\* What a stop has left under way is nothing any request still makes.
LateSettled ==
  \A c \in late : c.op # "delete" /\ c.id \in minted /\ \A q \in Req : ~Making(q, c.id)

Minting ==
  /\ LateSettled /\ \A r \in Req : alive[r]
  /\ \A x \in Id : Fresh(x) \/ x \in minted
  /\ MakesAlone /\ MakesFresh /\ MakesItself /\ ReplacesSeen

LEMMA KindOf ==
  ASSUME Continuous, TypeOK, NEW r \in Req, pc[r] # "idle"
  PROVE  /\ job[r].kind \in {"create", "get", "rehydrate"} /\ pc[r] # "unprovision"
         /\ job[r].kind \in {"create", "rehydrate"} => job[r].new \in Id
         /\ job[r].kind = "rehydrate" => job[r].id \in Id
         /\ pc[r] \in {"policy", "insert", "provision", "rollback"} =>
              job[r].kind \in {"create", "rehydrate"}
         /\ pc[r] \in {"deferred", "remove"} => job[r].kind = "rehydrate"
<1>1. job[r].kind \in AllKinds /\ job[r].kind # "delete" /\ JobOK(r)
  BY BusySlot DEF Continuous, Job
<1>. QED  BY <1>1 DEF AllKinds, JobOK, PCOf

\* A step of one request that mints no id.
LEMMA MintStep ==
  ASSUME TypeOK, Minting, NEW r \in Req, OthersKept(r), minted' = minted, late' = late,
         \A q \in Req : alive'[q],
         \A y \in Id : Making(r, y)' => Making(r, y),
         \A x \in Id : Fresh(x) => Fresh(x)' \/ (Making(r, x) /\ pc'[r] \notin Before),
         pc'[r] \in Before => pc[r] \in Before,
         \A x \in Id : Provisioned(x)' =>
           Provisioned(x) \/ (Making(r, x) /\ pc'[r] \notin {"provision", "rollback"}),
         pc'[r] \in {"provision", "rollback"} => pc[r] \in Before \cup {"provision", "rollback"},
         \A x \in Id : Replacing(r, x)' =>
           \/ Replacing(r, x) /\ job'[r].cat = job[r].cat
           \/ Recorded(x) /\ db[x].cat = job'[r].cat,
         \A x \in Id : Recorded(x)' =>
           \/ Recorded(x) /\ db'[x] = db[x]
           \/ Making(r, x) /\ pc[r] \in Before
  PROVE  Minting'
<1>1. \A q \in Req \ {r}, x \in Id :
        (Making(q, x)' <=> Making(q, x)) /\ (Replacing(q, x)' <=> Replacing(q, x))
  BY DEF OthersKept, Making, Replacing
<1>2. \A x \in Id : Fresh(x)' \/ x \in minted'
  BY DEF Minting, MakesAlone
<1>3. MakesAlone'  BY <1>1 DEF Minting, MakesAlone
<1>4. MakesFresh'
  <2>. SUFFICES ASSUME NEW q \in Req, NEW y \in Id, Making(q, y)', pc'[q] \in Before
               PROVE  Fresh(y)' /\ \A p \in Req : ~Replacing(p, y)'
    BY DEF MakesFresh
  <2>1. Making(q, y) /\ pc[q] \in Before  BY <1>1 DEF OthersKept
  <2>2. Fresh(y) /\ \A p \in Req : ~Replacing(p, y)  BY <2>1 DEF Minting, MakesFresh
  <2>3. Fresh(y)'  BY <2>1, <2>2 DEF Minting, MakesAlone
  <2>4. \A p \in Req : ~Replacing(p, y)'  BY <1>1, <2>2 DEF Fresh
  <2>. QED  BY <2>3, <2>4
<1>5. MakesItself'
  <2>. SUFFICES ASSUME NEW q \in Req, NEW y \in Id, Making(q, y)', pc'[q] \in {"provision", "rollback"}
               PROVE  ~Provisioned(y)'
    BY DEF MakesItself
  <2>1. Making(q, y) /\ pc[q] \in Before \cup {"provision", "rollback"}
    BY <1>1 DEF OthersKept
  <2>2. ~Provisioned(y)  BY <2>1 DEF Minting, MakesFresh, MakesItself, Fresh
  <2>. QED  BY <2>1, <2>2 DEF Minting, MakesAlone
<1>6. ReplacesSeen'
  <2>. SUFFICES ASSUME NEW q \in Req, NEW x \in Id, Replacing(q, x)'
               PROVE  x \in minted' /\ (Recorded(x)' => db'[x].cat = job'[q].cat)
    BY DEF ReplacesSeen
  <2>1. \/ Replacing(q, x) /\ job'[q].cat = job[q].cat
        \/ Recorded(x) /\ db[x].cat = job'[q].cat
    BY <1>1 DEF OthersKept
  <2>2. x \in minted  BY <2>1 DEF Minting, ReplacesSeen, Fresh
  <2>3. Recorded(x)' => Recorded(x) /\ db'[x] = db[x]
    BY <2>1 DEF Minting, MakesFresh, Fresh
  <2>. QED  BY <2>1, <2>2, <2>3 DEF Minting, ReplacesSeen
<1>7. LateSettled'
  BY <1>1 DEF Minting, LateSettled, TypeOK, SprmCall
<1>. QED  BY <1>2, <1>3, <1>4, <1>5, <1>6, <1>7 DEF Minting

\* A step that leaves the requests alone, or stops them all.
LEMMA MintQuiet ==
  ASSUME TypeOK, Minting, minted' = minted, \A q \in Req : alive'[q],
         \A c \in late' : \/ c \in late
                        \/ /\ c.op # "delete" /\ c.id \in minted
                           /\ \A q \in Req : pc'[q] = "idle",
         \A q \in Req : pc'[q] = "idle" \/ (pc'[q] = pc[q] /\ job'[q] = job[q]),
         db' = db, \A x \in Id : Provisioned(x)' => Provisioned(x), cleanup' \subseteq cleanup
  PROVE  Minting'
<1>1. \A q \in Req, x \in Id :
        /\ (Making(q, x)' => Making(q, x) /\ pc'[q] = pc[q])
        /\ (Replacing(q, x)' => Replacing(q, x) /\ job'[q] = job[q])
  BY DEF Making, Replacing
<1>2. \A x \in Id : (Recorded(x)' <=> Recorded(x)) /\ (Fresh(x) => Fresh(x)')
  BY DEF Recorded, Fresh
<1>3. MakesAlone' /\ MakesFresh'  BY <1>1, <1>2 DEF Minting, MakesAlone, MakesFresh
<1>4. MakesItself' /\ ReplacesSeen'  BY <1>1, <1>2 DEF Minting, MakesItself, ReplacesSeen
<1>5. LateSettled'
  BY <1>1 DEF Minting, LateSettled, TypeOK, SprmCall, Making
<1>. QED  BY <1>2, <1>3, <1>4, <1>5 DEF Minting

-----------------------------------------------------------------------------
LEMMA SubmitMints ==
  ASSUME Continuous, TypeOK, Minting, NEW r \in Req, Submit(r)
  PROVE  Minting'
<1>1. PICK j, at :
        /\ Begin(r, j, at) /\ at \in {"get", "policy"}
        /\ at = "policy" => j.kind = "create"
        /\ \/ j.kind \in {"create", "rehydrate"} /\ j.new \notin minted /\ minted' = minted \cup {j.new}
           \/ j.kind \notin {"create", "rehydrate"} /\ minted' = minted
  <2>1. CASE SubmitCreate(r)  BY <2>1 DEF SubmitCreate, Asked, NewId, Continuous
  <2>2. CASE SubmitById(r)  BY <2>2 DEF SubmitById, Asked
  <2>3. CASE SubmitRehydrate(r)  BY <2>3 DEF SubmitRehydrate, Asked, NewId, Continuous
  <2>. QED  BY <2>1, <2>2, <2>3 DEF Submit
<1>2. /\ OthersKept(r) /\ pc'[r] = at /\ job'[r] = j /\ UNCHANGED <<db, sprm, cleanup, late, alive>>
  BY <1>1 DEF Begin, Go, OthersKept, TypeOK
<1>3. \A q \in Req, x \in Id :
        /\ Making(q, x)' =>
             \/ q # r /\ Making(q, x) /\ pc'[q] = pc[q]
             \/ q = r /\ x \notin minted /\ x \in minted'
        /\ Replacing(q, x)' => q # r /\ Replacing(q, x) /\ job'[q] = job[q]
  BY <1>1, <1>2 DEF OthersKept, Making, Replacing
<1>4. \A x \in Id : (Recorded(x)' <=> Recorded(x)) /\ (Provisioned(x)' <=> Provisioned(x)) /\ (Fresh(x)' <=> Fresh(x))
  BY <1>2 DEF Recorded, Provisioned, Fresh
<1>5. minted \subseteq minted'  BY <1>1
<1>6. MakesAlone'  BY <1>3, <1>5 DEF Minting, MakesAlone
<1>7. MakesFresh'  BY <1>3, <1>4 DEF Minting, MakesFresh, ReplacesSeen
<1>8. MakesItself'  BY <1>3, <1>4, <1>2, <1>1 DEF Minting, MakesItself
<1>9. ReplacesSeen'  BY <1>2, <1>3, <1>4, <1>5 DEF Minting, ReplacesSeen
<1>10. LateSettled'
  BY <1>2, <1>3, <1>5 DEF Minting, LateSettled, TypeOK, SprmCall
<1>. QED  BY <1>2, <1>4, <1>5, <1>6, <1>7, <1>8, <1>9, <1>10 DEF Minting

LEMMA GetMints ==
  ASSUME Continuous, TypeOK, Minting, NEW r \in Req, Get(r)
  PROVE  Minting'
<1>1. /\ pc[r] = "get" /\ job[r] \in Job /\ job[r].kind \in {"create", "get", "rehydrate"}
      /\ UNCHANGED <<db, sprm, cleanup, late, minted, alive>>
  BY KindOf, BusySlot DEF Get, StoreGet
<1>2. CASE job' = job /\ \E code : Finish(r, code)
  <2>1. OthersKept(r) /\ pc'[r] = "done"  BY <1>1, <1>2, Moves DEF OthersKept, Finish
  <2>. QED  BY <1>1, <1>2, <2>1, MintStep DEF Making, Replacing, Recorded, Provisioned, Fresh, Minting, Before
<1>3. CASE /\ job[r].kind = "rehydrate" /\ db[job[r].id] # None /\ Go(r, "policy")
           /\ job' = [job EXCEPT ![r].cat = db[job[r].id].cat, ![r].spec = db[job[r].id].spec]
  <2>1. OthersKept(r) /\ pc'[r] = "policy"  BY <1>1, <1>3, Moves DEF OthersKept, TypeOK
  <2>2. /\ job'[r].kind = job[r].kind /\ job'[r].new = job[r].new /\ job'[r].id = job[r].id
        /\ job'[r].cat = db[job[r].id].cat
    BY <1>1, <1>3 DEF TypeOK, Job
  <2>3. \A x \in Id : Replacing(r, x)' => Recorded(x) /\ db[x].cat = job'[r].cat
    BY <1>3, <2>2 DEF Replacing, Recorded
  <2>4. \A x \in Id : Making(r, x)' => Making(r, x)
    BY <1>1, <2>2 DEF Making
  <2>. QED  BY <1>1, <2>1, <2>3, <2>4, MintStep DEF Recorded, Provisioned, Fresh, Minting, Before
<1>. QED  BY <1>1, <1>2, <1>3 DEF Get, StoreGet, Nil

LEMMA EvaluateMints ==
  ASSUME Continuous, TypeOK, Minting, NEW r \in Req, Evaluate(r)
  PROVE  Minting'
<1>1. /\ pc[r] = "policy" /\ job[r] \in Job
      /\ UNCHANGED <<db, sprm, cleanup, late, minted, alive>>
  BY BusySlot DEF Evaluate
<1>2. /\ OthersKept(r) /\ pc'[r] \in {"insert", "done"}
      /\ job'[r].kind = job[r].kind /\ job'[r].new = job[r].new /\ job'[r].id = job[r].id
      /\ job'[r].cat = job[r].cat
  <2>1. CASE job' = job /\ \E code : Finish(r, code)
    BY <1>1, <2>1, Moves DEF OthersKept, Finish
  <2>2. CASE \E p \in Provider, e \in ServiceSpec :
               job' = [job EXCEPT ![r].prov = p, ![r].eval = e] /\ Go(r, "insert")
    <3>1. OthersKept(r) /\ pc'[r] = "insert"  BY <1>1, <2>2, Moves DEF OthersKept, TypeOK
    <3>. QED  BY <1>1, <2>2, <3>1 DEF TypeOK, Job
  <2>. QED  BY <2>1, <2>2 DEF Evaluate
<1>3. \A x \in Id : (Making(r, x)' => Making(r, x)) /\ (Replacing(r, x)' => Replacing(r, x))
  BY <1>1, <1>2 DEF Making, Replacing
<1>. QED  BY <1>1, <1>2, <1>3, MintStep DEF Recorded, Provisioned, Fresh, Minting, Before

LEMMA InsertMints ==
  ASSUME Continuous, TypeOK, Minting, NEW r \in Req, Insert(r)
  PROVE  Minting'
<1>1. PICK x \in Id : x = job[r].new  BY KindOf DEF Insert
<1>2. /\ pc[r] = "insert" /\ UNCHANGED <<sprm, cleanup, late, minted, job, alive>>
      /\ \E err \in StoreError : StoreCreate(x, NewRow(job[r]), alive[r], err) /\ Inserted(r, err)
  BY <1>1 DEF Insert
<1>3. Making(r, x)  BY <1>1, <1>2, KindOf DEF Making
<1>4. OthersKept(r) /\ pc'[r] \in {"provision", "done"}
  BY <1>2, Moves DEF OthersKept, Inserted, Finish
<1>5. db' = db \/ db' = [db EXCEPT ![x] = NewRow(job[r])]
  BY <1>2 DEF StoreCreate, Breaks
<1>6. \A y \in Id \ {x} : db'[y] = db[y] /\ (Recorded(y)' <=> Recorded(y))
  BY <1>5 DEF Recorded, TypeOK
<1>7. \A y \in Id : (Provisioned(y)' <=> Provisioned(y)) /\ (y # x /\ Fresh(y) => Fresh(y)')
  BY <1>2, <1>6 DEF Provisioned, Fresh
<1>8. \A y \in Id : (Making(r, y)' => Making(r, y))
                    /\ (Replacing(r, y)' => Replacing(r, y) /\ job'[r].cat = job[r].cat)
  BY <1>2, <1>4 DEF Making, Replacing
<1>. QED  BY <1>2, <1>3, <1>4, <1>6, <1>7, <1>8, MintStep DEF Minting, Before

\* The attempt of a request whose client listens is answered.
LEMMA AttemptServed ==
  ASSUME Continuous, Minting, NEW r \in Req, NEW c, NEW status, Attempt(r, c, status)
  PROVE  alive[r] /\ Serve(c, status) /\ late' = late
  BY DEF Continuous, Minting, Attempt, Unanswered

\* What a provisioning does.
LEMMA ProvisionEffect ==
  ASSUME Continuous, TypeOK, Minting, NEW r \in Req, Provision(r)
  PROVE  \E x \in Id :
           /\ pc[r] = "provision" /\ Making(r, x) /\ OthersKept(r)
           /\ UNCHANGED <<db, cleanup, late, minted, job, alive>>
           /\ \/ /\ sprm'[x] # None /\ \A y \in Id \ {x} : sprm'[y] = sprm[y]
                 /\ pc'[r] = IF job[r].kind = "rehydrate" THEN "deferred" ELSE "done"
              \/ sprm' = sprm /\ pc'[r] \in {"provision", "rollback"}
<1>1. PICK x \in Id : x = job[r].new  BY KindOf DEF Provision
<1>2. PICK c \in SprmCall : c = SprmRequest(r, "create")
  BY RequestType DEF Provision, Ops
<1>3. /\ pc[r] = "provision" /\ job[r].kind \in {"create", "rehydrate"} /\ Making(r, x)
      /\ UNCHANGED <<db, minted, job, alive>>
  BY <1>1, KindOf DEF Provision, Making
<1>4. c.op = "create" /\ c.id = x /\ c.inst # None
  <2>1. job[r].eval \in ServiceSpec /\ job[r].prov \in Provider
    BY <1>3, BusySlot DEF JobOK
  <2>2. [spec |-> job[r].eval, prov |-> job[r].prov] # None
    BY <2>1, NoneAssumption DEF Instance
  <2>. QED  BY <1>1, <1>2, <2>2 DEF SprmRequest
<1>5. PICK status \in Statuses :
        /\ Serve(c, status) /\ late' = late
        /\ \/ status = 201 /\ job[r].kind = "create" /\ Finish(r, "OK")
           \/ status = 201 /\ job[r].kind = "rehydrate" /\ Go(r, "deferred")
           \/ status # 201 /\ TryAgain(r)
           \/ status # 201 /\ Answer(r, HandleSPRMError(status), "rollback")
  BY <1>2, AttemptServed DEF Provision, FailUnprovisioned
<1>6. cleanup' = cleanup  BY <1>4, <1>5 DEF Serve
<1>7. CASE status = 201
  <2>1. sprm' = [sprm EXCEPT ![x] = c.inst]
    BY <1>4, <1>5, <1>7, StatusAssumption DEF Serve, Ops
  <2>2. /\ pc'[r] = IF job[r].kind = "rehydrate" THEN "deferred" ELSE "done"
        /\ OthersKept(r)
    BY <1>3, <1>5, <1>7, Moves DEF OthersKept, Finish
  <2>. QED  BY <1>3, <1>4, <1>5, <1>6, <2>1, <2>2 DEF TypeOK
<1>8. CASE status # 201
  <2>1. sprm' = sprm  BY <1>4, <1>5, <1>8 DEF Serve
  <2>2. pc'[r] \in {"provision", "rollback"} /\ OthersKept(r)
    <3>1. CASE TryAgain(r)  BY <1>3, <3>1 DEF TryAgain, OthersKept
    <3>2. CASE Answer(r, HandleSPRMError(status), "rollback")
      BY <1>3, <3>2, Moves DEF OthersKept
    <3>. QED  BY <1>5, <1>8, <3>1, <3>2
  <2>. QED  BY <1>3, <1>5, <1>6, <2>1, <2>2
<1>. QED  BY <1>7, <1>8

LEMMA ProvisionMints ==
  ASSUME Continuous, TypeOK, Minting, NEW r \in Req, Provision(r)
  PROVE  Minting'
<1>1. PICK x \in Id :
        /\ pc[r] = "provision" /\ Making(r, x) /\ OthersKept(r)
        /\ UNCHANGED <<db, cleanup, late, minted, job, alive>>
        /\ \/ /\ \A y \in Id \ {x} : sprm'[y] = sprm[y]
              /\ pc'[r] \in {"deferred", "done"}
           \/ sprm' = sprm /\ pc'[r] \in {"provision", "rollback"}
  BY ProvisionEffect
<1>2. \A y \in Id :
        /\ Recorded(y)' <=> Recorded(y)
        /\ (Making(r, y)' => Making(r, y)) /\ (Replacing(r, y)' => Replacing(r, y))
  BY <1>1 DEF Making, Replacing, Recorded
<1>3. \A y \in Id :
        \/ y = x /\ pc'[r] \in {"deferred", "done"}
        \/ Provisioned(y)' <=> Provisioned(y)
  BY <1>1 DEF Provisioned
<1>4. \A y \in Id : Fresh(y) => Fresh(y)' \/ (y = x /\ pc'[r] \in {"deferred", "done"})
  BY <1>1, <1>2, <1>3 DEF Fresh
<1>. QED  BY <1>1, <1>2, <1>3, <1>4, MintStep DEF Minting, Before

\* What the removal of a row does.
LEMMA RemovalEffect ==
  ASSUME Continuous, TypeOK, Minting, NEW r \in Req, Rollback(r) \/ Remove(r)
  PROVE  \E x \in Id :
           /\ \/ pc[r] = "rollback" /\ Making(r, x)
              \/ pc[r] = "remove" /\ Dooming(r, x)
           /\ OthersKept(r) /\ pc'[r] = "done"
           /\ UNCHANGED <<sprm, cleanup, late, minted, job, alive>>
           /\ \A y \in Id : db'[y] = db[y] \/ (y = x /\ db'[y] = None)
<1>1. CASE Rollback(r)
  <2>1. PICK x \in Id : x = job[r].new  BY <1>1, KindOf DEF Rollback
  <2>2. /\ pc[r] = "rollback" /\ UNCHANGED <<sprm, cleanup, late, minted, job, alive>>
        /\ Finish(r, resp[r]) /\ \E err \in StoreError : StoreDelete(x, alive[r], err)
    BY <1>1, <2>1 DEF Rollback, Undo
  <2>3. Making(r, x)  BY <2>1, <2>2, KindOf DEF Making
  <2>4. OthersKept(r) /\ pc'[r] = "done"  BY <2>2, Moves DEF OthersKept, Finish
  <2>5. \A y \in Id : db'[y] = db[y] \/ (y = x /\ db'[y] = None)
    BY <2>2 DEF StoreDelete, Breaks, TypeOK
  <2>. QED  BY <2>2, <2>3, <2>4, <2>5
<1>2. CASE Remove(r)
  <2>1. PICK x \in Id : x = job[r].id  BY <1>2, KindOf DEF Remove
  <2>2. /\ pc[r] = "remove" /\ UNCHANGED <<sprm, cleanup, late, minted, job, alive>>
        /\ (\E code : Finish(r, code)) /\ \E err \in StoreError : StoreDelete(x, alive[r], err)
    BY <1>2, <2>1 DEF Remove
  <2>3. Dooming(r, x)  BY <2>1, <2>2, KindOf DEF Dooming, Replacing
  <2>4. OthersKept(r) /\ pc'[r] = "done"  BY <2>2, Moves DEF OthersKept, Finish
  <2>5. \A y \in Id : db'[y] = db[y] \/ (y = x /\ db'[y] = None)
    BY <2>2 DEF StoreDelete, Breaks, TypeOK
  <2>. QED  BY <2>2, <2>3, <2>4, <2>5
<1>. QED  BY <1>1, <1>2

LEMMA RemovalMints ==
  ASSUME Continuous, TypeOK, Minting, NEW r \in Req, Rollback(r) \/ Remove(r)
  PROVE  Minting'
<1>1. PICK x \in Id :
        /\ pc[r] \in {"rollback", "remove"}
        /\ OthersKept(r) /\ pc'[r] = "done"
        /\ UNCHANGED <<sprm, cleanup, late, minted, job, alive>>
        /\ \A y \in Id : db'[y] = db[y] \/ (y = x /\ db'[y] = None)
  BY RemovalEffect
<1>2. \A y \in Id :
        /\ Recorded(y)' => Recorded(y) /\ db'[y] = db[y]
        /\ Provisioned(y)' <=> Provisioned(y)
        /\ (Making(r, y)' => Making(r, y)) /\ ~Replacing(r, y)'
  BY <1>1 DEF Making, Replacing, Recorded, Provisioned
<1>3. \A y \in Id : Fresh(y) => Fresh(y)'  BY <1>1, <1>2 DEF Fresh
<1>. QED  BY <1>1, <1>2, <1>3, MintStep DEF Minting, Before

\* What a deferred deletion does: the instance goes, or is queued, or stays.
LEMMA DeferredEffect ==
  ASSUME Continuous, TypeOK, Minting, NEW r \in Req, Deferred(r)
  PROVE  \E x \in Id :
           /\ pc[r] = "deferred" /\ Dooming(r, x) /\ OthersKept(r) /\ pc'[r] \in {"deferred", "remove"}
           /\ UNCHANGED <<db, late, minted, job, alive>>
           /\ \A y \in Id : sprm'[y] = sprm[y] \/ (y = x /\ sprm'[y] = None)
           /\ cleanup' \subseteq cleanup \cup {x}
           /\ x \in cleanup' => x \in cleanup \/ Provisioned(x)
<1>1. PICK x \in Id : x = job[r].id  BY KindOf DEF Deferred
<1>2. PICK c \in SprmCall : c = SprmRequest(r, "deferred")
  BY RequestType DEF Deferred, Ops
<1>3. /\ pc[r] = "deferred" /\ Dooming(r, x) /\ UNCHANGED <<db, minted, job, alive>>
      /\ c.op = "deferred" /\ c.id = x
  BY <1>1, <1>2, KindOf DEF Deferred, Dooming, Replacing, SprmRequest
<1>4. PICK status \in Statuses :
        Serve(c, status) /\ late' = late /\ (TryAgain(r) \/ Go(r, "remove"))
  BY <1>2, AttemptServed DEF Deferred, OldInstance, Replaced
<1>5. OthersKept(r) /\ pc'[r] \in {"deferred", "remove"}
  <2>1. CASE TryAgain(r)  BY <1>3, <2>1 DEF TryAgain, OthersKept
  <2>2. CASE Go(r, "remove")  BY <1>3, <2>2, Moves DEF OthersKept
  <2>. QED  BY <1>4, <2>1, <2>2
<1>6. /\ \A y \in Id : sprm'[y] = sprm[y] \/ (y = x /\ sprm'[y] = None)
      /\ cleanup' \subseteq cleanup \cup {x}
      /\ x \in cleanup' => x \in cleanup \/ Provisioned(x)
  BY <1>3, <1>4 DEF Serve, TypeOK, Provisioned
<1>. QED  BY <1>3, <1>4, <1>5, <1>6

LEMMA DeferredMints ==
  ASSUME Continuous, TypeOK, Minting, NEW r \in Req, Deferred(r)
  PROVE  Minting'
<1>1. PICK x \in Id :
        /\ pc[r] = "deferred" /\ OthersKept(r) /\ pc'[r] \in {"deferred", "remove"}
        /\ UNCHANGED <<db, late, minted, job, alive>>
        /\ \A y \in Id : sprm'[y] = sprm[y] \/ (y = x /\ sprm'[y] = None)
        /\ cleanup' \subseteq cleanup \cup {x}
        /\ x \in cleanup' => x \in cleanup \/ Provisioned(x)
  BY DeferredEffect
<1>2. \A y \in Id :
        /\ Recorded(y)' <=> Recorded(y)
        /\ Provisioned(y)' => Provisioned(y)
        /\ (Making(r, y)' => Making(r, y)) /\ (Replacing(r, y)' => Replacing(r, y))
  BY <1>1 DEF Making, Replacing, Recorded, Provisioned
<1>3. \A y \in Id : Fresh(y) => Fresh(y)'  BY <1>1, <1>2 DEF Fresh
<1>. QED  BY <1>1, <1>2, <1>3, MintStep DEF Minting, Before

LEMMA ReplyMints ==
  ASSUME TypeOK, Minting, NEW r \in Req, Reply(r)
  PROVE  Minting'
<1>1. /\ OthersKept(r) /\ pc'[r] = "idle" /\ UNCHANGED <<db, sprm, cleanup, late, minted>>
      /\ \A q \in Req : alive'[q]
  BY DEF Reply, OthersKept, TypeOK, Minting
<1>2. \A y \in Id : ~Making(r, y)' /\ ~Replacing(r, y)'  BY <1>1 DEF Making, Replacing
<1>. QED  BY <1>1, <1>2, MintStep DEF Recorded, Provisioned, Fresh, Minting, Before

\* What a stop leaves under way: creations of resources that were being made and
\* deferred deletions of resources that were being replaced.
LEMMA CutOff ==
  ASSUME Continuous, TypeOK, Minting, NEW c \in InFlight
  PROVE  /\ c \in SprmCall /\ c.op # "delete" /\ c.id \in minted
         /\ c.op = "deferred" => \E r \in Req : Dooming(r, c.id)
<1>1. PICK r \in Req : WaitsFor(r, c)  BY InFlightType
<1>2. c \in SprmCall /\ c.id \in Id  BY InFlightType DEF SprmCall
<1>3. CASE pc[r] = "provision" /\ c = SprmRequest(r, "create")
  <2>1. c.op = "create" /\ Making(r, c.id)  BY <1>3, KindOf DEF SprmRequest, Making
  <2>. QED  BY <1>2, <2>1 DEF Minting, MakesAlone
<1>4. CASE pc[r] = "deferred" /\ c = SprmRequest(r, "deferred")
  <2>1. c.op = "deferred" /\ Dooming(r, c.id)
    BY <1>4, KindOf DEF SprmRequest, Dooming, Replacing
  <2>. QED  BY <1>2, <2>1 DEF Dooming, Minting, ReplacesSeen
<1>5. pc[r] # "unprovision"
  <2>1. CASE pc[r] = "idle"  BY <2>1
  <2>2. CASE pc[r] # "idle"  BY <2>2, KindOf
  <2>. QED  BY <2>1, <2>2
<1>. QED  BY <1>1, <1>3, <1>4, <1>5 DEF WaitsFor

LEMMA CrashMints ==
  ASSUME Continuous, TypeOK, Minting, Crash
  PROVE  Minting'
<1>1. late' \subseteq late \cup InFlight /\ \A q \in Req : pc'[q] = "idle"
  BY Lingers DEF Crash
<1>2. \A c \in late' : \/ c \in late
                     \/ /\ c.op # "delete" /\ c.id \in minted
                        /\ \A q \in Req : pc'[q] = "idle"
  BY <1>1, CutOff
<1>. QED  BY <1>2, MintQuiet DEF Crash, Provisioned

\* What the delivery of a late call does, to no resource in the making.
LEMMA DeliverEffect ==
  ASSUME TypeOK, Minting, NEW c \in late, Deliver(c)
  PROVE  \E x \in Id :
           /\ c.id = x /\ x \in minted /\ \A q \in Req : ~Making(q, x)
           /\ UNCHANGED <<db, minted, pc, job, alive>> /\ late' \subseteq late
           /\ \A y \in Id \ {x} : sprm'[y] = sprm[y]
           /\ \/ c.op = "create" /\ cleanup' = cleanup /\ (Provisioned(x) => Provisioned(x)')
              \/ c.op = "deferred" /\ cleanup' \subseteq cleanup \cup {x}
<1>1. PICK x \in Id : c.id = x  BY DEF TypeOK, SprmCall
<1>2. c.op \in {"create", "deferred"} /\ x \in minted /\ \A q \in Req : ~Making(q, x)
  BY <1>1 DEF Minting, LateSettled, TypeOK, SprmCall, Ops
<1>3. UNCHANGED <<db, minted, pc, job, alive>> /\ late' \subseteq late
  BY DEF Deliver
<1>4. PICK status \in Statuses : Serve(c, status)  BY DEF Deliver
<1>5. \A y \in Id \ {x} : sprm'[y] = sprm[y]
  BY <1>1, <1>4 DEF Serve, TypeOK
<1>6. CASE c.op = "create"
  <2>1. cleanup' = cleanup /\ (Provisioned(x) => Provisioned(x)')
    BY <1>1, <1>4, <1>6 DEF Serve, Provisioned
  <2>. QED  BY <1>1, <1>2, <1>3, <1>5, <1>6, <2>1
<1>7. CASE c.op = "deferred"
  <2>1. cleanup' \subseteq cleanup \cup {x}
    BY <1>1, <1>4, <1>7 DEF Serve
  <2>. QED  BY <1>1, <1>2, <1>3, <1>5, <1>7, <2>1
<1>. QED  BY <1>2, <1>6, <1>7

LEMMA DeliverMints ==
  ASSUME TypeOK, Minting, NEW c \in late, Deliver(c)
  PROVE  Minting'
<1>1. PICK x \in Id :
        /\ x \in minted /\ \A q \in Req : ~Making(q, x)
        /\ UNCHANGED <<db, minted, pc, job, alive>> /\ late' \subseteq late
        /\ \A y \in Id \ {x} : sprm'[y] = sprm[y]
        /\ cleanup' \subseteq cleanup \cup {x}
  BY DeliverEffect
<1>2. \A q \in Req, y \in Id :
        (Making(q, y)' <=> Making(q, y)) /\ (Replacing(q, y)' <=> Replacing(q, y))
  BY <1>1 DEF Making, Replacing
<1>3. \A y \in Id :
        /\ Recorded(y)' <=> Recorded(y)
        /\ y # x => (Provisioned(y)' <=> Provisioned(y)) /\ (Fresh(y) => Fresh(y)')
  BY <1>1 DEF Recorded, Provisioned, Fresh
<1>4. MakesAlone'  BY <1>1, <1>2 DEF Minting, MakesAlone
<1>5. MakesFresh' /\ MakesItself'
  BY <1>1, <1>2, <1>3 DEF Minting, MakesFresh, MakesItself
<1>6. ReplacesSeen'  BY <1>1, <1>2, <1>3 DEF Minting, ReplacesSeen
<1>7. LateSettled'  BY <1>1, <1>2 DEF Minting, LateSettled, TypeOK, SprmCall
<1>. QED  BY <1>1, <1>3, <1>4, <1>5, <1>6, <1>7 DEF Minting

LEMMA NextMints ==
  ASSUME Continuous, TypeOK, Minting, [Next]_vars
  PROVE  Minting'
<1>1. ASSUME NEW r \in Req, Submit(r) \/ Step(r)
      PROVE  Minting'
  <2>1. ~Unprovision(r)  BY KindOf DEF Unprovision
  <2>. QED
    BY <1>1, <2>1, SubmitMints, GetMints, EvaluateMints, InsertMints, ProvisionMints, RemovalMints,
      DeferredMints, ReplyMints DEF Step
<1>2. \A r \in Req : ~Cancel(r)  BY DEF Continuous, Cancel
<1>3. CASE Crash \/ \E c \in late : Deliver(c)
  BY <1>3, CrashMints, DeliverMints
<1>4. CASE \E x \in Id : SprmCleanUp(x)
  BY <1>4, MintQuiet DEF SprmCleanUp, CleanUp, Minting, Provisioned, TypeOK
<1>5. CASE UNCHANGED vars
  BY <1>5, MintQuiet DEF vars, Minting, Provisioned
<1>. QED  BY <1>1, <1>2, <1>3, <1>4, <1>5 DEF Next

-----------------------------------------------------------------------------
\* The end of the chain.
Doomed(x) ==
  \/ x \in cleanup
  \/ \E r \in Req : Dooming(r, x)
  \/ \E c \in late : c.op = "deferred" /\ c.id = x

Serves(z, c) == Recorded(z) /\ Provisioned(z) /\ db[z].cat = c /\ ~Doomed(z)

\* Something inserted after x serves the catalog item instance c.
Covered(rank, x, c) == \E z \in Id : Serves(z, c) /\ rank[x] < rank[z]

\* A replacement is inserted after what it replaces.
Later(rank) ==
  \A r \in Req, x, y \in Id :
    Making(r, y) /\ Replacing(r, x) /\ pc[r] \in {"provision", "deferred", "remove"} =>
      rank[x] < rank[y]

\* What is being provisioned will serve, or has been replaced already.
Replaceable(rank) ==
  \A r \in Req, y \in Id : Making(r, y) /\ pc[r] = "provision" =>
    \/ Recorded(y) /\ db[y].cat = job[r].cat /\ ~Doomed(y)
    \/ Covered(rank, y, job[r].cat)

\* What is being removed, or queued, or left to be, has been replaced.
Replacement(rank) ==
  /\ \A r \in Req, x \in Id : Dooming(r, x) => Covered(rank, x, job[r].cat)
  /\ \A x \in cleanup : Recorded(x) => Covered(rank, x, db[x].cat)
  /\ \A c \in late : c.op = "deferred" /\ Recorded(c.id) => Covered(rank, c.id, db[c.id].cat)

Ranked(rank, n) ==
  /\ \A x \in Id : rank[x] <= n
  /\ Later(rank) /\ Replaceable(rank) /\ Replacement(rank)

\* What serves goes on serving.
Persists ==
  \A z \in Id : Recorded(z) /\ Provisioned(z) /\ ~Doomed(z) =>
    Recorded(z)' /\ Provisioned(z)' /\ db'[z] = db[z]

\* A live resource that goes was doomed, so another one serves.
LEMMA LiveKept ==
  ASSUME TypeOK, Minting, NEW rank, NEW n, Ranked(rank, n), Persists
  PROVE  \A c \in Cat : Live(c) => Live(c)'
<1>. SUFFICES ASSUME NEW c \in Cat, NEW x \in Id, Recorded(x), Provisioned(x), db[x].cat = c
             PROVE  \E z \in Id : Recorded(z)' /\ Provisioned(z)' /\ db'[z].cat = c
  BY DEF Live
<1>1. CASE ~Doomed(x)  BY <1>1 DEF Persists
<1>2. CASE Doomed(x)
  <2>1. Covered(rank, x, c)
    BY <1>2 DEF Doomed, Ranked, Replacement, Minting, ReplacesSeen, Dooming
  <2>. QED  BY <2>1 DEF Covered, Serves, Persists
<1>. QED  BY <1>1, <1>2

\* Steps that insert no row, and doom nothing that is not.
LEMMA RankKept ==
  ASSUME TypeOK, Minting, NEW rank, NEW n, Ranked(rank, n), Persists,
         \A q \in Req, x \in Id : Making(q, x)' /\ pc'[q] \in {"provision", "deferred", "remove"} =>
           /\ Making(q, x) /\ pc[q] \in {"provision", "deferred", "remove"}
           /\ pc'[q] = "provision" => pc[q] = "provision",
         \A q \in Req, x \in Id : Replacing(q, x)' /\ pc'[q] \in {"provision", "deferred", "remove"} =>
           Replacing(q, x) /\ (pc'[q] # "provision" => Dooming(q, x)),
         \A q \in Req : pc'[q] \in {"provision", "deferred", "remove"} => job'[q] = job[q],
         \A q \in Req, y \in Id : Making(q, y)' /\ pc'[q] = "provision" /\ Recorded(y) /\ ~Doomed(y) =>
           Recorded(y)',
         \A x \in Id : Recorded(x)' => Recorded(x) /\ db'[x] = db[x],
         \A x \in cleanup' : x \in Id /\ Doomed(x),
         \A c \in late' : c.op = "deferred" => c.id \in Id /\ Doomed(c.id)
  PROVE  Ranked(rank, n)'
<1>1. \A x \in Id : Doomed(x)' => Doomed(x)
  BY DEF Doomed, Dooming
<1>2. \A x \in Id : \A c : Serves(x, c) => Serves(x, c)'
  BY <1>1 DEF Serves, Persists
<1>3. \A x, c : Covered(rank, x, c) => Covered(rank, x, c)'
  BY <1>2 DEF Covered
<1>4. Later(rank)'  BY DEF Ranked, Later
<1>5. Replaceable(rank)'
  BY <1>1, <1>3 DEF Ranked, Replaceable
<1>6. Replacement(rank)'
  <2>1. ASSUME NEW q \in Req, NEW x \in Id, Dooming(q, x)'
        PROVE  Covered(rank, x, job[q].cat)'
    BY <1>3, <2>1 DEF Dooming, Ranked, Replacement
  <2>2. ASSUME NEW x \in Id, Doomed(x), Recorded(x)'
        PROVE  Covered(rank, x, db[x].cat)'
    <3>1. Recorded(x) /\ db'[x] = db[x] /\ Doomed(x)  BY <2>2
    <3>2. Covered(rank, x, db[x].cat)
      BY <3>1 DEF Doomed, Ranked, Replacement, Minting, ReplacesSeen, Dooming
    <3>. QED  BY <1>3, <3>1, <3>2
  <2>. QED  BY <2>1, <2>2 DEF Replacement
<1>. QED  BY <1>4, <1>5, <1>6 DEF Ranked

\* The same for a step of one request.
LEMMA RankStep ==
  ASSUME TypeOK, Minting, NEW rank, NEW n, Ranked(rank, n), Persists, NEW r \in Req, OthersKept(r),
         pc'[r] \in {"provision", "deferred", "remove"} =>
           /\ job'[r] = job[r]
           /\ pc'[r] = pc[r] \/ (pc[r] = "deferred" /\ pc'[r] = "remove"),
         \A x \in Id : Recorded(x)' => Recorded(x) /\ db'[x] = db[x],
         \A x \in Id : Recorded(x) /\ ~Recorded(x)' =>
           Doomed(x) \/ (Making(r, x) /\ pc'[r] # "provision"),
         \A x \in cleanup' : x \in Id /\ Doomed(x), late' = late
  PROVE  Ranked(rank, n)'
<1>1. \A q \in Req : pc'[q] \in {"provision", "deferred", "remove"} =>
        /\ job'[q] = job[q]
        /\ pc'[q] = pc[q] \/ (pc[q] = "deferred" /\ pc'[q] = "remove")
  BY DEF OthersKept
<1>2. \A q \in Req, x \in Id : Making(q, x)' /\ pc'[q] \in {"provision", "deferred", "remove"} =>
        /\ Making(q, x) /\ pc[q] \in {"provision", "deferred", "remove"}
        /\ pc'[q] = "provision" => pc[q] = "provision"
  BY <1>1 DEF Making
<1>3. \A q \in Req, x \in Id : Replacing(q, x)' /\ pc'[q] \in {"provision", "deferred", "remove"} =>
        Replacing(q, x) /\ (pc'[q] # "provision" => Dooming(q, x))
  BY <1>1 DEF Replacing, Dooming
<1>4. \A q \in Req, y \in Id : Making(q, y)' /\ pc'[q] = "provision" /\ Recorded(y) /\ ~Doomed(y) =>
        Recorded(y)'
  BY <1>2 DEF Minting, MakesAlone
<1>5. \A c \in late' : c.op = "deferred" => c.id \in Id /\ Doomed(c.id)
  BY DEF TypeOK, SprmCall, Doomed
<1>. QED  BY <1>1, <1>2, <1>3, <1>4, <1>5, RankKept

\* Some ranks do, always.
Chained == \E rank \in [Id -> Nat], n \in Nat : Ranked(rank, n)

-----------------------------------------------------------------------------
\* The steps that neither insert nor provision.
LEMMA QuietChained ==
  ASSUME TypeOK, Minting, NEW rank \in [Id -> Nat], NEW n \in Nat, Ranked(rank, n),
         NEW r \in Req, Submit(r) \/ Get(r) \/ Evaluate(r) \/ Reply(r)
  PROVE  Persists /\ Ranked(rank, n)'
<1>1. UNCHANGED <<db, sprm, cleanup, late>>
  BY DEF Submit, SubmitCreate, SubmitById, SubmitRehydrate, Begin, Get, StoreGet, Evaluate, Reply
<1>2. OthersKept(r) /\ pc'[r] \in {"get", "policy", "insert", "unprovision", "done", "idle"}
  <2>1. CASE Submit(r)
    BY <2>1 DEF OthersKept, Submit, SubmitCreate, SubmitById, SubmitRehydrate, Begin, Go, TypeOK
  <2>2. CASE Get(r) BY <2>2 DEF OthersKept, Get, Finish, Answer, Go, TypeOK
  <2>3. CASE Evaluate(r) BY <2>3 DEF OthersKept, Evaluate, Finish, Answer, Go, TypeOK
  <2>4. CASE Reply(r) BY <2>4 DEF OthersKept, Reply, TypeOK
  <2>. QED  BY <2>1, <2>2, <2>3, <2>4
<1>3. Persists  BY <1>1 DEF Persists, Recorded, Provisioned
<1>4. \A x \in Id : Recorded(x)' <=> Recorded(x)  BY <1>1 DEF Recorded
<1>5. \A x \in cleanup' : x \in Id /\ Doomed(x)  BY <1>1 DEF Doomed, TypeOK
<1>. QED  BY <1>1, <1>2, <1>3, <1>4, <1>5, RankStep

LEMMA RemovalChained ==
  ASSUME Continuous, TypeOK, Minting, NEW rank \in [Id -> Nat], NEW n \in Nat, Ranked(rank, n),
         NEW r \in Req, Rollback(r) \/ Remove(r)
  PROVE  Persists /\ Ranked(rank, n)'
<1>1. PICK x \in Id :
        /\ \/ pc[r] = "rollback" /\ Making(r, x)
           \/ pc[r] = "remove" /\ Dooming(r, x)
        /\ OthersKept(r) /\ pc'[r] = "done"
        /\ UNCHANGED <<sprm, cleanup, late, minted, job, alive>>
        /\ \A y \in Id : db'[y] = db[y] \/ (y = x /\ db'[y] = None)
  BY RemovalEffect
<1>2. Doomed(x) \/ (Making(r, x) /\ ~Provisioned(x))
  BY <1>1 DEF Doomed, Minting, MakesItself
<1>3. \A y \in Id : /\ Recorded(y)' => Recorded(y) /\ db'[y] = db[y]
                    /\ y # x => db'[y] = db[y] /\ (Recorded(y)' <=> Recorded(y))
                    /\ Provisioned(y)' <=> Provisioned(y)
  BY <1>1 DEF Recorded, Provisioned
<1>4. Persists  BY <1>2, <1>3 DEF Persists
<1>5. \A y \in cleanup' : y \in Id /\ Doomed(y)  BY <1>1 DEF Doomed, TypeOK
<1>. QED  BY <1>1, <1>2, <1>3, <1>4, <1>5, RankStep

LEMMA DeferredChained ==
  ASSUME Continuous, TypeOK, Minting, NEW rank \in [Id -> Nat], NEW n \in Nat, Ranked(rank, n),
         NEW r \in Req, Deferred(r)
  PROVE  Persists /\ Ranked(rank, n)'
<1>1. PICK x \in Id :
        /\ pc[r] = "deferred" /\ Dooming(r, x) /\ OthersKept(r) /\ pc'[r] \in {"deferred", "remove"}
        /\ UNCHANGED <<db, late, minted, job, alive>>
        /\ \A y \in Id : sprm'[y] = sprm[y] \/ (y = x /\ sprm'[y] = None)
        /\ cleanup' \subseteq cleanup \cup {x}
  BY DeferredEffect
<1>2. Doomed(x)  BY <1>1 DEF Doomed
<1>3. \A y \in Id : /\ Recorded(y)' <=> Recorded(y)
                    /\ y # x => (Provisioned(y)' <=> Provisioned(y))
  BY <1>1 DEF Recorded, Provisioned
<1>4. Persists  BY <1>1, <1>2, <1>3 DEF Persists
<1>5. \A y \in cleanup' : y \in Id /\ Doomed(y)  BY <1>1, <1>2 DEF Doomed, TypeOK
<1>. QED  BY <1>1, <1>3, <1>4, <1>5, RankStep

\* Otherwise requests end, and what is queued, or left under way, is executed.
LEMMA SurroundingsChained ==
  ASSUME Continuous, TypeOK, Minting, NEW rank \in [Id -> Nat], NEW n \in Nat, Ranked(rank, n),
         Crash \/ (\E x \in Id : SprmCleanUp(x)) \/ UNCHANGED vars
  PROVE  Persists /\ Ranked(rank, n)'
<1>1. /\ db' = db /\ cleanup' \subseteq cleanup
      /\ \A q \in Req : pc'[q] = "idle" \/ (pc'[q] = pc[q] /\ job'[q] = job[q])
      /\ \A x \in Id : sprm'[x] = sprm[x] \/ x \in cleanup
  BY DEF Crash, SprmCleanUp, CleanUp, vars, TypeOK
<1>2. \A x \in Id : Recorded(x)' <=> Recorded(x)  BY <1>1 DEF Recorded
<1>3. Persists  BY <1>1 DEF Persists, Recorded, Provisioned, Doomed
<1>4. \A y \in cleanup' : y \in Id /\ Doomed(y)  BY <1>1 DEF Doomed, TypeOK
<1>5. \A q \in Req, x \in Id :
        /\ Making(q, x)' => Making(q, x) /\ pc'[q] = pc[q]
        /\ Replacing(q, x)' => Replacing(q, x) /\ pc'[q] = pc[q] /\ job'[q] = job[q]
  BY <1>1 DEF Making, Replacing
<1>6. \A q \in Req : pc'[q] \in {"provision", "deferred", "remove"} => job'[q] = job[q]
  BY <1>1
<1>7. \A q \in Req, x \in Id : Replacing(q, x)' /\ pc'[q] \in {"provision", "deferred", "remove"} =>
        Replacing(q, x) /\ (pc'[q] # "provision" => Dooming(q, x))
  BY <1>5 DEF Dooming
<1>8. \A c \in late' : c.op = "deferred" => c.id \in Id /\ Doomed(c.id)
  <2>1. late' \subseteq late \cup InFlight  BY Lingers DEF Crash, SprmCleanUp, vars
  <2>2. \A c \in late : c.op = "deferred" => c.id \in Id /\ Doomed(c.id)
    BY DEF TypeOK, SprmCall, Doomed
  <2>3. \A c \in InFlight : c.op = "deferred" => c.id \in Id /\ Doomed(c.id)
    BY CutOff DEF SprmCall, Doomed
  <2>. QED  BY <2>1, <2>2, <2>3
<1>. QED  BY <1>1, <1>2, <1>3, <1>4, <1>5, <1>6, <1>7, <1>8, RankKept

LEMMA DeliverChained ==
  ASSUME TypeOK, Minting, NEW rank \in [Id -> Nat], NEW n \in Nat, Ranked(rank, n),
         NEW c \in late, Deliver(c)
  PROVE  Persists /\ Ranked(rank, n)'
<1>1. PICK x \in Id :
        /\ c.id = x /\ UNCHANGED <<db, pc, job>> /\ late' \subseteq late
        /\ \A y \in Id \ {x} : sprm'[y] = sprm[y]
        /\ \/ c.op = "create" /\ cleanup' = cleanup /\ (Provisioned(x) => Provisioned(x)')
           \/ c.op = "deferred" /\ cleanup' \subseteq cleanup \cup {x}
  BY DeliverEffect
<1>2. \A y \in Id : Recorded(y)' <=> Recorded(y)  BY <1>1 DEF Recorded
<1>3. Provisioned(x)' \/ Doomed(x) \/ ~Provisioned(x)  BY <1>1 DEF Doomed
<1>4. Persists  BY <1>1, <1>2, <1>3 DEF Persists, Provisioned
<1>5. \A y \in cleanup' : y \in Id /\ Doomed(y)  BY <1>1 DEF Doomed, TypeOK
<1>6. \A d \in late' : d.op = "deferred" => d.id \in Id /\ Doomed(d.id)
  BY <1>1 DEF TypeOK, SprmCall, Doomed
<1>7. \A q \in Req, y \in Id :
        (Making(q, y)' <=> Making(q, y)) /\ (Replacing(q, y)' <=> Replacing(q, y))
  BY <1>1 DEF Making, Replacing
<1>8. \A q \in Req, y \in Id : Replacing(q, y)' /\ pc'[q] \in {"provision", "deferred", "remove"} =>
        Replacing(q, y) /\ (pc'[q] # "provision" => Dooming(q, y))
  BY <1>1, <1>7 DEF Dooming
<1>. QED  BY <1>1, <1>2, <1>4, <1>5, <1>6, <1>7, <1>8, RankKept

-----------------------------------------------------------------------------
\* A new row ranks above all others.
LEMMA InsertChained ==
  ASSUME Continuous, TypeOK, Minting, NEW rank \in [Id -> Nat], NEW n \in Nat, Ranked(rank, n),
         NEW r \in Req, Insert(r)
  PROVE  Persists /\ Chained'
<1>1. PICK x \in Id : x = job[r].new  BY KindOf DEF Insert
<1>2. PICK err \in StoreError :
        /\ pc[r] = "insert" /\ UNCHANGED <<sprm, cleanup, late, job>>
        /\ StoreCreate(x, NewRow(job[r]), alive[r], err) /\ Inserted(r, err)
  BY <1>1 DEF Insert
<1>3. /\ Making(r, x) /\ Fresh(x) /\ \A q \in Req : ~Replacing(q, x) /\ (Making(q, x) => q = r)
  BY <1>1, <1>2, KindOf DEF Making, Minting, MakesFresh, MakesAlone, Before
<1>4. OthersKept(r) /\ pc'[r] \in {"provision", "done"}
  BY <1>2, Moves DEF OthersKept, Inserted, Finish, Insert
<1>5. /\ \A y \in Id \ {x} : db'[y] = db[y] /\ (Recorded(y)' <=> Recorded(y))
      /\ \A y \in Id : Provisioned(y)' <=> Provisioned(y)
  BY <1>2 DEF StoreCreate, Breaks, Recorded, Provisioned, TypeOK
<1>6. pc'[r] = "provision" => Recorded(x)' /\ db'[x].cat = job[r].cat
  <2>1. SUFFICES ASSUME pc'[r] = "provision" PROVE Recorded(x)' /\ db'[x].cat = job[r].cat
    OBVIOUS
  <2>2. err = Nil  BY <1>2, <2>1, Moves DEF Inserted, Finish
  <2>3. NewRow(job[r]) \in Row  BY <1>2, BusySlot DEF JobOK, NewRow, Row
  <2>4. db' = [db EXCEPT ![x] = NewRow(job[r])]  BY <1>2, <2>2 DEF StoreCreate, Nil
  <2>. QED  BY <2>3, <2>4, NoneAssumption DEF NewRow, Recorded, TypeOK
<1>7. \A q \in Req, y \in Id :
        /\ Making(q, y)' => Making(q, y)
        /\ Replacing(q, y)' => Replacing(q, y)
        /\ Dooming(q, y)' <=> Dooming(q, y)
  BY <1>2, <1>4 DEF OthersKept, Making, Replacing, Dooming
<1>8. \A y \in Id : Doomed(y)' <=> Doomed(y)  BY <1>2, <1>7 DEF Doomed
<1>9. Persists  BY <1>3, <1>5 DEF Persists, Fresh
<1> DEFINE new == [rank EXCEPT ![x] = n + 1]
<1>10. /\ new \in [Id -> Nat] /\ n + 1 \in Nat /\ new[x] = n + 1
       /\ \A y \in Id : y # x => new[y] = rank[y] /\ new[y] < n + 1
  BY DEF Ranked
<1>11. \A z \in Id : \A c : Serves(z, c) => z # x /\ Serves(z, c)'
  BY <1>3, <1>5, <1>8 DEF Serves, Fresh
<1>12. \A y \in Id : \A c : y # x /\ Covered(rank, y, c) => Covered(new, y, c)'
  BY <1>10, <1>11 DEF Covered
<1>13. Later(new)'
  <2>. SUFFICES ASSUME NEW q \in Req, NEW w \in Id, NEW y \in Id, Making(q, y)', Replacing(q, w)',
                      pc'[q] \in {"provision", "deferred", "remove"}
               PROVE  new[w] < new[y]
    BY DEF Later
  <2>1. Making(q, y) /\ Replacing(q, w) /\ w # x  BY <1>3, <1>7
  <2>2. CASE q = r
    <3>1. y = x  BY <1>1, <2>1, <2>2 DEF Making
    <3>. QED  BY <1>10, <2>1, <3>1
  <2>3. CASE q # r
    <3>1. y # x /\ pc'[q] = pc[q]  BY <1>3, <1>4, <2>1, <2>3 DEF OthersKept
    <3>2. rank[w] < rank[y]  BY <2>1, <3>1 DEF Ranked, Later
    <3>. QED  BY <1>10, <2>1, <3>1, <3>2
  <2>. QED  BY <2>2, <2>3
<1>14. Replaceable(new)'
  <2>. SUFFICES ASSUME NEW q \in Req, NEW y \in Id, Making(q, y)', pc'[q] = "provision"
               PROVE  \/ Recorded(y)' /\ db'[y].cat = job'[q].cat /\ ~Doomed(y)'
                      \/ Covered(new, y, job[q].cat)'
    BY DEF Replaceable
  <2>1. CASE q = r
    <3>1. y = x  BY <1>1, <1>7, <2>1 DEF Making
    <3>2. ~Doomed(x)  BY <1>3 DEF Doomed, Dooming, Fresh, Minting, LateSettled
    <3>. QED  BY <1>2, <1>6, <1>8, <2>1, <3>1, <3>2
  <2>2. CASE q # r
    <3>1. Making(q, y) /\ y # x /\ pc[q] = "provision"
      BY <1>3, <1>4, <1>7, <2>2 DEF OthersKept
    <3>2. \/ Recorded(y) /\ db[y].cat = job[q].cat /\ ~Doomed(y)
          \/ Covered(rank, y, job[q].cat)
      BY <3>1 DEF Ranked, Replaceable
    <3>3. CASE Covered(rank, y, job[q].cat)
      <4>1. Covered(new, y, job[q].cat)'  BY <1>2, <1>12, <3>1, <3>3
      <4>. QED  BY <4>1
    <3>. QED  BY <1>2, <1>5, <1>8, <3>1, <3>2, <3>3
  <2>. QED  BY <2>1, <2>2
<1>15. Replacement(new)'
  <2>1. ASSUME NEW q \in Req, NEW w \in Id, Dooming(q, w)'
        PROVE  Covered(new, w, job[q].cat)'
    <3>1. Dooming(q, w) /\ w # x  BY <1>3, <1>7, <2>1 DEF Dooming
    <3>2. Covered(rank, w, job[q].cat)  BY <3>1 DEF Ranked, Replacement
    <3>. QED  BY <1>2, <1>12, <3>1, <3>2
  <2>2. ASSUME NEW w \in cleanup', Recorded(w)'
        PROVE  Covered(new, w, db[w].cat)'
    <3>1. w \in cleanup /\ w \in Id /\ w # x  BY <1>2, <1>3, <2>2 DEF Fresh, TypeOK
    <3>2. Recorded(w) /\ db'[w] = db[w]  BY <1>5, <2>2, <3>1
    <3>3. Covered(rank, w, db[w].cat)  BY <3>1, <3>2 DEF Ranked, Replacement
    <3>. QED  BY <1>12, <3>1, <3>2, <3>3
  <2>3. ASSUME NEW c \in late', c.op = "deferred", Recorded(c.id)'
        PROVE  Covered(new, c.id, db[c.id].cat)'
    <3>1. PICK w \in Id : w = c.id  BY <1>2, <2>3 DEF TypeOK, SprmCall
    <3>2. c \in late /\ w # x  BY <1>2, <1>3, <2>3, <3>1 DEF Minting, LateSettled
    <3>3. Recorded(w) /\ db'[w] = db[w]  BY <1>5, <2>3, <3>1, <3>2
    <3>4. Covered(rank, w, db[w].cat)  BY <2>3, <3>1, <3>2, <3>3 DEF Ranked, Replacement
    <3>. QED  BY <1>12, <3>1, <3>2, <3>3, <3>4
  <2>. QED  BY <2>1, <2>2, <2>3 DEF Replacement
<1>16. Ranked(new, n + 1)'
  <2>1. \A y \in Id : new[y] <= n + 1
    <3>1. \A y \in Id : rank[y] \in Nat /\ new[y] \in Nat  BY <1>10
    <3>. QED  BY <1>10, <3>1
  <2>. QED  BY <1>13, <1>14, <1>15, <2>1 DEF Ranked
<1>. QED  BY <1>9, <1>10, <1>16 DEF Chained

\* A provisioned replacement covers what it replaces, and all that covered.
LEMMA ProvisionChained ==
  ASSUME Continuous, TypeOK, Minting, NEW rank \in [Id -> Nat], NEW n \in Nat, Ranked(rank, n),
         NEW r \in Req, Provision(r)
  PROVE  Persists /\ Ranked(rank, n)'
<1>1. PICK y \in Id :
        /\ pc[r] = "provision" /\ Making(r, y) /\ OthersKept(r)
        /\ UNCHANGED <<db, cleanup, late, minted, job, alive>>
        /\ \/ /\ sprm'[y] # None /\ \A z \in Id \ {y} : sprm'[z] = sprm[z]
              /\ pc'[r] = IF job[r].kind = "rehydrate" THEN "deferred" ELSE "done"
           \/ sprm' = sprm /\ pc'[r] \in {"provision", "rollback"}
  BY ProvisionEffect
<1>2. \A z \in Id : (Recorded(z)' <=> Recorded(z)) /\ (Provisioned(z) => Provisioned(z)')
  BY <1>1 DEF Recorded, Provisioned
<1>3. Persists  BY <1>1, <1>2 DEF Persists
<1>4. CASE pc'[r] # "deferred"
  <2>1. \A z \in cleanup' : z \in Id /\ Doomed(z)  BY <1>1 DEF Doomed, TypeOK
  <2>. QED  BY <1>1, <1>2, <1>3, <1>4, <2>1, RankStep
<1>5. CASE pc'[r] = "deferred"
  <2>1. job[r].kind = "rehydrate" /\ Provisioned(y)'  BY <1>1, <1>5 DEF Provisioned
  <2>2. PICK w \in Id : w = job[r].id  BY <1>1, <2>1, KindOf
  <2>3. Replacing(r, w) /\ rank[w] < rank[y] /\ (Recorded(w) => db[w].cat = job[r].cat)
    BY <1>1, <2>1, <2>2 DEF Replacing, Ranked, Later, Minting, ReplacesSeen
  <2>4. \A q \in Req, z \in Id :
          /\ Making(q, z)' <=> Making(q, z)
          /\ Replacing(q, z)' <=> Replacing(q, z)
          /\ Dooming(q, z)' <=> Dooming(q, z) \/ (q = r /\ z = w)
    BY <1>1, <1>5, <2>1, <2>2 DEF OthersKept, Making, Replacing, Dooming
  <2>5. \A z \in Id : Doomed(z)' <=> Doomed(z) \/ z = w
    BY <1>1, <2>4 DEF Doomed
  <2>6. \A z \in Id : \A c : z # w /\ Serves(z, c) => Serves(z, c)'
    BY <1>1, <1>2, <2>5 DEF Serves
  <2>7. PICK end \in Id : Serves(end, job[r].cat)' /\ rank[w] < rank[end]
    <3>1. CASE Recorded(y) /\ db[y].cat = job[r].cat /\ ~Doomed(y)
      <4>1. y # w  BY <2>3
      <4>2. Serves(y, job[r].cat)'  BY <1>1, <1>2, <2>1, <2>5, <3>1, <4>1 DEF Serves
      <4>. QED  BY <2>3, <4>2
    <3>2. CASE Covered(rank, y, job[r].cat)
      <4>1. PICK z \in Id : Serves(z, job[r].cat) /\ rank[y] < rank[z]
        BY <3>2 DEF Covered
      <4>2. rank[w] < rank[z] /\ z # w  BY <2>3, <4>1
      <4>. QED  BY <1>1, <2>6, <4>1, <4>2
    <3>. QED  BY <1>1, <3>1, <3>2 DEF Ranked, Replaceable
  <2>8. \A u \in Id : \A c : Covered(rank, u, c) => Covered(rank, u, c)'
    <3>. SUFFICES ASSUME NEW u \in Id, NEW c, NEW z \in Id, Serves(z, c), rank[u] < rank[z]
                 PROVE  \E v \in Id : Serves(v, c)' /\ rank[u] < rank[v]
      BY DEF Covered
    <3>1. CASE z # w  BY <2>6, <3>1
    <3>2. CASE z = w
      <4>1. c = job[r].cat  BY <2>3, <3>2 DEF Serves
      <4>2. rank[u] < rank[end]  BY <2>7, <3>2
      <4>. QED  BY <1>1, <2>7, <4>1, <4>2
    <3>. QED  BY <3>1, <3>2
  <2>9. Covered(rank, w, job[r].cat)'  BY <2>7 DEF Covered
  <2>10. Later(rank)'
    BY <1>1, <1>5, <2>4 DEF Ranked, Later, OthersKept
  <2>11. Replaceable(rank)'
    <3>. SUFFICES ASSUME NEW q \in Req, NEW z \in Id, Making(q, z)', pc'[q] = "provision"
                 PROVE  \/ Recorded(z)' /\ db'[z].cat = job'[q].cat /\ ~Doomed(z)'
                        \/ Covered(rank, z, job[q].cat)'
      BY DEF Replaceable
    <3>1. Making(q, z) /\ pc[q] = "provision"  BY <1>1, <1>5, <2>4 DEF OthersKept
    <3>2. \/ Recorded(z) /\ db[z].cat = job[q].cat /\ ~Doomed(z)
          \/ Covered(rank, z, job[q].cat)
      BY <3>1 DEF Ranked, Replaceable
    <3>3. CASE Covered(rank, z, job[q].cat)  BY <1>1, <2>8, <3>3
    <3>4. CASE Recorded(z) /\ db[z].cat = job[q].cat /\ ~Doomed(z) /\ z = w
      <4>1. job[q].cat = job[r].cat  BY <2>3, <3>4
      <4>. QED  BY <1>1, <2>9, <3>4, <4>1
    <3>5. CASE Recorded(z) /\ db[z].cat = job[q].cat /\ ~Doomed(z) /\ z # w
      BY <1>1, <1>2, <2>5, <3>5
    <3>. QED  BY <3>2, <3>3, <3>4, <3>5
  <2>12. Replacement(rank)'
    <3>1. ASSUME NEW q \in Req, NEW z \in Id, Dooming(q, z)'
          PROVE  Covered(rank, z, job[q].cat)'
      <4>1. CASE q = r /\ z = w  BY <1>1, <2>9, <4>1
      <4>2. CASE Dooming(q, z)
        BY <1>1, <2>8, <4>2 DEF Ranked, Replacement
      <4>. QED  BY <2>4, <3>1, <4>1, <4>2
    <3>2. ASSUME NEW z \in cleanup', Recorded(z)'
          PROVE  Covered(rank, z, db[z].cat)'
      <4>1. z \in cleanup /\ z \in Id  BY <1>1 DEF TypeOK
      <4>2. Covered(rank, z, db[z].cat)  BY <1>2, <3>2, <4>1 DEF Ranked, Replacement
      <4>. QED  BY <1>1, <2>8, <4>1, <4>2
    <3>3. ASSUME NEW c \in late', c.op = "deferred", Recorded(c.id)'
          PROVE  Covered(rank, c.id, db[c.id].cat)'
      <4>1. PICK z \in Id : c \in late /\ z = c.id  BY <1>1, <3>3 DEF TypeOK, SprmCall
      <4>2. Covered(rank, z, db[z].cat)  BY <1>2, <3>3, <4>1 DEF Ranked, Replacement
      <4>. QED  BY <1>1, <2>8, <4>1, <4>2
    <3>. QED  BY <3>1, <3>2, <3>3 DEF Replacement
  <2>. QED  BY <1>3, <2>10, <2>11, <2>12 DEF Ranked
<1>. QED  BY <1>4, <1>5

-----------------------------------------------------------------------------
LEMMA InitChained == Init => Minting /\ Chained
<1>. SUFFICES ASSUME Init PROVE Minting /\ Chained  OBVIOUS
<1>1. \A r \in Req, x \in Id : ~Making(r, x) /\ ~Replacing(r, x) /\ ~Dooming(r, x)
  BY DEF Init, Making, Replacing, Dooming
<1>2. Minting
  BY <1>1 DEF Init, Minting, MakesAlone, MakesFresh, MakesItself, ReplacesSeen, LateSettled,
    Fresh, Recorded, Provisioned
<1>3. Ranked([x \in Id |-> 0], 0)
  BY <1>1 DEF Init, Ranked, Later, Replaceable, Replacement
<1>. QED  BY <1>2, <1>3 DEF Chained

LEMMA NextChained ==
  ASSUME Continuous, TypeOK, Minting, Chained, [Next]_vars
  PROVE  Chained' /\ \A c \in Cat : Live(c) => Live(c)'
<1>1. PICK rank \in [Id -> Nat], n \in Nat : Ranked(rank, n)  BY DEF Chained
<1>2. ASSUME NEW r \in Req, Submit(r) \/ Step(r)
      PROVE  Persists /\ Chained'
  <2>1. ~Unprovision(r)  BY KindOf DEF Unprovision
  <2>2. CASE Insert(r)  BY <1>1, <2>2, InsertChained
  <2>3. CASE ~Insert(r)
    <3>1. Persists /\ Ranked(rank, n)'
      BY <1>1, <1>2, <2>1, <2>3, QuietChained, ProvisionChained, RemovalChained, DeferredChained DEF Step
    <3>. QED  BY <3>1 DEF Chained
  <2>. QED  BY <2>2, <2>3
<1>3. \A r \in Req : ~Cancel(r)  BY DEF Continuous, Cancel
<1>4. ASSUME \/ Crash \/ \E x \in Id : SprmCleanUp(x)
             \/ UNCHANGED vars \/ \E c \in late : Deliver(c)
      PROVE  Persists /\ Chained'
  <2>1. Persists /\ Ranked(rank, n)'  BY <1>1, <1>4, SurroundingsChained, DeliverChained
  <2>. QED  BY <2>1 DEF Chained
<1>5. Persists /\ Chained'  BY <1>2, <1>3, <1>4 DEF Next
<1>. QED  BY <1>1, <1>5, LiveKept

(***************************************************************************)
(* Where nothing deletes, ids are UUIDs, no client disconnects and no      *)
(* answer of the SPRM is lost while its caller waits, a catalog item       *)
(* instance that runs somewhere never stops running, for any number of     *)
(* racing rehydrations, stops in the middle of anything, whenever the      *)
(* calls these cut off are executed, and database faults.                  *)
(***************************************************************************)
THEOREM ServedAlways ==
  ASSUME Continuous
  PROVE  Spec => AlwaysServed
<1> DEFINE ServedNow == \A c \in Cat : Live(c) => Live(c)'
<1>1. Init => TypeOK /\ Minting /\ Chained  BY InitType, InitChained
<1>2. TypeOK /\ Minting /\ Chained /\ [Next]_vars => (TypeOK /\ Minting /\ Chained)' /\ [ServedNow]_vars
  BY NextType, NextMints, NextChained
<1>. QED  BY <1>1, <1>2, PTL DEF Spec, AlwaysServed
=============================================================================
