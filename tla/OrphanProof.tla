------------------------------ MODULE OrphanProof ------------------------------
(***************************************************************************)
(* NoOrphan and OneHolder for every value of the constants, where nothing  *)
(* rehydrates and no answer of the SPRM is lost while its caller waits.    *)
(* Clients may disconnect, the process may stop and the database fail, and *)
(* the calls they cut off may be executed at any later time or never.      *)
(*                                                                         *)
(* NoOrphan is not inductive: a rollback or a row deletion removes a row   *)
(* without looking at the SPRM.  It may do so because whoever removes a    *)
(* row owns it (OneHolder), and because no creation still under way can    *)
(* provision a row that is gone (LateOwned).                               *)
(***************************************************************************)
EXTENDS PlacementProof

Owned == NoOrphan /\ OneHolder /\ LateOwned

-----------------------------------------------------------------------------
\* Steps that neither remove a row nor provision one nor take one over.
LEMMA Weaker ==
  ASSUME Owned, late \subseteq SprmCall,
         \A x \in Id : Recorded(x) => Recorded(x)',
         \A x \in Id : Provisioned(x)' => Provisioned(x),
         \A c \in late' : c.op = "create" => c \in late,
         \A q \in Req, x \in Id : Holds(q, x)' => Holds(q, x)
  PROVE  Owned'
<1>1. NoOrphan' BY DEF Owned, NoOrphan
<1>2. OneHolder' BY DEF Owned, OneHolder, LateCreations
<1>3. LateOwned' BY DEF Owned, LateOwned, SprmCall
<1>4. QED BY <1>1, <1>2, <1>3 DEF Owned

\* The owner of a row removes it and leaves.
LEMMA OwnerRemoves ==
  ASSUME Owned, late \subseteq SprmCall, db \in [Id -> Row \cup {None}],
         NEW r \in Req, NEW x \in Id, Holds(r, x),
         db' = [db EXCEPT ![x] = None], sprm' = sprm, late' = late,
         \A q \in Req, y \in Id : Holds(q, y)' => q # r /\ Holds(q, y)
  PROVE  Owned'
<1>1. ~Provisioned(x) /\ LateCreations(x) = {} /\ \A q \in Req : Holds(q, x) => q = r
  BY DEF Owned, OneHolder
<1>2. \A y \in Id : y # x => (Recorded(y)' <=> Recorded(y))
  BY DEF Recorded
<1>3. \A y \in Id : Provisioned(y)' <=> Provisioned(y)
  BY DEF Provisioned
<1>4. NoOrphan' BY <1>1, <1>2, <1>3 DEF Owned, NoOrphan
<1>5. OneHolder' BY <1>1, <1>2, <1>3 DEF Owned, OneHolder, LateCreations
<1>6. LateOwned' BY <1>1, <1>2, <1>3 DEF Owned, LateOwned, LateCreations, SprmCall
<1>7. QED BY <1>4, <1>5, <1>6 DEF Owned

\* The owner of a row leaves it to its instance, or to a late creation.
LEMMA OwnerProvisions ==
  ASSUME Owned, late \subseteq SprmCall, sprm \in [Id -> Instance \cup {None}],
         NEW r \in Req, NEW x \in Id, Holds(r, x), NEW i,
         db' = db, sprm' = [sprm EXCEPT ![x] = i], late' = late,
         \A q \in Req, y \in Id : Holds(q, y)' => q # r /\ Holds(q, y)
  PROVE  Owned'
<1>1. Recorded(x) /\ LateCreations(x) = {} /\ \A q \in Req : Holds(q, x) => q = r
  BY DEF Owned, OneHolder
<1>2. \A y \in Id : y # x => (Provisioned(y)' <=> Provisioned(y))
  BY DEF Provisioned
<1>3. \A y \in Id : Recorded(y)' <=> Recorded(y)
  BY DEF Recorded
<1>4. NoOrphan' BY <1>1, <1>2, <1>3 DEF Owned, NoOrphan
<1>5. OneHolder' BY <1>1, <1>2, <1>3 DEF Owned, OneHolder, LateCreations
<1>6. LateOwned' BY <1>1, <1>2, <1>3 DEF Owned, LateOwned, LateCreations, SprmCall
<1>7. QED BY <1>4, <1>5, <1>6 DEF Owned

LEMMA OwnerGivesUp ==
  ASSUME Owned, late \subseteq SprmCall,
         NEW r \in Req, NEW x \in Id, Holds(r, x), NEW c \in SprmCall, c.id = x,
         db' = db, sprm' = sprm, late' \subseteq late \cup {c},
         \A q \in Req, y \in Id : Holds(q, y)' => q # r /\ Holds(q, y)
  PROVE  Owned'
<1>1. Recorded(x) /\ ~Provisioned(x) /\ LateCreations(x) = {} /\ \A q \in Req : Holds(q, x) => q = r
  BY DEF Owned, OneHolder
<1>2. \A y \in Id : (Provisioned(y)' <=> Provisioned(y)) /\ (Recorded(y)' <=> Recorded(y))
  BY DEF Provisioned, Recorded
<1>3. NoOrphan' BY <1>2 DEF Owned, NoOrphan
<1>4. OneHolder' BY <1>1, <1>2 DEF Owned, OneHolder, LateCreations
<1>5. LateOwned' BY <1>1, <1>2 DEF Owned, LateOwned, LateCreations, SprmCall
<1>6. QED BY <1>3, <1>4, <1>5 DEF Owned

\* A request comes to own a row nobody owns, without an instance.
LEMMA Acquires ==
  ASSUME Owned, late \subseteq SprmCall, NEW r \in Req, NEW x \in Id,
         Recorded(x)', ~Provisioned(x)', late' = late,
         LateCreations(x) = {}, \A q \in Req : ~Holds(q, x),
         \A y \in Id \ {x} : (Recorded(y)' <=> Recorded(y)) /\ (Provisioned(y)' <=> Provisioned(y)),
         \A q \in Req, y \in Id : Holds(q, y)' => (q = r /\ y = x) \/ (q # r /\ Holds(q, y))
  PROVE  Owned'
<1>1. NoOrphan' BY DEF Owned, NoOrphan
<1>2. OneHolder' BY DEF Owned, OneHolder, LateCreations
<1>3. LateOwned' BY DEF Owned, LateOwned, LateCreations, SprmCall
<1>4. QED BY <1>1, <1>2, <1>3 DEF Owned

-----------------------------------------------------------------------------
\* What a step of one request does to the ownership of rows.

\* The step of r leaves the slots of the other requests alone.
OthersKept(r) ==
  \A q \in Req \ {r} : pc'[q] = pc[q] /\ job'[q] = job[q] /\ alive'[q] = alive[q]

\* r owns nothing when it is elsewhere, or rolls back under a dead context.
LEMMA NotHolding ==
  ASSUME NEW r \in Req, OthersKept(r),
         \/ pc'[r] \notin {"provision", "rollback", "remove"}
         \/ pc'[r] = "rollback" /\ ~alive'[r]
  PROVE  \A q \in Req, y \in Id : Holds(q, y)' => q # r /\ Holds(q, y)
  BY DEF Holds, OthersKept

\* Go and Answer move one request.
LEMMA Moves ==
  ASSUME TypeOK, NEW r \in Req, NEW at, NEW code, Go(r, at) \/ Answer(r, code, at)
  PROVE  pc'[r] = at /\ \A q \in Req \ {r} : pc'[q] = pc[q]
  BY DEF TypeOK, Go, Answer

LEMMA Stays ==
  ASSUME NEW r \in Req, TryAgain(r), job' = job, alive' = alive
  PROVE  \A q \in Req, y \in Id : Holds(q, y)' => Holds(q, y)
  BY DEF Holds, TryAgain

-----------------------------------------------------------------------------
\* The circumstances of the theorem.
Tame == "loss" \notin Faults /\ "rehydrate" \notin Kinds

LEMMA TameJob ==
  ASSUME Tame, TypeOK, NEW r \in Req, pc[r] # "idle"
  PROVE  /\ pc[r] # "deferred"
         /\ pc[r] \in {"policy", "insert", "provision", "rollback"} =>
              job[r].kind = "create" /\ job[r].new \in Id
         /\ pc[r] \in {"unprovision", "remove"} => job[r].kind = "delete" /\ job[r].id \in Id
<1>1. job[r].kind \in AllKinds /\ job[r].kind # "rehydrate" /\ JobOK(r)
  BY BusySlot DEF Tame, Job
<1>2. QED BY <1>1 DEF AllKinds, JobOK, PCOf

LEMMA SubmitOwned ==
  ASSUME TypeOK, Owned, NEW r \in Req, Submit(r)
  PROVE  Owned'
<1>1. \E j, at : Begin(r, j, at) /\ at \in {"get", "policy"}
  <2>1. CASE SubmitCreate(r) BY <2>1 DEF SubmitCreate
  <2>2. CASE SubmitById(r) BY <2>2 DEF SubmitById
  <2>3. CASE SubmitRehydrate(r) BY <2>3 DEF SubmitRehydrate
  <2>4. QED BY <2>1, <2>2, <2>3 DEF Submit
<1>2. OthersKept(r) /\ pc'[r] \in {"get", "policy"} /\ UNCHANGED <<db, sprm, late>>
  BY <1>1 DEF OthersKept, Begin, Go, TypeOK
<1>3. \A q \in Req, y \in Id : Holds(q, y)' => Holds(q, y)
  BY <1>2, NotHolding
<1>4. QED BY <1>2, <1>3, Weaker DEF TypeOK, Recorded, Provisioned

\* Steps that call neither the SPRM nor change the database.
LEMMA QuietOwned ==
  ASSUME TypeOK, Owned, NEW r \in Req, Get(r) \/ Evaluate(r) \/ Reply(r)
  PROVE  Owned'
<1>1. UNCHANGED <<db, sprm, late>> BY DEF Get, StoreGet, Evaluate, Reply
<1>2. OthersKept(r) /\ pc'[r] \in {"idle", "done", "unprovision", "policy", "insert"}
  <2>1. CASE Get(r) BY <2>1 DEF OthersKept, Get, Finish, Answer, Go, TypeOK
  <2>2. CASE Evaluate(r) BY <2>2 DEF OthersKept, Evaluate, Finish, Answer, Go, TypeOK
  <2>3. CASE Reply(r) BY <2>3 DEF OthersKept, Reply, TypeOK
  <2>4. QED BY <2>1, <2>2, <2>3
<1>3. \A q \in Req, y \in Id : Holds(q, y)' => Holds(q, y)
  BY <1>2, NotHolding
<1>4. QED BY <1>1, <1>3, Weaker DEF TypeOK, Recorded, Provisioned

\* A client that disconnects can only end ownership.
LEMMA CancelOwned ==
  ASSUME TypeOK, Owned, NEW r \in Req, Cancel(r)
  PROVE  Owned'
<1>1. UNCHANGED <<db, sprm, late>> BY DEF Cancel
<1>2. \A q \in Req, y \in Id : Holds(q, y)' => Holds(q, y)
  BY DEF Holds, Cancel, TypeOK
<1>3. QED BY <1>1, <1>2, Weaker DEF TypeOK, Recorded, Provisioned

\* A process that stops ends all ownership: what it leaves under way of a
\* creation is the call of the record's one owner.
LEMMA CrashOwned ==
  ASSUME TypeOK, Owned, Crash
  PROVE  Owned'
<1>1. /\ UNCHANGED <<db, sprm>> /\ late' \subseteq late \cup InFlight
      /\ \A q \in Req : pc'[q] = "idle"
  BY Lingers DEF Crash
<1>2. \A y \in Id : (Recorded(y)' <=> Recorded(y)) /\ (Provisioned(y)' <=> Provisioned(y))
  BY <1>1 DEF Recorded, Provisioned
<1>3. ASSUME NEW c \in InFlight, c.op = "create"
      PROVE  \E r \in Req : Holds(r, c.id) /\ c = SprmRequest(r, "create") /\ c.id \in Id
  <2>1. PICK r \in Req : WaitsFor(r, c) BY InFlightType
  <2>2. pc[r] = "provision" /\ c = SprmRequest(r, "create")
    BY <1>3, <2>1 DEF WaitsFor, SprmRequest
  <2>. QED BY <2>2, InFlightType DEF Holds, SprmRequest, SprmCall
<1>4. ASSUME NEW c \in late', c.op = "create"
      PROVE  /\ Recorded(c.id) /\ ~Provisioned(c.id)
             /\ \A d \in late' : d.op = "create" /\ d.id = c.id => d = c
  <2>1. CASE c \in late
    <3>1. Recorded(c.id) /\ ~Provisioned(c.id) /\ c.id \in Id
      BY <1>4, <2>1 DEF Owned, LateOwned, TypeOK, SprmCall
    <3>2. \A q \in Req : ~Holds(q, c.id)
      BY <1>4, <2>1, <3>1 DEF Owned, OneHolder, LateCreations
    <3>. QED BY <1>1, <1>3, <1>4, <2>1, <3>1, <3>2 DEF Owned, LateOwned
  <2>2. CASE c \in InFlight
    <3>1. PICK r \in Req : Holds(r, c.id) /\ c = SprmRequest(r, "create") /\ c.id \in Id
      BY <1>3, <1>4, <2>2
    <3>2. /\ Recorded(c.id) /\ ~Provisioned(c.id) /\ LateCreations(c.id) = {}
          /\ \A q \in Req : Holds(q, c.id) => q = r
      BY <3>1 DEF Owned, OneHolder
    <3>. QED BY <1>1, <1>3, <3>1, <3>2 DEF LateCreations
  <2>. QED BY <1>1, <2>1, <2>2
<1>5. NoOrphan' BY <1>2 DEF Owned, NoOrphan
<1>6. OneHolder' BY <1>1 DEF OneHolder, Holds
<1>7. LateOwned'
  <2>1. late' \subseteq SprmCall BY <1>1, InFlightType DEF TypeOK
  <2>. QED BY <1>2, <1>4, <2>1 DEF LateOwned, SprmCall
<1>. QED BY <1>5, <1>6, <1>7 DEF Owned

LEMMA InsertOwned ==
  ASSUME Tame, TypeOK, Owned, NEW r \in Req, Insert(r)
  PROVE  Owned'
<1>0. PICK x \in Id : x = job[r].new BY TameJob DEF Insert
<1>1. /\ NewRow(job[r]) # None /\ late \subseteq SprmCall
      /\ UNCHANGED <<sprm, late, job, alive>> /\ pc[r] = "insert"
  <2>1. pc[r] = "insert" /\ UNCHANGED <<sprm, late, job, alive>> BY DEF Insert
  <2>2. NewRow(job[r]) \in Row BY <2>1, BusySlot DEF JobOK, NewRow, Row
  <2>3. QED BY <2>1, <2>2, NoneAssumption DEF TypeOK
<1>2. PICK err \in StoreError :
        StoreCreate(x, NewRow(job[r]), alive[r], err) /\ Inserted(r, err)
  BY <1>0 DEF Insert
<1>3. CASE err = Nil
  <2>1. ~Recorded(x) /\ db' = [db EXCEPT ![x] = NewRow(job[r])] /\ Go(r, "provision")
    BY <1>2, <1>3 DEF StoreCreate, Inserted, Nil, Recorded
  <2>2. pc'[r] = "provision" /\ \A q \in Req \ {r} : pc'[q] = pc[q]
    BY <2>1, Moves
  <2>3. ~Provisioned(x) /\ LateCreations(x) = {} /\ \A q \in Req : ~Holds(q, x)
    BY <1>1, <2>1 DEF Owned, NoOrphan, OneHolder, LateOwned, LateCreations
  <2>4. /\ Recorded(x)' /\ ~Provisioned(x)'
        /\ \A y \in Id \ {x} : (Recorded(y)' <=> Recorded(y)) /\ (Provisioned(y)' <=> Provisioned(y))
    BY <1>1, <2>1, <2>3 DEF Recorded, Provisioned, TypeOK
  <2>5. \A q \in Req, y \in Id : Holds(q, y)' => (q = r /\ y = x) \/ (q # r /\ Holds(q, y))
    BY <1>0, <1>1, <2>2 DEF Holds
  <2>6. QED BY <1>1, <2>3, <2>4, <2>5, Acquires
<1>4. CASE err # Nil
  <2>1. \E code : Finish(r, code) BY <1>2, <1>4 DEF Inserted, Nil
  <2>2. OthersKept(r) /\ pc'[r] = "done"
    BY <1>1, <2>1, Moves DEF OthersKept, Finish
  <2>3. \A y \in Id : Recorded(y) => Recorded(y)'
    BY <1>1, <1>2 DEF StoreCreate, Breaks, Recorded, TypeOK
  <2>4. QED BY <1>1, <2>2, <2>3, NotHolding, Weaker DEF Provisioned
<1>5. QED BY <1>3, <1>4

\* A provisioning succeeds, is refused, or is given up under a dead context,
\* executed or not.
LEMMA ProvisionOwned ==
  ASSUME Tame, TypeOK, Owned, NEW r \in Req, Provision(r)
  PROVE  Owned'
<1>1. PICK x \in Id : x = job[r].new BY TameJob DEF Provision
<1>2. PICK c \in SprmCall : c = SprmRequest(r, "create")
  BY RequestType DEF Provision, Ops
<1>3. /\ pc[r] = "provision" /\ job[r].kind = "create" /\ db' = db /\ job' = job /\ alive' = alive
      /\ c.op = "create" /\ c.id = x /\ Holds(r, x) /\ late \subseteq SprmCall
      /\ sprm \in [Id -> Instance \cup {None}]
  BY <1>1, <1>2, TameJob DEF Provision, SprmRequest, Holds, TypeOK
<1>4. PICK status \in Statuses :
        /\ Attempt(r, c, status)
        /\ \/ status = 201 /\ Finish(r, "OK")
           \/ status # 201 /\ Retries(r, status) /\ TryAgain(r)
           \/ status # 201 /\ ~Retries(r, status) /\ Answer(r, HandleSPRMError(status), "rollback")
  BY <1>2, <1>3 DEF Provision, FailUnprovisioned
<1>5. \A y \in Id : Recorded(y) => Recorded(y)' BY <1>3 DEF Recorded
<1>6. CASE status = 201
  <2>1. OthersKept(r) /\ pc'[r] = "done"
    BY <1>3, <1>4, <1>6, Moves DEF OthersKept, Finish
  <2>2. late' = late /\ \E i : sprm' = [sprm EXCEPT ![x] = i]
    BY <1>3, <1>4, <1>6, StatusAssumption DEF Attempt, Unanswered, Serve, NoAnswer, Ops
  <2>3. PICK i : sprm' = [sprm EXCEPT ![x] = i] BY <2>2
  <2>4. \A q \in Req, y \in Id : Holds(q, y)' => q # r /\ Holds(q, y)
    BY <2>1, NotHolding
  <2>5. QED BY <1>3, <2>2, <2>3, <2>4, OwnerProvisions
<1>7. CASE status # 201 /\ alive[r] /\ Serve(c, status) /\ late' = late
  <2>1. sprm' = sprm BY <1>3, <1>7 DEF Serve
  <2>2. \A q \in Req, y \in Id : Holds(q, y)' => Holds(q, y)
    <3>1. CASE TryAgain(r) BY <1>3, <3>1, Stays
    <3>2. CASE Answer(r, HandleSPRMError(status), "rollback")
      BY <1>3, <3>2, Moves DEF Holds
    <3>3. QED BY <1>4, <1>7, <3>1, <3>2
  <2>3. QED BY <1>3, <1>5, <1>7, <2>1, <2>2, Weaker DEF Provisioned
<1>8. CASE status # 201 /\ ~alive[r]
  <2>1. \/ sprm' = sprm /\ late' \subseteq late \cup {c}
        \/ late' = late /\ \E i : sprm' = [sprm EXCEPT ![x] = i]
    BY <1>3, <1>4, <1>8, Lingers DEF Attempt, Serve
  <2>2. Answer(r, HandleSPRMError(status), "rollback")
    BY <1>4, <1>8 DEF Retries
  <2>3. OthersKept(r) /\ pc'[r] = "rollback" /\ ~alive'[r]
    BY <1>3, <1>8, <2>2, Moves DEF OthersKept
  <2>4. \A q \in Req, y \in Id : Holds(q, y)' => q # r /\ Holds(q, y)
    BY <2>3, NotHolding
  <2>5. CASE sprm' = sprm /\ late' \subseteq late \cup {c}
    BY <1>3, <2>4, <2>5, OwnerGivesUp
  <2>6. CASE late' = late /\ \E i : sprm' = [sprm EXCEPT ![x] = i]
    <3>1. PICK i : sprm' = [sprm EXCEPT ![x] = i] BY <2>6
    <3>. QED BY <1>3, <2>4, <2>6, <3>1, OwnerProvisions
  <2>7. QED BY <2>1, <2>5, <2>6
<1>9. QED BY <1>4, <1>6, <1>7, <1>8 DEF Attempt, Unanswered, Tame

\* The row goes, or stays with a request that leaves it.
LEMMA RemovesRow ==
  ASSUME TypeOK, Owned, NEW r \in Req, NEW x \in Id, NEW err,
         StoreDelete(x, alive[r], err), alive[r] => Holds(r, x),
         sprm' = sprm, late' = late, OthersKept(r), pc'[r] = "done"
  PROVE  Owned'
<1>1. \A q \in Req, y \in Id : Holds(q, y)' => q # r /\ Holds(q, y)
  BY NotHolding
<1>2. CASE db' = db
  BY <1>1, <1>2, Weaker DEF Recorded, Provisioned, TypeOK
<1>3. CASE alive[r] /\ db' = [db EXCEPT ![x] = None]
  BY <1>1, <1>3, OwnerRemoves DEF TypeOK
<1>4. QED BY <1>2, <1>3 DEF StoreDelete, Breaks, TypeOK

LEMMA RollbackOwned ==
  ASSUME Tame, TypeOK, Owned, NEW r \in Req, Rollback(r)
  PROVE  Owned'
<1>1. PICK x \in Id : x = job[r].new BY TameJob DEF Rollback
<1>2. /\ pc[r] = "rollback" /\ UNCHANGED <<sprm, late, job, alive>> /\ Finish(r, resp[r])
      /\ \E err \in StoreError : StoreDelete(x, alive[r], err)
  BY <1>1 DEF Rollback, Undo
<1>3. OthersKept(r) /\ pc'[r] = "done" BY <1>2, Moves DEF OthersKept, Finish
<1>4. alive[r] => Holds(r, x) BY <1>1, <1>2 DEF Holds
<1>5. QED BY <1>2, <1>3, <1>4, RemovesRow

LEMMA RemoveOwned ==
  ASSUME Tame, TypeOK, Owned, NEW r \in Req, Remove(r)
  PROVE  Owned'
<1>1. PICK x \in Id : x = job[r].id BY TameJob DEF Remove
<1>2. /\ pc[r] = "remove" /\ UNCHANGED <<sprm, late, job, alive>> /\ \E code : Finish(r, code)
      /\ \E err \in StoreError : StoreDelete(x, alive[r], err)
  BY <1>1 DEF Remove
<1>3. OthersKept(r) /\ pc'[r] = "done" BY <1>2, Moves DEF OthersKept, Finish
<1>4. Holds(r, x) BY <1>1, <1>2 DEF Holds
<1>5. QED BY <1>2, <1>3, <1>4, RemovesRow

\* A deletion that succeeds takes the row over from its instance.
LEMMA UnprovisionOwned ==
  ASSUME Tame, TypeOK, Owned, NEW r \in Req, Unprovision(r)
  PROVE  Owned'
<1>1. PICK x \in Id : x = job[r].id BY TameJob DEF Unprovision
<1>2. PICK c \in SprmCall : c = SprmRequest(r, "delete")
  BY RequestType DEF Unprovision, Ops
<1>3. /\ pc[r] = "unprovision" /\ db' = db /\ job' = job /\ alive' = alive
      /\ c.op = "delete" /\ c.id = x /\ late \subseteq SprmCall
      /\ sprm \in [Id -> Instance \cup {None}]
  BY <1>1, <1>2 DEF Unprovision, SprmRequest, TypeOK
<1>4. PICK status \in Statuses :
        /\ Attempt(r, c, status)
        /\ \/ status = 204 /\ Go(r, "remove")
           \/ status # 204 /\ Retries(r, status) /\ TryAgain(r)
           \/ status # 204 /\ Answer(r, HandleSPRMError(status), "done")
  BY <1>2 DEF Unprovision, NotUnprovisioned, Finish
<1>5. CASE status = 204
  <2>1. Provisioned(x) /\ sprm' = [sprm EXCEPT ![x] = None] /\ late' = late
    BY <1>3, <1>4, <1>5, StatusAssumption
    DEF Attempt, Unanswered, Serve, NoAnswer, Ops, Provisioned
  <2>2. pc'[r] = "remove" /\ \A q \in Req \ {r} : pc'[q] = pc[q]
    BY <1>4, <1>5, Moves
  <2>3. Recorded(x) /\ LateCreations(x) = {} /\ \A q \in Req : ~Holds(q, x)
    BY <1>3, <2>1 DEF Owned, NoOrphan, OneHolder, LateOwned, LateCreations
  <2>4. /\ Recorded(x)' /\ ~Provisioned(x)'
        /\ \A y \in Id \ {x} : (Recorded(y)' <=> Recorded(y)) /\ (Provisioned(y)' <=> Provisioned(y))
    BY <1>3, <2>1, <2>3 DEF Recorded, Provisioned
  <2>5. \A q \in Req, y \in Id : Holds(q, y)' => (q = r /\ y = x) \/ (q # r /\ Holds(q, y))
    BY <1>1, <1>3, <2>2 DEF Holds
  <2>6. QED BY <1>3, <2>1, <2>3, <2>4, <2>5, Acquires
<1>6. CASE status # 204
  <2>1. sprm' \in {sprm, [sprm EXCEPT ![x] = None]} /\ late' \subseteq late \cup {c}
    BY <1>3, <1>4, <1>6, Lingers DEF Attempt, Serve
  <2>2. \A q \in Req, y \in Id : Holds(q, y)' => Holds(q, y)
    <3>1. CASE TryAgain(r) BY <1>3, <3>1, Stays
    <3>2. CASE Answer(r, HandleSPRMError(status), "done")
      <4>1. OthersKept(r) /\ pc'[r] = "done" BY <1>3, <3>2, Moves DEF OthersKept
      <4>2. QED BY <4>1, NotHolding
    <3>3. QED BY <1>4, <1>6, <3>1, <3>2
  <2>3. QED BY <1>3, <2>1, <2>2, Weaker DEF Recorded, Provisioned
<1>7. QED BY <1>5, <1>6

LEMMA StepOwned ==
  ASSUME Tame, TypeOK, Owned, NEW r \in Req, Step(r)
  PROVE  Owned'
<1>1. ~Deferred(r) BY TameJob DEF Deferred
<1>2. QED
  BY <1>1, QuietOwned, InsertOwned, ProvisionOwned, RollbackOwned, UnprovisionOwned, RemoveOwned
  DEF Step

-----------------------------------------------------------------------------
\* What the SPRM and the network do on their own.

\* A late creation provisions the record it still has.
LEMMA DeliverOwned ==
  ASSUME TypeOK, Owned, NEW c \in late, Deliver(c)
  PROVE  Owned'
<1>1. /\ c \in SprmCall /\ c.id \in Id /\ c.op \in Ops /\ late \subseteq SprmCall
      /\ UNCHANGED <<db, pc, job, alive>> /\ late' = late \ {c}
      /\ sprm \in [Id -> Instance \cup {None}]
  BY DEF Deliver, TypeOK, SprmCall
<1>2. PICK status \in Statuses : Serve(c, status) BY DEF Deliver
<1>3. \A q \in Req, y \in Id : Holds(q, y)' => Holds(q, y) BY <1>1 DEF Holds
<1>4. CASE \A y \in Id : Provisioned(y)' => Provisioned(y)
  BY <1>1, <1>3, <1>4, Weaker DEF Recorded
<1>5. CASE c.op = "create" /\ sprm' = [sprm EXCEPT ![c.id] = c.inst]
  <2>1. PICK x \in Id : x = c.id BY <1>1
  <2>2. /\ Recorded(x) /\ LateCreations(x) = {c} /\ \A q \in Req : ~Holds(q, x)
    BY <1>1, <1>5, <2>1 DEF Owned, OneHolder, LateOwned, LateCreations
  <2>3. \A y \in Id : (y # x => (Provisioned(y)' <=> Provisioned(y))) /\ (Recorded(y)' <=> Recorded(y))
    BY <1>1, <1>5, <2>1 DEF Recorded, Provisioned
  <2>4. NoOrphan' BY <2>2, <2>3 DEF Owned, NoOrphan
  <2>5. OneHolder' BY <1>1, <1>3, <2>2, <2>3 DEF Owned, OneHolder, LateCreations
  <2>6. LateOwned' BY <1>1, <2>2, <2>3 DEF Owned, LateOwned, LateCreations, SprmCall
  <2>7. QED BY <2>4, <2>5, <2>6 DEF Owned
<1>6. QED BY <1>1, <1>2, <1>4, <1>5 DEF Serve, Provisioned

LEMMA CleanUpOwned ==
  ASSUME TypeOK, Owned, NEW x \in Id, SprmCleanUp(x)
  PROVE  Owned'
<1>1. UNCHANGED <<db, late, pc, job, alive>> /\ late \subseteq SprmCall BY DEF SprmCleanUp, TypeOK
<1>2. \A y \in Id : Provisioned(y)' => Provisioned(y)
  BY DEF SprmCleanUp, CleanUp, Provisioned, TypeOK
<1>3. \A q \in Req, y \in Id : Holds(q, y)' => Holds(q, y) BY <1>1 DEF Holds
<1>4. QED BY <1>1, <1>2, <1>3, Weaker DEF Recorded

-----------------------------------------------------------------------------
LEMMA InitOwned == Init => Owned
  BY NoneAssumption DEF Init, Owned, NoOrphan, OneHolder, LateOwned, Holds, Provisioned

LEMMA NextOwned ==
  ASSUME Tame, TypeOK, Owned, [Next]_vars
  PROVE  Owned'
<1>1. ASSUME NEW r \in Req, Submit(r) \/ Step(r) \/ Cancel(r) PROVE Owned'
  BY <1>1, SubmitOwned, StepOwned, CancelOwned
<1>2. CASE \E c \in late : Deliver(c) BY <1>2, DeliverOwned
<1>3. CASE \E x \in Id : SprmCleanUp(x) BY <1>3, CleanUpOwned
<1>4. CASE Crash BY <1>4, CrashOwned
<1>5. CASE UNCHANGED vars
  BY <1>5, Weaker DEF vars, TypeOK, Recorded, Provisioned, Holds
<1>6. QED BY <1>1, <1>2, <1>3, <1>4, <1>5 DEF Next

LEMMA AlwaysOwned ==
  ASSUME Tame
  PROVE  Spec => [](TypeOK /\ Owned)
<1>1. Init => TypeOK /\ Owned BY InitType, InitOwned
<1>2. TypeOK /\ Owned /\ [Next]_vars => (TypeOK /\ Owned)'
  BY NextType, NextOwned
<1>3. QED BY <1>1, <1>2, PTL DEF Spec

(***************************************************************************)
(* Where nothing rehydrates and no answer of the SPRM is lost while its    *)
(* caller waits, an instance always has its record, wherever clients       *)
(* disconnect, the process stops or the database fails and whenever the    *)
(* calls so cut off are executed: create inserts before it provisions,     *)
(* delete removes the row after the instance, and no rollback removes      *)
(* another request's row.                                                  *)
(***************************************************************************)
THEOREM NeverOrphaned ==
  ASSUME Tame
  PROVE  Spec => []NoOrphan
<1>1. Owned => NoOrphan BY DEF Owned
<1>2. QED BY <1>1, AlwaysOwned, PTL

(***************************************************************************)
(* In the same circumstances a record a request may still provision or     *)
(* remove is that request's alone.                                         *)
(***************************************************************************)
THEOREM HeldByOne ==
  ASSUME Tame
  PROVE  Spec => []OneHolder
<1>1. Owned => OneHolder BY DEF Owned
<1>2. QED BY <1>1, AlwaysOwned, PTL

(***************************************************************************)
(* In the same circumstances a creation of an SPRM instance whose caller   *)
(* is gone still finds its record, and is the only one of its id.          *)
(***************************************************************************)
THEOREM LateIsOwned ==
  ASSUME Tame
  PROVE  Spec => []LateOwned
<1>1. Owned => LateOwned BY DEF Owned
<1>2. QED BY <1>1, AlwaysOwned, PTL
=============================================================================
