------------------------- MODULE PlacementProperties -------------------------
(***************************************************************************)
(* What the placement service must get right, stated over Placement.  Each *)
(* property names the circumstances it holds under; the configurations of  *)
(* MCPlacement check it there.  Two of them have a name:                   *)
(*                                                                         *)
(* Exclusive clients run no two requests on one resource: a client that    *)
(* has disconnected, or whose service has stopped, waits until the handler *)
(* of its request is gone, though not for the SPRM calls it has left.      *)
(*                                                                         *)
(* Orderly rehydration: clients are exclusive, no answer of the SPRM is    *)
(* lost while its caller still waits, the SPRM does not refuse a deferred  *)
(* deletion, and it executes no creation after the caller has gone.        *)
(* Clients may disconnect, the process may stop and the database fail, and *)
(* deletions so cut off may be executed at any later time.                 *)
(***************************************************************************)
EXTENDS Placement

Recorded(x)    == db[x] # None
Provisioned(x) == sprm[x] # None

\* The step in which the handler of r has its answer.
Replies(r, code) == pc[r] # "done" /\ pc'[r] = "done" /\ resp'[r] = code

\* The requests that own the row of x: they may still provision it, or they
\* will remove it.  (A rollback under a dead context removes nothing.)
Holds(r, x) ==
  \/ pc[r] = "provision" /\ job[r].new = x
  \/ pc[r] = "rollback" /\ alive[r] /\ job[r].new = x
  \/ pc[r] = "remove" /\ job[r].id = x

\* The creations of x that the SPRM may still execute although their callers are gone.
LateCreations(x) == {c \in late : c.op = "create" /\ c.id = x}

-----------------------------------------------------------------------------
\* Where the handlers of a kind of request can be.
PCOf == [create    |-> {"policy", "insert", "provision", "rollback", "done"},
         get       |-> {"get", "done"},
         delete    |-> {"get", "unprovision", "remove", "done"},
         rehydrate |-> {"get", "policy", "insert", "provision", "rollback",
                        "deferred", "remove", "done"}]

\* What a handler knows where it is.
JobOK(r) ==
  LET j == job[r] IN
  /\ pc[r] \in PCOf[j.kind]
  /\ j.kind # "create" => j.id \in Id
  /\ j.kind \in {"create", "rehydrate"} => j.new \in Id
  /\ pc[r] \in {"policy", "insert", "provision", "rollback"} => j.cat \in Cat /\ j.spec \in ServiceSpec
  /\ pc[r] \in {"insert", "provision", "rollback"} => j.prov \in Provider /\ j.eval \in ServiceSpec
  /\ pc[r] \in {"rollback", "done"} <=> resp[r] # None

(***************************************************************************)
(* Every variable has its type; a slot without a job is idle, and the job  *)
(* of a busy one holds everything the handler's next call needs (the       *)
(* arguments of placement.go's calls are never used before they are set).  *)
(***************************************************************************)
TypeOK ==
  /\ db \in [Id -> Row \cup {None}]
  /\ sprm \in [Id -> Instance \cup {None}]
  /\ cleanup \subseteq Id
  /\ late \subseteq SprmCall
  /\ minted \subseteq Id \ UserId
  /\ pc \in [Req -> PC]
  /\ job \in [Req -> Job \cup {None}]
  /\ tries \in [Req -> 0..(MaxTries - 1)]
  /\ alive \in [Req -> BOOLEAN]
  /\ resp \in [Req -> ErrorCode \cup {"OK", None}]
  /\ \A r \in Req : IF pc[r] = "idle" THEN job[r] = None /\ resp[r] = None
                                      ELSE job[r] # None /\ JobOK(r)

-----------------------------------------------------------------------------
\* Records and instances.

(***************************************************************************)
(* An instance is recorded: the SPRM never runs an instance the database   *)
(* does not know (create inserts first, delete unprovisions first).  Holds *)
(* while nothing rehydrates and no answer of the SPRM is lost while its    *)
(* caller waits, whatever ids clients reuse, however their requests        *)
(* interleave, wherever clients disconnect, the process stops or the       *)
(* database fails, and whenever the calls so cut off are executed.         *)
(***************************************************************************)
NoOrphan == \A x \in Id : Provisioned(x) => Recorded(x)

(***************************************************************************)
(* A record has one owner: the request that may still provision or remove  *)
(* it is alone with it, finds it there, and no creation given up earlier   *)
(* can still provision it.  So a late rollback or row deletion cannot hit  *)
(* the record of another request that has reused the id.  Holds where      *)
(* NoOrphan does, and is why NoOrphan does.                                *)
(***************************************************************************)
OneHolder ==
  \A r \in Req, x \in Id :
    Holds(r, x) => /\ Recorded(x) /\ ~Provisioned(x)
                   /\ \A q \in Req : Holds(q, x) => q = r
                   /\ LateCreations(x) = {}

(***************************************************************************)
(* A creation whose caller is gone but which the SPRM may still execute    *)
(* has its record, no instance, and no other such creation of its id.      *)
(* Holds where NoOrphan does, because a rollback under a dead context      *)
(* removes nothing.                                                        *)
(***************************************************************************)
LateOwned ==
  \A c \in late : c.op = "create" =>
    /\ Recorded(c.id) /\ ~Provisioned(c.id)
    /\ \A d \in late : d.op = "create" /\ d.id = c.id => d = c

(***************************************************************************)
(* A record without its instance is some request's to finish, so none is   *)
(* left once the requests are over.  Holds without faults: while nothing   *)
(* rehydrates, and among rehydrations for clients that do not run two      *)
(* requests on one resource.                                               *)
(***************************************************************************)
NoStaleRecord ==
  \A x \in Id : Recorded(x) /\ ~Provisioned(x) => \E r \in Req : Holds(r, x)

(***************************************************************************)
(* The record names the provider its instance runs on (the policy's choice *)
(* goes to the row and to the SPRM), unless the instance is already queued *)
(* for deletion and its id is being reused. Holds for orderly rehydration, *)
(* as NoUntracked does.                                                    *)
(***************************************************************************)
RecordMatchesInstance ==
  \A x \in Id : Recorded(x) /\ Provisioned(x) /\ x \notin cleanup => db[x].prov = sprm[x].prov

(***************************************************************************)
(* Every instance is recorded or in the SPRM's cleanup queue: the          *)
(* counterpart of NoOrphan where resources are rehydrated. Holds for       *)
(* orderly rehydration and no further: a deferred deletion that is refused *)
(* or lost, two rehydrations of one resource, or a creation executed after *)
(* its caller has gone each leave an instance nobody will remove.          *)
(***************************************************************************)
NoUntracked == \A x \in Id : Provisioned(x) => Recorded(x) \/ x \in cleanup

(***************************************************************************)
(* A catalog item instance has two records only while a rehydration        *)
(* replaces one by the other. Holds for clients that place an instance     *)
(* once, whatever becomes of the SPRM calls, unless a request is cut off   *)
(* between the two rows by a disconnect, a stop or the database: none of   *)
(* these happens here.                                                     *)
(***************************************************************************)
OneRecordPerItem ==
  \A x, y \in Id :
    x # y /\ Recorded(x) /\ Recorded(y) /\ db[x].cat = db[y].cat =>
      \E r \in Req : /\ job[r] # None /\ job[r].kind = "rehydrate"
                     /\ {job[r].id, job[r].new} = {x, y}
                     /\ pc[r] \in {"provision", "rollback", "deferred", "remove"}

(***************************************************************************)
(* A record keeps the specification the client asked for, whatever the     *)
(* policies made of it and however often it was rehydrated.  Holds under   *)
(* every fault.                                                            *)
(***************************************************************************)
OriginalSpec == \A x \in Id : Recorded(x) => db[x].spec = OrigSpec[db[x].cat]

-----------------------------------------------------------------------------
\* Answers.

(***************************************************************************)
(* A creation answered OK has its record and its instance, when the client *)
(* is told so. Holds where NoOrphan does, and under every fault and among  *)
(* rehydrations for exclusive clients.                                     *)
(***************************************************************************)
CreatedIsRecorded ==
  [][\A r \in Req : Replies(r, "OK") /\ job[r].kind = "create" =>
       db'[job[r].new] # None /\ sprm'[job[r].new] # None]_vars

(***************************************************************************)
(* A deletion answered OK has itself removed a record: of two deletions of *)
(* one record at most one is answered OK.                                  *)
(***************************************************************************)
DeletedByItself ==
  [][\A r \in Req : Replies(r, "OK") /\ job[r].kind = "delete" =>
       db[job[r].id] # None /\ db'[job[r].id] = None]_vars

(***************************************************************************)
(* When provisioning fails, the record just created is gone when the       *)
(* client is told so.                                                      *)
(***************************************************************************)
RolledBack ==
  [][\A r \in Req : pc[r] = "rollback" /\ pc'[r] = "done" => db'[job[r].new] = None]_vars

(***************************************************************************)
(* When provisioning fails, neither a record nor an instance of the new id *)
(* is left (an instance of an older use of the id may still be queued).    *)
(* Holds for orderly rehydration while the database works and no client    *)
(* disconnects: a rollback that fails itself is only logged.               *)
(***************************************************************************)
FailureLeavesNothing ==
  [][\A r \in Req : pc[r] = "rollback" /\ pc'[r] = "done" =>
       LET x == job[r].new IN db'[x] = None /\ (sprm'[x] = None \/ x \in cleanup')]_vars

(***************************************************************************)
(* A rehydration whose provisioning fails changes nothing: no record and   *)
(* no instance of the new id is left.                                      *)
(***************************************************************************)
FailedRehydrationLeavesNothing ==
  [][\A r \in Req : pc[r] = "rollback" /\ pc'[r] = "done" /\ job[r].kind = "rehydrate" =>
       LET x == job[r].new IN db'[x] = None /\ sprm'[x] = None]_vars

\* A live resource: recorded and provisioned.
Live(c) == \E x \in Id : Recorded(x) /\ Provisioned(x) /\ db[x].cat = c

(***************************************************************************)
(* A catalog item instance that runs somewhere never stops running,        *)
(* however many rehydrations race and wherever the process stops, in the   *)
(* middle of a call too: the old resource goes only after its replacement  *)
(* is provisioned.  No client deletes or disconnects here, no answer of    *)
(* the SPRM is lost while its caller waits, and new ids are UUIDs.         *)
(***************************************************************************)
AlwaysServed == [][\A c \in Cat : Live(c) => Live(c)']_vars

(***************************************************************************)
(* Every request is answered: retries are bounded and no request waits for *)
(* another one.                                                            *)
(***************************************************************************)
Answered == \A r \in Req : pc[r] # "idle" ~> pc[r] = "idle"

(***************************************************************************)
(* A record whose instance the SPRM has deleted goes too, in the end       *)
(* (unless it is provisioned).                                             *)
(***************************************************************************)
DeletionCompletes ==
  \A x \in Id : (Recorded(x) /\ ~Provisioned(x)) ~> (Recorded(x) => Provisioned(x))

(***************************************************************************)
(* The service implements RecordProtocol.                                  *)
(***************************************************************************)
Protocol == INSTANCE RecordProtocol
  WITH recorded    <- {x \in Id : Recorded(x)},
       provisioned <- {x \in Id : Provisioned(x)},
       queued      <- cleanup

ImplementsProtocol == Protocol!Spec

(***************************************************************************)
(* What is left of that where records may stay without their instance: the *)
(* two stores change only as RecordProtocol allows, one at a time and in   *)
(* its order. Holds under disconnects, stops and a failing database, calls *)
(* they cut off included, while nothing rehydrates and no answer is lost   *)
(* that its caller waits for; and for orderly rehydration.                 *)
(***************************************************************************)
KeepsToProtocol == Protocol!Init /\ [][Protocol!Next]_(Protocol!protocolVars)
=============================================================================
