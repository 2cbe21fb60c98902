--------------------------- MODULE ResourceManager ---------------------------
(***************************************************************************)
(* The service provider resource manager (SPRM), a service of another      *)
(* repository, as this one uses it: an instance per id, created and        *)
(* deleted by id, and a queue of the deferred deletions it still owes.     *)
(*                                                                         *)
(* A call is [op, id, inst, by, try]: the request that sends it and the    *)
(* number of the attempt tell apart two copies of the same call.           *)
(***************************************************************************)
EXTENDS Naturals, FiniteSets
CONSTANTS
  Id, None,
  Refusals   \* for each kind of call, the statuses it may be refused with

VARIABLES
  sprm,      \* the instance of every id, or None
  cleanup    \* the ids whose deferred deletion failed and is queued

Ops == {"create", "delete", "deferred"}

\* The SPRM executes call c and answers status.  A refusal changes nothing.
\* A deferred deletion the provider cannot do now is queued, and answers 204.
Serve(c, status) ==
  \/ /\ c.op = "create" /\ sprm[c.id] = None /\ status = 201
     /\ sprm' = [sprm EXCEPT ![c.id] = c.inst] /\ cleanup' = cleanup
  \/ /\ c.op = "create" /\ sprm[c.id] # None /\ status = 409
     /\ UNCHANGED <<sprm, cleanup>>
  \/ /\ c.op # "create" /\ sprm[c.id] # None /\ status = 204
     /\ sprm' = [sprm EXCEPT ![c.id] = None] /\ cleanup' = cleanup \ {c.id}
  \/ /\ c.op = "deferred" /\ sprm[c.id] # None /\ status = 204
     /\ sprm' = sprm /\ cleanup' = cleanup \cup {c.id}
  \/ /\ c.op # "create" /\ sprm[c.id] = None /\ status = 404
     /\ UNCHANGED <<sprm, cleanup>>
  \/ /\ status \in Refusals[c.op]
     /\ UNCHANGED <<sprm, cleanup>>

\* The statuses Serve can answer.
Answers == {201, 204, 404, 409} \cup UNION {Refusals[op] : op \in Ops}

\* The SPRM's own worker finishes a queued deletion.
CleanUp(x) ==
  /\ x \in cleanup
  /\ sprm' = [sprm EXCEPT ![x] = None]
  /\ cleanup' = cleanup \ {x}
=============================================================================
