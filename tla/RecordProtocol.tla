--------------------------- MODULE RecordProtocol ---------------------------
(***************************************************************************)
(* What the placement service promises about the two stores it keeps in    *)
(* step: the service records every instance it has provisioned, or the     *)
(* resource manager has it queued for deletion.  A record comes before its *)
(* instance and goes after it, so neither store ever holds an instance     *)
(* nobody will remove; and a record without its instance does not stay so. *)
(***************************************************************************)
CONSTANT Id

VARIABLES
  recorded,     \* ids with a record in the database
  provisioned,  \* ids with an instance in the resource manager
  queued        \* ids whose instance the resource manager will remove

protocolVars == <<recorded, provisioned, queued>>

Init == recorded = {} /\ provisioned = {} /\ queued = {}

Record(x) ==
  /\ x \notin recorded
  /\ recorded' = recorded \cup {x}
  /\ UNCHANGED <<provisioned, queued>>

Provision(x) ==
  /\ x \in recorded \ provisioned
  /\ provisioned' = provisioned \cup {x}
  /\ UNCHANGED <<recorded, queued>>

Unprovision(x) ==
  /\ x \in provisioned
  /\ provisioned' = provisioned \ {x}
  /\ queued' = queued \ {x}
  /\ recorded' = recorded

Enqueue(x) ==
  /\ x \in (provisioned \cap recorded) \ queued
  /\ queued' = queued \cup {x}
  /\ UNCHANGED <<recorded, provisioned>>

Forget(x) ==
  /\ x \in recorded \ (provisioned \ queued)
  /\ recorded' = recorded \ {x}
  /\ UNCHANGED <<provisioned, queued>>

Next == \E x \in Id : Record(x) \/ Provision(x) \/ Unprovision(x) \/ Enqueue(x) \/ Forget(x)

\* A record without its instance is provisioned or forgotten, in the end.
Settled(x) == x \in recorded => x \in provisioned

Spec == Init /\ [][Next]_protocolVars /\ \A x \in Id : []<>Settled(x)
=============================================================================
