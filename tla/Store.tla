-------------------------------- MODULE Store --------------------------------
(***************************************************************************)
(* The resource table of the database and the four calls the service makes *)
(* on it (internal/store).  Each call is one SQL statement, atomic in the  *)
(* database; it runs under the context of the HTTP request it serves, and  *)
(* ctx says whether that context is still alive.                           *)
(*                                                                         *)
(* A call returns an error: Nil, one of the store's two sentinel errors,   *)
(* or "error" for anything else the driver reports.                        *)
(***************************************************************************)
CONSTANTS
  Id,        \* the resource ids
  None,      \* the absence of a row, an instance, a job
  Faults     \* the faults that may happen; "db" is a failing database

VARIABLE db  \* the table: a row or None for every id

Nil        == "nil"
StoreError == {Nil, "ErrResourceIdExist", "ErrResourceNotFound", "error"}

\* A dead context stops the statement before it runs.  A failing database
\* either does not execute it or executes it and loses the acknowledgement.
Breaks(ctx, after) ==
  \/ ~ctx /\ db' = db
  \/ ctx /\ "db" \in Faults /\ db' \in {db, after}

RowsAffected(x) == IF db[x] = None THEN 0 ELSE 1

\* INSERT: the primary key refuses a second row with the same id.
StoreCreate(x, row, ctx, err) ==
  \/ err = Nil                  /\ ctx /\ db[x] = None /\ db' = [db EXCEPT ![x] = row]
  \/ err = "ErrResourceIdExist" /\ ctx /\ db[x] # None /\ db' = db
  \/ err = "error" /\ Breaks(ctx, IF db[x] = None THEN [db EXCEPT ![x] = row] ELSE db)

\* DELETE WHERE id = x: whatever row has that id when the statement runs.
StoreDelete(x, ctx, err) ==
  \/ err = Nil                   /\ ctx /\ RowsAffected(x) # 0 /\ db' = [db EXCEPT ![x] = None]
  \/ err = "ErrResourceNotFound" /\ ctx /\ RowsAffected(x) = 0 /\ db' = db
  \/ err = "error" /\ Breaks(ctx, [db EXCEPT ![x] = None])

\* SELECT by id; the row found is db[x].
StoreGet(x, ctx, err) ==
  /\ \/ err = Nil                   /\ ctx /\ db[x] # None
     \/ err = "ErrResourceNotFound" /\ ctx /\ db[x] = None
     \/ err = "error" /\ (~ctx \/ "db" \in Faults)
  /\ db' = db
=============================================================================
