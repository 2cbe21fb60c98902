------------------------------ MODULE Pagination ------------------------------
(***************************************************************************)
(* A client lists the resources page by page while others are inserted and *)
(* deleted (store/resource.go, store/pagination.go and ListResources of    *)
(* service/placement.go).  A page token is nothing but an offset into the  *)
(* table as it is when the page is read.                                   *)
(*                                                                         *)
(* A row is its rank in the order of the query, by create_time and then    *)
(* id.  The create_time is taken before the row is committed, so rows      *)
(* become visible out of their order.  A rehydration is an insertion and a *)
(* deletion.                                                               *)
(***************************************************************************)
EXTENDS Integers, FiniteSets, FiniteSetsExt

CONSTANTS
  ProviderOf,  \* the provider of each row that will ever exist
  AnyProvider, \* the filter that is absent or empty
  MaxRows,     \* bound: rows stamped in a run
  MaxSize,     \* the largest page one may ask for, and the default
  Offsets      \* the numbers a client may put into its first token

ASSUME PaginationAssumption ==
  /\ MaxRows \in Nat /\ MaxSize \in Nat \ {0}
  /\ Offsets \subseteq Int

VARIABLES
  clock,     \* the rank given last
  pending,   \* rows stamped and not committed
  table,     \* rows committed and not deleted
  walk,      \* "idle", "walking" or "done"
  filter,    \* the provider the client lists
  start,     \* the offset of its first token
  token,     \* the token it asks the next page with
  answer,    \* what its last call returned
  seen,      \* rows returned so far
  repeated,  \* rows returned more than once
  fresh,     \* rows committed since the walk began
  grown,     \* whether a row of the walk's filter was inserted below its offset
  shrunk     \* whether one was deleted below it

tableVars == <<clock, pending, table>>
walkVars  == <<walk, filter, start, token, answer, seen, repeated>>
vars      == <<tableVars, walkVars, fresh, grown, shrunk>>

Answer == {"none", "page", "VALIDATION", "INTERNAL_ERROR"}

-----------------------------------------------------------------------------
\* Tokens: absent, empty, base64 of a number, or something else.

Token == [kind : {"nil", "empty", "number", "garbage"}, offset : Int]

NilToken == [kind |-> "nil", offset |-> 0]

FirstTokens == [kind : {"nil", "empty", "garbage"}, offset : {0}]
                 \cup [kind : {"number"}, offset : Offsets]

decodePageToken(t) == IF t.kind = "number" THEN t.offset ELSE 0

encodePageToken(offset) == [kind |-> "number", offset |-> offset]

\* Faulty: the next page starts behind everything that was fetched.
TokenBehindFetched(count, size, offset) ==
  IF count <= size THEN NilToken ELSE encodePageToken(offset + count)

\* Faulty: the last page has a token too.
TokenAlways(count, size, offset) ==
  encodePageToken(IF count <= size THEN offset + count ELSE offset + size)

generateNextPageToken(count, size, offset) ==
  IF count <= size THEN NilToken ELSE encodePageToken(offset + size)

-----------------------------------------------------------------------------
\* The query.

Matching(t, f) == {r \in t : f = AnyProvider \/ ProviderOf[r] = f}
Selected       == Matching(table, filter)

\* How many rows of s sort before row r.
Before(s, r) == Cardinality({q \in s : q < r})

\* An offset that is not positive is left out of the query.
Skipped(offset) == IF offset > 0 THEN offset ELSE 0

Fetch(offset, limit) ==
  {r \in Selected : Before(Selected, r) \in Skipped(offset)..(Skipped(offset) + limit - 1)}

\* Faulty: the row fetched to see whether there are more is returned too.
FirstAndOneMore(rows, size) == rows

\* The first rows of a result, as many as the page may hold.
First(rows, size) == {r \in rows : Before(rows, r) < size}

-----------------------------------------------------------------------------
\* The table, under the requests of all clients.

Init ==
  /\ clock = 0 /\ pending = {} /\ table = {}
  /\ walk = "idle" /\ filter = AnyProvider /\ start = 0 /\ token = NilToken
  /\ answer = "none" /\ seen = {} /\ repeated = {}
  /\ fresh = {} /\ grown = FALSE /\ shrunk = FALSE

Position == Skipped(decodePageToken(token))

Stamp ==
  /\ clock < MaxRows
  /\ clock' = clock + 1 /\ pending' = pending \cup {clock + 1}
  /\ UNCHANGED <<table, walkVars, fresh, grown, shrunk>>

Insert(r) ==
  /\ r \in pending /\ pending' = pending \ {r}
  /\ table' = table \cup {r}
  /\ fresh' = IF walk = "idle" THEN fresh ELSE fresh \cup {r}
  /\ grown' = (grown \/ (/\ walk = "walking"
                         /\ r \in Matching({r}, filter)
                         /\ Before(Selected, r) < Position))
  /\ UNCHANGED <<clock, walkVars, shrunk>>

\* The insertion fails.
Abandon(r) ==
  /\ r \in pending /\ pending' = pending \ {r}
  /\ UNCHANGED <<clock, table, walkVars, fresh, grown, shrunk>>

Delete(r) ==
  /\ r \in table
  /\ table' = table \ {r}
  /\ shrunk' = (shrunk \/ (walk = "walking" /\ r \in Selected /\ Before(Selected, r) < Position))
  /\ UNCHANGED <<clock, pending, walkVars, fresh, grown>>

-----------------------------------------------------------------------------
\* The walk.

Begin ==
  /\ walk = "idle" /\ walk' = "walking"
  /\ \E t \in FirstTokens : token' = t /\ start' = decodePageToken(t)
  /\ filter' \in {AnyProvider} \cup {ProviderOf[r] : r \in DOMAIN ProviderOf}
  /\ UNCHANGED <<tableVars, answer, seen, repeated, fresh, grown, shrunk>>

\* The client asks for a page of size rows and gets it.  No size is MaxSize.
ListResources(size) ==
  LET offset  == decodePageToken(token)
      fetched == Fetch(offset, size + 1)
      page    == First(fetched, size)
      next    == generateNextPageToken(Cardinality(fetched), size, offset)
  IN /\ walk = "walking"
     /\ answer' = "page"
     /\ seen' = seen \cup page /\ repeated' = repeated \cup (seen \cap page)
     /\ token' = next
     /\ walk' = IF next = NilToken THEN "done" ELSE "walking"
     /\ UNCHANGED <<tableVars, filter, start, fresh, grown, shrunk>>

\* It asks for none or for more than MaxSize, or the database fails.
ListFails ==
  /\ walk = "walking"
  /\ answer' \in {"VALIDATION", "INTERNAL_ERROR"}
  /\ UNCHANGED <<tableVars, walk, filter, start, token, seen, repeated, fresh, grown, shrunk>>

List == \E size \in 1..MaxSize : ListResources(size)

Next ==
  \/ Stamp
  \/ \E r \in pending : Insert(r) \/ Abandon(r)
  \/ \E r \in table : Delete(r)
  \/ Begin \/ List \/ ListFails

Spec == Init /\ [][Next]_vars /\ WF_vars(List)

-----------------------------------------------------------------------------
TypeOK ==
  /\ clock \in 0..MaxRows /\ pending \subseteq 1..clock /\ table \subseteq 1..clock
  /\ walk \in {"idle", "walking", "done"}
  /\ start \in Int /\ token \in Token /\ answer \in Answer
  /\ seen \subseteq 1..clock /\ repeated \subseteq seen /\ fresh \subseteq 1..clock
  /\ grown \in BOOLEAN /\ shrunk \in BOOLEAN

(***************************************************************************)
(* A walk that ends has returned every row that was there when it began    *)
(* and is still there, unless a row was deleted below the offset it had    *)
(* reached (resource.go:64-96): deletions further on and insertions        *)
(* anywhere cost nothing, nor do pages of different sizes.                 *)
(***************************************************************************)
NothingSkipped ==
  walk = "done" /\ ~shrunk /\ start <= 0 => Selected \subseteq seen \cup fresh

(***************************************************************************)
(* No row is returned twice, unless a row the walk lists was inserted      *)
(* below the offset it had reached, or the client began at a negative      *)
(* offset, which pagination.go:20-25 lets through.                         *)
(***************************************************************************)
NothingRepeated == ~grown /\ start >= 0 => repeated = {}

(***************************************************************************)
(* A client that goes on asking comes to the last page: each page moves    *)
(* the offset on, while the table grows no further than MaxRows.           *)
(***************************************************************************)
WalkEnds == walk = "walking" ~> walk = "done"
=============================================================================
