# Formal model of the placement manager

TLA+ modules, TLC configurations and TLAPS proofs about the placement manager:
the service that places a resource by asking a policy engine for a provider,
recording the resource in a database and having the service provider resource
manager (SPRM) provision it. Source paths below are relative to the repository.

The hard part of this program is not in any one function. The service keeps
**two stores in step without a transaction**: the records of its own database
and the instances of the SPRM. Every operation is a sequence of remote calls,
any of which can be refused, retried, lost, executed late or cut off, and
nothing but the database survives between two requests. The model is about what
remains true of the two stores in spite of that.

## Inventory

| Component | Source | State | Operations | Modelled in |
|---|---|---|---|---|
| Placement service | `internal/service/placement.go`, `convert.go` | none of its own; the local variables of each running handler | create, get, list, delete, rehydrate | `Placement`; list in `Pagination` |
| Resource store | `internal/store/resource.go`, `store.go`, `model/resource.go` | the resource table | Create, Get, Delete, List, Close | `Store`; List in `Pagination`, Close in `Lifecycle` |
| Pagination | `internal/store/pagination.go` | the offset in a page token | decode, encode, next token | `Pagination` |
| SPRM client | `internal/sprm/client.go` | the attempt number of a call | create, delete, deferred delete, each with retries | `Placement` (`Attempt`, `SprmRequest`) |
| Policy client | `internal/policy/client.go` | the attempt number of a call | evaluate, with retries | `Placement` (`Evaluate`), `ErrorPath` |
| Retry policy | `internal/httputil/retry.go` | attempts; the back-off the calls of one client share | retry, pause, give up | `Placement` (`Retries`, `TryAgain`), `ErrorPath` |
| Error mapping | `internal/service/errors.go`, `internal/handlers/errors.go` | none | status → service error → level and HTTP status | `ServiceErrors`, `ErrorPath` |
| HTTP handlers | `internal/handlers/handler.go` | none | one service call each | `Placement` (`Submit*`, `Reply`), `ErrorPath` |
| API server and client | `internal/api/server`, `pkg/client`, the router of `internal/apiserver` | none between requests | route, validate, bind, decode, encode; build a request, sort a response | `Exchange` |
| SPRM, policy engine | other repositories | instances, cleanup queue | what this service uses of them | `ResourceManager` (external) |
| Server life cycle | `internal/apiserver/server.go`, `cmd/placement-manager/main.go` | the step of `run`, deferred calls, context, listener, store | start, serve, shut down, exit | `Lifecycle`; `Crash` of `Placement` |
| Database initialisation | `internal/store/db.go` | – | open, migrate | a step of `Lifecycle` |
| Configuration, logging | `internal/config`, `internal/logging` | – | – | loading as a step of `Lifecycle`; levels in `ErrorPath` |
| API types, embedded document | `api/v1alpha1` | – | – | not modelled: data |

**How they interact.** A handler calls one method of the placement service with
the context of its HTTP request. The service calls the policy client, the store
and the SPRM client, one after the other, all under that context:

    create     policy -> INSERT -> SPRM create [-> DELETE the row, if refused]
    get        SELECT
    delete     SELECT -> SPRM delete -> DELETE the row
    rehydrate  SELECT old -> policy -> INSERT new -> SPRM create new
               [-> DELETE the new row, if refused] -> SPRM deferred delete old
               -> DELETE the old row

There is no lock and no transaction across two calls; requests interleave at
every arrow.

**What is hard.** The record is visible between its insertion and its
provisioning. A deletion and a rehydration act on a record they read some calls
ago. Ids given by clients are used again. A retry repeats a call that may have
been executed. A rollback runs under a context that may be the reason for the
failure. A shutdown does not wait for the handlers. The error of two calls is
only logged. A page is a range of a table that changes under the client. Five
layers may answer a request in the handler's place. `hazards` in `PROJECT.json`
lists each of these at its line with the properties about it.

**What makes it correct.** Service and stores: no instance without a record or a
queued deletion, no record left without an instance, no request touching the
record of another, no interruption of a resource that is rehydrated, the
client's own specification kept. Retries: bounded, never after a permanent
failure, at growing intervals. Error mapping: what the client is blamed for was
not worth a retry, and is logged as a warning (the converse of the second does
not hold, see "Seen while reading"). API: the operation
called is the one served, and the client finds what the handler returned. List:
pages neither skip nor repeat rows, but for the rows that changes of the table
behind the client move. Life cycle: the store is closed, the exit status is
right, a signal always ends the process, and requests are cut by nothing else.

## Modules

| Module | What it is |
|---|---|
| `ServiceErrors` | the constant operators of the error tables |
| `Store` | the resource table and the calls on it, as actions on `db` with an error result |
| `ResourceManager` | the SPRM as this service uses it: instances, refusals, the queue of deferred deletions |
| `Placement` | the service: composes `Store` and `ResourceManager` with any number of requests, their clients, the calls under way and the process |
| `PlacementProperties` | the properties of `Placement`, and its refinement mapping |
| `RecordProtocol` | the abstract specification: what the service promises about the two stores |
| `ErrorPath` | one operation behind its handler: a collaborator's failure on its way through the retries, the tables, the log and the answer |
| `Exchange` | one call of the API around it: generated client, router, validator, strict server, and back; extends `ErrorPath` |
| `Pagination` | a client that lists page by page while the table changes |
| `Lifecycle` | one process from start to exit, with its requests |
| `MCPlacement`, `MCExchange`, `MCPagination`, `MCLifecycle` | the instances that are model-checked |
| `PlacementProof` | type correctness of `Placement`, and what holds under every fault: `OriginalSpec`, `DeletedByItself` |
| `OrphanProof` | `NoOrphan`, `OneHolder`, `LateOwned` |
| `ProtocolProof` | `KeepsToProtocol`, `NoStaleRecord`, `CreatedIsRecorded` |
| `ServedProof` | `AlwaysServed` |
| `RehydrationProof` | exclusive clients, rehydrations included: `NoUntracked`, `RecordMatchesInstance`, `FailureLeavesNothing`, `KeepsToProtocol`, `CreatedIsRecorded`, `NoStaleRecord`, `OneRecordPerItem` |
| `ExchangeProof`, `PaginationProof`, `LifecycleProof` | every safety property of these three modules |

Each module holds, next to a definition, the faulty variant a property has been
shown to catch (`... Faulty: ...`); they are not part of the specification.

### Placement and the code

A request is a slot `r`. `pc[r]` names the remote call its handler makes next
and `job[r]` is what the handler has learnt so far (ids, catalog item instance,
specification, provider, evaluated specification). One action is one remote
call with everything the handler does until the next one:

| Action | Code |
|---|---|
| `SubmitCreate`, `SubmitById`, `SubmitRehydrate` | the handlers of `handler.go`; `NewId` is `getOrGenerateStringId` |
| `Get` | the `Get` of `GetResource`, `DeleteResource`, `RehydrateResource` |
| `Evaluate` | `policy.Evaluate` with all its attempts (they have no effect, so only the last answer matters) |
| `Insert` | `Resource().Create`, with its three outcomes |
| `Provision` | one attempt of `sprm.CreateResource` |
| `Rollback` | the `Delete` after a failed provisioning, whose own error is only logged |
| `Unprovision` | one attempt of `sprm.DeleteResource` |
| `Deferred` | one attempt of `sprm.DeleteResourceDeferred`, whose error is only logged |
| `Remove` | the `Delete` of the deleted or replaced record |
| `Reply` | the handler's return |
| `Cancel` | the client disconnects; `alive[r]` is the request's context |
| `Crash` | the process stops; also a shutdown, see below |
| `Deliver` | an SPRM call whose caller is gone is executed after all |
| `SprmCleanUp` | the SPRM finishes a queued deletion |

Choices that are not obvious:

- **Shutdown is `Crash`** (its details are in `Lifecycle`). `http.Server.Serve` returns as soon as `Shutdown` is
  *called*; `Run` then returns and `main` exits, whatever the handlers are
  doing. The five seconds of `gracefulShutdownTimeout` bound nothing.
- **Dead contexts.** A statement or SPRM call under a cancelled context fails. The
  SPRM call may have been sent already: executed at once and unheard, executed
  later (it joins `late`), or never. A statement that was running when the
  context was cancelled is the fault `"db"`: executed or not, and no
  acknowledgement.
- **Lost calls.** `Attempt` with `NoAnswer` covers a call that is lost, one that is
  executed while its answer is lost, and one that is executed arbitrarily
  later, after retries and other requests. While the caller waits this is the
  fault `"loss"`. A body that cannot be decoded counts as a lost answer, as in
  the clients. `by` and `try` tell copies of a call apart.
- **The process stops in the middle of a call.** Every SPRM call a handler waits
  for (`InFlight`) is executed before `Crash`, joins `late`, or is lost. A database
  statement under way is executed before `Crash` or not at all.
- **`Lingering`** says which kinds of calls may be executed after their caller has
  gone (`MayLinger`). In the code it is all of them; a smaller set in a run or an
  assumption of a theorem tells which promise depends on which.
- **Back-off.** Only the number of attempts matters: `Retries` is the decision
  of `backoff.Retry` (attempts left, not permanent, context alive). Sleeping
  does not change any state.
- **Deferred deletion.** The SPRM answers 204 both when it deletes the instance
  and when it queues the deletion, the reading `client.go:123-124` gives.
- **`Exclusive`.** Some promises only hold for clients that do not run two
  requests on one resource and place a catalog item instance once. A client that has
  disconnected, or whose service has stopped, waits until the handler of its
  request is gone, but not for the SPRM calls it has left. Where a run
  assumes that, its configuration says `Exclusive = TRUE`.
- Left out: timestamps, path, approval status, the content of specifications
  and bodies, wording and logging (but for the level, in `ErrorPath`).

### ErrorPath, Exchange and the code

One call of one client: nothing in these layers is shared by two requests,
except the back-off. `stage` is where the call is (`calling`, `sent`, `routed`,
`bound`, `serving`, `written`, `over`), `phase` where the handler is within
`serving`.

| Action | Code |
|---|---|
| `Send` | a method of `pkg/client.Client` up to `Do`; request building and editors may fail |
| `Validate` | the OpenAPI middleware installed by `Run`: 404 or 405 without a route, 400 for a malformed request |
| `Bind` | `ServerInterfaceWrapper`: path and query parameters |
| `Decode` | the body, in `strictHandler`; then the handler of the matched route begins (`Begin`) |
| `FailedAttempt`, `Succeed`, `OwnFailure` | one attempt of `policy.Evaluate` or an SPRM call; its success; an error the service finds itself |
| `Interfere` | another call of the same client resets or advances the shared back-off |
| `Respond` | `logServiceError` and the handler's switch over error codes |
| `Panic` | `middleware.Recoverer` |
| `Encode` | `Visit...Response`, or a failure to encode, which comes before the status is written |
| `Receive`, `Lose` | `Parse...Response` of the client; a broken connection |

A request is abstracted to what a layer may refuse: the form of its id
(`IdClass`) and of its other arguments (`Arguments`). A request whose editors
add a second query parameter, or whose body is JSON that Go cannot decode,
passes the validator and is refused later; both are in. An id of dots resolves
against the path (`url.Parse`), so its target is another path. `Visit` and
`Parse` are written from the two generated files independently, one operator per
function; `Understood` compares them. The random part of a pause is left out:
`interval` is its mean. The Go race on the back-off's fields is within
`Interfere`, which may set any interval.

### Pagination and the code

A row is its rank in `ORDER BY create_time, id`. `Stamp` takes a create_time,
`Insert` commits the row, so rows appear out of their order; `Abandon` is an
insertion that fails. A rehydration is an `Insert` and a `Delete`.
`ListResources` is one page: `Fetch` is the query with its limit of one row
more than the page, `First` the trimming, `generateNextPageToken` the token. The
client may choose another size for each page, and begin with no token, an empty
one, garbage, or any number: `decodePageToken` lets a negative number through
(its comment says that it returns 0 for an invalid token), the database ignores
a negative offset, and the next token is then computed from it, so that rows
are returned again; `NothingRepeated` says so. A token is not tied to its
filter; a walk keeps one filter here. `seen`, `repeated`, `fresh`, `grown` and
`shrunk` are history: what the walk returned and what happened to the table.

### Lifecycle and the code

`pc` counts the steps of `run`, and of `Run` within it (`Order`). `Succeeds` and
`Fails` are a step, `deferred` the calls it defers, run last in, first out by
`Cancel` and `Close`. `Shutdown` is the goroutine of `Run`. A signal kills the
process unless `NotifyContext` catches it, including after `Cancel` has given
the signals back. A request queues in the listener's backlog, is accepted, and
its handler runs statements; `Accept` needs `Serve`, but a handler goes on after
`Serve` has returned, up to `Exit`. `sql.DB.Close` refuses new statements and
does not wait for running ones, so a handler may find the store closed
(`refused`) or end with the process (`lost`). `InitDB` may fail in the migration
and leave its connection open (`leaked`); `ClosesStore` excepts that.

## Runs

`tlc -config X.cfg M` with the modules and configurations of `PROJECT.json`.

| Run | Circumstances | Shows | Distinct states |
|---|---|---|---|
| `crud` | 3 requests on one reused id; no faults, SPRM refuses with 422 and 503; 3 attempts | `NoStaleRecord`, `ImplementsProtocol` (with its liveness), `Answered` | 20 thousand |
| `disconnect` | the same with disconnects, stops in the middle of calls and a failing database; every kind of call may be executed late, 2 at a time | `NoOrphan`, `OneHolder`, `LateOwned`, `CreatedIsRecorded`, `DeletedByItself`, `KeepsToProtocol` | 0.8 million |
| `interrupted` | 2 requests of all kinds but reads, 2 ids, 2 specifications, 2 providers, exclusive clients; disconnects, stops in the middle of calls, a failing database; deletions may be executed late, 1 at a time | `TypeOK`, `NoUntracked`, `RecordMatchesInstance`, `OriginalSpec`, `CreatedIsRecorded`, `KeepsToProtocol` | 0.5 million |
| `rehydrate` | 2 requests, 3 ids, 2 catalog items, exclusive clients, no faults | `NoStaleRecord`, `OneRecordPerItem`, `FailureLeavesNothing`, `ImplementsProtocol` (with its liveness) | 59 thousand |
| `served` | 2 racing requests over 4 UUIDs, stops in the middle of calls, 2 of which may be executed late, database faults | `AlwaysServed` | 0.3 million |
| `errors` | every operation, well formed or not, every status that a table names or misses, 4 attempts, one back-off | `ClientFaultIsPermanent`, `ClientFaultIsWarning`, `BacksOff`, `HandledAsCalled`, `Understood`, `RefusedMeansUntouched` | 0.1 million |
| `pages` | 4 rows of two providers, pages of 1 or 2, first offsets absent, garbage, -1, 2 | `NothingSkipped`, `NothingRepeated`, `WalkEnds` | 0.14 million |
| `lifecycle` | 2 requests, 2 signals, every step may fail | `ClosesStore`, `ExitStatus`, `LostWhenStopped`, `SignalStops` | 1,515 |
| `rollback`, `orphan`, `stuck`, `problem` | the smallest circumstances of each finding | the findings below | – |

**Bounds.** Two requests make every race of two handlers, three let a third use
the id again between two steps of the others (reusing an id needs create, delete and create). `MaxTries` is 4 in the code; with 2 or 3 there is a first attempt, a
repeated one and a last one, which is all `Retries` distinguishes. `MaxLate` 1
suffices for a late call to meet a later use of its id, 2 for two late calls of
two requests to meet; the theorems have no such bound. Four UUIDs allow a chain of three
rehydrations or two chains racing from one resource; in `interrupted`, a chain goes on
through an id of the client's own, and by the same way an id is used again. `Refusals` holds one
permanent and one transient status, because `IsPermanentHTTPError` tells no
more apart. `errors` uses the four attempts of the code and every status that one
of the tables treats in a way of its own. Four rows and pages of up to two allow
a full page followed by a full, a partial or no page, with changes before and
behind the offset. Two signals are one that is caught and one that is not.
Symmetry is used in runs without liveness only, on sets whose
members no definition names.

`CHECK_DEADLOCK FALSE` is set for `errors`, `problem`, `pages` and `lifecycle`:
an exchange is over, a walk has ended, a process has exited.

**Fairness.** `WF` of `Step(r)`: a handler makes its next step because every
call it waits for returns (the HTTP clients have a timeout, retries are
bounded, the database answers or fails). `WF` of `SprmCleanUp`: the SPRM works
off its queue. Nothing is assumed of clients, of `Cancel`, `Crash` or
`Deliver`. Liveness of `Placement` is checked without faults. `Pagination`: `WF` of `List`:
the client goes on asking and the database answers in the end. `Lifecycle`: `WF`
of `Run` and `Shutdown`, the two goroutines, whose calls return; none of
handlers, signals or a broken listener, so `SignalStops` holds with handlers that never return.

### Findings

Each is a run that TLC ends with a counterexample.

1. `rollback`: a client disconnects while its resource is provisioned, the
   provisioning fails for that reason, and the rollback runs under the same
   cancelled context: it fails too, and the record stays without an instance
   (`README.md:65` says that the record is rolled back). Rolling back under a
   context of its own is *not* enough: the call that was cut off may still be executed,
   and would then leave an instance without a record. The model shows it: with
   `UndoDetached`, `NoOrphan` fails in the run `disconnect`.
2. `orphan`: the SPRM executes a creation but its answer is lost; the retry is
   answered 409, taken for a permanent failure, and the record is rolled back while
   the instance runs (`.ai/checkpoints/rehydration-flow.md:20` has a failed rehydration change nothing).
3. `stuck`: the SPRM executes a deletion but its answer is lost; the retry is
   answered 404, and so is every later deletion: the record can no longer be removed.
4. `problem`: what the validator, the parameter binding or the decoding of the
   body refuses is answered with a line of `text/plain`; `README.md:11` says
   that the API uses problem details for error responses. The generated client
   then finds the status but no problem, whichever field it looks into.

Three more come from a run of this project with one constant changed:

5. With `"loss"` among the `Faults` of `interrupted.cfg`, or with the refusals
   `NoDeferral`, `NoUntracked` is violated: the deferred deletion call itself
   fails or is refused, and the old record is removed all the same
   (`placement.go:339-347`); nothing knows the old instance any more. `.ai/checkpoints/rehydration-flow.md:16`
   counts on the SPRM's queue, which the call has not reached.
6. With `"rehydrate"` among the `Kinds` of `disconnect.cfg`, `CreatedIsRecorded` is violated: a
   rehydration may replace a record that is still being provisioned; the creation then
   answers 201 for an id that is gone. Rehydrations among exclusive clients do
   not do this, whatever fails (`CreationIsKeptByExclusion`).
7. With `"create"` among the `Lingering` calls of `interrupted.cfg`, `NoUntracked` is
   violated by clients that never run two requests on one resource: the
   provisioning of a creation is cut off, by a disconnect or by a stop of the
   process, which leaves its record; a rehydration of that record later deletes
   an instance that is not there yet (404, only logged) and removes the record,
   and the SPRM executes the creation after that. `RecordMatchesInstance`,
   `KeepsToProtocol` and `FailureLeavesNothing` depend on the same assumption.

Seen while reading, without a run: an SPRM 404 on a creation and an SPRM
409 on a deletion are answered 500 but logged as warnings, although the comment
at `handlers/errors.go:12-13` has 5xx answers logged as errors (`handlers/errors.go:14-23`, `service/errors.go`); `ClientFaultIsWarning` states the
direction that holds;
`.ai/checkpoints/rehydration-flow.md:21` and `:75` speak of 202 for a
rehydration where `openapi.yaml` and the code answer 200; `README.md:120` shows
the health status `healthy` where the code says `ok`.

## Proofs

`tlapm` checks every theorem for all values of the constants that satisfy the
assumptions named in the modules: any number of requests, ids, providers, attempts,
late calls, rows, page sizes, signals.

- **`TypeCorrect`** (`Spec => []TypeOK`). `TypeOK` is inductive. Besides types it says what a
  handler at `pc[r]` already knows (`JobOK`), without which no later proof could
  say which id a step touches. The proof splits it into the stores (`StoresOK`)
  and the slots (`SlotsOK`): a lemma for each kind of call says what it does to
  the stores, and three lemmas (`GoType`, `AnswerType`, `TryAgainType`) what the
  three ways to go on do to a slot.
- **`NeverOrphaned`**, **`HeldByOne`**, **`LateIsOwned`** (under `Tame`: no
  rehydration, no answer lost while its caller waits; clients may disconnect, the process
  stop and the database fail, and every call so cut off may be executed later). `NoOrphan` is not inductive: `Rollback` and `Remove` delete by id
  without a look at the SPRM. They are safe because a request that will do so
  owns the record (`OneHolder`): nobody else may provision or remove it, and it has
  no instance. That in turn needs `LateOwned`, for a creation whose caller is gone may
  still be executed: its record must still be there, which is so because
  the rollback of the request that was cut off cannot run. A stop hands the row
  of a request that is provisioning over to the creation it leaves (`CrashOwned`). The
  invariant is `Owned == NoOrphan /\ OneHolder /\ LateOwned`; six lemmas say
  what can happen to an owner (removes, provisions, gives up, acquires, ...),
  and each action is one of them.
- **`SpecIsOriginal`**: `OriginalSpec` under every fault, inductive together with the
  specification a handler is about to insert (`AsksOriginal`).
- **`DeletionIsOwn`**: `DeletedByItself` under every fault, from `TypeOK` and the
  fact that a request is answered by a step of its own only.
- **`StaysInProtocol`** (under `Tame`): every step of the service is a step of
  `RecordProtocol` or leaves its three sets alone. A lemma per abstract step says
  which change of the two stores it is, one per action which of them it makes.
  `Owned` gives what the abstract guards ask: whoever provisions or removes a row
  finds it there and without an instance, and so does a late creation.
  `NoQueue` says that no deferred deletion is sent. This is the safety part of `ImplementsProtocol`, under the faults
  its liveness does not survive.
- **`NeverStale`** (under `Calm`: no fault, no rehydration): `NoStaleRecord` is
  inductive together with `Undisturbed` (no call under way without its caller, every client
  listening). A step of a request may make a stale row only if it holds it
  afterwards, and may stop holding one only if it is stale no more (`KeepsHolding`).
- **`CreationIsKept`** (under `Tame`): `CreatedIsRecorded`. Only a provisioning
  answered 201 makes the answer OK, since a rollback answers the failure that
  caused it (`Failed`); the row is there because its owner is alone with it.
- **`ServedAlways`** (under `Continuous`: no deletion by clients, ids are UUIDs, database
  faults and stops in the middle of calls that may all be executed later, but no
  disconnect and no answer lost while its caller waits): `AlwaysServed` for any
  number of racing rehydrations. The replacement that justifies a removal may itself have
  been replaced, doomed or removed by the time of the removal, so no invariant
  about one rehydration suffices. The rows are ranked in the order of their
  insertion (`Ranked`; a rehydration inserts the new row after it has read the
  old one, `Later`); the invariant says that whatever is being removed, queued at the SPRM, or
  replaced before it was provisioned, and whatever a deferred deletion left by a
  stop may still remove, is covered by a live resource of higher
  rank that nothing is about to remove (`Covered`). `Minting` adds that an id is
  made by one request, and not seen by another before it is inserted.
  Each step is one that lets what serves go on serving
  (`Persists`), an insertion, which ranks above all, or a provisioning, which
  covers what it replaces and all that this covered.
- **`CreationIsKeptByExclusion`**, and the rest of `RehydrationProof`, which is about
  every kind of request among clients that do not run two requests on one
  resource (`Exclusive`). Two running requests then have no id in common
  (`Apart`), so that a row a handler has read or inserted is still there at its
  next call (`Found`). Both are invariants under **every** fault, because they ask
  nothing of the SPRM; so is therefore `CreatedIsRecorded`.
- **`NothingUntracked`**, **`RecordNamesProvider`**, **`RehydratesInProtocol`**, **`FailureIsUndone`**
  (under `Orderly`, four assumptions: exclusive clients; no answer lost while its
  caller waits; deferred deletions not refused; no creation executed after its caller has gone,
  because the SPRM does not or because no caller goes). Clients may disconnect,
  the process may stop in the middle of calls and the database fail, and the deletions so
  cut off may be executed at any time; `FailureIsUndone` asks for clients that stay
  and a database that works. `NoUntracked` is not inductive: `Remove` deletes a row
  without a look at the SPRM. The invariant `Tidy` adds that no instance would
  be lost by it (`ClearedBy`: a request that listens and is about to remove or roll back a row, or to
  provision it, knows the id to have no instance, or a queued one; a dead context
  removes no row), that only provisioned
  ids are queued, that records name their providers, and that only deletions are under way
  without their caller (`LateDeletions`): a late one takes or queues the instance
  of a record that stays. The two stores change in five ways; a lemma each
  says what it asks for, that it keeps the stores coherent, and which step of
  `RecordProtocol` it is (`RecordsCoherently` ... `EnqueuesCoherently`). A lemma per kind of action
  then shows that `Apart` and `Found` give what is asked. `RehydratesInProtocol` is
  the safety part of the refinement with rehydrations; `StaysInProtocol` is
  the same for clients that race, without rehydrations. None of the four assumptions can be
  left out: findings 5 (a lost or refused deferral) and 7 (a late creation), and racing
  rehydrations for `Exclusive`.
- **`NeverStaleByRehydration`** (under `Undistracted`: `Orderly` and no fault): `NoStaleRecord` among
  exclusive clients. `NoStaleRecord` alone is not inductive, because the
  SPRM's worker deletes a queued instance on its own; `InHand` says the same of records
  whose instance is queued, which the worker's step then leaves as it is.
- **`OneRecordEach`** (under `Uncut`: exclusive clients whose SPRM calls may all be lost or late,
  but whom no disconnect, crash or database fault cuts off). `OneRecordPerItem`
  excuses two records by a rehydration at certain places; what makes it inductive is
  that a request that places an item knows all its records (`PlacesBy`: `RowsOf(c) \subseteq Uses(r)`,
  and before the insertion only the one to be replaced), and that one
  request places it at a time (`OnePlaces`). A rehydration learns its item only
  when it reads the row, so `GetPlacing` is where `Apart` is needed: another
  request that places the same item would have this row among its ids. The
  excluded faults do leave two records behind, with no request to excuse them.
- **`BlameIsPermanent`**, **`BlameIsWarning`**, **`KeepsBackingOff`**, **`ServesWhatWasCalled`**,
  **`AnswersAreUnderstood`**, **`RefusalsAreSafe`**: all of `Exchange`, for any set
  of statuses, any number of attempts and any form of id. Lemmas first compare
  the tables: a well-formed call has one route, its own (`RoutedAsCalled`), and
  every status the tables of errors produce is read where it was written. The
  invariant then says what an exchange remembers: that only well-formed calls
  pass the validator, which service errors the pair of operation and
  collaborator can produce, that the handler's answer is what was written, and
  that a pause followed the one before it.
- **`SkipsNothing`**, **`RepeatsNothing`**: `Pagination` for tables, pages and
  offsets of any size. The lemmas are about positions in a finite set of
  numbers: they are distinct (`BeforeMonotone`), take every value up to the
  count (`BeforeOnto`), so that a page holds as many rows as its range has
  places (`Slice`), and an insertion or deletion moves those behind it by at most one. `NothingSkipped` speaks
  of the end of a walk; inductive is `Covered`: on the way, every row before
  the offset has been returned or is fresh. `NothingRepeated` needs `Behind`: what was returned
  and is still there lies before the offset.
- **`StoreClosed`**, **`StatusTells`**, **`NothingLost`**: `Lifecycle` for any
  number of requests and signals. Inductive with `StoreDeferred` (an open store has its deferred
  call), `Reason` (why `run` has returned) and `ComesLate` (requests come after
  the store is open).

Every safety invariant and every action property the runs check is stated by a
theorem. The circumstances of each theorem are at least as wide as those of the run
that checks the property; the inductive invariants were model-checked
on the runs' instances before they were proved. The circumstances of the
theorems about rehydration are the widest that name whole kinds of faults: with
one more of them allowed TLC finds a counterexample (in `interrupted.cfg` lost answers,
late creations with a disconnect or with a stop alone, racing
clients or refused deferrals for `NoUntracked`; in `rehydrate.cfg` stops, disconnects or
database faults for `OneRecordPerItem`, disconnects or database faults for
`FailureLeavesNothing`).

Only model-checked is liveness, which is out of the prover's reach: `Answered`, `WalkEnds`, `SignalStops`
and the fair part of `ImplementsProtocol` (its initial states and steps are
`StaysInProtocol` and `RehydratesInProtocol`). Worth proving next: that an instance is lost only by a
call that is (a form of `NoUntracked` that names `late`).

## Not modelled

- The content of specifications, resources and bodies, and the validation of
  their fields: no property tells two of them apart.
- Reading the environment, formatting log lines, the mapping of log levels to GORM's, the schema: no state
  a property depends on.
- Timestamps other than the order of `create_time`, the path and the approval
  status of a record: written once, read by nobody here.
- The database's own recovery, and what the SPRM and the policy engine do
  inside: not in this repository; `ResourceManager` is what this service
  assumes of the first, and the second has no effect.
- The random part of a pause and the time calls take: they decide when a step
  happens, which the interleavings leave open anyway.
