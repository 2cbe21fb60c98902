------------------------------ MODULE ErrorPath ------------------------------
(***************************************************************************)
(* What one operation of the service makes of a call to a collaborator     *)
(* that fails: the attempts and the pauses between them, the service error *)
(* it becomes, and what the handler logs and answers.  Retrying, naming,   *)
(* logging and answering are decided by four tables of ServiceErrors kept  *)
(* in four files; this module runs them against each other.                *)
(*                                                                         *)
(* The calls of one client share one exponential back-off, which a call    *)
(* resets when it starts and advances before each pause, without a lock.   *)
(* Interfere stands for what the other calls do to it meanwhile.  The      *)
(* random part of a pause is left out: interval is its mean, in seconds.   *)
(***************************************************************************)
EXTENDS ServiceErrors, Sequences

CONSTANTS
  Status,    \* the failures a collaborator answers with, or NoAnswer
  MaxTries   \* attempts of one call, 4 in the code

ASSUME ErrorPathAssumption == /\ Status \subseteq (400..599) \cup {NoAnswer}
                              /\ MaxTries \in Nat \ {0}

VARIABLES
  op,        \* the operation of the API the handler serves
  source,    \* what may fail in it: "policy", "sprm", "service" or "nothing"
  phase,     \* "idle", "calling", "returned" or "answered"
  status,    \* what the last failed attempt was answered with
  tries,     \* the attempts that failed
  code,      \* the service error, or Nil
  level,     \* the level it is logged at
  http,      \* the status of the handler's response
  interval,  \* the shared back-off's current interval
  waits,     \* the pauses this call has made
  disturbed  \* whether another call has touched the back-off since this one began

backoff == <<interval, waits, disturbed>>
path    == <<op, source, phase, status, tries, code, level, http, backoff>>

Nil == "nil"

\* The collaborators an operation calls.
Calls == [health |-> {}, list |-> {}, get |-> {}, create |-> {"policy", "sprm"},
          delete |-> {"sprm"}, rehydrate |-> {"policy", "sprm"}]

\* The errors the service finds itself: in its input, its database or an
\* evaluation without a provider.
OwnErrors == [health    |-> {},
              list      |-> {"VALIDATION", "INTERNAL_ERROR"},
              get       |-> {"NOT_FOUND", "INTERNAL_ERROR"},
              create    |-> {"CONFLICT", "INTERNAL_ERROR", "POLICY_INTERNAL_ERROR"},
              delete    |-> {"NOT_FOUND", "INTERNAL_ERROR"},
              rehydrate |-> {"NOT_FOUND", "CONFLICT", "INTERNAL_ERROR", "POLICY_INTERNAL_ERROR"}]

-----------------------------------------------------------------------------
\* The exponential back-off of DefaultRetryOpts.

\* Faulty: every pause is as long as the first.
MultiplierNone == 1

InitialInterval == 1
Multiplier      == 2
MaxInterval     == 4
Interval        == {1, 2, 4}

ResetInterval == InitialInterval

Advance(i) == IF i * Multiplier >= MaxInterval THEN MaxInterval ELSE i * Multiplier

\* A call of the same client resets or advances the back-off.
Interfere ==
  /\ phase = "calling" /\ source \in {"policy", "sprm"}
  /\ interval' \in Interval \ {interval}
  /\ disturbed' = TRUE
  /\ UNCHANGED <<op, source, phase, status, tries, code, level, http, waits>>

-----------------------------------------------------------------------------
PathInit ==
  /\ op = "none" /\ source = "nothing" /\ phase = "idle" /\ status = NoAnswer /\ tries = 0
  /\ code = Nil /\ level = "none" /\ http = 0
  /\ interval \in Interval /\ waits = <<>> /\ disturbed = FALSE

\* The handler of o calls the service.
Begin(o) ==
  /\ phase = "idle"
  /\ op' = o /\ phase' = "calling"
  /\ \/ source' \in Calls[o] /\ interval' = ResetInterval
     \/ source' \in {"service", "nothing"} /\ UNCHANGED interval
  /\ UNCHANGED <<status, tries, code, level, http, waits, disturbed>>

NameOf(s) == IF source = "policy" THEN HandlePolicyError(s) ELSE HandleSPRMError(s)

GivesUp(s) == tries + 1 >= MaxTries \/ IsPermanentHTTPError(s)

\* One more attempt fails; the call fails with it, or pauses and goes on.
FailedAttempt ==
  /\ phase = "calling" /\ source \in {"policy", "sprm"}
  /\ \E s \in Status :
       /\ status' = s /\ tries' = tries + 1
       /\ \/ GivesUp(s) /\ phase' = "returned" /\ code' = NameOf(s) /\ UNCHANGED backoff
          \/ /\ ~GivesUp(s)
             /\ waits' = Append(waits, interval) /\ interval' = Advance(interval)
             /\ UNCHANGED <<phase, code, disturbed>>
  /\ UNCHANGED <<op, source, level, http>>

OwnFailure ==
  /\ phase = "calling" /\ source = "service"
  /\ code' \in OwnErrors[op]
  /\ phase' = "returned"
  /\ UNCHANGED <<op, source, status, tries, level, http, backoff>>

\* The call succeeds, at once or after failed attempts, and the operation with it.
Succeed ==
  /\ phase = "calling" /\ source # "service"
  /\ phase' = "returned"
  /\ UNCHANGED <<op, source, status, tries, code, level, http, backoff>>

LogServiceError(c) ==
  CASE c = Nil          -> "none"
    [] IsClientError(c) -> "Warn"
    [] OTHER            -> "Error"

SuccessStatus == [health |-> 200, list |-> 200, get |-> 200, create |-> 201,
                  delete |-> 204, rehydrate |-> 200]

ErrorStatus(o, c) ==
  CASE o = "list"      -> HandleListResourcesError(c)
    [] o = "get"       -> HandleGetResourceError(c)
    [] o = "create"    -> HandleCreateResourceError(c)
    [] o = "delete"    -> HandleDeleteResourceError(c)
    [] o = "rehydrate" -> HandleRehydrateResourceError(c)

HandlerStatus(o, c) == IF c = Nil THEN SuccessStatus[o] ELSE ErrorStatus(o, c)

\* The handler logs the error and returns its response.
Respond ==
  /\ phase = "returned"
  /\ phase' = "answered"
  /\ level' = LogServiceError(code)
  /\ http' = HandlerStatus(op, code)
  /\ UNCHANGED <<op, source, status, tries, code, backoff>>

Handle == FailedAttempt \/ OwnFailure \/ Succeed \/ Interfere \/ Respond

-----------------------------------------------------------------------------
(***************************************************************************)
(* The client is blamed (4xx) for a collaborator's failure only if that    *)
(* failure was permanent: nothing that was worth retrying is reported as a *)
(* request not worth repeating.                                            *)
(***************************************************************************)
ClientFaultIsPermanent ==
  phase = "answered" /\ source # "service" /\ http \in 400..499 => IsPermanentHTTPError(status)

(***************************************************************************)
(* What the client is blamed for is logged as a warning, never as an error *)
(* of the service (handlers/errors.go:12-13).                              *)
(***************************************************************************)
ClientFaultIsWarning == phase = "answered" /\ http \in 400..499 => level = "Warn"

Pause(i) == CASE i = 1 -> 1 [] i = 2 -> 2 [] OTHER -> 4

(***************************************************************************)
(* Both clients back off exponentially (README.md:156): a call pauses one  *)
(* second, then two, then four (retry.go:11-21), whatever the earlier      *)
(* calls of its client have left in the back-off they share, unless        *)
(* another call runs beside it.                                            *)
(***************************************************************************)
BacksOff == ~disturbed => \A i \in DOMAIN waits : waits[i] = Pause(i)
=============================================================================
