----------------------------- MODULE ExchangeProof -----------------------------
(***************************************************************************)
(* What Exchange keeps for every failure a collaborator may answer with,   *)
(* any number of attempts and any form of an id.                           *)
(*                                                                         *)
(* The tables are compared first, operation by operation: routes with      *)
(* targets, names with answers, answers with what the client reads.  Then  *)
(* follows what one exchange remembers between its layers.                 *)
(***************************************************************************)
EXTENDS Exchange, TLAPS

-----------------------------------------------------------------------------
\* The tables.

LEMMA Operations == Operation = {"health", "list", "get", "create", "delete", "rehydrate"}
  BY DEF Operation, Calls

\* A well-formed call is routed to the operation called.
LEMMA RoutedAsCalled ==
  ASSUME NEW c \in Call, c.id = "good", NEW o \in Matches(Target(c))
  PROVE  o = c.op
<1>1. c.op \in Operation /\ o \in Operation /\ Routes[o] = Target(c)
  BY DEF Call, Matches
<1>2. /\ Routes["health"] = <<"GET", "/health">>
      /\ Routes["list"] = <<"GET", "/resources">>
      /\ Routes["create"] = <<"POST", "/resources">>
      /\ Routes["delete"] = <<"DELETE", "/resources/{resourceId}">>
      /\ Routes["get"] = <<"GET", "/resources/{resourceId}">>
      /\ Routes["rehydrate"] = <<"POST", "/resources/{resourceId}:rehydrate">>
  BY DEF Routes
<1>3. Target(c) = Routes[c.op]
  <2>. USE <1>2 DEF Target
  <2>1. CASE c.op \in {"health", "list", "create"}
    BY <2>1 DEF NewGetHealthRequest, NewListResourcesRequest, NewCreateResourceRequest
  <2>2. CASE c.op \in {"delete", "get"}
    BY <2>2 DEF NewDeleteResourceRequest, NewGetResourceRequest, ResourceTarget
  <2>3. CASE c.op = "rehydrate"  BY <2>3 DEF NewRehydrateResourceRequest
  <2>. QED  BY <1>1, <2>1, <2>2, <2>3, Operations
<1>4. \A m \in Operation :
        /\ Routes[m][1] = IF m = "delete" THEN "DELETE"
                          ELSE IF m \in {"create", "rehydrate"} THEN "POST" ELSE "GET"
        /\ Routes[m][2] = IF m = "health" THEN "/health"
                          ELSE IF m \in {"list", "create"} THEN "/resources"
                          ELSE IF m = "rehydrate" THEN "/resources/{resourceId}:rehydrate"
                          ELSE "/resources/{resourceId}"
  <2>1. /\ Routes["health"][1] = "GET" /\ Routes["health"][2] = "/health"
        /\ Routes["list"][1] = "GET" /\ Routes["list"][2] = "/resources"
        /\ Routes["create"][1] = "POST" /\ Routes["create"][2] = "/resources"
        /\ Routes["delete"][1] = "DELETE" /\ Routes["delete"][2] = "/resources/{resourceId}"
        /\ Routes["get"][1] = "GET" /\ Routes["get"][2] = "/resources/{resourceId}"
        /\ Routes["rehydrate"][1] = "POST"
        /\ Routes["rehydrate"][2] = "/resources/{resourceId}:rehydrate"
    BY DEF Routes
  <2>. QED  BY <2>1, Operations
<1>5. Routes[o][1] = Routes[c.op][1] /\ Routes[o][2] = Routes[c.op][2]
  BY <1>1, <1>3
<1>. QED  BY <1>1, <1>4, <1>5, Operations

\* The answers to an error, and whose fault it is.
LEMMA ErrorStatuses ==
  ASSUME NEW o \in Operation \ {"health"}, NEW c \in ErrorCode
  PROVE  /\ HandlerStatus(o, c) \in {400, 404, 406, 409, 422, 500}
         /\ HandlerStatus(o, c) # 500 => IsClientError(c)
  BY Operations DEF HandlerStatus, ErrorStatus, ErrorCode, Nil, HandleListResourcesError,
    HandleGetResourceError, HandleCreateResourceError, HandleDeleteResourceError, HandleRehydrateResourceError,
    IsClientError

\* The client finds a problem in the field of its status, 500 in the default.
LEMMA ProblemRead ==
  ASSUME NEW o \in Operation \ {"health"}, NEW c \in ErrorCode
  PROVE  LET s == HandlerStatus(o, c)
         IN  /\ Visit(o, s) = "problem"
             /\ Parse(o, s) = IF s = 500 THEN "default" ELSE "problem"
  BY Operations DEF HandlerStatus, ErrorStatus, ErrorCode, Nil, HandleListResourcesError,
    HandleGetResourceError, HandleCreateResourceError, HandleDeleteResourceError, HandleRehydrateResourceError,
    Visit, VisitListResourcesResponse, VisitGetResourceResponse, VisitCreateResourceResponse,
    VisitDeleteResourceResponse, VisitRehydrateResourceResponse, Written,
    Parse, ParseListResourcesResponse, ParseGetResourceResponse, ParseCreateResourceResponse,
    ParseDeleteResourceResponse, ParseRehydrateResourceResponse, Read

\* And a result where there is one.
LEMMA ResultRead ==
  ASSUME NEW o \in Operation
  PROVE  LET s == HandlerStatus(o, Nil)
         IN  /\ s \in {200, 201, 204} /\ (s = 204 <=> o = "delete")
             /\ Visit(o, s) = IF o = "delete" THEN "none" ELSE "json"
             /\ o # "delete" => Parse(o, s) = "result"
<1>1. HandlerStatus(o, Nil) = SuccessStatus[o]  BY DEF HandlerStatus
<1>2. SuccessStatus[o] = IF o = "create" THEN 201 ELSE IF o = "delete" THEN 204 ELSE 200
  BY Operations DEF SuccessStatus
<1>. DEFINE s == IF o = "create" THEN 201 ELSE IF o = "delete" THEN 204 ELSE 200
<1>3. HandlerStatus(o, Nil) = s  BY <1>1, <1>2
<1>4. Visit(o, s) = IF o = "delete" THEN "none" ELSE "json"
  BY Operations DEF Visit, Written, VisitGetHealthResponse, VisitListResourcesResponse,
    VisitGetResourceResponse, VisitCreateResourceResponse, VisitDeleteResourceResponse,
    VisitRehydrateResourceResponse
<1>5. o # "delete" => Parse(o, s) = "result"
  BY Operations DEF Parse, Read, ParseGetHealthResponse, ParseListResourcesResponse,
    ParseGetResourceResponse, ParseCreateResourceResponse, ParseRehydrateResourceResponse
<1>. QED  BY <1>3, <1>4, <1>5

\* An error named after a status blames the client for a permanent one only.
LEMMA NamedPermanent ==
  ASSUME NEW s \in (400..599) \cup {NoAnswer}
  PROVE  /\ HandlePolicyError(s) \in ErrorCode /\ HandleSPRMError(s) \in ErrorCode
         /\ IsClientError(HandlePolicyError(s)) => IsPermanentHTTPError(s)
         /\ IsClientError(HandleSPRMError(s)) => IsPermanentHTTPError(s)
  BY DEF HandlePolicyError, HandleSPRMError, ErrorCode, IsClientError, IsPermanentHTTPError, NoAnswer

LEMMA OwnErrorsType ==
  ASSUME NEW o \in Operation
  PROVE  OwnErrors[o] \subseteq ErrorCode /\ (o = "health" => OwnErrors[o] = {} /\ Calls[o] = {})
  BY Operations DEF OwnErrors, ErrorCode, Calls

-----------------------------------------------------------------------------
\* What an exchange remembers.

Remote == {"policy", "sprm"}

PathType ==
  /\ phase \in {"idle", "calling", "returned", "answered"}
  /\ op \in Operation \cup {"none"} /\ (phase # "idle" => op \in Operation)
  /\ source \in Remote \cup {"service", "nothing"}
  /\ status \in (400..599) \cup {NoAnswer}
  /\ tries \in Nat
  /\ code \in ErrorCode \cup {Nil}
  /\ waits \in Seq(Interval) /\ interval \in Interval

\* The error has its cause, and the answer its error.
PathOrigin ==
  /\ phase \in {"idle", "calling"} => code = Nil
  /\ phase # "idle" /\ source \in Remote => source \in Calls[op]
  /\ op = "health" => code = Nil
  /\ source \in Remote /\ code # Nil => code = NameOf(status)
  /\ source = "nothing" => code = Nil
  /\ phase = "answered" => http = HandlerStatus(op, code) /\ level = LogServiceError(code)

\* Undisturbed, the back-off is where this call has left it.
OwnBackoff ==
  /\ phase = "idle" => waits = <<>>
  /\ phase = "calling" /\ source \in Remote /\ ~disturbed =>
       interval = IF waits = <<>> THEN InitialInterval ELSE Advance(waits[Len(waits)])

\* Where the exchange is tells what it has been through.
StageOrigin ==
  /\ call \in Call
  /\ stage \in {"calling", "sent", "routed", "bound"} => phase = "idle"
  /\ stage \in {"routed", "bound"} => WellFormed(call)
  /\ stage = "bound" => call.arg # "repeated"
  /\ stage \in {"calling", "sent", "routed", "bound", "serving"} => answer = NoReply /\ found = NotYet

\* What has been written, and what the client made of it.
Answered ==
  \/ answer = [status |-> http, type |-> Visit(op, http)] /\ phase = "answered"
  \/ answer.type = "text" /\ answer.status \in {400, 404, 405} /\ phase = "idle"
  \/ answer.type \in {"text", "none"} /\ answer.status = 500

AnswerOrigin ==
  /\ stage = "written" => Answered
  /\ stage = "over" => \/ found = Failed
                       \/ /\ Answered
                          /\ found = [status |-> answer.status,
                                       field |-> IF answer.type \in {"json", "problem"}
                                                   THEN Parse(call.op, answer.status) ELSE "none"]

Inv == /\ PathType /\ PathOrigin /\ OwnBackoff /\ BacksOff
       /\ StageOrigin /\ HandledAsCalled /\ AnswerOrigin

LEMMA InitInv == Init => Inv
<1>. SUFFICES ASSUME Init PROVE Inv  OBVIOUS
<1>1. PathType
  BY DEF Init, PathInit, PathType, Remote, NoAnswer, Nil, Interval
<1>. QED
  BY <1>1 DEF Init, PathInit, Inv, PathOrigin, OwnBackoff, BacksOff, StageOrigin, HandledAsCalled,
    AnswerOrigin, Remote, NotYet, NoReply

-----------------------------------------------------------------------------
\* The path through the service.

LEMMA PauseAdvances ==
  Pause(1) = InitialInterval /\ \A n \in Nat \ {0} : Advance(Pause(n)) = Pause(n + 1)
  BY DEF Pause, Advance, InitialInterval, Multiplier, MaxInterval

LEMMA AdvanceType == \A i \in Interval : Advance(i) \in Interval
  BY DEF Advance, Interval, MaxInterval, Multiplier

\* The handler is called with the operation the client called.
LEMMA BeginStep ==
  ASSUME Inv, phase = "idle", NEW o \in Operation, Begin(o)
  PROVE  PathType' /\ PathOrigin' /\ OwnBackoff' /\ BacksOff'
<1>1. /\ op' = o /\ phase' = "calling"
      /\ \/ source' \in Calls[o] /\ interval' = InitialInterval
         \/ source' \in {"service", "nothing"} /\ interval' = interval
      /\ UNCHANGED <<status, tries, code, level, http, waits, disturbed>>
  BY DEF Begin, ResetInterval
<1>2. Calls[o] \subseteq Remote  BY Operations DEF Calls, Remote
<1>3. waits = <<>> /\ code = Nil  BY DEF Inv, OwnBackoff, PathOrigin
<1>4. PathType'
  BY <1>1, <1>2 DEF Inv, PathType, InitialInterval, Interval
<1>5. PathOrigin'  BY <1>1, <1>2, <1>3 DEF PathOrigin, Remote
<1>6. OwnBackoff' /\ BacksOff'  BY <1>1, <1>3 DEF OwnBackoff, BacksOff, Remote
<1>. QED  BY <1>4, <1>5, <1>6

LEMMA FailedAttemptStep ==
  ASSUME Inv, FailedAttempt
  PROVE  PathType' /\ PathOrigin' /\ OwnBackoff' /\ BacksOff'
<1>1. PICK s \in Status :
        /\ status' = s /\ tries' = tries + 1
        /\ \/ phase' = "returned" /\ code' = NameOf(s) /\ UNCHANGED backoff
           \/ /\ waits' = Append(waits, interval) /\ interval' = Advance(interval)
              /\ UNCHANGED <<phase, code, disturbed>>
  BY DEF FailedAttempt
<1>2. phase = "calling" /\ source \in Remote /\ UNCHANGED <<op, source, level, http>>
  BY DEF FailedAttempt, Remote
<1>3. s \in (400..599) \cup {NoAnswer}  BY ErrorPathAssumption
<1>4. NameOf(s) \in ErrorCode /\ op \in Operation /\ op # "health"
  BY <1>2, <1>3, NamedPermanent, OwnErrorsType DEF NameOf, Inv, PathType, PathOrigin
<1>5. Nil \notin ErrorCode  BY DEF Nil, ErrorCode
<1>6. NameOf(s)' = NameOf(s)  BY <1>2 DEF NameOf
<1>7. CASE phase' = "returned" /\ code' = NameOf(s) /\ UNCHANGED backoff
  <2>1. PathType'  BY <1>1, <1>2, <1>3, <1>4, <1>7 DEF Inv, PathType, backoff
  <2>2. PathOrigin'  BY <1>1, <1>2, <1>4, <1>6, <1>7 DEF Inv, PathOrigin, Remote
  <2>3. OwnBackoff' /\ BacksOff'  BY <1>7 DEF Inv, OwnBackoff, BacksOff, backoff
  <2>. QED  BY <2>1, <2>2, <2>3
<1>8. CASE /\ waits' = Append(waits, interval) /\ interval' = Advance(interval)
           /\ UNCHANGED <<phase, code, disturbed>>
  <2>1. /\ waits \in Seq(Interval) /\ interval \in Interval /\ waits' \in Seq(Interval)
        /\ Len(waits') = Len(waits) + 1 /\ Len(waits) \in Nat /\ waits' # <<>>
        /\ waits'[Len(waits')] = interval
        /\ \A i \in 1..Len(waits) : waits'[i] = waits[i]
        /\ DOMAIN waits' = 1..(Len(waits) + 1) /\ DOMAIN waits = 1..Len(waits)
    BY <1>8 DEF Inv, PathType
  <2>2. PathType'  BY <1>1, <1>2, <1>3, <1>8, <2>1, AdvanceType DEF Inv, PathType
  <2>3. PathOrigin'  BY <1>1, <1>2, <1>8 DEF Inv, PathOrigin, Remote
  <2>4. OwnBackoff'  BY <1>2, <1>8, <2>1 DEF OwnBackoff
  <2>5. BacksOff'
    <3>1. SUFFICES ASSUME ~disturbed, NEW i \in 1..(Len(waits) + 1)
                   PROVE  waits'[i] = Pause(i)
      BY <1>8, <2>1 DEF BacksOff
    <3>2. CASE i \in 1..Len(waits)  BY <2>1, <3>1, <3>2 DEF Inv, BacksOff
    <3>3. CASE i = Len(waits) + 1
      <4>1. waits'[i] = IF waits = <<>> THEN InitialInterval ELSE Advance(waits[Len(waits)])
        BY <1>2, <2>1, <3>1, <3>3 DEF Inv, OwnBackoff
      <4>2. CASE waits = <<>>
        <5>1. i = 1  BY <2>1, <3>3, <4>2
        <5>. QED  BY <4>1, <4>2, <5>1, PauseAdvances
      <4>3. CASE waits # <<>>
        <5>1. Len(waits) \in Nat \ {0}  BY <2>1, <4>3
        <5>2. waits[Len(waits)] = Pause(Len(waits))
          BY <2>1, <3>1, <5>1 DEF Inv, BacksOff
        <5>. QED  BY <3>3, <4>1, <4>3, <5>1, <5>2, PauseAdvances
      <4>. QED  BY <4>2, <4>3
    <3>. QED  BY <2>1, <3>2, <3>3
  <2>. QED  BY <2>2, <2>3, <2>4, <2>5
<1>. QED  BY <1>1, <1>7, <1>8

LEMMA HandleStep ==
  ASSUME Inv, Handle, phase # "idle"
  PROVE  /\ PathType' /\ PathOrigin' /\ OwnBackoff' /\ BacksOff'
         /\ op' = op /\ phase' # "idle"
<1>1. CASE FailedAttempt
  <2>1. op' = op /\ phase' # "idle"  BY <1>1 DEF FailedAttempt
  <2>. QED  BY <1>1, <2>1, FailedAttemptStep
<1>2. CASE OwnFailure
  <2>1. /\ phase = "calling" /\ source = "service" /\ code' \in OwnErrors[op] /\ phase' = "returned"
        /\ UNCHANGED <<op, source, status, tries, level, http, interval, waits, disturbed>>
    BY <1>2 DEF OwnFailure, backoff
  <2>2. OwnErrors[op] \subseteq ErrorCode /\ op \in Operation /\ op # "health"
    BY <2>1, OwnErrorsType DEF Inv, PathType
  <2>3. PathType'  BY <2>1, <2>2 DEF Inv, PathType
  <2>. QED
    BY <2>1, <2>2, <2>3 DEF Inv, PathOrigin, OwnBackoff, BacksOff, Remote
<1>3. CASE Succeed
  BY <1>3 DEF Succeed, backoff, Inv, PathType, PathOrigin, OwnBackoff, BacksOff, Remote
<1>4. CASE Interfere
  <2>1. /\ phase = "calling" /\ source \in Remote /\ interval' \in Interval /\ disturbed' = TRUE
        /\ UNCHANGED <<op, source, phase, status, tries, code, level, http, waits>>
    BY <1>4 DEF Interfere, Remote
  <2>2. PathType'  BY <2>1 DEF Inv, PathType
  <2>3. PathOrigin'  BY <2>1 DEF Inv, PathOrigin, NameOf
  <2>4. OwnBackoff' /\ BacksOff'  BY <2>1 DEF Inv, OwnBackoff, BacksOff
  <2>. QED  BY <2>1, <2>2, <2>3, <2>4
<1>5. CASE Respond
  <2>1. /\ phase = "returned" /\ phase' = "answered"
        /\ level' = LogServiceError(code) /\ http' = HandlerStatus(op, code)
        /\ UNCHANGED <<op, source, status, tries, code, interval, waits, disturbed>>
    BY <1>5 DEF Respond, backoff
  <2>2. PathType'  BY <2>1 DEF Inv, PathType
  <2>3. PathOrigin'  BY <2>1 DEF Inv, PathOrigin, NameOf
  <2>4. OwnBackoff' /\ BacksOff'  BY <2>1 DEF Inv, OwnBackoff, BacksOff
  <2>. QED  BY <2>1, <2>2, <2>3, <2>4
<1>. QED  BY <1>1, <1>2, <1>3, <1>4, <1>5 DEF Handle

-----------------------------------------------------------------------------
\* The layers around the service.

\* A step that leaves the path alone keeps what is known of it.
LEMMA PathKept ==
  ASSUME Inv, UNCHANGED path
  PROVE  /\ PathType' /\ PathOrigin' /\ OwnBackoff' /\ BacksOff'
         /\ UNCHANGED <<op, phase, code, http>>
  BY DEF Inv, path, backoff, PathType, PathOrigin, OwnBackoff, BacksOff, NameOf

\* The layers in front of the handler let the request through or answer it.
LEMMA RequestStep ==
  ASSUME Inv, Send \/ Validate \/ Bind
  PROVE  Inv'
<1>1. /\ UNCHANGED path /\ call' = call
      /\ stage \in {"calling", "sent", "routed"}
      /\ \/ /\ stage' \in {"sent", "routed", "bound"} /\ UNCHANGED <<answer, found>>
            /\ stage' \in {"routed", "bound"} => WellFormed(call)
            /\ stage' = "bound" => call.arg # "repeated"
         \/ stage' = "over" /\ found' = Failed
         \/ stage' = "written" /\ answer'.type = "text" /\ answer'.status \in {400, 404, 405}
  BY DEF Send, Validate, Bind, HttpError, Reply, RequestErrorStatus, Inv, StageOrigin
<1>2. /\ PathType' /\ PathOrigin' /\ OwnBackoff' /\ BacksOff'
      /\ UNCHANGED <<op, phase, code, http>>
  BY <1>1, PathKept
<1>3. StageOrigin'  BY <1>1, <1>2 DEF Inv, StageOrigin
<1>4. HandledAsCalled'  BY <1>1, <1>2 DEF Inv, HandledAsCalled
<1>5. AnswerOrigin'  BY <1>1, <1>2 DEF Inv, StageOrigin, AnswerOrigin, Answered
<1>. QED  BY <1>2, <1>3, <1>4, <1>5 DEF Inv

LEMMA DecodeStep ==
  ASSUME Inv, Decode
  PROVE  Inv'
<1>1. PICK o \in Matches(Target(call)) :
        IF o \in WithBody /\ call.arg = "undecodable"
          THEN HttpError(RequestErrorStatus) /\ UNCHANGED path
          ELSE stage' = "serving" /\ Begin(o) /\ UNCHANGED answer
  BY DEF Decode
<1>2. /\ phase = "idle" /\ call \in Call /\ call.id = "good" /\ answer = NoReply /\ found = NotYet
      /\ call.arg \notin {"invalid", "repeated"} /\ UNCHANGED <<call, found>>
  BY DEF Decode, Inv, StageOrigin, WellFormed
<1>3. o = call.op /\ o \in Operation  BY <1>2, RoutedAsCalled DEF Matches
<1>4. call.arg \in {"good"} \/ (call.arg = "undecodable" /\ o \in WithBody)
  BY <1>2, <1>3 DEF Call, Arguments
<1>5. CASE o \in WithBody /\ call.arg = "undecodable"
  <2>1. /\ UNCHANGED path /\ stage' = "written"
        /\ answer'.type = "text" /\ answer'.status = 400
    BY <1>1, <1>5 DEF HttpError, Reply, RequestErrorStatus
  <2>2. /\ PathType' /\ PathOrigin' /\ OwnBackoff' /\ BacksOff'
        /\ UNCHANGED <<op, phase, code, http>>
    BY <2>1, PathKept
  <2>. QED
    BY <1>2, <2>1, <2>2 DEF Inv, StageOrigin, HandledAsCalled, AnswerOrigin, Answered
<1>6. CASE ~(o \in WithBody /\ call.arg = "undecodable")
  <2>1. stage' = "serving" /\ Begin(o) /\ UNCHANGED answer  BY <1>1, <1>6
  <2>2. PathType' /\ PathOrigin' /\ OwnBackoff' /\ BacksOff'
    BY <1>2, <1>3, <2>1, BeginStep
  <2>3. op' = call.op  BY <1>3, <2>1 DEF Begin
  <2>. QED
    BY <1>2, <1>4, <1>6, <2>1, <2>2, <2>3 DEF Inv, StageOrigin, HandledAsCalled, AnswerOrigin
<1>. QED  BY <1>5, <1>6

LEMMA ServeStep ==
  ASSUME Inv, Serve
  PROVE  Inv'
<1>1. stage = "serving" /\ Handle /\ UNCHANGED <<stage, call, answer, found>>
  BY DEF Serve
<1>2. phase # "idle"
  BY <1>1 DEF Handle, FailedAttempt, OwnFailure, Succeed, Interfere, Respond
<1>3. /\ PathType' /\ PathOrigin' /\ OwnBackoff' /\ BacksOff'
      /\ op' = op /\ phase' # "idle"
  BY <1>1, <1>2, HandleStep
<1>. QED
  BY <1>1, <1>2, <1>3 DEF Inv, StageOrigin, HandledAsCalled, AnswerOrigin

\* The answer is written, read or lost.
LEMMA ResponseStep ==
  ASSUME Inv, Panic \/ Encode \/ Receive \/ Lose
  PROVE  Inv'
<1>1. UNCHANGED path /\ UNCHANGED call
  BY DEF Panic, Encode, Receive, Lose
<1>2. /\ PathType' /\ PathOrigin' /\ OwnBackoff' /\ BacksOff'
      /\ UNCHANGED <<op, phase, code, http>>
  BY <1>1, PathKept
<1>3. StageOrigin' /\ HandledAsCalled'
  BY <1>1, <1>2 DEF Inv, StageOrigin, HandledAsCalled, Panic, Encode, Receive, Lose, Reply, HttpError
<1>4. CASE Panic \/ Encode
  <2>1. /\ stage' = "written"
        /\ \/ answer' = [status |-> http, type |-> Visit(op, http)] /\ phase = "answered"
           \/ answer'.type \in {"text", "none"} /\ answer'.status = 500
    BY <1>4 DEF Panic, Encode, Reply, HttpError, ResponseErrorStatus
  <2>2. Visit(op, http)' = Visit(op, http)
    BY <1>2 DEF Visit, Written, VisitGetHealthResponse, VisitListResourcesResponse,
      VisitGetResourceResponse, VisitCreateResourceResponse, VisitDeleteResourceResponse,
      VisitRehydrateResourceResponse
  <2>3. AnswerOrigin'  BY <1>2, <2>1, <2>2 DEF AnswerOrigin, Answered
  <2>. QED  BY <1>2, <1>3, <2>3 DEF Inv
<1>5. CASE Receive \/ Lose
  <2>1. /\ stage = "written" /\ stage' = "over" /\ answer' = answer
        /\ \/ found' = Failed
           \/ found' = [status |-> answer.status,
                         field |-> IF answer.type \in {"json", "problem"}
                                     THEN Parse(call.op, answer.status) ELSE "none"]
    BY <1>5 DEF Receive, Lose
  <2>2. Answered' = Answered
    BY <1>2, <2>1 DEF Answered, Visit, Written, VisitGetHealthResponse, VisitListResourcesResponse,
      VisitGetResourceResponse, VisitCreateResourceResponse, VisitDeleteResourceResponse,
      VisitRehydrateResourceResponse
  <2>3. Answered  BY <2>1 DEF Inv, AnswerOrigin
  <2>4. AnswerOrigin'
    <3>1. Parse(call.op, answer.status)' = Parse(call.op, answer.status)
      BY <1>1, <2>1 DEF Parse, Read, ParseGetHealthResponse, ParseListResourcesResponse,
        ParseGetResourceResponse, ParseCreateResourceResponse, ParseDeleteResourceResponse,
        ParseRehydrateResourceResponse
    <3>. QED  BY <2>1, <2>2, <2>3, <3>1 DEF AnswerOrigin
  <2>. QED  BY <1>2, <1>3, <2>4 DEF Inv
<1>. QED  BY <1>4, <1>5

LEMMA StepInv == Inv /\ [Next]_vars => Inv'
<1>. SUFFICES ASSUME Inv, [Next]_vars PROVE Inv'  OBVIOUS
<1>1. CASE Send \/ Validate \/ Bind  BY <1>1, RequestStep
<1>2. CASE Decode  BY <1>2, DecodeStep
<1>3. CASE Serve  BY <1>3, ServeStep
<1>4. CASE Panic \/ Encode \/ Receive \/ Lose  BY <1>4, ResponseStep
<1>5. CASE UNCHANGED vars
  <2>1. UNCHANGED path /\ UNCHANGED <<stage, call, answer, found>>  BY <1>5 DEF vars
  <2>2. /\ PathType' /\ PathOrigin' /\ OwnBackoff' /\ BacksOff'
        /\ UNCHANGED <<op, phase, code, http>>
    BY <2>1, PathKept
  <2>3. Answered' = Answered /\ Parse(call.op, answer.status)' = Parse(call.op, answer.status)
    BY <2>1, <2>2 DEF Answered, Visit, Written, VisitGetHealthResponse, VisitListResourcesResponse,
      VisitGetResourceResponse, VisitCreateResourceResponse, VisitDeleteResourceResponse,
      VisitRehydrateResourceResponse, Parse, Read, ParseGetHealthResponse,
      ParseListResourcesResponse, ParseGetResourceResponse, ParseCreateResourceResponse,
      ParseDeleteResourceResponse, ParseRehydrateResourceResponse
  <2>. QED
    BY <2>1, <2>2, <2>3 DEF Inv, StageOrigin, HandledAsCalled, AnswerOrigin
<1>. QED  BY <1>1, <1>2, <1>3, <1>4, <1>5 DEF Next

LEMMA AlwaysInv == Spec => []Inv
<1>. QED  BY InitInv, StepInv, PTL DEF Spec

-----------------------------------------------------------------------------
\* What the answer of the handler is, operation by operation.
LEMMA HandlersAnswer ==
  ASSUME Inv, phase = "answered"
  PROVE  /\ op \in Operation /\ op = call.op
         /\ code = Nil => /\ http \in {200, 201, 204} /\ (http = 204 <=> op = "delete")
                          /\ Visit(op, http) = IF op = "delete" THEN "none" ELSE "json"
                          /\ op # "delete" => Parse(op, http) = "result"
         /\ code # Nil => /\ http \in {400, 404, 406, 409, 422, 500}
                          /\ http # 500 => IsClientError(code)
                          /\ Visit(op, http) = "problem"
                          /\ Parse(op, http) = IF http = 500 THEN "default" ELSE "problem"
<1>1. op \in Operation /\ op = call.op  BY DEF Inv, PathType, HandledAsCalled
<1>2. http = HandlerStatus(op, code)  BY DEF Inv, PathOrigin
<1>3. CASE code = Nil  BY <1>1, <1>2, <1>3, ResultRead
<1>4. CASE code # Nil
  <2>1. code \in ErrorCode /\ op # "health"  BY <1>4 DEF Inv, PathType, PathOrigin
  <2>. QED  BY <1>1, <1>2, <1>4, <2>1, ErrorStatuses, ProblemRead
<1>. QED  BY <1>1, <1>3, <1>4

LEMMA InvClientFault == Inv => ClientFaultIsPermanent /\ ClientFaultIsWarning
<1>. SUFFICES ASSUME Inv, phase = "answered", http \in 400..499
              PROVE  /\ source # "service" => IsPermanentHTTPError(status)
                     /\ level = "Warn"
  BY DEF ClientFaultIsPermanent, ClientFaultIsWarning
<1>1. code # Nil /\ IsClientError(code)
  BY HandlersAnswer
<1>2. level = "Warn"  BY <1>1 DEF Inv, PathOrigin, LogServiceError
<1>3. ASSUME source # "service"  PROVE IsPermanentHTTPError(status)
  <2>1. source \in Remote /\ code = NameOf(status) /\ status \in (400..599) \cup {NoAnswer}
    BY <1>1, <1>3 DEF Inv, PathType, PathOrigin
  <2>. QED  BY <1>1, <2>1, NamedPermanent DEF NameOf
<1>. QED  BY <1>2, <1>3

LEMMA InvUnderstood == Inv => Understood
<1>. SUFFICES ASSUME Inv, stage = "over", found # Failed, ByHandler
              PROVE  /\ found.status = http
                     /\ found.field = CASE code = Nil -> IF call.op = "delete" THEN "none" ELSE "result"
                                        [] code # Nil /\ http = 500 -> "default"
                                        [] OTHER -> "problem"
  BY DEF Understood
<1>1. Answered /\ found = [status |-> answer.status,
                           field |-> IF answer.type \in {"json", "problem"}
                                       THEN Parse(call.op, answer.status) ELSE "none"]
  BY DEF Inv, AnswerOrigin
<1>2. answer = [status |-> http, type |-> Visit(op, http)] /\ phase = "answered"
  BY <1>1 DEF Answered, ByHandler
<1>3. CASE code = Nil  BY <1>1, <1>2, <1>3, HandlersAnswer
<1>4. CASE code # Nil  BY <1>1, <1>2, <1>4, HandlersAnswer
<1>. QED  BY <1>3, <1>4

LEMMA InvRefused == Inv => RefusedMeansUntouched
<1>. SUFFICES ASSUME Inv, stage = "over", found.status \in 400..499, found.field = "none"
              PROVE  phase = "idle"
  BY DEF RefusedMeansUntouched
<1>1. found # Failed  BY DEF Failed
<1>2. Answered /\ found = [status |-> answer.status,
                           field |-> IF answer.type \in {"json", "problem"}
                                       THEN Parse(call.op, answer.status) ELSE "none"]
  BY <1>1 DEF Inv, AnswerOrigin
<1>3. answer.status \in 400..499  BY <1>2
<1>4. CASE answer = [status |-> http, type |-> Visit(op, http)] /\ phase = "answered"
  <2>1. code # Nil /\ http # 500  BY <1>3, <1>4, HandlersAnswer
  <2>2. found.field = "problem"  BY <1>2, <1>4, <2>1, HandlersAnswer
  <2>. QED  BY <2>2
<1>. QED  BY <1>2, <1>3, <1>4 DEF Answered

(***************************************************************************)
(* Whatever a collaborator answers, in however many attempts, its failure  *)
(* is the client's fault only if it was permanent.                         *)
(***************************************************************************)
THEOREM BlameIsPermanent == Spec => []ClientFaultIsPermanent
<1>. QED  BY AlwaysInv, InvClientFault, PTL

(***************************************************************************)
(* And what is the client's fault is logged as a warning.                  *)
(***************************************************************************)
THEOREM BlameIsWarning == Spec => []ClientFaultIsWarning
<1>. QED  BY AlwaysInv, InvClientFault, PTL

(***************************************************************************)
(* However many attempts a call has, its pauses are those of retry.go:11-21*)
(* unless another call of the client runs beside it.                       *)
(***************************************************************************)
THEOREM KeepsBackingOff == Spec => []BacksOff
<1>1. Inv => BacksOff  BY DEF Inv
<1>. QED  BY <1>1, AlwaysInv, PTL

(***************************************************************************)
(* Only well-formed calls reach the service, as the operation called,      *)
(* whatever ids look like.                                                 *)
(***************************************************************************)
THEOREM ServesWhatWasCalled == Spec => []HandledAsCalled
<1>1. Inv => HandledAsCalled  BY DEF Inv
<1>. QED  BY <1>1, AlwaysInv, PTL

(***************************************************************************)
(* What the handler answers is what the client finds.                      *)
(***************************************************************************)
THEOREM AnswersAreUnderstood == Spec => []Understood
<1>. QED  BY AlwaysInv, InvUnderstood, PTL

(***************************************************************************)
(* A 4xx without a problem in it means that the service was not called.    *)
(***************************************************************************)
THEOREM RefusalsAreSafe == Spec => []RefusedMeansUntouched
<1>. QED  BY AlwaysInv, InvRefused, PTL
=============================================================================
