------------------------------- MODULE Exchange -------------------------------
(***************************************************************************)
(* One call of the API, from the generated client through the server's     *)
(* layers to the handler and back: pkg/client/client.gen.go,               *)
(* internal/apiserver/server.go, internal/api/server/server.gen.go and, as *)
(* ErrorPath, the handler with the service behind it.                      *)
(*                                                                         *)
(* Five layers may answer in the handler's place: the request validator,   *)
(* the binding of the parameters, the decoding of the body, the encoding   *)
(* of the response and the recovery from a panic.  The client sorts what   *)
(* it gets by status and content type with a table of its own.  Nothing in *)
(* these layers is shared by two requests, so one exchange is enough.      *)
(***************************************************************************)
EXTENDS ErrorPath

CONSTANT IdClass  \* what the resource id of a call may look like

VARIABLES
  stage,   \* where the exchange is
  call,    \* the operation the client calls, its id and its other arguments
  answer,  \* the status and content type the server has written
  found    \* what the client's call returns

vars == <<stage, call, answer, found, path>>

Operation == DOMAIN Calls
WithId    == {"get", "delete", "rehydrate"}
WithQuery == {"list", "create"}
WithBody  == {"create", "rehydrate"}

(***************************************************************************)
(* "invalid" arguments do not match the OpenAPI document.  The next two do *)
(* but are beyond the generated code: a query parameter given twice by a   *)
(* request editor, and a body that is JSON but does not fit the Go type    *)
(* (a number beyond a float64, a second spelling of a field).              *)
(***************************************************************************)
Arguments(o) ==
  {"good"} \cup (IF o \in WithQuery \cup WithBody THEN {"invalid"} ELSE {})
           \cup (IF o \in WithQuery THEN {"repeated"} ELSE {})
           \cup (IF o \in WithBody THEN {"undecodable"} ELSE {})

Call == UNION {[op : {o}, id : IF o \in WithId THEN IdClass ELSE {"good"},
                arg : Arguments(o)] : o \in Operation}

\* Faulty: a failure to answer passes for a failure to read the request.
ResponseErrorStatusOfRequest == 400

RequestErrorStatus  == 400
ResponseErrorStatus == 500

NoReply == [status |-> 0, type |-> "none"]
NotYet  == [status |-> 0, field |-> "pending"]
Failed  == [status |-> 0, field |-> "error"]

Reply(s, type) == answer' = [status |-> s, type |-> type] /\ stage' = "written"

\* http.Error: a status with a line of text.
HttpError(s) == Reply(s, "text")

-----------------------------------------------------------------------------
(***************************************************************************)
(* The tables: routes of the server, targets of the client, and for every  *)
(* operation the responses the server can write and the client can read.   *)
(***************************************************************************)

\* method and path pattern of each operation, in the server's router
Routes == [health    |-> <<"GET", "/health">>,
           list      |-> <<"GET", "/resources">>,
           create    |-> <<"POST", "/resources">>,
           delete    |-> <<"DELETE", "/resources/{resourceId}">>,
           get       |-> <<"GET", "/resources/{resourceId}">>,
           rehydrate |-> <<"POST", "/resources/{resourceId}:rehydrate">>]

\* url.Parse resolves an id of dots against the path before it, and an empty
\* one leaves the path of no resource.
ResourceTarget(method, id) ==
  <<method, CASE id = "dots"  -> "/"
              [] id = "empty" -> "/resources/"
              [] OTHER        -> "/resources/{resourceId}">>

NewGetHealthRequest         == <<"GET", "/health">>
NewListResourcesRequest     == <<"GET", "/resources">>
NewCreateResourceRequest    == <<"POST", "/resources">>
NewDeleteResourceRequest(i) == ResourceTarget("DELETE", i)
NewGetResourceRequest(i)    == ResourceTarget("GET", i)
NewRehydrateResourceRequest(i) ==
  <<"POST", IF i = "empty" THEN "/resources/:rehydrate" ELSE "/resources/{resourceId}:rehydrate">>

Target(c) ==
  CASE c.op = "health"    -> NewGetHealthRequest
    [] c.op = "list"      -> NewListResourcesRequest
    [] c.op = "create"    -> NewCreateResourceRequest
    [] c.op = "delete"    -> NewDeleteResourceRequest(c.id)
    [] c.op = "get"       -> NewGetResourceRequest(c.id)
    [] c.op = "rehydrate" -> NewRehydrateResourceRequest(c.id)

Matches(target) == {o \in Operation : Routes[o] = target}

\* The content type of a response type: a result, no content, or a problem
\* of its own status or of the default.
Written(results, s) ==
  CASE s \in results \ {204} -> "json"
    [] s \in results \cap {204} -> "none"
    [] s \notin results -> "problem"

VisitGetHealthResponse(s)         == Written({200}, s)
VisitListResourcesResponse(s)     == Written({200}, s)
VisitCreateResourceResponse(s)    == Written({201}, s)
VisitDeleteResourceResponse(s)    == Written({204}, s)
VisitGetResourceResponse(s)       == Written({200}, s)
VisitRehydrateResourceResponse(s) == Written({200}, s)

Visit(o, s) ==
  CASE o = "health"    -> VisitGetHealthResponse(s)
    [] o = "list"      -> VisitListResourcesResponse(s)
    [] o = "create"    -> VisitCreateResourceResponse(s)
    [] o = "delete"    -> VisitDeleteResourceResponse(s)
    [] o = "get"       -> VisitGetResourceResponse(s)
    [] o = "rehydrate" -> VisitRehydrateResourceResponse(s)

\* The field a JSON body is decoded into; the default takes every status left.
Read(results, problems, s) ==
  CASE s \in results  -> "result"
    [] s \in problems -> "problem"
    [] OTHER          -> "default"

\* Faulty: a conflict is left to the default.
ParseCreateWithoutConflict(s) == Read({201}, {400, 406, 422}, s)

ParseGetHealthResponse(s)         == IF s = 200 THEN "result" ELSE "none"
ParseListResourcesResponse(s)     == Read({200}, {400}, s)
ParseCreateResourceResponse(s)    == Read({201}, {400, 406, 409, 422}, s)
ParseDeleteResourceResponse(s)    == Read({}, {400, 404, 422}, s)
ParseGetResourceResponse(s)       == Read({200}, {400, 404}, s)
ParseRehydrateResourceResponse(s) == Read({200}, {400, 404, 406, 409, 422}, s)

Parse(o, s) ==
  CASE o = "health"    -> ParseGetHealthResponse(s)
    [] o = "list"      -> ParseListResourcesResponse(s)
    [] o = "create"    -> ParseCreateResourceResponse(s)
    [] o = "delete"    -> ParseDeleteResourceResponse(s)
    [] o = "get"       -> ParseGetResourceResponse(s)
    [] o = "rehydrate" -> ParseRehydrateResourceResponse(s)

-----------------------------------------------------------------------------
Init ==
  /\ stage = "calling" /\ call \in Call
  /\ answer = NoReply /\ found = NotYet
  /\ PathInit

\* The client builds its request and has its editors look at it; either may
\* fail, and then nothing is sent.
Send ==
  /\ stage = "calling"
  /\ \/ stage' = "sent" /\ UNCHANGED found
     \/ stage' = "over" /\ found' = Failed
  /\ UNCHANGED <<call, answer, path>>

WellFormed(c) == c.id = "good" /\ c.arg # "invalid"

\* Faulty: the validator is left out, and the router alone decides.
RouteOnly ==
  /\ stage = "sent"
  /\ IF Matches(Target(call)) = {} THEN HttpError(404)
                                   ELSE stage' = "routed" /\ UNCHANGED answer
  /\ UNCHANGED <<call, found, path>>

\* The OpenAPI validator finds the operation and holds the request against it.
Validate ==
  /\ stage = "sent"
  /\ IF Matches(Target(call)) = {} THEN \E s \in {404, 405} : HttpError(s)
     ELSE IF ~WellFormed(call)     THEN HttpError(400)
     ELSE stage' = "routed" /\ UNCHANGED answer
  /\ UNCHANGED <<call, found, path>>

\* The wrapper binds path and query parameters.
Bind ==
  /\ stage = "routed"
  /\ IF call.arg = "repeated" THEN HttpError(RequestErrorStatus)
                              ELSE stage' = "bound" /\ UNCHANGED answer
  /\ UNCHANGED <<call, found, path>>

\* The strict handler of the matching route decodes the body, if the
\* operation has one, and calls the handler.
Decode ==
  /\ stage = "bound"
  /\ \E o \in Matches(Target(call)) :
       IF o \in WithBody /\ call.arg = "undecodable"
         THEN HttpError(RequestErrorStatus) /\ UNCHANGED path
         ELSE stage' = "serving" /\ Begin(o) /\ UNCHANGED answer
  /\ UNCHANGED <<call, found>>

Serve ==
  /\ stage = "serving"
  /\ Handle
  /\ UNCHANGED <<stage, call, answer, found>>

\* A panic of the handler or of the service, answered by the recoverer.
Panic ==
  /\ stage = "serving" /\ phase # "answered"
  /\ Reply(500, "none")
  /\ UNCHANGED <<call, found, path>>

\* The response is encoded into a buffer before its status is written, so
\* that a failure to encode it can still be answered.
Encode ==
  /\ stage = "serving" /\ phase = "answered"
  /\ \/ Reply(http, Visit(op, http))
     \/ HttpError(ResponseErrorStatus)
  /\ UNCHANGED <<call, found, path>>

\* The client reads the answer and decodes the body its table asks for.
Receive ==
  /\ stage = "written" /\ stage' = "over"
  /\ found' = [status |-> answer.status,
                field  |-> IF answer.type \in {"json", "problem"}
                             THEN Parse(call.op, answer.status) ELSE "none"]
  /\ UNCHANGED <<call, answer, path>>

\* The connection breaks before the client has the answer.
Lose ==
  /\ stage = "written" /\ stage' = "over"
  /\ found' = Failed
  /\ UNCHANGED <<call, answer, path>>

Next == Send \/ Validate \/ Bind \/ Decode \/ Serve \/ Panic \/ Encode \/ Receive \/ Lose

Spec == Init /\ [][Next]_vars

-----------------------------------------------------------------------------
ByHandler == answer.type \in {"json", "problem"} \/ answer.status = 204

(***************************************************************************)
(* What reaches the service is what the client called, and it was well     *)
(* formed: no layer lets a request through to another operation, or one    *)
(* the OpenAPI document excludes.  The routes of the server, the targets   *)
(* of the client and the validator meet here.                              *)
(***************************************************************************)
HandledAsCalled == phase # "idle" => op = call.op /\ call.id = "good" /\ call.arg = "good"

(***************************************************************************)
(* The response of the handler survives two content types and the two      *)
(* tables of server.gen.go and client.gen.go: the client finds a result    *)
(* exactly when the service succeeded, and otherwise the problem in the    *)
(* field of the status the error was given, 500 in the default.            *)
(***************************************************************************)
Understood ==
  stage = "over" /\ found # Failed /\ ByHandler =>
    /\ found.status = http
    /\ found.field = CASE code = Nil -> IF call.op = "delete" THEN "none" ELSE "result"
                       [] code # Nil /\ http = 500 -> "default"
                       [] OTHER -> "problem"

(***************************************************************************)
(* A 4xx without a problem in it was not answered by the handler: the      *)
(* service has not been called, and the client may correct the request and *)
(* send it again.  After any other answer without content it may not.      *)
(***************************************************************************)
RefusedMeansUntouched ==
  stage = "over" /\ found.status \in 400..499 /\ found.field = "none" => phase = "idle"

(***************************************************************************)
(* README.md:11 says that the API uses the problem details of RFC 7807 for *)
(* error responses, whichever layer refuses the request.                   *)
(***************************************************************************)
ErrorsAreProblems ==
  stage = "over" /\ found.status \in 400..599 => answer.type = "problem"
=============================================================================
