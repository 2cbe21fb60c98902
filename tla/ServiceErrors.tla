---------------------------- MODULE ServiceErrors ----------------------------
(***************************************************************************)
(* What a failure turns into on its way through the service: the HTTP      *)
(* status a collaborator answered, the decision to retry it, the service   *)
(* error code the service gives it, and the HTTP status the handler gives  *)
(* that code.                                                              *)
(*                                                                         *)
(* A status is the number in the answer; NoAnswer stands for every failure *)
(* without one (connection refused, timeout, cancelled context), which the *)
(* clients report as an error that is not an HTTPError.                    *)
(***************************************************************************)
EXTENDS Naturals

NoAnswer == 0

ErrorCode == {"VALIDATION", "NOT_FOUND", "CONFLICT", "INTERNAL_ERROR", "POLICY_ERROR",
              "POLICY_REJECTED", "POLICY_CONFLICT", "POLICY_INTERNAL_ERROR",
              "SPRM_ERROR", "PROVIDER_ERROR"}

\* Faulty: the policy engine's rejection is retried.
IsPermanentButRejection(status) == status \in (400..499) \ {406, 408, 429}

\* Whether a client gives up at once instead of retrying.
IsPermanentHTTPError(status) == status \in (400..499) \ {408, 429}

HandlePolicyError(status) ==
  CASE status = 400 -> "VALIDATION"
    [] status = 406 -> "POLICY_REJECTED"
    [] status = 409 -> "POLICY_CONFLICT"
    [] status = 500 -> "POLICY_INTERNAL_ERROR"
    [] OTHER        -> "POLICY_ERROR"

HandleSPRMError(status) ==
  CASE status = 400 -> "VALIDATION"
    [] status = 404 -> "NOT_FOUND"
    [] status = 409 -> "CONFLICT"
    [] status = 422 -> "PROVIDER_ERROR"
    [] OTHER        -> "SPRM_ERROR"

\* Faulty: a provider's refusal is not the client's fault.
IsClientErrorOfOurs(code) ==
  code \in {"VALIDATION", "NOT_FOUND", "CONFLICT", "POLICY_REJECTED", "POLICY_CONFLICT"}

\* The codes logged as the client's fault.
IsClientError(code) ==
  code \in {"VALIDATION", "NOT_FOUND", "CONFLICT",
            "POLICY_REJECTED", "POLICY_CONFLICT", "PROVIDER_ERROR"}

-----------------------------------------------------------------------------
\* The handlers: each has a switch of its own, and what it does not name is 500.

HandleListResourcesError(code) == IF code = "VALIDATION" THEN 400 ELSE 500

HandleCreateResourceError(code) ==
  CASE code = "VALIDATION"                     -> 400
    [] code = "POLICY_REJECTED"                -> 406
    [] code \in {"CONFLICT", "POLICY_CONFLICT"} -> 409
    [] code = "PROVIDER_ERROR"                 -> 422
    [] OTHER                                   -> 500

HandleGetResourceError(code) ==
  CASE code = "VALIDATION" -> 400
    [] code = "NOT_FOUND"  -> 404
    [] OTHER               -> 500

HandleRehydrateResourceError(code) ==
  CASE code = "VALIDATION"                     -> 400
    [] code = "NOT_FOUND"                      -> 404
    [] code = "POLICY_REJECTED"                -> 406
    [] code \in {"CONFLICT", "POLICY_CONFLICT"} -> 409
    [] code = "PROVIDER_ERROR"                 -> 422
    [] OTHER                                   -> 500

HandleDeleteResourceError(code) ==
  CASE code = "VALIDATION"     -> 400
    [] code = "NOT_FOUND"      -> 404
    [] code = "PROVIDER_ERROR" -> 422
    [] OTHER                   -> 500
=============================================================================
