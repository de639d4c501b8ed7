---------------------------- MODULE OrderResponse ----------------------------
(***************************************************************************)
(* classify_broker_response of order_ledger.py: what the router concludes  *)
(* from the body a broker returned for a place-order request.              *)
(*                                                                         *)
(* A body is abstracted to the five facts the classifier reads: whether it *)
(* is a mapping at all, the class of its status token, whether an HTTP     *)
(* status >= 500 was reported, the class of its error type and whether any *)
(* order id can be extracted from it.                                      *)
(***************************************************************************)

\* Classes of the status token: _REJECT_TOKENS, _AMBIGUOUS_FAILURE_TOKENS,
\* _SUCCESS_TOKENS, and everything else ("open", "new", "", ...).
Tokens == {"reject", "ambiguous", "success", "other"}

\* Classes of error_type: absent, one of _REFUSAL_ERROR_TYPES, anything else.
ErrorTypes == {"none", "refusal", "other"}

Responses == [mapping : BOOLEAN, token : Tokens, fault : BOOLEAN,
              error : ErrorTypes, ids : BOOLEAN]

-----------------------------------------------------------------------------
\* Mutant: any failure word is taken for a refusal, gateway faults included.
RefusesOnFailureWord(r) == r.mapping /\ r.token \in {"reject", "ambiguous"}

\* The broker states that it declined the order: an explicit rejection token,
\* or a refusal class that no 5xx puts in doubt.
Refuses(r) ==
  /\ r.mapping
  /\ \/ r.token = "reject"
     \/ ~r.fault /\ r.error = "refusal"

\* The broker states that an order exists: an id came back and nothing in the
\* body reports a failure.
Acknowledges(r) ==
  /\ r.mapping
  /\ r.token \notin {"reject", "ambiguous"}
  /\ ~r.fault
  /\ r.error = "none"
  /\ r.ids

\* The verdict of classify_broker_response.
Classify(r) == IF Refuses(r) THEN "REJECTED"
               ELSE IF Acknowledges(r) THEN "PLACED"
               ELSE "UNKNOWN"

-----------------------------------------------------------------------------
\* EXTERNAL: the responses a broker may give for a request it processed.
\* "accepted" says that the request created a live order, "listed" that it
\* created an order (live or refused) that has an id.  A broker never calls a
\* live order refused, never reports success for a request it declined at the
\* door, and never invents an order id; failures, gateway faults and bodies
\* nobody can parse may follow any outcome.
Honest(accepted, listed) ==
  {r \in Responses :
     /\ r.token = "reject" \/ (r.error = "refusal" /\ ~r.fault) => ~accepted
     /\ r.token = "success" => listed
     /\ r.ids => listed}
=============================================================================
