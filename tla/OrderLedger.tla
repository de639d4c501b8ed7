----------------------------- MODULE OrderLedger -----------------------------
(***************************************************************************)
(* The rows of the write-ahead ledger of order_ledger.py and the           *)
(* transitions OrderLedger applies to one row.                             *)
(*                                                                         *)
(* A row is [status, ids, created]: the intent status, the broker order    *)
(* ids linked to it, and its creation stamp.  A key with no row carries    *)
(* NoRow, whose status is "NONE".  The SQLite transaction around each      *)
(* transition makes it atomic and durable.                                 *)
(***************************************************************************)
EXTENDS Naturals

IntentStatus == {"PENDING", "PLACED", "REJECTED", "UNKNOWN"}

\* _TERMINAL
Terminal == {"PLACED", "REJECTED"}

\* The statuses that unresolved() selects.
Open == {"PENDING", "UNKNOWN"}

\* _ALLOWED_TRANSITIONS; a key without a row takes no transition.
Allowed(from) ==
  CASE from = "PENDING" -> IntentStatus
    [] from = "UNKNOWN" -> {"UNKNOWN", "PLACED", "REJECTED"}
    [] from \in Terminal -> {from}
    [] OTHER -> {}

NoRow == [status |-> "NONE", ids |-> {}, created |-> 0]

-----------------------------------------------------------------------------
\* Mutant: INSERT OR REPLACE for a rejected row, "to try that order again".
CanClaimRejected(row) == row.status \in {"NONE", "REJECTED"}

\* record_intent inserts a PENDING row; the primary key refuses a second one.
CanClaim(row) == row.status = "NONE"

Claimed(stamp) == [status |-> "PENDING", ids |-> {}, created |-> stamp]

\* update_status: TRUE when the transition table lets the write through.
CanUpdate(row, status) == status \in Allowed(row.status)

\* The row after update_status.  A refused transition and the same-state
\* rewrite of a terminal row leave it alone; ids are only overwritten when
\* some are supplied.
Updated(row, status, ids) ==
  IF CanUpdate(row, status) /\ row.status \notin Terminal
  THEN [row EXCEPT !.status = status,
                   !.ids = IF ids = {} THEN @ ELSE ids]
  ELSE row

\* release_intent refuses a settled row and a key without a row.
CanRelease(row) == row.status \in Open
=============================================================================
