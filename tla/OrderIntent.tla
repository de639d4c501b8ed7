----------------------------- MODULE OrderIntent -----------------------------
(***************************************************************************)
(* What the order router promises its callers, without threads, locks,     *)
(* messages or crashes: each idempotency key is an intent that is claimed, *)
(* reaches the market at most once while it is claimed, and is settled     *)
(* truthfully or given back.                                               *)
(***************************************************************************)
CONSTANT Keys

VARIABLES
  intent,  \* the state of each intent
  live     \* has the intent a live order at the broker?

vars == <<intent, live>>

Init ==
  /\ intent = [k \in Keys |-> "free"]
  /\ live = [k \in Keys |-> FALSE]

Move(k, from, to) ==
  /\ intent[k] = from
  /\ intent' = [intent EXCEPT ![k] = to]
  /\ UNCHANGED live

Claim(k) == Move(k, "free", "open")

\* The order of an open intent becomes live; it does so once.
Land(k) ==
  /\ intent[k] = "open"
  /\ ~live[k]
  /\ live' = [live EXCEPT ![k] = TRUE]
  /\ UNCHANGED intent

SettlePlaced(k) == Move(k, "open", "placed")

\* An intent is called rejected, or given back for another send, only when it
\* has no live order.
SettleRejected(k) == ~live[k] /\ Move(k, "open", "rejected")
Release(k) == ~live[k] /\ Move(k, "open", "free")

Next ==
  \E k \in Keys :
    Claim(k) \/ Land(k) \/ SettlePlaced(k) \/ SettleRejected(k) \/ Release(k)

Spec == Init /\ [][Next]_vars
=============================================================================
