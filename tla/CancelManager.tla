--------------------------- MODULE CancelManager -----------------------------
(***************************************************************************)
(* IdempotentCancelManager of cancel_manager.py: threads that cancel one   *)
(* order under client cancel ids, the bounded cache of answers, the claims *)
(* that keep one dispatch of an id in flight, and the broker, where the    *)
(* order may fill at any time before a cancel takes effect.                *)
(***************************************************************************)
EXTENDS Naturals, Sequences

CONSTANTS
  Threads,
  NoThread,              \* no dispatch of a cancel id is in flight
  Cids,                  \* client cancel ids, all for the same order
  MaxCacheSize,          \* max_cache_size
  MaxRetries,            \* max_retries
  TreatAckAsCancelled,   \* treat_ack_as_cancelled: the broker cancels at once
  SaysPendingCancel,     \* does the broker refuse a second cancel with the text
                         \* "pending cancel"?
  MaxCalls               \* bound: calls of cancel_order_idempotent

ASSUME CancelAssumption ==
  /\ NoThread \notin Threads /\ Cids # {}
  /\ MaxCacheSize \in Nat \ {0} /\ MaxRetries \in Nat /\ MaxCalls \in Nat
  /\ TreatAckAsCancelled \in BOOLEAN /\ SaysPendingCancel \in BOOLEAN

VARIABLES
  cache,     \* _cancel_history: answers, oldest first
  inFlight,  \* _in_flight: the thread whose dispatch of an id is under way
  pc, cid,   \* the step of each thread and the cancel id it works on
  event,     \* the thread that will set the event this thread waits for
  attempt,   \* transport calls made by the dispatch so far
  reply,     \* the last reply of the transport
  ret,       \* the status returned by the thread's last call
  answered,  \* observer: the first cacheable answer to each id, if any, "EVICTED"
             \* once the cache has let go of it
  order,     \* state of the order at the broker
  stray,     \* a cancel request whose caller has given up is still on its way
  calls

threadVars == <<pc, cid, event, attempt, reply, ret>>
vars == <<cache, inFlight, pc, cid, event, attempt, reply, ret, answered, order, stray, calls>>

\* _TERMINAL_STATUSES and _CACHEABLE_STATUSES.
TerminalStatuses == {"CANCELLED", "FILLED_BEFORE_CANCEL", "ALREADY_CANCELLED"}

CacheableStatuses == TerminalStatuses \cup {"PENDING_CANCEL", "REJECTED"}
Statuses == CacheableStatuses \cup {"UNKNOWN", "ORDER_UNKNOWN"}

\* Steps between the claim of an id and the pop that gives it up.
Dispatching == {"call", "decide", "store", "release"}

\* A reply: the class of the HTTP status ("none" after a transport error) and
\* the pattern family its error text matches.
Replies == [http : {"none", "ok", "retryable", "404", "4xx"},
            text : {"filled", "cancelled", "pending", "unknown", "other"}]
NoReply == [http |-> "none", text |-> "other"]

Init ==
  /\ cache = <<>>
  /\ inFlight = [c \in Cids |-> NoThread]
  /\ pc = [t \in Threads |-> "idle"]
  /\ cid = [t \in Threads |-> CHOOSE c \in Cids : TRUE]
  /\ event = [t \in Threads |-> NoThread]
  /\ attempt = [t \in Threads |-> 0]
  /\ reply = [t \in Threads |-> NoReply]
  /\ ret = [t \in Threads |-> "NONE"]
  /\ answered = [c \in Cids |-> "NONE"]
  /\ order = "working"
  /\ stray = FALSE
  /\ calls = 0

-----------------------------------------------------------------------------
\* _is_retryable
Retryable(r) == r.http \in {"none", "retryable"}

\* Mutant: an order the broker cannot see is taken for a cancelled one.
ClassifyNotFoundIsCancelled(r) ==
  CASE r.http \in {"none", "retryable"} -> "UNKNOWN"
    [] r.http = "ok" -> IF TreatAckAsCancelled THEN "CANCELLED" ELSE "PENDING_CANCEL"
    [] r.http \in {"404", "4xx"} /\ r.text = "filled" -> "FILLED_BEFORE_CANCEL"
    [] r.http \in {"404", "4xx"} /\ r.text = "other" /\ r.http = "4xx" -> "REJECTED"
    [] OTHER -> "ALREADY_CANCELLED"

\* _classify: the first rule that applies.  The "already cancelled" patterns
\* include the text "pending cancel".
Classify(r) ==
  IF Retryable(r) THEN "UNKNOWN"
  ELSE IF r.http = "ok"
  THEN IF TreatAckAsCancelled THEN "CANCELLED" ELSE "PENDING_CANCEL"
  ELSE IF r.text = "filled" THEN "FILLED_BEFORE_CANCEL"
  ELSE IF r.text \in {"cancelled", "pending"} THEN "ALREADY_CANCELLED"
  ELSE IF r.http = "404" \/ r.text = "unknown" THEN "ORDER_UNKNOWN"
  ELSE "REJECTED"

\* EXTERNAL: the order after a cancel request has taken effect.
Effect(o) == IF o # "working" THEN o
             ELSE IF TreatAckAsCancelled THEN "cancelled" ELSE "pending"

\* EXTERNAL: the refusals an honest broker may give for an order in state o.  It
\* may fail to see the order, and refuse for reasons of its own, at any time.
Refusals(o) ==
  {r \in Replies :
     /\ r.http \in {"404", "4xx"}
     /\ r.text = "filled"    => o = "filled"
     /\ r.text = "cancelled" => o = "cancelled"
     /\ r.text = "pending"   => o = "pending" /\ SaysPendingCancel}

\* Mutant: only terminal answers are replayed.
LookupTerminal(c) ==
  IF \E i \in 1..Len(cache) : cache[i].cid = c /\ cache[i].status \in TerminalStatuses
  THEN cache[CHOOSE i \in 1..Len(cache) : cache[i].cid = c].status
  ELSE "NONE"

\* The cached answer to c, "NONE" when there is none.
Lookup(c) ==
  IF \E i \in 1..Len(cache) : cache[i].cid = c
  THEN cache[CHOOSE i \in 1..Len(cache) : cache[i].cid = c].status
  ELSE "NONE"

\* Mutant: nothing is evicted.
StoredUnbounded(c, status) == Append(cache, [cid |-> c, status |-> status])

\* _cache_result: insert at the end, evict from the front past the capacity.  An
\* id that is stored again would keep its place.
Stored(c, status) ==
  IF Lookup(c) # "NONE"
  THEN [i \in 1..Len(cache) |-> IF cache[i].cid = c THEN [cid |-> c, status |-> status]
                                ELSE cache[i]]
  ELSE LET longer == Append(cache, [cid |-> c, status |-> status])
       IN  IF Len(longer) > MaxCacheSize THEN Tail(longer) ELSE longer

\* Does the cache still hold an answer to c?
Kept(c, history) == \E i \in 1..Len(history) : history[i].cid = c

-----------------------------------------------------------------------------
Goto(t, step) == pc' = [pc EXCEPT ![t] = step]

Return(t, status) == Goto(t, "idle") /\ ret' = [ret EXCEPT ![t] = status]

\* A caller enters cancel_order_idempotent.
CancelOrder(t) ==
  /\ pc[t] = "idle"
  /\ calls < MaxCalls
  /\ calls' = calls + 1
  /\ \E c \in Cids : cid' = [cid EXCEPT ![t] = c]
  /\ Goto(t, "claim")
  /\ ret' = [ret EXCEPT ![t] = "NONE"]
  /\ UNCHANGED <<cache, inFlight, event, attempt, reply, answered, order, stray>>

\* Mutant: a caller that misses the cache dispatches without looking for a
\* dispatch in flight.
ClaimOnCacheMiss(t) ==
  /\ pc[t] = "claim"
  /\ IF Lookup(cid[t]) # "NONE" THEN Return(t, Lookup(cid[t])) /\ UNCHANGED inFlight
     ELSE Goto(t, "call") /\ inFlight' = [inFlight EXCEPT ![cid[t]] = t] /\ UNCHANGED ret
  /\ UNCHANGED <<cache, cid, event, attempt, reply, answered, order, stray, calls>>

\* _claim_or_wait under the lock: replay the cache, join a dispatch in flight,
\* or own the dispatch.
ClaimOrWait(t) ==
  /\ pc[t] = "claim"
  /\ \/ /\ Lookup(cid[t]) # "NONE"
        /\ Return(t, Lookup(cid[t]))
        /\ UNCHANGED <<inFlight, event>>
     \/ /\ Lookup(cid[t]) = "NONE" /\ inFlight[cid[t]] # NoThread
        /\ event' = [event EXCEPT ![t] = inFlight[cid[t]]]
        /\ Goto(t, "wait")
        /\ UNCHANGED <<inFlight, ret>>
     \/ /\ Lookup(cid[t]) = "NONE" /\ inFlight[cid[t]] = NoThread
        /\ inFlight' = [inFlight EXCEPT ![cid[t]] = t]
        /\ Goto(t, "call")
        /\ UNCHANGED <<event, ret>>
  /\ UNCHANGED <<cache, cid, attempt, reply, answered, order, stray, calls>>

\* The wait for the dispatch in flight times out.
WaitTimesOut(t) ==
  /\ pc[t] = "wait"
  /\ Return(t, "UNKNOWN")
  /\ event' = [event EXCEPT ![t] = NoThread]
  /\ UNCHANGED <<cache, inFlight, cid, attempt, reply, answered, order, stray, calls>>

\* The event was set; the waiter reads what the dispatch left in the cache.
ReadAfterWait(t) ==
  /\ pc[t] = "woken"
  /\ Return(t, IF Lookup(cid[t]) = "NONE" THEN "UNKNOWN" ELSE Lookup(cid[t]))
  /\ UNCHANGED <<cache, inFlight, cid, event, attempt, reply, answered, order, stray, calls>>

\* Mutant: the attempts are never counted.
CallUncounted(t) ==
  /\ pc[t] = "call"
  /\ reply' = [reply EXCEPT ![t] = NoReply]
  /\ Goto(t, "decide")
  /\ UNCHANGED <<cache, inFlight, cid, event, attempt, ret, answered, order, stray, calls>>

\* One transport call of _dispatch_with_retries.  The broker acts on the request,
\* or refuses it, and answers, or the reply is hidden by a gateway error or lost;
\* or the request is still on its way when the transport gives up.
Call(t) ==
  /\ pc[t] = "call"
  /\ attempt' = [attempt EXCEPT ![t] = @ + 1]
  /\ \/ /\ order # "filled" /\ order' = Effect(order)
        /\ \E h \in {"ok", "retryable", "none"} :
             reply' = [reply EXCEPT ![t] = [http |-> h, text |-> "other"]]
        /\ UNCHANGED stray
     \/ /\ \E r \in Refusals(order) \cup {[http |-> "retryable", text |-> "other"]} :
             reply' = [reply EXCEPT ![t] = r]
        /\ UNCHANGED <<order, stray>>
     \/ /\ reply' = [reply EXCEPT ![t] = NoReply]
        /\ stray' = TRUE
        /\ UNCHANGED order
  /\ Goto(t, "decide")
  /\ UNCHANGED <<cache, inFlight, cid, event, ret, answered, calls>>

\* May the dispatch try again?
RetriesLeft(t) == attempt[t] < MaxRetries + 1

\* _backoff_seconds may give up: an answer can carry a Retry-After beyond the
\* budget, a transport error cannot.
BackoffRefusable(t) == reply[t].http = "retryable"

\* A retryable reply is tried again after a backoff, while retries are left and
\* the backoff fits the budget; any other reply ends the loop.
Decide(t) ==
  /\ pc[t] = "decide"
  /\ \/ Retryable(reply[t]) /\ RetriesLeft(t) /\ Goto(t, "call")
     \/ Retryable(reply[t]) /\ (~RetriesLeft(t) \/ BackoffRefusable(t)) /\ Goto(t, "store")
     \/ ~Retryable(reply[t]) /\ Goto(t, "store")
  /\ UNCHANGED <<cache, inFlight, cid, event, attempt, reply, ret, answered, order, stray,
                 calls>>

\* The outcome is classified and, if the broker asserted it, cached.
StoreResult(t) ==
  LET status == Classify(reply[t])
  IN
  /\ pc[t] = "store"
  /\ IF status \in CacheableStatuses
     THEN /\ cache' = Stored(cid[t], status)
          /\ answered' = [c \in Cids |->
               IF c # cid[t] THEN IF Kept(c, cache) /\ ~Kept(c, cache') THEN "EVICTED"
                                  ELSE answered[c]
               ELSE IF answered[c] = "NONE" THEN status ELSE answered[c]]
     ELSE UNCHANGED <<cache, answered>>
  /\ ret' = [ret EXCEPT ![t] = status]
  /\ Goto(t, "release")
  /\ UNCHANGED <<inFlight, cid, event, attempt, reply, order, stray, calls>>

\* The finally block pops the claim under the lock.
Release(t) ==
  /\ pc[t] = "release"
  /\ inFlight' = [inFlight EXCEPT ![cid[t]] = NoThread]
  /\ Goto(t, "set")
  /\ attempt' = [attempt EXCEPT ![t] = 0]
  /\ reply' = [reply EXCEPT ![t] = NoReply]
  /\ UNCHANGED <<cache, cid, event, ret, answered, order, stray, calls>>

\* Mutant: the event of whoever holds the id by now is set, not the popped one.
SetEventOfHolder(t) ==
  /\ pc[t] = "set"
  /\ LET waiters == {w \in Threads : pc[w] = "wait" /\ event[w] = inFlight[cid[t]]}
     IN  /\ pc' = [w \in Threads |-> IF w = t THEN "idle"
                                    ELSE IF w \in waiters THEN "woken" ELSE pc[w]]
         /\ event' = [w \in Threads |-> IF w \in waiters THEN NoThread ELSE event[w]]
  /\ UNCHANGED <<cache, inFlight, cid, attempt, reply, ret, answered, order, stray, calls>>

\* Then, outside the lock, it sets the event of the popped claim: everyone who
\* waits for that event wakes.
SetEvent(t) ==
  /\ pc[t] = "set"
  /\ LET waiters == {w \in Threads : pc[w] = "wait" /\ event[w] = t}
     IN  /\ pc' = [w \in Threads |-> IF w = t THEN "idle"
                                    ELSE IF w \in waiters THEN "woken" ELSE pc[w]]
         /\ event' = [w \in Threads |-> IF w \in waiters THEN NoThread ELSE event[w]]
  /\ UNCHANGED <<cache, inFlight, cid, attempt, reply, ret, answered, order, stray, calls>>

-----------------------------------------------------------------------------
\* EXTERNAL: a request given up by its sender reaches the broker after all.
StrayArrives ==
  /\ stray
  /\ stray' = FALSE
  /\ order' = Effect(order)
  /\ UNCHANGED <<cache, inFlight, threadVars, answered, calls>>

\* EXTERNAL: the order fills, also while it is pending cancel; a pending cancel
\* takes effect, or the venue refuses it and the order works on.
OrderMoves ==
  /\ \/ order \in {"working", "pending"} /\ order' = "filled"
     \/ order = "pending" /\ order' \in {"cancelled", "working"}
  /\ UNCHANGED <<cache, inFlight, threadVars, answered, stray, calls>>

Done ==
  /\ calls = MaxCalls /\ \A t \in Threads : pc[t] = "idle"
  /\ UNCHANGED vars

Step(t) ==
  \/ ClaimOrWait(t) \/ WaitTimesOut(t) \/ ReadAfterWait(t) \/ Call(t) \/ Decide(t)
  \/ StoreResult(t) \/ Release(t) \/ SetEvent(t)

Next ==
  \/ \E t \in Threads : CancelOrder(t) \/ Step(t)
  \/ StrayArrives \/ OrderMoves
  \/ Done

Spec == Init /\ [][Next]_vars

\* Threads keep running; the transport returns or raises.
FairSpec == Spec /\ \A t \in Threads : WF_vars(Step(t))

-----------------------------------------------------------------------------
TypeOK ==
  /\ cache \in Seq([cid : Cids, status : CacheableStatuses]) /\ Len(cache) <= MaxCacheSize
  /\ inFlight \in [Cids -> Threads \cup {NoThread}]
  /\ pc \in [Threads -> Dispatching \cup {"idle", "claim", "wait", "woken", "set"}]
  /\ cid \in [Threads -> Cids]
  /\ event \in [Threads -> Threads \cup {NoThread}]
  /\ attempt \in [Threads -> 0..(MaxRetries + 1)]
  /\ reply \in [Threads -> Replies]
  /\ ret \in [Threads -> Statuses \cup {"NONE"}]
  /\ answered \in [Cids -> CacheableStatuses \cup {"NONE", "EVICTED"}]
  /\ order \in {"working", "pending", "cancelled", "filled"}
  /\ stray \in BOOLEAN /\ calls \in 0..MaxCalls

\* "At most one in-flight dispatch at a time": a claim belongs to a thread that
\* is dispatching that id and every dispatching thread holds the claim of its id;
\* and whoever waits, waits for an event of its own id that will still be set,
\* although the claim is popped and its event set in two steps.
ClaimsMatchDispatches ==
  /\ \A c \in Cids, t \in Threads :
       inFlight[c] = t <=> pc[t] \in Dispatching /\ cid[t] = c
  /\ \A t \in Threads :
       pc[t] = "wait" => /\ event[t] # NoThread
                         /\ pc[event[t]] \in Dispatching \cup {"set"}
                         /\ cid[event[t]] = cid[t]

\* A result that says the order is no longer working is true: the order is
\* filled, or cancelled, as it says; cached, replayed or just returned.
TrueOf(status) ==
  /\ status = "FILLED_BEFORE_CANCEL" => order = "filled"
  /\ status \in {"CANCELLED", "ALREADY_CANCELLED"} => order = "cancelled"

TerminalIsTrue ==
  /\ \A t \in Threads : TrueOf(ret[t])
  /\ \A i \in 1..Len(cache) : TrueOf(cache[i].status)

\* Callers of one cancel id agree: an answer the broker asserted is the only one
\* any caller of that id gets, owner, waiter or late retry, until the cache has
\* had to evict it.
AnswersAgree ==
  \A t \in Threads :
    ret[t] \in CacheableStatuses => answered[cid[t]] \in {ret[t], "EVICTED"}

\* "Exactly one dispatch overall, once the broker has returned a cacheable
\* answer": an id the broker has answered is not sent again before its answer is
\* evicted.
AnsweredIsNotResent ==
  [][\A t \in Threads :
       attempt'[t] > attempt[t] => answered[cid[t]] \in {"NONE", "EVICTED"}]_vars

\* Every call returns, waiters included.
CallsReturn == \A t \in Threads : pc[t] # "idle" ~> pc[t] = "idle"
=============================================================================
