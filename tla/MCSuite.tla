------------------------------- MODULE MCSuite -------------------------------
(***************************************************************************)
(* The components around the router that share no state with each other,   *)
(* for TLC.  Every behaviour is about one of them, its focus; the others   *)
(* stay as they began.                                                     *)
(***************************************************************************)
EXTENDS FixSession, MCTickPipeline, DownstreamBreaker, WebhookFills, TokenProbe,
        GracefulShutdown, WsRecovery, BrokerFailover, SecretsRotator, RebalanceGuard

VARIABLE focus

Foci == {"fix orders", "fix fills", "ticks", "service", "webhook", "token", "shutdown",
         "websocket", "failover", "failover probes", "secrets", "rebalance"}

\* The publisher's clock is ahead, by as much as is allowed (the longest an execution
\* can be repeated) or by more.
ClockSkews == {1, 2}

\* The position to reduce is in the primary account.
HeldAtPrimary == [primary |-> 1, secondary |-> 0]

SuiteInit ==
  /\ focus \in Foci
  /\ FixInit /\ TickInit /\ CbInit /\ WhInit /\ TokenInit /\ GsInit /\ WsInit
  /\ FoInit /\ SrInit /\ RgInit
  /\ focus # "token" => stored = 0
  /\ focus # "secrets" => sr.revokeFn

\* A FIX session from the caller's side (orders, logouts and probes, no fills) or from
\* the venue's (fills and session messages while the caller only listens).
FixSideNext ==
  /\ focus \in {"fix orders", "fix fills"} /\ FixNext
  /\ focus = "fix orders" => fills' = 0
  /\ focus = "fix fills" => fixBudget'.orders = 0

\* One tick less once the pipeline has been restarted.
TicksNext == focus = "ticks" /\ TickNext /\ (starts' = MaxStarts => metrics'.received < MaxTicks)

\* Idle threads are alike: the one with the least number begins.
LeastBegins(T, idle, stillIdle) ==
  \A t \in T : idle[t] /\ ~stillIdle[t] => \A u \in T : idle[u] => t <= u

ServiceNext ==
  /\ focus = "service" /\ CbNext
  /\ LeastBegins(Callers, [c \in Callers |-> permit[c] = NoPermit],
                          [c \in Callers |-> permit'[c] = NoPermit])

WebhookNext ==
  /\ focus = "webhook" /\ WhNext
  /\ LeastBegins(Requests, [r \in Requests |-> request[r] = IdleRequest],
                           [r \in Requests |-> request'[r] = IdleRequest])

\* Every kind of order and an operator, with one order less; or opening orders only,
\* without an operator and without a Retry-After.
FailoverNext ==
  /\ focus \in {"failover", "failover probes"} /\ FoNext
  /\ LeastBegins(FoThreads, [t \in FoThreads |-> foCall[t] = NoCall],
                            [t \in FoThreads |-> foCall'[t] = NoCall])
  /\ focus = "failover" => Len(foOrder') < MaxFoOrders
  /\ focus = "failover probes" =>
       /\ foManual' = 0
       /\ \A t \in FoThreads : ~foCall'[t].retryAfter
       /\ \A i \in DOMAIN foOrder' : foOrder'[i].effect = "OPEN"

\* The second partition never moves to the second member.
RebalanceNext == focus = "rebalance" /\ RgNext /\ owner'[2] # "m2"

\* The variables of the components, in three groups.
coreVars == <<fixVars, tickVars, cbVars, whVars>>
edgeVars == <<tokenVars, gsVars, wsVars>>
accountVars == <<foVars, srVars, rgVars>>

SuiteNext ==
  /\ UNCHANGED focus
  /\ \/ /\ \/ FixSideNext /\ UNCHANGED <<tickVars, cbVars, whVars>>
           \/ TicksNext /\ UNCHANGED <<fixVars, cbVars, whVars>>
           \/ ServiceNext /\ UNCHANGED <<fixVars, tickVars, whVars>>
           \/ WebhookNext /\ UNCHANGED <<fixVars, tickVars, cbVars>>
        /\ UNCHANGED <<edgeVars, accountVars>>
     \/ /\ \/ focus = "token" /\ TokenNext /\ UNCHANGED <<gsVars, wsVars>>
           \/ focus = "shutdown" /\ GsNext /\ UNCHANGED <<tokenVars, wsVars>>
           \/ focus = "websocket" /\ WsNext /\ UNCHANGED <<tokenVars, gsVars>>
        /\ UNCHANGED <<coreVars, accountVars>>
     \/ /\ \/ FailoverNext /\ UNCHANGED <<srVars, rgVars>>
           \/ focus = "secrets" /\ SrNext /\ UNCHANGED <<foVars, rgVars>>
           \/ RebalanceNext /\ UNCHANGED <<foVars, srVars>>
        /\ UNCHANGED <<coreVars, edgeVars>>

suiteVars == <<focus, coreVars, edgeVars, accountVars>>

SuiteSpec == SuiteInit /\ [][SuiteNext]_suiteVars

\* The component in focus stays within its types and its capacities: the resend
\* buffer, the tick queues and handoffs, the probe slots and timeout, the claim store and
\* the cache of keys.
SuiteTypeOK ==
  CASE focus \in {"fix orders", "fix fills"} -> FixTypeOK
    [] focus = "ticks" -> TickTypeOK
    [] focus = "service" -> CbTypeOK
    [] focus = "webhook" -> WhTypeOK
    [] focus = "token" -> TokenTypeOK
    [] focus = "shutdown" -> GsTypeOK
    [] focus = "websocket" -> WsTypeOK
    [] focus \in {"failover", "failover probes"} -> FoTypeOK
    [] focus = "secrets" -> SrTypeOK
    [] focus = "rebalance" -> RgTypeOK
=============================================================================
