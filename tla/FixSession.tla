----------------------------- MODULE FixSession ------------------------------
(***************************************************************************)
(* FixProtocolSessionManagerEngine: the session layer that decides whether *)
(* an execution report is applied once, twice or never.  The engine is one *)
(* record, its methods are operators on that record (each runs under the   *)
(* engine's lock and performs no I/O), and "applied" is what the caller    *)
(* does with the messages the engine lets through.                         *)
(*                                                                         *)
(* The venue and the connection are external.  The venue numbers its       *)
(* messages, also while the connection is down, so that a reconnect finds  *)
(* a gap; it serves ResendRequests from a complete history.  Time is not   *)
(* modelled: a timer of check_liveness may be due at any poll.             *)
(***************************************************************************)
EXTENDS Integers, Sequences, FiniteSets, Functions

CONSTANTS
  ResendBufferSize,   \* resend_buffer_size
  AutoResendOnGap,    \* auto_resend_on_gap
  MaxFills,           \* bound: execution reports of the venue
  MaxVenueAdmin,      \* bound: its other messages, replies apart
  MaxOrders,          \* bound: orders, logouts and liveness polls of the caller
  MaxConnects         \* bound: connections

ASSUME FixAssumption ==
  /\ ResendBufferSize \in Nat \ {0}
  /\ AutoResendOnGap \in BOOLEAN
  /\ MaxFills \in Nat /\ MaxVenueAdmin \in Nat /\ MaxOrders \in Nat /\ MaxConnects \in Nat

VARIABLES
  eng,         \* the engine
  conn,        \* "down", "up", or "on" once the venue has accepted a Logon
  inbound,     \* venue -> engine, in order
  outbound,    \* engine -> venue: the messages a venue reacts to
  history,     \* what the venue has numbered: a fill, or 0 for an admin message
  fills,       \* execution reports of the venue so far
  applied,     \* observer: the fills applied, in order
  jumped,      \* observer: the fills a Reset or a renegotiation skipped
  orderSeqs,   \* observer: sequence numbers the caller's orders were given
  fixBudget    \* bounds used up, and whether the caller is asking for a reset

fixVars == <<eng, conn, inbound, outbound, history, fills, applied, jumped, orderSeqs, fixBudget>>

FixStates == {"DISCONNECTED", "LOGON_SENT", "LOGGED_IN", "RESEND_REQUEST_SENT", "LOGOUT_SENT"}
Established == {"LOGGED_IN", "RESEND_REQUEST_SENT"}

\* A message.  type tells the two modes of SequenceReset apart; arg is NewSeqNo or
\* BeginSeqNo, to is EndSeqNo, fill an execution report, flag the ResetSeqNumFlag
\* of a Logon or the echoed TestReqID of a Heartbeat; own says that the CompIDs
\* mirror the session's.  NotANumber is a tag that is missing or does not parse.
NotANumber == -1
Msg(type, seq) == [type |-> type, seq |-> seq, dup |-> FALSE, arg |-> 0, to |-> 0,
                   fill |-> 0, flag |-> FALSE, own |-> TRUE]

FixInit ==
  /\ eng = [state |-> "DISCONNECTED", out |-> 1, expect |-> 1, sent |-> {}, probe |-> FALSE]
  /\ conn = "down" /\ inbound = <<>> /\ outbound = <<>>
  /\ history = <<>> /\ fills = 0
  /\ applied = <<>> /\ jumped = {} /\ orderSeqs = {}
  /\ fixBudget = [connects |-> 0, orders |-> 0, admin |-> 0, resetting |-> FALSE]

-----------------------------------------------------------------------------
\* Mutant: the buffer forgets the newest message instead of the oldest.
TrimNewest(sent) ==
  IF Cardinality(sent) <= ResendBufferSize THEN sent
  ELSE sent \ {m \in sent : \A n \in sent : n.seq <= m.seq}

\* Mutant: one message too many is kept.
TrimLate(sent) ==
  {m \in sent : Cardinality({n \in sent : n.seq >= m.seq}) <= ResendBufferSize + 1}

\* _trim_resend_buffer: the lowest numbers go first.
TrimResendBuffer(sent) ==
  {m \in sent : Cardinality({n \in sent : n.seq >= m.seq}) <= ResendBufferSize}

\* create_outbound_msg: the number is consumed and the message retained, whether
\* or not the caller transmits it.
CreateOutbound(e, type) ==
  [e EXCEPT !.out = @ + 1,
            !.sent = TrimResendBuffer(@ \cup {[seq |-> e.out, app |-> type = "App"]})]

\* A number whose message is retained and is not an administrative one.
Replayable(e, seq) == \E m \in e.sent : m.seq = seq /\ m.app

\* The i-th lowest number of a finite set.
Nth(S, i) == CHOOSE s \in S : Cardinality({t \in S : t <= s}) = i

\* The end of the range asked for: 0, or too high a number, asks for everything.
LastAsked(e, end) == IF end <= 0 \/ end >= e.out THEN e.out - 1 ELSE end

\* The numbers at which an answer has a message: each replay, and the first of each
\* run of others.
Heads(e, begin, last) ==
  {s \in begin..last : s = begin \/ Replayable(e, s) \/ Replayable(e, s - 1)}

\* build_resend_response: application messages are replayed under their numbers;
\* every run of others becomes one GapFill up to the next replay.
BuildResendResponse(e, begin, end) ==
  LET last == LastAsked(e, end)
      heads == Heads(e, begin, last)
      count == Cardinality(heads)
      answer(i) ==
        IF Replayable(e, Nth(heads, i)) THEN [Msg("App", Nth(heads, i)) EXCEPT !.dup = TRUE]
        ELSE [Msg("GapFill", Nth(heads, i)) EXCEPT
                !.dup = TRUE, !.arg = IF i = count THEN last + 1 ELSE Nth(heads, i + 1)]
  IN  IF begin < 1 \/ begin > last THEN <<>> ELSE [i \in 1..count |-> answer(i)]

-----------------------------------------------------------------------------
\* What processing a message amounts to: the engine after it, the messages to
\* transmit, and whether the message itself reached the application.
Outcome(e, responses, through) == [eng |-> e, responses |-> responses, through |-> through]
Silent(e) == Outcome(e, <<>>, FALSE)

\* The engine creates one message, in state s, and returns it.
Answer(e, s, m) == Outcome([CreateOutbound(e, m.type) EXCEPT !.state = s], <<m>>, FALSE)
SendLogout(e) == Answer(e, "LOGOUT_SENT", Msg("Logout", e.out))
SendReject(e) == Answer(e, e.state, Msg("Reject", e.out))
RequestResend(e) ==
  Answer(e, "RESEND_REQUEST_SENT", [Msg("ResendRequest", e.out) EXCEPT !.arg = e.expect])

\* Mutant: the Logon that reveals a gap moves the expected number past it.
LogonSkipsGap(e, m) ==
  LET b == IF m.flag THEN [e EXCEPT !.expect = 1] ELSE e
  IN  IF m.seq < b.expect /\ ~m.dup THEN SendLogout(b)
      ELSE Silent([b EXCEPT !.state = "LOGGED_IN", !.probe = FALSE, !.expect = m.seq + 1])

\* _handle_logon
HandleLogon(e, m) ==
  LET b  == IF m.flag THEN [e EXCEPT !.expect = 1] ELSE e
      on == [b EXCEPT !.state = "LOGGED_IN", !.probe = FALSE]
  IN  IF m.seq < b.expect /\ ~m.dup THEN SendLogout(b)
      ELSE IF m.seq > b.expect
      THEN IF AutoResendOnGap THEN RequestResend(on) ELSE Silent(on)
      ELSE Silent([on EXCEPT !.expect = m.seq + 1])

\* The expected number moves to a NewSeqNo and the session is no longer recovering.
Resynchronized(e, new) ==
  [e EXCEPT !.expect = new,
            !.state = IF @ = "RESEND_REQUEST_SENT" THEN "LOGGED_IN" ELSE @]

\* _handle_sequence_reset_mode: the message's own number is ignored.
HandleSequenceResetMode(e, m) ==
  IF m.arg = NotANumber THEN Silent(e)
  ELSE IF m.arg <= e.expect THEN SendReject(e)
  ELSE Silent(Resynchronized(e, m.arg))

\* _handle_gap: one request per recovery; the message itself is not kept.
HandleGap(e) ==
  IF e.state = "RESEND_REQUEST_SENT" \/ ~AutoResendOnGap THEN Silent(e) ELSE RequestResend(e)

\* _handle_in_sequence.  An echoed TestReqID is a Heartbeat with the flag set.
HandleInSequence(e, m) ==
  LET next == [e EXCEPT !.expect = m.seq + 1]
  IN  CASE m.type = "GapFill" ->
             IF m.arg <= e.expect THEN SendReject(e) ELSE Silent(Resynchronized(e, m.arg))
        [] m.type = "TestRequest" -> Answer(next, e.state, Msg("Heartbeat", e.out))
        [] m.type = "Heartbeat" ->
             Silent([next EXCEPT !.probe = IF m.flag THEN FALSE ELSE @])
        [] m.type = "ResendRequest" ->
             IF m.arg = NotANumber THEN SendReject(next)
             ELSE Outcome(next, BuildResendResponse(next, m.arg, m.to), FALSE)
        [] m.type = "Logout" ->
             LET acked == IF e.state = "LOGOUT_SENT" THEN Silent(next) ELSE SendLogout(next)
             IN  [acked EXCEPT !.eng.state = "DISCONNECTED"]
        [] OTHER -> Outcome(next, <<>>, m.type = "App")

\* _process_locked: the order of the checks is the order of the code.
Process(e, m) ==
  IF e.state = "DISCONNECTED" /\ m.type # "Logon" THEN Silent(e)
  ELSE IF ~m.own THEN SendLogout(e)
  ELSE IF m.type = "Logon"
  THEN IF e.state \in {"DISCONNECTED", "LOGON_SENT"} THEN HandleLogon(e, m) ELSE SendLogout(e)
  ELSE IF m.type = "SequenceReset" THEN HandleSequenceResetMode(e, m)
  ELSE IF m.dup /\ m.seq < e.expect THEN Silent(e)
  ELSE IF m.seq > e.expect THEN HandleGap(e)
  ELSE IF m.seq < e.expect THEN SendLogout(e)
  ELSE HandleInSequence(e, m)

-----------------------------------------------------------------------------
\* The caller connects and calls initiate_logon.  It asks for a reset again
\* until the venue has confirmed one.
InitiateLogon(reset) ==
  /\ conn = "down" /\ fixBudget.connects < MaxConnects
  /\ fixBudget.resetting => reset
  /\ LET e == IF reset THEN [eng EXCEPT !.out = 1, !.expect = 1, !.sent = {}] ELSE eng
     IN  /\ eng' = [CreateOutbound(e, "Logon") EXCEPT !.state = "LOGON_SENT"]
         /\ outbound' = <<[Msg("Logon", e.out) EXCEPT !.flag = reset]>>
  /\ conn' = "up"
  /\ orderSeqs' = IF reset THEN {} ELSE orderSeqs
  /\ fixBudget' = [fixBudget EXCEPT !.connects = @ + 1, !.resetting = reset]
  /\ UNCHANGED <<inbound, history, fills, applied, jumped>>

\* The connection is lost, or the caller closes it: after a termination, or
\* because is_timed_out.  The engine is not told.
ConnectionLost ==
  /\ conn # "down"
  /\ conn' = "down" /\ inbound' = <<>> /\ outbound' = <<>>
  /\ UNCHANGED <<eng, history, fills, applied, jumped, orderSeqs, fixBudget>>

SpendOrder ==
  /\ conn # "down" /\ fixBudget.orders < MaxOrders
  /\ fixBudget' = [fixBudget EXCEPT !.orders = @ + 1]
  /\ UNCHANGED <<conn, inbound, history, fills, applied, jumped>>

\* The caller sends an order; whether it reaches the wire changes nothing here.
SendOrder ==
  /\ SpendOrder /\ eng.state \in Established
  /\ eng' = CreateOutbound(eng, "App")
  /\ orderSeqs' = orderSeqs \cup {eng.out}
  /\ UNCHANGED outbound

InitiateLogout ==
  /\ SpendOrder /\ eng.state \in Established
  /\ eng' = [CreateOutbound(eng, "Logout") EXCEPT !.state = "LOGOUT_SENT"]
  /\ outbound' = Append(outbound, Msg("Logout", eng.out))
  /\ UNCHANGED orderSeqs

\* check_liveness on the timer thread: either timer may be due, the TestRequest
\* only while none is outstanding.
CheckLiveness(idle, silent) ==
  /\ SpendOrder /\ eng.state \in Established
  /\ LET beaten == IF idle THEN CreateOutbound(eng, "Heartbeat") ELSE eng
         probing == silent /\ ~eng.probe
     IN  /\ eng' = IF probing THEN [CreateOutbound(beaten, "TestRequest") EXCEPT !.probe = TRUE]
                   ELSE beaten
         /\ outbound' = IF probing THEN Append(outbound, Msg("TestRequest", beaten.out))
                        ELSE outbound
  /\ UNCHANGED orderSeqs

\* The fills of the venue's history at numbers in S.
FillsAt(S) == {history[s] : s \in S \cap DOMAIN history} \ {0}

\* What a venue reacts to.  The responses to a message are one message, or a replay,
\* which holds neither of these types.
Demands(responses) ==
  IF \E i \in DOMAIN responses : responses[i].type \in {"ResendRequest", "Logout"}
  THEN responses ELSE <<>>

\* The receive loop hands the next message to process_inbound_msg, transmits what
\* it returns and applies an execution report that went through.
Receive ==
  /\ inbound # <<>>
  /\ LET m == Head(inbound)
         o == Process(eng, m)
     IN  /\ eng' = o.eng
         /\ outbound' = outbound \o Demands(o.responses)
         /\ applied' = IF o.through THEN Append(applied, m.fill) ELSE applied
         /\ jumped' = IF m.type = "SequenceReset" /\ o.eng.expect > eng.expect
                      THEN jumped \cup FillsAt(eng.expect..(o.eng.expect - 1)) ELSE jumped
  /\ inbound' = Tail(inbound)
  /\ UNCHANGED <<conn, history, fills, orderSeqs, fixBudget>>

-----------------------------------------------------------------------------
\* EXTERNAL: the venue numbers a message that is m but for its number and, when
\* the session is on, transmits it or not.
VenueNumbers(m) ==
  /\ history' = Append(history, m.fill)
  /\ inbound' = IF conn = "on" THEN Append(inbound, [m EXCEPT !.seq = Len(history) + 1])
                ELSE inbound

VenueLoses(m) == history' = Append(history, m.fill) /\ UNCHANGED inbound

\* EXTERNAL: an execution report.
VenueReports ==
  /\ fills < MaxFills
  /\ fills' = fills + 1
  /\ LET m == [Msg("App", 0) EXCEPT !.fill = fills + 1] IN VenueNumbers(m) \/ VenueLoses(m)
  /\ UNCHANGED <<eng, conn, outbound, applied, jumped, orderSeqs, fixBudget>>

SpendAdmin ==
  /\ conn = "on" /\ fixBudget.admin < MaxVenueAdmin
  /\ fixBudget' = [fixBudget EXCEPT !.admin = @ + 1]
  /\ UNCHANGED <<eng, conn, outbound, fills, applied, jumped, orderSeqs>>

\* EXTERNAL: session messages of the venue's own: an open-ended ResendRequest and
\* one that does not parse among them.
VenueAdmin ==
  /\ SpendAdmin
  /\ \E m \in {Msg("Heartbeat", 0), Msg("TestRequest", 0), Msg("Logout", 0),
              [Msg("ResendRequest", 0) EXCEPT !.arg = 1],
              [Msg("ResendRequest", 0) EXCEPT !.arg = NotANumber]} :
       VenueNumbers(m) \/ VenueLoses(m)

\* EXTERNAL: a SequenceReset-Reset, forward, backward or unreadable.  A forward
\* one gives up a number.
VenueResets ==
  /\ SpendAdmin
  /\ \E new \in {NotANumber, 1, Len(history) + 2} :
       /\ inbound' = Append(inbound, [Msg("SequenceReset", 1) EXCEPT !.arg = new])
       /\ history' = IF new > Len(history) THEN Append(history, 0) ELSE history

\* EXTERNAL: a message of another session is routed here.
Misrouted ==
  /\ SpendAdmin
  /\ inbound' = Append(inbound, [Msg("Heartbeat", 1) EXCEPT !.own = FALSE])
  /\ UNCHANGED history

\* EXTERNAL: the venue's answer to a ResendRequest, by the rules the engine
\* follows, from a history that forgets nothing.
VenueResend(begin) ==
  LET all == [out |-> Len(history) + 1,
              sent |-> {[seq |-> s, app |-> history[s] # 0] : s \in DOMAIN history}]
      answer == BuildResendResponse(all, begin, 0)
  IN  [i \in DOMAIN answer |->
         [answer[i] EXCEPT !.fill = IF @ = 0 /\ answer[i].type = "App"
                                    THEN history[answer[i].seq] ELSE 0]]

\* EXTERNAL: the venue takes the next message and replies to it.  A Logon that
\* asks for a reset starts the numbering anew and is confirmed with the flag.
VenueReplies ==
  /\ conn # "down" /\ outbound # <<>>
  /\ outbound' = Tail(outbound)
  /\ LET m == Head(outbound)
     IN  \/ /\ m.type = "Logon"
            /\ conn' = "on"
            /\ history' = IF m.flag THEN <<0>> ELSE Append(history, 0)
            /\ inbound' = Append(inbound, [Msg("Logon", Len(history')) EXCEPT !.flag = m.flag])
            /\ jumped' = IF m.flag THEN jumped \cup (FillsAt(DOMAIN history) \ Range(applied))
                         ELSE jumped
            /\ fixBudget' = [fixBudget EXCEPT !.resetting = FALSE]
         \/ /\ m.type = "ResendRequest"
            /\ inbound' = inbound \o VenueResend(m.arg)
            /\ UNCHANGED <<conn, history, jumped, fixBudget>>
         \/ /\ m.type \in {"TestRequest", "Logout"}
            /\ LET r == IF m.type = "Logout" THEN Msg("Logout", 0)
                        ELSE [Msg("Heartbeat", 0) EXCEPT !.flag = TRUE]
               IN  VenueNumbers(r) \/ VenueLoses(r)
            /\ UNCHANGED <<conn, jumped, fixBudget>>
  /\ UNCHANGED <<eng, fills, applied, orderSeqs>>

FixDone ==
  /\ conn = "down" /\ fixBudget.connects = MaxConnects
  /\ UNCHANGED fixVars

FixNext ==
  \/ \E reset \in BOOLEAN : InitiateLogon(reset)
  \/ ConnectionLost \/ SendOrder \/ InitiateLogout
  \/ \E idle, silent \in BOOLEAN : CheckLiveness(idle, silent)
  \/ Receive
  \/ VenueReports \/ VenueAdmin \/ VenueResets \/ Misrouted \/ VenueReplies
  \/ FixDone

FixSpec == FixInit /\ [][FixNext]_fixVars

-----------------------------------------------------------------------------
FixTypeOK ==
  /\ eng.state \in FixStates /\ eng.out \in Nat /\ eng.expect \in Nat \ {0}
  /\ eng.probe \in BOOLEAN
  /\ eng.sent \subseteq [seq : 1..(eng.out - 1), app : BOOLEAN]
  /\ Cardinality(eng.sent) <= ResendBufferSize
  /\ conn \in {"down", "up", "on"} /\ history \in Seq(0..fills)
  /\ jumped \subseteq 1..fills /\ orderSeqs \subseteq 1..(eng.out - 1)

\* "Applied once, twice, or never": fills are applied once and in the order the
\* venue made them, over gaps, replays, resets and reconnects, and the expected
\* number never passes a fill that was not applied, except where the venue itself
\* gave it up with a Reset or a renegotiated Logon.
FixFillsOnce ==
  /\ \A i, j \in DOMAIN applied : i < j => applied[i] < applied[j]
  /\ FillsAt(1..(eng.expect - 1)) \subseteq Range(applied) \cup jumped

\* A receiver that follows the specification walks any answer to a ResendRequest
\* from BeginSeqNo to the end of the range without a hole, and sees exactly the
\* orders of that range that the buffer of the last ResendBufferSize messages
\* still has to hold, whatever logons, resets and probes went in between.
FixResendIsFaithful ==
  \A begin \in 1..(eng.out - 1), end \in 0..eng.out :
    LET last == IF end = 0 \/ end >= eng.out THEN eng.out - 1 ELSE end
        answer == BuildResendResponse(eng, begin, end)
        next(i) == IF answer[i].type = "App" THEN answer[i].seq + 1 ELSE answer[i].arg
    IN  begin <= last =>
          /\ answer # <<>> /\ answer[1].seq = begin /\ next(Len(answer)) = last + 1
          /\ \A i \in 2..Len(answer) : answer[i].seq = next(i - 1)
          /\ {answer[i].seq : i \in {k \in DOMAIN answer : answer[k].type = "App"}}
               = {s \in orderSeqs : begin <= s /\ s <= last /\ s >= eng.out - ResendBufferSize}

\* "A ResendRequest is already outstanding": a message beyond a gap is let go
\* without a request only while a request or its answer is on its way.
GapIsRequested ==
  [][inbound # <<>> /\ inbound' = Tail(inbound) /\ conn' = conn
       /\ eng.state \in Established /\ Head(inbound).own
       /\ Head(inbound).type \notin {"Logon", "SequenceReset"}
       /\ Head(inbound).seq > eng.expect /\ eng'.out = eng.out =>
         \/ \E i \in DOMAIN outbound : outbound[i].type = "ResendRequest"
         \/ \E i \in DOMAIN inbound : inbound[i].dup]_fixVars
=============================================================================
