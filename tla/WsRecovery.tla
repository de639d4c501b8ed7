----------------------------- MODULE WsRecovery ------------------------------
(***************************************************************************)
(* WebSocketStateRecoveryManager: a reader thread that hands every frame   *)
(* to process_incoming_message and applies what it returns to a book, and  *)
(* a health thread that reconnects and rebuilds a book from a snapshot     *)
(* when its symbol is latched as unsynchronised.                           *)
(*                                                                         *)
(* Every method runs under the lock.  The venue is external: any published *)
(* frame may arrive, at any time and any number of times, or never, and    *)
(* the REST gap fill answers with the range, a part of it, something else  *)
(* or an error.                                                            *)
(***************************************************************************)
EXTENDS Integers, Sequences, FiniteSets

CONSTANTS
  Feeds,           \* symbols
  HasGapFill,      \* is a rest_gap_fill_fn configured?
  MaxGapFill,      \* max_gap_fill_size
  MaxSeqId, MaxDrops, MaxFrames   \* bounds: frames published, connections lost, frames received

ASSUME WsAssumption ==
  /\ HasGapFill \in BOOLEAN /\ MaxGapFill \in Nat \ {0}
  /\ MaxSeqId \in Nat /\ MaxDrops \in Nat /\ MaxFrames \in Nat

VARIABLES
  ws,          \* the manager: state, reconnect_attempts, last_seen_sequence, _unsynced
  published,   \* the venue: the sequence id it published last for each symbol
  inHand,      \* what process_incoming_message returned and the reader has not applied
  book,        \* the sequence id each book stands at
  rebuilding,  \* the position of a snapshot that is loaded but not yet announced
  torn,        \* observer: something was applied to a book out of turn
  wsBudget

wsVars == <<ws, published, inHand, book, rebuilding, torn, wsBudget>>

NoSeq == -2   \* Python's None; -1 is the watermark before sequence id 0

Frame(s, n) == [symbol |-> s, seq |-> n]

WsInit ==
  /\ ws = [state |-> "DISCONNECTED", attempts |-> 0, seen |-> [s \in Feeds |-> NoSeq],
           unsynced |-> {}]
  /\ published = [s \in Feeds |-> -1]
  /\ inHand = <<>>
  /\ book = [s \in Feeds |-> NoSeq] /\ rebuilding = [s \in Feeds |-> NoSeq]
  /\ torn = FALSE
  /\ wsBudget = [drops |-> 0, frames |-> 0]

-----------------------------------------------------------------------------
\* EXTERNAL: the venue publishes the next frame of a symbol.
Publish(s) ==
  /\ published[s] < MaxSeqId
  /\ published' = [published EXCEPT ![s] = @ + 1]
  /\ UNCHANGED <<ws, inHand, book, rebuilding, torn, wsBudget>>

\* on_connection_lost: a scheduled rotation does not escalate the backoff.
OnConnectionLost(scheduled) ==
  /\ wsBudget.drops < MaxDrops
  /\ wsBudget' = [wsBudget EXCEPT !.drops = @ + 1]
  /\ ws' = [ws EXCEPT !.state = "DISCONNECTED", !.attempts = IF scheduled THEN @ ELSE @ + 1]
  /\ UNCHANGED <<published, inHand, book, rebuilding, torn>>

\* on_connection_established; the states it passes through are not seen outside
\* the lock.
OnConnectionEstablished ==
  /\ ws.state = "DISCONNECTED"
  /\ ws' = [ws EXCEPT !.state = "SUBSCRIBED"]
  /\ UNCHANGED <<published, inHand, book, rebuilding, torn, wsBudget>>

-----------------------------------------------------------------------------
\* EXTERNAL: what the gap fill may answer for a range of a symbol.
FillAnswers(s, first, last) ==
  LET range(lo, hi) == [i \in 1..(hi - lo + 1) |-> Frame(s, lo + i - 1)]
  IN  {range(first, last), range(first, last - 1), range(first + 1, last),
       range(first - 1, last - 1), <<>>}
      \cup {[i \in 1..(last - first + 1) |-> Frame(o, first + i - 1)] : o \in Feeds}

\* Mutant: a partial fill is good enough.
PartialFillIsValid(fetched, s, first, last) ==
  \A i \in DOMAIN fetched : fetched[i] = Frame(s, first + i - 1)

\* _validate_fill: the range, exactly.
ValidFill(fetched, s, first, last) ==
  /\ Len(fetched) = last - first + 1
  /\ \A i \in DOMAIN fetched : fetched[i] = Frame(s, first + i - 1)

\* _latch_unsynced
Latch(m, s) == [m EXCEPT !.unsynced = @ \cup {s}, !.state = "RECOVERING_GAP"]

\* A message is let through, after what was recovered.
EmitThrough(s, n, recovered) ==
  /\ ws' = [ws EXCEPT !.seen[s] = n, !.state = "STREAMING", !.attempts = 0]
  /\ inHand' = Append(recovered, Frame(s, n))

\* process_incoming_message.  Withheld and stale frames change nothing but
\* counters; a gap is filled by _recover_gap or latches the symbol.  The reader
\* may still hold frames of a connection that was lost.
ProcessIncoming(s, n) ==
  LET last == ws.seen[s]
      tooWide == n - 1 - last > MaxGapFill
  IN
  /\ ws.state # "DISCONNECTED" \/ wsBudget.drops > 0
  /\ inHand = <<>>
  /\ n \in 0..published[s] /\ wsBudget.frames < MaxFrames
  /\ wsBudget' = [wsBudget EXCEPT !.frames = @ + 1]
  /\ \/ /\ s \in ws.unsynced \/ (last # NoSeq /\ n <= last)
        /\ UNCHANGED <<ws, inHand>>
     \/ /\ s \notin ws.unsynced
        /\ last = NoSeq \/ n = last + 1
        /\ EmitThrough(s, n, <<>>)
     \/ /\ s \notin ws.unsynced /\ last # NoSeq /\ n > last + 1
        /\ \/ ws' = Latch(ws, s) /\ UNCHANGED inHand   \* no fill, too wide, or it raised
           \/ /\ HasGapFill /\ ~tooWide
              /\ \E fetched \in FillAnswers(s, last + 1, n - 1) :
                   IF ValidFill(fetched, s, last + 1, n - 1) THEN EmitThrough(s, n, fetched)
                   ELSE ws' = Latch(ws, s) /\ UNCHANGED inHand
  /\ UNCHANGED <<published, book, rebuilding, torn>>

\* The reader applies what it was given, after the lock was released.
ApplyInHand ==
  /\ inHand # <<>>
  /\ LET s == inHand[Len(inHand)].symbol
     IN  /\ torn' = (torn \/ \E i \in DOMAIN inHand :
                       \/ inHand[i].symbol # s
                       \/ i > 1 /\ inHand[i].seq # inHand[i - 1].seq + 1
                       \/ i = 1 /\ book[s] # NoSeq /\ inHand[i].seq # book[s] + 1)
         /\ book' = [book EXCEPT ![s] = inHand[Len(inHand)].seq]
  /\ inHand' = <<>>
  /\ UNCHANGED <<ws, published, rebuilding, wsBudget>>

-----------------------------------------------------------------------------
\* The health thread finds a symbol in unrecovered_gaps and rebuilds its book
\* from a snapshot, which may be older than the last frame.
LoadSnapshot(s) ==
  /\ s \in ws.unsynced /\ rebuilding[s] = NoSeq
  /\ \E p \in 0..published[s] :
       book' = [book EXCEPT ![s] = p] /\ rebuilding' = [rebuilding EXCEPT ![s] = p]
  /\ UNCHANGED <<ws, published, inHand, torn, wsBudget>>

\* resynchronize(symbol, position of the snapshot + 1)
Resynchronize(s) ==
  /\ rebuilding[s] # NoSeq
  /\ LET left == ws.unsynced \ {s}
     IN  ws' = [ws EXCEPT !.unsynced = left, !.seen[s] = rebuilding[s],
                          !.state = IF left = {} THEN "STREAMING" ELSE @]
  /\ rebuilding' = [rebuilding EXCEPT ![s] = NoSeq]
  /\ UNCHANGED <<published, inHand, book, torn, wsBudget>>

WsDone == wsBudget.frames = MaxFrames /\ UNCHANGED wsVars

WsNext ==
  \/ \E s \in Feeds :
       \/ Publish(s) \/ LoadSnapshot(s) \/ Resynchronize(s)
       \/ \E n \in 0..MaxSeqId : ProcessIncoming(s, n)
  \/ \E scheduled \in BOOLEAN : OnConnectionLost(scheduled)
  \/ OnConnectionEstablished \/ ApplyInHand \/ WsDone

WsSpec == WsInit /\ [][WsNext]_wsVars

-----------------------------------------------------------------------------
WsTypeOK ==
  /\ ws.state \in {"DISCONNECTED", "SUBSCRIBED", "RECOVERING_GAP", "STREAMING"}
  /\ ws.attempts \in 0..MaxDrops
  /\ ws.unsynced \subseteq Feeds
  /\ ws.seen \in [Feeds -> NoSeq..MaxSeqId] /\ book \in [Feeds -> NoSeq..MaxSeqId]

\* A book never has a hole or a repetition: what reaches it continues it, and
\* the watermark of a symbol that is not latched is where its book stands once
\* the reader has applied what it holds; through lost, repeated and reordered
\* frames, unproven fills and reconnects.
BookIsWhole ==
  /\ ~torn
  /\ \A s \in Feeds \ ws.unsynced :
       (\A i \in DOMAIN inHand : inHand[i].symbol # s) => book[s] = ws.seen[s]
=============================================================================
