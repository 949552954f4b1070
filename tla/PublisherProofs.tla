--------------------------- MODULE PublisherProofs ---------------------------
(***************************************************************************)
(* Proofs about module Publisher, for every set of messages and every      *)
(* limit of the buffer.                                                    *)
(***************************************************************************)
EXTENDS Publisher, TLAPS

----------------------------------------------------------------------------
(* The inductive invariant.                                                *)

Reached(e) == e \in arrived \/ e \in cut

\* A message that is not a ping, of e.
IsMessage(item, e) == item[1] = e /\ ~item[3]
\* The ping of the attempt that e is in.
IsPing(item, e) == item[1] = e /\ item[3] /\ item[2] = calls[e].attempt

\* Only calls that flush wait with a ping, and none waits without an answer.
Phases ==
  \A e \in Messages :
    /\ calls[e].pc = "flush" => e \in Events \cup Progress
    /\ calls[e].pc = "wait" => e \notin Casts

\* What the connection has is of attempts that were made; the ping of the
\* current one is there only after the flush has begun.
Past ==
  \A k \in 1..Len(outgoing) : \A e \in Messages :
    outgoing[k][1] = e =>
      /\ calls[e].pc # "idle" /\ outgoing[k][2] <= calls[e].attempt
      /\ outgoing[k][3] => e \in Events \cup Progress
      /\ IsPing(outgoing[k], e) => calls[e].pc \in {"wait", "done", "failed"}

\* Between publish and flush the message is on its way ...
Followed ==
  \A e \in Messages : calls[e].pc = "flush" =>
    Reached(e) \/ \E k \in 1..Len(outgoing) : IsMessage(outgoing[k], e)

\* ... and then ahead of the ping that is waited for.
Preceded ==
  \A e \in Messages : calls[e].pc = "wait" =>
    \A k \in 1..Len(outgoing) : IsPing(outgoing[k], e) =>
      Reached(e) \/ \E j \in 1..Len(outgoing) : j < k /\ IsMessage(outgoing[j], e)

PubInv ==
  PublisherTyped /\ Phases /\ Past /\ Followed /\ Preceded /\ DeliveredOrTold

----------------------------------------------------------------------------
(* Operators.                                                              *)

LEMMA NextAttempt ==
  ASSUME PublisherTyped, NEW e \in Messages
  PROVE  /\ AfterFailure(e) \in Call
         /\ \/ AfterFailure(e).pc = "failed" /\ AfterFailure(e).attempt = calls[e].attempt
            \/ AfterFailure(e).pc = "publish" /\ AfterFailure(e).attempt = calls[e].attempt + 1
<1>1. calls[e] \in Call
  BY DEF PublisherTyped
<1>2. Tries(e) \in 1..3
  BY DEF Tries, maxPublishRetries
<1>3. CASE calls[e].attempt < Tries(e)
  <2>1. AfterFailure(e) = [pc |-> "publish", attempt |-> calls[e].attempt + 1]
    BY <1>3 DEF AfterFailure
  <2> QED
    BY <1>1, <1>2, <1>3, <2>1 DEF Call, maxPublishRetries
<1>4. CASE ~(calls[e].attempt < Tries(e))
  <2>1. AfterFailure(e) = [calls[e] EXCEPT !.pc = "failed"]
    BY <1>4 DEF AfterFailure
  <2> QED
    BY <1>1, <2>1 DEF Call
<1> QED
  BY <1>3, <1>4

LEMMA Appended ==
  ASSUME PublisherTyped, NEW e \in Messages, NEW ping \in BOOLEAN,
         outgoing' = Append(outgoing, <<e, calls[e].attempt, ping>>)
  PROVE  /\ outgoing' \in Seq(Item) /\ Len(outgoing) \in Nat
         /\ Len(outgoing') = Len(outgoing) + 1
         /\ \A k \in 1..Len(outgoing) : outgoing'[k] = outgoing[k]
         /\ outgoing'[Len(outgoing) + 1] = <<e, calls[e].attempt, ping>>
<1>1. <<e, calls[e].attempt, ping>> \in Item
  BY DEF PublisherTyped, Call, Item
<1> QED
  BY <1>1 DEF PublisherTyped

LEMMA Moved ==
  ASSUME PublisherTyped, NEW e \in Messages, NEW c \in Call,
         calls' = [calls EXCEPT ![e] = c]
  PROVE  /\ calls' \in [Messages -> Call] /\ calls'[e] = c
         /\ \A f \in Messages : f # e => calls'[f] = calls[f]
BY DEF PublisherTyped

----------------------------------------------------------------------------
(* Type correctness.                                                       *)

LEMMA PublisherInitTyped == ASSUME PublisherInit PROVE PublisherTyped
BY DEF PublisherInit, PublisherTyped, Call, maxPublishRetries

LEMMA WithPc ==
  ASSUME PublisherTyped, NEW e \in Messages,
         NEW pc \in {"idle", "publish", "flush", "wait", "done", "failed"}, CallAt(e, pc)
  PROVE  \E c \in Call : /\ c.pc = pc /\ c.attempt = calls[e].attempt
                         /\ calls' = [calls EXCEPT ![e] = c]
<1> DEFINE c == [calls[e] EXCEPT !.pc = pc]
<1>1. c \in Call /\ c.pc = pc /\ c.attempt = calls[e].attempt
  BY DEF PublisherTyped, Call
<1>2. calls' = [calls EXCEPT ![e] = c]
  BY DEF CallAt
<1> QED
  BY <1>1, <1>2

LEMMA ConnTyped ==
  ASSUME PublisherTyped, Lose, FailFlushes \/ UNCHANGED calls,
         conn' \in {"up", "down", "closed"}, UNCHANGED arrived
  PROVE  PublisherTyped'
<1>1. calls' \in [Messages -> Call]
  BY NextAttempt DEF FailFlushes, PublisherTyped
<1>2. outgoing' \in Seq(Item) /\ cut' \subseteq Messages
  BY DEF Lose, PublisherTyped
<1> QED
  BY <1>1, <1>2 DEF PublisherTyped

LEMMA CallTyped ==
  ASSUME PublisherTyped, NEW e \in Messages,
         Begin(e) \/ Publish(e) \/ Flush(e) \/ Timeout(e) \/ Answer(e)
  PROVE  PublisherTyped'
<1>1. PICK c \in Call : calls' = [calls EXCEPT ![e] = c]
  <2>1. \/ \E pc \in {"publish", "flush", "wait", "done", "failed"} : CallAt(e, pc)
        \/ calls' = [calls EXCEPT ![e] = AfterFailure(e)]
    BY DEF Begin, Publish, Flush, Timeout, Answer
  <2> QED
    BY <2>1, WithPc, NextAttempt
<1>2. calls' \in [Messages -> Call]
  BY <1>1, Moved
<1>3. outgoing' \in Seq(Item)
  <2>1. \/ UNCHANGED outgoing
        \/ \E ping \in BOOLEAN : outgoing' = Append(outgoing, <<e, calls[e].attempt, ping>>)
    BY DEF Begin, Publish, Flush, Timeout, Answer
  <2>2. CASE UNCHANGED outgoing
    BY <2>2 DEF PublisherTyped
  <2> QED
    BY <2>1, <2>2, Appended
<1>4. UNCHANGED <<conn, arrived>> /\ cut' \subseteq Messages
  BY DEF Begin, Publish, Flush, Timeout, Answer, PublisherTyped
<1> QED
  BY <1>2, <1>3, <1>4 DEF PublisherTyped

LEMMA FirstItem ==
  ASSUME PublisherTyped, outgoing # <<>>
  PROVE  /\ Head(outgoing) = outgoing[1] /\ outgoing[1] \in Item
         /\ Tail(outgoing) \in Seq(Item) /\ Len(outgoing) \in Nat \ {0}
         /\ Len(Tail(outgoing)) = Len(outgoing) - 1
         /\ \A k \in 1..Len(outgoing) - 1 : Tail(outgoing)[k] = outgoing[k + 1]
BY DEF PublisherTyped

LEMMA TransmitTyped == ASSUME PublisherTyped, Transmit PROVE PublisherTyped'
<1> DEFINE e == Head(outgoing)[1]
<1>1. e \in Messages /\ outgoing' \in Seq(Item)
  BY FirstItem DEF Transmit, Item
<1>2. UNCHANGED calls \/ CallAt(e, "done")
  BY DEF Transmit
<1>3. calls' \in [Messages -> Call]
  BY <1>1, <1>2, WithPc, Moved DEF PublisherTyped
<1>4. arrived' \subseteq Messages /\ UNCHANGED <<conn, cut>>
  BY <1>1 DEF Transmit, PublisherTyped
<1> QED
  BY <1>1, <1>3, <1>4 DEF PublisherTyped

LEMMA PublisherNextTyped ==
  ASSUME PublisherTyped, [PublisherNext]_pubVars PROVE PublisherTyped'
<1>1. CASE UNCHANGED pubVars
  BY <1>1 DEF pubVars, PublisherTyped
<1>2. ASSUME NEW e \in Messages,
             Begin(e) \/ Publish(e) \/ Flush(e) \/ Timeout(e) \/ Answer(e)
      PROVE  PublisherTyped'
  BY <1>2, CallTyped
<1>3. CASE Transmit
  BY <1>3, TransmitTyped
<1>4. CASE Disconnect \/ ReconnectFails \/ CloseConn
  BY <1>4, ConnTyped DEF Disconnect, ReconnectFails, CloseConn, PublisherTyped
<1>5. CASE Reconnect
  BY <1>5 DEF Reconnect, PublisherTyped
<1> QED
  BY <1>1, <1>2, <1>3, <1>4, <1>5 DEF PublisherNext

----------------------------------------------------------------------------
(* The steps of a call.                                                    *)

LEMMA PublisherInitKeeps == ASSUME PublisherInit PROVE PubInv
BY PublisherInitTyped
   DEF PublisherInit, PubInv, Phases, Past, Followed, Preceded, DeliveredOrTold

\* A call that only changes its own record, and does not wait then.
LEMMA OneMoves ==
  ASSUME PubInv, PublisherTyped', NEW e \in Messages, NEW c \in Call,
         calls' = [calls EXCEPT ![e] = c], UNCHANGED <<outgoing, arrived, cut>>,
         c.pc \in {"publish", "failed", "done"},
         \/ c.attempt = calls[e].attempt + 1
         \/ /\ c.attempt = calls[e].attempt
            /\ c.pc = "publish" => calls[e].pc = "idle",
         c.pc = "done" => e \in Casts \/ Reached(e)
  PROVE  PubInv'
<1> USE DEF PubInv
<1>1. calls'[e] = c /\ \A f \in Messages : f # e => calls'[f] = calls[f]
  BY Moved
<1>2. Phases' /\ Followed' /\ DeliveredOrTold'
  BY <1>1 DEF Phases, Followed, DeliveredOrTold, Reached, IsMessage
<1>3. Past'
  <2> SUFFICES ASSUME NEW k \in 1..Len(outgoing), NEW f \in Messages, outgoing[k][1] = f
               PROVE  /\ calls'[f].pc # "idle" /\ outgoing[k][2] <= calls'[f].attempt
                      /\ outgoing[k][3] => f \in Events \cup Progress
                      /\ IsPing(outgoing[k], f)' => calls'[f].pc \in {"wait", "done", "failed"}
    BY DEF Past
  <2>1. /\ calls[f].pc # "idle" /\ outgoing[k][2] <= calls[f].attempt
        /\ outgoing[k][3] => f \in Events \cup Progress
        /\ IsPing(outgoing[k], f) => calls[f].pc \in {"wait", "done", "failed"}
    BY DEF Past
  <2>2. calls[f].attempt \in Nat /\ outgoing[k][2] \in Nat
    BY DEF PublisherTyped, Call, Item, maxPublishRetries
  <2>3. CASE f # e
    BY <1>1, <2>1, <2>3 DEF IsPing
  <2>4. CASE f = e
    BY <1>1, <2>1, <2>2, <2>4 DEF IsPing
  <2> QED
    BY <2>3, <2>4
<1>4. Preceded'
  BY <1>1 DEF Preceded, Reached, IsPing, IsMessage
<1> QED
  BY <1>2, <1>3, <1>4

LEMMA BeginKeeps ==
  ASSUME PubInv, PublisherTyped', NEW e \in Messages, Begin(e)
  PROVE  PubInv'
<1>1. PICK pc \in {"publish", "failed"} : CallAt(e, pc)
  BY DEF Begin
<1>2. PICK c \in Call : /\ c.pc = pc /\ c.attempt = calls[e].attempt
                        /\ calls' = [calls EXCEPT ![e] = c]
  BY <1>1, WithPc DEF PubInv
<1> QED
  BY <1>2, OneMoves DEF Begin

\* An attempt that ends without an answer.
LEMMA FailureKeeps ==
  ASSUME PubInv, PublisherTyped', NEW e \in Messages,
         calls' = [calls EXCEPT ![e] = AfterFailure(e)],
         UNCHANGED <<outgoing, arrived, cut>>
  PROVE  PubInv'
BY NextAttempt, OneMoves DEF PubInv

LEMMA AnswerKeeps ==
  ASSUME PubInv, PublisherTyped', NEW e \in Messages, Answer(e)
  PROVE  PubInv'
<1>1. PICK pc \in {"done", "failed"} : CallAt(e, pc)
  BY DEF Answer
<1>2. PICK c \in Call : /\ c.pc = pc /\ c.attempt = calls[e].attempt
                        /\ calls' = [calls EXCEPT ![e] = c]
  BY <1>1, WithPc DEF PubInv
<1> QED
  BY <1>2, OneMoves DEF Answer, Reached

\* A call whose message or ping the connection takes.
LEMMA TakenKeeps ==
  ASSUME MessageAssumption, PubInv, PublisherTyped',
         NEW e \in Messages, NEW ping \in BOOLEAN, NEW pc \in {"flush", "wait", "done"}, CallAt(e, pc),
         outgoing' = Append(outgoing, <<e, calls[e].attempt, ping>>),
         UNCHANGED arrived,
         calls[e].pc = IF ping THEN "flush" ELSE "publish",
         cut' = IF ping THEN cut ELSE cut \ {e},
         pc = IF ping \/ e \in Asks THEN "wait" ELSE IF e \in Casts THEN "done" ELSE "flush"
  PROVE  PubInv'
<1> USE DEF PubInv
<1> DEFINE n == Len(outgoing)
<1>1. PICK c \in Call : /\ c.pc = pc /\ c.attempt = calls[e].attempt
                        /\ calls' = [calls EXCEPT ![e] = c]
  BY WithPc
<1>2. calls'[e] = c /\ \A f \in Messages : f # e => calls'[f] = calls[f]
  BY <1>1, Moved
<1>3. /\ n \in Nat /\ Len(outgoing') = n + 1
      /\ \A k \in 1..n : outgoing'[k] = outgoing[k]
      /\ outgoing'[n + 1] = <<e, calls[e].attempt, ping>>
  BY Appended
<1>4. calls[e].attempt \in Nat
  BY DEF PublisherTyped, Call, maxPublishRetries
<1>5. \A f \in Messages : f # e => (Reached(f)' <=> Reached(f))
  BY DEF Reached
<1>6. Phases'
  BY <1>1, <1>2 DEF Phases, MessageAssumption, Messages
<1>7. Past'
  <2> SUFFICES ASSUME NEW k \in 1..n + 1, NEW f \in Messages, outgoing'[k][1] = f
               PROVE  /\ calls'[f].pc # "idle" /\ outgoing'[k][2] <= calls'[f].attempt
                      /\ outgoing'[k][3] => f \in Events \cup Progress
                      /\ IsPing(outgoing[k], f)' => calls'[f].pc \in {"wait", "done", "failed"}
    BY <1>3 DEF Past
  <2>1. CASE k = n + 1
    BY <1>1, <1>2, <1>3, <1>4, <2>1 DEF Phases, IsPing
  <2>2. CASE k # n + 1
    <3>1. k \in 1..n /\ outgoing'[k] = outgoing[k]
      BY <1>3, <2>2
    <3> QED
      BY <1>1, <1>2, <3>1 DEF Past, IsPing
  <2> QED
    BY <2>1, <2>2
<1>8. Followed'
  <2> SUFFICES ASSUME NEW f \in Messages, calls'[f].pc = "flush"
               PROVE  Reached(f)' \/ \E k \in 1..n + 1 : IsMessage(outgoing'[k], f)
    BY <1>3 DEF Followed, IsMessage
  <2>1. CASE f = e
    <3>1. ~ping
      BY <1>1, <1>2, <2>1
    <3> QED
      BY <1>3, <2>1, <3>1 DEF IsMessage
  <2>2. CASE f # e
    BY <1>2, <1>3, <1>5, <2>2 DEF Followed, IsMessage
  <2> QED
    BY <2>1, <2>2
<1>9. Preceded'
  <2> SUFFICES ASSUME NEW f \in Messages, calls'[f].pc = "wait",
                      NEW k \in 1..n + 1, IsPing(outgoing[k], f)'
               PROVE  \/ Reached(f)'
                      \/ \E j \in 1..n + 1 : j < k /\ IsMessage(outgoing'[j], f)
    BY <1>3 DEF Preceded, IsMessage
  <2>1. CASE k \in 1..n /\ f # e
    <3>1. IsPing(outgoing[k], f) /\ calls[f].pc = "wait"
      BY <1>2, <1>3, <2>1 DEF IsPing
    <3>2. Reached(f) \/ \E j \in 1..n : j < k /\ IsMessage(outgoing[j], f)
      BY <2>1, <3>1 DEF Preceded
    <3> QED
      BY <1>3, <1>5, <2>1, <3>2 DEF IsMessage
  <2>2. CASE k \in 1..n /\ f = e
    BY <1>1, <1>2, <1>3, <2>2 DEF Past, IsPing
  <2>3. CASE k = n + 1
    <3>1. ping /\ f = e
      BY <1>3, <2>3 DEF IsPing
    <3>2. Reached(e) \/ \E j \in 1..n : IsMessage(outgoing[j], e)
      BY <3>1 DEF Followed
    <3> QED
      BY <1>3, <2>3, <3>1, <3>2 DEF IsMessage, Reached
  <2> QED
    BY <1>3, <2>1, <2>2, <2>3
<1>10. DeliveredOrTold'
  BY <1>1, <1>2, <1>5 DEF DeliveredOrTold, Reached
<1> QED
  BY <1>6, <1>7, <1>8, <1>9, <1>10

LEMMA PublishKeeps ==
  ASSUME MessageAssumption, PubInv, PublisherTyped', NEW e \in Messages, Publish(e)
  PROVE  PubInv'
<1>1. CASE Accepted
  BY <1>1, TakenKeeps DEF Publish
<1>2. CASE ~Accepted
  BY <1>2, FailureKeeps DEF Publish
<1> QED
  BY <1>1, <1>2

LEMMA FlushKeeps ==
  ASSUME MessageAssumption, PubInv, PublisherTyped', NEW e \in Messages, Flush(e)
  PROVE  PubInv'
<1>1. CASE conn # "closed"
  BY <1>1, TakenKeeps DEF Flush
<1>2. CASE conn = "closed"
  BY <1>2, FailureKeeps DEF Flush
<1> QED
  BY <1>1, <1>2

----------------------------------------------------------------------------
(* The steps of the connection.                                            *)

LEMMA TransmitKeeps ==
  ASSUME PubInv, PublisherTyped', Transmit
  PROVE  PubInv'
<1> USE DEF PubInv
<1> DEFINE n == Len(outgoing)
           e == outgoing[1][1]
           answers == calls[e].pc = "wait" /\ IsPing(outgoing[1], e)
<1>1. /\ outgoing[1] \in Item /\ n \in Nat \ {0} /\ Len(outgoing') = n - 1
      /\ \A k \in 1..n - 1 : outgoing'[k] = outgoing[k + 1]
      /\ Head(outgoing) = outgoing[1]
  BY FirstItem DEF Transmit
<1>2. e \in Messages
  BY <1>1 DEF Item
<1>3. /\ UNCHANGED cut /\ arrived \subseteq arrived'
      /\ IsMessage(outgoing[1], e) => e \in arrived'
      /\ IF answers THEN CallAt(e, "done") ELSE UNCHANGED calls
  BY <1>1 DEF Transmit, IsPing, IsMessage
<1>4. \A f \in Messages : Reached(f) => Reached(f)'
  BY <1>3 DEF Reached
<1>5. \A f \in Messages : /\ calls'[f].attempt = calls[f].attempt
                          /\ calls'[f] = calls[f] \/ (f = e /\ answers /\ calls'[f].pc = "done")
  <2>1. CASE answers
    <3>1. PICK c \in Call : /\ c.pc = "done" /\ c.attempt = calls[e].attempt
                            /\ calls' = [calls EXCEPT ![e] = c]
      BY <1>2, <1>3, <2>1, WithPc
    <3> QED
      BY <1>2, <2>1, <3>1, Moved
  <2>2. CASE ~answers
    BY <1>3, <2>2
  <2> QED
    BY <2>1, <2>2
<1>6. Phases'
  BY <1>5 DEF Phases
<1>7. Past'
  <2> SUFFICES ASSUME NEW k \in 1..n - 1, NEW f \in Messages, outgoing'[k][1] = f
               PROVE  /\ calls'[f].pc # "idle" /\ outgoing'[k][2] <= calls'[f].attempt
                      /\ outgoing'[k][3] => f \in Events \cup Progress
                      /\ IsPing(outgoing[k], f)' => calls'[f].pc \in {"wait", "done", "failed"}
    BY <1>1 DEF Past
  <2>1. k + 1 \in 1..n /\ outgoing'[k] = outgoing[k + 1]
    BY <1>1
  <2> QED
    BY <1>5, <2>1 DEF Past, IsPing
<1>8. Followed'
  <2> SUFFICES ASSUME NEW f \in Messages, calls'[f].pc = "flush"
               PROVE  Reached(f)' \/ \E k \in 1..n - 1 : IsMessage(outgoing'[k], f)
    BY <1>1 DEF Followed, IsMessage
  <2>1. Reached(f) \/ \E k \in 1..n : IsMessage(outgoing[k], f)
    BY <1>5 DEF Followed
  <2>2. ASSUME NEW k \in 1..n, IsMessage(outgoing[k], f)
        PROVE  Reached(f)' \/ \E j \in 1..n - 1 : IsMessage(outgoing'[j], f)
    <3>1. CASE k = 1
      BY <1>3, <2>2, <3>1 DEF IsMessage, Reached
    <3>2. CASE k # 1
      <4>1. k - 1 \in 1..n - 1 /\ outgoing'[k - 1] = outgoing[k]
        BY <1>1, <3>2
      <4> QED
        BY <2>2, <4>1
    <3> QED
      BY <3>1, <3>2
  <2> QED
    BY <1>4, <2>1, <2>2
<1>9. Preceded'
  <2> SUFFICES ASSUME NEW f \in Messages, calls'[f].pc = "wait",
                      NEW k \in 1..n - 1, IsPing(outgoing[k], f)'
               PROVE  \/ Reached(f)'
                      \/ \E j \in 1..n - 1 : j < k /\ IsMessage(outgoing'[j], f)
    BY <1>1 DEF Preceded, IsMessage
  <2>1. k + 1 \in 1..n /\ outgoing'[k] = outgoing[k + 1]
    BY <1>1
  <2>2. IsPing(outgoing[k + 1], f) /\ calls[f].pc = "wait"
    BY <1>5, <2>1 DEF IsPing
  <2>3. Reached(f) \/ \E j \in 1..n : j < k + 1 /\ IsMessage(outgoing[j], f)
    BY <2>1, <2>2 DEF Preceded
  <2>4. ASSUME NEW j \in 1..n, j < k + 1, IsMessage(outgoing[j], f)
        PROVE  Reached(f)' \/ \E i \in 1..n - 1 : i < k /\ IsMessage(outgoing'[i], f)
    <3>1. CASE j = 1
      BY <1>3, <2>4, <3>1 DEF IsMessage, Reached
    <3>2. CASE j # 1
      <4>1. j - 1 \in 1..n - 1 /\ j - 1 < k /\ outgoing'[j - 1] = outgoing[j]
        BY <1>1, <2>4, <3>2
      <4> QED
        BY <2>4, <4>1
    <3> QED
      BY <3>1, <3>2
  <2> QED
    BY <1>4, <2>3, <2>4
<1>10. answers => Reached(e)
  <2> SUFFICES ASSUME answers PROVE Reached(e)
    OBVIOUS
  <2>1. Reached(e) \/ \E j \in 1..n : j < 1 /\ IsMessage(outgoing[j], e)
    BY <1>1, <1>2 DEF Preceded
  <2> QED
    BY <1>1, <2>1
<1>11. DeliveredOrTold'
  <2> SUFFICES ASSUME NEW f \in Messages \ Casts, calls'[f].pc = "done"
               PROVE  Reached(f)'
    BY DEF DeliveredOrTold, Reached
  <2>1. Reached(f)
    BY <1>5, <1>10 DEF DeliveredOrTold, Reached
  <2> QED
    BY <1>4, <2>1
<1> QED
  BY <1>6, <1>7, <1>8, <1>9, <1>11

\* An outage, whether the calls that flush are told or not.
LEMMA LoseKeeps ==
  ASSUME PubInv, PublisherTyped', Lose, FailFlushes \/ UNCHANGED calls, UNCHANGED arrived
  PROVE  PubInv'
<1> USE DEF PubInv
<1>1. Len(outgoing') = 0
  BY DEF Lose
<1>2. \A f \in Messages : Reached(f) => Reached(f)'
  BY DEF Reached, Lose
<1>3. \A f \in Messages :
        calls'[f] = calls[f] \/ calls'[f].pc \in {"publish", "failed"}
  BY NextAttempt DEF FailFlushes
<1>4. Phases' /\ DeliveredOrTold'
  BY <1>2, <1>3 DEF Phases, DeliveredOrTold, Reached
<1>5. Past' /\ Preceded'
  BY <1>1 DEF Past, Preceded
<1>6. Followed'
  BY <1>3 DEF Followed, Lose, Reached
<1> QED
  BY <1>4, <1>5, <1>6

LEMMA PublisherNextKeeps ==
  ASSUME MessageAssumption, PubInv, [PublisherNext]_pubVars
  PROVE  PubInv'
<1>1. PublisherTyped'
  BY PublisherNextTyped DEF PubInv
<1>2. CASE UNCHANGED <<outgoing, calls, arrived, cut>>
  BY <1>1, <1>2 DEF PubInv, Phases, Past, Followed, Preceded, DeliveredOrTold,
                    Reached, IsPing, IsMessage
<1>3. ASSUME NEW e \in Messages, Begin(e) \/ Publish(e) \/ Flush(e) \/ Timeout(e) \/ Answer(e)
      PROVE  PubInv'
  <2>1. CASE Timeout(e)
    BY <1>1, <2>1, FailureKeeps DEF Timeout
  <2> QED
    BY <1>1, <1>3, <2>1, BeginKeeps, PublishKeeps, FlushKeeps, AnswerKeeps
<1>4. CASE Transmit
  BY <1>1, <1>4, TransmitKeeps
<1>5. CASE Disconnect \/ ReconnectFails \/ CloseConn
  BY <1>1, <1>5, LoseKeeps DEF Disconnect, ReconnectFails, CloseConn
<1> QED
  BY <1>2, <1>3, <1>4, <1>5 DEF PublisherNext, pubVars, Reconnect

----------------------------------------------------------------------------
(* Delivery: every step is one of its steps or none.                       *)

LEMMA SameVerdicts ==
  ASSUME \A e \in Messages : calls'[e].pc = calls[e].pc
  PROVE  UNCHANGED verdicts
BY DEF verdicts, Verdict

\* One call gets another verdict, or keeps the one it has.
LEMMA Judged ==
  ASSUME PublisherTyped, NEW e \in Messages, NEW c \in Call,
         calls' = [calls EXCEPT ![e] = c]
  PROVE  /\ verdicts[e] = Verdict(e) /\ verdicts'[e] = Verdict(e)'
         /\ verdicts' = [verdicts EXCEPT ![e] = Verdict(e)']
         /\ Verdict(e)' = Verdict(e) => UNCHANGED verdicts
<1>1. \A f \in Messages : f # e => Verdict(f)' = Verdict(f)
  BY Moved DEF Verdict
<1> QED
  BY <1>1 DEF verdicts

\* An attempt that ends without an answer is an outage that one is told of, if
\* it was the last.
LEMMA FailureRefines ==
  ASSUME PublisherTyped, NEW e \in Messages,
         calls[e].pc \in {"publish", "flush", "wait"},
         calls' = [calls EXCEPT ![e] = AfterFailure(e)],
         UNCHANGED <<outgoing, arrived, cut>>
  PROVE  [Promise!Next]_(Promise!vars)
<1>1. /\ calls'[e] = AfterFailure(e) /\ AfterFailure(e) \in Call
      /\ AfterFailure(e).pc \in {"publish", "failed"}
      /\ \A f \in Messages : f # e => calls'[f] = calls[f]
  BY NextAttempt, Moved
<1>2. CASE AfterFailure(e).pc = "publish"
  <2>1. UNCHANGED verdicts
    BY <1>1, <1>2 DEF verdicts, Verdict
  <2> QED
    BY <2>1 DEF Promise!vars
<1>3. CASE AfterFailure(e).pc = "failed"
  <2>1. /\ verdicts[e] = "pending"
        /\ verdicts' = [m \in Messages |-> IF m \in {e} THEN "failed" ELSE verdicts[m]]
    BY <1>1, <1>3 DEF verdicts, Verdict
  <2>2. Promise!Outage({e}, {})
    BY <2>1 DEF Promise!Outage
  <2>3. {e} \in SUBSET Promise!Pending /\ {} \in SUBSET Promise!Pending
    BY <2>1 DEF Promise!Pending
  <2> QED
    BY <2>2, <2>3 DEF Promise!Next
<1> QED
  BY <1>1, <1>2, <1>3

LEMMA BeginRefines ==
  ASSUME PublisherTyped, NEW e \in Messages, Begin(e)
  PROVE  [Promise!Next]_(Promise!vars)
<1>1. PICK pc \in {"publish", "failed"} : CallAt(e, pc)
  BY DEF Begin
<1>2. PICK c \in Call : c.pc = pc /\ calls' = [calls EXCEPT ![e] = c]
  BY <1>1, WithPc
<1>3. Verdict(e) = "none" /\ Verdict(e)' \in {"pending", "failed"}
  BY <1>2, Moved DEF Begin, Verdict
<1>4. Promise!Begin(e)
  BY <1>2, <1>3, Judged DEF Begin, Promise!Begin, Promise!Judge
<1> QED
  BY <1>4 DEF Promise!Next

\* What the connection takes is sent again; without asking, that is the end.
LEMMA PublishRefines ==
  ASSUME MessageAssumption, PublisherTyped, NEW e \in Messages, Publish(e)
  PROVE  [Promise!Next]_(Promise!vars)
<1>1. CASE ~Accepted
  BY <1>1, FailureRefines DEF Publish
<1>2. CASE Accepted
  <2>1. PICK pc \in {"wait", "done", "flush"} :
          CallAt(e, pc) /\ (pc = "done" => e \in Casts)
    BY <1>2 DEF Publish
  <2>2. PICK c \in Call : c.pc = pc /\ calls' = [calls EXCEPT ![e] = c]
    BY <2>1, WithPc
  <2>3. Verdict(e) = "pending" /\ Verdict(e)' = IF pc = "done" THEN "ok" ELSE "pending"
    BY <2>1, <2>2, Moved DEF Publish, Verdict
  <2>4. cut' = cut \ {e} /\ UNCHANGED arrived
    BY <1>2 DEF Publish
  <2>5. Promise!Retry(e)
    BY <2>1, <2>2, <2>3, <2>4, Judged DEF Promise!Retry, Promise!Judge, Promise!Pending
  <2> QED
    BY <2>5 DEF Promise!Next
<1> QED
  BY <1>1, <1>2

LEMMA FlushRefines ==
  ASSUME PublisherTyped, NEW e \in Messages, Flush(e)
  PROVE  [Promise!Next]_(Promise!vars)
<1>1. CASE conn = "closed"
  BY <1>1, FailureRefines DEF Flush
<1>2. CASE conn # "closed"
  <2>1. PICK c \in Call : c.pc = "wait" /\ calls' = [calls EXCEPT ![e] = c]
    BY <1>2, WithPc DEF Flush
  <2>2. Verdict(e)' = Verdict(e)
    BY <2>1, Moved DEF Flush, Verdict
  <2> QED
    BY <2>1, <2>2, Judged DEF Flush, Promise!vars
<1> QED
  BY <1>1, <1>2

\* A verdict that is good, of a message that has arrived or is excused.
LEMMA DoneRefines ==
  ASSUME PublisherTyped, NEW e \in Messages, calls[e].pc = "wait", CallAt(e, "done"),
         Reached(e), UNCHANGED <<arrived, cut>>
  PROVE  [Promise!Next]_(Promise!vars)
<1>1. PICK c \in Call : c.pc = "done" /\ calls' = [calls EXCEPT ![e] = c]
  BY WithPc
<1>2. Verdict(e) = "pending" /\ Verdict(e)' = "ok"
  BY <1>1, Moved DEF Verdict
<1>3. Promise!Confirm(e)
  BY <1>1, <1>2, Judged DEF Reached, Promise!Confirm, Promise!Judge, Promise!Pending
<1> QED
  BY <1>3 DEF Promise!Next

LEMMA TransmitRefines ==
  ASSUME PubInv, Transmit
  PROVE  [Promise!Next]_(Promise!vars)
<1> USE DEF PubInv
<1> DEFINE e == outgoing[1][1]
           answers == calls[e].pc = "wait" /\ IsPing(outgoing[1], e)
<1>1. /\ outgoing[1] \in Item /\ Len(outgoing) \in Nat \ {0}
      /\ Head(outgoing) = outgoing[1] /\ e \in Messages
  BY FirstItem DEF Transmit, Item
<1>2. CASE ~outgoing[1][3]
  <2>1. arrived' = arrived \cup {e} /\ UNCHANGED <<calls, cut>>
    BY <1>1, <1>2 DEF Transmit
  <2>2. calls[e].pc # "idle"
    BY <1>1 DEF Past
  <2>3. verdicts[e] # "none" /\ UNCHANGED verdicts
    BY <1>1, <2>1, <2>2, SameVerdicts DEF verdicts, Verdict
  <2>4. Promise!Arrive(e)
    BY <2>1, <2>3 DEF Promise!Arrive
  <2> QED
    BY <1>1, <2>4 DEF Promise!Next
<1>3. CASE answers
  <2>1. Reached(e) \/ \E j \in 1..Len(outgoing) : j < 1 /\ IsMessage(outgoing[j], e)
    BY <1>1, <1>3 DEF Preceded
  <2>2. CallAt(e, "done") /\ UNCHANGED <<arrived, cut>>
    BY <1>1, <1>3 DEF Transmit, IsPing
  <2> QED
    BY <1>1, <1>3, <2>1, <2>2, DoneRefines
<1>4. CASE outgoing[1][3] /\ ~answers
  <2>1. UNCHANGED <<calls, arrived, cut>>
    BY <1>1, <1>4 DEF Transmit, IsPing
  <2> QED
    BY <2>1, SameVerdicts DEF Promise!vars
<1> QED
  BY <1>1, <1>2, <1>3, <1>4 DEF Item

LEMMA AnswerRefines ==
  ASSUME PubInv, NEW e \in Messages, Answer(e)
  PROVE  [Promise!Next]_(Promise!vars)
<1> USE DEF PubInv
<1>1. CASE CallAt(e, "done")
  BY <1>1, DoneRefines DEF Answer, Reached
<1>2. CASE CallAt(e, "failed")
  <2>1. PICK c \in Call : c.pc = "failed" /\ calls' = [calls EXCEPT ![e] = c]
    BY <1>2, WithPc
  <2>2. /\ verdicts[e] = "pending"
        /\ verdicts' = [m \in Messages |-> IF m \in {e} THEN "failed" ELSE verdicts[m]]
    BY <2>1, Moved DEF Answer, verdicts, Verdict
  <2>3. Promise!Outage({e}, {})
    BY <2>2 DEF Answer, Promise!Outage
  <2>4. {e} \in SUBSET Promise!Pending /\ {} \in SUBSET Promise!Pending
    BY <2>2 DEF Promise!Pending
  <2> QED
    BY <2>3, <2>4 DEF Promise!Next
<1> QED
  BY <1>1, <1>2 DEF Answer

LEMMA LoseRefines ==
  ASSUME PublisherTyped, Lose, FailFlushes \/ UNCHANGED calls, UNCHANGED arrived
  PROVE  [Promise!Next]_(Promise!vars)
<1> DEFINE told == {m \in Messages : calls[m].pc = "wait" /\ calls'[m].pc = "failed"}
           excuse == {m \in Messages : calls[m].pc = "flush"}
<1>1. told \in SUBSET Promise!Pending /\ excuse \in SUBSET Promise!Pending
  BY DEF Promise!Pending, verdicts, Verdict
<1>2. ASSUME NEW m \in Messages
      PROVE  Verdict(m)' = IF m \in told THEN "failed" ELSE Verdict(m)
  <2>1. \/ calls'[m] = calls[m]
        \/ calls[m].pc = "wait" /\ calls'[m].pc \in {"publish", "failed"}
    BY NextAttempt DEF FailFlushes
  <2> QED
    BY <2>1 DEF Verdict
<1>3. verdicts' = [m \in Messages |-> IF m \in told THEN "failed" ELSE verdicts[m]]
  BY <1>2 DEF verdicts
<1>4. Promise!Outage(told, excuse)
  BY <1>3 DEF Lose, Promise!Outage
<1> QED
  BY <1>1, <1>4 DEF Promise!Next

LEMMA NextRefines ==
  ASSUME MessageAssumption, PubInv, [PublisherNext]_pubVars
  PROVE  [Promise!Next]_(Promise!vars)
<1> USE DEF PubInv
<1>1. CASE UNCHANGED <<calls, arrived, cut>>
  BY <1>1, SameVerdicts DEF Promise!vars
<1>2. ASSUME NEW e \in Messages, Begin(e) \/ Publish(e) \/ Flush(e) \/ Timeout(e) \/ Answer(e)
      PROVE  [Promise!Next]_(Promise!vars)
  <2>1. CASE Timeout(e)
    BY <2>1, FailureRefines DEF Timeout
  <2> QED
    BY <1>2, <2>1, BeginRefines, PublishRefines, FlushRefines, AnswerRefines
<1>3. CASE Transmit
  BY <1>3, TransmitRefines
<1>4. CASE Disconnect \/ ReconnectFails \/ CloseConn
  BY <1>4, LoseRefines DEF Disconnect, ReconnectFails, CloseConn
<1> QED
  BY <1>1, <1>2, <1>3, <1>4 DEF PublisherNext, pubVars, Reconnect

----------------------------------------------------------------------------
(* Theorems.                                                               *)

\* The connection and the calls always have the shape of their types: the
\* attempts of an event never pass maxPublishRetries (nats_publisher.go:273).
THEOREM CallsTyped == PublisherSpec => []PublisherTyped
<1>1. PublisherInit => PublisherTyped
  BY PublisherInitTyped
<1>2. PublisherTyped /\ [PublisherNext]_pubVars => PublisherTyped'
  BY PublisherNextTyped
<1> QED
  BY <1>1, <1>2, PTL DEF PublisherSpec

\* The inductive invariant of the publisher holds.
LEMMA PublisherInductive == ASSUME MessageAssumption PROVE PublisherSpec => []PubInv
<1>1. PublisherInit => PubInv
  BY PublisherInitKeeps
<1>2. PubInv /\ [PublisherNext]_pubVars => PubInv'
  BY PublisherNextKeeps
<1> QED
  BY <1>1, <1>2, PTL DEF PublisherSpec

\* Whatever is retried, timed out, lost or answered late, a publish that returns
\* without an error has reached the server, unless the connection broke between
\* its publish and its flush (nats_publisher.go:269-302, 923-927).
THEOREM PublishedIsDelivered ==
  ASSUME MessageAssumption PROVE PublisherSpec => []DeliveredOrTold
<1>1. PubInv => DeliveredOrTold
  BY DEF PubInv
<1> QED
  BY <1>1, PublisherInductive, PTL

\* The publisher, with its retries, its flushes and a connection that breaks,
\* implements the promise of Delivery (nats_publisher.go:219-302).
THEOREM PublisherKeepsPromise ==
  ASSUME MessageAssumption PROVE PublisherSpec => ImplementsDelivery
<1>1. PublisherInit => Promise!Init
  BY DEF PublisherInit, Promise!Init, verdicts, Verdict
<1>2. PubInv /\ [PublisherNext]_pubVars => [Promise!Next]_(Promise!vars)
  BY NextRefines
<1> QED
  BY <1>1, <1>2, PublisherInductive, PTL
     DEF PublisherSpec, ImplementsDelivery, Promise!Spec

=============================================================================
