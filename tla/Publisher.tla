----------------------------- MODULE Publisher -----------------------------
(***************************************************************************)
(* NATSPublisher (internal/infra/messaging/nats_publisher.go): messages of *)
(* goroutines over one connection.  A lifecycle event is published and     *)
(* flushed up to three times, a progress event once; CreateVPC publishes   *)
(* without a flush; a request waits five seconds for its answer.  The      *)
(* connection is that of the NATS client: it keeps what is published while *)
(* it is down, in a buffer with a limit, fails the flushes that wait when  *)
(* it breaks, and closes for good after its last attempt to reconnect.     *)
(***************************************************************************)
EXTENDS Naturals, Sequences

CONSTANTS
  Events,     \* PublishInstanceEvent
  Progress,   \* PublishProvisioningProgress
  Casts,      \* CreateVPC
  Asks,       \* requests
  Limit       \* the buffer of a connection that is down, in messages

Messages == Events \cup Progress \cup Casts \cup Asks

MessageAssumption ==
  /\ Limit \in Nat
  /\ Events \cap Progress = {} /\ Casts \cap Asks = {}
  /\ (Events \cup Progress) \cap (Casts \cup Asks) = {}

maxPublishRetries == 3

VARIABLES
  conn,       \* the connection
  outgoing,   \* what it has taken and the server has not: <<message, attempt,
              \* whether it is the ping of its flush>>
  calls,      \* the functions that publish
  arrived,    \* messages the server has
  cut         \* history: calls between whose last publish and its flush the
              \* connection lost what it had

pubVars == <<conn, outgoing, calls, arrived, cut>>

Item == Messages \X (1..maxPublishRetries) \X BOOLEAN
Call == [pc : {"idle", "publish", "flush", "wait", "done", "failed"},
         attempt : 1..maxPublishRetries]
Answers == [readable : BOOLEAN, error : BOOLEAN, value : BOOLEAN]

Tries(e) == IF e \in Events THEN maxPublishRetries ELSE 1
Returned(e) == calls[e].pc \in {"done", "failed"}

PublisherInit ==
  /\ conn = "up" /\ outgoing = <<>>
  /\ calls = [e \in Messages |-> [pc |-> "idle", attempt |-> 1]]
  /\ arrived = {} /\ cut = {}

CallAt(e, pc) == calls' = [calls EXCEPT ![e].pc = pc]
\* Fault: one attempt too many.
AfterFailureOnceMore(e) ==
  IF calls[e].attempt <= Tries(e) THEN [pc |-> "publish", attempt |-> calls[e].attempt + 1]
                                  ELSE [calls[e] EXCEPT !.pc = "failed"]

\* Fault: the error of the last attempt is not returned.
AfterFailureSilent(e) ==
  IF calls[e].attempt < Tries(e) THEN [pc |-> "publish", attempt |-> calls[e].attempt + 1]
                                 ELSE [calls[e] EXCEPT !.pc = "done"]

\* The next attempt, or the end of the last.
AfterFailure(e) ==
  IF calls[e].attempt < Tries(e) THEN [pc |-> "publish", attempt |-> calls[e].attempt + 1]
                                 ELSE [calls[e] EXCEPT !.pc = "failed"]

----------------------------------------------------------------------------
(* The functions that publish.                                             *)

\* An INSTANCE_STARTED without an address is refused; marshalling may fail.
Begin(e) ==
  /\ calls[e].pc = "idle"
  /\ \E pc \in {"publish", "failed"} : CallAt(e, pc)
  /\ UNCHANGED <<conn, outgoing, arrived, cut>>

Accepted == conn = "up" \/ (conn = "down" /\ Len(outgoing) < Limit)

\* Fault: a publish that the connection took counts as delivered.
PublishOnly(e) ==
  /\ calls[e].pc = "publish" /\ UNCHANGED <<conn, arrived>>
  /\ IF Accepted
     THEN /\ outgoing' = Append(outgoing, <<e, calls[e].attempt, FALSE>>)
          /\ CallAt(e, "done") /\ cut' = cut \ {e}
     ELSE /\ calls' = [calls EXCEPT ![e] = AfterFailure(e)]
          /\ UNCHANGED <<outgoing, cut>>

\* nc.Publish, or what nc.Request publishes.
Publish(e) ==
  /\ calls[e].pc = "publish" /\ UNCHANGED <<conn, arrived>>
  /\ IF Accepted
     THEN /\ outgoing' = Append(outgoing, <<e, calls[e].attempt, FALSE>>)
          /\ CallAt(e, IF e \in Asks THEN "wait" ELSE IF e \in Casts THEN "done" ELSE "flush")
          /\ cut' = cut \ {e}
     ELSE /\ calls' = [calls EXCEPT ![e] = AfterFailure(e)]
          /\ UNCHANGED <<outgoing, cut>>

\* nc.Flush sends a ping and waits.
Flush(e) ==
  /\ calls[e].pc = "flush" /\ UNCHANGED <<conn, arrived, cut>>
  /\ IF conn # "closed"
     THEN outgoing' = Append(outgoing, <<e, calls[e].attempt, TRUE>>) /\ CallAt(e, "wait")
     ELSE calls' = [calls EXCEPT ![e] = AfterFailure(e)] /\ UNCHANGED outgoing

\* Fault: a flush that is not answered in time is not counted as an attempt.
TimeoutUncounted(e) ==
  /\ calls[e].pc = "wait"
  /\ CallAt(e, "publish")
  /\ UNCHANGED <<conn, outgoing, arrived, cut>>

\* Ten seconds of a flush, five of a request.
Timeout(e) ==
  /\ calls[e].pc = "wait"
  /\ calls' = [calls EXCEPT ![e] = AfterFailure(e)]
  /\ UNCHANGED <<conn, outgoing, arrived, cut>>

\* What a request makes of its answer: error fields that are not decoded and
\* lists that are empty pass.
RequestInstanceToken(r) == r.readable /\ ~r.error /\ r.value
FetchAgentPresignedURL(r) == r.readable /\ r.value
PublishDownloadTemplateURL(r) == r.readable /\ r.value
PublishCreateUploadURL(r) == r.readable /\ r.value
ListVPCs(r) == r.readable /\ ~r.error

\* The service that got the request answers it.
Answer(e) ==
  /\ e \in Asks /\ e \in arrived /\ conn = "up" /\ calls[e].pc = "wait"
  /\ \E r \in Answers :
       \E ok \in {RequestInstanceToken(r), FetchAgentPresignedURL(r), ListVPCs(r),
                  PublishDownloadTemplateURL(r), PublishCreateUploadURL(r)} :
         CallAt(e, IF ok THEN "done" ELSE "failed")
  /\ UNCHANGED <<conn, outgoing, arrived, cut>>

----------------------------------------------------------------------------
(* The connection.                                                         *)

\* The server takes the next item; it answers a ping, and that ends the flush
\* if it still waits.
Transmit ==
  LET e == Head(outgoing)[1]
      waits == calls[e].pc = "wait" /\ calls[e].attempt = Head(outgoing)[2] IN
  /\ conn = "up" /\ outgoing # <<>>
  /\ outgoing' = Tail(outgoing)
  /\ IF Head(outgoing)[3]
     THEN /\ IF waits THEN CallAt(e, "done") ELSE UNCHANGED calls
          /\ UNCHANGED arrived
     ELSE arrived' = arrived \cup {e} /\ UNCHANGED calls
  /\ UNCHANGED <<conn, cut>>

\* What the connection had is lost, with no word to who has published it.
Lose ==
  /\ outgoing' = <<>>
  /\ cut' = cut \cup {e \in Messages : calls[e].pc = "flush"}

FailFlushes ==
  calls' = [e \in Messages |->
    IF calls[e].pc = "wait" /\ e \notin Asks THEN AfterFailure(e) ELSE calls[e]]

Disconnect ==
  /\ conn = "up" /\ conn' = "down"
  /\ Lose /\ FailFlushes /\ UNCHANGED arrived

Reconnect ==
  /\ conn = "down" /\ conn' = "up"
  /\ UNCHANGED <<outgoing, calls, arrived, cut>>

\* The buffer is lost with a new connection that breaks at once; the flushes
\* in it wait on.
ReconnectFails ==
  /\ conn = "down" /\ Lose /\ UNCHANGED <<conn, calls, arrived>>

\* The last attempt to reconnect, or Close.
CloseConn ==
  /\ conn # "closed" /\ conn' = "closed"
  /\ Lose /\ FailFlushes /\ UNCHANGED arrived

PublisherNext ==
  \/ \E e \in Messages :
       Begin(e) \/ Publish(e) \/ Flush(e) \/ Timeout(e) \/ Answer(e)
  \/ Transmit \/ Disconnect \/ Reconnect \/ ReconnectFails \/ CloseConn

PublisherSpec == PublisherInit /\ [][PublisherNext]_pubVars

----------------------------------------------------------------------------
(* Properties.                                                             *)

\* The connection and the calls have the shape of their types.
PublisherTyped ==
  /\ conn \in {"up", "down", "closed"} /\ outgoing \in Seq(Item)
  /\ calls \in [Messages -> Call]
  /\ arrived \subseteq Messages /\ cut \subseteq Messages

\* A publish that returns without an error has reached the server, whatever
\* became of its earlier attempts, unless the connection lost it in the moment
\* between its publish and its flush; a request that does has been answered
\* (nats_publisher.go:269-302, 923-927).
DeliveredOrTold ==
  \A e \in Messages \ Casts :
    calls[e].pc = "done" => e \in arrived \/ e \in cut

\* The publisher keeps the promise of Delivery: a verdict is final, a good one
\* means that the message is there unless an outage excuses it, and nothing
\* arrives that was not published (nats_publisher.go:219-302).
Verdict(e) ==
  CASE calls[e].pc = "idle" -> "none"
    [] calls[e].pc = "done" -> "ok"
    [] calls[e].pc = "failed" -> "failed"
    [] OTHER -> "pending"
verdicts == [e \in Messages |-> Verdict(e)]
Promise == INSTANCE Delivery WITH
  Sent <- Messages, Unasked <- Casts, verdict <- verdicts, excused <- cut
ImplementsDelivery == Promise!Spec

\* Every call returns, whatever the connection does: the retries are bounded
\* and so is every wait (nats_publisher.go:273-301).
PublishReturns == \A e \in Messages : (calls[e].pc = "publish") ~> Returned(e)

----------------------------------------------------------------------------
\* A goroutine that can go on does; the timers of the client run out.
PublishFairness == \A e \in Messages : WF_pubVars(Publish(e) \/ Flush(e) \/ Timeout(e))
=============================================================================
