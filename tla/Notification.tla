---------------------------- MODULE Notification ----------------------------
(***************************************************************************)
(* The way of an event from the publisher of order-service, over the       *)
(* broker, to the mail that notification-service sends.  The broker is     *)
(* RabbitMQ (development, tests) or SQS (production): both publishers and  *)
(* both consumer loops are modelled, transport says which one runs.        *)
(*                                                                         *)
(* The brokers, SES and user-service appear as the answers they may give.  *)
(* RabbitMQ keeps a routed message through a restart (durable queue,       *)
(* persistent messages) and hands the messages of a lost connection out    *)
(* again; SQS does so when their visibility timeout ends.  SQS keeps a     *)
(* message for a day (MessageRetentionPeriod of the queue, 86400 s in      *)
(* docs/aws-managed-services.md), and may deliver one more than once.      *)
(***************************************************************************)
EXTENDS Integers, FiniteSets

CONSTANTS
    Messages,      \* events order-service hands to its publisher
    KindOf,        \* the type of each
    Prefetch,      \* messages a consumer holds at a time: 10 in the code
    MaxFaults,     \* bound: crashes, outages, expired holds and messages,
                   \* duplicates, failed sends
    Idle           \* the consumer is not processing a message

Kinds == {"order.created", "order.canceled", "order.status_updated"}

ASSUME NotificationAssumption ==
    /\ KindOf \in [Messages -> Kinds]
    /\ Prefetch \in Nat \ {0}
    /\ MaxFaults \in Nat
    /\ Idle \notin [msg: Messages, pc: {"lookup", "send", "done", "failed"}]

VARIABLES
    transport,   \* "rabbitmq" or "sqs"
    brokerUp,    \* the broker runs and can be reached
    bound,       \* the consumer has declared and bound its queue
    channel,     \* the publisher: down, open, closed (and it knows), silent (it does not)
    event,       \* of each message: none, emitted, lost, published, expired
    queue,       \* messages ready at the broker
    inflight,    \* messages handed out and not yet acknowledged
    settled,     \* messages acknowledged or deleted
    consumer,    \* notification-service: down, off (not connected), on, silent
    fetched,     \* messages it received and has not finished with
    work,        \* the message it processes, and how far it is
    \* history, read by the properties only:
    mails,       \* mails sent for each message
    unreachable, \* messages whose borrower was not found, or whose mail was refused
    faults

publisherVars == <<channel, event>>
brokerVars    == <<brokerUp, bound, queue, inflight, settled>>
consumerVars  == <<consumer, fetched, work>>
historyVars   == <<mails, unreachable>>
vars == <<transport, publisherVars, brokerVars, consumerVars, historyVars, faults>>

Rabbit == transport = "rabbitmq"
Sqs    == transport = "sqs"

At(pc) == work # Idle /\ work.pc = pc

\* The payload of order.status_updated has no user_id.
NamesBorrower(m) == KindOf[m] # "order.status_updated"

Fault == faults < MaxFaults /\ faults' = faults + 1

------------------------------------------------------------------------------
Init ==
    /\ transport \in {"rabbitmq", "sqs"}
    /\ brokerUp = TRUE
    /\ bound = Sqs
    /\ channel = "open"
    /\ event = [m \in Messages |-> "none"]
    /\ queue = {}
    /\ inflight = {}
    /\ settled = {}
    /\ consumer = "down"
    /\ fetched = {}
    /\ work = Idle
    /\ mails = [m \in Messages |-> 0]
    /\ unreachable = {}
    /\ faults = 0

------------------------------------------------------------------------------
(* order-service: the publisher *)

\* A handler starts the goroutine that publishes m.
Emit(m) ==
    /\ channel # "down"
    /\ event[m] = "none"
    /\ event' = [event EXCEPT ![m] = "emitted"]
    /\ UNCHANGED <<transport, channel, brokerVars, consumerVars, historyVars, faults>>

Enqueue(m) ==
    /\ event' = [event EXCEPT ![m] = "published"]
    /\ queue' = queue \cup {m}

\* The error is logged; nobody publishes the event again.
Lose(m) ==
    /\ event' = [event EXCEPT ![m] = "lost"]
    /\ UNCHANGED queue

\* Mutation of PublishRabbit: no reconnect after a failed publish.
PublishRabbitOnce(m) ==
    /\ Rabbit
    /\ event[m] = "emitted"
    /\ UNCHANGED channel
    /\ IF channel = "open" /\ bound THEN Enqueue(m) ELSE Lose(m)
    /\ UNCHANGED <<transport, brokerUp, bound, inflight, settled, consumerVars, historyVars, faults>>

\* RabbitMQPublisher.Publish: on an error it reconnects and tries once more.
\* There are no confirms and no mandatory flag: what is written to a connection
\* that is gone, or finds no queue bound, is lost although Publish returns nil.
PublishRabbit(m) ==
    /\ Rabbit
    /\ event[m] = "emitted"
    /\ channel' = IF channel = "closed" /\ brokerUp THEN "open" ELSE channel
    /\ IF channel' = "open" /\ bound THEN Enqueue(m) ELSE Lose(m)
    /\ UNCHANGED <<transport, brokerUp, bound, inflight, settled, consumerVars, historyVars, faults>>

\* SQSPublisher.Publish: one SendMessage, which the SDK sends again as long as its
\* answer is an error it may retry.  A message that is queued although the last
\* answer is an error differs in the log only; one that is queued twice is
\* DeliveredAgain.
PublishSqs(m) ==
    /\ Sqs
    /\ event[m] = "emitted"
    /\ IF brokerUp THEN Enqueue(m) ELSE Lose(m)
    /\ UNCHANGED <<transport, channel, brokerUp, bound, inflight, settled, consumerVars,
                   historyVars, faults>>

\* The publisher learns that its connection is gone.
PublisherNotices ==
    /\ channel = "silent"
    /\ channel' = "closed"
    /\ UNCHANGED <<transport, event, brokerVars, consumerVars, historyVars, faults>>

\* order-service stops; it does not wait for its publishing goroutines.
PublisherStops ==
    /\ channel # "down"
    /\ Fault
    /\ channel' = "down"
    /\ event' = [m \in Messages |-> IF event[m] = "emitted" THEN "lost" ELSE event[m]]
    /\ UNCHANGED <<transport, brokerVars, consumerVars, historyVars>>

\* It starts again; with RabbitMQ only when it can connect.
PublisherStarts ==
    /\ channel = "down"
    /\ Rabbit => brokerUp
    /\ channel' = "open"
    /\ UNCHANGED <<transport, event, brokerVars, consumerVars, historyVars, faults>>

------------------------------------------------------------------------------
(* The broker and the network *)

\* A RabbitMQ connection of the consumer ends on the broker's side: its
\* messages go back to the queue, and it may take the consumer a while to notice.
DropConsumer ==
    /\ consumer' = IF Rabbit /\ consumer = "on" THEN "silent" ELSE consumer
    /\ queue' = IF Rabbit THEN queue \cup inflight ELSE queue
    /\ inflight' = IF Rabbit THEN {} ELSE inflight

BrokerStops ==
    /\ brokerUp
    /\ Fault
    /\ brokerUp' = FALSE
    /\ channel' \in IF Rabbit /\ channel = "open" THEN {"closed", "silent"} ELSE {channel}
    /\ DropConsumer
    /\ UNCHANGED <<transport, event, bound, settled, fetched, work, historyVars>>

BrokerRecovers ==
    /\ ~brokerUp
    /\ brokerUp' = TRUE
    /\ UNCHANGED <<transport, publisherVars, bound, queue, inflight, settled, consumerVars,
                   historyVars, faults>>

\* A missed heartbeat: pika answers none while a message is being processed.
ConsumerDropped ==
    /\ Rabbit
    /\ consumer = "on"
    /\ Fault
    /\ DropConsumer
    /\ UNCHANGED <<transport, publisherVars, brokerUp, bound, settled, fetched, work, historyVars>>

\* The visibility timeout of a message ends while the consumer still has it.
HoldEndsEarly(m) ==
    /\ Sqs
    /\ m \in inflight \cap fetched
    /\ Fault
    /\ inflight' = inflight \ {m}
    /\ queue' = queue \cup {m}
    /\ UNCHANGED <<transport, publisherVars, brokerUp, bound, settled, consumerVars, historyVars>>

\* A message that was handed out and that nobody has goes back to the queue.
HoldEnds(m) ==
    /\ m \in inflight \ fetched
    /\ inflight' = inflight \ {m}
    /\ queue' = queue \cup {m}
    /\ UNCHANGED <<transport, publisherVars, brokerUp, bound, settled, consumerVars,
                   historyVars, faults>>

\* A queue of SQS deletes what nobody settled within its retention period,
\* whoever holds it.
RetentionEnds(m) ==
    /\ Sqs
    /\ m \in queue \cup inflight
    /\ Fault
    /\ queue' = queue \ {m}
    /\ inflight' = inflight \ {m}
    /\ event' = [event EXCEPT ![m] = "expired"]
    /\ UNCHANGED <<transport, channel, brokerUp, bound, settled, consumerVars, historyVars>>

\* A second copy of m, of a resent SendMessage or of the queue's own making (a
\* Standard queue delivers at least once).  The consumer works on one message at
\* a time, so the copy counts from when the first one is settled.
DeliveredAgain(m) ==
    /\ Sqs
    /\ m \in settled
    /\ Fault
    /\ settled' = settled \ {m}
    /\ queue' = queue \cup {m}
    /\ UNCHANGED <<transport, publisherVars, brokerUp, bound, inflight, consumerVars, historyVars>>

------------------------------------------------------------------------------
(* notification-service *)

\* The process starts; start() polls SQS, start_rabbitmq() connects first.
ConsumerStarts ==
    /\ consumer = "down"
    /\ consumer' = IF Sqs THEN "on" ELSE "off"
    /\ UNCHANGED <<transport, publisherVars, brokerVars, fetched, work, historyVars, faults>>

\* One turn of the loop of start_rabbitmq: connect, declare and bind the queue.
ConsumerConnects ==
    /\ consumer = "off"
    /\ brokerUp
    /\ consumer' = "on"
    /\ bound' = TRUE
    /\ UNCHANGED <<transport, publisherVars, brokerUp, queue, inflight, settled, fetched, work,
                   historyVars, faults>>

\* A crash, or SIGTERM: handle_signal leaves by sys.exit in the middle of whatever
\* the consumer is doing.
ConsumerStops ==
    /\ consumer # "down"
    /\ Fault
    /\ consumer' = "down"
    /\ fetched' = {}
    /\ work' = Idle
    /\ UNCHANGED <<transport, publisherVars, brokerVars, historyVars>>

\* A RabbitMQ delivery, or the answer of receive_message.  SQS is polled for the
\* next batch when the last one is done.
Receive(batch) ==
    /\ consumer = "on"
    /\ brokerUp
    /\ IF Rabbit THEN Cardinality(batch) = 1 ELSE fetched = {}
    /\ Cardinality(fetched \cup batch) <= Prefetch
    /\ fetched' = fetched \cup batch
    /\ queue' = queue \ batch
    /\ inflight' = inflight \cup batch
    /\ UNCHANGED <<transport, publisherVars, brokerUp, bound, settled, consumer, work,
                   historyVars, faults>>

\* process_message begins: one message at a time.
Begin(m) ==
    /\ work = Idle
    /\ m \in fetched
    /\ work' = [msg |-> m, pc |-> "lookup"]
    /\ UNCHANGED <<transport, publisherVars, brokerVars, consumer, fetched, historyVars, faults>>

\* get_profile answers.  No such user, a payload that names none, and every
\* RpcError (an outage of user-service too) look the same to the handler: it
\* returns, and the message is done.
Lookup ==
    /\ At("lookup")
    /\ \/ /\ NamesBorrower(work.msg)
          /\ work' = [work EXCEPT !.pc = "send"]
          /\ UNCHANGED unreachable
       \/ /\ NamesBorrower(work.msg)
          /\ work' = [work EXCEPT !.pc = "done"]
          /\ unreachable' = unreachable \cup {work.msg}
       \/ /\ ~NamesBorrower(work.msg)
          /\ work' = [work EXCEPT !.pc = "done"]
          /\ UNCHANGED unreachable
    /\ UNCHANGED <<transport, publisherVars, brokerVars, consumer, fetched, mails, faults>>

\* EmailService.send: the mail goes out, or SES refuses it (ClientError, caught).
Send ==
    /\ At("send")
    /\ \/ /\ mails' = [mails EXCEPT ![work.msg] = @ + 1]
          /\ UNCHANGED unreachable
       \/ /\ unreachable' = unreachable \cup {work.msg}
          /\ UNCHANGED mails
    /\ work' = [work EXCEPT !.pc = "done"]
    /\ UNCHANGED <<transport, publisherVars, brokerVars, consumer, fetched, faults>>

\* send_email raises something else, a timeout say: the mail may be out or not.
SendRaises ==
    /\ At("send")
    /\ Fault
    /\ \/ mails' = [mails EXCEPT ![work.msg] = @ + 1]
       \/ UNCHANGED mails
    /\ work' = [work EXCEPT !.pc = "failed"]
    /\ UNCHANGED <<transport, publisherVars, brokerVars, consumer, fetched, unreachable>>

Finish(m) ==
    /\ work' = Idle
    /\ fetched' = fetched \ {m}

\* Mutation of AnswerRabbit: basic_nack with requeue=False.
AnswerRabbitDropping ==
    /\ Rabbit
    /\ At("done") \/ At("failed")
    /\ LET m == work.msg IN
       /\ Finish(m)
       /\ inflight' = inflight \ {m}
       /\ settled' = IF consumer = "on" /\ At("done") THEN settled \cup {m} ELSE settled
       /\ UNCHANGED queue
    /\ UNCHANGED <<transport, publisherVars, brokerUp, bound, consumer, historyVars, faults>>

\* Mutation of AnswerRabbit: basic_ack whatever process_message returned.
AnswerRabbitAlwaysAcking ==
    /\ Rabbit
    /\ At("done") \/ At("failed")
    /\ LET m == work.msg IN
       /\ Finish(m)
       /\ inflight' = inflight \ {m}
       /\ settled' = IF consumer = "on" THEN settled \cup {m} ELSE settled
       /\ UNCHANGED queue
    /\ UNCHANGED <<transport, publisherVars, brokerUp, bound, consumer, historyVars, faults>>

\* on_message: basic_ack, or basic_nack with requeue.  On a connection that is
\* gone, and not yet seen to be, the answer reaches nobody.
AnswerRabbit ==
    /\ Rabbit
    /\ At("done") \/ At("failed")
    /\ LET m == work.msg IN
       /\ Finish(m)
       /\ IF consumer = "on"
          THEN /\ inflight' = inflight \ {m}
               /\ IF At("done") THEN settled' = settled \cup {m} /\ UNCHANGED queue
                                ELSE queue' = queue \cup {m} /\ UNCHANGED settled
          ELSE UNCHANGED <<queue, inflight, settled>>
    /\ UNCHANGED <<transport, publisherVars, brokerUp, bound, consumer, historyVars, faults>>

\* Mutation of ConsumerNotices: the message in work is not dropped.
ConsumerNoticesKeepingWork ==
    /\ consumer = "silent"
    /\ work = Idle \/ At("done") \/ At("failed")
    /\ consumer' = "off"
    /\ fetched' = {}
    /\ UNCHANGED <<work, transport, publisherVars, brokerVars, historyVars, faults>>

\* The consumer learns that its connection is gone, at the latest from an answer
\* it cannot send, and turns back to the top of its loop.
ConsumerNotices ==
    /\ consumer = "silent"
    /\ work = Idle \/ At("done") \/ At("failed")
    /\ consumer' = "off"
    /\ fetched' = {}
    /\ work' = Idle
    /\ UNCHANGED <<transport, publisherVars, brokerVars, historyVars, faults>>

\* Mutation of AnswerSqs: the message stays in the batch after its delete.
AnswerSqsKeeping ==
    /\ Sqs
    /\ brokerUp
    /\ At("done")
    /\ LET m == work.msg IN
       /\ work' = Idle
       /\ UNCHANGED fetched
       /\ queue' = queue \ {m}
       /\ inflight' = inflight \ {m}
       /\ settled' = settled \cup {m}
    /\ UNCHANGED <<transport, publisherVars, brokerUp, bound, consumer, historyVars, faults>>

\* start: delete_message when the message was processed.  The receipt of a
\* message that is back in the queue may or may not delete it; that of an expired
\* one deletes nothing.
AnswerSqs ==
    /\ Sqs
    /\ brokerUp
    /\ At("done")
    /\ LET m == work.msg IN
       /\ Finish(m)
       /\ \/ /\ event[m] = "published"
             /\ queue' = queue \ {m}
             /\ inflight' = inflight \ {m}
             /\ settled' = settled \cup {m}
          \/ /\ m \in queue \/ event[m] = "expired"
             /\ UNCHANGED <<queue, inflight, settled>>
    /\ UNCHANGED <<transport, publisherVars, brokerUp, bound, consumer, historyVars, faults>>

\* delete_message raises: the loop starts anew, the rest of the batch is dropped.
DeleteRaises ==
    /\ Sqs
    /\ ~brokerUp
    /\ At("done")
    /\ fetched' = {}
    /\ work' = Idle
    /\ UNCHANGED <<transport, publisherVars, brokerVars, consumer, historyVars, faults>>

\* start: a message that failed is left to its visibility timeout.
LeaveFailed ==
    /\ Sqs
    /\ At("failed")
    /\ Finish(work.msg)
    /\ UNCHANGED <<transport, publisherVars, brokerVars, consumer, historyVars, faults>>

------------------------------------------------------------------------------
ConsumerStep ==
    \/ ConsumerStarts
    \/ ConsumerConnects
    \/ \E batch \in (SUBSET queue) \ {{}} : Receive(batch)
    \/ \E m \in Messages : Begin(m)
    \/ Lookup
    \/ Send
    \/ AnswerRabbit
    \/ ConsumerNotices
    \/ AnswerSqs
    \/ DeleteRaises
    \/ LeaveFailed

Next ==
    \/ ConsumerStep
    \/ \E m \in Messages :
          \/ Emit(m) \/ PublishRabbit(m) \/ PublishSqs(m)
          \/ HoldEnds(m) \/ HoldEndsEarly(m) \/ RetentionEnds(m) \/ DeliveredAgain(m)
    \/ PublisherNotices \/ PublisherStops \/ PublisherStarts
    \/ BrokerStops \/ BrokerRecovers
    \/ ConsumerDropped \/ ConsumerStops \/ SendRaises

Spec == Init /\ [][Next]_vars

\* The consumer is one loop that never stops working while it runs, and that
\* Kubernetes restarts; the broker comes back, and hands messages out again.
Fairness ==
    /\ WF_vars(ConsumerStep)
    /\ WF_vars(BrokerRecovers)
    /\ \A m \in Messages : WF_vars(HoldEnds(m))

FairSpec == Spec /\ Fairness

------------------------------------------------------------------------------
TypeOK ==
    /\ transport \in {"rabbitmq", "sqs"}
    /\ brokerUp \in BOOLEAN
    /\ bound \in BOOLEAN
    /\ channel \in {"down", "open", "closed", "silent"}
    /\ event \in [Messages -> {"none", "emitted", "lost", "published", "expired"}]
    /\ queue \subseteq Messages
    /\ inflight \subseteq Messages
    /\ settled \subseteq Messages
    /\ consumer \in {"down", "off", "on", "silent"}
    /\ fetched \subseteq Messages
    /\ work \in [msg: fetched, pc: {"lookup", "send", "done", "failed"}] \cup {Idle}
    /\ mails \in [Messages -> Nat]
    /\ unreachable \subseteq Messages
    /\ faults \in 0..MaxFaults

\* A published event is in exactly one place, also while consumers crash, holds
\* expire and connections break: only the consumer's answer takes it from the
\* broker, or, with SQS, the end of the queue's retention period.
NothingVanishes ==
    \A m \in Messages :
        /\ Cardinality({s \in {"queue", "inflight", "settled"} :
                            m \in CASE s = "queue" -> queue
                                    [] s = "inflight" -> inflight
                                    [] OTHER -> settled})
              = IF event[m] = "published" THEN 1 ELSE 0
        /\ event[m] = "expired" => Sqs

\* An event that names its borrower is settled only after the borrower was mailed,
\* or could not be reached: a failed attempt is made again, for as long as the
\* broker keeps the event.
SettledForAReason ==
    \A m \in settled : NamesBorrower(m) => mails[m] > 0 \/ m \in unreachable

\* Each fault costs a borrower at most one mail too many: without faults every
\* event is mailed at most once.
MailsNeedFaults == \A m \in Messages : mails[m] <= 1 + faults

\* An event is lost only with the broker away, the queue not bound yet, the
\* connection silently gone or order-service stopping: a connection that is known
\* to be closed loses nothing as long as the broker can be reached.
LostOnlyWhenAway ==
    [][\A m \in Messages :
          event[m] # "lost" /\ event'[m] = "lost" =>
              ~brokerUp \/ ~bound \/ channel = "silent" \/ channel' = "down"]_vars

\* Every event in the queue is settled in the end, when faults are finitely many
\* and SQS does not delete it first.
EveryEventSettles == \A m \in Messages : m \in queue ~> m \in settled \/ event[m] = "expired"

\* test/integration/notification_order_flow_test.py, "verifying that every state
\* transition dispatches the correct email": whatever the type of the event, its
\* borrower was mailed or could not be reached.
EveryTransitionIsMailed ==
    \A m \in settled : mails[m] > 0 \/ m \in unreachable
=============================================================================
