------------------------ MODULE Notification_proofs ------------------------
(***************************************************************************)
(* Properties of Notification for any messages, any prefetch count and any *)
(* number of faults, for both transports.                                  *)
(*                                                                         *)
(* A message is in one place at the broker (Placed), and the consumer      *)
(* holds messages the broker knows it holds, as long as the connection     *)
(* lasts (HeldSound).  The mails are bounded by counting, with the mails   *)
(* already sent, the chances of one more: a copy in the consumer's hands   *)
(* that has not reached SES, and a delivery that is still to come (of an   *)
(* expired message too, which costs nothing, its expiry being a fault)     *)
(* (Chances).  Only a fault adds a chance; an answer that cannot be given  *)
(* while SQS is away uses the chance its outage added (MailsSound).        *)
(***************************************************************************)
EXTENDS Notification, FiniteSetTheorems, TLAPS

\* A message is in one place at the broker, from its publication on.
Placed ==
    /\ \A m \in Messages : m \in queue \cup inflight \cup settled <=> event[m] = "published"
    /\ \A m \in Messages : event[m] = "expired" => Sqs
    /\ queue \cap inflight = {}
    /\ queue \cap settled = {}
    /\ inflight \cap settled = {}

\* What the consumer holds, by the state of its connection.
HeldSound ==
    /\ consumer \in {"down", "off"} => fetched = {}
    /\ Rabbit /\ consumer = "on" => fetched \subseteq inflight
    /\ Rabbit /\ consumer = "silent" => inflight = {}
    /\ Sqs => consumer \in {"down", "on"}
    /\ fetched \cap settled = {}
    /\ \A m \in fetched : event[m] \in {"published", "expired"}

ReasonSound ==
    /\ SettledForAReason
    /\ At("done") /\ NamesBorrower(work.msg) => mails[work.msg] > 0 \/ work.msg \in unreachable

\* The consumer may mail m yet, while it holds it.
Ahead(m) == m \in fetched /\ ~(work # Idle /\ work.msg = m /\ work.pc \in {"done", "failed"})

\* m may be delivered once more.
Again(m) == m \notin settled /\ ~(m \in inflight \cap fetched /\ ~(At("failed") /\ work.msg = m))

Chances(m) == (IF Ahead(m) THEN 1 ELSE 0) + (IF Again(m) THEN 1 ELSE 0)

\* With the broker of SQS away, one delete_message is bound to raise.
MailsSound ==
    \A m \in Messages :
        /\ mails[m] + Chances(m) <= 1 + faults
        /\ Sqs /\ ~brokerUp /\ fetched # {} => mails[m] + Chances(m) <= faults

Inv ==
    /\ TypeOK
    /\ Placed
    /\ HeldSound
    /\ ReasonSound
    /\ MailsSound

------------------------------------------------------------------------------
(* What the message in work is, when there is one. *)
LEMMA WorkFields ==
    ASSUME TypeOK, NEW pc, At(pc)
    PROVE  /\ work \in [msg : fetched, pc : {"lookup", "send", "done", "failed"}]
           /\ work # Idle /\ work.msg \in fetched /\ work.msg \in Messages /\ work.pc = pc
BY DEF TypeOK, At

LEMMA InitInv == Init => Inv
<1> SUFFICES ASSUME Init PROVE Inv
  OBVIOUS
<1>1. TypeOK
  BY NotificationAssumption DEF Init, TypeOK, Sqs
<1>2. Placed
  BY DEF Init, Placed
<1>3. HeldSound
  BY DEF Init, HeldSound, Sqs
<1>4. ReasonSound
  BY DEF Init, ReasonSound, SettledForAReason, At
<1>5. MailsSound
  BY DEF Init, MailsSound, Chances, Ahead, Again
<1> QED
  BY <1>1, <1>2, <1>3, <1>4, <1>5 DEF Inv

LEMMA EmitInv ==
    ASSUME Inv, NEW m \in Messages, Emit(m)
    PROVE  Inv'
<1>1. TypeOK'
  BY DEF Emit, brokerVars, consumerVars, historyVars, Inv, TypeOK
<1>2. Placed'
  BY DEF Emit, brokerVars, Inv, Placed, Sqs
<1>3. HeldSound'
  BY DEF Emit, brokerVars, consumerVars, Inv, HeldSound, Rabbit, Sqs
<1>4. ReasonSound'
  BY DEF Emit, brokerVars, consumerVars, historyVars, Inv, ReasonSound, SettledForAReason, At
<1>5. MailsSound'
  BY DEF Emit, brokerVars, consumerVars, historyVars, Inv, MailsSound, Chances, Ahead, Again,
     At, Sqs
<1> QED
  BY <1>1, <1>2, <1>3, <1>4, <1>5 DEF Inv

LEMMA PublishRabbitInv ==
    ASSUME Inv, NEW m \in Messages, PublishRabbit(m)
    PROVE  Inv'
<1>1. TypeOK'
  BY DEF PublishRabbit, Enqueue, Lose, consumerVars, historyVars, Inv, TypeOK
<1>2. Placed'
  BY DEF PublishRabbit, Enqueue, Lose, Inv, TypeOK, Placed, Sqs
<1>3. HeldSound'
  BY DEF PublishRabbit, Enqueue, Lose, consumerVars, Inv, TypeOK, HeldSound, Sqs
<1>4. ReasonSound'
  BY DEF PublishRabbit, consumerVars, historyVars, Inv, ReasonSound, SettledForAReason, At
<1>5. MailsSound'
  BY DEF PublishRabbit, consumerVars, historyVars, Inv, MailsSound, Chances, Ahead, Again, At,
     Sqs
<1> QED
  BY <1>1, <1>2, <1>3, <1>4, <1>5 DEF Inv

LEMMA PublishSqsInv ==
    ASSUME Inv, NEW m \in Messages, PublishSqs(m)
    PROVE  Inv'
<1>1. TypeOK'
  BY DEF PublishSqs, Enqueue, Lose, consumerVars, historyVars, Inv, TypeOK
<1>2. Placed'
  BY DEF PublishSqs, Enqueue, Lose, Inv, TypeOK, Placed, Sqs
<1>3. HeldSound'
  BY DEF PublishSqs, Enqueue, Lose, consumerVars, Inv, TypeOK, HeldSound, Rabbit
<1>4. ReasonSound'
  BY DEF PublishSqs, consumerVars, historyVars, Inv, ReasonSound, SettledForAReason, At
<1>5. MailsSound'
  BY DEF PublishSqs, consumerVars, historyVars, Inv, MailsSound, Chances, Ahead, Again, At
<1> QED
  BY <1>1, <1>2, <1>3, <1>4, <1>5 DEF Inv

LEMMA PublisherNoticesInv ==
    ASSUME Inv, PublisherNotices
    PROVE  Inv'
<1>1. TypeOK'
  BY DEF PublisherNotices, brokerVars, consumerVars, historyVars, Inv, TypeOK
<1>2. Placed'
  BY DEF PublisherNotices, brokerVars, Inv, Placed, Sqs
<1>3. HeldSound'
  BY DEF PublisherNotices, brokerVars, consumerVars, Inv, HeldSound, Rabbit, Sqs
<1>4. ReasonSound'
  BY DEF PublisherNotices, brokerVars, consumerVars, historyVars, Inv, ReasonSound,
     SettledForAReason, At
<1>5. MailsSound'
  BY DEF PublisherNotices, brokerVars, consumerVars, historyVars, Inv, MailsSound, Chances,
     Ahead, Again, At, Sqs
<1> QED
  BY <1>1, <1>2, <1>3, <1>4, <1>5 DEF Inv

LEMMA PublisherStopsInv ==
    ASSUME Inv, PublisherStops
    PROVE  Inv'
<1>1. TypeOK'
  BY NotificationAssumption DEF PublisherStops, Fault, brokerVars, consumerVars, historyVars,
     Inv, TypeOK
<1>2. Placed'
  BY DEF PublisherStops, brokerVars, Inv, Placed, Sqs
<1>3. HeldSound'
  BY DEF PublisherStops, brokerVars, consumerVars, Inv, TypeOK, HeldSound, Rabbit, Sqs
<1>4. ReasonSound'
  BY DEF PublisherStops, brokerVars, consumerVars, historyVars, Inv, ReasonSound,
     SettledForAReason, At
<1>5. MailsSound'
  BY DEF PublisherStops, Fault, brokerVars, consumerVars, historyVars, Inv, TypeOK,
     MailsSound, Chances, Again, At, Sqs
<1> QED
  BY <1>1, <1>2, <1>3, <1>4, <1>5 DEF Inv

LEMMA PublisherStartsInv ==
    ASSUME Inv, PublisherStarts
    PROVE  Inv'
<1>1. TypeOK'
  BY DEF PublisherStarts, brokerVars, consumerVars, historyVars, Inv, TypeOK
<1>2. Placed'
  BY DEF PublisherStarts, brokerVars, Inv, Placed, Sqs
<1>3. HeldSound'
  BY DEF PublisherStarts, brokerVars, consumerVars, Inv, HeldSound, Rabbit, Sqs
<1>4. ReasonSound'
  BY DEF PublisherStarts, brokerVars, consumerVars, historyVars, Inv, ReasonSound,
     SettledForAReason, At
<1>5. MailsSound'
  BY DEF PublisherStarts, brokerVars, consumerVars, historyVars, Inv, MailsSound, Chances,
     Ahead, Again, At, Sqs
<1> QED
  BY <1>1, <1>2, <1>3, <1>4, <1>5 DEF Inv

LEMMA BrokerStopsInv ==
    ASSUME Inv, BrokerStops
    PROVE  Inv'
<1>1. TypeOK'
  <2>1. channel' \in {"down", "open", "closed", "silent"}
    BY DEF BrokerStops, Inv, TypeOK
  <2>2. consumer' \in {"down", "off", "on", "silent"} /\ queue' \subseteq Messages /\ inflight' \subseteq Messages
    BY DEF BrokerStops, DropConsumer, Inv, TypeOK
  <2>3. faults' \in 0..MaxFaults
    BY NotificationAssumption DEF BrokerStops, Fault, Inv, TypeOK
  <2> QED
    BY <2>1, <2>2, <2>3 DEF BrokerStops, historyVars, Inv, TypeOK
<1>2. Placed'
  BY DEF BrokerStops, DropConsumer, Inv, Placed, Sqs
<1>3. HeldSound'
  BY DEF BrokerStops, DropConsumer, Inv, HeldSound, Rabbit, Sqs
<1>4. ReasonSound'
  BY DEF BrokerStops, historyVars, Inv, ReasonSound, SettledForAReason, At
<1>5. MailsSound'
  BY DEF BrokerStops, Fault, DropConsumer, historyVars, Inv, TypeOK, MailsSound, Chances,
     Ahead, Again, At, Rabbit, Sqs
<1> QED
  BY <1>1, <1>2, <1>3, <1>4, <1>5 DEF Inv

LEMMA BrokerRecoversInv ==
    ASSUME Inv, BrokerRecovers
    PROVE  Inv'
<1>1. TypeOK'
  BY DEF BrokerRecovers, publisherVars, consumerVars, historyVars, Inv, TypeOK
<1>2. Placed'
  BY DEF BrokerRecovers, publisherVars, Inv, Placed, Sqs
<1>3. HeldSound'
  BY DEF BrokerRecovers, publisherVars, consumerVars, Inv, HeldSound, Rabbit, Sqs
<1>4. ReasonSound'
  BY DEF BrokerRecovers, consumerVars, historyVars, Inv, ReasonSound, SettledForAReason, At
<1>5. MailsSound'
  BY DEF BrokerRecovers, consumerVars, historyVars, Inv, MailsSound, Chances, Ahead, Again, At
<1> QED
  BY <1>1, <1>2, <1>3, <1>4, <1>5 DEF Inv

LEMMA ConsumerDroppedInv ==
    ASSUME Inv, ConsumerDropped
    PROVE  Inv'
<1>1. TypeOK'
  BY NotificationAssumption DEF ConsumerDropped, Fault, DropConsumer, publisherVars,
     historyVars, Inv, TypeOK
<1>2. Placed'
  BY DEF ConsumerDropped, DropConsumer, publisherVars, Inv, Placed, Sqs
<1>3. HeldSound'
  BY DEF ConsumerDropped, DropConsumer, publisherVars, Inv, HeldSound, Rabbit, Sqs
<1>4. ReasonSound'
  BY DEF ConsumerDropped, historyVars, Inv, ReasonSound, SettledForAReason, At
<1>5. MailsSound'
  BY DEF ConsumerDropped, Fault, historyVars, Inv, TypeOK, MailsSound, Chances, Ahead, Sqs
<1> QED
  BY <1>1, <1>2, <1>3, <1>4, <1>5 DEF Inv

LEMMA HoldEndsEarlyInv ==
    ASSUME Inv, NEW m \in Messages, HoldEndsEarly(m)
    PROVE  Inv'
<1>1. TypeOK'
  BY NotificationAssumption DEF HoldEndsEarly, Fault, publisherVars, consumerVars,
     historyVars, Inv, TypeOK
<1>2. Placed'
  BY DEF HoldEndsEarly, publisherVars, Inv, Placed, Sqs
<1>3. HeldSound'
  BY DEF HoldEndsEarly, publisherVars, consumerVars, Inv, HeldSound, Rabbit, Sqs
<1>4. ReasonSound'
  BY DEF HoldEndsEarly, consumerVars, historyVars, Inv, ReasonSound, SettledForAReason, At
<1>5. MailsSound'
  BY DEF HoldEndsEarly, Fault, consumerVars, historyVars, Inv, TypeOK, MailsSound, Chances,
     Ahead
<1> QED
  BY <1>1, <1>2, <1>3, <1>4, <1>5 DEF Inv

LEMMA HoldEndsInv ==
    ASSUME Inv, NEW m \in Messages, HoldEnds(m)
    PROVE  Inv'
<1>1. TypeOK'
  BY DEF HoldEnds, publisherVars, consumerVars, historyVars, Inv, TypeOK
<1>2. Placed'
  BY DEF HoldEnds, publisherVars, Inv, Placed, Sqs
<1>3. HeldSound'
  BY DEF HoldEnds, publisherVars, consumerVars, Inv, HeldSound, Rabbit, Sqs
<1>4. ReasonSound'
  BY DEF HoldEnds, consumerVars, historyVars, Inv, ReasonSound, SettledForAReason, At
<1>5. MailsSound'
  BY DEF HoldEnds, consumerVars, historyVars, Inv, MailsSound, Chances, Ahead, Again, At, Sqs
<1> QED
  BY <1>1, <1>2, <1>3, <1>4, <1>5 DEF Inv

LEMMA RetentionEndsInv ==
    ASSUME Inv, NEW m \in Messages, RetentionEnds(m)
    PROVE  Inv'
<1>1. TypeOK'
  BY NotificationAssumption DEF RetentionEnds, Fault, consumerVars, historyVars, Inv, TypeOK
<1>2. Placed'
  BY DEF RetentionEnds, Inv, TypeOK, Placed, Sqs
<1>3. HeldSound'
  BY DEF RetentionEnds, consumerVars, Inv, TypeOK, HeldSound, Rabbit, Sqs
<1>4. ReasonSound'
  BY DEF RetentionEnds, consumerVars, historyVars, Inv, ReasonSound, SettledForAReason, At
<1>5. MailsSound'
  BY DEF RetentionEnds, Fault, consumerVars, historyVars, Inv, TypeOK, MailsSound, Chances,
     Ahead, Again, At, Sqs
<1> QED
  BY <1>1, <1>2, <1>3, <1>4, <1>5 DEF Inv

LEMMA DeliveredAgainInv ==
    ASSUME Inv, NEW m \in Messages, DeliveredAgain(m)
    PROVE  Inv'
<1>1. TypeOK'
  BY NotificationAssumption DEF DeliveredAgain, Fault, publisherVars, consumerVars, historyVars,
     Inv, TypeOK
<1>2. Placed'
  BY DEF DeliveredAgain, publisherVars, Inv, Placed, Sqs
<1>3. HeldSound'
  BY DEF DeliveredAgain, publisherVars, consumerVars, Inv, HeldSound, Rabbit, Sqs
<1>4. ReasonSound'
  BY DEF DeliveredAgain, consumerVars, historyVars, Inv, ReasonSound, SettledForAReason, At
<1>5. MailsSound'
  BY DEF DeliveredAgain, Fault, consumerVars, historyVars, Inv, TypeOK, MailsSound, Chances,
     Ahead, Again, At, Sqs
<1> QED
  BY <1>1, <1>2, <1>3, <1>4, <1>5 DEF Inv

LEMMA ConsumerStartsInv ==
    ASSUME Inv, ConsumerStarts
    PROVE  Inv'
<1>1. TypeOK'
  BY DEF ConsumerStarts, publisherVars, brokerVars, historyVars, Inv, TypeOK
<1>2. Placed'
  BY DEF ConsumerStarts, publisherVars, brokerVars, Inv, Placed, Sqs
<1>3. HeldSound'
  BY DEF ConsumerStarts, Inv, HeldSound, Sqs
<1>4. ReasonSound'
  BY DEF ConsumerStarts, brokerVars, historyVars, Inv, ReasonSound, SettledForAReason, At
<1>5. MailsSound'
  BY DEF ConsumerStarts, brokerVars, historyVars, Inv, MailsSound, Chances, Ahead, Again, At,
     Sqs
<1> QED
  BY <1>1, <1>2, <1>3, <1>4, <1>5 DEF Inv

LEMMA ConsumerConnectsInv ==
    ASSUME Inv, ConsumerConnects
    PROVE  Inv'
<1>1. TypeOK'
  BY DEF ConsumerConnects, publisherVars, historyVars, Inv, TypeOK
<1>2. Placed'
  BY DEF ConsumerConnects, publisherVars, Inv, Placed, Sqs
<1>3. HeldSound'
  BY DEF ConsumerConnects, Inv, HeldSound
<1>4. ReasonSound'
  BY DEF ConsumerConnects, historyVars, Inv, ReasonSound, SettledForAReason, At
<1>5. MailsSound'
  BY DEF ConsumerConnects, historyVars, Inv, MailsSound, Chances, Ahead, Again, At
<1> QED
  BY <1>1, <1>2, <1>3, <1>4, <1>5 DEF Inv

LEMMA ConsumerStopsInv ==
    ASSUME Inv, ConsumerStops
    PROVE  Inv'
<1>1. TypeOK'
  BY NotificationAssumption DEF ConsumerStops, Fault, publisherVars, brokerVars, historyVars,
     Inv, TypeOK
<1>2. Placed'
  BY DEF ConsumerStops, publisherVars, brokerVars, Inv, Placed, Sqs
<1>3. HeldSound'
  BY DEF ConsumerStops, HeldSound
<1>4. ReasonSound'
  BY DEF ConsumerStops, brokerVars, historyVars, Inv, ReasonSound, SettledForAReason, At
<1>5. MailsSound'
  BY DEF ConsumerStops, Fault, historyVars, Inv, TypeOK, MailsSound, Chances, Ahead
<1> QED
  BY <1>1, <1>2, <1>3, <1>4, <1>5 DEF Inv

LEMMA ReceiveInv ==
    ASSUME Inv, NEW batch \in SUBSET queue, Receive(batch)
    PROVE  Inv'
<1>1. TypeOK'
  BY DEF Receive, publisherVars, historyVars, Inv, TypeOK
<1>2. Placed'
  BY DEF Receive, publisherVars, Inv, Placed, Sqs
<1>3. HeldSound'
  BY DEF Receive, publisherVars, Inv, TypeOK, Placed, HeldSound
<1>4. ReasonSound'
  BY DEF Receive, historyVars, Inv, ReasonSound, SettledForAReason, At
<1>5. MailsSound'
  BY DEF Receive, historyVars, Inv, TypeOK, Placed, MailsSound, Chances, Ahead, Again, At
<1> QED
  BY <1>1, <1>2, <1>3, <1>4, <1>5 DEF Inv

LEMMA BeginInv ==
    ASSUME Inv, NEW m \in Messages, Begin(m)
    PROVE  Inv'
<1>1. TypeOK'
  BY DEF Begin, publisherVars, brokerVars, historyVars, Inv, TypeOK
<1>2. Placed'
  BY DEF Begin, publisherVars, brokerVars, Inv, Placed, Sqs
<1>3. HeldSound'
  BY DEF Begin, publisherVars, brokerVars, Inv, HeldSound, Rabbit, Sqs
<1>4. ReasonSound'
  BY DEF Begin, brokerVars, historyVars, Inv, ReasonSound, SettledForAReason, At
<1>5. MailsSound'
  BY DEF Begin, brokerVars, historyVars, Inv, MailsSound, Chances, Ahead, Again, At, Sqs
<1> QED
  BY <1>1, <1>2, <1>3, <1>4, <1>5 DEF Inv

LEMMA LookupInv ==
    ASSUME Inv, Lookup
    PROVE  Inv'
<1>1. TypeOK'
  BY DEF Lookup, publisherVars, brokerVars, Inv, TypeOK, At
<1>2. Placed'
  BY DEF Lookup, publisherVars, brokerVars, Inv, Placed, Sqs
<1>3. HeldSound'
  BY DEF Lookup, publisherVars, brokerVars, Inv, HeldSound, Rabbit, Sqs
<1>4. ReasonSound'
  BY DEF Lookup, brokerVars, Inv, TypeOK, ReasonSound, SettledForAReason, At
<1>5. MailsSound'
  BY DEF Lookup, brokerVars, Inv, TypeOK, MailsSound, Chances, Ahead, Again, At, Sqs
<1> QED
  BY <1>1, <1>2, <1>3, <1>4, <1>5 DEF Inv

LEMMA SendInv ==
    ASSUME Inv, Send
    PROVE  Inv'
<1>1. TypeOK'
  BY DEF Send, publisherVars, brokerVars, Inv, TypeOK, At
<1>2. Placed'
  BY DEF Send, publisherVars, brokerVars, Inv, Placed, Sqs
<1>3. HeldSound'
  BY DEF Send, publisherVars, brokerVars, Inv, HeldSound, Rabbit, Sqs
<1>4. ReasonSound'
  BY DEF Send, brokerVars, Inv, TypeOK, ReasonSound, SettledForAReason, At
<1>5. MailsSound'
  <2>1. ASSUME NEW m \in Messages PROVE mails'[m] + Chances(m)' <= mails[m] + Chances(m)
    <3>1. work.msg \in fetched /\ work.pc = "send" /\ work # Idle
      BY WorkFields DEF Send, Inv
    <3>2. work' = [work EXCEPT !.pc = "done"] /\ work'.msg = work.msg /\ work'.pc = "done"
      BY WorkFields DEF Send, Inv
    <3>3. /\ mails[m] \in Nat /\ mails'[m] \in Nat
          /\ mails'[m] <= IF m = work.msg THEN mails[m] + 1 ELSE mails[m]
      BY DEF Send, Inv, TypeOK
    <3>4. Again(m)' => Again(m)
      BY <3>1, <3>2 DEF Send, brokerVars, Again, At
    <3>5. m # work.msg /\ Ahead(m)' => Ahead(m)
      BY <3>1, <3>2 DEF Send, Ahead
    <3>6. m = work.msg => Ahead(m) /\ ~Ahead(m)'
      BY <3>1, <3>2, NotificationAssumption DEF Inv, TypeOK, Ahead
    <3> QED
      BY <3>3, <3>4, <3>5, <3>6 DEF Chances
  <2>2. \A m \in Messages : mails[m] \in Nat /\ mails'[m] \in Nat /\ Chances(m) \in Nat /\ Chances(m)' \in Nat
    BY DEF Send, Inv, TypeOK, Chances
  <2>3. UNCHANGED <<transport, brokerUp, fetched, faults>>
    BY DEF Send, brokerVars
  <2> QED
    BY <2>1, <2>2, <2>3 DEF Inv, TypeOK, MailsSound, Sqs
<1> QED
  BY <1>1, <1>2, <1>3, <1>4, <1>5 DEF Inv

LEMMA SendRaisesInv ==
    ASSUME Inv, SendRaises
    PROVE  Inv'
<1>1. TypeOK'
  BY NotificationAssumption DEF SendRaises, Fault, publisherVars, brokerVars, Inv, TypeOK, At
<1>2. Placed'
  BY DEF SendRaises, publisherVars, brokerVars, Inv, Placed, Sqs
<1>3. HeldSound'
  BY DEF SendRaises, publisherVars, brokerVars, Inv, HeldSound, Rabbit, Sqs
<1>4. ReasonSound'
  BY DEF SendRaises, brokerVars, Inv, TypeOK, ReasonSound, SettledForAReason, At
<1>5. MailsSound'
  BY DEF SendRaises, Fault, brokerVars, Inv, TypeOK, MailsSound, Chances, Ahead, Again, At, Sqs
<1> QED
  BY <1>1, <1>2, <1>3, <1>4, <1>5 DEF Inv

LEMMA AnswerRabbitInv ==
    ASSUME Inv, AnswerRabbit
    PROVE  Inv'
<1>1. TypeOK'
  BY DEF AnswerRabbit, Finish, publisherVars, historyVars, Inv, TypeOK, At
<1>2. Placed'
  BY DEF AnswerRabbit, publisherVars, Inv, TypeOK, Placed, Sqs, HeldSound, At
<1>3. HeldSound'
  BY DEF AnswerRabbit, Finish, publisherVars, Inv, HeldSound, Sqs
<1>4. ReasonSound'
  BY DEF AnswerRabbit, Finish, historyVars, Inv, ReasonSound, SettledForAReason, At
<1>5. MailsSound'
  BY DEF AnswerRabbit, Finish, historyVars, Inv, TypeOK, HeldSound, MailsSound, Chances,
     Ahead, Again, At, Sqs
<1> QED
  BY <1>1, <1>2, <1>3, <1>4, <1>5 DEF Inv

LEMMA ConsumerNoticesInv ==
    ASSUME Inv, ConsumerNotices
    PROVE  Inv'
<1>1. TypeOK'
  BY DEF ConsumerNotices, publisherVars, brokerVars, historyVars, Inv, TypeOK
<1>2. Placed'
  BY DEF ConsumerNotices, publisherVars, brokerVars, Inv, Placed, Sqs
<1>3. HeldSound'
  BY DEF ConsumerNotices, Inv, HeldSound, Sqs
<1>4. ReasonSound'
  BY DEF ConsumerNotices, brokerVars, historyVars, Inv, ReasonSound, SettledForAReason, At
<1>5. MailsSound'
  BY DEF ConsumerNotices, brokerVars, historyVars, Inv, TypeOK, HeldSound, MailsSound,
     Chances, Ahead, Again, Rabbit, Sqs
<1> QED
  BY <1>1, <1>2, <1>3, <1>4, <1>5 DEF Inv

LEMMA AnswerSqsInv ==
    ASSUME Inv, AnswerSqs
    PROVE  Inv'
<1>1. TypeOK'
  BY DEF AnswerSqs, Finish, publisherVars, historyVars, Inv, TypeOK, At
<1>2. Placed'
  BY DEF AnswerSqs, publisherVars, Inv, TypeOK, Placed, Sqs, HeldSound, At
<1>3. HeldSound'
  BY DEF AnswerSqs, Finish, publisherVars, Inv, HeldSound, Rabbit
<1>4. ReasonSound'
  BY DEF AnswerSqs, Finish, historyVars, Inv, ReasonSound, SettledForAReason, At
<1>5. MailsSound'
  BY DEF AnswerSqs, Finish, historyVars, Inv, TypeOK, Placed, MailsSound, Chances, Ahead,
     Again, At
<1> QED
  BY <1>1, <1>2, <1>3, <1>4, <1>5 DEF Inv

LEMMA DeleteRaisesInv ==
    ASSUME Inv, DeleteRaises
    PROVE  Inv'
<1>1. TypeOK'
  BY DEF DeleteRaises, publisherVars, brokerVars, historyVars, Inv, TypeOK
<1>2. Placed'
  BY DEF DeleteRaises, publisherVars, brokerVars, Inv, Placed, Sqs
<1>3. HeldSound'
  BY DEF DeleteRaises, Inv, HeldSound
<1>4. ReasonSound'
  BY DEF DeleteRaises, brokerVars, historyVars, Inv, ReasonSound, SettledForAReason, At
<1>5. MailsSound'
  BY DEF DeleteRaises, historyVars, Inv, TypeOK, MailsSound, Chances, Ahead, At
<1> QED
  BY <1>1, <1>2, <1>3, <1>4, <1>5 DEF Inv

LEMMA LeaveFailedInv ==
    ASSUME Inv, LeaveFailed
    PROVE  Inv'
<1>1. TypeOK'
  BY DEF LeaveFailed, Finish, publisherVars, brokerVars, historyVars, Inv, TypeOK
<1>2. Placed'
  BY DEF LeaveFailed, publisherVars, brokerVars, Inv, Placed, Sqs
<1>3. HeldSound'
  BY DEF LeaveFailed, Finish, publisherVars, brokerVars, Inv, HeldSound, Rabbit
<1>4. ReasonSound'
  BY DEF LeaveFailed, Finish, brokerVars, historyVars, Inv, ReasonSound, SettledForAReason, At
<1>5. MailsSound'
  BY DEF LeaveFailed, Finish, brokerVars, historyVars, Inv, MailsSound, Chances, Ahead, Again,
     At
<1> QED
  BY <1>1, <1>2, <1>3, <1>4, <1>5 DEF Inv

------------------------------------------------------------------------------
LEMMA NextInv ==
    ASSUME Inv, [Next]_vars
    PROVE  Inv'
<1>1. CASE ConsumerStep
  BY <1>1, ConsumerStartsInv, ConsumerConnectsInv, ReceiveInv, BeginInv, LookupInv, SendInv,
     AnswerRabbitInv, ConsumerNoticesInv, AnswerSqsInv, DeleteRaisesInv, LeaveFailedInv
     DEF ConsumerStep
<1>2. ASSUME NEW m \in Messages,
             \/ Emit(m) \/ PublishRabbit(m) \/ PublishSqs(m)
             \/ HoldEnds(m) \/ HoldEndsEarly(m) \/ RetentionEnds(m) \/ DeliveredAgain(m)
      PROVE  Inv'
  BY <1>2, EmitInv, PublishRabbitInv, PublishSqsInv, HoldEndsInv, HoldEndsEarlyInv,
     RetentionEndsInv, DeliveredAgainInv
<1>3. CASE PublisherNotices \/ PublisherStops \/ PublisherStarts
  BY <1>3, PublisherNoticesInv, PublisherStopsInv, PublisherStartsInv
<1>4. CASE BrokerStops \/ BrokerRecovers \/ ConsumerDropped \/ ConsumerStops \/ SendRaises
  BY <1>4, BrokerStopsInv, BrokerRecoversInv, ConsumerDroppedInv, ConsumerStopsInv,
     SendRaisesInv
<1>5. CASE UNCHANGED vars
  <2>1. TypeOK' /\ Placed' /\ HeldSound'
    BY <1>5 DEF vars, publisherVars, brokerVars, consumerVars, historyVars, Inv, TypeOK, Placed,
                HeldSound, Rabbit, Sqs
  <2>2. ReasonSound' /\ MailsSound'
    BY <1>5 DEF vars, brokerVars, consumerVars, historyVars, Inv, ReasonSound,
                SettledForAReason, MailsSound, Chances, Ahead, Again, At, Sqs
  <2> QED
    BY <2>1, <2>2 DEF Inv
<1> QED
  BY <1>1, <1>2, <1>3, <1>4, <1>5 DEF Next

LEMMA Invariance == Spec => []Inv
BY InitInv, NextInv, PTL DEF Spec

------------------------------------------------------------------------------
(* Publisher, broker and consumer stay well-typed, and what is in work is     *)
(* something the consumer holds.                                              *)
THEOREM TypeCorrect == Spec => []TypeOK
<1>1. Inv => TypeOK
  BY DEF Inv
<1> QED
  BY <1>1, Invariance, PTL

(* A published event is at one place of the broker until it is settled, for   *)
(* any number of crashes, broken connections and expired holds; RabbitMQ      *)
(* deletes none, and SQS none but those past its retention period.            *)
THEOREM NothingIsLostOnTheWay == Spec => []NothingVanishes
<1>1. Inv => NothingVanishes
  <2> SUFFICES ASSUME Inv, NEW m \in Messages
               PROVE  Cardinality({s \in {"queue", "inflight", "settled"} :
                          m \in CASE s = "queue" -> queue
                                  [] s = "inflight" -> inflight
                                  [] OTHER -> settled})
                          = IF event[m] = "published" THEN 1 ELSE 0
    BY DEF NothingVanishes, Inv, Placed
  <2> DEFINE places == {s \in {"queue", "inflight", "settled"} :
                          m \in CASE s = "queue" -> queue
                                  [] s = "inflight" -> inflight
                                  [] OTHER -> settled}
  <2>1. CASE m \in queue
    <3>1. places = {"queue"}
      BY <2>1 DEF Inv, Placed
    <3>2. event[m] = "published"
      BY <2>1 DEF Inv, Placed
    <3> HIDE DEF places
    <3> QED
      BY <3>1, <3>2, FS_Singleton DEF places
  <2>2. CASE m \in inflight
    <3>1. places = {"inflight"}
      BY <2>2 DEF Inv, Placed
    <3>2. event[m] = "published"
      BY <2>2 DEF Inv, Placed
    <3> HIDE DEF places
    <3> QED
      BY <3>1, <3>2, FS_Singleton DEF places
  <2>3. CASE m \in settled
    <3>1. places = {"settled"}
      BY <2>3 DEF Inv, Placed
    <3>2. event[m] = "published"
      BY <2>3 DEF Inv, Placed
    <3> HIDE DEF places
    <3> QED
      BY <3>1, <3>2, FS_Singleton DEF places
  <2>4. CASE m \notin queue \cup inflight \cup settled
    <3>1. places = {}
      BY <2>4
    <3>2. event[m] # "published"
      BY <2>4 DEF Inv, Placed
    <3> HIDE DEF places
    <3> QED
      BY <3>1, <3>2, FS_EmptySet DEF places
  <2> QED
    BY <2>1, <2>2, <2>3, <2>4
<1> QED
  BY <1>1, Invariance, PTL

(* An event that names its borrower is settled only after a mail, or after    *)
(* the borrower could not be reached.                                         *)
THEOREM SettledHaveAReason == Spec => []SettledForAReason
<1>1. Inv => SettledForAReason
  BY DEF Inv, ReasonSound
<1> QED
  BY <1>1, Invariance, PTL

(* The mails for an event are at most one more than the faults there were,    *)
(* for any number of faults of any kind.                                      *)
THEOREM MailsAreBounded == Spec => []MailsNeedFaults
<1>1. Inv => MailsNeedFaults
  <2> SUFFICES ASSUME Inv, NEW m \in Messages PROVE mails[m] <= 1 + faults
    BY DEF MailsNeedFaults
  <2>1. mails[m] \in Nat /\ faults \in Nat /\ Chances(m) \in Nat
    BY NotificationAssumption DEF Inv, TypeOK, Chances
  <2>2. mails[m] + Chances(m) <= 1 + faults
    BY DEF Inv, MailsSound
  <2> QED
    BY <2>1, <2>2
<1> QED
  BY <1>1, Invariance, PTL

(* An event is lost only for one of the four reasons.                         *)
THEOREM LossesAreExplained == Spec => LostOnlyWhenAway
<1> DEFINE Explained ==
        \A m \in Messages :
            event[m] # "lost" /\ event'[m] = "lost" =>
                ~brokerUp \/ ~bound \/ channel = "silent" \/ channel' = "down"
<1>1. Inv /\ [Next]_vars => [Explained]_vars
  <2> SUFFICES ASSUME Inv, Next PROVE Explained
    BY DEF vars
  <2>1. ASSUME NEW n \in Messages, PublishRabbit(n)
        PROVE  Explained
    <3>1. SUFFICES ASSUME channel' # "down" PROVE Explained
      OBVIOUS
    <3>2. channel # "down"
      BY <2>1, <3>1 DEF PublishRabbit
    <3>3. SUFFICES ASSUME brokerUp, bound, channel # "silent" PROVE Explained
      OBVIOUS
    <3>4. channel' = "open"
      BY <2>1, <3>2, <3>3 DEF PublishRabbit, Inv, TypeOK
    <3>5. event' = [event EXCEPT ![n] = "published"]
      BY <2>1, <3>3, <3>4 DEF PublishRabbit, Enqueue
    <3> QED
      BY <3>5 DEF Inv, TypeOK
  <2>2. ASSUME NEW n \in Messages, PublishSqs(n)
        PROVE  Explained
    <3>1. SUFFICES ASSUME brokerUp PROVE Explained
      OBVIOUS
    <3>2. event' = [event EXCEPT ![n] = "published"]
      BY <2>2, <3>1 DEF PublishSqs, Enqueue
    <3> QED
      BY <3>2 DEF Inv, TypeOK
  <2>3. ASSUME NEW n \in Messages, Emit(n)
        PROVE  Explained
    BY <2>3 DEF Emit, Inv, TypeOK
  <2>4. CASE PublisherStops
    BY <2>4 DEF PublisherStops
  <2>5. \/ \E n \in Messages : PublishRabbit(n) \/ PublishSqs(n) \/ Emit(n)
        \/ \E n \in Messages : RetentionEnds(n)
        \/ PublisherStops
        \/ UNCHANGED event
    BY DEF Next, ConsumerStep, publisherVars, HoldEnds, HoldEndsEarly, DeliveredAgain,
           PublisherNotices, PublisherStarts, BrokerStops, BrokerRecovers, ConsumerDropped, ConsumerStops,
           SendRaises, ConsumerStarts, ConsumerConnects, Receive, Begin, Lookup, Send,
           AnswerRabbit, ConsumerNotices, AnswerSqs, DeleteRaises, LeaveFailed
  <2>6. ASSUME NEW n \in Messages, RetentionEnds(n)
        PROVE  Explained
    BY <2>6 DEF RetentionEnds, Inv, TypeOK
  <2> QED
    BY <2>1, <2>2, <2>3, <2>4, <2>5, <2>6
<1> QED
  BY <1>1, Invariance, PTL DEF Spec, LostOnlyWhenAway
=============================================================================
