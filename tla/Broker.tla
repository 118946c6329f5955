------------------------------- MODULE Broker -------------------------------
(***************************************************************************)
(* The durable topic exchange "upstore.events" and the one durable queue   *)
(* bound to it, "profiles.account-created", as the two services see them.  *)
(* A message is named by the registration whose outbox row it carries (the *)
(* row is never changed after its insertion, so the name is the payload),  *)
(* or is a stray one that another producer sent to the same routing key.   *)
(*                                                                         *)
(* Messages for different accounts commute in the only consumer, so the    *)
(* queue is a bag: queue[m] counts the copies ready for delivery.          *)
(***************************************************************************)
EXTENDS Naturals

CONSTANTS
    Msg,            \* messages
    QueueDeclared   \* TRUE when a profiles service has run before Init

ASSUME QueueDeclaredAssumption == QueueDeclared \in BOOLEAN

VARIABLES
    queue,          \* [Msg -> Nat], copies ready in the queue
    bound,          \* the queue exists and is bound to the exchange
    accepted        \* [Msg -> Nat], history: copies the broker has confirmed

brokerVars == <<queue, bound, accepted>>

BrokerTypeOK ==
    /\ queue \in [Msg -> Nat]
    /\ bound \in BOOLEAN
    /\ accepted \in [Msg -> Nat]

BrokerInit ==
    /\ queue = [m \in Msg |-> 0]
    /\ bound = QueueDeclared
    /\ accepted = [m \in Msg |-> 0]

\* Publish with mandatory = false: the broker confirms the message whether or
\* not the exchange routes it, and drops it when no queue is bound.
Accept(m) ==
    /\ accepted' = [accepted EXCEPT ![m] = @ + 1]
    /\ queue' = IF bound THEN [queue EXCEPT ![m] = @ + 1] ELSE queue
    /\ bound' = bound

\* ExchangeDeclare, QueueDeclare and QueueBind by a starting consumer.
DeclareAndBind ==
    /\ bound' = TRUE
    /\ UNCHANGED <<queue, accepted>>
=============================================================================
