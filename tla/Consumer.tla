------------------------------ MODULE Consumer ------------------------------
(***************************************************************************)
(* The profiles service: Consume and handleDelivery.  One goroutine per    *)
(* consumer handles the prefetched messages one at a time, writes the      *)
(* profile in a statement of its own, and only then acknowledges.          *)
(***************************************************************************)
EXTENDS Broker, FiniteSets, Functions

CONSTANTS
    Consumers,      \* profiles processes
    PayloadType,    \* types a message may carry
    ValidType,      \* those AccountType.Valid accepts
    Prefetch,       \* prefetchCount
    MaxSetbacks,    \* bound: consumer stops and failed CreateProfile calls
    Nobody

ASSUME ConsumerAssumption ==
    /\ ValidType \subseteq PayloadType
    /\ Nobody \notin PayloadType
    /\ Nobody \notin Msg
    /\ Prefetch \in Nat \ {0}
    /\ MaxSetbacks \in Nat

VARIABLES
    consuming,      \* [Consumers -> BOOLEAN], Consume is in its delivery loop
    unacked,        \* [Consumers -> [Msg -> Nat]], delivered, not settled
    handled,        \* [Consumers -> Msg or Nobody], profile written, Ack to come
    profile,        \* [Msg -> type of the profile its account has, or Nobody]
    setbacks        \* consumer stops and failed statements so far

consumerVars == <<consuming, unacked, handled, profile, setbacks>>

ConsumerTypeOK ==
    /\ consuming \in [Consumers -> BOOLEAN]
    /\ unacked \in [Consumers -> [Msg -> Nat]]
    /\ handled \in [Consumers -> Msg \cup {Nobody}]
    /\ profile \in [Msg -> PayloadType \cup {Nobody}]
    /\ setbacks \in Nat

ConsumerInit ==
    /\ consuming = [c \in Consumers |-> FALSE]
    /\ unacked = [c \in Consumers |-> [m \in Msg |-> 0]]
    /\ handled = [c \in Consumers |-> Nobody]
    /\ profile = [m \in Msg |-> Nobody]
    /\ setbacks = 0

\* The topology calls of Consume, then channel.Consume.
StartConsumer(c) ==
    /\ ~consuming[c]
    /\ DeclareAndBind
    /\ consuming' = [consuming EXCEPT ![c] = TRUE]
    /\ UNCHANGED <<unacked, handled, profile, setbacks>>

InFlight(c) == FoldFunction(+, 0, unacked[c])

\* The broker pushes a message while fewer than Prefetch are unacknowledged.
Deliver(c, m) ==
    /\ consuming[c]
    /\ queue[m] > 0
    /\ InFlight(c) < Prefetch
    /\ queue' = [queue EXCEPT ![m] = @ - 1]
    /\ unacked' = [unacked EXCEPT ![c][m] = @ + 1]
    /\ UNCHANGED <<bound, accepted, consuming, handled, profile, setbacks>>

NextDelivery(c, m) ==
    /\ consuming[c]
    /\ handled[c] = Nobody
    /\ unacked[c][m] > 0

\* INSERT ... ON CONFLICT (account_id) DO NOTHING, committed on its own.
CreateProfile(c, m, type) ==
    /\ NextDelivery(c, m)
    /\ type \in ValidType
    /\ profile' = [profile EXCEPT ![m] = IF @ = Nobody THEN type ELSE @]
    /\ handled' = [handled EXCEPT ![c] = m]
    /\ UNCHANGED <<brokerVars, consuming, unacked, setbacks>>

Ack(c) ==
    /\ handled[c] # Nobody
    /\ unacked' = [unacked EXCEPT ![c][handled[c]] = @ - 1]
    /\ handled' = [handled EXCEPT ![c] = Nobody]
    /\ UNCHANGED <<brokerVars, consuming, profile, setbacks>>

\* Mutated: Reject with requeue.
RejectRequeue(c, m, type) ==
    /\ NextDelivery(c, m)
    /\ type \notin ValidType
    /\ unacked' = [unacked EXCEPT ![c][m] = @ - 1]
    /\ queue' = [queue EXCEPT ![m] = @ + 1]
    /\ UNCHANGED <<bound, accepted, consuming, handled, profile, setbacks>>

\* ErrInvalidEvent: Reject without requeue drops the message.
RejectInvalid(c, m, type) ==
    /\ NextDelivery(c, m)
    /\ type \notin ValidType
    /\ unacked' = [unacked EXCEPT ![c][m] = @ - 1]
    /\ UNCHANGED <<brokerVars, consuming, handled, profile, setbacks>>

\* CreateProfile returns a database error: Nack with requeue.
RequeueAfterError(c, m, type) ==
    /\ NextDelivery(c, m)
    /\ type \in ValidType
    /\ setbacks < MaxSetbacks
    /\ setbacks' = setbacks + 1
    /\ unacked' = [unacked EXCEPT ![c][m] = @ - 1]
    /\ queue' = [queue EXCEPT ![m] = @ + 1]
    /\ UNCHANGED <<bound, accepted, consuming, handled, profile>>

\* Mutated: deliveries are acknowledged when they are sent (autoAck).
StopAfterAutoAck(c) ==
    /\ consuming[c]
    /\ setbacks < MaxSetbacks
    /\ setbacks' = setbacks + 1
    /\ consuming' = [consuming EXCEPT ![c] = FALSE]
    /\ unacked' = [unacked EXCEPT ![c] = [m \in Msg |-> 0]]
    /\ handled' = [handled EXCEPT ![c] = Nobody]
    /\ UNCHANGED <<brokerVars, profile>>

\* Mutated: the message being handled is acknowledged on the next channel.
StopAndAckLater(c) ==
    /\ consuming[c]
    /\ setbacks < MaxSetbacks
    /\ setbacks' = setbacks + 1
    /\ consuming' = [consuming EXCEPT ![c] = FALSE]
    /\ queue' = [m \in Msg |-> queue[m] + unacked[c][m]]
    /\ unacked' = [unacked EXCEPT ![c] = [m \in Msg |-> 0]]
    /\ UNCHANGED <<bound, accepted, handled, profile>>

\* The delivery channel closes or the process dies.  Consume returns, the
\* process exits and is restarted; the broker requeues what was not settled.
StopConsumer(c) ==
    /\ consuming[c]
    /\ setbacks < MaxSetbacks
    /\ setbacks' = setbacks + 1
    /\ consuming' = [consuming EXCEPT ![c] = FALSE]
    /\ queue' = [m \in Msg |-> queue[m] + unacked[c][m]]
    /\ unacked' = [unacked EXCEPT ![c] = [m \in Msg |-> 0]]
    /\ handled' = [handled EXCEPT ![c] = Nobody]
    /\ UNCHANGED <<bound, accepted, profile>>

HandleDelivery(c, m, type) == CreateProfile(c, m, type) \/ RejectInvalid(c, m, type)
=============================================================================
