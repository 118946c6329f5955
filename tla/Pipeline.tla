------------------------------ MODULE Pipeline ------------------------------
(***************************************************************************)
(* From a registration request to a profile: the accounts service's        *)
(* transaction and relays (Outbox), the message broker (Broker) and the    *)
(* profiles service's consumers (Consumer), interleaved.                   *)
(***************************************************************************)
EXTENDS Outbox, Consumer

ASSUME PipelineAssumption ==
    /\ PayloadType = AccountType \cup {InvalidType}
    /\ ValidType = AccountType
    /\ Nobody = None
    /\ None \notin [email : Email, type : AccountType]

vars == <<outboxVars, brokerVars, consumerVars>>

Init == OutboxInit /\ BrokerInit /\ ConsumerInit

\* An event carries the type of its outbox row, a stray message no valid type.
Payload(m) == IF m \in Reg THEN event[m].type ELSE InvalidType

\* Another producer sends a message that handleDelivery cannot use; each once.
PublishStray(m) ==
    /\ accepted[m] = 0
    /\ Accept(m)
    /\ UNCHANGED <<outboxVars, consumerVars>>

RegistrationStep(r) == RegistrationNext(r) /\ UNCHANGED consumerVars

RelayNext(p) == (RelayStep(p) \/ RelayFault(p)) /\ UNCHANGED consumerVars

ConsumerStep(c) ==
    /\ \/ StartConsumer(c)
       \/ \E m \in Msg : Deliver(c, m)
       \/ \E m \in Msg : HandleDelivery(c, m, Payload(m))
       \/ Ack(c)
    /\ UNCHANGED outboxVars

ConsumerFails(c) ==
    /\ \/ StopConsumer(c)
       \/ \E m \in Msg : RequeueAfterError(c, m, Payload(m))
    /\ UNCHANGED outboxVars

Next ==
    \/ \E r \in Reg : RegistrationStep(r)
    \/ \E p \in Relay : RelayNext(p)
    \/ \E m \in Msg \ Reg : PublishStray(m)
    \/ \E c \in Consumers : ConsumerStep(c) \/ ConsumerFails(c)

Spec == Init /\ [][Next]_vars

\* Fairness: the relay's ticker fires every second and no step of RunOnce waits
\* for ever; an exited profiles process is restarted (restart: unless-stopped)
\* and its loop takes every delivery.  Requests and faults are not fair.
FairSpec ==
    /\ Spec
    /\ \A p \in Relay : WF_vars(RelayStep(p) /\ UNCHANGED consumerVars)
    /\ \A c \in Consumers : WF_vars(ConsumerStep(c))

\* FairSpec, and somebody restarts an accounts process whose channel is closed:
\* nothing in the code does, and /health keeps answering 200.
RestartedSpec ==
    /\ FairSpec
    /\ \A p \in Relay :
         WF_vars(channel[p] = "closed" /\ RestartAccounts(p) /\ UNCHANGED consumerVars)
-----------------------------------------------------------------------------
\* Every variable of the pipeline keeps its type: no counter of a bag goes
\* below zero, no row or pass is left half built by an error path.
TypeOK == OutboxTypeOK /\ BrokerTypeOK /\ ConsumerTypeOK

InTransit(m) == queue[m] > 0 \/ \E c \in Consumers : unacked[c][m] > 0

HasProfile(m) == profile[m] # Nobody

\* At-least-once delivery (relay.go, package comment), end to end: once a row
\* is marked published its event has not been lost, it has made a profile or
\* is still with the broker.  Needs the queue to exist before the first event.
NoEventLost ==
    QueueDeclared => \A r \in published : HasProfile(r) \/ InTransit(r)

\* A profile belongs to a committed registration and has the type that
\* registration asked for, whatever was rolled back, resent or redelivered
\* (RegisterWithPassword, HandleAccountCreated).
ProfileMatchesAccount ==
    \A r \in Reg : HasProfile(r) => Committed(r) /\ profile[r] = reg[r].type

\* FOR UPDATE SKIP LOCKED and the transaction around RunOnce: however many
\* relays run, an event is published again only if something failed meanwhile.
DuplicatesNeedFailures ==
    \A r \in Reg : accepted[r] <= 1 + failures + drops

\* Registration implements the abstract promise (Onboarding), its safety and
\* its progress: one account per address, and for each its one profile.
Promise == INSTANCE Onboarding WITH
    Absent <- None,
    profile <- [r \in Reg |-> profile[r]],
    account <- [r \in Reg |-> IF Committed(r)
                                THEN [email |-> reg[r].email, type |-> reg[r].type]
                                ELSE None]

RegistrationPromise == Promise!Spec

\* The redeliveries and the relay's passes come to an end, and no message that
\* can never be handled stays in the way (ErrInvalidEvent): from some time on
\* every outbox row is published, every message settled (Ack, Reject), and
\* nothing is sent again.
Quiesces ==
    <>[](Unpublished = {} /\ \A m \in Msg : ~InTransit(m))

\* relay.go:3, "Delivery is at least once", with no precondition.
DeliveredAtLeastOnce ==
    \A r \in published : HasProfile(r) \/ InTransit(r)

\* relay.go:3, "Delivery is at least once", as progress: a committed event is
\* published at some time (RunOnce doc: the rest "are retried on the next call").
EveryEventPublished ==
    \A r \in Reg : Committed(r) ~> r \in published
-----------------------------------------------------------------------------
(* The inductive invariant behind NoEventLost and ProfileMatchesAccount. *)

\* A request holds an outbox row exactly from its insertion to its rollback.
RowsFollowRequests ==
    \A r \in Reg :
        /\ event[r] # None <=> reg[r].pc \in {"event", "committed"}
        /\ event[r] # None => event[r].type = reg[r].type
        /\ reg[r].pc \notin {"idle", "failed"} => reg[r].type \in AccountType

\* A pass holds only committed rows and marks only what it holds.
PassesHoldCommittedRows ==
    \A p \in Relay :
        /\ \A r \in relay[p].batch : Committed(r)
        /\ relay[p].marked \subseteq relay[p].batch
        /\ relay[p].pc = "confirming" => relay[p].sent \in relay[p].batch

\* Nothing is known outside the accounts database of a request that has not
\* committed.
OnlyCommittedEscape ==
    \A r \in Reg : (InTransit(r) \/ HasProfile(r) \/ r \in published) => Committed(r)

\* A message about to be acknowledged is held, and its profile written.
AckAfterProfile ==
    \A c \in Consumers : handled[c] # Nobody =>
        unacked[c][handled[c]] > 0 /\ HasProfile(handled[c])

\* The broker has confirmed r, and a relay remembers it or has committed it.
Confirmed(r) ==
    \/ r \in published
    \/ \E p \in Relay : r \in relay[p].marked
                        \/ (relay[p].pc = "confirming" /\ relay[p].sent = r)

NothingConfirmedLost ==
    QueueDeclared => bound /\ \A r \in Reg : Confirmed(r) => HasProfile(r) \/ InTransit(r)

DeliveryInv ==
    /\ TypeOK
    /\ RowsFollowRequests
    /\ PassesHoldCommittedRows
    /\ OnlyCommittedEscape
    /\ AckAfterProfile
    /\ NothingConfirmedLost
    /\ ProfileMatchesAccount
-----------------------------------------------------------------------------
(* What DuplicatesNeedFailures and RegistrationPromise rest on besides.        *)

\* FOR UPDATE SKIP LOCKED: a row is in one pass at a time, and in none once its
\* mark is committed.
BatchesDisjoint ==
    \A p \in Relay :
        /\ relay[p].batch \cap published = {}
        /\ relay[p].pc = "idle" => relay[p].batch = {}
        /\ \A q \in Relay \ {p} : relay[p].batch \cap relay[q].batch = {}

\* The confirm of r is committed, or known to a pass whose channel is open.
SafelyConfirmed(r) ==
    \/ r \in published
    \/ \E p \in Relay :
         /\ channel[p] = "open"
         /\ r \in relay[p].marked \/ (relay[p].pc = "confirming" /\ relay[p].sent = r)

\* Every copy of an event but the one safely confirmed cost a failure or a drop.
CopiesAccounted ==
    \A r \in Reg : accepted[r] <= failures + drops + (IF SafelyConfirmed(r) THEN 1 ELSE 0)

\* The unique index: of the transactions that hold a row for an address, open or
\* committed, there is one.
EmailsUnique ==
    \A r \in Reg :
        /\ reg[r].pc # "idle" => reg[r].email \in Email
        /\ \A s \in Reg \ {r} :
             HasAccountRow(r) /\ HasAccountRow(s) => reg[s].email # reg[r].email

\* The safety of RegistrationPromise.
RegistrationSafety == Promise!SafeSpec
=============================================================================
