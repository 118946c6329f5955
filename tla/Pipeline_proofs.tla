-------------------------- MODULE Pipeline_proofs --------------------------
(***************************************************************************)
(* The safety of the registration pipeline for any number of requests,     *)
(* relays and consumers, and any bounds on the faults: DeliveryInv is      *)
(* inductive, hence no published event is lost and no profile disagrees    *)
(* with its account.                                                       *)
(***************************************************************************)
EXTENDS Pipeline, TLAPS

\* Before the first request there is nothing to lose.
LEMMA InitDelivery == Init => DeliveryInv
<1> SUFFICES ASSUME Init PROVE DeliveryInv
  OBVIOUS
<1> USE OutboxAssumption, ConsumerAssumption, QueueDeclaredAssumption DEF Init, OutboxInit, BrokerInit, ConsumerInit
<1>1. TypeOK
  BY DEF TypeOK, OutboxTypeOK, BrokerTypeOK, ConsumerTypeOK, Requests, Passes,
         IdleRequest, IdlePass
<1>2. RowsFollowRequests /\ PassesHoldCommittedRows
  BY DEF RowsFollowRequests, PassesHoldCommittedRows, IdleRequest, IdlePass
<1>3. OnlyCommittedEscape /\ AckAfterProfile /\ ProfileMatchesAccount
  BY DEF OnlyCommittedEscape, AckAfterProfile, ProfileMatchesAccount, InTransit, HasProfile
<1>4. NothingConfirmedLost
  BY DEF NothingConfirmedLost, Confirmed, IdlePass
<1>5. QED
  BY <1>1, <1>2, <1>3, <1>4 DEF DeliveryInv

\* A registration request, committed or rolled back, keeps the invariant.
LEMMA RegistrationKeepsDelivery ==
  ASSUME DeliveryInv, NEW r \in Reg, RegistrationStep(r)
  PROVE  DeliveryInv'
<1> USE DEF DeliveryInv, RegistrationStep, outboxVars, regVars, relayVars, brokerVars,
            consumerVars
<1>0. RegistrationNext(r)
  OBVIOUS
<1>1. TypeOK'
  <2> USE DEF TypeOK, OutboxTypeOK, BrokerTypeOK, ConsumerTypeOK, Requests
  <2>1. CASE BeginRegistration(r)
    BY <2>1 DEF BeginRegistration
  <2>2. CASE CreateAccount(r)
    <3>1. PICK step \in {"account", "failed"} : reg' = [reg EXCEPT ![r].pc = step]
      BY <2>2 DEF CreateAccount
    <3>2. reg' \in [Reg -> Requests]
      BY <3>1
    <3>3. QED
      BY <2>2, <3>2 DEF CreateAccount
  <2>3. CASE EnqueueAccountCreated(r)
    <3>1. reg[r].type \in AccountType
      BY <2>3 DEF EnqueueAccountCreated, RowsFollowRequests
    <3>2. [id |-> nextId, type |-> reg[r].type] \in Rows
      BY <3>1 DEF Rows
    <3>3. event' \in [Reg -> Rows \cup {None}]
      BY <2>3, <3>2 DEF EnqueueAccountCreated
    <3>4. nextId' \in Nat
      BY <2>3 DEF EnqueueAccountCreated
    <3>5. reg' \in [Reg -> Requests]
      BY <2>3 DEF EnqueueAccountCreated
    <3>6. QED
      BY <2>3, <3>3, <3>4, <3>5 DEF EnqueueAccountCreated
  <2>4. CASE CommitRegistration(r)
    BY <2>4 DEF CommitRegistration
  <2>5. CASE RollbackRegistration(r)
    BY <2>5 DEF RollbackRegistration
  <2>6. QED
    BY <1>0, <2>1, <2>2, <2>3, <2>4, <2>5 DEF RegistrationNext
<1>7. RowsFollowRequests'
  <2> USE OutboxAssumption DEF TypeOK, OutboxTypeOK, Requests, RowsFollowRequests
  <2>1. CASE BeginRegistration(r)
    BY <2>1 DEF BeginRegistration
  <2>2. CASE CreateAccount(r)
    BY <2>2 DEF CreateAccount
  <2>3. CASE EnqueueAccountCreated(r)
    BY <2>3 DEF EnqueueAccountCreated, Rows
  <2>4. CASE CommitRegistration(r)
    BY <2>4 DEF CommitRegistration
  <2>5. CASE RollbackRegistration(r)
    BY <2>5 DEF RollbackRegistration
  <2>6. QED
    BY <1>0, <2>1, <2>2, <2>3, <2>4, <2>5 DEF RegistrationNext
<1>2. \A s \in Reg : Committed(s) => Committed(s)' /\ reg'[s].type = reg[s].type
  BY <1>0 DEF TypeOK, OutboxTypeOK, Requests, Committed,
      RegistrationNext, BeginRegistration, CreateAccount, EnqueueAccountCreated,
      CommitRegistration, RollbackRegistration
<1>3. UNCHANGED <<relayVars, brokerVars>>
  BY <1>0 DEF RegistrationNext, BeginRegistration, CreateAccount, EnqueueAccountCreated,
      CommitRegistration, RollbackRegistration
<1>4. PassesHoldCommittedRows'
  BY <1>2, <1>3 DEF PassesHoldCommittedRows, TypeOK, OutboxTypeOK, Passes
<1>5. OnlyCommittedEscape' /\ ProfileMatchesAccount' /\ AckAfterProfile'
  BY <1>2, <1>3 DEF OnlyCommittedEscape, ProfileMatchesAccount, AckAfterProfile,
      InTransit, HasProfile
<1>6. NothingConfirmedLost'
  BY <1>3 DEF NothingConfirmedLost, Confirmed, InTransit, HasProfile
<1>8. QED
  BY <1>1, <1>7, <1>4, <1>5, <1>6

\* So does every step of RunOnce and every fault of a relay.
LEMMA RelayKeepsDelivery ==
  ASSUME DeliveryInv, NEW p \in Relay, RelayNext(p)
  PROVE  DeliveryInv'
<1> USE DEF DeliveryInv, outboxVars, regVars, relayVars, brokerVars, consumerVars
<1>0. RelayStep(p) \/ RelayFault(p)
  BY DEF RelayNext
<1>1. UNCHANGED <<regVars, consumerVars>>
  BY <1>0 DEF RelayNext, RelayStep, RelayFault, ListUnpublished, Publish, PublishFails,
     PublishRejected, MarkPublished, ConfirmLost, BatchDone, CommitBatch, RollbackBatch,
     RestartAccounts, ChannelCloses
<1>2. RowsFollowRequests' /\ ProfileMatchesAccount'
  BY <1>1 DEF RowsFollowRequests, ProfileMatchesAccount, HasProfile, Committed
<1>3. AckAfterProfile'
  BY <1>1 DEF AckAfterProfile, HasProfile
<1>4. TypeOK' /\ PassesHoldCommittedRows' /\ OnlyCommittedEscape' /\ NothingConfirmedLost'
  <2> USE <1>1 DEF TypeOK, OutboxTypeOK
  <2> DEFINE Known == PassesHoldCommittedRows' /\ OnlyCommittedEscape' /\ NothingConfirmedLost'
  <2>1. ASSUME UNCHANGED <<published, brokerVars>>, channel' \in [Relay -> {"open", "closed"}],
               failures' \in Nat, drops' \in Nat, relay' \in [Relay -> Passes],
               \A q \in Relay \ {p} : relay'[q] = relay[q],
               \A r \in relay'[p].batch : Committed(r),
               relay'[p].marked \subseteq relay'[p].batch,
               relay'[p].marked \subseteq relay[p].marked,
               relay'[p].pc # "confirming"
        PROVE  TypeOK' /\ Known
    <3>1. TypeOK'
      BY <2>1 DEF BrokerTypeOK, ConsumerTypeOK
    <3>2. PassesHoldCommittedRows'
      BY <2>1 DEF PassesHoldCommittedRows, Committed
    <3>3. OnlyCommittedEscape'
      BY <2>1 DEF OnlyCommittedEscape, InTransit, HasProfile, Committed
    <3>4. \A r \in Reg : Confirmed(r)' => Confirmed(r)
      BY <2>1 DEF Confirmed
    <3>5. NothingConfirmedLost'
      BY <2>1, <3>4 DEF NothingConfirmedLost, InTransit, HasProfile
    <3>6. QED
      BY <3>1, <3>2, <3>3, <3>5
  <2>2. relay[p] \in Passes /\ \A r \in relay[p].batch : Committed(r)
    BY DEF PassesHoldCommittedRows
  <2>3. CASE ListUnpublished(p)
    <3>1. PICK b \in SUBSET Unpublished :
            relay' = [relay EXCEPT ![p] = [IdlePass EXCEPT !.pc = "publishing", !.batch = b]]
      BY <2>3 DEF ListUnpublished, FirstRows
    <3>2. /\ relay' \in [Relay -> Passes]
          /\ \A q \in Relay \ {p} : relay'[q] = relay[q]
          /\ relay'[p].batch = b /\ relay'[p].marked = {} /\ relay'[p].pc = "publishing"
      BY <3>1 DEF IdlePass, Passes, Unpublished
    <3>3. QED
      BY <2>1, <2>3, <3>2 DEF ListUnpublished, Unpublished
  <2>4. CASE \E r \in Reg : Publish(p, r)
    <3>1. PICK r \in Reg : Publish(p, r)
      BY <2>4
    <3>2. r \in relay[p].batch /\ Committed(r)
      BY <3>1, <2>2 DEF Publish, Remaining
    <3>3. TypeOK'
      <4>1. relay' \in [Relay -> Passes]
        <5>1. [relay[p] EXCEPT !.pc = "confirming", !.sent = r] \in Passes
          BY <2>2 DEF Passes
        <5>2. relay' = [relay EXCEPT ![p] = [relay[p] EXCEPT !.pc = "confirming", !.sent = r]]
          BY <3>1 DEF Publish
        <5>3. QED
          BY <5>1, <5>2
      <4>2. BrokerTypeOK'
        BY <3>1, OutboxAssumption DEF Publish, Accept, BrokerTypeOK
      <4>3. QED
        BY <3>1, <4>1, <4>2 DEF Publish, ConsumerTypeOK
    <3>4. PassesHoldCommittedRows'
      BY <3>1, <3>2 DEF Publish, PassesHoldCommittedRows, Committed, Passes
    <3>5. /\ \A s \in Reg : s # r => (InTransit(s)' <=> InTransit(s))
          /\ \A s \in Reg : InTransit(s) => InTransit(s)'
          /\ bound => InTransit(r)'
          /\ bound' = bound
      BY <3>1, OutboxAssumption DEF Publish, Accept, InTransit, BrokerTypeOK
    <3>6. OnlyCommittedEscape'
      BY <3>1, <3>2, <3>5 DEF Publish, OnlyCommittedEscape, HasProfile, Committed
    <3>7. \A s \in Reg : s # r => (Confirmed(s)' => Confirmed(s))
      BY <3>1 DEF Publish, Confirmed
    <3>8. NothingConfirmedLost'
      BY <3>5, <3>7 DEF NothingConfirmedLost, HasProfile
    <3>9. QED
      BY <3>3, <3>4, <3>6, <3>8
  <2>5. CASE PublishFails(p) \/ PublishRejected(p) \/ BatchDone(p)
    <3>1. relay' = [relay EXCEPT ![p].pc = "committing"]
      BY <2>5 DEF PublishFails, PublishRejected, BatchDone
    <3>2. UNCHANGED <<published, channel, drops, brokerVars>> /\ failures' \in Nat
      BY <2>5 DEF PublishFails, PublishRejected, BatchDone
    <3>3. /\ relay' \in [Relay -> Passes]
          /\ \A q \in Relay \ {p} : relay'[q] = relay[q]
          /\ relay'[p].batch = relay[p].batch /\ relay'[p].marked = relay[p].marked
          /\ relay'[p].pc = "committing"
      BY <3>1 DEF Passes
    <3>4. QED
      BY <2>1, <2>2, <3>2, <3>3 DEF PassesHoldCommittedRows
  <2>6. CASE MarkPublished(p)
    <3> DEFINE sent == relay[p].sent
    <3>0. sent \in relay[p].batch
      BY <2>6 DEF MarkPublished, PassesHoldCommittedRows
    <3>6. relay' \in [Relay -> Passes]
      <4> DEFINE marked == relay[p].marked \cup {sent}
      <4>1. marked \in SUBSET Reg
        BY <2>2, <3>0 DEF Passes
      <4>2. relay' = [relay EXCEPT ![p].pc = "publishing", ![p].marked = marked, ![p].sent = None]
        BY <2>6 DEF MarkPublished
      <4> HIDE DEF marked
      <4>3. [relay[p] EXCEPT !.pc = "publishing", !.marked = marked, !.sent = None] \in Passes
        BY <2>2, <4>1 DEF Passes
      <4>4. QED
        BY <4>2, <4>3
    <3>1. TypeOK' /\ PassesHoldCommittedRows'
      <4>1. TypeOK'
        BY <2>6, <3>6 DEF MarkPublished, BrokerTypeOK, ConsumerTypeOK
      <4>2. PassesHoldCommittedRows'
        BY <2>6, <3>0 DEF MarkPublished, Passes, PassesHoldCommittedRows, Committed
      <4>3. QED
        BY <4>1, <4>2
    <3>2. OnlyCommittedEscape'
      BY <2>6 DEF MarkPublished, OnlyCommittedEscape, InTransit, HasProfile, Committed
    <3>3. \A r \in Reg : Confirmed(r)' => Confirmed(r)
      BY <2>6 DEF MarkPublished, Confirmed, Passes
    <3>4. NothingConfirmedLost'
      BY <2>6, <3>3 DEF MarkPublished, NothingConfirmedLost, InTransit, HasProfile
    <3>5. QED
      BY <3>1, <3>2, <3>4
  <2>7. CASE ConfirmLost(p)
    <3>1. /\ relay' \in [Relay -> Passes]
          /\ \A q \in Relay \ {p} : relay'[q] = relay[q]
          /\ relay'[p].batch = relay[p].batch /\ relay'[p].marked = relay[p].marked
          /\ relay'[p].pc = "committing"
      BY <2>7 DEF ConfirmLost, Passes
    <3>2. QED
      BY <2>1, <2>2, <2>7, <3>1 DEF ConfirmLost, PassesHoldCommittedRows
  <2>8. CASE CommitBatch(p)
    BY <2>8 DEF CommitBatch, IdlePass, BrokerTypeOK, ConsumerTypeOK, Passes,
       PassesHoldCommittedRows, OnlyCommittedEscape, NothingConfirmedLost, Confirmed,
       InTransit, HasProfile, Committed
  <2>9. CASE RollbackBatch(p) \/ RestartAccounts(p)
    <3>1. /\ relay' = [relay EXCEPT ![p] = IdlePass]
          /\ UNCHANGED <<published, drops, brokerVars>>
          /\ failures' \in Nat /\ channel' \in [Relay -> {"open", "closed"}]
      BY <2>9 DEF RollbackBatch, RestartAccounts
    <3>2. /\ IdlePass \in Passes /\ IdlePass.batch = {} /\ IdlePass.marked = {}
          /\ IdlePass.pc # "confirming"
      BY DEF IdlePass, Passes
    <3>3. /\ relay' \in [Relay -> Passes] /\ relay'[p] = IdlePass
          /\ \A q \in Relay \ {p} : relay'[q] = relay[q]
      BY <3>1, <3>2
    <3>4. QED
      BY <2>1, <3>1, <3>2, <3>3
  <2>10. CASE ChannelCloses(p)
    BY <2>10 DEF ChannelCloses, BrokerTypeOK, ConsumerTypeOK,
       PassesHoldCommittedRows, OnlyCommittedEscape, NothingConfirmedLost, Confirmed,
       InTransit, HasProfile, Committed
  <2>11. QED
    BY <1>0, <2>3, <2>4, <2>5, <2>6, <2>7, <2>8, <2>9, <2>10 DEF RelayStep, RelayFault
<1>5. QED
  BY <1>2, <1>3, <1>4

\* So does a consumer that starts, handles, settles, fails or stops.
LEMMA ConsumerKeepsDelivery ==
  ASSUME DeliveryInv, NEW c \in Consumers, ConsumerStep(c) \/ ConsumerFails(c)
  PROVE  DeliveryInv'
<1> USE DEF DeliveryInv, outboxVars, regVars, relayVars, brokerVars, consumerVars
<1>1. UNCHANGED outboxVars /\ accepted' = accepted
  BY DEF ConsumerStep, ConsumerFails, StartConsumer, Deliver, HandleDelivery, CreateProfile,
     RejectInvalid, Ack, StopConsumer, RequeueAfterError, DeclareAndBind
<1>2. RowsFollowRequests' /\ PassesHoldCommittedRows' /\ OutboxTypeOK'
  BY <1>1 DEF RowsFollowRequests, PassesHoldCommittedRows, Committed, TypeOK, OutboxTypeOK
<1>3. ASSUME UNCHANGED profile, bound => bound',
             \A m \in Msg : InTransit(m) <=> InTransit(m)'
      PROVE  OnlyCommittedEscape' /\ NothingConfirmedLost' /\ ProfileMatchesAccount'
  BY <1>1, <1>3, OutboxAssumption DEF OnlyCommittedEscape, NothingConfirmedLost, ProfileMatchesAccount, Confirmed,
     HasProfile, Committed
<1>4. CASE StartConsumer(c)
  <2>1. BrokerTypeOK' /\ ConsumerTypeOK'
    BY <1>4 DEF StartConsumer, DeclareAndBind, TypeOK, BrokerTypeOK, ConsumerTypeOK
  <2>2. AckAfterProfile'
    BY <1>4 DEF StartConsumer, AckAfterProfile, HasProfile
  <2>3. UNCHANGED profile /\ (bound => bound') /\ \A m \in Msg : InTransit(m) <=> InTransit(m)'
    BY <1>4 DEF StartConsumer, DeclareAndBind, InTransit
  <2>4. QED
    BY <1>2, <1>3, <2>1, <2>2, <2>3 DEF TypeOK
<1>5. ASSUME NEW m \in Msg, Deliver(c, m)
      PROVE  DeliveryInv'
  <2>1. BrokerTypeOK' /\ ConsumerTypeOK'
    BY <1>5 DEF Deliver, TypeOK, BrokerTypeOK, ConsumerTypeOK
  <2>2. AckAfterProfile'
    BY <1>5 DEF Deliver, AckAfterProfile, HasProfile, TypeOK, ConsumerTypeOK
  <2>3. UNCHANGED profile /\ (bound => bound') /\ \A s \in Msg : InTransit(s) <=> InTransit(s)'
    BY <1>5 DEF Deliver, InTransit, TypeOK, BrokerTypeOK, ConsumerTypeOK
  <2>4. QED
    BY <1>2, <1>3, <2>1, <2>2, <2>3 DEF TypeOK
<1>6. ASSUME NEW m \in Msg, CreateProfile(c, m, Payload(m))
      PROVE  DeliveryInv'
  <2>1. BrokerTypeOK' /\ ConsumerTypeOK'
    BY <1>6, ConsumerAssumption DEF CreateProfile, TypeOK, BrokerTypeOK, ConsumerTypeOK
  <2>2. AckAfterProfile'
    BY <1>6, ConsumerAssumption DEF CreateProfile, NextDelivery, AckAfterProfile, HasProfile,
       TypeOK, ConsumerTypeOK
  <2>3. m \in Reg
    BY <1>6, PipelineAssumption, OutboxAssumption DEF CreateProfile, Payload
  <2>4. InTransit(m) /\ Committed(m)
    BY <1>6, <2>3 DEF CreateProfile, NextDelivery, InTransit, OnlyCommittedEscape
  <2>5. Payload(m) = reg[m].type
    BY <2>3, <2>4, OutboxAssumption DEF Payload, RowsFollowRequests, Committed
  <2>6. OnlyCommittedEscape' /\ NothingConfirmedLost' /\ ProfileMatchesAccount'
    BY <1>1, <1>6, <2>4, <2>5, ConsumerAssumption DEF CreateProfile, OnlyCommittedEscape,
       NothingConfirmedLost, ProfileMatchesAccount, Confirmed, InTransit, HasProfile, Committed,
       TypeOK, ConsumerTypeOK
  <2>7. QED
    BY <1>2, <2>1, <2>2, <2>6 DEF TypeOK
<1>7. CASE Ack(c)
  <2> DEFINE m == handled[c]
  <2>1. m \in Msg /\ HasProfile(m) /\ unacked[c][m] > 0
    BY <1>7 DEF Ack, AckAfterProfile, TypeOK, ConsumerTypeOK
  <2> HIDE DEF m
  <2>2. BrokerTypeOK' /\ ConsumerTypeOK'
    BY <1>7, <2>1 DEF Ack, TypeOK, BrokerTypeOK, ConsumerTypeOK, m
  <2>3. AckAfterProfile'
    BY <1>7, <2>1 DEF Ack, AckAfterProfile, HasProfile, TypeOK, ConsumerTypeOK
  <2>4. \A s \in Msg : (InTransit(s)' => InTransit(s)) /\ (InTransit(s) => InTransit(s)' \/ s = m)
    BY <1>7, <2>1 DEF Ack, InTransit, TypeOK, BrokerTypeOK, ConsumerTypeOK, m
  <2>5. OnlyCommittedEscape' /\ NothingConfirmedLost' /\ ProfileMatchesAccount'
    BY <1>1, <1>7, <2>1, <2>4, OutboxAssumption DEF Ack, OnlyCommittedEscape, NothingConfirmedLost,
       ProfileMatchesAccount, Confirmed, HasProfile, Committed
  <2>6. QED
    BY <1>2, <2>2, <2>3, <2>5 DEF TypeOK
<1>8. ASSUME NEW m \in Msg, RejectInvalid(c, m, Payload(m))
      PROVE  DeliveryInv'
  <2>1. m \notin Reg
    <3>1. SUFFICES ASSUME m \in Reg PROVE FALSE
      OBVIOUS
    <3>2. Committed(m)
      BY <1>8, <3>1 DEF RejectInvalid, NextDelivery, OnlyCommittedEscape, InTransit
    <3>3. Payload(m) \in ValidType
      BY <3>1, <3>2, PipelineAssumption, OutboxAssumption
         DEF Payload, RowsFollowRequests, Committed
    <3>4. QED
      BY <1>8, <3>3 DEF RejectInvalid
  <2>2. BrokerTypeOK' /\ ConsumerTypeOK'
    BY <1>8 DEF RejectInvalid, NextDelivery, TypeOK, BrokerTypeOK, ConsumerTypeOK
  <2>3. AckAfterProfile'
    BY <1>8 DEF RejectInvalid, NextDelivery, AckAfterProfile, HasProfile, TypeOK, ConsumerTypeOK
  <2>4. \A s \in Reg : InTransit(s) <=> InTransit(s)'
    BY <1>8, <2>1, OutboxAssumption DEF RejectInvalid, InTransit, TypeOK, ConsumerTypeOK
  <2>5. OnlyCommittedEscape' /\ NothingConfirmedLost' /\ ProfileMatchesAccount'
    BY <1>1, <1>8, <2>4 DEF RejectInvalid, OnlyCommittedEscape, NothingConfirmedLost,
       ProfileMatchesAccount, Confirmed, HasProfile, Committed
  <2>6. QED
    BY <1>2, <2>2, <2>3, <2>5 DEF TypeOK
<1>9. ASSUME NEW m \in Msg, RequeueAfterError(c, m, Payload(m))
      PROVE  DeliveryInv'
  <2>1. BrokerTypeOK' /\ ConsumerTypeOK'
    BY <1>9 DEF RequeueAfterError, NextDelivery, TypeOK, BrokerTypeOK, ConsumerTypeOK
  <2>2. AckAfterProfile'
    BY <1>9 DEF RequeueAfterError, NextDelivery, AckAfterProfile, HasProfile,
       TypeOK, ConsumerTypeOK
  <2>3. UNCHANGED profile /\ (bound => bound') /\ \A s \in Msg : InTransit(s) <=> InTransit(s)'
    BY <1>9 DEF RequeueAfterError, NextDelivery, InTransit, TypeOK, BrokerTypeOK, ConsumerTypeOK
  <2>4. QED
    BY <1>2, <1>3, <2>1, <2>2, <2>3 DEF TypeOK
<1>10. CASE StopConsumer(c)
  <2>1. BrokerTypeOK' /\ ConsumerTypeOK'
    BY <1>10 DEF StopConsumer, TypeOK, BrokerTypeOK, ConsumerTypeOK
  <2>2. AckAfterProfile'
    BY <1>10 DEF StopConsumer, AckAfterProfile, HasProfile, TypeOK, ConsumerTypeOK
  <2>3. UNCHANGED profile /\ (bound => bound') /\ \A s \in Msg : InTransit(s) <=> InTransit(s)'
    BY <1>10 DEF StopConsumer, InTransit, TypeOK, BrokerTypeOK, ConsumerTypeOK
  <2>4. QED
    BY <1>2, <1>3, <2>1, <2>2, <2>3 DEF TypeOK
<1>11. QED
  BY <1>4, <1>5, <1>6, <1>7, <1>8, <1>9, <1>10 DEF ConsumerStep, ConsumerFails, HandleDelivery

\* So does a message of another producer.
LEMMA StrayKeepsDelivery ==
  ASSUME DeliveryInv, NEW m \in Msg \ Reg, PublishStray(m)
  PROVE  DeliveryInv'
<1> USE DEF DeliveryInv, outboxVars, regVars, relayVars, consumerVars
<1>1. UNCHANGED <<outboxVars, consumerVars, bound>>
  BY DEF PublishStray, Accept
<1>2. TypeOK'
  BY <1>1 DEF PublishStray, Accept, TypeOK, OutboxTypeOK, BrokerTypeOK, ConsumerTypeOK
<1>3. \A r \in Reg : InTransit(r) <=> InTransit(r)'
  BY <1>1, OutboxAssumption DEF PublishStray, Accept, InTransit, TypeOK, BrokerTypeOK
<1>4. RowsFollowRequests' /\ PassesHoldCommittedRows' /\ AckAfterProfile' /\ ProfileMatchesAccount'
  BY <1>1 DEF RowsFollowRequests, PassesHoldCommittedRows, AckAfterProfile,
     ProfileMatchesAccount, HasProfile, Committed
<1>5. OnlyCommittedEscape' /\ NothingConfirmedLost'
  BY <1>1, <1>3 DEF OnlyCommittedEscape, NothingConfirmedLost, Confirmed, HasProfile, Committed
<1>6. QED
  BY <1>2, <1>4, <1>5

\* DeliveryInv holds in every reachable state, for any numbers of requests,
\* relays and consumers.
THEOREM DeliveryInvariant == Spec => []DeliveryInv
<1>1. DeliveryInv /\ [Next]_vars => DeliveryInv'
  <2> SUFFICES ASSUME DeliveryInv, [Next]_vars PROVE DeliveryInv'
    OBVIOUS
  <2>1. CASE Next
    BY <2>1, RegistrationKeepsDelivery, RelayKeepsDelivery, ConsumerKeepsDelivery,
       StrayKeepsDelivery DEF Next
  <2>2. CASE UNCHANGED vars
    <3>1. UNCHANGED <<outboxVars, brokerVars, consumerVars>>
      BY <2>2 DEF vars
    <3>2. TypeOK'
      BY <3>1 DEF DeliveryInv, TypeOK, OutboxTypeOK, BrokerTypeOK, ConsumerTypeOK,
         outboxVars, regVars, relayVars, brokerVars, consumerVars
    <3>3. QED
      BY <3>1, <3>2 DEF DeliveryInv, RowsFollowRequests, PassesHoldCommittedRows,
         OnlyCommittedEscape, AckAfterProfile, NothingConfirmedLost, ProfileMatchesAccount,
         Confirmed, InTransit, HasProfile, Committed,
         outboxVars, regVars, relayVars, brokerVars, consumerVars
  <2>3. QED
    BY <2>1, <2>2
<1>2. QED
  BY InitDelivery, <1>1, PTL DEF Spec

\* The pipeline is type correct.
THEOREM TypeCorrect == Spec => []TypeOK
<1>1. DeliveryInv => TypeOK
  BY DEF DeliveryInv
<1>2. QED
  BY <1>1, DeliveryInvariant, PTL

\* Once the consumer's queue exists, an event marked published has made its
\* profile or is still with the broker: RunOnce and handleDelivery never lose
\* one, whatever restarts, is rolled back, resent or redelivered.
THEOREM NothingLost == Spec => []NoEventLost
<1>1. DeliveryInv => NoEventLost
  BY DEF DeliveryInv, TypeOK, OutboxTypeOK, NothingConfirmedLost, Confirmed, NoEventLost
<1>2. QED
  BY <1>1, DeliveryInvariant, PTL

\* Every profile belongs to a committed registration and has its account type.
THEOREM ProfilesAgree == Spec => []ProfileMatchesAccount
<1>1. DeliveryInv => ProfileMatchesAccount
  BY DEF DeliveryInv
<1>2. QED
  BY <1>1, DeliveryInvariant, PTL

-----------------------------------------------------------------------------
(* Registration implements the safety of its promise. *)

\* No account row exists before the first request.
LEMMA InitEmails == Init => EmailsUnique
BY DEF Init, OutboxInit, EmailsUnique, HasAccountRow, IdleRequest

\* CreateAccount inserts an address while no transaction, open or committed, has
\* inserted it, and no other step gives a request a row or another address.
LEMMA EmailsKeep ==
  ASSUME DeliveryInv, EmailsUnique, [Next]_vars
  PROVE  EmailsUnique'
<1>1. reg \in [Reg -> Requests]
  BY DEF DeliveryInv, TypeOK, OutboxTypeOK
<1>2. ASSUME NEW r \in Reg, RegistrationNext(r)
      PROVE  EmailsUnique'
  <2> USE <1>1 DEF EmailsUnique, HasAccountRow, Requests
  <2>1. CASE BeginRegistration(r)
    BY <2>1 DEF BeginRegistration
  <2>2. CASE CreateAccount(r)
    <3> DEFINE rivals == {s \in Reg : reg[s].email = reg[r].email /\ HasAccountRow(s)}
    <3>1. CASE rivals = {}
      <4>1. reg' = [reg EXCEPT ![r].pc = "account"] /\ reg[r].pc = "begun"
        BY <2>2, <3>1 DEF CreateAccount
      <4>2. \A s \in Reg \ {r} : HasAccountRow(s) => reg[s].email # reg[r].email
        BY <3>1
      <4>3. QED
        BY <4>1, <4>2
    <3>2. CASE rivals # {}
      <4>1. reg' = [reg EXCEPT ![r].pc = "failed"] /\ reg[r].pc = "begun"
        BY <2>2, <3>2 DEF CreateAccount
      <4>2. QED
        BY <4>1
    <3>3. QED
      BY <3>1, <3>2
  <2>3. CASE EnqueueAccountCreated(r) \/ CommitRegistration(r) \/ RollbackRegistration(r)
    <3>1. PICK step \in {"event", "committed", "failed"} : reg' = [reg EXCEPT ![r].pc = step]
      BY <2>3 DEF EnqueueAccountCreated, CommitRegistration, RollbackRegistration
    <3>2. reg[r].pc \in {"account", "event"} \/ (step = "failed" /\ reg[r].pc # "idle")
      BY <2>3, <3>1 DEF EnqueueAccountCreated, CommitRegistration, RollbackRegistration
    <3>3. QED
      BY <3>1, <3>2
  <2>4. QED
    BY <1>2, <2>1, <2>2, <2>3 DEF RegistrationNext
<1>3. CASE ~\E r \in Reg : RegistrationNext(r)
  <2>1. UNCHANGED reg
    BY <1>3 DEF Next, RegistrationStep, RelayNext, RelayStep, RelayFault, ListUnpublished, Publish,
       PublishFails, PublishRejected, MarkPublished, ConfirmLost, BatchDone, CommitBatch,
       RollbackBatch, RestartAccounts, ChannelCloses, PublishStray, ConsumerStep, ConsumerFails,
       vars, outboxVars, regVars
  <2>2. QED
    BY <2>1 DEF EmailsUnique, HasAccountRow
<1>4. QED
  BY <1>2, <1>3

\* EmailsUnique holds in every reachable state.
LEMMA EmailsInvariant == Spec => []EmailsUnique
<1>1. DeliveryInv /\ EmailsUnique /\ [Next]_vars => EmailsUnique'
  BY EmailsKeep
<1>2. QED
  BY InitEmails, <1>1, DeliveryInvariant, PTL DEF Spec

\* The only step of the requests that the promise can see is a commit, and it is
\* the promise's Register.
LEMMA RegistrationRefines ==
  ASSUME DeliveryInv, EmailsUnique, NEW r \in Reg, RegistrationStep(r)
  PROVE  [Promise!Next]_(Promise!vars)
<1>1. reg \in [Reg -> Requests] /\ UNCHANGED profile
  BY DEF DeliveryInv, TypeOK, OutboxTypeOK, RegistrationStep, consumerVars
<1>2. CASE CommitRegistration(r)
  <2>1. /\ ~Committed(r) /\ Committed(r)'
        /\ \A s \in Reg \ {r} : (Committed(s)' <=> Committed(s)) /\ reg'[s] = reg[s]
        /\ reg'[r].email = reg[r].email /\ reg'[r].type = reg[r].type
    BY <1>1, <1>2 DEF CommitRegistration, Committed, Requests
  <2>2. reg[r].email \in Email /\ reg[r].type \in AccountType
    BY <1>2 DEF CommitRegistration, EmailsUnique, DeliveryInv, RowsFollowRequests
  <2>3. \A s \in Reg : Committed(s) => reg[s].email # reg[r].email
    BY <1>2, <2>1 DEF CommitRegistration, EmailsUnique, HasAccountRow, Committed
  <2>4. Promise!Register(r)
    BY <1>1, <2>1, <2>2, <2>3 DEF Promise!Register
  <2>5. QED
    BY <2>4 DEF Promise!Next
<1>3. CASE ~CommitRegistration(r)
  <2>1. \A s \in Reg : (Committed(s)' <=> Committed(s)) /\ (Committed(s) => reg'[s] = reg[s])
    BY <1>1, <1>3 DEF RegistrationStep, RegistrationNext, BeginRegistration, CreateAccount,
       EnqueueAccountCreated, RollbackRegistration, Committed, Requests
  <2>2. QED
    BY <1>1, <2>1 DEF Promise!vars
<1>4. QED
  BY <1>2, <1>3

\* The only step of the consumers that it can see is the first profile of a
\* registration, and it is the promise's CreateProfile.
LEMMA ConsumerRefines ==
  ASSUME DeliveryInv, DeliveryInv', EmailsUnique, NEW c \in Consumers, ConsumerStep(c) \/ ConsumerFails(c)
  PROVE  [Promise!Next]_(Promise!vars)
<1>1. UNCHANGED reg
  BY DEF ConsumerStep, ConsumerFails, outboxVars, regVars
<1>2. CASE UNCHANGED profile
  BY <1>1, <1>2 DEF Promise!vars, Committed
<1>3. ASSUME NEW m \in Msg, CreateProfile(c, m, Payload(m)), profile' # profile
      PROVE  Promise!CreateProfile(m) /\ m \in Reg
  <2>1. profile[m] = Nobody /\ profile' = [profile EXCEPT ![m] = Payload(m)]
    BY <1>3 DEF CreateProfile, DeliveryInv, TypeOK, ConsumerTypeOK
  <2>2. m \in Reg /\ Payload(m) \in ValidType
    BY <1>3, PipelineAssumption, OutboxAssumption DEF CreateProfile, Payload
  <2>3. profile'[m] = Payload(m) /\ Payload(m) # Nobody
    BY <2>1, <2>2, ConsumerAssumption DEF DeliveryInv, TypeOK, ConsumerTypeOK
  <2>4. Committed(m) /\ profile'[m] = reg[m].type
    BY <1>1, <2>2, <2>3 DEF DeliveryInv, ProfileMatchesAccount, HasProfile, Committed
  <2>5. reg[m].email \in Email /\ reg[m].type \in AccountType
    BY <2>2, <2>4 DEF EmailsUnique, DeliveryInv, RowsFollowRequests, Committed
  <2>6. [email |-> reg[m].email, type |-> reg[m].type] # None
    BY <2>5, PipelineAssumption
  <2> DEFINE prof == [r \in Reg |-> profile[r]]
             acct == [r \in Reg |-> IF Committed(r)
                                       THEN [email |-> reg[r].email, type |-> reg[r].type]
                                       ELSE None]
  <2>7. acct[m] # None /\ acct[m].type = reg[m].type /\ prof[m] = None
    BY <2>1, <2>2, <2>4, <2>6, PipelineAssumption
  <2>8. prof' = [prof EXCEPT ![m] = acct[m].type]
    BY <2>1, <2>2, <2>3, <2>4, <2>7, OutboxAssumption DEF DeliveryInv, TypeOK, ConsumerTypeOK
  <2>9. acct' = acct
    BY <1>1 DEF Committed
  <2>10. QED
    BY <2>2, <2>7, <2>8, <2>9 DEF Promise!CreateProfile
<1>4. CASE profile' # profile
  <2>1. PICK m \in Msg : CreateProfile(c, m, Payload(m))
    BY <1>4 DEF ConsumerStep, ConsumerFails, StartConsumer, Deliver, HandleDelivery, RejectInvalid,
       Ack, StopConsumer, RequeueAfterError
  <2>2. Promise!Next
    BY <1>3, <1>4, <2>1 DEF Promise!Next
  <2>3. QED
    BY <2>2
<1>5. QED
  BY <1>2, <1>4

\* The safety of Onboarding, for any numbers of requests, addresses, relays and
\* consumers: an address gets at most one account, and an account one profile, of
\* the type it was registered with, that never changes.
THEOREM RegistrationImplementsPromise == Spec => RegistrationSafety
<1>1. Init => Promise!Init
  BY PipelineAssumption, OutboxAssumption
     DEF Init, OutboxInit, ConsumerInit, IdleRequest, Committed, Promise!Init
<1>2. DeliveryInv /\ DeliveryInv' /\ EmailsUnique /\ [Next]_vars => [Promise!Next]_(Promise!vars)
  <2> SUFFICES ASSUME DeliveryInv, DeliveryInv', EmailsUnique, [Next]_vars
               PROVE  [Promise!Next]_(Promise!vars)
    OBVIOUS
  <2>1. CASE \E r \in Reg : RegistrationStep(r)
    BY <2>1, RegistrationRefines
  <2>2. CASE \E c \in Consumers : ConsumerStep(c) \/ ConsumerFails(c)
    BY <2>2, ConsumerRefines
  <2>3. CASE \/ \E p \in Relay : RelayNext(p)
             \/ \E m \in Msg \ Reg : PublishStray(m)
             \/ UNCHANGED vars
    <3>1. UNCHANGED <<reg, profile>>
      BY <2>3 DEF RelayNext, RelayStep, RelayFault, ListUnpublished, Publish,
         PublishFails, PublishRejected, MarkPublished, ConfirmLost, BatchDone, CommitBatch,
         RollbackBatch, RestartAccounts, ChannelCloses, PublishStray,
         vars, outboxVars, regVars, consumerVars
    <3>2. QED
      BY <3>1 DEF Promise!vars, Committed
  <2>4. QED
    BY <2>1, <2>2, <2>3 DEF Next
<1>3. QED
  BY <1>1, <1>2, DeliveryInvariant, EmailsInvariant, PTL
     DEF Spec, RegistrationSafety, Promise!SafeSpec

-----------------------------------------------------------------------------
(* An event is published again only if something failed. *)

\* No pass has begun, and nothing was accepted.
LEMMA InitCopies == Init => BatchesDisjoint /\ CopiesAccounted
BY OutboxAssumption DEF Init, OutboxInit, BrokerInit, IdlePass, BatchesDisjoint, CopiesAccounted

\* A pass takes rows no other has, and what it commits is in no other.
LEMMA RelayKeepsBatches ==
  ASSUME DeliveryInv, BatchesDisjoint, NEW p \in Relay, RelayNext(p)
  PROVE  BatchesDisjoint'
<1> USE DEF DeliveryInv, TypeOK, OutboxTypeOK
<1>1. \A q \in Relay : relay[q].batch \in SUBSET Reg /\ relay[q].marked \subseteq relay[q].batch
  BY DEF PassesHoldCommittedRows, Passes
<1>2. ASSUME published' = published, \A q \in Relay \ {p} : relay'[q] = relay[q],
             relay'[p].batch \subseteq relay[p].batch,
             relay'[p].pc = "idle" => relay'[p].batch = {}
      PROVE  BatchesDisjoint'
  BY <1>2 DEF BatchesDisjoint
<1>3. CASE ListUnpublished(p)
  <2>1. PICK b \in SUBSET (Unpublished \ Locked) :
          relay' = [relay EXCEPT ![p] = [IdlePass EXCEPT !.pc = "publishing", !.batch = b]]
    BY <1>3 DEF ListUnpublished, FirstRows
  <2>2. /\ relay'[p].batch = b /\ relay'[p].pc = "publishing"
        /\ \A q \in Relay \ {p} : relay'[q] = relay[q]
        /\ published' = published
    BY <1>3, <2>1 DEF IdlePass, ListUnpublished
  <2>3. b \cap published = {} /\ \A q \in Relay \ {p} : b \cap relay[q].batch = {}
    BY <2>1 DEF Unpublished, Locked
  <2>4. QED
    BY <2>2, <2>3 DEF BatchesDisjoint
<1>4. CASE CommitBatch(p)
  <2>1. /\ relay'[p].batch = {} /\ \A q \in Relay \ {p} : relay'[q] = relay[q]
        /\ published' = published \cup relay[p].marked
    BY <1>4 DEF CommitBatch, IdlePass
  <2>2. QED
    BY <1>1, <2>1 DEF BatchesDisjoint
<1>5. CASE ~ListUnpublished(p) /\ ~CommitBatch(p)
  <2>1. /\ published' = published /\ \A q \in Relay \ {p} : relay'[q] = relay[q]
        /\ relay'[p].batch \subseteq relay[p].batch
        /\ relay'[p].pc = "idle" => relay'[p].batch = {}
    BY <1>5 DEF RelayNext, RelayStep, RelayFault, Publish, PublishFails, PublishRejected,
       MarkPublished, ConfirmLost, BatchDone, RollbackBatch, RestartAccounts, ChannelCloses,
       IdlePass, Passes, BatchesDisjoint
  <2>2. QED
    BY <1>2, <2>1
<1>6. QED
  BY <1>3, <1>4, <1>5

\* A copy more is a row that was confirmed nowhere and now is; a confirm that is
\* forgotten costs a failure, or the drop that had closed the channel.
LEMMA RelayKeepsCopies ==
  ASSUME DeliveryInv, BatchesDisjoint, CopiesAccounted, NEW p \in Relay, RelayNext(p)
  PROVE  CopiesAccounted'
<1> USE DEF DeliveryInv, TypeOK, OutboxTypeOK, BrokerTypeOK, brokerVars
<1>1. \A r \in Reg : accepted[r] \in Nat /\ failures \in Nat /\ drops \in Nat
  BY OutboxAssumption
<1>2. \A q \in Relay : relay[q] \in Passes /\ relay[q].marked \subseteq relay[q].batch
                      /\ (relay[q].pc = "confirming" => relay[q].sent \in relay[q].batch)
  BY DEF PassesHoldCommittedRows
<1>3. ASSUME accepted' = accepted, failures' = failures, drops' = drops,
             \A r \in Reg : SafelyConfirmed(r) => SafelyConfirmed(r)'
      PROVE  CopiesAccounted'
  BY <1>1, <1>3 DEF CopiesAccounted
<1>4. ASSUME accepted' = accepted, failures' + drops' = failures + drops + 1
      PROVE  CopiesAccounted'
  BY <1>1, <1>4 DEF CopiesAccounted
<1>5. CASE ListUnpublished(p)
  <2>1. relay[p].marked = {} /\ relay[p].pc = "idle"
    BY <1>2, <1>5 DEF ListUnpublished, BatchesDisjoint
  <2>2. \A q \in Relay \ {p} : relay'[q] = relay[q]
    BY <1>5 DEF ListUnpublished
  <2>3. UNCHANGED <<published, channel, failures, drops, accepted>>
    BY <1>5 DEF ListUnpublished
  <2>4. QED
    BY <1>3, <2>1, <2>2, <2>3 DEF SafelyConfirmed
<1>6. CASE \E r \in Reg : Publish(p, r)
  <2>1. PICK r \in Reg : Publish(p, r)
    BY <1>6
  <2>2. /\ relay' = [relay EXCEPT ![p].pc = "confirming", ![p].sent = r]
        /\ accepted' = [accepted EXCEPT ![r] = @ + 1]
        /\ UNCHANGED <<published, channel, failures, drops>>
        /\ channel[p] = "open" /\ relay[p].pc = "publishing"
        /\ r \in relay[p].batch /\ r \notin relay[p].marked
    BY <2>1 DEF Publish, Accept, Remaining
  <2>3. ~SafelyConfirmed(r)
    BY <1>2, <2>2 DEF SafelyConfirmed, BatchesDisjoint
  <2>4. /\ relay'[p].marked = relay[p].marked /\ relay'[p].pc = "confirming"
        /\ relay'[p].sent = r /\ \A q \in Relay \ {p} : relay'[q] = relay[q]
    BY <1>2, <2>2 DEF Passes
  <2>5. SafelyConfirmed(r)' /\ \A s \in Reg : SafelyConfirmed(s) => SafelyConfirmed(s)'
    BY <2>2, <2>4 DEF SafelyConfirmed
  <2>6. accepted'[r] = accepted[r] + 1 /\ \A s \in Reg \ {r} : accepted'[s] = accepted[s]
    BY <2>2, OutboxAssumption
  <2>7. QED
    BY <1>1, <2>2, <2>3, <2>5, <2>6 DEF CopiesAccounted
<1>7. CASE PublishFails(p) \/ BatchDone(p)
  <2>1. /\ relay' = [relay EXCEPT ![p].pc = "committing"] /\ relay[p].pc # "confirming"
        /\ UNCHANGED <<published, channel, failures, drops, accepted>>
    BY <1>7 DEF PublishFails, BatchDone
  <2>2. relay'[p].marked = relay[p].marked /\ \A q \in Relay \ {p} : relay'[q] = relay[q]
    BY <1>2, <2>1 DEF Passes
  <2>3. QED
    BY <1>3, <2>1, <2>2 DEF SafelyConfirmed
<1>8. CASE MarkPublished(p)
  <2>1. relay'[p].marked = relay[p].marked \cup {relay[p].sent}
        /\ \A q \in Relay \ {p} : relay'[q] = relay[q]
    BY <1>2, <1>8 DEF MarkPublished, Passes
  <2>2. UNCHANGED <<published, channel, failures, drops, accepted>>
    BY <1>8 DEF MarkPublished
  <2>3. QED
    BY <1>3, <2>1, <2>2 DEF SafelyConfirmed
<1>9. CASE ConfirmLost(p)
  <2>1. channel[p] = "closed" /\ UNCHANGED <<published, channel, failures, drops, accepted>>
        /\ \A q \in Relay \ {p} : relay'[q] = relay[q]
    BY <1>9 DEF ConfirmLost
  <2>2. QED
    BY <1>3, <2>1 DEF SafelyConfirmed
<1>10. CASE CommitBatch(p)
  <2>1. /\ published' = published \cup relay[p].marked
        /\ UNCHANGED <<channel, failures, drops, accepted>>
        /\ relay[p].pc = "committing" /\ \A q \in Relay \ {p} : relay'[q] = relay[q]
    BY <1>10 DEF CommitBatch
  <2>2. QED
    BY <1>3, <2>1 DEF SafelyConfirmed
<1>11. CASE PublishRejected(p) \/ RollbackBatch(p) \/ ChannelCloses(p)
  <2>1. accepted' = accepted /\ failures' + drops' = failures + drops + 1
    BY <1>1, <1>11 DEF PublishRejected, RollbackBatch, ChannelCloses
  <2>2. QED
    BY <1>4, <2>1
<1>12. CASE RestartAccounts(p) /\ channel[p] = "closed"
  <2>1. /\ UNCHANGED <<published, failures, drops, accepted>>
        /\ \A q \in Relay \ {p} : relay'[q] = relay[q] /\ channel'[q] = channel[q]
    BY <1>12 DEF RestartAccounts
  <2>2. QED
    BY <1>3, <1>12, <2>1 DEF SafelyConfirmed
<1>13. CASE RestartAccounts(p) /\ channel[p] # "closed"
  <2>1. accepted' = accepted /\ failures' + drops' = failures + drops + 1
    BY <1>1, <1>13 DEF RestartAccounts
  <2>2. QED
    BY <1>4, <2>1
<1>14. QED
  BY <1>5, <1>6, <1>7, <1>8, <1>9, <1>10, <1>11, <1>12, <1>13 DEF RelayNext, RelayStep, RelayFault

\* However many relays run, a row is in one pass at a time, and every second copy
\* of its event is paid for by a failure or a lost channel.
LEMMA CopiesInvariant == Spec => [](BatchesDisjoint /\ CopiesAccounted)
<1>1. DeliveryInv /\ BatchesDisjoint /\ CopiesAccounted /\ [Next]_vars
        => BatchesDisjoint' /\ CopiesAccounted'
  <2> SUFFICES ASSUME DeliveryInv, BatchesDisjoint, CopiesAccounted, [Next]_vars
               PROVE  BatchesDisjoint' /\ CopiesAccounted'
    OBVIOUS
  <2>1. CASE \E p \in Relay : RelayNext(p)
    BY <2>1, RelayKeepsBatches, RelayKeepsCopies
  <2>2. CASE ~\E p \in Relay : RelayNext(p)
    <3>1. UNCHANGED relayVars /\ \A r \in Reg : accepted'[r] = accepted[r]
      BY <2>2, OutboxAssumption DEF Next, RegistrationStep, RegistrationNext, BeginRegistration, CreateAccount,
         EnqueueAccountCreated, CommitRegistration, RollbackRegistration, PublishStray, Accept,
         ConsumerStep, ConsumerFails, StartConsumer, DeclareAndBind, Deliver, HandleDelivery,
         CreateProfile, RejectInvalid, Ack, StopConsumer, RequeueAfterError,
         vars, outboxVars, brokerVars, DeliveryInv, TypeOK, BrokerTypeOK
    <3>2. QED
      BY <3>1 DEF relayVars, BatchesDisjoint, CopiesAccounted, SafelyConfirmed
  <2>3. QED
    BY <2>1, <2>2
<1>2. QED
  BY InitCopies, <1>1, DeliveryInvariant, PTL DEF Spec

\* SKIP LOCKED and the transaction around RunOnce, for any number of relays: an
\* event is accepted once more at most for each failure and each lost channel.
THEOREM DuplicatesBounded == Spec => []DuplicatesNeedFailures
<1>1. DeliveryInv /\ BatchesDisjoint /\ CopiesAccounted => DuplicatesNeedFailures
  <2> SUFFICES ASSUME DeliveryInv, CopiesAccounted, NEW r \in Reg
               PROVE  accepted[r] <= 1 + failures + drops
    BY DEF DuplicatesNeedFailures
  <2>1. accepted[r] \in Nat /\ failures \in Nat /\ drops \in Nat
    BY OutboxAssumption DEF DeliveryInv, TypeOK, OutboxTypeOK, BrokerTypeOK
  <2>2. QED
    BY <2>1 DEF CopiesAccounted
<1>2. QED
  BY <1>1, DeliveryInvariant, CopiesInvariant, PTL
=============================================================================
