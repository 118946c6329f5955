------------------------------- MODULE Outbox -------------------------------
(***************************************************************************)
(* Registration in the accounts service and the relay that empties its     *)
(* outbox.                                                                 *)
(*                                                                         *)
(* RegisterWithPassword runs one transaction: it inserts the account row,  *)
(* inserts the account.created row, commits.  The id of the outbox row is  *)
(* drawn from a BIGSERIAL sequence at the INSERT, not at the COMMIT, and a *)
(* rolled back transaction leaves a gap.                                   *)
(*                                                                         *)
(* Each relay runs RunOnce over and over: one transaction that locks a     *)
(* batch of unpublished rows (FOR UPDATE SKIP LOCKED), publishes them in   *)
(* id order, marks each after its confirm, and commits the marks together. *)
(***************************************************************************)
EXTENDS Broker, FiniteSets, FiniteSetsExt

CONSTANTS
    Reg,            \* registration attempts; each would create one account
    Email,          \* email addresses
    AccountType,    \* the valid account types
    InvalidType,    \* a requested type that AccountType.Valid rejects
    Relay,          \* accounts processes, each running one relay
    BatchSize,      \* rows listed by one RunOnce
    MaxFailures,    \* bound: nacks, failed statements, restarts of a sound process
    MaxDrops,       \* bound: publisher channels closed by the broker
    None

VARIABLES
    reg,            \* [Reg -> registration request: pc, email, type]
    event,          \* [Reg -> outbox row written by the request, or None]
    nextId,         \* next value of the outbox_events id sequence
    published,      \* rows whose published_at is committed
    relay,          \* [Relay -> RunOnce: pc, locked batch, marked, sent]
    channel,        \* [Relay -> "open" or "closed"], the publisher's channel
    failures,       \* relay crashes and failed statements so far
    drops           \* channels lost so far

regVars == <<reg, event, nextId>>
relayVars == <<published, relay, channel, failures, drops>>
outboxVars == <<regVars, relayVars>>

Requests ==
    [pc : {"idle", "begun", "account", "event", "committed", "failed"},
     email : Email \cup {None}, type : AccountType \cup {InvalidType, None}]
Rows == [id : Nat, type : AccountType \cup {InvalidType}]
ASSUME OutboxAssumption ==
    /\ InvalidType \notin AccountType
    /\ None \notin AccountType
    /\ Reg \subseteq Msg
    /\ None \notin Reg
    /\ None \notin Rows
    /\ BatchSize \in Nat \ {0}
    /\ MaxFailures \in Nat
    /\ MaxDrops \in Nat

Passes ==
    [pc : {"idle", "publishing", "confirming", "committing"},
     batch : SUBSET Reg, marked : SUBSET Reg, sent : Reg \cup {None}]

IdleRequest == [pc |-> "idle", email |-> None, type |-> None]
IdlePass == [pc |-> "idle", batch |-> {}, marked |-> {}, sent |-> None]

OutboxTypeOK ==
    /\ reg \in [Reg -> Requests]
    /\ event \in [Reg -> Rows \cup {None}]
    /\ nextId \in Nat
    /\ published \in SUBSET Reg
    /\ relay \in [Relay -> Passes]
    /\ channel \in [Relay -> {"open", "closed"}]
    /\ failures \in Nat
    /\ drops \in Nat

OutboxInit ==
    /\ reg = [r \in Reg |-> IdleRequest]
    /\ event = [r \in Reg |-> None]
    /\ nextId = 1
    /\ published = {}
    /\ relay = [p \in Relay |-> IdlePass]
    /\ channel = [p \in Relay |-> "open"]
    /\ failures = 0
    /\ drops = 0

Committed(r) == reg[r].pc = "committed"
-----------------------------------------------------------------------------
(* RegisterWithPassword *)

\* A request arrives; an invalid account type is refused before Begin.
BeginRegistration(r) ==
    /\ reg[r].pc = "idle"
    /\ \E e \in Email, t \in AccountType \cup {InvalidType} :
         reg' = [reg EXCEPT ![r] =
                   [pc |-> IF t \in AccountType THEN "begun" ELSE "failed",
                    email |-> e, type |-> t]]
    /\ UNCHANGED <<event, nextId, relayVars, brokerVars>>

HasAccountRow(s) == reg[s].pc \in {"account", "event", "committed"}

\* INSERT INTO accounts.  The unique index on email makes it wait for an open
\* transaction that inserted the same address, and fail once that has committed.
CreateAccount(r) ==
    LET rivals == {s \in Reg : reg[s].email = reg[r].email /\ HasAccountRow(s)}
    IN  /\ reg[r].pc = "begun"
        /\ \A s \in rivals : Committed(s)
        /\ reg' = [reg EXCEPT ![r].pc = IF rivals = {} THEN "account" ELSE "failed"]
        /\ UNCHANGED <<event, nextId, relayVars, brokerVars>>

\* INSERT INTO outbox_events in the same transaction; the sequence moves on.
EnqueueAccountCreated(r) ==
    /\ reg[r].pc = "account"
    /\ reg' = [reg EXCEPT ![r].pc = "event"]
    /\ event' = [event EXCEPT ![r] = [id |-> nextId, type |-> reg[r].type]]
    /\ nextId' = nextId + 1
    /\ UNCHANGED <<relayVars, brokerVars>>

CommitRegistration(r) ==
    /\ reg[r].pc = "event"
    /\ reg' = [reg EXCEPT ![r].pc = "committed"]
    /\ UNCHANGED <<event, nextId, relayVars, brokerVars>>

\* A statement fails, the connection is lost or the process dies: the deferred
\* Rollback, or the database, removes both rows.
RollbackRegistration(r) ==
    /\ reg[r].pc \in {"begun", "account", "event"}
    /\ reg' = [reg EXCEPT ![r].pc = "failed"]
    /\ event' = [event EXCEPT ![r] = None]
    /\ UNCHANGED <<nextId, relayVars, brokerVars>>

RegistrationNext(r) ==
    \/ BeginRegistration(r)
    \/ CreateAccount(r)
    \/ EnqueueAccountCreated(r)
    \/ CommitRegistration(r)
    \/ RollbackRegistration(r)
-----------------------------------------------------------------------------
(* Relay.RunOnce *)

\* Mutated: FOR UPDATE SKIP LOCKED left out of the query.
NothingLocked == {}

Locked == UNION {relay[p].batch : p \in Relay}

\* Mutated: the event is listed as soon as it is inserted.
Inserted == {r \in Reg : event[r] # None /\ r \notin published}

Unpublished == {r \in Reg : Committed(r) /\ r \notin published}

\* ORDER BY id LIMIT BatchSize over the rows no other transaction has locked.
FirstRows(rows) ==
    {b \in SUBSET rows :
        /\ Cardinality(b) = IF Cardinality(rows) < BatchSize
                              THEN Cardinality(rows) ELSE BatchSize
        /\ \A r \in b, s \in rows \ b : event[r].id < event[s].id}

\* Begin and ListUnpublishedOutboxEvents.  A pass that finds no row changes
\* nothing and is left out.
ListUnpublished(p) ==
    /\ relay[p].pc = "idle"
    /\ Unpublished \ Locked # {}
    /\ \E b \in FirstRows(Unpublished \ Locked) :
         relay' = [relay EXCEPT ![p] = [IdlePass EXCEPT !.pc = "publishing",
                                                        !.batch = b]]
    /\ UNCHANGED <<regVars, published, channel, failures, drops, brokerVars>>

Remaining(p) == relay[p].batch \ relay[p].marked

\* PublishWithContext on an open channel, and the broker accepts the message.
Publish(p, r) ==
    /\ relay[p].pc = "publishing"
    /\ channel[p] = "open"
    /\ r \in Remaining(p)
    /\ \A s \in Remaining(p) \ {r} : event[r].id < event[s].id
    /\ Accept(r)
    /\ relay' = [relay EXCEPT ![p].pc = "confirming", ![p].sent = r]
    /\ UNCHANGED <<regVars, published, channel, failures, drops>>

\* Mutated: the error of Publish is not looked at.
PublishErrorIgnored(p) ==
    /\ relay[p].pc = "publishing"
    /\ channel[p] = "closed"
    /\ relay' = [relay EXCEPT ![p].marked = relay[p].batch]
    /\ UNCHANGED <<regVars, published, channel, failures, drops, brokerVars>>

\* The channel is closed, so Publish returns an error: the loop breaks and the
\* marks made so far are committed.
PublishFails(p) ==
    /\ relay[p].pc = "publishing"
    /\ Remaining(p) # {}
    /\ channel[p] = "closed"
    /\ relay' = [relay EXCEPT ![p].pc = "committing"]
    /\ UNCHANGED <<regVars, published, channel, failures, drops, brokerVars>>

\* The broker answers with a nack, keeping nothing: the same error path.
PublishRejected(p) ==
    /\ relay[p].pc = "publishing"
    /\ Remaining(p) # {}
    /\ channel[p] = "open"
    /\ failures < MaxFailures
    /\ failures' = failures + 1
    /\ relay' = [relay EXCEPT ![p].pc = "committing"]
    /\ UNCHANGED <<regVars, published, channel, drops, brokerVars>>

\* The confirm arrives, or is already in the buffer of a channel that has just
\* closed, and MarkOutboxEventPublished runs in the transaction.
MarkPublished(p) ==
    /\ relay[p].pc = "confirming"
    /\ relay' = [relay EXCEPT ![p].pc = "publishing",
                              ![p].marked = @ \cup {relay[p].sent},
                              ![p].sent = None]
    /\ UNCHANGED <<regVars, published, channel, failures, drops, brokerVars>>

\* The channel closed before the confirm arrived: the closed confirms channel
\* yields a zero Confirmation, Ack = false, and Publish returns an error.
ConfirmLost(p) ==
    /\ relay[p].pc = "confirming"
    /\ channel[p] = "closed"
    /\ relay' = [relay EXCEPT ![p].pc = "committing", ![p].sent = None]
    /\ UNCHANGED <<regVars, published, channel, failures, drops, brokerVars>>

\* Every row of the batch is marked; the loop ends.
BatchDone(p) ==
    /\ relay[p].pc = "publishing"
    /\ Remaining(p) = {}
    /\ relay' = [relay EXCEPT ![p].pc = "committing"]
    /\ UNCHANGED <<regVars, published, channel, failures, drops, brokerVars>>

CommitBatch(p) ==
    /\ relay[p].pc = "committing"
    /\ published' = published \cup relay[p].marked
    /\ relay' = [relay EXCEPT ![p] = IdlePass]
    /\ UNCHANGED <<regVars, channel, failures, drops, brokerVars>>

\* MarkOutboxEventPublished or Commit fails: RunOnce returns and the deferred
\* Rollback forgets every mark of the pass.
RollbackBatch(p) ==
    /\ relay[p].pc \in {"confirming", "committing"}
    /\ failures < MaxFailures
    /\ failures' = failures + 1
    /\ relay' = [relay EXCEPT ![p] = IdlePass]
    /\ UNCHANGED <<regVars, published, channel, drops, brokerVars>>

\* The process stops and is started again: the transaction is rolled back and
\* NewRabbitMQPublisher opens a new channel.  Nothing else ever opens one.
RestartAccounts(p) ==
    /\ IF channel[p] = "closed"
         THEN failures' = failures
         ELSE failures < MaxFailures /\ failures' = failures + 1
    /\ relay' = [relay EXCEPT ![p] = IdlePass]
    /\ channel' = [channel EXCEPT ![p] = "open"]
    /\ UNCHANGED <<regVars, published, drops, brokerVars>>

\* The broker or the network closes the publisher's channel.
ChannelCloses(p) ==
    /\ channel[p] = "open"
    /\ drops < MaxDrops
    /\ drops' = drops + 1
    /\ channel' = [channel EXCEPT ![p] = "closed"]
    /\ UNCHANGED <<regVars, published, relay, failures, brokerVars>>

RelayStep(p) ==
    \/ ListUnpublished(p)
    \/ \E r \in Reg : Publish(p, r)
    \/ PublishFails(p)
    \/ MarkPublished(p)
    \/ ConfirmLost(p)
    \/ BatchDone(p)
    \/ CommitBatch(p)

RelayFault(p) ==
    \/ PublishRejected(p)
    \/ RollbackBatch(p)
    \/ RestartAccounts(p)
    \/ ChannelCloses(p)
=============================================================================
