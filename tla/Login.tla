-------------------------------- MODULE Login --------------------------------
(***************************************************************************)
(* auth.Service.Login: password checks, the failure counter and the lock   *)
(* of one account, under concurrent sign-ins.                              *)
(*                                                                         *)
(* A sign-in reads the account and the clock once, hashes the password for *)
(* as long as that takes, and then writes its outcome in one statement     *)
(* that does not look at the lock or at the ban again.  Hashing needs one  *)
(* of a fixed number of slots, which registrations take as well.           *)
(***************************************************************************)
EXTENDS Integers, FiniteSets

CONSTANTS
    Request,            \* sign-ins and registrations handled at a time
    MaxFailedAttempts,  \* maxFailedAttempts
    LockDuration,       \* lockDuration, in ticks
    HashSlots,          \* maxConcurrentHashes
    MaxLag,             \* no sign-in is older than this when it writes
    MaxClock,           \* bound: the last tick
    MaxFailures         \* bound: failed statements, abandoned requests

ASSUME LoginAssumption ==
    /\ MaxFailedAttempts \in Nat \ {0}
    /\ LockDuration \in Nat \ {0}
    /\ HashSlots \in Nat \ {0}
    /\ MaxLag \in Nat
    /\ MaxClock \in Nat
    /\ MaxFailures \in Nat
    /\ IsFiniteSet(Request)

VARIABLES
    clock,
    attempts,           \* failed_login_attempts
    lockedUntil,        \* locked_until; a time that has passed is as good as NULL
    barred,             \* the account is banned, or its email not verified
    pc,                 \* [Request -> next step]
    password,           \* [Request -> what is being hashed]
    asOf,               \* [Request -> now, as read with the account]
    admitted,           \* [Request -> the account read was neither banned nor pending]
    slots,              \* hash slots in use
    streak,             \* history: wrong passwords counted since the last success
    locks,              \* history: times the account got locked since then
    failures

accountVars == <<attempts, lockedUntil, barred>>
requestVars == <<pc, password, asOf, admitted>>
historyVars == <<streak, locks>>
vars == <<clock, accountVars, requestVars, slots, historyVars, failures>>

TypeOK ==
    /\ clock \in Nat
    /\ attempts \in Nat
    /\ lockedUntil \in Nat
    /\ barred \in BOOLEAN
    /\ pc \in [Request -> {"idle", "queued", "hashing", "failed", "passed"}]
    /\ password \in [Request -> {"none", "right", "wrong", "dummy", "new"}]
    /\ asOf \in [Request -> Nat]
    /\ admitted \in [Request -> BOOLEAN]
    /\ slots \in 0 .. HashSlots
    /\ streak \in Nat
    /\ locks \in Nat
    /\ failures \in Nat

Init ==
    /\ clock = 0
    /\ attempts = 0
    /\ lockedUntil = 0
    /\ barred \in BOOLEAN
    /\ pc = [q \in Request |-> "idle"]
    /\ password = [q \in Request |-> "none"]
    /\ asOf = [q \in Request |-> 0]
    /\ admitted = [q \in Request |-> FALSE]
    /\ slots = 0
    /\ streak = 0
    /\ locks = 0
    /\ failures = 0
-----------------------------------------------------------------------------
\* isActiveUntil(account.LockedUntil, now)
Locked(time) == lockedUntil > time

Answer(q) ==
    /\ pc' = [pc EXCEPT ![q] = "idle"]
    /\ password' = [password EXCEPT ![q] = "none"]
    /\ asOf' = [asOf EXCEPT ![q] = 0]
    /\ admitted' = [admitted EXCEPT ![q] = FALSE]

\* Mutated: the lock is not looked at.
LoginUnlocked(q) ==
    /\ pc[q] = "idle"
    /\ \E word \in {"right", "wrong", "dummy"} : password' = [password EXCEPT ![q] = word]
    /\ pc' = [pc EXCEPT ![q] = "queued"]
    /\ asOf' = [asOf EXCEPT ![q] = clock]
    /\ admitted' = [admitted EXCEPT ![q] = ~barred]
    /\ UNCHANGED <<clock, accountVars, slots, historyVars, failures>>

\* GetAccountByEmail.  A locked account has the dummy hash verified instead of
\* its own, and so has an email nobody registered.
Login(q) ==
    /\ pc[q] = "idle"
    /\ \E word \in {"right", "wrong", "dummy"} :
         password' = [password EXCEPT ![q] = IF Locked(clock) THEN "dummy" ELSE word]
    /\ pc' = [pc EXCEPT ![q] = "queued"]
    /\ asOf' = [asOf EXCEPT ![q] = clock]
    /\ admitted' = [admitted EXCEPT ![q] = ~barred]
    /\ UNCHANGED <<clock, accountVars, slots, historyVars, failures>>

\* Service.Register, for whatever email: the password of a new account.
Register(q) ==
    /\ pc[q] = "idle"
    /\ password' = [password EXCEPT ![q] = "new"]
    /\ pc' = [pc EXCEPT ![q] = "queued"]
    /\ UNCHANGED <<clock, accountVars, asOf, admitted, slots, historyVars, failures>>

\* Mutated: hashing does not wait for a slot.
HashAtOnce(q) ==
    /\ pc[q] = "queued"
    /\ slots' = slots + 1
    /\ pc' = [pc EXCEPT ![q] = "hashing"]
    /\ UNCHANGED <<clock, accountVars, password, asOf, admitted, historyVars, failures>>

\* deriveKey gets a slot.
BeginHash(q) ==
    /\ pc[q] = "queued"
    /\ slots < HashSlots
    /\ slots' = slots + 1
    /\ pc' = [pc EXCEPT ![q] = "hashing"]
    /\ UNCHANGED <<clock, accountVars, password, asOf, admitted, historyVars, failures>>

\* deriveKey returns its slot, and Login acts on the comparison.
VerifyPassword(q) ==
    /\ pc[q] = "hashing"
    /\ slots' = slots - 1
    /\ \/ password[q] = "wrong" /\ pc' = [pc EXCEPT ![q] = "failed"]
       \/ password[q] = "right" /\ admitted[q] /\ pc' = [pc EXCEPT ![q] = "passed"]
    /\ UNCHANGED <<clock, accountVars, password, asOf, admitted, historyVars, failures>>

\* Mutated: a sign-in refused without a look at the outcome keeps its slot.
RefuseKeepingSlot(q) ==
    /\ pc[q] = "hashing"
    /\ password[q] = "dummy" \/ (password[q] = "right" /\ ~admitted[q])
    /\ Answer(q)
    /\ UNCHANGED <<clock, accountVars, slots, historyVars, failures>>

\* The dummy hash was verified, or the right password is that of an account
\* that is banned or not active: refused, and nothing is written.
Refuse(q) ==
    /\ pc[q] = "hashing"
    /\ password[q] = "dummy" \/ (password[q] = "right" /\ ~admitted[q])
    /\ slots' = slots - 1
    /\ Answer(q)
    /\ UNCHANGED <<clock, accountVars, historyVars, failures>>

\* HashPassword returns; RegisterWithPassword follows, in a transaction that
\* touches no account but the new one (Outbox).
HashPassword(q) ==
    /\ pc[q] = "hashing"
    /\ password[q] = "new"
    /\ slots' = slots - 1
    /\ Answer(q)
    /\ UNCHANGED <<clock, accountVars, historyVars, failures>>

\* Mutated: the failure that sets the lock does not see the one before it.
LockOneLate(q) ==
    LET locking == attempts >= MaxFailedAttempts
    IN  /\ pc[q] = "failed"
        /\ attempts' = attempts + 1
        /\ lockedUntil' = IF locking THEN asOf[q] + LockDuration ELSE lockedUntil
        /\ streak' = streak + 1
        /\ locks' = IF locking /\ ~Locked(clock) THEN locks + 1 ELSE locks
        /\ Answer(q)
        /\ UNCHANGED <<clock, barred, slots, failures>>

\* Mutated: the counter starts again with the lock, which other failures clear.
LockResetsCounter(q) ==
    LET locking == attempts + 1 >= MaxFailedAttempts
    IN  /\ pc[q] = "failed"
        /\ attempts' = IF locking THEN 0 ELSE attempts + 1
        /\ lockedUntil' = IF locking THEN asOf[q] + LockDuration ELSE 0
        /\ streak' = streak + 1
        /\ locks' = IF locking /\ ~Locked(clock) THEN locks + 1 ELSE locks
        /\ Answer(q)
        /\ UNCHANGED <<clock, barred, slots, failures>>

\* RecordFailedLogin: the lock is decided by the counter that is incremented.
RecordFailure(q) ==
    LET locking == attempts + 1 >= MaxFailedAttempts
    IN  /\ pc[q] = "failed"
        /\ attempts' = attempts + 1
        /\ lockedUntil' = IF locking THEN asOf[q] + LockDuration ELSE lockedUntil
        /\ streak' = streak + 1
        /\ locks' = IF locking /\ ~Locked(clock) THEN locks + 1 ELSE locks
        /\ Answer(q)
        /\ UNCHANGED <<clock, barred, slots, failures>>

\* RecordSuccessfulLogin, whatever has become of the account meanwhile.
RecordSuccess(q) ==
    /\ pc[q] = "passed"
    /\ attempts' = 0
    /\ lockedUntil' = 0
    /\ streak' = 0
    /\ locks' = 0
    /\ Answer(q)
    /\ UNCHANGED <<clock, barred, slots, failures>>

\* The statement fails, or its context is cancelled: nothing is counted.
RecordFails(q) ==
    /\ pc[q] \in {"failed", "passed"}
    /\ failures < MaxFailures
    /\ failures' = failures + 1
    /\ Answer(q)
    /\ UNCHANGED <<clock, accountVars, slots, historyVars>>

\* SetAccountBan or SetAccountStatus, MarkEmailVerified, or the ban runs out.
Bar ==
    /\ barred' = ~barred
    /\ UNCHANGED <<clock, attempts, lockedUntil, requestVars, slots, historyVars, failures>>

Tick ==
    /\ clock < MaxClock
    /\ \A q \in Request :
         pc[q] # "idle" /\ password[q] # "new" => clock - asOf[q] < MaxLag
    /\ clock' = clock + 1
    /\ UNCHANGED <<accountVars, requestVars, slots, historyVars, failures>>

Step(q) ==
    \/ BeginHash(q)
    \/ VerifyPassword(q)
    \/ Refuse(q)
    \/ HashPassword(q)
    \/ RecordFailure(q)
    \/ RecordSuccess(q)

Next ==
    \/ \E q \in Request : Login(q) \/ Register(q) \/ Step(q) \/ RecordFails(q)
    \/ Bar
    \/ Tick

Spec == Init /\ [][Next]_vars

\* Hashing takes a bounded time, and senders blocked on a channel are served
\* in order.
FairSpec == Spec /\ \A q \in Request : SF_vars(Step(q))
-----------------------------------------------------------------------------
\* The lock "never uses a count that another request may already have changed"
\* (recordFailure): once MaxFailedAttempts wrong passwords in a row have been
\* counted the account is, or was, locked, however they overlapped
\* (TestConcurrentFailuresLockAccount has five; this is any number).
LockFollowsStreak ==
    streak >= MaxFailedAttempts <=> locks > 0

\* What the lock is for: between successes, each lock lets through one wrong
\* password to set it off, and those of the sign-ins then under way.
GuessesPerLock ==
    streak <= MaxFailedAttempts - 1 + locks * Cardinality(Request)

\* A lock in force is ended before its time by a success only; wrong passwords
\* still under way shorten it at most by their own delay, and never end it for
\* good, although they decide with the time they read before it was set.
LockEndsEarlyOnlyBySuccess ==
    [][Locked(clock) =>
         \/ lockedUntil' >= lockedUntil - MaxLag
         \/ \E q \in Request : RecordSuccess(q)]_vars

\* Every sign-in and every registration gets its hash and its answer, whatever
\* else fails or is refused: no slot is lost, nobody is overtaken for ever, and
\* again and again a request is over.
LoginEnds == \A q \in Request : []<>(pc[q] = "idle")

-----------------------------------------------------------------------------
(* Why the properties hold: an invariant that is inductive, proved in          *)
(* Login_proofs.                                                               *)

Hashing == {q \in Request : pc[q] = "hashing"}

\* Sign-ins with a wrong password that has not been counted yet.
WrongUnderWay == {q \in Request : password[q] = "wrong"}

\* No slot is lost, and none is given back twice.
SlotsAccounted == slots = Cardinality(Hashing)

\* A sign-in that is refused for its password had a wrong one.
FailedAreWrong == \A q \in Request : pc[q] = "failed" => password[q] = "wrong"

\* The counter and the lock tell the same story.
CounterIsStreak ==
    /\ attempts = streak
    /\ locks = 0 => ~Locked(clock)

\* The lock ends at most lockDuration from now; a sign-in is not from the future,
\* and not older than MaxLag.
TimesBounded ==
    /\ lockedUntil <= clock + LockDuration
    /\ \A q \in Request : pc[q] # "idle" /\ password[q] # "new" =>
         asOf[q] <= clock /\ clock <= asOf[q] + MaxLag

\* Under a lock no wrong password joins those that were under way.
GuessesSpent ==
    streak + (IF Locked(clock) THEN Cardinality(WrongUnderWay) ELSE 0)
        <= MaxFailedAttempts - 1 + locks * Cardinality(Request)

LoginInv ==
    /\ TypeOK
    /\ SlotsAccounted
    /\ FailedAreWrong
    /\ CounterIsStreak
    /\ TimesBounded
    /\ LockFollowsStreak
    /\ GuessesSpent
=============================================================================
