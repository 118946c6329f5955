---------------------------- MODULE Login_proofs ----------------------------
(***************************************************************************)
(* LoginInv is inductive for any finite set of requests, any thresholds,   *)
(* slots and delays, and any number of failures: lemmas about the two sets *)
(* that are counted, then one lemma for each action.                       *)
(***************************************************************************)
EXTENDS Login, FiniteSetTheorems, TLAPS

\* The requests that are hashing, and those with a wrong password under way,
\* are some of the finitely many.
LEMMA RequestsCounted ==
  /\ Cardinality(Request) \in Nat
  /\ IsFiniteSet(Hashing) /\ Cardinality(Hashing) \in Nat
  /\ IsFiniteSet(WrongUnderWay) /\ Cardinality(WrongUnderWay) \in Nat
  /\ Cardinality(WrongUnderWay) <= Cardinality(Request)
<1>1. IsFiniteSet(Request) /\ Cardinality(Request) \in Nat
  BY LoginAssumption, FS_CardinalityType DEF LoginAssumption
<1>2. Hashing \in SUBSET Request /\ WrongUnderWay \in SUBSET Request
  BY DEF Hashing, WrongUnderWay
<1>3. IsFiniteSet(Hashing) /\ IsFiniteSet(WrongUnderWay)
      /\ Cardinality(WrongUnderWay) <= Cardinality(Request)
  BY <1>1, <1>2, FS_Subset
<1>4. QED
  BY <1>1, <1>3, FS_CardinalityType

\* One more request hashes.
LEMMA HashingEntered ==
  ASSUME TypeOK, NEW q \in Request, pc[q] # "hashing", pc' = [pc EXCEPT ![q] = "hashing"]
  PROVE  Cardinality(Hashing') = Cardinality(Hashing) + 1
<1>1. Hashing' = Hashing \cup {q} /\ q \notin Hashing
  BY DEF Hashing, TypeOK
<1>2. QED
  BY <1>1, RequestsCounted, FS_AddElement

\* One request less hashes.
LEMMA HashingLeft ==
  ASSUME TypeOK, NEW q \in Request, pc[q] = "hashing",
         NEW step, step # "hashing", pc' = [pc EXCEPT ![q] = step]
  PROVE  /\ Cardinality(Hashing') = Cardinality(Hashing) - 1
         /\ Cardinality(Hashing) > 0
<1>1. Hashing' = Hashing \ {q} /\ q \in Hashing
  BY DEF Hashing, TypeOK
<1>2. Cardinality(Hashing') = Cardinality(Hashing) - 1
  BY <1>1, RequestsCounted, FS_RemoveElement
<1>3. Cardinality(Hashing) # 0
  BY <1>1, RequestsCounted, FS_EmptySet
<1>4. QED
  BY <1>2, <1>3, RequestsCounted

\* A request that neither was hashing nor is now does not change the count.
LEMMA HashingSame ==
  ASSUME TypeOK, NEW q \in Request, pc[q] # "hashing",
         NEW step, step # "hashing", pc' = [pc EXCEPT ![q] = step]
  PROVE  Cardinality(Hashing') = Cardinality(Hashing)
<1>1. Hashing' = Hashing
  BY DEF Hashing, TypeOK
<1>2. QED
  BY <1>1

\* A wrong password that is answered is under way no more.
LEMMA WrongLeft ==
  ASSUME TypeOK, NEW q \in Request, password[q] = "wrong",
         password' = [password EXCEPT ![q] = "none"]
  PROVE  Cardinality(WrongUnderWay') = Cardinality(WrongUnderWay) - 1
<1>1. WrongUnderWay' = WrongUnderWay \ {q} /\ q \in WrongUnderWay
  BY DEF WrongUnderWay, TypeOK
<1>2. QED
  BY <1>1, RequestsCounted, FS_RemoveElement

\* A request that takes any other password adds none that is wrong.
LEMMA WrongNotAdded ==
  ASSUME TypeOK, NEW q \in Request, NEW word, word # "wrong",
         password' = [password EXCEPT ![q] = word]
  PROVE  /\ Cardinality(WrongUnderWay') <= Cardinality(WrongUnderWay)
         /\ Cardinality(WrongUnderWay') \in Nat
<1>1. WrongUnderWay' \in SUBSET WrongUnderWay
  BY DEF WrongUnderWay, TypeOK
<1>2. QED
  BY <1>1, RequestsCounted, FS_Subset, FS_CardinalityType

\* One more lock lets through as many more guesses as there are requests.
LEMMA OneMoreLock ==
  ASSUME NEW a \in Nat, NEW n \in Nat
  PROVE  (a + 1) * n = a * n + n /\ a * n \in Nat
OBVIOUS

\* What ends at most d after now ends at most d after any later time.
LEMMA LaterBound ==
  ASSUME NEW a \in Nat, NEW d \in Nat, NEW now \in Nat, NEW later \in Nat,
         now <= later, a <= now + d
  PROVE  a <= later + d
OBVIOUS

\* Nothing is counted at the start.
LEMMA InitLogin == Init => LoginInv
<1> SUFFICES ASSUME Init PROVE LoginInv
  OBVIOUS
<1> USE LoginAssumption DEF LoginAssumption, Init
<1>1. SlotsAccounted
  <2>1. Hashing = {}
    BY DEF Hashing
  <2>2. QED
    BY <2>1, FS_EmptySet DEF SlotsAccounted
<1>2. TypeOK
  BY DEF TypeOK
<1>3. FailedAreWrong /\ CounterIsStreak /\ TimesBounded /\ LockFollowsStreak
  BY DEF FailedAreWrong, CounterIsStreak, TimesBounded, LockFollowsStreak, Locked
<1>4. GuessesSpent
  BY RequestsCounted DEF GuessesSpent, Locked
<1>5. QED
  BY <1>1, <1>2, <1>3, <1>4 DEF LoginInv

\* A locked account admits no wrong password; without a lock their number is free.
LEMMA LoginKeeps ==
  ASSUME LoginInv, NEW q \in Request, Login(q)
  PROVE  LoginInv'
<1> USE LoginAssumption DEF LoginAssumption, LoginInv, Login, accountVars, historyVars
<1>1. SlotsAccounted' /\ slots' \in 0 .. HashSlots
  BY HashingSame, RequestsCounted DEF SlotsAccounted, TypeOK
<1>2. TypeOK'
  BY <1>1 DEF TypeOK
<1>3. FailedAreWrong'
  BY DEF FailedAreWrong, TypeOK
<1>4. CounterIsStreak' /\ LockFollowsStreak'
  BY DEF CounterIsStreak, LockFollowsStreak, TypeOK, Locked
<1>5. TimesBounded'
  BY DEF TimesBounded, TypeOK, FailedAreWrong
<1>6. GuessesSpent'
  <2>1. CASE Locked(clock)
    <3>1. Cardinality(WrongUnderWay') <= Cardinality(WrongUnderWay) /\ Cardinality(WrongUnderWay') \in Nat
      BY <2>1, WrongNotAdded
    <3>2. QED
      BY <2>1, <3>1, RequestsCounted, OneMoreLock DEF GuessesSpent, Locked, TypeOK
  <2>2. CASE ~Locked(clock)
    BY <2>2 DEF GuessesSpent, Locked
  <2>3. QED
    BY <2>1, <2>2
<1>7. QED
  BY <1>1, <1>2, <1>3, <1>4, <1>5, <1>6

\* A registration waits for a slot; no wrong password of the account is added.
LEMMA RegisterKeeps ==
  ASSUME LoginInv, NEW q \in Request, Register(q)
  PROVE  LoginInv'
<1> USE LoginAssumption DEF LoginAssumption, LoginInv, Register, accountVars, historyVars
<1>1. SlotsAccounted' /\ slots' \in 0 .. HashSlots
  BY HashingSame, RequestsCounted DEF SlotsAccounted, TypeOK
<1>2. TypeOK'
  BY <1>1 DEF TypeOK
<1>3. FailedAreWrong'
  BY DEF FailedAreWrong, TypeOK
<1>4. CounterIsStreak' /\ LockFollowsStreak'
  BY DEF CounterIsStreak, LockFollowsStreak, TypeOK, Locked
<1>5. TimesBounded'
  BY DEF TimesBounded, TypeOK, FailedAreWrong
<1>6. GuessesSpent'
  <2>1. Cardinality(WrongUnderWay') <= Cardinality(WrongUnderWay) /\ Cardinality(WrongUnderWay') \in Nat
    BY WrongNotAdded
  <2>2. QED
    BY <2>1, RequestsCounted, OneMoreLock DEF GuessesSpent, Locked, TypeOK
<1>7. QED
  BY <1>1, <1>2, <1>3, <1>4, <1>5, <1>6

\* A slot is taken while one is left.
LEMMA BeginHashKeeps ==
  ASSUME LoginInv, NEW q \in Request, BeginHash(q)
  PROVE  LoginInv'
<1> USE LoginAssumption DEF LoginAssumption, LoginInv, BeginHash, accountVars, historyVars
<1>1. SlotsAccounted' /\ slots' \in 0 .. HashSlots
  <2>1. Cardinality(Hashing') = Cardinality(Hashing) + 1
    BY HashingEntered
  <2>2. QED
    BY <2>1, RequestsCounted DEF SlotsAccounted, TypeOK
<1>2. TypeOK'
  BY <1>1 DEF TypeOK
<1>3. FailedAreWrong'
  BY DEF FailedAreWrong, TypeOK
<1>4. CounterIsStreak' /\ LockFollowsStreak'
  BY DEF CounterIsStreak, LockFollowsStreak, TypeOK, Locked
<1>5. TimesBounded'
  BY DEF TimesBounded, TypeOK, FailedAreWrong
<1>6. GuessesSpent'
  <2>1. WrongUnderWay' = WrongUnderWay
    BY DEF WrongUnderWay
  <2>2. QED
    BY <2>1 DEF GuessesSpent, Locked
<1>7. QED
  BY <1>1, <1>2, <1>3, <1>4, <1>5, <1>6

\* The slot is returned, and who failed had a wrong password.
LEMMA VerifyPasswordKeeps ==
  ASSUME LoginInv, NEW q \in Request, VerifyPassword(q)
  PROVE  LoginInv'
<1> USE LoginAssumption DEF LoginAssumption, LoginInv, VerifyPassword, accountVars, historyVars
<1>1. SlotsAccounted' /\ slots' \in 0 .. HashSlots
  <2>1. Cardinality(Hashing') = Cardinality(Hashing) - 1 /\ Cardinality(Hashing) > 0
    BY HashingLeft
  <2>2. QED
    BY <2>1, RequestsCounted DEF SlotsAccounted, TypeOK
<1>2. TypeOK'
  BY <1>1 DEF TypeOK
<1>3. FailedAreWrong'
  BY DEF FailedAreWrong, TypeOK
<1>4. CounterIsStreak' /\ LockFollowsStreak'
  BY DEF CounterIsStreak, LockFollowsStreak, TypeOK, Locked
<1>5. TimesBounded'
  BY DEF TimesBounded, TypeOK, FailedAreWrong
<1>6. GuessesSpent'
  <2>1. WrongUnderWay' = WrongUnderWay
    BY DEF WrongUnderWay
  <2>2. QED
    BY <2>1 DEF GuessesSpent, Locked
<1>7. QED
  BY <1>1, <1>2, <1>3, <1>4, <1>5, <1>6

\* Refused without a look at the outcome, and still the slot is returned.
LEMMA RefuseKeeps ==
  ASSUME LoginInv, NEW q \in Request, Refuse(q)
  PROVE  LoginInv'
<1> USE LoginAssumption DEF LoginAssumption, LoginInv, Refuse, Answer, accountVars, historyVars
<1>1. SlotsAccounted' /\ slots' \in 0 .. HashSlots
  <2>1. Cardinality(Hashing') = Cardinality(Hashing) - 1 /\ Cardinality(Hashing) > 0
    BY HashingLeft
  <2>2. QED
    BY <2>1, RequestsCounted DEF SlotsAccounted, TypeOK
<1>2. TypeOK'
  BY <1>1 DEF TypeOK
<1>3. FailedAreWrong'
  BY DEF FailedAreWrong, TypeOK
<1>4. CounterIsStreak' /\ LockFollowsStreak'
  BY DEF CounterIsStreak, LockFollowsStreak, TypeOK, Locked
<1>5. TimesBounded'
  BY DEF TimesBounded, TypeOK, FailedAreWrong
<1>6. GuessesSpent'
  <2>1. Cardinality(WrongUnderWay') <= Cardinality(WrongUnderWay) /\ Cardinality(WrongUnderWay') \in Nat
    BY WrongNotAdded
  <2>2. QED
    BY <2>1, RequestsCounted, OneMoreLock DEF GuessesSpent, Locked, TypeOK
<1>7. QED
  BY <1>1, <1>2, <1>3, <1>4, <1>5, <1>6

\* The slot is returned, and no account is touched.
LEMMA HashPasswordKeeps ==
  ASSUME LoginInv, NEW q \in Request, HashPassword(q)
  PROVE  LoginInv'
<1> USE LoginAssumption DEF LoginAssumption, LoginInv, HashPassword, Answer, accountVars, historyVars
<1>1. SlotsAccounted' /\ slots' \in 0 .. HashSlots
  <2>1. Cardinality(Hashing') = Cardinality(Hashing) - 1 /\ Cardinality(Hashing) > 0
    BY HashingLeft
  <2>2. QED
    BY <2>1, RequestsCounted DEF SlotsAccounted, TypeOK
<1>2. TypeOK'
  BY <1>1 DEF TypeOK
<1>3. FailedAreWrong'
  BY DEF FailedAreWrong, TypeOK
<1>4. CounterIsStreak' /\ LockFollowsStreak'
  BY DEF CounterIsStreak, LockFollowsStreak, TypeOK, Locked
<1>5. TimesBounded'
  BY DEF TimesBounded, TypeOK, FailedAreWrong
<1>6. GuessesSpent'
  <2>1. Cardinality(WrongUnderWay') <= Cardinality(WrongUnderWay) /\ Cardinality(WrongUnderWay') \in Nat
    BY WrongNotAdded
  <2>2. QED
    BY <2>1, RequestsCounted, OneMoreLock DEF GuessesSpent, Locked, TypeOK
<1>7. QED
  BY <1>1, <1>2, <1>3, <1>4, <1>5, <1>6

\* The count and the lock change together.  Under a lock the guess was one of those
\* under way; the failure that sets one lets the others through.
LEMMA RecordFailureKeeps ==
  ASSUME LoginInv, NEW q \in Request, RecordFailure(q)
  PROVE  LoginInv'
<1> USE LoginAssumption DEF LoginAssumption, LoginInv, RecordFailure, Answer, accountVars, historyVars
<1>1. SlotsAccounted' /\ slots' \in 0 .. HashSlots
  BY HashingSame, RequestsCounted DEF SlotsAccounted, TypeOK
<1>2. TypeOK'
  BY <1>1 DEF TypeOK
<1>3. FailedAreWrong'
  BY DEF FailedAreWrong, TypeOK
<1>4. CounterIsStreak' /\ LockFollowsStreak'
  BY DEF CounterIsStreak, LockFollowsStreak, TypeOK, Locked
<1>5. TimesBounded'
  BY DEF TimesBounded, TypeOK, FailedAreWrong
<1>6. GuessesSpent'
  <2> DEFINE n == Cardinality(Request)
             w == Cardinality(WrongUnderWay)
  <2>1. /\ n \in Nat /\ w \in Nat /\ w <= n
        /\ streak \in Nat /\ locks \in Nat /\ MaxFailedAttempts \in Nat
        /\ locks * n \in Nat /\ (locks + 1) * n = locks * n + n
    BY RequestsCounted, OneMoreLock DEF TypeOK
  <2>2. password[q] = "wrong"
    BY DEF FailedAreWrong
  <2>3. Cardinality(WrongUnderWay') = w - 1
    BY <2>2, WrongLeft
  <2>4. w > 0
    <3>1. WrongUnderWay # {}
      BY <2>2 DEF WrongUnderWay
    <3>2. QED
      BY <2>1, <3>1, RequestsCounted, FS_EmptySet
  <2>5. streak' = streak + 1 /\ clock' = clock
    OBVIOUS
  <2> HIDE DEF n, w
  <2>6. CASE Locked(clock)
    <3>1. locks' = locks /\ streak + w <= MaxFailedAttempts - 1 + locks * n
      BY <2>6 DEF GuessesSpent, n, w
    <3>2. streak' + Cardinality(WrongUnderWay') <= MaxFailedAttempts - 1 + locks' * n
      BY <2>1, <2>3, <2>5, <3>1
    <3>3. QED
      BY <3>2, <2>1, <2>3, <2>4, <2>5, <3>1 DEF GuessesSpent, n
  <2>7. CASE ~Locked(clock) /\ attempts + 1 >= MaxFailedAttempts
    <3>1. locks' = locks + 1 /\ streak <= MaxFailedAttempts - 1 + locks * n
      BY <2>7, <2>1 DEF GuessesSpent, n
    <3>2. streak' + Cardinality(WrongUnderWay') <= MaxFailedAttempts - 1 + locks' * n
      BY <2>1, <2>3, <2>5, <3>1
    <3>3. QED
      BY <3>2, <2>1, <2>3, <2>4, <2>5, <3>1 DEF GuessesSpent, n
  <2>8. CASE ~Locked(clock) /\ ~(attempts + 1 >= MaxFailedAttempts)
    <3>1. locks' = locks /\ ~Locked(clock)' /\ streak + 1 <= MaxFailedAttempts - 1
      BY <2>8, <2>1 DEF Locked, CounterIsStreak
    <3>2. QED
      BY <2>1, <2>5, <3>1 DEF GuessesSpent, n
  <2>9. QED
    BY <2>6, <2>7, <2>8
<1>7. QED
  BY <1>1, <1>2, <1>3, <1>4, <1>5, <1>6

\* Count, lock and history start again.
LEMMA RecordSuccessKeeps ==
  ASSUME LoginInv, NEW q \in Request, RecordSuccess(q)
  PROVE  LoginInv'
<1> USE LoginAssumption DEF LoginAssumption, LoginInv, RecordSuccess, Answer, accountVars, historyVars
<1>1. SlotsAccounted' /\ slots' \in 0 .. HashSlots
  BY HashingSame, RequestsCounted DEF SlotsAccounted, TypeOK
<1>2. TypeOK'
  BY <1>1 DEF TypeOK
<1>3. FailedAreWrong'
  BY DEF FailedAreWrong, TypeOK
<1>4. CounterIsStreak' /\ LockFollowsStreak'
  BY DEF CounterIsStreak, LockFollowsStreak, TypeOK, Locked
<1>5. TimesBounded'
  BY DEF TimesBounded, TypeOK, FailedAreWrong
<1>6. GuessesSpent'
  BY RequestsCounted DEF GuessesSpent, Locked, TypeOK
<1>7. QED
  BY <1>1, <1>2, <1>3, <1>4, <1>5, <1>6

\* A sign-in that ends uncounted leaves fewer under way.
LEMMA RecordFailsKeeps ==
  ASSUME LoginInv, NEW q \in Request, RecordFails(q)
  PROVE  LoginInv'
<1> USE LoginAssumption DEF LoginAssumption, LoginInv, RecordFails, Answer, accountVars, historyVars
<1>1. SlotsAccounted' /\ slots' \in 0 .. HashSlots
  BY HashingSame, RequestsCounted DEF SlotsAccounted, TypeOK
<1>2. TypeOK'
  BY <1>1 DEF TypeOK
<1>3. FailedAreWrong'
  BY DEF FailedAreWrong, TypeOK
<1>4. CounterIsStreak' /\ LockFollowsStreak'
  BY DEF CounterIsStreak, LockFollowsStreak, TypeOK, Locked
<1>5. TimesBounded'
  BY DEF TimesBounded, TypeOK, FailedAreWrong
<1>6. GuessesSpent'
  <2>1. Cardinality(WrongUnderWay') <= Cardinality(WrongUnderWay) /\ Cardinality(WrongUnderWay') \in Nat
    BY WrongNotAdded
  <2>2. QED
    BY <2>1, RequestsCounted, OneMoreLock DEF GuessesSpent, Locked, TypeOK
<1>7. QED
  BY <1>1, <1>2, <1>3, <1>4, <1>5, <1>6

\* Time passes, or the account is barred: no sign-in gets too old, and a lock may end.
LEMMA SurroundingsKeep ==
  ASSUME LoginInv, Bar \/ Tick \/ UNCHANGED vars
  PROVE  LoginInv'
<1> USE LoginAssumption DEF LoginAssumption, LoginInv, Bar, Tick, vars, accountVars, requestVars, historyVars
<1>1. /\ UNCHANGED <<attempts, lockedUntil, requestVars, slots, historyVars>>
      /\ clock' \in Nat /\ clock <= clock'
  BY DEF TypeOK
<1>2. TypeOK'
  BY <1>1 DEF TypeOK
<1>3. SlotsAccounted'
  BY <1>1 DEF SlotsAccounted, Hashing
<1>4. FailedAreWrong'
  BY <1>1 DEF FailedAreWrong
<1>5. CounterIsStreak' /\ LockFollowsStreak'
  BY <1>1 DEF CounterIsStreak, LockFollowsStreak, Locked, TypeOK
<1>6. TimesBounded'
  <2>1. /\ lockedUntil \in Nat /\ clock \in Nat /\ LockDuration \in Nat
        /\ lockedUntil <= clock + LockDuration
    BY DEF TimesBounded, TypeOK
  <2>2. lockedUntil <= clock' + LockDuration
    BY <1>1, <2>1, LaterBound
  <2>3. ASSUME NEW q \in Request, pc[q] # "idle", password[q] # "new"
        PROVE  asOf[q] <= clock' /\ clock' <= asOf[q] + MaxLag
    BY <1>1, <2>3 DEF TimesBounded, TypeOK
  <2>4. QED
    BY <1>1, <2>2, <2>3 DEF TimesBounded
<1>7. GuessesSpent'
  <2>1. WrongUnderWay' = WrongUnderWay /\ (Locked(clock)' => Locked(clock))
    BY <1>1 DEF WrongUnderWay, Locked, TypeOK
  <2>2. QED
    BY <1>1, <2>1, RequestsCounted, OneMoreLock DEF GuessesSpent, TypeOK
<1>8. QED
  BY <1>2, <1>3, <1>4, <1>5, <1>6, <1>7

\* LoginInv holds in every reachable state.
THEOREM LoginInvariant == Spec => []LoginInv
<1>1. LoginInv /\ [Next]_vars => LoginInv'
  <2> SUFFICES ASSUME LoginInv, [Next]_vars PROVE LoginInv'
    OBVIOUS
  <2>1. CASE Next
    BY <2>1, LoginKeeps, RegisterKeeps, BeginHashKeeps, VerifyPasswordKeeps, RefuseKeeps,
       HashPasswordKeeps, RecordFailureKeeps, RecordSuccessKeeps, RecordFailsKeeps,
       SurroundingsKeep DEF Next, Step
  <2>2. CASE UNCHANGED vars
    BY <2>2, SurroundingsKeep
  <2>3. QED
    BY <2>1, <2>2
<1>2. QED
  BY InitLogin, <1>1, PTL DEF Spec

\* Login is type correct; in particular no more than HashSlots hashes are computed
\* at a time.
THEOREM LoginTypeCorrect == Spec => []TypeOK
<1>1. LoginInv => TypeOK
  BY DEF LoginInv
<1>2. QED
  BY <1>1, LoginInvariant, PTL

\* However sign-ins overlap, no sequence of MaxFailedAttempts counted failures
\* leaves the account unlocked, and no shorter one locks it.
THEOREM StreakLocks == Spec => []LockFollowsStreak
<1>1. LoginInv => LockFollowsStreak
  BY DEF LoginInv
<1>2. QED
  BY <1>1, LoginInvariant, PTL

\* What a lock lets through between successes is one guess that sets it and those
\* under way.
THEOREM GuessesBounded == Spec => []GuessesPerLock
<1>1. LoginInv => GuessesPerLock
  <2> SUFFICES ASSUME LoginInv PROVE GuessesPerLock
    OBVIOUS
  <2>1. MaxFailedAttempts \in Nat /\ locks * Cardinality(Request) \in Nat /\ streak \in Nat
    BY RequestsCounted, OneMoreLock, LoginAssumption DEF LoginAssumption, LoginInv, TypeOK
  <2>2. QED
    BY <2>1, RequestsCounted DEF LoginInv, GuessesSpent, GuessesPerLock
<1>2. QED
  BY <1>1, LoginInvariant, PTL

\* A failure that sets the lock again took its time at most MaxLag ago, and the
\* lock then in force ends at most LockDuration from now: so what it takes from
\* that lock is at most MaxLag.
THEOREM LockShortenedByLagOnly == Spec => LockEndsEarlyOnlyBySuccess
<1>1. ASSUME LoginInv, [Next]_vars, ~\E q \in Request : RecordSuccess(q)
      PROVE  lockedUntil' >= lockedUntil - MaxLag
  <2> USE LoginAssumption DEF LoginInv, TypeOK, LoginAssumption
  <2>1. CASE \E q \in Request : RecordFailure(q)
    <3>1. PICK q \in Request : RecordFailure(q)
      BY <2>1
    <3>2. clock <= asOf[q] + MaxLag /\ asOf[q] \in Nat
      BY <1>1, <3>1 DEF TimesBounded, FailedAreWrong, RecordFailure
    <3>3. lockedUntil <= clock + LockDuration
      BY <1>1 DEF TimesBounded
    <3>4. lockedUntil' = asOf[q] + LockDuration \/ lockedUntil' = lockedUntil
      BY <3>1 DEF RecordFailure
    <3>5. QED
      BY <1>1, <3>2, <3>3, <3>4
  <2>2. CASE ~\E q \in Request : RecordFailure(q)
    <3>1. UNCHANGED lockedUntil
      BY <1>1, <2>2 DEF Next, Step, Login, Register, BeginHash, VerifyPassword, Refuse, HashPassword,
         RecordFails, Bar, Tick, vars, accountVars
    <3>2. QED
      BY <1>1, <3>1
  <2>3. QED
    BY <2>1, <2>2
<1>2. LoginInv /\ [Next]_vars
        => [Locked(clock) => \/ lockedUntil' >= lockedUntil - MaxLag
                            \/ \E q \in Request : RecordSuccess(q)]_vars
  BY <1>1
<1>3. QED
  BY <1>2, LoginInvariant, PTL DEF Spec, LockEndsEarlyOnlyBySuccess
=============================================================================
