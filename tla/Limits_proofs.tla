--------------------------- MODULE Limits_proofs ---------------------------
(***************************************************************************)
(* The rate limits for any number of keys and requests and any rates: no   *)
(* map outgrows its cap, no key is granted more than its credit, and       *)
(* nobody can tell that keys are evicted.                                  *)
(***************************************************************************)
EXTENDS Limits, FiniteSetTheorems, TLAPS

\* A burst is worth a token at least.
LEMMA ProductBounds ==
  ASSUME NEW b \in Nat \ {0}, NEW p \in Nat \ {0}
  PROVE  b * p \in Nat /\ b * p >= p
<1>1. b * p \in Nat /\ (b - 1) * p \in Nat /\ b * p = (b - 1) * p + p
  BY SMT
<1>2. QED
  BY <1>1

\* The constants of a key.
LEMMA KeyConstants ==
  ASSUME NEW k \in Key
  PROVE  /\ Cap[k] \in Nat /\ Cap[k] <= IdleTTL
         /\ Period[k] \in Nat \ {0} /\ Period[k] <= Cap[k]
         /\ k \in Group[k] /\ Group[k] \subseteq Key
<1>1. k \in Group[k] /\ Group[k] \subseteq Key
  BY DEF Group
<1>2. CASE k[1] = "loginIP"
  <2>1. Cap[k] = IPBurst * IPPeriod /\ Period[k] = IPPeriod
    BY <1>2 DEF Cap, Period
  <2>2. QED
    BY <1>1, <2>1, LimitsAssumption, ProductBounds
<1>3. CASE k[1] = "loginEmail"
  <2>1. Cap[k] = EmailBurst * EmailPeriod /\ Period[k] = EmailPeriod
    BY <1>3 DEF Cap, Period
  <2>2. QED
    BY <1>1, <2>1, LimitsAssumption, ProductBounds
<1>4. CASE k[1] # "loginIP" /\ k[1] # "loginEmail"
  <2>1. Cap[k] = RegisterBurst * RegisterPeriod /\ Period[k] = RegisterPeriod
    BY <1>4 DEF Cap, Period
  <2>2. QED
    BY <1>1, <2>1, LimitsAssumption, ProductBounds
<1>5. QED
  BY <1>2, <1>3, <1>4

\* Two keys of one limiter have the same group, and groups do not overlap.
LEMMA GroupsPartition ==
  ASSUME NEW j \in Key, NEW k \in Key
  PROVE  j \in Group[k] <=> Group[j] = Group[k]
  BY DEF Group

\* The keys of finitely many addresses and emails are finitely many.
LEMMA KeysFinite == IsFiniteSet(Key)
<1>1. IsFiniteSet({"loginIP", "registerIP", "resendIP"}) /\ IsFiniteSet({"loginEmail"})
  <2>1. IsFiniteSet({}) /\ IsFiniteSet({"loginEmail"}) /\ IsFiniteSet({"loginIP"})
    BY FS_EmptySet, FS_Singleton
  <2>2. IsFiniteSet({"loginIP"} \cup {"registerIP"})
    BY <2>1, FS_AddElement
  <2>3. IsFiniteSet(({"loginIP"} \cup {"registerIP"}) \cup {"resendIP"})
    BY <2>2, FS_AddElement
  <2>4. ({"loginIP"} \cup {"registerIP"}) \cup {"resendIP"} = {"loginIP", "registerIP", "resendIP"}
    OBVIOUS
  <2>5. QED
    BY <2>1, <2>3, <2>4
<1>2. IsFiniteSet(AddressKey) /\ IsFiniteSet(EmailKey)
  BY <1>1, LimitsAssumption, FS_Product DEF AddressKey, EmailKey
<1>3. QED
  BY <1>2, FS_Union DEF Key

\* The entries of a limiter are finitely many.
LEMMA EntriesFinite ==
  ASSUME NEW k \in Key
  PROVE  /\ IsFiniteSet(Group[k]) /\ IsFiniteSet(Entries(k)) /\ IsFiniteSet(Recent(k))
         /\ Cardinality(Recent(k)) \in Nat /\ Cardinality(Entries(k)) \in Nat
<1>1. IsFiniteSet(Group[k])
  BY KeyConstants, KeysFinite, FS_Subset
<1>2. Entries(k) \subseteq Group[k] /\ Recent(k) \subseteq Group[k]
  BY DEF Entries, Recent
<1>3. QED
  BY <1>1, <1>2, FS_Subset, FS_CardinalityType

\* Nothing is dropped that still counts, unless its whole map is cleared.
LEMMA DroppedAreFull ==
  ASSUME LimitsInv, NEW k \in Key, NEW j \in Dropped(k), ~Clears(k)
  PROVE  j \in Key /\ j # k /\ level[j] = Cap[j]
<1>1. j \in Entries(k) /\ j \in Group[k] /\ Idle(j) /\ k \notin tracked /\ j \in tracked
  BY DEF Dropped, Entries, Recent
<1>2. j \in Key /\ j # k
  BY <1>1, KeyConstants
<1>3. clock - seen[j] > IdleTTL /\ Cap[j] <= IdleTTL /\ Cap[j] \in Nat
  BY <1>1, <1>2, KeyConstants DEF Idle
<1>4. level[j] <= Cap[j] /\ level[j] \in Nat /\ clock \in Nat /\ seen[j] \in Int
  BY <1>2 DEF LimitsInv, TypeOK
<1>5. level[j] = Cap[j] \/ level[j] >= clock - seen[j]
  BY <1>2 DEF LimitsInv, EarnedSinceUse
<1>6. QED
  BY <1>2, <1>3, <1>4, <1>5, LimitsAssumption

\* The empty maps satisfy the invariant.
LEMMA InitLimits == Init => LimitsInv
<1> SUFFICES ASSUME Init PROVE LimitsInv
  OBVIOUS
<1> USE LimitsAssumption DEF Init
<1>1. TypeOK
  <2>1. Cap \in [Key -> Nat]
    BY KeyConstants DEF Cap
  <2>2. QED
    BY <2>1, KeyConstants DEF TypeOK
<1>2. EarnedSinceUse
  BY DEF EarnedSinceUse
<1>3. CreditBounded
  <2> SUFFICES ASSUME NEW k \in Key
               PROVE  0 * Period[k] + Cap[k] <= Cap[k] * (1 + 0) + 0
    BY DEF CreditBounded
  <2>1. QED
    BY KeyConstants
<1>4. MapsBounded
  <2>1. \A k \in Key : Entries(k) = {}
    BY DEF Entries
  <2>2. QED
    BY <2>1, FS_EmptySet DEF MapsBounded
<1>5. QED
  BY <1>1, <1>2, <1>3, <1>4 DEF LimitsInv

\* Products of the counters with their rates, one more of either.
LEMMA OneMore ==
  ASSUME NEW n \in Nat, NEW p \in Nat
  PROVE  /\ n * p \in Nat /\ p * (1 + n) \in Nat
         /\ (n + 1) * p = n * p + p
         /\ p * (1 + (n + 1)) = p * (1 + n) + p
  BY SMT

\* One request changes each bucket as follows.
LEMMA LevelAfterAllow ==
  ASSUME LimitsInv, NEW k \in Key, Allow(k), NEW j \in Key
  PROVE  /\ level'[j] \in Nat /\ level'[j] <= Cap[j]
         /\ j = k => level'[j] = IF HasToken(k) THEN level[j] - Period[j] ELSE level[j]
         /\ j # k => level'[j] = Cap[j] \/ level'[j] = level[j]
         /\ j # k /\ ~(Clears(k) /\ j \in Group[k]) => level'[j] = level[j]
         /\ j # k /\ j \in Dropped(k) => level'[j] = Cap[j]
<1>1. level'[j] = IF j = k THEN IF HasToken(k) THEN level[k] - Period[k] ELSE level[k]
                  ELSE IF j \in Dropped(k) THEN Cap[j] ELSE level[j]
  BY DEF Allow
<1>2. level[j] \in Nat /\ level[j] <= Cap[j]
  BY DEF LimitsInv, TypeOK
<1>3. j \in Dropped(k) => j \in Group[k]
  BY DEF Dropped, Entries, Recent
<1>4. j \in Dropped(k) /\ ~Clears(k) => level[j] = Cap[j]
  BY DroppedAreFull
<1>5. QED
  BY <1>1, <1>2, <1>3, <1>4, KeyConstants DEF HasToken

\* A request keeps every bucket within what its key has earned.
LEMMA AllowKeepsEarned ==
  ASSUME LimitsInv, NEW k \in Key, Allow(k)
  PROVE  EarnedSinceUse'
<1> SUFFICES ASSUME NEW j \in Key
             PROVE  /\ seen'[j] <= clock'
                    /\ level'[j] = Cap[j] \/ level'[j] >= clock' - seen'[j]
                    /\ j \notin tracked' => level'[j] = Cap[j]
  BY DEF EarnedSinceUse
<1>1. /\ clock' = clock /\ clock \in Nat /\ seen[j] \in Int /\ level'[j] \in Nat
      /\ seen[j] <= clock
      /\ level[j] = Cap[j] \/ level[j] >= clock - seen[j]
      /\ j \notin tracked => level[j] = Cap[j]
  BY LevelAfterAllow DEF LimitsInv, TypeOK, EarnedSinceUse, Allow
<1>2. CASE j = k
  <2>1. seen'[j] = clock /\ j \in tracked'
    BY <1>2 DEF Allow, Used, LimitsInv, TypeOK
  <2>2. QED
    BY <1>1, <2>1
<1>3. CASE j # k
  <2>1. seen'[j] = seen[j] /\ (j \in tracked' <=> j \in tracked /\ j \notin Dropped(k))
    BY <1>3 DEF Allow, Used, LimitsInv, TypeOK
  <2>2. QED
    BY <1>1, <1>3, <2>1, LevelAfterAllow
<1>4. QED
  BY <1>2, <1>3

\* A request costs its key a token or nothing; a clearing pays the others.
LEMMA AllowKeepsCredit ==
  ASSUME LimitsInv, NEW k \in Key, Allow(k)
  PROVE  CreditBounded'
<1> SUFFICES ASSUME NEW j \in Key
             PROVE  granted'[j] * Period[j] + level'[j] <= Cap[j] * (1 + cleared'[j]) + clock'
  BY DEF CreditBounded
<1> DEFINE spent == granted[j] * Period[j]
           bursts == Cap[j] * (1 + cleared[j])
<1>1. /\ clock' = clock /\ clock \in Nat /\ level[j] \in Nat /\ level[j] <= Cap[j]
      /\ granted[j] \in Nat /\ cleared[j] \in Nat
      /\ spent + level[j] <= bursts + clock
  BY DEF LimitsInv, TypeOK, CreditBounded, Allow
<1>2. /\ spent \in Nat /\ bursts \in Nat
      /\ (granted[j] + 1) * Period[j] = spent + Period[j]
      /\ Cap[j] * (1 + (cleared[j] + 1)) = bursts + Cap[j]
  <2>1. Cap[j] \in Nat /\ Period[j] \in Nat
    BY KeyConstants
  <2>2. QED
    BY <1>1, <2>1, OneMore
<1>3. granted'[j] = IF j = k /\ HasToken(k) THEN granted[j] + 1 ELSE granted[j]
  BY DEF Allow, LimitsInv, TypeOK
<1>4. cleared'[j] = IF Clears(k) /\ j \in Group[k] THEN cleared[j] + 1 ELSE cleared[j]
  BY DEF Allow
<1>5. Cap[j] * (1 + cleared'[j]) = IF Clears(k) /\ j \in Group[k] THEN bursts + Cap[j]
                                                                  ELSE bursts
  BY <1>2, <1>4
<1>6. granted'[j] * Period[j] = IF j = k /\ HasToken(k) THEN spent + Period[j] ELSE spent
  BY <1>2, <1>3
<1> HIDE DEF spent, bursts
<1>7. QED
  BY <1>1, <1>2, <1>5, <1>6, LevelAfterAllow, KeyConstants

\* Room is made before an entry is.
LEMMA AllowKeepsMapsBounded ==
  ASSUME LimitsInv, NEW k \in Key, Allow(k)
  PROVE  MapsBounded'
<1> SUFFICES ASSUME NEW j \in Key PROVE Cardinality(Entries(j)') <= MaxKeys
  BY DEF MapsBounded
<1> USE LimitsAssumption
<1>1. Cardinality(Entries(j)) <= MaxKeys
  BY DEF LimitsInv, MapsBounded
<1>2. k \in Group[k] /\ Group[j] \subseteq Key
  BY KeyConstants
<1>3. CASE k \notin Group[j]
  <2>1. Dropped(k) \cap Group[j] = {}
    <3>1. Group[j] \cap Group[k] = {}
      BY <1>3, GroupsPartition, KeyConstants
    <3>2. QED
      BY <3>1 DEF Dropped, Entries, Recent
  <2>2. Entries(j)' = Entries(j)
    BY <1>3, <2>1 DEF Allow, Entries
  <2>3. QED
    BY <1>1, <2>2
<1>4. CASE k \in Group[j]
  <2>1. Entries(j) = Entries(k)
    BY <1>4, GroupsPartition DEF Entries
  <2>2. Entries(j)' = (Entries(k) \ Dropped(k)) \cup {k}
    BY <1>4, <2>1 DEF Allow, Entries
  <2>3. CASE k \in tracked
    <3>1. Entries(j)' = Entries(j)
      BY <1>2, <2>1, <2>2, <2>3 DEF Dropped, Entries
    <3>2. QED
      BY <1>1, <3>1
  <2>4. CASE k \notin tracked
    <3> DEFINE kept == Entries(k) \ Dropped(k)
    <3>1. IsFiniteSet(kept) /\ k \notin kept /\ Cardinality(kept) < MaxKeys
      <4>1. CASE HasRoom(k)
        <5>1. kept = Entries(k)
          BY <4>1 DEF Dropped
        <5>2. QED
          BY <2>4, <4>1, <5>1, EntriesFinite DEF HasRoom, Entries
      <4>2. CASE Clears(k)
        <5>1. kept = {}
          BY <2>4, <4>2 DEF Dropped, Clears
        <5>2. QED
          BY <5>1, FS_EmptySet
      <4>3. CASE ~HasRoom(k) /\ ~Clears(k)
        <5>1. kept = Recent(k)
          BY <2>4, <4>3 DEF Dropped, Recent
        <5>2. k \notin Recent(k)
          BY <2>4 DEF Recent, Entries
        <5>3. Cardinality(Recent(k)) < MaxKeys
          BY <2>4, <4>3, EntriesFinite DEF Clears
        <5>4. QED
          BY <5>1, <5>2, <5>3, EntriesFinite
      <4>4. QED
        BY <4>1, <4>2, <4>3
    <3>2. Cardinality(kept \cup {k}) = Cardinality(kept) + 1 /\ Cardinality(kept) \in Nat
      BY <3>1, FS_AddElement, FS_CardinalityType
    <3>3. QED
      BY <2>2, <3>1, <3>2
  <2>5. QED
    BY <2>3, <2>4
<1>5. QED
  BY <1>3, <1>4

\* A request keeps the invariant.
LEMMA AllowKeeps ==
  ASSUME LimitsInv, NEW k \in Key, Allow(k),
         email' \in [Request -> EmailKey \cup {None}], requests' \in Nat
  PROVE  LimitsInv'
<1>1. level' \in [Key -> Nat] /\ \A j \in Key : level'[j] <= Cap[j]
  <2>1. level' = [j \in Key |-> level'[j]]
    BY DEF Allow
  <2>2. \A j \in Key : level'[j] \in Nat /\ level'[j] <= Cap[j]
    BY LevelAfterAllow
  <2>3. QED
    BY <2>1, <2>2
<1>2. seen' \in [Key -> Int] /\ granted' \in [Key -> Nat] /\ cleared' \in [Key -> Nat]
  BY DEF LimitsInv, TypeOK, Allow, Used
<1>3. TypeOK'
  BY <1>1, <1>2 DEF LimitsInv, TypeOK, Allow
<1>4. QED
  BY <1>3, AllowKeepsEarned, AllowKeepsCredit, AllowKeepsMapsBounded DEF LimitsInv

\* Time fills every bucket by what it earns.
LEMMA TickKeeps ==
  ASSUME LimitsInv, Tick
  PROVE  LimitsInv'
<1> USE KeyConstants DEF LimitsInv, Tick
<1>1. \A k \in Key : /\ level'[k] = IF level[k] < Cap[k] THEN level[k] + 1 ELSE Cap[k]
                     /\ level[k] \in Nat /\ level[k] <= Cap[k] /\ Cap[k] \in Nat
                     /\ level'[k] \in Nat /\ level'[k] <= Cap[k]
                     /\ level'[k] <= level[k] + 1
  BY DEF Refilled, TypeOK
<1>2. TypeOK'
  <2>1. level' \in [Key -> Nat] /\ \A k \in Key : level'[k] <= Cap[k]
    BY <1>1 DEF Refilled
  <2>2. QED
    BY <2>1 DEF TypeOK
<1>3. EarnedSinceUse'
  BY <1>1 DEF EarnedSinceUse, TypeOK
<1>4. CreditBounded'
  <2> SUFFICES ASSUME NEW k \in Key
               PROVE  granted[k] * Period[k] + level'[k] <= Cap[k] * (1 + cleared[k]) + clock'
    BY DEF CreditBounded
  <2> DEFINE spent == granted[k] * Period[k]
             bursts == Cap[k] * (1 + cleared[k])
  <2>1. spent \in Nat /\ bursts \in Nat
    BY OneMore DEF TypeOK
  <2>2. spent + level[k] <= bursts + clock /\ clock \in Nat
    BY DEF CreditBounded, TypeOK
  <2> HIDE DEF spent, bursts
  <2>3. spent + level'[k] <= bursts + clock'
    BY <1>1, <2>1, <2>2
  <2>4. QED
    BY <2>3 DEF spent, bursts
<1>5. MapsBounded'
  BY DEF MapsBounded, Entries
<1>6. QED
  BY <1>2, <1>3, <1>4, <1>5

\* An address is a key of three limiters.
LEMMA AddressKeys ==
  ASSUME NEW a \in Address
  PROVE  /\ <<"loginIP", a>> \in Key
         /\ <<"registerIP", a>> \in Key
         /\ <<"resendIP", a>> \in Key
  BY DEF Key, AddressKey

\* LimitsInv holds in every reachable state, for any keys and rates.
THEOREM LimitsInvariant == Spec => []LimitsInv
<1>1. LimitsInv /\ [Next]_vars => LimitsInv'
  <2> SUFFICES ASSUME LimitsInv, [Next]_vars PROVE LimitsInv'
    OBVIOUS
  <2>1. CASE \E q \in Request : LoginAddress(q)
    <3>1. PICK q \in Request, a \in Address, k \in EmailKey :
             /\ Allow(<<"loginIP", a>>) /\ requests' = requests + 1
             /\ email' = IF HasToken(<<"loginIP", a>>) THEN [email EXCEPT ![q] = k] ELSE email
      BY <2>1 DEF LoginAddress, Arrive
    <3>2. email' \in [Request -> EmailKey \cup {None}] /\ requests' \in Nat
      BY <3>1 DEF LimitsInv, TypeOK
    <3>3. QED
      BY <3>1, <3>2, AddressKeys, AllowKeeps
  <2>2. CASE \E q \in Request : LoginEmail(q)
    <3>1. PICK q \in Request : LoginEmail(q)
      BY <2>2
    <3>2. /\ email[q] \in Key /\ requests' \in Nat
          /\ email' \in [Request -> EmailKey \cup {None}]
      BY <3>1 DEF LoginEmail, LimitsInv, TypeOK, Key
    <3>3. QED
      BY <3>1, <3>2, AllowKeeps DEF LoginEmail
  <2>3. CASE Refresh \/ Register \/ ResendVerification
    <3>1. /\ \E k \in Key : Allow(k)
          /\ email' = email /\ requests' = requests + 1
      BY <2>3, AddressKeys DEF Refresh, Register, ResendVerification, Arrive
    <3>2. email' \in [Request -> EmailKey \cup {None}] /\ requests' \in Nat
      BY <3>1 DEF LimitsInv, TypeOK
    <3>3. QED
      BY <3>1, <3>2, AllowKeeps
  <2>4. CASE Tick
    BY <2>4, TickKeeps
  <2>5. CASE UNCHANGED vars
    BY <2>5 DEF vars, limiterVars, LimitsInv, TypeOK, EarnedSinceUse, CreditBounded,
                MapsBounded, Entries
  <2>6. QED
    BY <2>1, <2>2, <2>3, <2>4, <2>5 DEF Next
<1>2. QED
  BY <1>1, InitLimits, PTL DEF Spec

\* Buckets, times and counters keep their types; no bucket is overdrawn or
\* overflows its burst.
THEOREM LimitsTypeCorrect == Spec => []TypeOK
<1>1. LimitsInv => TypeOK
  BY DEF LimitsInv
<1>2. QED
  BY <1>1, LimitsInvariant, PTL

\* The maps of all limiters stay within their cap.
THEOREM MapsStayBounded == Spec => []MapsBounded
<1>1. LimitsInv => MapsBounded
  BY DEF LimitsInv
<1>2. QED
  BY <1>1, LimitsInvariant, PTL

\* No key is granted more than bursts and time have earned it.
THEOREM GrantsStayBounded == Spec => []GrantsBounded
<1>1. LimitsInv => GrantsBounded
  <2> SUFFICES ASSUME LimitsInv, NEW k \in Key
               PROVE  granted[k] * Period[k] <= Cap[k] * (1 + cleared[k]) + clock
    BY DEF GrantsBounded
  <2> DEFINE spent == granted[k] * Period[k]
             bursts == Cap[k] * (1 + cleared[k])
  <2>1. spent \in Nat /\ bursts \in Nat
    BY OneMore, KeyConstants DEF LimitsInv, TypeOK
  <2>2. spent + level[k] <= bursts + clock /\ clock \in Nat /\ level[k] \in Nat
    BY DEF LimitsInv, CreditBounded, TypeOK
  <2> HIDE DEF spent, bursts
  <2>3. spent <= bursts + clock
    BY <2>1, <2>2
  <2>4. QED
    BY <2>3 DEF spent, bursts
<1>2. QED
  BY <1>1, LimitsInvariant, PTL

\* Both modules count alike.
LEMMA SameCardinality ==
  ASSUME NEW S
  PROVE  Ideal!Cardinality(S) = Cardinality(S)
  BY DEF Ideal!Cardinality, Cardinality

\* A request of k is a request of k in the ideal limiter: a grant, a refusal,
\* or a clearing that the crowd in its map accounts for.
LEMMA AllowImplements ==
  ASSUME LimitsInv, NEW k \in Key, Allow(k)
  PROVE  Ideal!Next
<1>1. /\ clock' = clock /\ seen' = [seen EXCEPT ![k] = clock]
      /\ level' = [j \in Key |-> level'[j]] /\ level = [j \in Key |-> level[j]]
  BY DEF Allow, Used, LimitsInv, TypeOK
<1>2. CASE Clears(k)
  <2>1. level[k] = Cap[k] /\ HasToken(k)
    BY <1>2, KeyConstants DEF Clears, LimitsInv, EarnedSinceUse, HasToken
  <2>2. level' = [j \in Key |-> IF j = k THEN Cap[k] - Period[k]
                                ELSE IF j \in Group[k] THEN Cap[j] ELSE level[j]]
    <3> SUFFICES ASSUME NEW j \in Key, j # k
                 PROVE  level'[j] = IF j \in Group[k] THEN Cap[j] ELSE level[j]
      BY <1>1, <2>1, LevelAfterAllow
    <3>1. CASE j \notin Group[k]
      BY <3>1, LevelAfterAllow
    <3>2. CASE j \in Group[k] /\ j \in tracked
      <4>1. j \in Dropped(k)
        BY <1>2, <3>2 DEF Clears, Dropped, Entries
      <4>2. QED
        BY <3>2, <4>1, LevelAfterAllow
    <3>3. CASE j \in Group[k] /\ j \notin tracked
      <4>1. level[j] = Cap[j]
        BY <3>3 DEF LimitsInv, EarnedSinceUse
      <4>2. QED
        BY <3>3, <4>1, LevelAfterAllow
    <3>4. QED
      BY <3>1, <3>2, <3>3
  <2>3. Cardinality(Ideal!InUse(Group[k] \ {k})) >= MaxKeys
    <3> DEFINE used == Ideal!InUse(Group[k] \ {k})
    <3>1. used \subseteq Group[k] /\ Recent(k) \subseteq used
      <4> SUFFICES ASSUME NEW j \in Recent(k)
                   PROVE  j \in Group[k] /\ j # k /\ clock - seen[j] <= IdleTTL
        BY DEF Ideal!InUse
      <4>1. j \in tracked /\ j \in Group[k] /\ ~(clock - seen[j] > IdleTTL)
        BY DEF Recent, Entries, Idle
      <4>2. j \in Key /\ clock \in Nat /\ seen[j] \in Int
        BY <4>1 DEF LimitsInv, TypeOK
      <4>3. QED
        BY <1>2, <4>1, <4>2, LimitsAssumption DEF Clears
    <3>2. IsFiniteSet(used)
      BY <3>1, EntriesFinite, FS_Subset
    <3>3. Cardinality(Recent(k)) <= Cardinality(used) /\ Cardinality(used) \in Nat
      BY <3>1, <3>2, FS_Subset, FS_CardinalityType
    <3>4. Cardinality(Recent(k)) >= MaxKeys /\ Cardinality(Recent(k)) \in Nat
      BY <1>2, EntriesFinite DEF Clears
    <3> HIDE DEF used
    <3>5. Cardinality(used) >= MaxKeys
      BY <3>3, <3>4, LimitsAssumption
    <3>6. QED
      BY <3>5 DEF used
  <2>4. Ideal!Forgive(k)
    <3>1. Ideal!Seen(k)
      BY <1>1 DEF Ideal!Seen
    <3>2. QED
      BY <2>2, <2>3, <3>1, SameCardinality DEF Ideal!Forgive
  <2>5. QED
    BY <2>4 DEF Ideal!Next
<1>3. CASE ~Clears(k)
  <2>1. \A j \in Key : j # k => level'[j] = level[j]
    BY <1>3, LevelAfterAllow
  <2>2. level'[k] = IF HasToken(k) THEN level[k] - Period[k] ELSE level[k]
    BY LevelAfterAllow
  <2>3. CASE HasToken(k)
    <3>1. level' = [level EXCEPT ![k] = @ - Period[k]]
      BY <1>1, <2>1, <2>2, <2>3
    <3>2. Ideal!Grant(k)
      BY <1>1, <2>3, <3>1 DEF Ideal!Grant, Ideal!Seen, HasToken
    <3>3. QED
      BY <3>2 DEF Ideal!Next
  <2>4. CASE ~HasToken(k)
    <3>1. level' = level
      BY <1>1, <2>1, <2>2, <2>4
    <3>2. level[k] < Period[k]
      BY <2>4, KeyConstants DEF HasToken, LimitsInv, TypeOK
    <3>3. Ideal!Refuse(k)
      BY <1>1, <3>1, <3>2 DEF Ideal!Refuse, Ideal!Seen
    <3>4. QED
      BY <3>3 DEF Ideal!Next
  <2>5. QED
    BY <2>3, <2>4
<1>4. QED
  BY <1>2, <1>3

\* The limiters implement buckets that are never forgotten: evictIdle cannot
\* be told from not evicting, but for a clearing under a crowd of keys.
THEOREM LimitersImplementQuota == Spec => EvictionUnseen
<1>1. Init => Ideal!Init
  BY DEF Init, Ideal!Init
<1>2. LimitsInv /\ [Next]_vars => [Ideal!Next]_(Ideal!vars)
  <2> SUFFICES ASSUME LimitsInv, [Next]_vars PROVE Ideal!Next \/ UNCHANGED Ideal!vars
    OBVIOUS
  <2>1. CASE \E k \in Key : Allow(k)
    BY <2>1, AllowImplements
  <2>2. CASE Tick
    BY <2>2 DEF Tick, Refilled, Ideal!Tick, Ideal!Next
  <2>3. CASE UNCHANGED vars
    BY <2>3 DEF vars, limiterVars, Ideal!vars
  <2>4. ASSUME Next, ~Tick
        PROVE  \E k \in Key : Allow(k)
    <3>1. \A q \in Request : LoginEmail(q) => email[q] \in Key /\ Allow(email[q])
      BY DEF LoginEmail, LimitsInv, TypeOK, Key
    <3>2. QED
      BY <2>4, <3>1, AddressKeys
         DEF Next, LoginAddress, Refresh, Register, ResendVerification
  <2>5. QED
    BY <2>1, <2>2, <2>3, <2>4
<1>3. QED
  BY <1>1, <1>2, LimitsInvariant, PTL DEF Spec, EvictionUnseen, Ideal!Spec
=============================================================================
