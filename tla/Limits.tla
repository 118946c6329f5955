------------------------------- MODULE Limits -------------------------------
(***************************************************************************)
(* The rate limits of the accounts API: httpapi's keyedLimiter, three      *)
(* times with the client addresses and once with the emails for keys, and  *)
(* the handlers that ask them.                                             *)
(*                                                                         *)
(* A limiter maps a key to a token bucket and the time of its last use.    *)
(* The map is bounded: a full one loses its idle keys, and if there are    *)
(* none, all.  Each Allow holds the limiter's mutex and is one step.       *)
(*                                                                         *)
(* A bucket is kept as ticks of credit that grow with the clock, which is  *)
(* what rate.Limiter computes from the time of its last change.            *)
(***************************************************************************)
EXTENDS Integers, FiniteSets

CONSTANTS
    Address, Email,
    Request,                \* requests handled at a time
    MaxKeys,                \* maxLimiterKeys
    IdleTTL,                \* idleLimiterTTL
    IPPeriod, IPBurst,      \* Config.LoginPerIP, as ticks per token, LoginBurst
    EmailPeriod, EmailBurst,
    RegisterPeriod, RegisterBurst,
    MaxClock,               \* bound: the last tick
    MaxRequests,            \* bound: requests in a behaviour
    None

\* A key belongs to one limiter, named as in API.
AddressKey == {"loginIP", "registerIP", "resendIP"} \X Address
EmailKey == {"loginEmail"} \X Email
Key == AddressKey \cup EmailKey

\* The keys of the limiter that k is a key of.
Group == [k \in Key |-> {j \in Key : j[1] = k[1]}]

\* New: resendIP has the limit of registerIP.
Period == [k \in Key |->
             CASE k[1] = "loginIP" -> IPPeriod
               [] k[1] = "loginEmail" -> EmailPeriod
               [] OTHER -> RegisterPeriod]

\* Credit of a full bucket, which is what a new one has.
Cap == [k \in Key |->
          CASE k[1] = "loginIP" -> IPBurst * IPPeriod
            [] k[1] = "loginEmail" -> EmailBurst * EmailPeriod
            [] OTHER -> RegisterBurst * RegisterPeriod]

\* A bucket left alone for IdleTTL is full: an hour against at most 20 tokens
\* of 15 seconds (DefaultConfig).
ASSUME LimitsAssumption ==
    /\ IsFiniteSet(Address) /\ IsFiniteSet(Email)
    /\ None \notin EmailKey
    /\ MaxKeys \in Nat \ {0}
    /\ IPPeriod \in Nat \ {0} /\ IPBurst \in Nat \ {0}
    /\ EmailPeriod \in Nat \ {0} /\ EmailBurst \in Nat \ {0}
    /\ RegisterPeriod \in Nat \ {0} /\ RegisterBurst \in Nat \ {0}
    /\ IdleTTL \in Nat
    /\ IPBurst * IPPeriod \in 1 .. IdleTTL
    /\ EmailBurst * EmailPeriod \in 1 .. IdleTTL
    /\ RegisterBurst * RegisterPeriod \in 1 .. IdleTTL
    /\ MaxClock \in Nat
    /\ MaxRequests \in Nat

VARIABLES
    clock,
    tracked,        \* keys that have an entry
    level,          \* [Key -> credit of its bucket; full when it has no entry]
    seen,           \* [Key -> lastSeen, kept here when the entry is gone]
    email,          \* [Request -> key of loginEmail to be asked next, or None]
    requests,       \* requests so far
    granted,        \* [Key -> Nat], history: requests allowed
    cleared         \* [Key -> Nat], history: times its limiter's map was cleared

limiterVars == <<tracked, level, seen, granted, cleared>>
vars == <<clock, limiterVars, email, requests>>

TypeOK ==
    /\ clock \in Nat
    /\ tracked \in SUBSET Key
    /\ level \in [Key -> Nat] /\ \A k \in Key : level[k] <= Cap[k]
    /\ seen \in [Key -> Int]
    /\ email \in [Request -> EmailKey \cup {None}]
    /\ requests \in Nat
    /\ granted \in [Key -> Nat]
    /\ cleared \in [Key -> Nat]

Init ==
    /\ clock = 0
    /\ tracked = {}
    /\ level = Cap
    /\ seen = [k \in Key |-> -IdleTTL - 1]
    /\ email = [q \in Request |-> None]
    /\ requests = 0
    /\ granted = [k \in Key |-> 0]
    /\ cleared = [k \in Key |-> 0]
-----------------------------------------------------------------------------
(* keyedLimiter *)

Entries(k) == tracked \cap Group[k]

Idle(j) == clock - seen[j] > IdleTTL

\* Mutated: the map may hold one key more.
RoomForOneMore(k) == Cardinality(Entries(k)) <= MaxKeys

HasRoom(k) == Cardinality(Entries(k)) < MaxKeys

\* evictIdle: the entries left of k's map.
Recent(k) == {j \in Entries(k) : ~Idle(j)}

\* A new key finds the map full, also after the eviction: everything goes.
Clears(k) == k \notin tracked /\ ~HasRoom(k) /\ Cardinality(Recent(k)) >= MaxKeys

\* The entries dropped to make room for k.
Dropped(k) ==
    IF k \in tracked \/ HasRoom(k) THEN {}
    ELSE IF Clears(k) THEN Entries(k) ELSE Entries(k) \ Recent(k)

\* Mutated: a started token is as good as a whole one.
HasPartOfToken(k) == level[k] > 0

\* rate.Limiter.Allow: the bucket of k, a new one included, holds a token.
HasToken(k) == level[k] >= Period[k]

\* Mutated: lastSeen is set when the entry is made, and never again.
Touched(k) == IF k \in tracked THEN seen ELSE [seen EXCEPT ![k] = clock]

Used(k) == [seen EXCEPT ![k] = clock]

Allow(k) ==
    /\ tracked' = (tracked \ Dropped(k)) \cup {k}
    /\ level' = [j \in Key |->
                   IF j = k THEN IF HasToken(k) THEN level[k] - Period[k] ELSE level[k]
                   ELSE IF j \in Dropped(k) THEN Cap[j] ELSE level[j]]
    /\ seen' = Used(k)
    /\ granted' = IF HasToken(k) THEN [granted EXCEPT ![k] = @ + 1] ELSE granted
    /\ cleared' = [j \in Key |-> IF Clears(k) /\ j \in Group[k] THEN cleared[j] + 1
                                                                ELSE cleared[j]]
    /\ clock' = clock
-----------------------------------------------------------------------------
(* The handlers *)

Arrive == requests < MaxRequests /\ requests' = requests + 1

\* The address is asked for first, and pays for a sign-in that its email's
\* limiter then refuses.
LoginAddress(q) ==
    /\ email[q] = None
    /\ Arrive
    /\ \E a \in Address, k \in EmailKey :
         /\ Allow(<<"loginIP", a>>)
         /\ email' = IF HasToken(<<"loginIP", a>>) THEN [email EXCEPT ![q] = k] ELSE email

\* Allowed or not, the request is over for the limits: auth.Login, or 429.
LoginEmail(q) ==
    /\ email[q] # None
    /\ Allow(email[q])
    /\ email' = [email EXCEPT ![q] = None]
    /\ requests' = requests

\* A refresh is counted with the sign-ins of its address.
Refresh ==
    /\ Arrive
    /\ \E a \in Address : Allow(<<"loginIP", a>>)
    /\ email' = email

\* Asked before the body is read: a body that is refused has cost a token.
Register ==
    /\ Arrive
    /\ \E a \in Address : Allow(<<"registerIP", a>>)
    /\ email' = email

ResendVerification ==
    /\ Arrive
    /\ \E a \in Address : Allow(<<"resendIP", a>>)
    /\ email' = email

\* Mutated: a bucket goes on filling.
FillOn == [k \in Key |-> level[k] + 1]

\* rate.Limiter: credit grows with time, up to the burst.
Refilled == [k \in Key |-> IF level[k] < Cap[k] THEN level[k] + 1 ELSE Cap[k]]

Tick ==
    /\ clock < MaxClock
    /\ clock' = clock + 1
    /\ level' = Refilled
    /\ UNCHANGED <<tracked, seen, granted, cleared, email, requests>>

Next ==
    \/ \E q \in Request : LoginAddress(q) \/ LoginEmail(q)
    \/ Refresh
    \/ Register
    \/ ResendVerification
    \/ Tick

Spec == Init /\ [][Next]_vars
-----------------------------------------------------------------------------
\* maxLimiterKeys "caps how many keys the limiter tracks", for each limiter and
\* in any order of new, known, idle and returning keys
\* (TestKeyedLimiterBoundsMemory has new ones only).
MapsBounded ==
    \A k \in Key : Cardinality(Entries(k)) <= MaxKeys

\* A key gets its burst and what the time has earned it, and once more its
\* burst for each clearing ("a coarse but bounded fallback"), whatever is
\* evicted or forgotten and however the handlers interleave.
GrantsBounded ==
    \A k \in Key :
        granted[k] * Period[k] <= Cap[k] * (1 + cleared[k]) + clock

\* evictIdle does nobody a favour and nobody harm: but for a clearing, which
\* takes MaxKeys other keys in use within IdleTTL, the limiters answer as if
\* no bucket were ever forgotten.
Ideal == INSTANCE Quota

EvictionUnseen == Ideal!Spec
-----------------------------------------------------------------------------
(* The inductive invariant behind the safety properties above. *)

\* No use is later than the clock, and since its last use a bucket has earned
\* what the time allows: an idle one is full, and so is one without an entry.
EarnedSinceUse ==
    \A k \in Key :
        /\ seen[k] <= clock
        /\ level[k] = Cap[k] \/ level[k] >= clock - seen[k]
        /\ k \notin tracked => level[k] = Cap[k]

\* Tokens granted and credit left come from the bursts and from the time.
CreditBounded ==
    \A k \in Key :
        granted[k] * Period[k] + level[k] <= Cap[k] * (1 + cleared[k]) + clock

LimitsInv == TypeOK /\ EarnedSinceUse /\ CreditBounded /\ MapsBounded
=============================================================================
