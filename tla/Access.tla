------------------------------- MODULE Access -------------------------------
(***************************************************************************)
(* Access tokens between the accounts service, which signs them with its   *)
(* clock, and the gateway, which verifies them with its own and never asks *)
(* the accounts service.                                                   *)
(*                                                                         *)
(* Time runs in ticks, Second of them to a second: a JWT holds whole       *)
(* seconds only.  Signatures are not represented: a token that verifies is *)
(* one that IssueAccess signed.                                            *)
(***************************************************************************)
EXTENDS Integers, FiniteSets

CONSTANTS
    Account,
    Request,        \* sign-ins and refreshes handled at a time
    Second,         \* ticks in a second
    AccessTokenTTL, \* in ticks
    MaxLag,         \* a token is signed at most so long after the account is read
    MaxSkew,        \* the two clocks differ by at most so much
    MaxTokens,      \* bound: tokens in a behaviour
    MaxClock,       \* bound: the last tick
    None

ASSUME AccessAssumption ==
    /\ IsFiniteSet(Account) /\ None \notin Account
    /\ Second \in Nat \ {0}
    /\ AccessTokenTTL \in Nat \ {0}
    /\ MaxLag \in Nat
    /\ MaxSkew \in Nat
    /\ MaxTokens \in Nat
    /\ MaxClock \in Nat

VARIABLES
    clock,          \* of the accounts service
    offset,         \* of the gateway's clock from it
    barred,         \* accounts banned or not active
    user,           \* [Request -> account that passed the checks, or None]
    asOf,           \* [Request -> when that account was read]
    tokens,         \* signed so far; their field "signed" is history
    lastFree,       \* [Account -> last tick at which it was not barred], history
    served          \* [Account -> last tick an upstream was asked on its behalf], history

requestVars == <<user, asOf>>
vars == <<clock, offset, barred, requestVars, tokens, lastFree, served>>

\* A tick too long ago to matter.
Never == -(AccessTokenTTL + MaxLag + MaxSkew)

\* Mutated: NumericDate rounds up to whole seconds.
NextWholeSecond(time) == time + ((-time) % Second)

\* Mutated: NumericDate keeps fractions.
AnyTime(time) == time

\* jwt.NewNumericDate truncates to whole seconds.
NumericDate(time) == time - (time % Second)

Tokens == [account : Account, signed : Nat, notBefore : Nat, expires : Nat]

TypeOK ==
    /\ clock \in Nat
    /\ offset \in -MaxSkew .. MaxSkew
    /\ barred \in SUBSET Account
    /\ user \in [Request -> Account \cup {None}]
    /\ asOf \in [Request -> Nat]
    /\ tokens \in SUBSET Tokens
    /\ \A t \in tokens : t.notBefore % Second = 0 /\ t.expires % Second = 0
    /\ lastFree \in [Account -> Int]
    /\ served \in [Account -> Int]

Init ==
    /\ clock = 0
    /\ offset \in -MaxSkew .. MaxSkew
    /\ barred \in SUBSET Account
    /\ user = [q \in Request |-> None]
    /\ asOf = [q \in Request |-> 0]
    /\ tokens = {}
    /\ lastFree = [a \in Account |-> IF a \in barred THEN Never ELSE 0]
    /\ served = [a \in Account |-> Never]
-----------------------------------------------------------------------------
(* The accounts service *)

\* Login or Refresh has read the account and found it neither banned nor
\* inactive.  The password is still to be hashed, or the session to be replaced.
Admit(q) ==
    /\ user[q] = None
    /\ Cardinality(tokens) < MaxTokens
    /\ \E a \in Account \ barred : user' = [user EXCEPT ![q] = a]
    /\ asOf' = [asOf EXCEPT ![q] = clock]
    /\ UNCHANGED <<clock, offset, barred, tokens, lastFree, served>>

Done(q) ==
    /\ user' = [user EXCEPT ![q] = None]
    /\ asOf' = [asOf EXCEPT ![q] = 0]

\* Sessions.issue signs with the time of the signature; nothing is looked at again.
IssueAccess(q) ==
    /\ user[q] # None
    /\ tokens' = tokens \cup
         {[account |-> user[q], signed |-> clock,
           notBefore |-> NumericDate(clock),
           expires |-> NumericDate(clock + AccessTokenTTL)]}
    /\ Done(q)
    /\ UNCHANGED <<clock, offset, barred, lastFree, served>>

\* The password is wrong, the refresh token used or a statement fails: no token.
\* (A token whose transaction does not commit is not given to the client.)
Refuse(q) ==
    /\ user[q] # None
    /\ Done(q)
    /\ UNCHANGED <<clock, offset, barred, tokens, lastFree, served>>

\* SetAccountBan, SetAccountStatus.
Bar ==
    /\ \E a \in Account \ barred : barred' = barred \cup {a}
    /\ UNCHANGED <<clock, offset, requestVars, tokens, lastFree, served>>

\* The ban is lifted or runs out, the email is verified.
Lift ==
    /\ \E a \in barred :
         /\ barred' = barred \ {a}
         /\ lastFree' = [lastFree EXCEPT ![a] = clock]
    /\ UNCHANGED <<clock, offset, requestVars, tokens, served>>
-----------------------------------------------------------------------------
(* The gateway *)

\* Mutated: a token is good at its last second.
VerifyToTheSecond(t, now) == t.notBefore <= now /\ now <= t.expires

\* authtoken.Verify, without leeway on either side.
Verify(t, now) == t.notBefore <= now /\ now < t.expires

\* Mutated: the client's copy of X-Account-ID comes first.
ClientAccountID(t, claimed) == IF claimed = None THEN t.account ELSE claimed

\* requireToken replaces the X-Account-ID that the client claimed.
AccountID(t, claimed) == t.account

\* A request for a protected route that is passed on; one that is not changes
\* nothing.
Forward ==
    /\ \E t \in tokens, claimed \in Account \cup {None} :
         /\ Verify(t, clock + offset)
         /\ served' = [served EXCEPT ![AccountID(t, claimed)] = clock]
    /\ UNCHANGED <<clock, offset, barred, requestVars, tokens, lastFree>>
-----------------------------------------------------------------------------
(* Time *)

Tick ==
    /\ clock < MaxClock
    /\ \A q \in Request : user[q] # None => clock - asOf[q] < MaxLag
    /\ clock' = clock + 1
    /\ lastFree' = [a \in Account |-> IF a \in barred THEN lastFree[a] ELSE clock + 1]
    /\ UNCHANGED <<offset, barred, requestVars, tokens, served>>

\* A clock is set.
Adjust ==
    /\ offset' \in -MaxSkew .. MaxSkew
    /\ UNCHANGED <<clock, barred, requestVars, tokens, lastFree, served>>

Next ==
    \/ \E q \in Request : Admit(q) \/ IssueAccess(q) \/ Refuse(q)
    \/ Bar
    \/ Lift
    \/ Forward
    \/ Tick
    \/ Adjust

Spec == Init /\ [][Next]_vars
-----------------------------------------------------------------------------
\* "It is short, so a stolen token expires quickly, and the refresh flow
\* handles the rest" (AccessTokenTTL): no upstream is asked on behalf of an
\* account that has been barred for the token's lifetime, a request's delay and
\* the difference of the clocks, although the gateway knows of no ban and
\* sign-ins act on an account they read earlier.
BanReachesGateway ==
    \A a \in Account :
        served[a] < lastFree[a] + AccessTokenTTL + MaxLag + MaxSkew

\* The other side of a short lifetime without leeway: the gateway takes a token
\* from the time its clock must have reached that of the signature, until a
\* second, and the difference of the clocks, before its ExpiresIn has passed.
WorksWhileFresh ==
    \A t \in tokens :
        (/\ clock >= t.signed + MaxSkew
         /\ clock <= t.signed + AccessTokenTTL - Second - MaxSkew)
            => Verify(t, clock + offset)
-----------------------------------------------------------------------------
(* The inductive invariant behind the two. *)

\* Whoever is being signed in was free a short while ago.
AdmittedWereFree ==
    \A q \in Request : user[q] # None =>
        /\ asOf[q] <= clock /\ clock <= asOf[q] + MaxLag
        /\ asOf[q] <= lastFree[user[q]]

TokensWereEarned ==
    \A t \in tokens :
        /\ t.notBefore = NumericDate(t.signed)
        /\ t.expires = NumericDate(t.signed + AccessTokenTTL)
        /\ t.signed <= clock
        /\ t.signed <= lastFree[t.account] + MaxLag

LastFreeIsPast ==
    \A a \in Account :
        /\ lastFree[a] <= clock
        /\ a \notin barred => lastFree[a] = clock

AccessInv ==
    /\ TypeOK
    /\ AdmittedWereFree
    /\ TokensWereEarned
    /\ LastFreeIsPast
    /\ BanReachesGateway
=============================================================================
