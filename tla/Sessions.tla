------------------------------ MODULE Sessions ------------------------------
(***************************************************************************)
(* auth.Sessions: issuing, refreshing and revoking the rows of the table   *)
(* sessions, by concurrent requests on a READ COMMITTED database.          *)
(*                                                                         *)
(* A session row stands for its refresh token: the two are created         *)
(* together and nothing else finds the row.  A request is one call of      *)
(* Issue, Refresh or Logout; each of its steps is one SQL statement or     *)
(* commit.  A refresh that has revoked its old row holds that row's lock   *)
(* until its transaction ends, and nobody sees its changes before.         *)
(*                                                                         *)
(* UPDATE ... WHERE account_id = $1 AND revoked_at IS NULL picks its rows  *)
(* from a snapshot taken when the statement starts, then waits for the     *)
(* lock of each row it picked, so it takes two steps here.                 *)
(*                                                                         *)
(* A statement outside a transaction takes a connection of the pool while  *)
(* it runs, a transaction keeps one from Begin to its end.  Statements     *)
(* that never wait for a row lock are one step, which needs a connection   *)
(* but keeps none.                                                         *)
(***************************************************************************)
EXTENDS Naturals, FiniteSets

CONSTANTS
    Session,        \* session rows, one refresh token each
    Request,        \* requests the service handles at a time
    Account,
    MaxConns,       \* connections of the pool
    MaxFailures,    \* bound: failed statements, lost connections
    None

ASSUME SessionsAssumption ==
    /\ None \notin Session
    /\ None \notin Account
    /\ MaxConns \in Nat \ {0}
    /\ MaxFailures \in Nat

VARIABLES
    row,            \* [Session -> committed state of the row]
    owner,          \* [Session -> account_id]
    parent,         \* [Session -> the session it was exchanged for, or None]
    root,           \* [Session -> the session its sign-in began with]
    expired,        \* sessions past expires_at
    presented,      \* history: sessions whose token some request has brought back
    reused,         \* history: accounts one of whose tokens was brought back twice
    barred,         \* accounts banned or not active
    pc,             \* [Request -> next step]
    token,          \* [Request -> session whose token was presented]
    user,           \* [Request -> account signing in]
    next,           \* [Request -> session inserted, not yet committed]
    inTx,           \* requests whose transaction is open
    targets,        \* [Request -> rows picked by a started RevokeAccountSessions]
    late,           \* requests begun while the account was barred, which it still is
    failures

rowVars == <<row, owner, parent, root>>
requestVars == <<pc, token, user, next, inTx, targets>>
historyVars == <<presented, reused>>
vars == <<rowVars, expired, historyVars, barred, requestVars, late, failures>>

Steps == {"idle", "signIn", "check", "revoke", "issue", "commit",
          "revokeAll", "revoking", "logout"}

TypeOK ==
    /\ row \in [Session -> {"free", "live", "revoked"}]
    /\ owner \in [Session -> Account \cup {None}]
    /\ parent \in [Session -> Session \cup {None}]
    /\ root \in [Session -> Session \cup {None}]
    /\ expired \in SUBSET Session
    /\ presented \in SUBSET Session
    /\ reused \in SUBSET Account
    /\ barred \in SUBSET Account
    /\ pc \in [Request -> Steps]
    /\ token \in [Request -> Session \cup {None}]
    /\ user \in [Request -> Account \cup {None}]
    /\ next \in [Request -> Session \cup {None}]
    /\ inTx \in SUBSET Request
    /\ targets \in [Request -> SUBSET Session]
    /\ late \in SUBSET Request
    /\ failures \in Nat

Init ==
    /\ row = [s \in Session |-> "free"]
    /\ owner = [s \in Session |-> None]
    /\ parent = [s \in Session |-> None]
    /\ root = [s \in Session |-> None]
    /\ expired = {}
    /\ presented = {}
    /\ reused = {}
    /\ barred = {}
    /\ pc = [q \in Request |-> "idle"]
    /\ token = [q \in Request |-> None]
    /\ user = [q \in Request |-> None]
    /\ next = [q \in Request |-> None]
    /\ inTx = {}
    /\ targets = [q \in Request |-> {}]
    /\ late = {}
    /\ failures = 0
-----------------------------------------------------------------------------
\* Rows not yet inserted; CHOOSE draws the random token of the next one.
Fresh == {s \in Session : row[s] = "free" /\ \A q \in Request : next[q] # s}

NewSession == CHOOSE s \in Session : s \in Fresh

\* Bound: a request that may insert a row starts only while one is left for it.
Room ==
    Cardinality(Fresh) >
        Cardinality({q \in Request : pc[q] \in {"signIn", "check", "revoke", "issue"}})

\* Sessions a client may hold the token of.  A client that never got the answer
\* is one that does not present the token again.
Issued == {s \in Session : row[s] # "free"}

\* A request brings the token of s.
Present(s) ==
    /\ presented' = presented \cup {s}
    /\ reused' = IF s \in presented THEN reused \cup {owner[s]} ELSE reused

\* q's open transaction has updated row s.
Holds(q, s) == pc[q] \in {"issue", "commit"} /\ token[q] = s

Unlocked(q, s) == \A other \in Request \ {q} : ~Holds(other, s)

\* A request can have one more connection.
FreeConn ==
    Cardinality(inTx) + Cardinality({q \in Request : pc[q] \in {"revoking", "logout"}})
        < MaxConns

\* The request ends: the response goes out, an open transaction is rolled back.
Answer(q) ==
    /\ pc' = [pc EXCEPT ![q] = "idle"]
    /\ token' = [token EXCEPT ![q] = None]
    /\ user' = [user EXCEPT ![q] = None]
    /\ next' = [next EXCEPT ![q] = None]
    /\ targets' = [targets EXCEPT ![q] = {}]
    /\ inTx' = inTx \ {q}
    /\ late' = late \ {q}

Goto(q, step) ==
    /\ pc' = [pc EXCEPT ![q] = step]
    /\ UNCHANGED <<user, late>>
-----------------------------------------------------------------------------
(* Issue *)

\* Login has accepted the credentials and found the account neither banned
\* nor inactive; its caller goes on to Issue.
SignIn(q) ==
    /\ pc[q] = "idle"
    /\ Room
    /\ \E a \in Account \ barred : user' = [user EXCEPT ![q] = a]
    /\ pc' = [pc EXCEPT ![q] = "signIn"]
    /\ UNCHANGED <<rowVars, expired, historyVars, barred, token, next, inTx, targets, late, failures>>

\* CreateSession in a statement of its own.
Issue(q) ==
    /\ pc[q] = "signIn"
    /\ FreeConn
    /\ Fresh # {}
    /\ row' = [row EXCEPT ![NewSession] = "live"]
    /\ owner' = [owner EXCEPT ![NewSession] = user[q]]
    /\ root' = [root EXCEPT ![NewSession] = NewSession]
    /\ Answer(q)
    /\ UNCHANGED <<parent, expired, historyVars, barred, failures>>
-----------------------------------------------------------------------------
(* Refresh *)

\* GetSessionByRefreshHash on the pool, and the tests of revoked_at and
\* expires_at on the row it returned.  A token of no session changes nothing.
Refresh(q) ==
    /\ pc[q] = "idle"
    /\ FreeConn
    /\ \E s \in Issued :
         /\ Present(s)
         /\ late' = IF owner[s] \in barred THEN late \cup {q} ELSE late
         /\ token' = [token EXCEPT ![q] = s]
         /\ \/ /\ row[s] = "revoked"
               /\ pc' = [pc EXCEPT ![q] = "revokeAll"]
            \/ /\ row[s] = "live" /\ s \notin expired
               /\ Room
               /\ pc' = [pc EXCEPT ![q] = "check"]
    /\ UNCHANGED <<rowVars, expired, barred, user, next, inTx, targets, failures>>

\* Mutated: an expired token is answered like a revoked one.
ExpiredIsReuse(q) ==
    /\ pc[q] = "idle"
    /\ FreeConn
    /\ \E s \in Issued \cap expired :
         /\ row[s] = "live"
         /\ Present(s)
         /\ token' = [token EXCEPT ![q] = s]
    /\ pc' = [pc EXCEPT ![q] = "revokeAll"]
    /\ UNCHANGED <<rowVars, expired, barred, user, next, inTx, targets, late, failures>>

\* The row is past expires_at: refused.
RefreshExpired(q) ==
    /\ pc[q] = "idle"
    /\ FreeConn
    /\ \E s \in Issued \cap expired :
         /\ row[s] = "live"
         /\ Present(s)
    /\ UNCHANGED <<rowVars, expired, barred, requestVars, late, failures>>

\* Mutated: the account's ban and status are not looked at.
AccountUnchecked(q) ==
    /\ pc[q] = "check"
    /\ FreeConn
    /\ Goto(q, "revoke")
    /\ inTx' = inTx \cup {q}
    /\ UNCHANGED <<rowVars, expired, historyVars, barred, token, next, targets, failures>>

\* Begin and GetAccountByID.
CheckAccount(q) ==
    /\ pc[q] = "check"
    /\ FreeConn
    /\ \/ owner[token[q]] \in barred /\ Answer(q)
       \/ /\ owner[token[q]] \notin barred
          /\ Goto(q, "revoke")
          /\ inTx' = inTx \cup {q}
          /\ UNCHANGED <<token, next, targets>>
    /\ UNCHANGED <<rowVars, expired, historyVars, barred, failures>>

\* Mutated: the row count of RevokeSession is not looked at.
RowCountIgnored(q) ==
    /\ pc[q] = "revoke"
    /\ Unlocked(q, token[q])
    /\ Goto(q, "issue")
    /\ UNCHANGED <<rowVars, expired, historyVars, barred, token, next, inTx, targets, failures>>

\* Mutated: RevokeSession is tried again until it changes a row.
RevokeOldRetried(q) ==
    /\ pc[q] = "revoke"
    /\ Unlocked(q, token[q])
    /\ Goto(q, IF row[token[q]] = "live" THEN "issue" ELSE "revoke")
    /\ UNCHANGED <<rowVars, expired, historyVars, barred, token, next, inTx, targets, failures>>

\* RevokeSession in the transaction: it waits for the row's lock, and changes
\* nothing when the row it then sees is already revoked.
RevokeOld(q) ==
    /\ pc[q] = "revoke"
    /\ Unlocked(q, token[q])
    /\ Goto(q, IF row[token[q]] = "live" THEN "issue" ELSE "revokeAll")
    /\ UNCHANGED <<rowVars, expired, historyVars, barred, token, next, inTx, targets, failures>>

\* CreateSession in the transaction.
IssueNext(q) ==
    /\ pc[q] = "issue"
    /\ Fresh # {}
    /\ next' = [next EXCEPT ![q] = NewSession]
    /\ Goto(q, "commit")
    /\ UNCHANGED <<rowVars, expired, historyVars, barred, token, inTx, targets, failures>>

\* Mutated: issue is called with session.ID for the account.
CommitWrongAccount(q) ==
    /\ pc[q] = "commit"
    /\ row' = [row EXCEPT ![token[q]] = "revoked", ![next[q]] = "live"]
    /\ owner' = [owner EXCEPT ![next[q]] = token[q]]
    /\ parent' = [parent EXCEPT ![next[q]] = token[q]]
    /\ root' = [root EXCEPT ![next[q]] = root[token[q]]]
    /\ Answer(q)
    /\ UNCHANGED <<expired, historyVars, barred, failures>>

\* Mutated: RevokeSession did not change the row for good.
CommitIssueOnly(q) ==
    /\ pc[q] = "commit"
    /\ row' = [row EXCEPT ![next[q]] = "live"]
    /\ owner' = [owner EXCEPT ![next[q]] = owner[token[q]]]
    /\ parent' = [parent EXCEPT ![next[q]] = token[q]]
    /\ root' = [root EXCEPT ![next[q]] = root[token[q]]]
    /\ Answer(q)
    /\ UNCHANGED <<expired, historyVars, barred, failures>>

\* Commit: the old row is revoked and the new one live at once.
CommitRefresh(q) ==
    /\ pc[q] = "commit"
    /\ row' = [row EXCEPT ![token[q]] = "revoked", ![next[q]] = "live"]
    /\ owner' = [owner EXCEPT ![next[q]] = owner[token[q]]]
    /\ parent' = [parent EXCEPT ![next[q]] = token[q]]
    /\ root' = [root EXCEPT ![next[q]] = root[token[q]]]
    /\ Answer(q)
    /\ UNCHANGED <<expired, historyVars, barred, failures>>

\* RevokeAccountSessions starts, on a connection of the pool even when the
\* request's own transaction is still open: the live rows it sees are the ones it updates.
PickSessions(q) ==
    /\ pc[q] = "revokeAll"
    /\ FreeConn
    /\ targets' = [targets EXCEPT ![q] =
                     {s \in Session : row[s] = "live" /\ owner[s] = owner[token[q]]}]
    /\ Goto(q, "revoking")
    /\ UNCHANGED <<rowVars, expired, historyVars, barred, token, next, inTx, failures>>

\* It has every lock and ends; the request answers ErrInvalidRefreshToken.
RevokeAccountSessions(q) ==
    /\ pc[q] = "revoking"
    /\ \A s \in targets[q] : Unlocked(q, s)
    /\ row' = [s \in Session |-> IF s \in targets[q] THEN "revoked" ELSE row[s]]
    /\ Answer(q)
    /\ UNCHANGED <<owner, parent, root, expired, historyVars, barred, failures>>
-----------------------------------------------------------------------------
(* Logout *)

\* GetSessionByRefreshHash only turns the token into a row id; the connection it
\* used is the one RevokeSession runs on.
Logout(q) ==
    /\ pc[q] = "idle"
    /\ FreeConn
    /\ \E s \in Issued :
         /\ Present(s)
         /\ token' = [token EXCEPT ![q] = s]
    /\ pc' = [pc EXCEPT ![q] = "logout"]
    /\ UNCHANGED <<rowVars, expired, barred, user, next, inTx, targets, late, failures>>

\* RevokeSession has the row's lock; how many rows it changed is not looked at.
RevokeLoggedOut(q) ==
    /\ pc[q] = "logout"
    /\ Unlocked(q, token[q])
    /\ row' = [row EXCEPT ![token[q]] = "revoked"]
    /\ Answer(q)
    /\ UNCHANGED <<owner, parent, root, expired, historyVars, barred, failures>>
-----------------------------------------------------------------------------
(* Around the requests *)

\* A statement or the commit fails, or the process stops: the request ends
\* with an error and the database rolls its transaction back.
Fail(q) ==
    /\ pc[q] # "idle"
    /\ failures < MaxFailures
    /\ failures' = failures + 1
    /\ Answer(q)
    /\ UNCHANGED <<rowVars, expired, historyVars, barred>>

\* refreshTokenTTL passes without a refresh.
Expire(s) ==
    /\ row[s] = "live"
    /\ s \notin expired
    /\ expired' = expired \cup {s}
    /\ UNCHANGED <<rowVars, historyVars, barred, requestVars, late, failures>>

\* SetAccountBan or SetAccountStatus.
Bar(a) ==
    /\ a \notin barred
    /\ barred' = barred \cup {a}
    /\ UNCHANGED <<rowVars, expired, historyVars, requestVars, late, failures>>

\* banned_until passes, or the account is made active again.
Lift(a) ==
    /\ a \in barred
    /\ barred' = barred \ {a}
    /\ late' = {q \in late : owner[token[q]] # a}
    /\ UNCHANGED <<rowVars, expired, historyVars, requestVars, failures>>

Step(q) ==
    \/ Issue(q)
    \/ CheckAccount(q)
    \/ RevokeOld(q)
    \/ IssueNext(q)
    \/ CommitRefresh(q)
    \/ PickSessions(q)
    \/ RevokeAccountSessions(q)
    \/ RevokeLoggedOut(q)

Next ==
    \/ \E q \in Request :
         Step(q) \/ SignIn(q) \/ Refresh(q) \/ RefreshExpired(q) \/ Logout(q) \/ Fail(q)
    \/ \E s \in Session : Expire(s)
    \/ \E a \in Account : Bar(a) \/ Lift(a)

Spec == Init /\ [][Next]_vars

\* Every handler goes on running; PostgreSQL grants a row lock, and the pool a
\* connection, in the order they were asked for, so no request is passed over
\* for ever.  Clients, operators and faults are not fair.
FairSpec == Spec /\ \A q \in Request : SF_vars(Step(q))
-----------------------------------------------------------------------------
\* "The old refresh token stops working" (Refresh), and a sign-in therefore
\* never has two working tokens, however its requests interleave or fail.
OneLivePerSignIn ==
    \A s, t \in Session :
        row[s] = "live" /\ row[t] = "live" /\ root[s] = root[t] => s = t

\* A token is exchanged for one pair at most, also when it is presented by
\* several requests at once: RevokeSession counts the rows it changed.
ExchangedOnce ==
    \A s, t \in Session :
        parent[s] # None /\ parent[s] = parent[t] => s = t

\* "A ban or a deactivation takes effect at the next refresh": a refresh begun
\* under a bar that is still there never gets as far as issuing.
BanStopsNextRefresh ==
    \A q \in late : pc[q] \notin {"issue", "commit"}

\* A session that is over has no heirs: once a logout, a reuse or an exchange has
\* revoked a row for everybody to see, no refresh already under way brings a new
\* session out of it.  A logout that comes while a refresh holds the row finds it
\* exchanged and ends nothing.
RevokedHasNoHeir ==
    [][\A s, t \in Session :
         row[s] = "revoked" /\ parent'[t] = s => parent[t] = s]_vars

\* Signing an account out everywhere needs a reason: unless one of its own
\* tokens was presented more than once, no refresh revokes its sessions,
\* whatever other accounts do and whatever fails.
RevocationNeedsReuse ==
    \A q \in Request :
        pc[q] \in {"revokeAll", "revoking"} => owner[token[q]] \in reused

\* With connections enough, row locks are never waited for in a circle: again and
\* again a request is over, so none waits for ever.
RequestsEnd == \A q \in Request : []<>(pc[q] = "idle")

\* Refresh doc: "every session of that account is revoked. ... whoever holds
\* the old token is stopped": what RevokeAccountSessions meant to revoke lives
\* on in no session exchanged for it.
ReuseStopsSuccessors ==
    [][\A q \in Request : RevokeAccountSessions(q) =>
         \A s \in Session : row'[s] = "live" => parent[s] \notin targets[q]]_vars

\* Refresh doc: "if a token that was already used is presented again, every
\* session of that account is revoked"; a lost race "counts as reuse".  Hence a
\* request that has met a reuse comes to an end, however small the pool is.
ReuseIsAnswered == \A q \in Request : pc[q] = "revokeAll" ~> pc[q] = "idle"
-----------------------------------------------------------------------------
(* The inductive invariant behind the safety properties above. *)

\* A row gets its account and its sign-in when it is committed, not before.
RowsWellFormed ==
    \A s \in Session :
        IF row[s] = "free"
          THEN parent[s] = None
          ELSE /\ owner[s] \in Account
               /\ root[s] \in Issued

\* A request that works on a token works on a committed row, and what it has
\* inserted is no one else's and not committed.
RequestsWellFormed ==
    \A q \in Request :
        /\ pc[q] = "signIn" => user[q] \in Account
        /\ pc[q] \notin {"idle", "signIn"} => token[q] \in Issued
        /\ pc[q] = "commit" => next[q] \in Session /\ row[next[q]] = "free"
        /\ pc[q] # "revoking" => targets[q] = {}
        /\ \A s \in targets[q] : s \in Issued /\ owner[s] = owner[token[q]]
        /\ \A other \in Request \ {q} : next[q] # None => next[other] # next[q]

\* A row updated by an open transaction is still live for everybody else, and
\* no second transaction has updated it.
LocksExclusive ==
    \A q \in Request, s \in Session :
        Holds(q, s) => row[s] = "live" /\ Unlocked(q, s)

\* A session that was exchanged is revoked.
ExchangedAreRevoked ==
    \A s \in Session : parent[s] # None => row[parent[s]] = "revoked"

\* A row is revoked, or about to be, because its token was presented or one of
\* its account was presented twice; two requests on one token are such a case.
RevokedHaveReason ==
    /\ \A s \in Session : row[s] = "revoked" => s \in presented \/ owner[s] \in reused
    /\ \A q \in Request : pc[q] \notin {"idle", "signIn"} =>
         /\ token[q] \in presented
         /\ \A other \in Request \ {q} : token[other] = token[q] => owner[token[q]] \in reused
         /\ pc[q] \in {"check", "revoke"} /\ row[token[q]] = "revoked"
              => owner[token[q]] \in reused
    /\ \A q \in Request : pc[q] \in {"idle", "signIn"} => token[q] = None

\* A refresh begun under a bar does not get past the test of the account.
BarredStop ==
    \A q \in late : owner[token[q]] \in barred /\ pc[q] \in {"check", "revokeAll", "revoking"}

SessionInv ==
    /\ TypeOK
    /\ RowsWellFormed
    /\ RequestsWellFormed
    /\ LocksExclusive
    /\ ExchangedAreRevoked
    /\ ExchangedOnce
    /\ OneLivePerSignIn
    /\ RevokedHaveReason
    /\ RevocationNeedsReuse
    /\ BarredStop
=============================================================================
