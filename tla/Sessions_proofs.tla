-------------------------- MODULE Sessions_proofs --------------------------
(***************************************************************************)
(* SessionInv is inductive for any sets of sessions, requests and accounts *)
(* and any number of failures: one lemma for each action, whose leaves are *)
(* the types, the rows, the requests with their locks, and the reasons for *)
(* revocation.                                                             *)
(***************************************************************************)
EXTENDS Sessions, TLAPS

\* While a row is left, the new token is one nobody has.
LEMMA NewSessionIsFresh ==
  ASSUME Fresh # {}
  PROVE  /\ NewSession \in Session /\ row[NewSession] = "free"
         /\ \A q \in Request : next[q] # NewSession
<1>1. \E s \in Session : s \in Fresh
  BY DEF Fresh
<1>2. NewSession \in Fresh
  BY <1>1 DEF NewSession
<1>3. QED
  BY <1>2 DEF Fresh

\* The empty table satisfies the invariant.
LEMMA InitSessions == Init => SessionInv
<1> SUFFICES ASSUME Init PROVE SessionInv
  OBVIOUS
<1> USE SessionsAssumption DEF Init, Issued, Holds
<1>1. TypeOK /\ RowsWellFormed /\ ExchangedAreRevoked /\ ExchangedOnce /\ OneLivePerSignIn
  BY DEF TypeOK, Steps, RowsWellFormed, ExchangedAreRevoked, ExchangedOnce, OneLivePerSignIn
<1>2. RequestsWellFormed /\ LocksExclusive /\ BarredStop
  BY DEF RequestsWellFormed, LocksExclusive, BarredStop
<1>3. RevokedHaveReason /\ RevocationNeedsReuse
  BY DEF RevokedHaveReason, RevocationNeedsReuse
<1>4. QED
  BY <1>1, <1>2, <1>3 DEF SessionInv

\* A request moves, no row changes.
LEMMA SignInKeeps ==
  ASSUME SessionInv, NEW q \in Request, SignIn(q)
  PROVE  SessionInv'
<1> USE SessionsAssumption DEF SessionInv, SignIn, Issued, Holds, Unlocked,
      Answer, Goto, Present, rowVars, historyVars, requestVars
<1>1. TypeOK'
  BY DEF TypeOK, Steps
<1>2. RowsWellFormed' /\ ExchangedAreRevoked' /\ ExchangedOnce' /\ OneLivePerSignIn'
  BY DEF RowsWellFormed, ExchangedAreRevoked, ExchangedOnce, OneLivePerSignIn, TypeOK,
     RequestsWellFormed, LocksExclusive
<1>3. RequestsWellFormed' /\ LocksExclusive' /\ BarredStop'
  BY DEF RequestsWellFormed, LocksExclusive, BarredStop, TypeOK, Steps
<1>4. RevokedHaveReason' /\ RevocationNeedsReuse'
  BY DEF RevokedHaveReason, RevocationNeedsReuse, TypeOK, Steps, RequestsWellFormed,
     LocksExclusive
<1>5. QED
  BY <1>1, <1>2, <1>3, <1>4

\* The inserted row begins a sign-in of its own: its root is itself, and no
\* live row has that root.
LEMMA IssueKeeps ==
  ASSUME SessionInv, NEW q \in Request, Issue(q)
  PROVE  SessionInv'
<1> USE SessionsAssumption, NewSessionIsFresh DEF SessionInv, Issue, Issued, Holds, Unlocked,
      Answer, Goto, Present, rowVars, historyVars, requestVars
<1>1. TypeOK'
  BY DEF TypeOK, Steps
<1>2. RowsWellFormed' /\ ExchangedAreRevoked' /\ ExchangedOnce' /\ OneLivePerSignIn'
  BY DEF RowsWellFormed, ExchangedAreRevoked, ExchangedOnce, OneLivePerSignIn, TypeOK,
     RequestsWellFormed, LocksExclusive
<1>3. RequestsWellFormed'
  BY DEF RequestsWellFormed, TypeOK, Steps, RowsWellFormed
<1>4. LocksExclusive' /\ BarredStop'
  BY DEF RequestsWellFormed, LocksExclusive, BarredStop, TypeOK, Steps
<1>5. RevokedHaveReason' /\ RevocationNeedsReuse'
  BY DEF RevokedHaveReason, RevocationNeedsReuse, TypeOK, Steps, RequestsWellFormed,
     LocksExclusive
<1>6. QED
  BY <1>1, <1>2, <1>3, <1>4, <1>5

\* A second presentation of a token is what puts its account into reused.
LEMMA RefreshKeeps ==
  ASSUME SessionInv, NEW q \in Request, Refresh(q)
  PROVE  SessionInv'
<1> USE SessionsAssumption DEF SessionInv, Refresh, Issued, Holds, Unlocked,
      Answer, Goto, Present, rowVars, historyVars, requestVars
<1>1. TypeOK'
  BY DEF TypeOK, Steps, RequestsWellFormed, RowsWellFormed
<1>2. RowsWellFormed' /\ ExchangedAreRevoked' /\ ExchangedOnce' /\ OneLivePerSignIn'
  BY DEF RowsWellFormed, ExchangedAreRevoked, ExchangedOnce, OneLivePerSignIn, TypeOK,
     RequestsWellFormed, LocksExclusive
<1>3. RequestsWellFormed'
  BY DEF RequestsWellFormed, TypeOK, Steps
<1>4. LocksExclusive' /\ BarredStop'
  BY DEF RequestsWellFormed, LocksExclusive, BarredStop, TypeOK, Steps
<1>5. RevokedHaveReason' /\ RevocationNeedsReuse'
  BY DEF RevokedHaveReason, RevocationNeedsReuse, TypeOK, Steps, RequestsWellFormed,
     LocksExclusive
<1>6. QED
  BY <1>1, <1>2, <1>3, <1>4, <1>5

\* RefreshExpired keeps the invariant.
LEMMA RefreshExpiredKeeps ==
  ASSUME SessionInv, NEW q \in Request, RefreshExpired(q)
  PROVE  SessionInv'
<1> USE SessionsAssumption DEF SessionInv, RefreshExpired, Issued, Holds, Unlocked,
      Answer, Goto, Present, rowVars, historyVars, requestVars
<1>1. TypeOK'
  BY DEF TypeOK, Steps, RequestsWellFormed, RowsWellFormed
<1>2. RowsWellFormed' /\ ExchangedAreRevoked' /\ ExchangedOnce' /\ OneLivePerSignIn'
  BY DEF RowsWellFormed, ExchangedAreRevoked, ExchangedOnce, OneLivePerSignIn, TypeOK,
     RequestsWellFormed, LocksExclusive
<1>3. RequestsWellFormed' /\ LocksExclusive' /\ BarredStop'
  BY DEF RequestsWellFormed, LocksExclusive, BarredStop, TypeOK, Steps
<1>4. RevokedHaveReason' /\ RevocationNeedsReuse'
  BY DEF RevokedHaveReason, RevocationNeedsReuse, TypeOK, Steps, RequestsWellFormed,
     LocksExclusive
<1>5. QED
  BY <1>1, <1>2, <1>3, <1>4

\* A refresh that is late ends here.
LEMMA CheckAccountKeeps ==
  ASSUME SessionInv, NEW q \in Request, CheckAccount(q)
  PROVE  SessionInv'
<1> USE SessionsAssumption DEF SessionInv, CheckAccount, Issued, Holds, Unlocked,
      Answer, Goto, Present, rowVars, historyVars, requestVars
<1>1. TypeOK'
  BY DEF TypeOK, Steps
<1>2. RowsWellFormed' /\ ExchangedAreRevoked' /\ ExchangedOnce' /\ OneLivePerSignIn'
  BY DEF RowsWellFormed, ExchangedAreRevoked, ExchangedOnce, OneLivePerSignIn, TypeOK,
     RequestsWellFormed, LocksExclusive
<1>3. RequestsWellFormed'
  BY DEF RequestsWellFormed, TypeOK, Steps
<1>4. LocksExclusive' /\ BarredStop'
  BY DEF RequestsWellFormed, LocksExclusive, BarredStop, TypeOK, Steps
<1>5. RevokedHaveReason'
  <2>1. CASE owner[token[q]] \in barred
    BY <2>1 DEF RevokedHaveReason, TypeOK, Steps
  <2>2. CASE owner[token[q]] \notin barred
    BY <2>2 DEF RevokedHaveReason, TypeOK, Steps
  <2>3. QED
    BY <2>1, <2>2
<1>6. RevocationNeedsReuse'
  BY DEF RevocationNeedsReuse, TypeOK, Steps, RevokedHaveReason
<1>7. QED
  BY <1>1, <1>2, <1>3, <1>4, <1>5, <1>6

\* The row lock is free and the row live, or the request turns to revocation.
LEMMA RevokeOldKeeps ==
  ASSUME SessionInv, NEW q \in Request, RevokeOld(q)
  PROVE  SessionInv'
<1> USE SessionsAssumption DEF SessionInv, RevokeOld, Issued, Holds, Unlocked,
      Answer, Goto, Present, rowVars, historyVars, requestVars
<1>1. TypeOK'
  BY DEF TypeOK, Steps
<1>2. RowsWellFormed' /\ ExchangedAreRevoked' /\ ExchangedOnce' /\ OneLivePerSignIn'
  BY DEF RowsWellFormed, ExchangedAreRevoked, ExchangedOnce, OneLivePerSignIn, TypeOK,
     RequestsWellFormed, LocksExclusive
<1>3. RequestsWellFormed' /\ LocksExclusive' /\ BarredStop'
  BY DEF RequestsWellFormed, LocksExclusive, BarredStop, TypeOK, Steps
<1>4. RevokedHaveReason' /\ RevocationNeedsReuse'
  BY DEF RevokedHaveReason, RevocationNeedsReuse, TypeOK, Steps, RequestsWellFormed,
     LocksExclusive
<1>5. QED
  BY <1>1, <1>2, <1>3, <1>4

\* IssueNext keeps the invariant.
LEMMA IssueNextKeeps ==
  ASSUME SessionInv, NEW q \in Request, IssueNext(q)
  PROVE  SessionInv'
<1> USE SessionsAssumption, NewSessionIsFresh DEF SessionInv, IssueNext, Issued, Holds, Unlocked,
      Answer, Goto, Present, rowVars, historyVars, requestVars
<1>1. TypeOK'
  BY DEF TypeOK, Steps
<1>2. RowsWellFormed' /\ ExchangedAreRevoked' /\ ExchangedOnce' /\ OneLivePerSignIn'
  BY DEF RowsWellFormed, ExchangedAreRevoked, ExchangedOnce, OneLivePerSignIn, TypeOK,
     RequestsWellFormed, LocksExclusive
<1>3. RequestsWellFormed' /\ LocksExclusive' /\ BarredStop'
  BY DEF RequestsWellFormed, LocksExclusive, BarredStop, TypeOK, Steps
<1>4. RevokedHaveReason' /\ RevocationNeedsReuse'
  BY DEF RevokedHaveReason, RevocationNeedsReuse, TypeOK, Steps, RequestsWellFormed,
     LocksExclusive
<1>5. QED
  BY <1>1, <1>2, <1>3, <1>4

\* The old row dies with the birth of the new one, under its lock: the two
\* share a root, and no row was exchanged for the old one before.
LEMMA CommitRefreshKeeps ==
  ASSUME SessionInv, NEW q \in Request, CommitRefresh(q)
  PROVE  SessionInv'
<1> USE SessionsAssumption DEF SessionInv, CommitRefresh, Issued, Holds, Unlocked,
      Answer, Goto, Present, rowVars, historyVars, requestVars
<1>1. TypeOK'
  BY DEF TypeOK, Steps, RequestsWellFormed, RowsWellFormed
<1>2. RowsWellFormed'
  BY DEF RowsWellFormed, TypeOK, RequestsWellFormed, LocksExclusive
<1>3. ExchangedAreRevoked'
  BY DEF RowsWellFormed, ExchangedAreRevoked, TypeOK, RequestsWellFormed, LocksExclusive
<1>4. ExchangedOnce'
  BY DEF RowsWellFormed, ExchangedAreRevoked, ExchangedOnce, TypeOK, RequestsWellFormed,
     LocksExclusive
<1>5. OneLivePerSignIn'
  BY DEF RowsWellFormed, OneLivePerSignIn, TypeOK, RequestsWellFormed, LocksExclusive
<1>6. RequestsWellFormed'
  BY DEF RequestsWellFormed, TypeOK, Steps, LocksExclusive, RowsWellFormed
<1>7. LocksExclusive' /\ BarredStop'
  BY DEF RequestsWellFormed, LocksExclusive, BarredStop, TypeOK, Steps
<1>8. RevokedHaveReason' /\ RevocationNeedsReuse'
  BY DEF RevokedHaveReason, RevocationNeedsReuse, TypeOK, Steps, RequestsWellFormed,
     LocksExclusive
<1>9. QED
  BY <1>1, <1>2, <1>3, <1>4, <1>5, <1>6, <1>7, <1>8

\* PickSessions keeps the invariant.
LEMMA PickSessionsKeeps ==
  ASSUME SessionInv, NEW q \in Request, PickSessions(q)
  PROVE  SessionInv'
<1> USE SessionsAssumption DEF SessionInv, PickSessions, Issued, Holds, Unlocked,
      Answer, Goto, Present, rowVars, historyVars, requestVars
<1>1. TypeOK'
  BY DEF TypeOK, Steps
<1>2. RowsWellFormed' /\ ExchangedAreRevoked' /\ ExchangedOnce' /\ OneLivePerSignIn'
  BY DEF RowsWellFormed, ExchangedAreRevoked, ExchangedOnce, OneLivePerSignIn, TypeOK,
     RequestsWellFormed, LocksExclusive
<1>3. RequestsWellFormed' /\ LocksExclusive' /\ BarredStop'
  BY DEF RequestsWellFormed, LocksExclusive, BarredStop, TypeOK, Steps
<1>4. RevokedHaveReason' /\ RevocationNeedsReuse'
  BY DEF RevokedHaveReason, RevocationNeedsReuse, TypeOK, Steps, RequestsWellFormed,
     LocksExclusive
<1>5. QED
  BY <1>1, <1>2, <1>3, <1>4

\* No other open transaction holds a row of the targets.
LEMMA RevokeAccountSessionsKeeps ==
  ASSUME SessionInv, NEW q \in Request, RevokeAccountSessions(q)
  PROVE  SessionInv'
<1> USE SessionsAssumption DEF SessionInv, RevokeAccountSessions, Issued, Holds, Unlocked,
      Answer, Goto, Present, rowVars, historyVars, requestVars
<1>1. TypeOK'
  BY DEF TypeOK, Steps
<1>2. RowsWellFormed' /\ ExchangedAreRevoked' /\ ExchangedOnce' /\ OneLivePerSignIn'
  BY DEF RowsWellFormed, ExchangedAreRevoked, ExchangedOnce, OneLivePerSignIn, TypeOK,
     RequestsWellFormed, LocksExclusive
<1>3. RequestsWellFormed' /\ LocksExclusive' /\ BarredStop'
  BY DEF RequestsWellFormed, LocksExclusive, BarredStop, TypeOK, Steps
<1>4. RevokedHaveReason' /\ RevocationNeedsReuse'
  BY DEF RevokedHaveReason, RevocationNeedsReuse, TypeOK, Steps, RequestsWellFormed,
     LocksExclusive
<1>5. QED
  BY <1>1, <1>2, <1>3, <1>4

\* Logout keeps the invariant.
LEMMA LogoutKeeps ==
  ASSUME SessionInv, NEW q \in Request, Logout(q)
  PROVE  SessionInv'
<1> USE SessionsAssumption DEF SessionInv, Logout, Issued, Holds, Unlocked,
      Answer, Goto, Present, rowVars, historyVars, requestVars
<1>1. TypeOK'
  BY DEF TypeOK, Steps, RequestsWellFormed, RowsWellFormed
<1>2. RowsWellFormed' /\ ExchangedAreRevoked' /\ ExchangedOnce' /\ OneLivePerSignIn'
  BY DEF RowsWellFormed, ExchangedAreRevoked, ExchangedOnce, OneLivePerSignIn, TypeOK,
     RequestsWellFormed, LocksExclusive
<1>3. RequestsWellFormed'
  BY DEF RequestsWellFormed, TypeOK, Steps
<1>4. LocksExclusive' /\ BarredStop'
  BY DEF RequestsWellFormed, LocksExclusive, BarredStop, TypeOK, Steps
<1>5. RevokedHaveReason' /\ RevocationNeedsReuse'
  BY DEF RevokedHaveReason, RevocationNeedsReuse, TypeOK, Steps, RequestsWellFormed,
     LocksExclusive
<1>6. QED
  BY <1>1, <1>2, <1>3, <1>4, <1>5

\* RevokeLoggedOut keeps the invariant.
LEMMA RevokeLoggedOutKeeps ==
  ASSUME SessionInv, NEW q \in Request, RevokeLoggedOut(q)
  PROVE  SessionInv'
<1> USE SessionsAssumption DEF SessionInv, RevokeLoggedOut, Issued, Holds, Unlocked,
      Answer, Goto, Present, rowVars, historyVars, requestVars
<1>1. TypeOK'
  BY DEF TypeOK, Steps
<1>2. RowsWellFormed' /\ ExchangedAreRevoked' /\ ExchangedOnce' /\ OneLivePerSignIn'
  BY DEF RowsWellFormed, ExchangedAreRevoked, ExchangedOnce, OneLivePerSignIn, TypeOK,
     RequestsWellFormed, LocksExclusive
<1>3. RequestsWellFormed' /\ LocksExclusive' /\ BarredStop'
  BY DEF RequestsWellFormed, LocksExclusive, BarredStop, TypeOK, Steps
<1>4. RevokedHaveReason' /\ RevocationNeedsReuse'
  BY DEF RevokedHaveReason, RevocationNeedsReuse, TypeOK, Steps, RequestsWellFormed,
     LocksExclusive
<1>5. QED
  BY <1>1, <1>2, <1>3, <1>4

\* The open transaction leaves no trace in the rows.
LEMMA FailKeeps ==
  ASSUME SessionInv, NEW q \in Request, Fail(q)
  PROVE  SessionInv'
<1> USE SessionsAssumption DEF SessionInv, Fail, Issued, Holds, Unlocked,
      Answer, Goto, Present, rowVars, historyVars, requestVars
<1>1. TypeOK'
  BY DEF TypeOK, Steps
<1>2. RowsWellFormed' /\ ExchangedAreRevoked' /\ ExchangedOnce' /\ OneLivePerSignIn'
  BY DEF RowsWellFormed, ExchangedAreRevoked, ExchangedOnce, OneLivePerSignIn, TypeOK,
     RequestsWellFormed, LocksExclusive
<1>3. RequestsWellFormed' /\ LocksExclusive' /\ BarredStop'
  BY DEF RequestsWellFormed, LocksExclusive, BarredStop, TypeOK, Steps
<1>4. RevokedHaveReason' /\ RevocationNeedsReuse'
  BY DEF RevokedHaveReason, RevocationNeedsReuse, TypeOK, Steps, RequestsWellFormed,
     LocksExclusive
<1>5. QED
  BY <1>1, <1>2, <1>3, <1>4

\* An operator, the clock, or nobody: no request and no row moves.
LEMMA SurroundingsKeep ==
  ASSUME SessionInv,
         \/ \E s \in Session : Expire(s)
         \/ \E a \in Account : Bar(a) \/ Lift(a)
         \/ UNCHANGED vars
  PROVE  SessionInv'
<1> USE DEF SessionInv, Expire, Bar, Lift, vars, rowVars, historyVars, requestVars
<1>1. UNCHANGED <<rowVars, historyVars, requestVars>>
  OBVIOUS
<1>2. TypeOK'
  BY DEF TypeOK
<1>3. BarredStop'
  BY <1>1 DEF BarredStop, TypeOK
<1>4. QED
  BY <1>1, <1>2, <1>3 DEF RowsWellFormed, RequestsWellFormed, LocksExclusive, Issued, Holds,
     Unlocked, ExchangedAreRevoked, ExchangedOnce, OneLivePerSignIn, RevokedHaveReason,
     RevocationNeedsReuse

\* SessionInv holds in every reachable state.
THEOREM SessionInvariant == Spec => []SessionInv
<1>1. SessionInv /\ [Next]_vars => SessionInv'
  <2> SUFFICES ASSUME SessionInv, [Next]_vars PROVE SessionInv'
    OBVIOUS
  <2>1. CASE Next
    BY <2>1, SignInKeeps, IssueKeeps, RefreshKeeps, RefreshExpiredKeeps, CheckAccountKeeps,
       RevokeOldKeeps, IssueNextKeeps, CommitRefreshKeeps, PickSessionsKeeps,
       RevokeAccountSessionsKeeps, LogoutKeeps, RevokeLoggedOutKeeps, FailKeeps,
       SurroundingsKeep DEF Next, Step
  <2>2. CASE UNCHANGED vars
    BY <2>2, SurroundingsKeep
  <2>3. QED
    BY <2>1, <2>2
<1>2. QED
  BY InitSessions, <1>1, PTL DEF Spec

\* Sessions is type correct.
THEOREM SessionsTypeCorrect == Spec => []TypeOK
<1>1. SessionInv => TypeOK
  BY DEF SessionInv
<1>2. QED
  BY <1>1, SessionInvariant, PTL

\* A sign-in never has two working refresh tokens, whatever interleaves.
THEOREM OneTokenWorks == Spec => []OneLivePerSignIn
<1>1. SessionInv => OneLivePerSignIn
  BY DEF SessionInv
<1>2. QED
  BY <1>1, SessionInvariant, PTL

\* A refresh token is exchanged at most once, however many requests bring it.
THEOREM TokensExchangedOnce == Spec => []ExchangedOnce
<1>1. SessionInv => ExchangedOnce
  BY DEF SessionInv
<1>2. QED
  BY <1>1, SessionInvariant, PTL

\* A row that is revoked for everybody to see is never exchanged: the one step
\* that makes a row the parent of another is the commit of a refresh, and the
\* lock that refresh holds has kept the row live.
THEOREM RevokedIsOver == Spec => RevokedHasNoHeir
<1>1. ASSUME SessionInv, [Next]_vars, NEW s \in Session, NEW t \in Session,
             row[s] = "revoked", parent'[t] = s
      PROVE  parent[t] = s
  <2>1. CASE \E q \in Request : CommitRefresh(q)
    <3>1. PICK q \in Request : CommitRefresh(q)
      BY <2>1
    <3>2. row[token[q]] = "live"
      <4>1. token[q] \in Session /\ Holds(q, token[q])
        BY <1>1, <3>1 DEF SessionInv, RequestsWellFormed, Issued, CommitRefresh, Holds
      <4>2. QED
        BY <4>1, <1>1 DEF SessionInv, LocksExclusive
    <3>3. next[q] \in Session /\ token[q] # s
      BY <1>1, <3>1, <3>2 DEF SessionInv, RequestsWellFormed, CommitRefresh
    <3>4. parent' = [parent EXCEPT ![next[q]] = token[q]] /\ parent \in [Session -> Session \cup {None}]
      BY <1>1, <3>1 DEF SessionInv, TypeOK, CommitRefresh
    <3>5. QED
      BY <1>1, <3>3, <3>4
  <2>2. CASE ~\E q \in Request : CommitRefresh(q)
    <3>1. UNCHANGED parent
      BY <1>1, <2>2 DEF Next, Step, SignIn, Issue, Refresh, RefreshExpired, CheckAccount, RevokeOld,
         IssueNext, PickSessions, RevokeAccountSessions, Logout, RevokeLoggedOut, Fail, Expire,
         Bar, Lift, vars, rowVars
    <3>2. QED
      BY <1>1, <3>1
  <2>3. QED
    BY <2>1, <2>2
<1>2. SessionInv /\ [Next]_vars
        => [\A s, t \in Session : row[s] = "revoked" /\ parent'[t] = s => parent[t] = s]_vars
  BY <1>1
<1>3. QED
  BY <1>2, SessionInvariant, PTL DEF Spec, RevokedHasNoHeir

\* An account none of whose tokens was presented twice is never signed out
\* everywhere.
THEOREM NoRevocationWithoutReuse == Spec => []RevocationNeedsReuse
<1>1. SessionInv => RevocationNeedsReuse
  BY DEF SessionInv
<1>2. QED
  BY <1>1, SessionInvariant, PTL

\* A refresh begun under a bar that still stands never issues tokens.
THEOREM BanHolds == Spec => []BanStopsNextRefresh
<1>1. SessionInv => BanStopsNextRefresh
  BY DEF SessionInv, BarredStop, BanStopsNextRefresh
<1>2. QED
  BY <1>1, SessionInvariant, PTL
=============================================================================
