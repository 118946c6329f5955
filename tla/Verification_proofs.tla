-------------------------- MODULE Verification_proofs --------------------------
(***************************************************************************)
(* VerificationInv is inductive for any sets of links, accounts and        *)
(* requests and any number of failures: one lemma for each action, whose   *)
(* leaves are the types, the rows, the requests, the locks, the links an   *)
(* Issue replaces, and the two promises of Verify.                         *)
(***************************************************************************)
EXTENDS Verification, TLAPS

\* While a row is left, the new link is one nobody has.
LEMMA NewLinkIsFresh ==
  ASSUME Fresh # {}
  PROVE  /\ NewLink \in Link /\ link[NewLink] = "free"
         /\ \A q \in Request : next[q] # NewLink
<1>1. \E l \in Link : l \in Fresh
  BY DEF Fresh
<1>2. NewLink \in Fresh
  BY <1>1 DEF NewLink
<1>3. QED
  BY <1>2 DEF Fresh

\* The empty tables satisfy the invariant.
LEMMA InitVerification == Init => VerificationInv
<1> SUFFICES ASSUME Init PROVE VerificationInv
  OBVIOUS
<1> USE VerificationAssumption DEF Init
<1>1. TypeOK
  BY DEF TypeOK, Steps
<1>2. RowsWellFormed /\ RequestsWellFormed
  BY DEF RowsWellFormed, RequestsWellFormed
<1>3. LocksExclusive /\ EarlierLinksPicked
  BY DEF LocksExclusive, EarlierLinksPicked, Holds
<1>4. VerifyIsAtomic /\ WorksOnce
  BY DEF VerifyIsAtomic, WorksOnce, LinksOf
<1>5. QED
  BY <1>1, <1>2, <1>3, <1>4 DEF VerificationInv

\* A pending account is committed; it has no links, and none was used.
LEMMA RegisterKeeps ==
  ASSUME VerificationInv, NEW q \in Request, Register(q)
  PROVE  VerificationInv'
<1> USE VerificationAssumption DEF VerificationInv, Register, CallIssue, Goto, linkVars
<1>1. TypeOK'
  BY DEF TypeOK, Steps, LinksOf, RequestsWellFormed
<1>2. RowsWellFormed'
  BY DEF RowsWellFormed, TypeOK, RequestsWellFormed
<1>3. RequestsWellFormed'
  BY DEF RequestsWellFormed, TypeOK, Steps, LinksOf, RowsWellFormed
<1>4. LocksExclusive'
  BY DEF LocksExclusive, Holds, Unlocked, TypeOK, Steps, RequestsWellFormed
<1>5. EarlierLinksPicked'
  BY DEF EarlierLinksPicked, TypeOK, Steps, LinksOf, RequestsWellFormed
<1>6. VerifyIsAtomic'
  BY DEF VerifyIsAtomic, TypeOK, LinksOf, RowsWellFormed
<1>7. WorksOnce'
  BY DEF WorksOnce, TypeOK
<1>8. QED
  BY <1>1, <1>2, <1>3, <1>4, <1>5, <1>6, <1>7

\* Only the request changes: it takes its account, and what links the account has.
LEMMA ResendKeeps ==
  ASSUME VerificationInv, NEW q \in Request, Resend(q)
  PROVE  VerificationInv'
<1> USE VerificationAssumption DEF VerificationInv, Resend, CallIssue, Goto, linkVars
<1>1. TypeOK'
  BY DEF TypeOK, Steps, LinksOf, RequestsWellFormed
<1>2. RowsWellFormed'
  BY DEF RowsWellFormed, TypeOK, RequestsWellFormed
<1>3. RequestsWellFormed'
  BY DEF RequestsWellFormed, TypeOK, Steps, LinksOf, RowsWellFormed
<1>4. LocksExclusive'
  BY DEF LocksExclusive, Holds, Unlocked, TypeOK, Steps, RequestsWellFormed
<1>5. EarlierLinksPicked'
  BY DEF EarlierLinksPicked, TypeOK, Steps, LinksOf, RequestsWellFormed
<1>6. VerifyIsAtomic'
  BY DEF VerifyIsAtomic, TypeOK, LinksOf, RowsWellFormed
<1>7. WorksOnce'
  BY DEF WorksOnce, TypeOK
<1>8. QED
  BY <1>1, <1>2, <1>3, <1>4, <1>5, <1>6, <1>7

\* Every link of the account that still works is picked: what is left out is used.
LEMMA PickLinksKeeps ==
  ASSUME VerificationInv, NEW q \in Request, PickLinks(q)
  PROVE  VerificationInv'
<1> USE VerificationAssumption DEF VerificationInv, PickLinks, Goto, linkVars
<1>1. TypeOK'
  BY DEF TypeOK, Steps, LinksOf, RequestsWellFormed
<1>2. RowsWellFormed'
  BY DEF RowsWellFormed, TypeOK, RequestsWellFormed
<1>3. RequestsWellFormed'
  BY DEF RequestsWellFormed, TypeOK, Steps, LinksOf, RowsWellFormed
<1>4. LocksExclusive'
  BY DEF LocksExclusive, Holds, Unlocked, TypeOK, Steps, RequestsWellFormed
<1>5. EarlierLinksPicked'
  BY DEF EarlierLinksPicked, TypeOK, Steps, LinksOf, RequestsWellFormed
<1>6. VerifyIsAtomic'
  BY DEF VerifyIsAtomic, TypeOK, LinksOf, RowsWellFormed
<1>7. WorksOnce'
  BY DEF WorksOnce, TypeOK
<1>8. QED
  BY <1>1, <1>2, <1>3, <1>4, <1>5, <1>6, <1>7

\* The locks are taken once nobody else holds one of them.
LEMMA InvalidateEmailVerificationsKeeps ==
  ASSUME VerificationInv, NEW q \in Request, InvalidateEmailVerifications(q)
  PROVE  VerificationInv'
<1> USE VerificationAssumption DEF VerificationInv, InvalidateEmailVerifications, Goto, linkVars
<1>1. TypeOK'
  BY DEF TypeOK, Steps, LinksOf, RequestsWellFormed
<1>2. RowsWellFormed'
  BY DEF RowsWellFormed, TypeOK, RequestsWellFormed
<1>3. RequestsWellFormed'
  BY DEF RequestsWellFormed, TypeOK, Steps, LinksOf, RowsWellFormed
<1>4. LocksExclusive'
  BY DEF LocksExclusive, Holds, Unlocked, TypeOK, Steps, RequestsWellFormed
<1>5. EarlierLinksPicked'
  BY DEF EarlierLinksPicked, TypeOK, Steps, LinksOf, RequestsWellFormed
<1>6. VerifyIsAtomic'
  BY DEF VerifyIsAtomic, TypeOK, LinksOf, RowsWellFormed
<1>7. WorksOnce'
  BY DEF WorksOnce, TypeOK
<1>8. QED
  BY <1>1, <1>2, <1>3, <1>4, <1>5, <1>6, <1>7

\* The inserted row is a free one that nobody else has inserted.
LEMMA CreateEmailVerificationKeeps ==
  ASSUME VerificationInv, NEW q \in Request, CreateEmailVerification(q)
  PROVE  VerificationInv'
<1> USE VerificationAssumption, NewLinkIsFresh DEF VerificationInv, CreateEmailVerification, Goto, linkVars
<1>1. TypeOK'
  BY DEF TypeOK, Steps, LinksOf, RequestsWellFormed
<1>2. RowsWellFormed'
  BY DEF RowsWellFormed, TypeOK, RequestsWellFormed
<1>3. RequestsWellFormed'
  BY DEF RequestsWellFormed, TypeOK, Steps, LinksOf, RowsWellFormed
<1>4. LocksExclusive'
  BY DEF LocksExclusive, Holds, Unlocked, TypeOK, Steps, RequestsWellFormed
<1>5. EarlierLinksPicked'
  BY DEF EarlierLinksPicked, TypeOK, Steps, LinksOf, RequestsWellFormed
<1>6. VerifyIsAtomic'
  BY DEF VerifyIsAtomic, TypeOK, LinksOf, RowsWellFormed
<1>7. WorksOnce'
  BY DEF WorksOnce, TypeOK
<1>8. QED
  BY <1>1, <1>2, <1>3, <1>4, <1>5, <1>6, <1>7

\* Picked rows die and the new one lives; neither is held by another request.
LEMMA CommitLinkKeeps ==
  ASSUME VerificationInv, NEW q \in Request, CommitLink(q)
  PROVE  VerificationInv'
<1> USE VerificationAssumption DEF VerificationInv, CommitLink, Goto, linkVars
<1>1. TypeOK'
  BY DEF TypeOK, Steps, LinksOf, RequestsWellFormed
<1>2. RowsWellFormed'
  BY DEF RowsWellFormed, TypeOK, RequestsWellFormed
<1>3. RequestsWellFormed'
  BY DEF RequestsWellFormed, TypeOK, Steps, LinksOf, RowsWellFormed
<1>4. LocksExclusive'
  BY DEF LocksExclusive, Holds, Unlocked, TypeOK, Steps, RequestsWellFormed
<1>5. EarlierLinksPicked'
  BY DEF EarlierLinksPicked, TypeOK, Steps, LinksOf, RequestsWellFormed
<1>6. VerifyIsAtomic'
  <2>1. next[q] \in Link /\ uses[next[q]] = 0
    BY DEF RequestsWellFormed, RowsWellFormed
  <2>2. \A l \in Link \ {next[q]} : owner'[l] = owner[l] /\ (link'[l] # "free" <=> link[l] # "free")
    BY DEF TypeOK, RequestsWellFormed
  <2>3. \A a \in Account :
          (\E l \in LinksOf(a)' : uses[l] > 0) <=> (\E l \in LinksOf(a) : uses[l] > 0)
    BY <2>1, <2>2 DEF LinksOf
  <2>4. QED
    BY <2>3 DEF VerifyIsAtomic
<1>7. WorksOnce'
  BY DEF WorksOnce, TypeOK
<1>8. QED
  BY <1>1, <1>2, <1>3, <1>4, <1>5, <1>6, <1>7

\* What is mailed has been stored.
LEMMA SendVerificationKeeps ==
  ASSUME VerificationInv, NEW q \in Request, SendVerification(q)
  PROVE  VerificationInv'
<1> USE VerificationAssumption DEF VerificationInv, SendVerification, Answer, linkVars
<1>1. TypeOK'
  BY DEF TypeOK, Steps, LinksOf, RequestsWellFormed
<1>2. RowsWellFormed'
  BY DEF RowsWellFormed, TypeOK, RequestsWellFormed
<1>3. RequestsWellFormed'
  BY DEF RequestsWellFormed, TypeOK, Steps, LinksOf, RowsWellFormed
<1>4. LocksExclusive'
  BY DEF LocksExclusive, Holds, Unlocked, TypeOK, Steps, RequestsWellFormed
<1>5. EarlierLinksPicked'
  BY DEF EarlierLinksPicked, TypeOK, Steps, LinksOf, RequestsWellFormed
<1>6. VerifyIsAtomic'
  BY DEF VerifyIsAtomic, TypeOK, LinksOf, RowsWellFormed
<1>7. WorksOnce'
  BY DEF WorksOnce, TypeOK
<1>8. QED
  BY <1>1, <1>2, <1>3, <1>4, <1>5, <1>6, <1>7

\* The token is that of a mailed link, so of a stored one.
LEMMA BeginVerifyKeeps ==
  ASSUME VerificationInv, NEW q \in Request, BeginVerify(q)
  PROVE  VerificationInv'
<1> USE VerificationAssumption DEF VerificationInv, BeginVerify, Goto, linkVars
<1>1. TypeOK'
  BY DEF TypeOK, Steps, LinksOf, RequestsWellFormed
<1>2. RowsWellFormed'
  BY DEF RowsWellFormed, TypeOK, RequestsWellFormed
<1>3. RequestsWellFormed'
  BY DEF RequestsWellFormed, TypeOK, Steps, LinksOf, RowsWellFormed
<1>4. LocksExclusive'
  BY DEF LocksExclusive, Holds, Unlocked, TypeOK, Steps, RequestsWellFormed
<1>5. EarlierLinksPicked'
  BY DEF EarlierLinksPicked, TypeOK, Steps, LinksOf, RequestsWellFormed
<1>6. VerifyIsAtomic'
  BY DEF VerifyIsAtomic, TypeOK, LinksOf, RowsWellFormed
<1>7. WorksOnce'
  BY DEF WorksOnce, TypeOK
<1>8. QED
  BY <1>1, <1>2, <1>3, <1>4, <1>5, <1>6, <1>7

\* The lock is free and the row live, or the request is over.
LEMMA ConsumeEmailVerificationKeeps ==
  ASSUME VerificationInv, NEW q \in Request, ConsumeEmailVerification(q)
  PROVE  VerificationInv'
<1> USE VerificationAssumption DEF VerificationInv, ConsumeEmailVerification, Answer, Goto, linkVars
<1>1. TypeOK'
  BY DEF TypeOK, Steps, LinksOf, RequestsWellFormed
<1>2. RowsWellFormed'
  BY DEF RowsWellFormed, TypeOK, RequestsWellFormed
<1>3. RequestsWellFormed'
  BY DEF RequestsWellFormed, TypeOK, Steps, LinksOf, RowsWellFormed
<1>4. LocksExclusive'
  BY DEF LocksExclusive, Holds, Unlocked, TypeOK, Steps, RequestsWellFormed
<1>5. EarlierLinksPicked'
  BY DEF EarlierLinksPicked, TypeOK, Steps, LinksOf, RequestsWellFormed
<1>6. VerifyIsAtomic'
  BY DEF VerifyIsAtomic, TypeOK, LinksOf, RowsWellFormed
<1>7. WorksOnce'
  BY DEF WorksOnce, TypeOK
<1>8. QED
  BY <1>1, <1>2, <1>3, <1>4, <1>5, <1>6, <1>7

\* The request moves on with its lock.
LEMMA MarkEmailVerifiedKeeps ==
  ASSUME VerificationInv, NEW q \in Request, MarkEmailVerified(q)
  PROVE  VerificationInv'
<1> USE VerificationAssumption DEF VerificationInv, MarkEmailVerified, Goto, linkVars
<1>1. TypeOK'
  BY DEF TypeOK, Steps, LinksOf, RequestsWellFormed
<1>2. RowsWellFormed'
  BY DEF RowsWellFormed, TypeOK, RequestsWellFormed
<1>3. RequestsWellFormed'
  BY DEF RequestsWellFormed, TypeOK, Steps, LinksOf, RowsWellFormed
<1>4. LocksExclusive'
  BY DEF LocksExclusive, Holds, Unlocked, TypeOK, Steps, RequestsWellFormed
<1>5. EarlierLinksPicked'
  BY DEF EarlierLinksPicked, TypeOK, Steps, LinksOf, RequestsWellFormed
<1>6. VerifyIsAtomic'
  BY DEF VerifyIsAtomic, TypeOK, LinksOf, RowsWellFormed
<1>7. WorksOnce'
  BY DEF WorksOnce, TypeOK
<1>8. QED
  BY <1>1, <1>2, <1>3, <1>4, <1>5, <1>6, <1>7

\* The link was live, so this is its first use, and its account is the one activated.
LEMMA CommitVerifyKeeps ==
  ASSUME VerificationInv, NEW q \in Request, CommitVerify(q)
  PROVE  VerificationInv'
<1> USE VerificationAssumption DEF VerificationInv, CommitVerify, Answer, linkVars
<1>0. /\ token[q] \in Link /\ link[token[q]] = "live" /\ uses[token[q]] = 0
      /\ owner[token[q]] \in Account
  <2>1. token[q] \in Link
    BY DEF TypeOK, RequestsWellFormed
  <2>2. link[token[q]] = "live"
    BY <2>1 DEF LocksExclusive, Holds
  <2>3. QED
    BY <2>1, <2>2 DEF RowsWellFormed
<1>1. TypeOK'
  BY <1>0 DEF TypeOK, Steps
<1>2. RowsWellFormed'
  BY DEF RowsWellFormed, TypeOK, RequestsWellFormed
<1>3. RequestsWellFormed'
  BY DEF RequestsWellFormed, TypeOK, Steps, LinksOf, RowsWellFormed
<1>4. LocksExclusive'
  BY DEF LocksExclusive, Holds, Unlocked, TypeOK, Steps, RequestsWellFormed
<1>5. EarlierLinksPicked'
  BY DEF EarlierLinksPicked, TypeOK, Steps, LinksOf, RequestsWellFormed
<1>6. VerifyIsAtomic'
  <2>1. uses' = [uses EXCEPT ![token[q]] = 1]
    BY <1>0 DEF TypeOK
  <2>2. \A a \in Account : LinksOf(a)' = LinksOf(a)
    BY <1>0 DEF LinksOf, TypeOK
  <2>3. ASSUME NEW a \in Account, a # owner[token[q]]
        PROVE  status'[a] = status[a] /\ \A l \in LinksOf(a) : uses'[l] = uses[l]
    BY <1>0, <2>1, <2>3 DEF TypeOK, LinksOf
  <2>4. /\ status'[owner[token[q]]] = "active" /\ uses'[token[q]] = 1
        /\ token[q] \in LinksOf(owner[token[q]])
    BY <1>0, <2>1 DEF TypeOK, LinksOf
  <2>5. QED
    BY <1>0, <2>2, <2>3, <2>4 DEF VerifyIsAtomic
<1>7. WorksOnce'
  BY <1>0 DEF WorksOnce, TypeOK
<1>8. QED
  BY <1>1, <1>2, <1>3, <1>4, <1>5, <1>6, <1>7

\* What an open transaction held is let go, and nothing else changes.
LEMMA FailKeeps ==
  ASSUME VerificationInv, NEW q \in Request, Fail(q)
  PROVE  VerificationInv'
<1> USE VerificationAssumption DEF VerificationInv, Fail, Answer, linkVars
<1>1. TypeOK'
  BY DEF TypeOK, Steps, LinksOf, RequestsWellFormed
<1>2. RowsWellFormed'
  BY DEF RowsWellFormed, TypeOK, RequestsWellFormed
<1>3. RequestsWellFormed'
  BY DEF RequestsWellFormed, TypeOK, Steps, LinksOf, RowsWellFormed
<1>4. LocksExclusive'
  BY DEF LocksExclusive, Holds, Unlocked, TypeOK, Steps, RequestsWellFormed
<1>5. EarlierLinksPicked'
  BY DEF EarlierLinksPicked, TypeOK, Steps, LinksOf, RequestsWellFormed
<1>6. VerifyIsAtomic'
  BY DEF VerifyIsAtomic, TypeOK, LinksOf, RowsWellFormed
<1>7. WorksOnce'
  BY DEF WorksOnce, TypeOK
<1>8. QED
  BY <1>1, <1>2, <1>3, <1>4, <1>5, <1>6, <1>7

\* A link that expires was live, and nothing looks at expired but BeginVerify.
LEMMA SurroundingsKeep ==
  ASSUME VerificationInv, (\E l \in Link : Expire(l)) \/ UNCHANGED vars
  PROVE  VerificationInv'
<1> USE DEF VerificationInv, Expire, vars, linkVars, requestVars
<1>1. UNCHANGED <<status, linkVars, mailed, uses, requestVars>>
  OBVIOUS
<1>2. TypeOK'
  BY DEF TypeOK
<1>3. QED
  BY <1>1, <1>2 DEF RowsWellFormed, RequestsWellFormed, LocksExclusive, Holds, Unlocked,
     EarlierLinksPicked, VerifyIsAtomic, LinksOf, WorksOnce

\* VerificationInv holds in every reachable state.
THEOREM VerificationInvariant == Spec => []VerificationInv
<1>1. VerificationInv /\ [Next]_vars => VerificationInv'
  <2> SUFFICES ASSUME VerificationInv, [Next]_vars PROVE VerificationInv'
    OBVIOUS
  <2>1. CASE Next
    BY <2>1, RegisterKeeps, ResendKeeps, PickLinksKeeps, InvalidateEmailVerificationsKeeps,
       CreateEmailVerificationKeeps, CommitLinkKeeps, SendVerificationKeeps, BeginVerifyKeeps,
       ConsumeEmailVerificationKeeps, MarkEmailVerifiedKeeps, CommitVerifyKeeps, FailKeeps,
       SurroundingsKeep DEF Next, Step
  <2>2. CASE UNCHANGED vars
    BY <2>2, SurroundingsKeep
  <2>3. QED
    BY <2>1, <2>2
<1>2. QED
  BY InitVerification, <1>1, PTL DEF Spec

\* Verification is type correct.
THEOREM VerificationTypeCorrect == Spec => []TypeOK
<1>1. VerificationInv => TypeOK
  BY DEF VerificationInv
<1>2. QED
  BY <1>1, VerificationInvariant, PTL

\* No link is used without its account being activated, and no account is
\* activated without one, whatever fails in between.
THEOREM VerifyAtomic == Spec => []VerifyIsAtomic
<1>1. VerificationInv => VerifyIsAtomic
  BY DEF VerificationInv
<1>2. QED
  BY <1>1, VerificationInvariant, PTL

\* However many visitors follow one link, one of them is answered "verified".
THEOREM LinkWorksOnce == Spec => []WorksOnce
<1>1. VerificationInv => WorksOnce
  BY DEF VerificationInv
<1>2. QED
  BY <1>1, VerificationInvariant, PTL

\* Every link a recipient has was stored before it was mailed.
THEOREM MailedAreStored == Spec => []MailedLinksAreStored
<1>1. VerificationInv => MailedLinksAreStored
  BY DEF VerificationInv, RowsWellFormed, MailedLinksAreStored, TypeOK
<1>2. QED
  BY <1>1, VerificationInvariant, PTL

\* The commit of a new link kills every link there was when Issue was called:
\* each was picked, or is dead already.
THEOREM NewReplacesOld == Spec => NewLinkReplacesOld
<1>1. ASSUME VerificationInv, NEW q \in Request, CommitLink(q), NEW l \in before[q]
      PROVE  link'[l] # "live"
  <2>1. l \in Link /\ link[l] # "free" /\ (l \in picked[q] \/ link[l] = "used")
    BY <1>1 DEF VerificationInv, EarlierLinksPicked, TypeOK, CommitLink
  <2>2. link[next[q]] = "free"
    BY <1>1 DEF VerificationInv, RequestsWellFormed, CommitLink
  <2>3. QED
    BY <1>1, <2>1, <2>2 DEF CommitLink
<1>2. VerificationInv
        => [\A q \in Request : CommitLink(q) => \A l \in before[q] : link'[l] # "live"]_vars
  BY <1>1
<1>3. QED
  BY <1>2, VerificationInvariant, PTL DEF NewLinkReplacesOld
=============================================================================
