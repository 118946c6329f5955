---------------------------- MODULE Verification ----------------------------
(***************************************************************************)
(* verification.Service: links that prove an email address, issued after   *)
(* a registration or a request to resend, and consumed at most once.       *)
(*                                                                         *)
(* A request is one call of Issue or Verify; each of its steps is one SQL  *)
(* statement, a commit, or the call of the mailer.  The transactions are   *)
(* READ COMMITTED: a statement sees what was committed when it started,    *)
(* waits for the locks of the rows it updates, and looks at a row again    *)
(* after it has waited for it.                                             *)
(***************************************************************************)
EXTENDS Naturals, FiniteSets

CONSTANTS
    Link,           \* rows of email_verifications, one token each
    Account,
    Request,        \* requests the service handles at a time
    MaxFailures,    \* bound: failed statements and mails, stopped processes
    None

ASSUME VerificationAssumption ==
    /\ None \notin Link
    /\ None \notin Account
    /\ MaxFailures \in Nat

VARIABLES
    status,         \* [Account -> committed status]
    link,           \* [Link -> committed state of the row]
    owner,          \* [Link -> account_id]
    expired,        \* links past expires_at
    mailed,         \* links handed to the mailer, which may have sent them
    uses,           \* [Link -> Nat], history: committed verifications
    pc,             \* [Request -> next step]
    user,           \* [Request -> account a link is issued for]
    token,          \* [Request -> link being verified]
    next,           \* [Request -> link inserted]
    picked,         \* [Request -> links a started invalidation updates]
    before,         \* [Request -> links of the account when Issue was called], history
    failures

linkVars == <<link, owner>>
requestVars == <<pc, user, token, next, picked, before>>
vars == <<status, linkVars, expired, mailed, uses, requestVars, failures>>

Steps == {"idle", "begin", "invalidate", "create", "commit", "mail",
          "consume", "mark", "commitVerify"}

TypeOK ==
    /\ status \in [Account -> {"absent", "pending", "active"}]
    /\ link \in [Link -> {"free", "live", "used"}]
    /\ owner \in [Link -> Account \cup {None}]
    /\ expired \in SUBSET Link
    /\ mailed \in SUBSET Link
    /\ uses \in [Link -> Nat]
    /\ pc \in [Request -> Steps]
    /\ user \in [Request -> Account \cup {None}]
    /\ token \in [Request -> Link \cup {None}]
    /\ next \in [Request -> Link \cup {None}]
    /\ picked \in [Request -> SUBSET Link]
    /\ before \in [Request -> SUBSET Link]
    /\ failures \in Nat

Init ==
    /\ status = [a \in Account |-> "absent"]
    /\ link = [l \in Link |-> "free"]
    /\ owner = [l \in Link |-> None]
    /\ expired = {}
    /\ mailed = {}
    /\ uses = [l \in Link |-> 0]
    /\ pc = [q \in Request |-> "idle"]
    /\ user = [q \in Request |-> None]
    /\ token = [q \in Request |-> None]
    /\ next = [q \in Request |-> None]
    /\ picked = [q \in Request |-> {}]
    /\ before = [q \in Request |-> {}]
    /\ failures = 0
-----------------------------------------------------------------------------
Fresh == {l \in Link : link[l] = "free" /\ \A q \in Request : next[q] # l}

\* CHOOSE draws the random token.
NewLink == CHOOSE l \in Link : l \in Fresh

\* Bound: Issue is called only while a row is left for it.
Room ==
    Cardinality(Fresh) >
        Cardinality({q \in Request : pc[q] \in {"begin", "invalidate", "create"}})

LinksOf(a) == {l \in Link : link[l] # "free" /\ owner[l] = a}

\* q's open transaction has updated l.
Holds(q, l) ==
    \/ pc[q] \in {"create", "commit"} /\ l \in picked[q] /\ link[l] = "live"
    \/ pc[q] \in {"mark", "commitVerify"} /\ l = token[q]

Unlocked(q, l) == \A other \in Request \ {q} : ~Holds(other, l)

\* The request ends: the response goes out, an open transaction is rolled back.
Answer(q) ==
    /\ pc' = [pc EXCEPT ![q] = "idle"]
    /\ user' = [user EXCEPT ![q] = None]
    /\ token' = [token EXCEPT ![q] = None]
    /\ next' = [next EXCEPT ![q] = None]
    /\ picked' = [picked EXCEPT ![q] = {}]
    /\ before' = [before EXCEPT ![q] = {}]

Goto(q, step) == pc' = [pc EXCEPT ![q] = step]

\* Issue is called for account a.
CallIssue(q, a) ==
    /\ Room
    /\ Goto(q, "begin")
    /\ user' = [user EXCEPT ![q] = a]
    /\ before' = [before EXCEPT ![q] = LinksOf(a)]
    /\ UNCHANGED <<token, next, picked>>
-----------------------------------------------------------------------------
(* Issue *)

\* The handler of /register has committed a pending account and goes on to Issue.
Register(q) ==
    /\ pc[q] = "idle"
    /\ \E a \in Account :
         /\ status[a] = "absent"
         /\ status' = [status EXCEPT ![a] = "pending"]
         /\ CallIssue(q, a)
    /\ UNCHANGED <<linkVars, expired, mailed, uses, failures>>

\* GetAccountByEmail on the pool; only a pending account gets a link.
Resend(q) ==
    /\ pc[q] = "idle"
    /\ \E a \in Account : status[a] = "pending" /\ CallIssue(q, a)
    /\ UNCHANGED <<status, linkVars, expired, mailed, uses, failures>>

\* Begin, and InvalidateEmailVerifications starts: it updates the unused links
\* it sees now.
PickLinks(q) ==
    /\ pc[q] = "begin"
    /\ picked' = [picked EXCEPT ![q] = {l \in LinksOf(user[q]) : link[l] = "live"}]
    /\ Goto(q, "invalidate")
    /\ UNCHANGED <<status, linkVars, expired, mailed, uses, user, token, next, before, failures>>

\* Mutated: rows locked by another transaction are passed over.
SkipLocked(q) ==
    /\ pc[q] = "invalidate"
    /\ picked' = [picked EXCEPT ![q] = {l \in @ : Unlocked(q, l)}]
    /\ Goto(q, "create")
    /\ UNCHANGED <<status, linkVars, expired, mailed, uses, user, token, next, before, failures>>

\* It has the lock of every row it picked.
InvalidateEmailVerifications(q) ==
    /\ pc[q] = "invalidate"
    /\ \A l \in picked[q] : Unlocked(q, l)
    /\ Goto(q, "create")
    /\ UNCHANGED <<status, linkVars, expired, mailed, uses, user, token, next, picked, before,
                   failures>>

\* Mutated: the link is mailed before its transaction commits.
CreateAndMail(q) ==
    /\ pc[q] = "create"
    /\ Fresh # {}
    /\ next' = [next EXCEPT ![q] = NewLink]
    /\ mailed' = mailed \cup {NewLink}
    /\ Goto(q, "commit")
    /\ UNCHANGED <<status, linkVars, expired, uses, user, token, picked, before, failures>>

CreateEmailVerification(q) ==
    /\ pc[q] = "create"
    /\ Fresh # {}
    /\ next' = [next EXCEPT ![q] = NewLink]
    /\ Goto(q, "commit")
    /\ UNCHANGED <<status, linkVars, expired, mailed, uses, user, token, picked, before,
                   failures>>

\* Mutated: the new row's own id is stored as its account_id.
CommitWrongOwner(q) ==
    /\ pc[q] = "commit"
    /\ link' = [l \in Link |-> IF l = next[q] THEN "live"
                               ELSE IF l \in picked[q] THEN "used" ELSE link[l]]
    /\ owner' = [owner EXCEPT ![next[q]] = next[q]]
    /\ Goto(q, "mail")
    /\ UNCHANGED <<status, expired, mailed, uses, user, token, next, picked, before, failures>>

\* The old links are used and the new one live at once.
CommitLink(q) ==
    /\ pc[q] = "commit"
    /\ link' = [l \in Link |-> IF l = next[q] THEN "live"
                               ELSE IF l \in picked[q] THEN "used" ELSE link[l]]
    /\ owner' = [owner EXCEPT ![next[q]] = user[q]]
    /\ Goto(q, "mail")
    /\ UNCHANGED <<status, expired, mailed, uses, user, token, next, picked, before, failures>>

SendVerification(q) ==
    /\ pc[q] = "mail"
    /\ mailed' = mailed \cup {next[q]}
    /\ Answer(q)
    /\ UNCHANGED <<status, linkVars, expired, uses, failures>>
-----------------------------------------------------------------------------
(* Verify *)

\* Someone follows a mailed link; the time the link is compared with is taken
\* here.  One that has expired, like a token never issued, is refused.
BeginVerify(q) ==
    /\ pc[q] = "idle"
    /\ \E l \in mailed \ expired : token' = [token EXCEPT ![q] = l]
    /\ Goto(q, "consume")
    /\ UNCHANGED <<status, linkVars, expired, mailed, uses, user, next, picked, before, failures>>

\* Mutated: used_at is read in an earlier statement, and no lock is waited for.
ConsumeUnlocked(q) ==
    /\ pc[q] = "consume"
    /\ IF link[token[q]] = "live"
         THEN Goto(q, "mark") /\ UNCHANGED <<user, token, next, picked, before>>
         ELSE Answer(q)
    /\ UNCHANGED <<status, linkVars, expired, mailed, uses, failures>>

\* Mutated: tried again as long as the link matches nothing.
ConsumeRetried(q) ==
    /\ pc[q] = "consume"
    /\ Unlocked(q, token[q])
    /\ link[token[q]] = "live"
    /\ Goto(q, "mark")
    /\ UNCHANGED <<status, linkVars, expired, mailed, uses, user, token, next, picked, before,
                   failures>>

\* ConsumeEmailVerification has the row's lock; a row that is now used matches
\* nothing.
ConsumeEmailVerification(q) ==
    /\ pc[q] = "consume"
    /\ Unlocked(q, token[q])
    /\ IF link[token[q]] = "live"
         THEN Goto(q, "mark") /\ UNCHANGED <<user, token, next, picked, before>>
         ELSE Answer(q)
    /\ UNCHANGED <<status, linkVars, expired, mailed, uses, failures>>

\* Mutated: MarkEmailVerified runs on the pool instead of the transaction.
MarkOnPool(q) ==
    /\ pc[q] = "mark"
    /\ status' = [status EXCEPT ![owner[token[q]]] = "active"]
    /\ Goto(q, "commitVerify")
    /\ UNCHANGED <<linkVars, expired, mailed, uses, user, token, next, picked, before, failures>>

\* It waits for the lock of the account's row.
MarkEmailVerified(q) ==
    /\ pc[q] = "mark"
    /\ \A other \in Request \ {q} :
         pc[other] = "commitVerify" => owner[token[other]] # owner[token[q]]
    /\ Goto(q, "commitVerify")
    /\ UNCHANGED <<status, linkVars, expired, mailed, uses, user, token, next, picked, before,
                   failures>>

CommitVerify(q) ==
    /\ pc[q] = "commitVerify"
    /\ link' = [link EXCEPT ![token[q]] = "used"]
    /\ status' = [status EXCEPT ![owner[token[q]]] = "active"]
    /\ uses' = [uses EXCEPT ![token[q]] = @ + 1]
    /\ Answer(q)
    /\ UNCHANGED <<owner, expired, mailed, failures>>
-----------------------------------------------------------------------------
\* A statement, the commit or the mailer fails, or the process stops.
Fail(q) ==
    /\ pc[q] # "idle"
    /\ failures < MaxFailures
    /\ failures' = failures + 1
    /\ Answer(q)
    /\ UNCHANGED <<status, linkVars, expired, mailed, uses>>

\* linkTTL passes.
Expire(l) ==
    /\ link[l] = "live"
    /\ l \notin expired
    /\ expired' = expired \cup {l}
    /\ UNCHANGED <<status, linkVars, mailed, uses, requestVars, failures>>

Step(q) ==
    \/ PickLinks(q)
    \/ InvalidateEmailVerifications(q)
    \/ CreateEmailVerification(q)
    \/ CommitLink(q)
    \/ SendVerification(q)
    \/ ConsumeEmailVerification(q)
    \/ MarkEmailVerified(q)
    \/ CommitVerify(q)

Next ==
    \/ \E q \in Request : Step(q) \/ Register(q) \/ Resend(q) \/ BeginVerify(q) \/ Fail(q)
    \/ \E l \in Link : Expire(l)

Spec == Init /\ [][Next]_vars

\* Handlers go on running and row locks are granted in the order they were
\* asked for.  Visitors, clocks and faults are not fair.
FairSpec == Spec /\ \A q \in Request : SF_vars(Step(q))
-----------------------------------------------------------------------------
\* Verify: "a link is never used without the account being activated", and an
\* account is active only because one of its own links was used, whatever
\* fails between the two updates.
VerifyIsAtomic ==
    \A a \in Account :
        status[a] = "active" <=> \E l \in LinksOf(a) : uses[l] > 0

\* "A token works once (used_at)": of the visitors who follow one link at the
\* same time, and of those who follow it later, one is answered "verified".
WorksOnce == \A l \in Link : uses[l] <= 1

\* Issue: "the recipient never receives a link that was not stored", also when
\* the transaction fails at its end.
MailedLinksAreStored == \A l \in mailed : link[l] # "free"

\* Issue: "earlier links for the account stop working": those there were when
\* it was called are dead once the new one is stored, even one that a visitor
\* was using meanwhile (TestNewLinkReplacesOldLink has no such visitor).
NewLinkReplacesOld ==
    [][\A q \in Request : CommitLink(q) => \A l \in before[q] : link'[l] # "live"]_vars

\* Links and accounts are never waited for in a circle: again and again a
\* request is over, so each one ends.
RequestsEnd == \A q \in Request : []<>(pc[q] = "idle")

\* Issue: "only the newest one is valid".
OnlyNewestLinkValid ==
    \A l, m \in Link :
        link[l] = "live" /\ link[m] = "live" /\ owner[l] = owner[m] => l = m
-----------------------------------------------------------------------------
(* Why the properties hold: an invariant that is inductive, proved in          *)
(* Verification_proofs.                                                        *)

\* A row that was committed belongs to an account that was, and a link was
\* consumed only if it no longer works.
RowsWellFormed ==
    \A l \in Link :
        IF link[l] = "free"
          THEN owner[l] = None /\ uses[l] = 0 /\ l \notin mailed
          ELSE /\ owner[l] \in Account /\ status[owner[l]] # "absent"
               /\ link[l] = "live" => uses[l] = 0

\* A request issues for a committed account, or verifies a mailed link; what it
\* has inserted is no one else's and not committed before its commit.
RequestsWellFormed ==
    \A q \in Request :
        /\ pc[q] \in {"begin", "invalidate", "create", "commit", "mail"} =>
             user[q] \in Account /\ status[user[q]] # "absent"
        /\ pc[q] \in {"consume", "mark", "commitVerify"} => token[q] \in mailed
        /\ pc[q] \in {"commit", "mail"} =>
             next[q] \in Link /\ (link[next[q]] = "free" <=> pc[q] = "commit")
        /\ \A l \in picked[q] : link[l] # "free"
        /\ \A other \in Request \ {q} : next[q] # None => next[other] # next[q]

\* A row that an open transaction has updated is still live for everybody else,
\* and no second transaction has updated it.
LocksExclusive ==
    \A q \in Request, l \in Link :
        Holds(q, l) => link[l] = "live" /\ Unlocked(q, l)

\* From its snapshot on, Issue has every earlier link that is not dead yet.
EarlierLinksPicked ==
    \A q \in Request : \A l \in before[q] :
        /\ link[l] # "free"
        /\ pc[q] \in {"begin", "invalidate", "create", "commit"} => owner[l] = user[q]
        /\ pc[q] \in {"invalidate", "create", "commit"} => l \in picked[q] \/ link[l] = "used"

VerificationInv ==
    /\ TypeOK
    /\ RowsWellFormed
    /\ RequestsWellFormed
    /\ LocksExclusive
    /\ EarlierLinksPicked
    /\ VerifyIsAtomic
    /\ WorksOnce
=============================================================================
