--------------------------- MODULE Programs_proofs --------------------------
(***************************************************************************)
(* AccessInv is inductive; what is proved of a service and of the access   *)
(* tokens holds of Programs, whose processes and tokens they are; and      *)
(* SchemasInv and CallsDecide are inductive for any words, numbers, bounds *)
(* and calls, from which follows what a schema answers.                    *)
(***************************************************************************)
EXTENDS Programs, Service_proofs

(* The access tokens, for any clocks, lifetimes and number of accounts. *)

\* Truncation to whole seconds takes less than a second off a time.
LEMMA TruncationBounds ==
    ASSUME NEW time \in Nat
    PROVE  /\ NumericDate(time) \in Nat
           /\ NumericDate(time) <= time
           /\ time < NumericDate(time) + Second
<1>1. time % Second \in 0 .. Second - 1
  BY AccessAssumption
<1>2. time % Second <= time
  BY AccessAssumption
<1> QED BY <1>1, <1>2, AccessAssumption DEF NumericDate

\* Whole seconds and the rest make up a time.
LEMMA Division ==
    ASSUME NEW time \in Nat
    PROVE  time = Second * (time \div Second) + (time % Second)
<1> QED BY AccessAssumption

\* What is left is whole seconds.
LEMMA TruncationIsWhole ==
    ASSUME NEW time \in Nat
    PROVE  NumericDate(time) % Second = 0
<1> DEFINE date == NumericDate(time)
           q == time \div Second
           d == date \div Second
           r == date % Second
<1>1. date \in Nat /\ q \in Int /\ d \in Int /\ r \in 0 .. Second - 1
  BY TruncationBounds, AccessAssumption
<1>2. time = Second * q + (time % Second)
  BY Division
<1>3. date = Second * q
  BY <1>2, TruncationBounds, AccessAssumption DEF NumericDate
<1>4. date = Second * d + r
  BY <1>1, Division
<1>5. Second * (q - d) = r
  <2> HIDE DEF date, q, d, r
  <2> QED BY <1>1, <1>3, <1>4, AccessAssumption
<1> HIDE DEF q, d
<1>6. q - d = 0
  <2>1. CASE q - d >= 1
    <3>1. Second * (q - d) >= Second
      BY <2>1, <1>1, AccessAssumption
    <3> QED BY <3>1, <1>5, <1>1, AccessAssumption
  <2>2. CASE q - d <= -1
    <3>1. Second * (q - d) <= -Second
      BY <2>2, <1>1, AccessAssumption
    <3> QED BY <3>1, <1>5, <1>1, AccessAssumption
  <2> QED BY <2>1, <2>2, <1>1
<1> QED BY <1>5, <1>6, <1>1, AccessAssumption
-----------------------------------------------------------------------------
\* The inductive invariant holds at the start.
LEMMA InitAccess == Init => AccessInv
<1> SUFFICES ASSUME Init PROVE AccessInv
  OBVIOUS
<1> USE AccessAssumption DEF Init
<1>1. Never \in Int /\ Never < Never + AccessTokenTTL + MaxLag + MaxSkew /\ Never < 0
  BY DEF Never
<1>2. TypeOK
  BY <1>1 DEF TypeOK
<1>3. AdmittedWereFree /\ TokensWereEarned
  BY DEF AdmittedWereFree, TokensWereEarned
<1>4. LastFreeIsPast
  BY <1>1 DEF LastFreeIsPast
<1>5. BanReachesGateway
  BY <1>1 DEF BanReachesGateway
<1> QED BY <1>2, <1>3, <1>4, <1>5 DEF AccessInv

\* A sign-in or refresh begins with an account that is free now.
LEMMA AdmitKeeps ==
    ASSUME AccessInv, NEW q \in Request, Admit(q)
    PROVE  AccessInv'
<1> USE AccessAssumption DEF AccessInv, Admit
<1>1. TypeOK'
  BY DEF TypeOK
<1>2. AdmittedWereFree'
  <2> SUFFICES ASSUME NEW p \in Request, user'[p] # None
               PROVE  /\ asOf'[p] <= clock /\ clock <= asOf'[p] + MaxLag
                      /\ asOf'[p] <= lastFree[user'[p]]
    BY DEF AdmittedWereFree
  <2>1. CASE p = q
    BY <2>1 DEF TypeOK, LastFreeIsPast
  <2>2. CASE p # q
    BY <2>2 DEF TypeOK, AdmittedWereFree
  <2> QED BY <2>1, <2>2
<1>3. (TokensWereEarned /\ LastFreeIsPast /\ BanReachesGateway)'
  BY DEF TokensWereEarned, LastFreeIsPast, BanReachesGateway
<1> QED BY <1>1, <1>2, <1>3

\* A request that ends leaves what is known of the others.
LEMMA DoneKeepsAdmitted ==
    ASSUME TypeOK, AdmittedWereFree, NEW q \in Request, Done(q),
           UNCHANGED <<clock, lastFree>>
    PROVE  /\ AdmittedWereFree'
           /\ user' \in [Request -> Account \cup {None}]
           /\ asOf' \in [Request -> Nat]
<1> QED BY AccessAssumption DEF AdmittedWereFree, Done, TypeOK

\* A token is signed soon after its account was free, and in whole seconds.
LEMMA IssueKeeps ==
    ASSUME AccessInv, NEW q \in Request, IssueAccess(q)
    PROVE  AccessInv'
<1> USE AccessAssumption DEF AccessInv, IssueAccess
<1> DEFINE new == [account |-> user[q], signed |-> clock,
                   notBefore |-> NumericDate(clock),
                   expires |-> NumericDate(clock + AccessTokenTTL)]
<1>1. clock \in Nat /\ clock + AccessTokenTTL \in Nat /\ user[q] \in Account
  BY DEF TypeOK
<1>2. new \in Tokens /\ new.notBefore % Second = 0 /\ new.expires % Second = 0
  BY <1>1, TruncationBounds, TruncationIsWhole DEF Tokens
<1>3. clock <= lastFree[user[q]] + MaxLag
  BY <1>1 DEF AdmittedWereFree, TypeOK
<1>4. tokens' = tokens \cup {new}
  OBVIOUS
<1>5. (TypeOK /\ AdmittedWereFree)'
  BY <1>2, <1>4, DoneKeepsAdmitted DEF TypeOK
<1>6. TokensWereEarned'
  <2> SUFFICES ASSUME NEW t \in tokens'
               PROVE  /\ t.notBefore = NumericDate(t.signed)
                      /\ t.expires = NumericDate(t.signed + AccessTokenTTL)
                      /\ t.signed <= clock
                      /\ t.signed <= lastFree[t.account] + MaxLag
    BY DEF TokensWereEarned, NumericDate
  <2>1. CASE t \in tokens
    BY <2>1 DEF TokensWereEarned
  <2>2. CASE t = new
    BY <2>2, <1>1, <1>3
  <2> QED BY <2>1, <2>2, <1>4
<1>7. (LastFreeIsPast /\ BanReachesGateway)'
  BY DEF LastFreeIsPast, BanReachesGateway
<1> QED BY <1>5, <1>6, <1>7

\* A request that fails leaves no token.
LEMMA RefuseKeeps ==
    ASSUME AccessInv, NEW q \in Request, Refuse(q)
    PROVE  AccessInv'
<1> USE DEF AccessInv, Refuse
<1>1. (TypeOK /\ AdmittedWereFree)'
  BY DoneKeepsAdmitted DEF TypeOK
<1>2. (TokensWereEarned /\ LastFreeIsPast /\ BanReachesGateway)'
  BY DEF TokensWereEarned, LastFreeIsPast, BanReachesGateway
<1> QED BY <1>1, <1>2

\* When nothing else changes, a later lastFree breaks nothing, as long as it is
\* not in the future and that of a free account is the present.
LEMMA LaterKeeps ==
    ASSUME AccessInv,
           UNCHANGED <<user, asOf, tokens, served>>,
           clock' \in Nat, clock <= clock',
           \A q \in Request : user[q] # None => clock' <= asOf[q] + MaxLag,
           offset' \in -MaxSkew .. MaxSkew,
           barred' \in SUBSET Account,
           lastFree' \in [Account -> Int],
           \A a \in Account : lastFree[a] <= lastFree'[a],
           LastFreeIsPast'
    PROVE  AccessInv'
<1> USE AccessAssumption DEF AccessInv
<1>1. TypeOK'
  BY DEF TypeOK
<1>2. AdmittedWereFree'
  <2> SUFFICES ASSUME NEW q \in Request, user[q] # None
               PROVE  /\ asOf[q] <= clock' /\ clock' <= asOf[q] + MaxLag
                      /\ asOf[q] <= lastFree'[user[q]]
    BY DEF AdmittedWereFree
  <2>1. user[q] \in Account /\ asOf[q] \in Nat
    BY DEF TypeOK
  <2> QED BY <2>1 DEF AdmittedWereFree, TypeOK
<1>3. TokensWereEarned'
  <2> SUFFICES ASSUME NEW t \in tokens
               PROVE  /\ t.notBefore = NumericDate(t.signed)
                      /\ t.expires = NumericDate(t.signed + AccessTokenTTL)
                      /\ t.signed <= clock'
                      /\ t.signed <= lastFree'[t.account] + MaxLag
    BY DEF TokensWereEarned, NumericDate
  <2>1. t.account \in Account /\ t.signed \in Nat
    BY DEF TypeOK, Tokens
  <2> QED BY <2>1 DEF TokensWereEarned, TypeOK
<1>4. BanReachesGateway'
  BY DEF BanReachesGateway, TypeOK
<1> QED BY <1>1, <1>2, <1>3, <1>4

\* Banning and lifting a ban.
LEMMA BarKeeps ==
    ASSUME AccessInv, Bar \/ Lift
    PROVE  AccessInv'
<1> USE AccessAssumption DEF AccessInv
<1>1. \A q \in Request : user[q] # None => clock <= asOf[q] + MaxLag
  BY DEF AdmittedWereFree
<1>2. CASE Bar
  <2>1. LastFreeIsPast' /\ \A a \in Account : lastFree[a] <= lastFree'[a]
    BY <1>2 DEF Bar, LastFreeIsPast, TypeOK
  <2> QED BY <1>1, <1>2, <2>1, LaterKeeps DEF Bar, requestVars, TypeOK
<1>3. CASE Lift
  <2>1. LastFreeIsPast' /\ \A a \in Account : lastFree[a] <= lastFree'[a]
    BY <1>3 DEF Lift, LastFreeIsPast, TypeOK
  <2> QED BY <1>1, <1>3, <2>1, LaterKeeps DEF Lift, requestVars, TypeOK
<1> QED BY <1>2, <1>3

\* Time passes for those who are not barred.
LEMMA TickKeeps ==
    ASSUME AccessInv, Tick
    PROVE  AccessInv'
<1> USE AccessAssumption DEF AccessInv, Tick
<1>1. \A q \in Request : user[q] # None => clock' <= asOf[q] + MaxLag
  BY DEF TypeOK
<1>2. lastFree' \in [Account -> Int] /\ \A a \in Account : lastFree[a] <= lastFree'[a]
  BY DEF LastFreeIsPast, TypeOK
<1>3. LastFreeIsPast'
  BY DEF LastFreeIsPast, TypeOK
<1> QED BY <1>1, <1>2, <1>3, LaterKeeps DEF requestVars, TypeOK

\* Setting a clock within its limits.
LEMMA AdjustKeeps ==
    ASSUME AccessInv, Adjust
    PROVE  AccessInv'
<1> USE AccessAssumption DEF AccessInv, Adjust
<1>1. \A q \in Request : user[q] # None => clock <= asOf[q] + MaxLag
  BY DEF AdmittedWereFree
<1>2. LastFreeIsPast' /\ \A a \in Account : lastFree[a] <= lastFree'[a]
  BY DEF LastFreeIsPast, TypeOK
<1> QED BY <1>1, <1>2, LaterKeeps DEF requestVars, TypeOK

\* The heart of it: a token that the gateway's clock still takes was signed
\* less than its lifetime ago.
LEMMA ForwardKeeps ==
    ASSUME AccessInv, Forward
    PROVE  AccessInv'
<1> USE AccessAssumption DEF AccessInv
<1>1. PICK t \in tokens, claimed \in Account \cup {None} :
        /\ Verify(t, clock + offset)
        /\ served' = [served EXCEPT ![AccountID(t, claimed)] = clock]
  BY DEF Forward
<1>2. /\ t.account \in Account /\ t.signed \in Nat /\ t.expires \in Nat
      /\ lastFree[t.account] \in Int
  BY DEF TypeOK, Tokens
<1>3. t.expires <= t.signed + AccessTokenTTL
  BY <1>2, TruncationBounds DEF TokensWereEarned
<1>4. clock + offset < t.expires /\ offset >= -MaxSkew /\ clock \in Nat /\ offset \in Int
  BY <1>1 DEF Verify, TypeOK
<1>5. clock < lastFree[t.account] + AccessTokenTTL + MaxLag + MaxSkew
  BY <1>2, <1>3, <1>4 DEF TokensWereEarned
<1>6. BanReachesGateway'
  BY <1>1, <1>2, <1>5 DEF BanReachesGateway, Forward, AccountID, TypeOK
<1>7. TypeOK'
  <2>1. served' \in [Account -> Int]
    BY <1>1, <1>2, <1>4 DEF AccountID, TypeOK
  <2> QED BY <2>1 DEF Forward, requestVars, TypeOK
<1>8. (AdmittedWereFree /\ TokensWereEarned /\ LastFreeIsPast)'
  BY DEF Forward, requestVars, AdmittedWereFree, TokensWereEarned, LastFreeIsPast,
         NumericDate
<1> QED BY <1>6, <1>7, <1>8
-----------------------------------------------------------------------------
\* AccessInv is an invariant of the accounts service and the gateway together.
THEOREM AccessInvariant == Spec => []AccessInv
<1>1. AccessInv /\ [Next]_vars => AccessInv'
  <2> SUFFICES ASSUME AccessInv, [Next]_vars PROVE AccessInv'
    OBVIOUS
  <2>1. ASSUME NEW q \in Request, Admit(q) PROVE AccessInv'
    BY <2>1, AdmitKeeps
  <2>2. ASSUME NEW q \in Request, IssueAccess(q) PROVE AccessInv'
    BY <2>2, IssueKeeps
  <2>3. ASSUME NEW q \in Request, Refuse(q) PROVE AccessInv'
    BY <2>3, RefuseKeeps
  <2>4. CASE Bar \/ Lift
    BY <2>4, BarKeeps
  <2>5. CASE Forward
    BY <2>5, ForwardKeeps
  <2>6. CASE Tick
    BY <2>6, TickKeeps
  <2>7. CASE Adjust
    BY <2>7, AdjustKeeps
  <2>8. CASE UNCHANGED vars
    BY <2>8 DEF vars, requestVars, AccessInv, TypeOK, AdmittedWereFree,
                TokensWereEarned, LastFreeIsPast, BanReachesGateway, NumericDate
  <2> QED BY <2>1, <2>2, <2>3, <2>4, <2>5, <2>6, <2>7, <2>8 DEF Next
<1> QED BY InitAccess, <1>1, PTL DEF Spec

\* The state keeps its types, and dates in tokens are whole seconds.
THEOREM AccessTypeCorrect == Spec => []TypeOK
<1>1. AccessInv => TypeOK
  BY DEF AccessInv
<1> QED BY AccessInvariant, <1>1, PTL

\* No upstream is asked on behalf of an account that has been barred for a
\* token's lifetime, the longest request and the difference of the clocks.
THEOREM BansReachTheGateway == Spec => []BanReachesGateway
<1>1. AccessInv => BanReachesGateway
  BY DEF AccessInv
<1> QED BY AccessInvariant, <1>1, PTL

\* A token is taken while it is fresh by both clocks.
THEOREM TokensWorkWhileFresh == Spec => []WorksWhileFresh
<1>1. AccessInv => WorksWhileFresh
  <2> SUFFICES ASSUME AccessInv, NEW t \in tokens,
                      clock >= t.signed + MaxSkew,
                      clock <= t.signed + AccessTokenTTL - Second - MaxSkew
               PROVE  Verify(t, clock + offset)
    BY DEF WorksWhileFresh
  <2> USE AccessAssumption DEF AccessInv
  <2>1. t.signed \in Nat /\ clock \in Nat /\ offset \in -MaxSkew .. MaxSkew
    BY DEF TypeOK, Tokens
  <2>2. /\ t.notBefore = NumericDate(t.signed)
        /\ t.expires = NumericDate(t.signed + AccessTokenTTL)
    BY DEF TokensWereEarned
  <2>3. NumericDate(t.signed) \in Nat /\ NumericDate(t.signed) <= t.signed
    BY <2>1, TruncationBounds
  <2>4. /\ NumericDate(t.signed + AccessTokenTTL) \in Nat
        /\ t.signed + AccessTokenTTL < NumericDate(t.signed + AccessTokenTTL) + Second
    BY <2>1, TruncationBounds
  <2> QED BY <2>1, <2>2, <2>3, <2>4 DEF Verify
<1> QED BY AccessInvariant, <1>1, PTL

-----------------------------------------------------------------------------
(* Programs consists of them. *)

\* The process of Programs is a process of a service.
THEOREM ProcessIsService == ProgramsSpec => ServiceSpec
<1>1. ProgramsInit => ServiceInit
  BY DEF ProgramsInit
<1>2. [ProgramsNext]_programVars => [ServiceNext]_serviceVars
  BY DEF ProgramsNext, programVars
<1>3. QED
  BY <1>1, <1>2, PTL DEF ProgramsSpec, ServiceSpec

\* Its tokens are those of Access.
THEOREM TokensAreAccess == ProgramsSpec => Spec
<1>1. ProgramsInit => Init
  BY DEF ProgramsInit
<1>2. [ProgramsNext]_programVars => [Next]_vars
  BY DEF ProgramsNext, programVars
<1>3. QED
  BY <1>1, <1>2, PTL DEF ProgramsSpec, Spec

-----------------------------------------------------------------------------
\* t is s with what was added to it: the rules that were there are still there.
Continues(t, s) ==
    /\ t.type = s.type /\ WellBuilt(t) /\ Typed(t)
    /\ \A i \in DOMAIN s.rules : t.rules[i] = s.rules[i]

\* A schema with one more rule.
WithRule(s, rule) == [s EXCEPT !.rules = Append(@, rule)]

\* A rule that is appended, aliased for integers at most, leaves the others.
LEMMA RuleAppended ==
  ASSUME NEW s, WellBuilt(s), NEW rule, DOMAIN rule = {"message", "accepts", "aliased"},
         rule.aliased => s.type = "int"
  PROVE  /\ WellBuilt(WithRule(s, rule))
         /\ WithRule(s, rule).type = s.type /\ WithRule(s, rule).optional = s.optional
         /\ WithRule(s, rule).items = s.items
         /\ \A i \in DOMAIN s.rules : WithRule(s, rule).rules[i] = s.rules[i]
         /\ \A i \in DOMAIN WithRule(s, rule).rules :
              i \in DOMAIN s.rules \/ WithRule(s, rule).rules[i] = rule
<1> DEFINE t == WithRule(s, rule)
           old == s.rules
           new == t.rules
<1>1. /\ t.type = s.type /\ t.optional = s.optional /\ t.items = s.items
      /\ DOMAIN t = {"type", "field", "rules", "optional", "items"}
      /\ new = Append(old, rule) /\ IsList(old)
  BY DEF WellBuilt, WithRule
<1>2. \A i \in DOMAIN old : DOMAIN old[i] = {"message", "accepts", "aliased"}
  BY DEF WellBuilt
<1>3. \A i \in DOMAIN old : old[i].aliased => s.type = "int"
  BY DEF WellBuilt
<1> HIDE DEF t, old, new
<1>4. IsList(new)
  BY <1>1, AppendLists
<1>5. Len(old) \in Nat /\ DOMAIN old = 1..Len(old)
  BY <1>1, AppendLists
<1>6. DOMAIN new = 1..Len(old) + 1
  BY <1>1, AppendLists
<1>7. new[Len(old) + 1] = rule
  BY <1>1, AppendLists
<1>8. \A i \in DOMAIN old : new[i] = old[i]
  BY <1>1, AppendLists
<1>9. \A i \in DOMAIN new : i \in DOMAIN old \/ new[i] = rule
  BY <1>5, <1>6, <1>7
<1>10. \A i \in DOMAIN new : DOMAIN new[i] = {"message", "accepts", "aliased"}
  BY <1>2, <1>8, <1>9
<1>11. \A i \in DOMAIN new : new[i].aliased => t.type = "int"
  BY <1>1, <1>3, <1>8, <1>9
<1>12. WellBuilt(t)
  BY <1>1, <1>4, <1>10, <1>11 DEF WellBuilt, new
<1>13. QED
  BY <1>1, <1>8, <1>9, <1>12 DEF t, old, new

\* If what it accepts has the schema's type, the schema goes on as it was.
LEMMA RuleAdded ==
  ASSUME NEW s, WellBuilt(s), Typed(s), NEW rule, DOMAIN rule = {"message", "accepts", "aliased"},
         rule.accepts \subseteq (IF s.type = "string" THEN Word ELSE Values(s.type)),
         rule.aliased => s.type = "int"
  PROVE  Continues(WithRule(s, rule), s)
<1> DEFINE t == WithRule(s, rule)
<1>1. /\ WellBuilt(t)
      /\ t.type = s.type /\ t.optional = s.optional /\ t.items = s.items
  BY RuleAppended
<1>2. ASSUME NEW i \in DOMAIN s.rules PROVE t.rules[i] = s.rules[i]
  BY RuleAppended
<1>3. ASSUME NEW i \in DOMAIN t.rules PROVE i \in DOMAIN s.rules \/ t.rules[i] = rule
  BY RuleAppended
<1> HIDE DEF t
<1>4. Typed(t)
  <2>1. \A i \in DOMAIN t.rules :
          t.rules[i].accepts \subseteq (IF t.type = "string" THEN Word ELSE Values(t.type))
    BY <1>1, <1>2, <1>3 DEF Typed
  <2>2. QED
    BY <1>1, <2>1 DEF Typed
<1>5. Continues(t, s)
  BY <1>1, <1>2, <1>4 DEF Continues
<1>6. QED
  BY <1>5 DEF t

\* addRule is used by every method that adds a rule, but for an integer's OneOf.
LEMMA AddRuleContinues ==
  ASSUME NEW s, WellBuilt(s), NEW message, NEW accepted
  PROVE  /\ WellBuilt(addRule(s, message, accepted))
         /\ addRule(s, message, accepted).type = s.type
         /\ addRule(s, message, accepted).items = s.items
         /\ Typed(s) /\ accepted \subseteq (IF s.type = "string" THEN Word ELSE Values(s.type))
              => Continues(addRule(s, message, accepted), s)
<1> DEFINE rule == [message |-> message, accepts |-> accepted, aliased |-> FALSE]
<1>1. /\ addRule(s, message, accepted) = WithRule(s, rule)
      /\ rule.accepts = accepted /\ ~rule.aliased
      /\ DOMAIN rule = {"message", "accepts", "aliased"}
  BY DEF addRule, WithRule
<1> HIDE DEF rule
<1>2. QED
  BY <1>1, RuleAppended, RuleAdded

\* Optional, Required and Items add no rule.
LEMMA MarkContinues ==
  ASSUME NEW s, WellBuilt(s), Typed(s)
  PROVE  Continues(Optional(s), s) /\ Continues(Required(s), s) /\ Continues(Items(s), s)
<1>1. ASSUME NEW t, t.rules = s.rules, t.type = s.type, DOMAIN t = DOMAIN s,
             t.optional \in BOOLEAN, t.items \in BOOLEAN
      PROVE  Continues(t, s)
  BY <1>1 DEF Continues, WellBuilt, Typed
<1>2. Continues(Optional(s), s)
  <2>1. /\ Optional(s).rules = s.rules /\ Optional(s).type = s.type /\ DOMAIN Optional(s) = DOMAIN s
        /\ Optional(s).optional \in BOOLEAN /\ Optional(s).items \in BOOLEAN
    BY DEF Optional, WellBuilt, Typed
  <2>2. QED
    BY <1>1, <2>1
<1>3. Continues(Required(s), s)
  <2>1. /\ Required(s).rules = s.rules /\ Required(s).type = s.type /\ DOMAIN Required(s) = DOMAIN s
        /\ Required(s).optional \in BOOLEAN /\ Required(s).items \in BOOLEAN
    BY DEF Required, WellBuilt, Typed
  <2>2. QED
    BY <1>1, <2>1
<1>4. Continues(Items(s), s)
  <2>1. /\ Items(s).rules = s.rules /\ Items(s).type = s.type /\ DOMAIN Items(s) = DOMAIN s
        /\ Items(s).optional \in BOOLEAN /\ Items(s).items \in BOOLEAN
    BY DEF Items, WellBuilt, Typed
  <2>2. QED
    BY <1>1, <2>1
<1>5. QED
  BY <1>2, <1>3, <1>4

\* A new schema is well built.
LEMMA NewIsWellBuilt ==
  ASSUME NEW type \in {"string", "int", "float", "array"}, NEW field
  PROVE  /\ WellBuilt(Schema(type, field)) /\ Typed(Schema(type, field))
         /\ Schema(type, field).type = type /\ ~Schema(type, field).items
<1> DEFINE s == Schema(type, field)
<1>1. /\ s.type = type /\ s.rules = <<>> /\ s.optional = FALSE /\ s.items = FALSE
      /\ DOMAIN s = {"type", "field", "rules", "optional", "items"}
  BY DEF Schema
<1> HIDE DEF s
<1>2. IsList(s.rules) /\ DOMAIN s.rules = {}
  BY <1>1 DEF IsList
<1>3. WellBuilt(s) /\ Typed(s)
  BY <1>1, <1>2 DEF WellBuilt, Typed
<1>4. QED
  BY <1>1, <1>3 DEF s

\* A call that continues the schema keeps the invariant.
LEMMA CallKeeps ==
  ASSUME SchemasInv, schema # NoSchema, NEW call, NEW s, Call(call, s), Continues(s, schema)
  PROVE  SchemasInv' /\ Continues(schema', schema)
<1>1. /\ Len(calls) + Len(itemCalls) < MaxCalls /\ schema' = s /\ calls' = Append(calls, call)
      /\ item' = item /\ itemCalls' = itemCalls
  BY DEF Call
<1>2. /\ IsList(calls')
      /\ Len(calls) \in Nat /\ Len(calls') = Len(calls) + 1
  BY <1>1, AppendLists DEF SchemasInv
<1>3. Len(itemCalls) \in Nat
  BY DEF SchemasInv, IsList
<1>4. Len(calls') + Len(itemCalls') <= MaxCalls
  BY <1>1, <1>2, <1>3, SchemasAssumption DEF SchemasAssumption
<1>5. WellBuilt(schema') /\ Typed(schema') /\ Continues(schema', schema)
  BY <1>1 DEF Continues
<1>6. SchemasTypeOK'
  BY <1>1, <1>4, <1>5 DEF SchemasInv, SchemasTypeOK
<1>7. QED
  BY <1>1, <1>2, <1>5, <1>6 DEF SchemasInv

\* What the calls of an integer schema or a float schema accept are numbers.
LEMMA ValuesOfTypes ==
  /\ Values("string") = Probe /\ Values("int") = Number /\ Values("float") = Float
  /\ Values("array") = List
BY DEF Values

\* Each method of the builders of one type is a call that continues the schema.
LEMMA BuildKeeps ==
  ASSUME SchemasInv, schema # NoSchema, BuildMarks \/ BuildString \/ BuildInt \/ BuildFloat \/ BuildArray
  PROVE  SchemasInv' /\ Continues(schema', schema)
<1>1. WellBuilt(schema) /\ Typed(schema)
  BY DEF SchemasInv, SchemasTypeOK
<1>2. SUFFICES \E call, s : Call(call, s) /\ Continues(s, schema)
  BY CallKeeps
<1>3. CASE BuildMarks
  BY <1>1, <1>3, MarkContinues DEF BuildMarks
<1>4. CASE BuildString
  <2> USE <1>1, AddRuleContinues, ValidateAssumption, SchemasAssumption
          DEF ValidateAssumption, SchemasAssumption
  <2>1. schema.type = "string"
    BY <1>4 DEF BuildString
  <2>2. \A n : /\ Continues(StringMin(schema, n), schema) /\ Continues(StringMax(schema, n), schema)
               /\ Continues(StringLength(schema, n), schema)
    BY <2>1 DEF StringMin, StringMax, StringLength
  <2>3. \A S \in WordSets :
          Continues(StringRegex(schema, S), schema) /\ Continues(StringRefine(schema, S), schema)
    BY <2>1 DEF StringRegex, StringRefine
  <2>4. Continues(StringEmail(schema), schema) /\ Continues(StringURL(schema), schema)
    BY <2>1 DEF StringEmail, StringURL, URLs
  <2>5. /\ Continues(PostgresURL(schema), schema) /\ Continues(RedisURL(schema), schema)
        /\ Continues(RabbitMQURL(schema), schema)
    BY <2>1 DEF PostgresURL, RedisURL, RabbitMQURL, URLs
  <2>6. QED
    BY <1>4, <2>2, <2>3, <2>4, <2>5 DEF BuildString
<1>5. CASE BuildInt
  <2> USE <1>1, AddRuleContinues, SchemasAssumption, ValuesOfTypes DEF SchemasAssumption
  <2>1. schema.type = "int"
    BY <1>5 DEF BuildInt
  <2>2. \A n : Continues(IntMin(schema, n), schema) /\ Continues(IntMax(schema, n), schema)
    BY <2>1 DEF IntMin, IntMax
  <2>3. \A S \in NumberSets : Continues(IntRefine(schema, S), schema)
    BY <2>1 DEF IntRefine
  <2>4. Continues(IntPositive(schema), schema) /\ Continues(IntNegative(schema), schema)
    BY <2>1 DEF IntPositive, IntNegative
  <2>5. QED
    BY <1>5, <2>2, <2>3, <2>4 DEF BuildInt
<1>6. CASE BuildFloat
  <2> USE <1>1, AddRuleContinues, SchemasAssumption, ValuesOfTypes DEF SchemasAssumption
  <2>1. schema.type = "float"
    BY <1>6 DEF BuildFloat
  <2>2. \A n : Continues(FloatMin(schema, n), schema) /\ Continues(FloatMax(schema, n), schema)
    BY <2>1 DEF FloatMin, FloatMax
  <2>3. \A S \in NumberSets : Continues(FloatRefine(schema, S), schema)
    BY <2>1 DEF FloatRefine, Float
  <2>4. Continues(FloatPositive(schema), schema) /\ Continues(FloatNegative(schema), schema)
    BY <2>1 DEF FloatPositive, FloatNegative
  <2>5. QED
    BY <1>6, <2>2, <2>3, <2>4 DEF BuildFloat
<1>7. CASE BuildArray
  <2> USE <1>1, AddRuleContinues, SchemasAssumption, ValuesOfTypes DEF SchemasAssumption
  <2>1. schema.type = "array"
    BY <1>7 DEF BuildArray
  <2>2. \A n : /\ Continues(ArrayMin(schema, n), schema) /\ Continues(ArrayMax(schema, n), schema)
               /\ Continues(ArrayLength(schema, n), schema)
    BY <2>1 DEF ArrayMin, ArrayMax, ArrayLength
  <2>3. \A S \in ListSets : Continues(ArrayRefine(schema, S), schema)
    BY <2>1 DEF ArrayRefine
  <2>4. Continues(Unique(schema), schema) /\ Continues(Items(schema), schema)
    BY <2>1, MarkContinues DEF Unique
  <2>5. QED
    BY <1>7, <2>2, <2>3, <2>4 DEF BuildArray
<1>8. QED
  BY <1>3, <1>4, <1>5, <1>6, <1>7

\* OneOf copies the words of a string schema and keeps the slice of an integer's.
LEMMA OneOfKeeps ==
  ASSUME SchemasInv, schema # NoSchema, BuildOneOf
  PROVE  SchemasInv' /\ Continues(schema', schema)
<1>1. WellBuilt(schema) /\ Typed(schema)
  BY DEF SchemasInv, SchemasTypeOK
<1>2. CASE schema.type = "string" /\ slice' \in WordSets
           /\ Call(<<"OneOf", slice'>>, StringOneOf(schema, slice'))
  <2>1. Continues(StringOneOf(schema, slice'), schema)
    BY <1>1, <1>2, AddRuleContinues, SchemasAssumption DEF StringOneOf, SchemasAssumption
  <2>2. QED
    BY <1>2, <2>1, CallKeeps
<1>3. CASE schema.type = "int" /\ slice' \in NumberSets
           /\ Call(<<"OneOf">>, IntOneOf(schema, slice'))
  <2>1. slice' \subseteq Values("int")
    BY <1>3, SchemasAssumption, ValuesOfTypes DEF SchemasAssumption
  <2>2. Continues(IntOneOf(schema, slice'), schema)
    <3> DEFINE rule == [message |-> <<"OneOf">>, accepts |-> slice', aliased |-> TRUE]
    <3>1. /\ IntOneOf(schema, slice') = WithRule(schema, rule)
          /\ rule.accepts = slice' /\ DOMAIN rule = {"message", "accepts", "aliased"}
      BY DEF IntOneOf, WithRule
    <3> HIDE DEF rule
    <3>2. QED
      BY <1>1, <1>3, <2>1, <3>1, RuleAdded
  <2>3. QED
    BY <1>3, <2>2, CallKeeps
<1>4. QED
  BY <1>2, <1>3 DEF BuildOneOf

\* A call on the item schema continues that one.
LEMMA BuildItemKeeps ==
  ASSUME SchemasInv, schema # NoSchema, BuildItem
  PROVE  SchemasInv' /\ schema' = schema
<1>1. /\ schema' = schema /\ calls' = calls /\ Len(calls) + Len(itemCalls) < MaxCalls
      /\ item.type = "string" /\ ~item.items /\ WellBuilt(item)
  BY DEF BuildItem, SchemasInv, SchemasTypeOK
<1>2. PICK call : itemCalls' = Append(itemCalls, call)
  BY DEF BuildItem
<1>3. /\ IsList(itemCalls') /\ Len(itemCalls) \in Nat /\ Len(itemCalls') = Len(itemCalls) + 1
  BY <1>2, AppendLists DEF SchemasInv
<1>4. Len(calls) \in Nat
  BY DEF SchemasInv, IsList
<1>5. Len(calls') + Len(itemCalls') <= MaxCalls
  BY <1>1, <1>3, <1>4, SchemasAssumption DEF SchemasAssumption
<1>6. WellBuilt(item') /\ item'.type = "string" /\ ~item'.items
  <2>1. CASE item' = Optional(item)
    BY <1>1, <2>1 DEF Optional, WellBuilt
  <2>2. CASE \E n \in Bounds : item' = StringMin(item, n)
    <3>1. PICK n \in Bounds : item' = addRule(item, <<"Min", n>>, {w \in Word : Runes[w] >= n})
      BY <2>2 DEF StringMin
    <3>2. WellBuilt(item') /\ item'.type = item.type /\ item'.items = item.items
      BY <1>1, <3>1, AddRuleContinues
    <3>3. QED
      BY <1>1, <3>2
  <2>3. QED
    BY <2>1, <2>2 DEF BuildItem
<1>7. SchemasTypeOK'
  BY <1>1, <1>5, <1>6 DEF SchemasInv, SchemasTypeOK, Typed
<1>8. QED
  BY <1>1, <1>3, <1>6, <1>7 DEF SchemasInv

\* A write into the slice that rules share, and only an integer's OneOf shares it.
LEMMA SliceWritten ==
  ASSUME NEW s, WellBuilt(s), Typed(s), NEW words, s.type = "int" => words \subseteq Number,
         NEW t, t = [s EXCEPT !.rules =
           [i \in DOMAIN s.rules |->
               IF s.rules[i].aliased THEN [s.rules[i] EXCEPT !.accepts = words] ELSE s.rules[i]]]
  PROVE  /\ WellBuilt(t) /\ Typed(t)
         /\ s.type = "string" => \A i \in DOMAIN s.rules : t.rules[i] = s.rules[i]
<1> DEFINE old == s.rules
           new == t.rules
<1>1. /\ DOMAIN s = {"type", "field", "rules", "optional", "items"} /\ IsList(old)
      /\ \A i \in DOMAIN old : /\ DOMAIN old[i] = {"message", "accepts", "aliased"}
                               /\ old[i].aliased => s.type = "int"
  BY DEF WellBuilt
<1>2. /\ t.type = s.type /\ t.optional = s.optional /\ t.items = s.items
      /\ DOMAIN t = {"type", "field", "rules", "optional", "items"}
      /\ new = [i \in DOMAIN old |-> IF old[i].aliased THEN [old[i] EXCEPT !.accepts = words] ELSE old[i]]
  BY <1>1
<1>3. \A i \in DOMAIN old :
        old[i].accepts \subseteq (IF s.type = "string" THEN Word ELSE Values(s.type))
  BY DEF Typed
<1> HIDE DEF old, new
<1>4. Len(old) \in Nat /\ DOMAIN old = 1..Len(old)
  BY <1>1 DEF IsList
<1>5. /\ DOMAIN new = DOMAIN old /\ new = [i \in 1..Len(old) |-> new[i]]
      /\ \A i \in DOMAIN old :
           new[i] = IF old[i].aliased THEN [old[i] EXCEPT !.accepts = words] ELSE old[i]
  BY <1>2, <1>4
<1>6. IsList(new)
  BY <1>4, <1>5, ListsItself
<1>7. \A i \in DOMAIN new :
        /\ DOMAIN new[i] = {"message", "accepts", "aliased"}
        /\ new[i].aliased => t.type = "int"
        /\ new[i].accepts = IF old[i].aliased THEN words ELSE old[i].accepts
  BY <1>1, <1>2, <1>5
<1>8. WellBuilt(t)
  BY <1>2, <1>6, <1>7 DEF WellBuilt, new
<1>9. Typed(t)
  <2>1. \A i \in DOMAIN new :
          new[i].accepts \subseteq (IF t.type = "string" THEN Word ELSE Values(t.type))
    BY <1>1, <1>2, <1>3, <1>5, <1>7, ValuesOfTypes
  <2>2. QED
    BY <1>2, <2>1 DEF Typed, new
<1>10. s.type = "string" => \A i \in DOMAIN old : new[i] = old[i]
  BY <1>1, <1>5
<1>11. QED
  BY <1>8, <1>9, <1>10 DEF old, new

\* So a schema for strings is kept as it is.
LEMMA ChangeSliceKeeps ==
  ASSUME SchemasInv, schema # NoSchema, ChangeSlice
  PROVE  /\ SchemasInv'
         /\ schema.type = "string" =>
              \A i \in DOMAIN schema.rules : schema'.rules[i] = schema.rules[i]
<1>1. WellBuilt(schema) /\ Typed(schema)
  BY DEF SchemasInv, SchemasTypeOK
<1>2. schema.type = "int" => slice' \subseteq Number
  BY SchemasAssumption DEF ChangeSlice, SchemasAssumption
<1>3. /\ schema' = [schema EXCEPT !.rules =
           [i \in DOMAIN schema.rules |->
               IF schema.rules[i].aliased THEN [schema.rules[i] EXCEPT !.accepts = slice']
                                          ELSE schema.rules[i]]]
      /\ item' = item /\ calls' = calls /\ itemCalls' = itemCalls
  BY DEF ChangeSlice
<1>4. WellBuilt(schema') /\ Typed(schema')
  BY <1>1, <1>2, <1>3, SliceWritten
<1>5. ASSUME schema.type = "string", NEW i \in DOMAIN schema.rules
      PROVE  schema'.rules[i] = schema.rules[i]
  BY <1>1, <1>3, <1>5 DEF WellBuilt
<1>6. SchemasInv'
  BY <1>3, <1>4 DEF SchemasInv, SchemasTypeOK
<1>7. QED
  BY <1>5, <1>6

\* A new schema, and a check, which changes none.
LEMMA NewAndCheckKeep ==
  ASSUME SchemasInv, NewSchema \/ Check
  PROVE  SchemasInv' /\ (schema # NoSchema => schema' = schema)
<1>1. item' = item /\ calls' = calls /\ itemCalls' = itemCalls
  BY DEF NewSchema, Check
<1>2. CASE NewSchema
  <2>1. schema = NoSchema /\ WellBuilt(schema') /\ Typed(schema')
    BY <1>2, NewIsWellBuilt DEF NewSchema, StringSchema, IntSchema, FloatSchema, ArraySchema
  <2>2. QED
    BY <1>1, <2>1 DEF SchemasInv, SchemasTypeOK
<1>3. CASE Check
  <2>1. schema' = schema
    BY <1>3 DEF Check
  <2>2. QED
    BY <1>1, <2>1 DEF SchemasInv, SchemasTypeOK
<1>4. QED
  BY <1>2, <1>3

\* Every step keeps the invariant, and the rules of a schema for strings.
LEMMA SchemasStepKeeps ==
  ASSUME SchemasInv, [SchemasNext]_schemaVars
  PROVE  /\ SchemasInv'
         /\ schema # NoSchema /\ schema.type = "string" =>
              \A i \in DOMAIN schema.rules : schema'.rules[i] = schema.rules[i]
<1>1. CASE NewSchema \/ Check
  BY <1>1, NewAndCheckKeep
<1>2. CASE schema # NoSchema /\ (BuildMarks \/ BuildString \/ BuildInt \/ BuildFloat \/ BuildArray)
  BY <1>2, BuildKeeps DEF Continues
<1>3. CASE schema # NoSchema /\ BuildOneOf
  BY <1>3, OneOfKeeps DEF Continues
<1>4. CASE schema # NoSchema /\ BuildItem
  BY <1>4, BuildItemKeeps
<1>5. CASE schema # NoSchema /\ ChangeSlice
  BY <1>5, ChangeSliceKeeps
<1>6. CASE UNCHANGED schemaVars
  BY <1>6 DEF schemaVars, SchemasInv, SchemasTypeOK
<1>7. QED
  BY <1>1, <1>2, <1>3, <1>4, <1>5, <1>6 DEF SchemasNext

\* No schema has been made at first, and the item schema has no rules.
LEMMA SchemasInitHolds == SchemasInit => SchemasInv
<1>1. SUFFICES ASSUME SchemasInit PROVE SchemasInv
  OBVIOUS
<1>2. WellBuilt(item) /\ item.type = "string" /\ ~item.items
  BY <1>1, NewIsWellBuilt DEF SchemasInit, StringSchema
<1>3. IsList(<<>>) /\ Len(<<>>) = 0
  BY DEF IsList
<1>4. QED
  BY <1>1, <1>2, <1>3, SchemasAssumption DEF SchemasInit, SchemasInv, SchemasTypeOK, SchemasAssumption

\* SchemasInv holds in every state of every program.
THEOREM SchemasInvariant == ProgramsSpec => []SchemasInv
<1>1. ProgramsInit => SchemasInv
  BY SchemasInitHolds DEF ProgramsInit
<1>2. SchemasInv /\ [ProgramsNext]_programVars => SchemasInv'
  BY SchemasStepKeeps DEF ProgramsNext, programVars
<1>3. QED
  BY <1>1, <1>2, PTL DEF ProgramsSpec

-----------------------------------------------------------------------------
(* What the calls make of a schema. *)

\* One more call: a mark decides whether a value may be empty, another call
\* leaves that as it is.
LEMMA MarkAppended ==
  ASSUME NEW cs, IsList(cs), NEW call
  PROVE  /\ ~IsMark(call) => (MayBeEmpty(Append(cs, call)) <=> MayBeEmpty(cs))
         /\ call = <<"Optional">> => MayBeEmpty(Append(cs, call))
         /\ IsMark(call) /\ call # <<"Optional">> => ~MayBeEmpty(Append(cs, call))
<1> DEFINE new == Append(cs, call)
           n == Len(cs)
<1>1. n \in Nat /\ DOMAIN cs = 1..n
  BY AppendLists
<1>2. DOMAIN new = 1..n + 1
  BY AppendLists
<1>3. \A i \in DOMAIN cs : new[i] = cs[i]
  BY AppendLists
<1>4. new[n + 1] = call
  BY AppendLists
<1> HIDE DEF new, n
<1>5. /\ n + 1 \in 1..n + 1
      /\ \A i \in 1..n + 1 : i <= n + 1 /\ (i # n + 1 => i \in 1..n)
      /\ \A i \in 1..n : i \in 1..n + 1 /\ ~(n + 1 <= i)
  BY <1>1
<1>6. ASSUME ~IsMark(call), MayBeEmpty(new) PROVE MayBeEmpty(cs)
  <2>1. PICK i \in DOMAIN new : /\ IsMark(new[i]) /\ new[i] = <<"Optional">>
                                /\ \A j \in DOMAIN new : IsMark(new[j]) => j <= i
    BY <1>6 DEF MayBeEmpty
  <2>2. i \in 1..n
    BY <1>2, <1>4, <1>5, <1>6, <2>1
  <2>3. \A j \in 1..n : IsMark(cs[j]) => j <= i
    BY <1>1, <1>2, <1>3, <1>5, <2>1
  <2>4. IsMark(cs[i]) /\ cs[i] = <<"Optional">>
    BY <1>1, <1>3, <2>1, <2>2
  <2>5. QED
    BY <1>1, <2>2, <2>3, <2>4 DEF MayBeEmpty
<1>7. ASSUME ~IsMark(call), MayBeEmpty(cs) PROVE MayBeEmpty(new)
  <2>1. PICK i \in DOMAIN cs : /\ IsMark(cs[i]) /\ cs[i] = <<"Optional">>
                               /\ \A j \in DOMAIN cs : IsMark(cs[j]) => j <= i
    BY <1>7 DEF MayBeEmpty
  <2>2. i \in 1..n /\ i \in DOMAIN new /\ IsMark(new[i]) /\ new[i] = <<"Optional">>
    BY <1>1, <1>2, <1>3, <1>5, <2>1
  <2>3. \A j \in DOMAIN new : IsMark(new[j]) => j <= i
    <3>1. ASSUME NEW j \in DOMAIN new, IsMark(new[j]) PROVE j <= i
      <4>1. j \in 1..n
        BY <1>2, <1>4, <1>5, <1>7, <3>1
      <4>2. QED
        BY <1>1, <1>3, <2>1, <3>1, <4>1
    <3>2. QED
      BY <3>1
  <2>4. QED
    BY <2>2, <2>3 DEF MayBeEmpty
<1>8. ASSUME call = <<"Optional">> PROVE MayBeEmpty(new)
  <2>1. IsMark(call)
    BY <1>8 DEF IsMark
  <2>2. n + 1 \in DOMAIN new /\ \A j \in DOMAIN new : j <= n + 1
    BY <1>2, <1>5
  <2>3. QED
    BY <1>4, <1>8, <2>1, <2>2 DEF MayBeEmpty
<1>9. ASSUME IsMark(call), call # <<"Optional">>, MayBeEmpty(new) PROVE FALSE
  <2>1. PICK i \in DOMAIN new : /\ new[i] = <<"Optional">>
                                /\ \A j \in DOMAIN new : IsMark(new[j]) => j <= i
    BY <1>9 DEF MayBeEmpty
  <2>2. n + 1 <= i
    BY <1>2, <1>4, <1>5, <1>9, <2>1
  <2>3. i = n + 1
    BY <1>2, <1>5, <2>1, <2>2
  <2>4. QED
    BY <1>4, <1>9, <2>1, <2>3
<1>10. QED
  BY <1>6, <1>7, <1>8, <1>9 DEF new

\* A call that adds a rule is one of those asked for; a mark or Items is none.
LEMMA CallAsked ==
  ASSUME NEW cs, IsList(cs), NEW call
  PROVE  /\ Asked(cs) \in SUBSET DOMAIN cs
         /\ call[1] \notin {"Optional", "Required", "Items"} =>
              Asked(Append(cs, call)) = Asked(cs) \cup {Len(cs) + 1}
         /\ IsMark(call) \/ call = <<"Items">> => Asked(Append(cs, call)) = Asked(cs)
<1> DEFINE new == Append(cs, call)
           n == Len(cs)
<1>1. n \in Nat /\ DOMAIN cs = 1..n
  BY AppendLists
<1>2. DOMAIN new = 1..n + 1
  BY AppendLists
<1>3. \A i \in DOMAIN cs : new[i] = cs[i]
  BY AppendLists
<1>4. new[n + 1] = call
  BY AppendLists
<1> HIDE DEF new, n
<1>5. /\ n + 1 \in 1..n + 1
      /\ \A i \in 1..n + 1 : i # n + 1 => i \in 1..n
      /\ \A i \in 1..n : i \in 1..n + 1
  BY <1>1
<1>6. Asked(cs) \in SUBSET DOMAIN cs
  BY DEF Asked
<1>7. \A i \in 1..n : i \in Asked(new) <=> i \in Asked(cs)
  BY <1>1, <1>2, <1>3, <1>5 DEF Asked
<1>8. \A i \in Asked(new) : i \in 1..n \/ i = n + 1
  BY <1>2, <1>5 DEF Asked
<1>9. ASSUME call[1] \notin {"Optional", "Required", "Items"} PROVE Asked(new) = Asked(cs) \cup {n + 1}
  <2>1. ~IsMark(call) /\ call # <<"Items">>
    BY <1>9 DEF IsMark
  <2>2. n + 1 \in Asked(new)
    BY <1>2, <1>4, <1>5, <2>1 DEF Asked
  <2>3. QED
    BY <1>1, <1>6, <1>7, <1>8, <2>2
<1>10. ASSUME IsMark(call) \/ call = <<"Items">> PROVE Asked(new) = Asked(cs)
  <2>1. n + 1 \notin Asked(new)
    BY <1>4, <1>10 DEF Asked
  <2>2. QED
    BY <1>1, <1>6, <1>7, <1>8, <2>1
<1>11. QED
  BY <1>6, <1>9, <1>10 DEF new, n

\* An interval from 1 says where it ends.
LEMMA SameLength ==
  ASSUME NEW m \in Nat, NEW n \in Nat, 1..m = 1..n
  PROVE  m = n
<1>1. m # 0 => m \in 1..n
  OBVIOUS
<1>2. n # 0 => n \in 1..m
  OBVIOUS
<1>3. QED
  BY <1>1, <1>2

\* A rule with the call that asks for it.
LEMMA RuleListed ==
  ASSUME NEW s, WellBuilt(s), NEW cs, IsList(cs), RulesListed(s, cs),
         NEW rule, NEW call, rule.message = call, call[1] \notin {"Optional", "Required", "Items"}
  PROVE  RulesListed(WithRule(s, rule), Append(cs, call))
<1> DEFINE made == Selection(cs, Asked(cs))
           more == Selection(Append(cs, call), Asked(Append(cs, call)))
           old == s.rules
           new == WithRule(s, rule).rules
<1>1. new = Append(old, rule) /\ IsList(old)
  BY DEF WithRule, WellBuilt
<1>2. DOMAIN made = DOMAIN old /\ \A k \in DOMAIN made : old[k].message = made[k]
  BY DEF RulesListed
<1>3. IsList(made)
  <2>1. Len(cs) \in Nat /\ Asked(cs) \in SUBSET (1..Len(cs))
    BY CallAsked, AppendLists
  <2>2. QED
    BY <2>1, SelectionElements
<1>4. more = Append(made, call)
  <2>1. Asked(Append(cs, call)) = Asked(cs) \cup {Len(cs) + 1} /\ Asked(cs) \in SUBSET DOMAIN cs
    BY CallAsked
  <2>2. Selection(Append(cs, call), Asked(cs) \cup {Len(cs) + 1}) = Append(made, call)
    BY <2>1, SelectionOfAppend
  <2>3. QED
    BY <2>1, <2>2
<1> HIDE DEF made, more, old, new
<1>5. Len(old) \in Nat /\ DOMAIN old = 1..Len(old) /\ Len(made) \in Nat /\ DOMAIN made = 1..Len(made)
  BY <1>1, <1>3 DEF IsList
<1>6. Len(old) = Len(made)
  BY <1>2, <1>5, SameLength
<1>7. DOMAIN new = 1..Len(old) + 1
  BY <1>1, AppendLists
<1>8. \A k \in DOMAIN old : new[k] = old[k]
  BY <1>1, AppendLists
<1>9. new[Len(old) + 1] = rule
  BY <1>1, AppendLists
<1>10. DOMAIN more = 1..Len(made) + 1
  BY <1>3, <1>4, AppendLists
<1>11. \A k \in DOMAIN made : more[k] = made[k]
  BY <1>3, <1>4, AppendLists
<1>12. more[Len(made) + 1] = call
  BY <1>3, <1>4, AppendLists
<1>13. DOMAIN more = DOMAIN new
  BY <1>6, <1>7, <1>10
<1>14. ASSUME NEW k \in DOMAIN more PROVE new[k].message = more[k]
  <2>1. k \in 1..Len(old) \/ k = Len(old) + 1
    BY <1>5, <1>6, <1>10, <1>14
  <2>2. CASE k \in 1..Len(old)
    BY <1>2, <1>5, <1>6, <1>8, <1>11, <2>2
  <2>3. CASE k = Len(old) + 1
    BY <1>6, <1>9, <1>12, <2>3
  <2>4. QED
    BY <2>1, <2>2, <2>3
<1>15. QED
  BY <1>13, <1>14 DEF RulesListed, more, new

\* A mark or Items, which ask for no rule.
LEMMA MarkListed ==
  ASSUME NEW s, NEW cs, IsList(cs), RulesListed(s, cs), NEW t, t.rules = s.rules,
         NEW call, IsMark(call) \/ call = <<"Items">>
  PROVE  RulesListed(t, Append(cs, call))
<1>1. Asked(Append(cs, call)) = Asked(cs) /\ Asked(cs) \in SUBSET DOMAIN cs
  BY CallAsked
<1>2. Selection(Append(cs, call), Asked(cs)) = Selection(cs, Asked(cs))
  BY <1>1, SelectionOfAppend
<1>3. QED
  BY <1>1, <1>2 DEF RulesListed

\* The message of a rule is a call that was made.
LEMMA MessageIsCall ==
  ASSUME NEW s, NEW cs, IsList(cs), RulesListed(s, cs), NEW k \in DOMAIN s.rules
  PROVE  \E i \in Asked(cs) : s.rules[k].message = cs[i]
<1> DEFINE made == Selection(cs, Asked(cs))
<1>1. k \in DOMAIN made /\ s.rules[k].message = made[k]
  BY DEF RulesListed
<1>2. Len(cs) \in Nat /\ Asked(cs) \in SUBSET (1..Len(cs))
  BY CallAsked, AppendLists
<1>3. \A j \in DOMAIN made : \E i \in Asked(cs) : made[j] = cs[i]
  BY <1>2, SelectionElements
<1> HIDE DEF made
<1>4. QED
  BY <1>1, <1>3

\* A rule that accepts what its call asks for joins others that do.
LEMMA RuleAccepts ==
  ASSUME NEW s, WellBuilt(s), NEW held, RulesAccept(s, held),
         NEW rule, DOMAIN rule = {"message", "accepts", "aliased"}, rule.aliased => s.type = "int",
         \A v \in Carrier(s.type) : v \in rule.accepts <=> MeetsAs(s.type, rule.message, v, held)
  PROVE  RulesAccept(WithRule(s, rule), held)
<1> DEFINE t == WithRule(s, rule)
<1>1. /\ t.type = s.type
      /\ \A i \in DOMAIN s.rules : t.rules[i] = s.rules[i]
      /\ \A i \in DOMAIN t.rules : i \in DOMAIN s.rules \/ t.rules[i] = rule
  BY RuleAppended
<1> HIDE DEF t
<1>2. RulesAccept(t, held)
  BY <1>1 DEF RulesAccept
<1>3. QED
  BY <1>2 DEF t

\* A rule that shares the caller's slice exactly when OneOf made it joins others.
LEMMA RuleShares ==
  ASSUME NEW s, WellBuilt(s), SharesOneOf(s),
         NEW rule, DOMAIN rule = {"message", "accepts", "aliased"}, rule.aliased => s.type = "int",
         s.type \in {"int", "float"} => (rule.aliased <=> rule.message[1] = "OneOf")
  PROVE  SharesOneOf(WithRule(s, rule))
<1> DEFINE t == WithRule(s, rule)
<1>1. /\ t.type = s.type
      /\ \A i \in DOMAIN s.rules : t.rules[i] = s.rules[i]
      /\ \A i \in DOMAIN t.rules : i \in DOMAIN s.rules \/ t.rules[i] = rule
  BY RuleAppended
<1> HIDE DEF t
<1>2. SharesOneOf(t)
  BY <1>1 DEF SharesOneOf
<1>3. QED
  BY <1>2 DEF t

\* What a rule with this message should accept.
AsksFor(type, held, message, accepted) ==
    \A v \in Carrier(type) : v \in accepted <=> MeetsAs(type, message, v, held)

\* The methods of strings: a rule accepts the words its call asks for.
LEMMA StringCalls ==
  ASSUME NEW held
  PROVE  /\ \A n : /\ AsksFor("string", held, <<"Min", n>>, {w \in Word : Runes[w] >= n})
                   /\ AsksFor("string", held, <<"Max", n>>, {w \in Word : Runes[w] <= n})
                   /\ AsksFor("string", held, <<"Length", n>>, {w \in Word : Runes[w] = n})
         /\ \A S : /\ AsksFor("string", held, <<"OneOf", S>>, S)
                   /\ AsksFor("string", held, <<"Regex", S>>, S)
                   /\ AsksFor("string", held, <<"Refine", S>>, S)
         /\ AsksFor("string", held, <<"Email">>, Mailbox)
<1> USE DEF AsksFor, Carrier, MeetsAs, StringMeets, SizeMeets
<1>1. ASSUME NEW n PROVE AsksFor("string", held, <<"Min", n>>, {w \in Word : Runes[w] >= n})
  OBVIOUS
<1>2. ASSUME NEW n PROVE AsksFor("string", held, <<"Max", n>>, {w \in Word : Runes[w] <= n})
  OBVIOUS
<1>3. ASSUME NEW n PROVE AsksFor("string", held, <<"Length", n>>, {w \in Word : Runes[w] = n})
  OBVIOUS
<1>4. ASSUME NEW S PROVE /\ AsksFor("string", held, <<"OneOf", S>>, S)
                         /\ AsksFor("string", held, <<"Regex", S>>, S)
                         /\ AsksFor("string", held, <<"Refine", S>>, S)
  OBVIOUS
<1>5. AsksFor("string", held, <<"Email">>, Mailbox)
  OBVIOUS
<1> HIDE DEF AsksFor
<1>6. QED
  BY <1>1, <1>2, <1>3, <1>4, <1>5

\* Those for URLs; user information with a password has a username or has none.
LEMMA URLCalls ==
  ASSUME NEW held
  PROVE  /\ AsksFor("string", held, <<"URL">>, {w \in URLs : URLOf[w].scheme # "" /\ URLOf[w].host})
         /\ AsksFor("string", held, <<"RedisURL">>, {w \in URLs :
              URLOf[w].scheme \in {"redis", "rediss"} /\ URLOf[w].host})
         /\ AsksFor("string", held, <<"RabbitMQURL">>, {w \in URLs :
              /\ URLOf[w].scheme \in {"amqp", "amqps"}
              /\ URLOf[w].host
              /\ URLOf[w].user # "none" /\ URLOf[w].password})
         /\ AsksFor("string", held, <<"PostgresURL">>, {w \in URLs :
              /\ URLOf[w].scheme \in {"postgres", "postgresql"}
              /\ URLOf[w].host
              /\ URLOf[w].user # "none" /\ URLOf[w].password
              /\ URLOf[w].database})
<1>1. \A w \in URLs :
        /\ w \in Word /\ URLOf[w] # Unparsed
        /\ (HasLogin(URLOf[w]) \/ Nameless(URLOf[w]))
             <=> (URLOf[w].user # "none" /\ URLOf[w].password)
  BY ValidateAssumption DEF ValidateAssumption, URLs, HasLogin, Nameless
<1> USE DEF AsksFor, Carrier, MeetsAs, StringMeets, URLs, URLMeets
<1>2. AsksFor("string", held, <<"URL">>, {w \in URLs : URLOf[w].scheme # "" /\ URLOf[w].host})
  OBVIOUS
<1>3. AsksFor("string", held, <<"RedisURL">>, {w \in URLs :
              URLOf[w].scheme \in {"redis", "rediss"} /\ URLOf[w].host})
  OBVIOUS
<1>4. AsksFor("string", held, <<"RabbitMQURL">>, {w \in URLs :
              /\ URLOf[w].scheme \in {"amqp", "amqps"}
              /\ URLOf[w].host
              /\ URLOf[w].user # "none" /\ URLOf[w].password})
  BY <1>1
<1>5. AsksFor("string", held, <<"PostgresURL">>, {w \in URLs :
              /\ URLOf[w].scheme \in {"postgres", "postgresql"}
              /\ URLOf[w].host
              /\ URLOf[w].user # "none" /\ URLOf[w].password
              /\ URLOf[w].database})
  BY <1>1
<1>6. QED
  BY <1>2, <1>3, <1>4, <1>5

\* The methods of integers, but for OneOf, which accepts what the slice holds.
LEMMA IntCalls ==
  ASSUME NEW held
  PROVE  /\ \A n \in Nat : /\ AsksFor("int", held, <<"Min", n>>, {x \in Number : x >= n})
                           /\ AsksFor("int", held, <<"Max", n>>, {x \in Number : x <= n})
         /\ \A S : AsksFor("int", held, <<"Refine", S>>, S)
         /\ AsksFor("int", held, <<"Positive">>, {x \in Number : x > 0})
         /\ AsksFor("int", held, <<"Negative">>, {x \in Number : x < 0})
         /\ AsksFor("int", held, <<"OneOf">>, held)
<1>0. Carrier("int") = Number /\ Number \subseteq Int /\ NaN \notin Int
  BY ValidateAssumption DEF ValidateAssumption, Carrier, Values
<1> USE <1>0 DEF AsksFor, MeetsAs, NumberMeets, NumberAsked, NaNPasses, SizeMeets
<1>1. ASSUME NEW n \in Nat PROVE AsksFor("int", held, <<"Min", n>>, {x \in Number : x >= n})
  OBVIOUS
<1>2. ASSUME NEW n \in Nat PROVE AsksFor("int", held, <<"Max", n>>, {x \in Number : x <= n})
  OBVIOUS
<1>3. ASSUME NEW S PROVE AsksFor("int", held, <<"Refine", S>>, S)
  OBVIOUS
<1>4. AsksFor("int", held, <<"Positive">>, {x \in Number : x > 0})
  OBVIOUS
<1>5. AsksFor("int", held, <<"Negative">>, {x \in Number : x < 0})
  OBVIOUS
<1>6. AsksFor("int", held, <<"OneOf">>, held)
  OBVIOUS
<1> HIDE DEF AsksFor
<1>7. QED
  BY <1>1, <1>2, <1>3, <1>4, <1>5, <1>6

\* A rule for floats: what it does with numbers, and with NaN.
LEMMA FloatAsks ==
  ASSUME NEW held, NEW call, NEW accepted,
         \A x \in Number : x \in accepted <=> NumberMeets(call, x, held),
         NaN \in accepted <=> NumberMeets(call, NaN, held)
  PROVE  AsksFor("float", held, call, accepted)
<1>1. Carrier("float") = Float /\ \A x \in Float : x \in Number \/ x = NaN
  BY DEF Carrier, Values, Float
<1>2. \A x : MeetsAs("float", call, x, held) <=> NumberMeets(call, x, held)
  BY DEF MeetsAs
<1>3. QED
  BY <1>1, <1>2 DEF AsksFor

\* The methods of floats, which let NaN pass.
LEMMA FloatCalls ==
  ASSUME NEW held
  PROVE  /\ \A n \in Nat : /\ AsksFor("float", held, <<"Min", n>>, {x \in Float : ~Less(x, n)})
                           /\ AsksFor("float", held, <<"Max", n>>, {x \in Float : ~Less(n, x)})
         /\ \A S : AsksFor("float", held, <<"Refine", S>>, S)
         /\ AsksFor("float", held, <<"Positive">>, {x \in Float : x = NaN \/ x > 0})
         /\ AsksFor("float", held, <<"Negative">>, {x \in Float : x = NaN \/ x < 0})
<1>1. /\ NaN \in Float /\ \A x \in Number : x \in Float /\ x \in Int /\ x # NaN
      /\ \A n \in Nat : n # NaN
  <2>1. NaN \notin Int /\ Number \subseteq Int
    BY ValidateAssumption DEF ValidateAssumption
  <2>2. \A n \in Int : n # NaN
    BY <2>1
  <2>3. QED
    BY <2>1, <2>2 DEF Float
<1>2. ASSUME NEW call, NEW accepted, NEW method \in {"Min", "Max", "Positive", "Negative"},
             call[1] = method, NaN \in accepted,
             \A x \in Number : x \in accepted <=> NumberMeets(call, x, held)
      PROVE  AsksFor("float", held, call, accepted)
  <2>1. NumberMeets(call, NaN, held)
    BY <1>2 DEF NumberMeets, NaNPasses
  <2>2. QED
    BY <1>2, <2>1, FloatAsks
<1>3. ASSUME NEW n \in Nat PROVE AsksFor("float", held, <<"Min", n>>, {x \in Float : ~Less(x, n)})
  <2> DEFINE call == <<"Min", n>>
             accepted == {x \in Float : ~Less(x, n)}
  <2>1. call[1] = "Min" /\ call[2] = n
    OBVIOUS
  <2>2. NaN \in accepted
    BY <1>1 DEF Less
  <2>3. \A x \in Number : x \in accepted <=> x >= n
    BY <1>1 DEF Less
  <2> HIDE DEF call, accepted
  <2>4. \A x \in Number : NumberMeets(call, x, held) <=> x >= n
    BY <1>1, <2>1 DEF NumberMeets, NumberAsked, NaNPasses, SizeMeets
  <2>5. AsksFor("float", held, call, accepted)
    BY <1>2, <2>1, <2>2, <2>3, <2>4
  <2>6. QED
    BY <2>5 DEF call, accepted
<1>4. ASSUME NEW n \in Nat PROVE AsksFor("float", held, <<"Max", n>>, {x \in Float : ~Less(n, x)})
  <2> DEFINE call == <<"Max", n>>
             accepted == {x \in Float : ~Less(n, x)}
  <2>1. call[1] = "Max" /\ call[2] = n
    OBVIOUS
  <2>2. NaN \in accepted
    BY <1>1 DEF Less
  <2>3. \A x \in Number : x \in accepted <=> x <= n
    BY <1>1 DEF Less
  <2> HIDE DEF call, accepted
  <2>4. \A x \in Number : NumberMeets(call, x, held) <=> x <= n
    BY <1>1, <2>1 DEF NumberMeets, NumberAsked, NaNPasses, SizeMeets
  <2>5. AsksFor("float", held, call, accepted)
    BY <1>2, <2>1, <2>2, <2>3, <2>4
  <2>6. QED
    BY <2>5 DEF call, accepted
<1>5. ASSUME NEW S PROVE AsksFor("float", held, <<"Refine", S>>, S)
  <2> DEFINE call == <<"Refine", S>>
  <2>1. call[1] = "Refine" /\ call[2] = S
    OBVIOUS
  <2> HIDE DEF call
  <2>2. \A x : NumberMeets(call, x, held) <=> x \in S
    BY <2>1 DEF NumberMeets, NumberAsked, NaNPasses
  <2>3. AsksFor("float", held, call, S)
    BY <2>2, FloatAsks
  <2>4. QED
    BY <2>3 DEF call
<1>6. AsksFor("float", held, <<"Positive">>, {x \in Float : x = NaN \/ x > 0})
  <2> DEFINE call == <<"Positive">>
             accepted == {x \in Float : x = NaN \/ x > 0}
  <2>1. call[1] = "Positive"
    OBVIOUS
  <2>2. NaN \in accepted
    BY <1>1
  <2>3. \A x \in Number : x \in accepted <=> x >= 1
    BY <1>1
  <2> HIDE DEF call, accepted
  <2>4. \A x \in Number : NumberMeets(call, x, held) <=> x >= 1
    BY <1>1, <2>1 DEF NumberMeets, NumberAsked, NaNPasses
  <2>5. AsksFor("float", held, call, accepted)
    BY <1>2, <2>1, <2>2, <2>3, <2>4
  <2>6. QED
    BY <2>5 DEF call, accepted
<1>7. AsksFor("float", held, <<"Negative">>, {x \in Float : x = NaN \/ x < 0})
  <2> DEFINE call == <<"Negative">>
             accepted == {x \in Float : x = NaN \/ x < 0}
  <2>1. call[1] = "Negative"
    OBVIOUS
  <2>2. NaN \in accepted
    BY <1>1
  <2>3. \A x \in Number : x \in accepted <=> x <= -1
    BY <1>1
  <2> HIDE DEF call, accepted
  <2>4. \A x \in Number : NumberMeets(call, x, held) <=> x <= -1
    BY <1>1, <2>1 DEF NumberMeets, NumberAsked, NaNPasses
  <2>5. AsksFor("float", held, call, accepted)
    BY <1>2, <2>1, <2>2, <2>3, <2>4
  <2>6. QED
    BY <2>5 DEF call, accepted
<1>8. QED
  BY <1>3, <1>4, <1>5, <1>6, <1>7

\* A list repeats something exactly if two of its items are the same.
LEMMA RepeatsOf ==
  ASSUME NEW l, Len(l) \in Nat, DOMAIN l = 1..Len(l)
  PROVE  Repeats(l) = {} <=> \A i, j \in DOMAIN l : l[i] = l[j] => i = j
<1>1. ASSUME Repeats(l) = {}, NEW i \in DOMAIN l, NEW j \in DOMAIN l, l[i] = l[j], i # j
      PROVE  FALSE
  <2>1. \A m \in Nat : \A a, b \in 1..m : a # b => a \in 1..b - 1 \/ b \in 1..a - 1
    OBVIOUS
  <2>2. i \in 1..j - 1 \/ j \in 1..i - 1
    BY <1>1, <2>1
  <2>3. j \in Repeats(l) \/ i \in Repeats(l)
    BY <1>1, <2>2 DEF Repeats
  <2>4. QED
    BY <1>1, <2>3
<1>2. ASSUME \A i, j \in DOMAIN l : l[i] = l[j] => i = j, NEW j \in Repeats(l)
      PROVE  FALSE
  <2>1. j \in DOMAIN l /\ \E i \in 1..j - 1 : l[i] = l[j]
    BY <1>2 DEF Repeats
  <2>2. PICK i \in 1..j - 1 : l[i] = l[j]
    BY <2>1
  <2>3. i \in DOMAIN l /\ i # j
    BY <2>1, <2>2
  <2>4. QED
    BY <1>2, <2>1, <2>2, <2>3
<1>3. QED
  BY <1>1, <1>2

\* The methods of arrays.
LEMMA ArrayCalls ==
  ASSUME NEW held
  PROVE  /\ \A n : /\ AsksFor("array", held, <<"Min", n>>, {l \in List : Len(l) >= n})
                   /\ AsksFor("array", held, <<"Max", n>>, {l \in List : Len(l) <= n})
                   /\ AsksFor("array", held, <<"Length", n>>, {l \in List : Len(l) = n})
         /\ \A S : AsksFor("array", held, <<"Refine", S>>, S)
         /\ AsksFor("array", held, <<"Unique">>, {l \in List : Repeats(l) = {}})
<1>0. Carrier("array") = List
  BY DEF Carrier, Values
<1>7. ASSUME NEW l \in List PROVE Len(l) \in Nat /\ DOMAIN l = 1..Len(l)
  <2>1. l \in Seq(Word)
    BY ValidateAssumption DEF ValidateAssumption
  <2>2. QED
    BY <2>1
<1> USE <1>0 DEF AsksFor, MeetsAs, ListMeets, SizeMeets
<1>1. ASSUME NEW n PROVE AsksFor("array", held, <<"Min", n>>, {l \in List : Len(l) >= n})
  OBVIOUS
<1>2. ASSUME NEW n PROVE AsksFor("array", held, <<"Max", n>>, {l \in List : Len(l) <= n})
  OBVIOUS
<1>3. ASSUME NEW n PROVE AsksFor("array", held, <<"Length", n>>, {l \in List : Len(l) = n})
  OBVIOUS
<1>4. ASSUME NEW S PROVE AsksFor("array", held, <<"Refine", S>>, S)
  OBVIOUS
<1>5. AsksFor("array", held, <<"Unique">>, {l \in List : Repeats(l) = {}})
  <2>1. ASSUME NEW l \in List
        PROVE  Repeats(l) = {} <=> \A i, j \in DOMAIN l : l[i] = l[j] => i = j
    <3>1. Len(l) \in Nat /\ DOMAIN l = 1..Len(l)
      BY <1>7
    <3>2. QED
      BY <3>1, RepeatsOf
  <2>2. QED
    BY <2>1
<1> HIDE DEF AsksFor
<1>6. QED
  BY <1>1, <1>2, <1>3, <1>4, <1>5

\* What is in a history that has grown by one call.
LEMMA OneMoreCall ==
  ASSUME NEW cs, IsList(cs), NEW call, NEW new, new = Append(cs, call)
  PROVE  /\ \A i \in DOMAIN new : (i \in DOMAIN cs /\ new[i] = cs[i]) \/ new[i] = call
         /\ \A i \in DOMAIN cs : i \in DOMAIN new /\ new[i] = cs[i]
         /\ \E i \in DOMAIN new : new[i] = call
<1>1. Len(cs) \in Nat /\ DOMAIN cs = 1..Len(cs)
  BY AppendLists
<1>2. DOMAIN new = 1..Len(cs) + 1
  BY AppendLists
<1>3. \A i \in DOMAIN cs : new[i] = cs[i]
  BY AppendLists
<1>4. new[Len(cs) + 1] = call
  BY AppendLists
<1>5. /\ Len(cs) + 1 \in DOMAIN new /\ \A i \in DOMAIN cs : i \in DOMAIN new
      /\ \A i \in DOMAIN new : i \in DOMAIN cs \/ i = Len(cs) + 1
  BY <1>1, <1>2
<1>6. QED
  BY <1>3, <1>4, <1>5

\* What is left of CallsDecide after a call that the schema has taken in.
LEMMA CallDecides ==
  ASSUME SchemasInv, CallsDecide, schema # NoSchema, NEW call, NEW s, Call(call, s),
         Typed(s), s.field = schema.field,
         call[1] = "Unique" => call = <<"Unique">>,
         RulesListed(s, calls'), RulesAccept(s, slice'), SharesOneOf(s),
         s.optional <=> MayBeEmpty(calls'),
         s.items <=> schema.items \/ call = <<"Items">>,
         s.items => s.type = "array"
  PROVE  CallsDecide'
<1>1. /\ schema' = s /\ calls' = Append(calls, call) /\ answer' = NoAnswer
      /\ item' = item /\ itemCalls' = itemCalls
  BY DEF Call
<1>2. s # NoSchema
  BY DEF Typed, NoSchema, Schema
<1>3. IsList(calls)
  BY DEF SchemasInv
<1>4. /\ \A i \in DOMAIN calls' : (i \in DOMAIN calls /\ calls'[i] = calls[i]) \/ calls'[i] = call
      /\ \A i \in DOMAIN calls : i \in DOMAIN calls' /\ calls'[i] = calls[i]
      /\ \E i \in DOMAIN calls' : calls'[i] = call
  BY <1>1, <1>3, OneMoreCall
<1>5. schema.items <=> \E i \in DOMAIN calls : calls[i] = <<"Items">>
  BY DEF CallsDecide, SchemaFollowsCalls
<1>6. s.items <=> \E i \in DOMAIN calls' : calls'[i] = <<"Items">>
  BY <1>4, <1>5
<1>7. s.field = <<"field">>
  BY DEF CallsDecide, SchemaFollowsCalls
<1>8. SchemaFollowsCalls'
  BY <1>1, <1>6, <1>7 DEF SchemaFollowsCalls
<1>9. \A i \in DOMAIN calls' : calls'[i][1] = "Unique" => calls'[i] = <<"Unique">>
  <2>1. \A i \in DOMAIN calls : calls[i][1] = "Unique" => calls[i] = <<"Unique">>
    BY DEF CallsDecide
  <2>2. QED
    BY <1>4, <2>1
<1>10. ItemFollowsCalls' /\ \A i \in DOMAIN itemCalls' : itemCalls'[i][1] \in {"Optional", "Min"}
  BY <1>1 DEF CallsDecide, ItemFollowsCalls
<1>11. QED
  BY <1>1, <1>2, <1>8, <1>9, <1>10 DEF CallsDecide

\* A call that adds a rule, which accepts what the call asks for.
LEMMA RuleDecides ==
  ASSUME SchemasInv, CallsDecide, schema # NoSchema, RulesAccept(schema, slice'),
         NEW rule, DOMAIN rule = {"message", "accepts", "aliased"}, rule.aliased => schema.type = "int",
         Continues(WithRule(schema, rule), schema),
         NEW call, rule.message = call, Call(call, WithRule(schema, rule)),
         call[1] \notin {"Optional", "Required", "Items"},
         call[1] = "Unique" => call = <<"Unique">>,
         AsksFor(schema.type, slice', call, rule.accepts),
         schema.type \in {"int", "float"} => (rule.aliased <=> call[1] = "OneOf")
  PROVE  CallsDecide'
<1> DEFINE s == WithRule(schema, rule)
<1>1. WellBuilt(schema) /\ Typed(schema) /\ IsList(calls) /\ calls' = Append(calls, call)
  BY DEF SchemasInv, SchemasTypeOK, Call
<1>2. RulesListed(schema, calls) /\ SharesOneOf(schema) /\ (schema.optional <=> MayBeEmpty(calls))
      /\ (schema.items => schema.type = "array")
  BY DEF CallsDecide, SchemaFollowsCalls
<1>3. RulesListed(s, calls')
  BY <1>1, <1>2, RuleListed
<1>4. RulesAccept(s, slice')
  <2>1. \A v \in Carrier(schema.type) :
          v \in rule.accepts <=> MeetsAs(schema.type, rule.message, v, slice')
    BY DEF AsksFor
  <2>2. QED
    BY <1>1, <2>1, RuleAccepts
<1>5. SharesOneOf(s)
  BY <1>1, <1>2, RuleShares
<1>6. s.type = schema.type /\ s.optional = schema.optional /\ s.items = schema.items
  BY <1>1, RuleAppended
<1>7. s.field = schema.field
  BY <1>1 DEF WithRule, WellBuilt
<1>8. Typed(s)
  BY DEF Continues
<1> HIDE DEF s
<1>9. ~IsMark(call) /\ call # <<"Items">>
  BY DEF IsMark
<1>10. MayBeEmpty(calls') <=> MayBeEmpty(calls)
  BY <1>1, <1>9, MarkAppended
<1>11. Call(call, s)
  BY DEF s
<1>12. QED
  BY <1>2, <1>3, <1>4, <1>5, <1>6, <1>7, <1>8, <1>9, <1>10, <1>11, CallDecides

\* Those that addRule adds, while the program's slice stays as it is.
LEMMA AddedDecides ==
  ASSUME SchemasInv, CallsDecide, schema # NoSchema, slice' = slice,
         NEW call, NEW accepted, NEW s, s = addRule(schema, call, accepted), Call(call, s),
         Continues(s, schema),
         call[1] \notin {"Optional", "Required", "Items", "OneOf"},
         call[1] = "Unique" => call = <<"Unique">>,
         AsksFor(schema.type, slice, call, accepted)
  PROVE  CallsDecide'
<1> DEFINE rule == [message |-> call, accepts |-> accepted, aliased |-> FALSE]
<1>1. /\ s = WithRule(schema, rule)
      /\ rule.accepts = accepted /\ ~rule.aliased /\ rule.message = call
      /\ DOMAIN rule = {"message", "accepts", "aliased"}
  BY DEF addRule, WithRule
<1>2. RulesAccept(schema, slice')
  BY DEF CallsDecide, SchemaFollowsCalls
<1> HIDE DEF rule
<1>3. QED
  BY <1>1, <1>2, RuleDecides

\* Optional and Required, of strings and arrays.
LEMMA MarksDecide ==
  ASSUME SchemasInv, CallsDecide, schema # NoSchema, BuildMarks
  PROVE  CallsDecide'
<1>1. /\ WellBuilt(schema) /\ Typed(schema) /\ IsList(calls) /\ slice' = slice
      /\ DOMAIN schema = {"type", "field", "rules", "optional", "items"}
  BY DEF SchemasInv, SchemasTypeOK, WellBuilt, BuildMarks
<1>2. /\ RulesListed(schema, calls) /\ SharesOneOf(schema) /\ RulesAccept(schema, slice')
      /\ (schema.items => schema.type = "array")
  BY <1>1 DEF CallsDecide, SchemaFollowsCalls
<1>3. ASSUME NEW s, s.rules = schema.rules, s.type = schema.type
      PROVE  RulesAccept(s, slice') /\ SharesOneOf(s)
  BY <1>2, <1>3 DEF RulesAccept, SharesOneOf
<1>4. ASSUME NEW call, IsMark(call), NEW s, Call(call, s), s.rules = schema.rules,
             s.type = schema.type, s.field = schema.field, s.items = schema.items, Typed(s),
             s.optional <=> MayBeEmpty(calls')
      PROVE  CallsDecide'
  <2>1. calls' = Append(calls, call)
    BY <1>4 DEF Call
  <2>2. RulesListed(s, calls')
    BY <1>1, <1>2, <1>4, <2>1, MarkListed
  <2>3. call # <<"Items">> /\ call[1] # "Unique"
    BY <1>4 DEF IsMark
  <2>4. QED
    BY <1>2, <1>3, <1>4, <2>2, <2>3, CallDecides
<1>5. CASE Call(<<"Optional">>, Optional(schema))
  <2> DEFINE call == <<"Optional">>
             s == Optional(schema)
  <2>1. /\ s.rules = schema.rules /\ s.type = schema.type /\ s.field = schema.field
        /\ s.items = schema.items /\ s.optional
    BY <1>1 DEF Optional
  <2>2. Typed(s)
    BY <1>1, MarkContinues DEF Continues
  <2>3. IsMark(call)
    BY DEF IsMark
  <2>4. calls' = Append(calls, call) /\ Call(call, s)
    BY <1>5 DEF Call
  <2>5. MayBeEmpty(calls')
    BY <1>1, <2>4, MarkAppended
  <2> HIDE DEF call, s
  <2>6. QED
    BY <1>4, <2>1, <2>2, <2>3, <2>4, <2>5
<1>6. CASE Call(<<"Required">>, Required(schema))
  <2> DEFINE call == <<"Required">>
             s == Required(schema)
  <2>1. /\ s.rules = schema.rules /\ s.type = schema.type /\ s.field = schema.field
        /\ s.items = schema.items /\ ~s.optional
    BY <1>1 DEF Required
  <2>2. Typed(s)
    BY <1>1, MarkContinues DEF Continues
  <2>3. IsMark(call)
    BY DEF IsMark
  <2>4. calls' = Append(calls, call) /\ Call(call, s)
    BY <1>6 DEF Call
  <2>5. ~MayBeEmpty(calls')
    <3>1. call # <<"Optional">>
      OBVIOUS
    <3> HIDE DEF call
    <3>2. QED
      BY <1>1, <2>3, <2>4, <3>1, MarkAppended
  <2> HIDE DEF call, s
  <2>6. QED
    BY <1>4, <2>1, <2>2, <2>3, <2>4, <2>5
<1>7. QED
  BY <1>5, <1>6 DEF BuildMarks

\* The methods of strings, integers, floats and arrays that add a rule.
LEMMA BuildersDecide ==
  ASSUME SchemasInv, CallsDecide, schema # NoSchema,
         BuildString \/ BuildInt \/ BuildFloat \/ BuildArray
  PROVE  CallsDecide'
<1> DEFINE Asks(call, accepted) == AsksFor(schema.type, slice, call, accepted)
           Adds(call, s, accepted) == Call(call, s) /\ s = addRule(schema, call, accepted)
<1>1. slice' = slice
  BY DEF BuildString, BuildInt, BuildFloat, BuildArray
<1>2. ASSUME NEW call, NEW s, Call(call, s), ~(call[1] = "Items") PROVE Continues(s, schema)
  <2>1. SchemasInv' /\ Continues(schema', schema)
    BY BuildKeeps
  <2>2. QED
    BY <1>2, <2>1 DEF Call
<1>3. ASSUME NEW call, NEW accepted, NEW s, Adds(call, s, accepted), Asks(call, accepted),
             call[1] \notin {"Optional", "Required", "Items", "OneOf"},
             call[1] = "Unique" => call = <<"Unique">>
      PROVE  CallsDecide'
  BY <1>1, <1>2, <1>3, AddedDecides
<1> HIDE DEF Asks
<1>4. CASE BuildString
  <2>1. schema.type = "string"
    BY <1>4 DEF BuildString
  <2>2. ASSUME NEW n \in Bounds, Call(<<"Min", n>>, StringMin(schema, n)) PROVE CallsDecide'
    <3> DEFINE call == <<"Min", n>>
               accepted == {w \in Word : Runes[w] >= n}
    <3>1. call[1] = "Min" /\ Asks(call, accepted)
      BY <2>1, StringCalls DEF Asks
    <3>2. Adds(call, StringMin(schema, n), accepted)
      BY <2>2 DEF StringMin
    <3> HIDE DEF call, accepted, Adds
    <3>3. QED
      BY <1>3, <3>1, <3>2
  <2>3. ASSUME NEW n \in Bounds, Call(<<"Max", n>>, StringMax(schema, n)) PROVE CallsDecide'
    <3> DEFINE call == <<"Max", n>>
               accepted == {w \in Word : Runes[w] <= n}
    <3>1. call[1] = "Max" /\ Asks(call, accepted)
      BY <2>1, StringCalls DEF Asks
    <3>2. Adds(call, StringMax(schema, n), accepted)
      BY <2>3 DEF StringMax
    <3> HIDE DEF call, accepted, Adds
    <3>3. QED
      BY <1>3, <3>1, <3>2
  <2>4. ASSUME NEW n \in Bounds, Call(<<"Length", n>>, StringLength(schema, n)) PROVE CallsDecide'
    <3> DEFINE call == <<"Length", n>>
               accepted == {w \in Word : Runes[w] = n}
    <3>1. call[1] = "Length" /\ Asks(call, accepted)
      BY <2>1, StringCalls DEF Asks
    <3>2. Adds(call, StringLength(schema, n), accepted)
      BY <2>4 DEF StringLength
    <3> HIDE DEF call, accepted, Adds
    <3>3. QED
      BY <1>3, <3>1, <3>2
  <2>5. ASSUME NEW S \in WordSets, Call(<<"Regex", S>>, StringRegex(schema, S)) PROVE CallsDecide'
    <3> DEFINE call == <<"Regex", S>>
    <3>1. call[1] = "Regex" /\ Asks(call, S)
      BY <2>1, StringCalls DEF Asks
    <3>2. Adds(call, StringRegex(schema, S), S)
      BY <2>5 DEF StringRegex
    <3> HIDE DEF call, Adds
    <3>3. QED
      BY <1>3, <3>1, <3>2
  <2>6. ASSUME NEW S \in WordSets, Call(<<"Refine", S>>, StringRefine(schema, S)) PROVE CallsDecide'
    <3> DEFINE call == <<"Refine", S>>
    <3>1. call[1] = "Refine" /\ Asks(call, S)
      BY <2>1, StringCalls DEF Asks
    <3>2. Adds(call, StringRefine(schema, S), S)
      BY <2>6 DEF StringRefine
    <3> HIDE DEF call, Adds
    <3>3. QED
      BY <1>3, <3>1, <3>2
  <2>7. ASSUME Call(<<"Email">>, StringEmail(schema)) PROVE CallsDecide'
    <3> DEFINE call == <<"Email">>
    <3>1. call[1] = "Email" /\ Asks(call, Mailbox)
      BY <2>1, StringCalls DEF Asks
    <3>2. Adds(call, StringEmail(schema), Mailbox)
      BY <2>7 DEF StringEmail
    <3> HIDE DEF call, Adds
    <3>3. QED
      BY <1>3, <3>1, <3>2
  <2>8. ASSUME Call(<<"URL">>, StringURL(schema)) PROVE CallsDecide'
    <3> DEFINE call == <<"URL">>
               accepted == {w \in URLs : URLOf[w].scheme # "" /\ URLOf[w].host}
    <3>1. call[1] = "URL" /\ Asks(call, accepted)
      BY <2>1, URLCalls DEF Asks
    <3>2. Adds(call, StringURL(schema), accepted)
      BY <2>8 DEF StringURL
    <3> HIDE DEF call, accepted, Adds
    <3>3. QED
      BY <1>3, <3>1, <3>2
  <2>9. ASSUME Call(<<"PostgresURL">>, PostgresURL(schema)) PROVE CallsDecide'
    <3> DEFINE call == <<"PostgresURL">>
               accepted == {w \in URLs :
                              /\ URLOf[w].scheme \in {"postgres", "postgresql"}
                              /\ URLOf[w].host
                              /\ URLOf[w].user # "none" /\ URLOf[w].password
                              /\ URLOf[w].database}
    <3>1. call[1] = "PostgresURL" /\ Asks(call, accepted)
      BY <2>1, URLCalls DEF Asks
    <3>2. Adds(call, PostgresURL(schema), accepted)
      BY <2>9 DEF PostgresURL
    <3> HIDE DEF call, accepted, Adds
    <3>3. QED
      BY <1>3, <3>1, <3>2
  <2>10. ASSUME Call(<<"RedisURL">>, RedisURL(schema)) PROVE CallsDecide'
    <3> DEFINE call == <<"RedisURL">>
               accepted == {w \in URLs :
                              URLOf[w].scheme \in {"redis", "rediss"} /\ URLOf[w].host}
    <3>1. call[1] = "RedisURL" /\ Asks(call, accepted)
      BY <2>1, URLCalls DEF Asks
    <3>2. Adds(call, RedisURL(schema), accepted)
      BY <2>10 DEF RedisURL
    <3> HIDE DEF call, accepted, Adds
    <3>3. QED
      BY <1>3, <3>1, <3>2
  <2>11. ASSUME Call(<<"RabbitMQURL">>, RabbitMQURL(schema)) PROVE CallsDecide'
    <3> DEFINE call == <<"RabbitMQURL">>
               accepted == {w \in URLs :
                              /\ URLOf[w].scheme \in {"amqp", "amqps"}
                              /\ URLOf[w].host
                              /\ URLOf[w].user # "none" /\ URLOf[w].password}
    <3>1. call[1] = "RabbitMQURL" /\ Asks(call, accepted)
      BY <2>1, URLCalls DEF Asks
    <3>2. Adds(call, RabbitMQURL(schema), accepted)
      BY <2>11 DEF RabbitMQURL
    <3> HIDE DEF call, accepted, Adds
    <3>3. QED
      BY <1>3, <3>1, <3>2
  <2> HIDE DEF Adds
  <2>12. QED
    BY <1>4, <2>2, <2>3, <2>4, <2>5, <2>6, <2>7, <2>8, <2>9, <2>10, <2>11 DEF BuildString
<1>5. CASE BuildInt
  <2>1. schema.type = "int" /\ Bounds \subseteq Nat
    BY <1>5, SchemasAssumption DEF BuildInt, SchemasAssumption
  <2>2. ASSUME NEW n \in Bounds, Call(<<"Min", n>>, IntMin(schema, n)) PROVE CallsDecide'
    <3> DEFINE call == <<"Min", n>>
               accepted == {x \in Number : x >= n}
    <3>1. call[1] = "Min" /\ Asks(call, accepted)
      BY <2>1, IntCalls DEF Asks
    <3>2. Adds(call, IntMin(schema, n), accepted)
      BY <2>2 DEF IntMin
    <3> HIDE DEF call, accepted, Adds
    <3>3. QED
      BY <1>3, <3>1, <3>2
  <2>3. ASSUME NEW n \in Bounds, Call(<<"Max", n>>, IntMax(schema, n)) PROVE CallsDecide'
    <3> DEFINE call == <<"Max", n>>
               accepted == {x \in Number : x <= n}
    <3>1. call[1] = "Max" /\ Asks(call, accepted)
      BY <2>1, IntCalls DEF Asks
    <3>2. Adds(call, IntMax(schema, n), accepted)
      BY <2>3 DEF IntMax
    <3> HIDE DEF call, accepted, Adds
    <3>3. QED
      BY <1>3, <3>1, <3>2
  <2>4. ASSUME NEW S \in NumberSets, Call(<<"Refine", S>>, IntRefine(schema, S)) PROVE CallsDecide'
    <3> DEFINE call == <<"Refine", S>>
    <3>1. call[1] = "Refine" /\ Asks(call, S)
      BY <2>1, IntCalls DEF Asks
    <3>2. Adds(call, IntRefine(schema, S), S)
      BY <2>4 DEF IntRefine
    <3> HIDE DEF call, Adds
    <3>3. QED
      BY <1>3, <3>1, <3>2
  <2>5. ASSUME Call(<<"Positive">>, IntPositive(schema)) PROVE CallsDecide'
    <3> DEFINE call == <<"Positive">>
               accepted == {x \in Number : x > 0}
    <3>1. call[1] = "Positive" /\ Asks(call, accepted)
      BY <2>1, IntCalls DEF Asks
    <3>2. Adds(call, IntPositive(schema), accepted)
      BY <2>5 DEF IntPositive
    <3> HIDE DEF call, accepted, Adds
    <3>3. QED
      BY <1>3, <3>1, <3>2
  <2>6. ASSUME Call(<<"Negative">>, IntNegative(schema)) PROVE CallsDecide'
    <3> DEFINE call == <<"Negative">>
               accepted == {x \in Number : x < 0}
    <3>1. call[1] = "Negative" /\ Asks(call, accepted)
      BY <2>1, IntCalls DEF Asks
    <3>2. Adds(call, IntNegative(schema), accepted)
      BY <2>6 DEF IntNegative
    <3> HIDE DEF call, accepted, Adds
    <3>3. QED
      BY <1>3, <3>1, <3>2
  <2> HIDE DEF Adds
  <2>7. QED
    BY <1>5, <2>2, <2>3, <2>4, <2>5, <2>6 DEF BuildInt
<1>6. CASE BuildFloat
  <2>1. schema.type = "float" /\ Bounds \subseteq Nat
    BY <1>6, SchemasAssumption DEF BuildFloat, SchemasAssumption
  <2>2. ASSUME NEW n \in Bounds, Call(<<"Min", n>>, FloatMin(schema, n)) PROVE CallsDecide'
    <3> DEFINE call == <<"Min", n>>
               accepted == {x \in Float : ~Less(x, n)}
    <3>1. call[1] = "Min" /\ Asks(call, accepted)
      BY <2>1, FloatCalls DEF Asks
    <3>2. Adds(call, FloatMin(schema, n), accepted)
      BY <2>2 DEF FloatMin
    <3> HIDE DEF call, accepted, Adds
    <3>3. QED
      BY <1>3, <3>1, <3>2
  <2>3. ASSUME NEW n \in Bounds, Call(<<"Max", n>>, FloatMax(schema, n)) PROVE CallsDecide'
    <3> DEFINE call == <<"Max", n>>
               accepted == {x \in Float : ~Less(n, x)}
    <3>1. call[1] = "Max" /\ Asks(call, accepted)
      BY <2>1, FloatCalls DEF Asks
    <3>2. Adds(call, FloatMax(schema, n), accepted)
      BY <2>3 DEF FloatMax
    <3> HIDE DEF call, accepted, Adds
    <3>3. QED
      BY <1>3, <3>1, <3>2
  <2>4. ASSUME NEW S \in NumberSets, Call(<<"Refine", S>>, FloatRefine(schema, S)) PROVE CallsDecide'
    <3> DEFINE call == <<"Refine", S>>
    <3>1. call[1] = "Refine" /\ Asks(call, S)
      BY <2>1, FloatCalls DEF Asks
    <3>2. Adds(call, FloatRefine(schema, S), S)
      BY <2>4 DEF FloatRefine
    <3> HIDE DEF call, Adds
    <3>3. QED
      BY <1>3, <3>1, <3>2
  <2>5. ASSUME Call(<<"Positive">>, FloatPositive(schema)) PROVE CallsDecide'
    <3> DEFINE call == <<"Positive">>
               accepted == {x \in Float : x = NaN \/ x > 0}
    <3>1. call[1] = "Positive" /\ Asks(call, accepted)
      BY <2>1, FloatCalls DEF Asks
    <3>2. Adds(call, FloatPositive(schema), accepted)
      BY <2>5 DEF FloatPositive
    <3> HIDE DEF call, accepted, Adds
    <3>3. QED
      BY <1>3, <3>1, <3>2
  <2>6. ASSUME Call(<<"Negative">>, FloatNegative(schema)) PROVE CallsDecide'
    <3> DEFINE call == <<"Negative">>
               accepted == {x \in Float : x = NaN \/ x < 0}
    <3>1. call[1] = "Negative" /\ Asks(call, accepted)
      BY <2>1, FloatCalls DEF Asks
    <3>2. Adds(call, FloatNegative(schema), accepted)
      BY <2>6 DEF FloatNegative
    <3> HIDE DEF call, accepted, Adds
    <3>3. QED
      BY <1>3, <3>1, <3>2
  <2> HIDE DEF Adds
  <2>7. QED
    BY <1>6, <2>2, <2>3, <2>4, <2>5, <2>6 DEF BuildFloat
<1>7. CASE BuildArray
  <2>1. schema.type = "array"
    BY <1>7 DEF BuildArray
  <2>2. ASSUME NEW n \in Bounds, Call(<<"Min", n>>, ArrayMin(schema, n)) PROVE CallsDecide'
    <3> DEFINE call == <<"Min", n>>
               accepted == {l \in List : Len(l) >= n}
    <3>1. call[1] = "Min" /\ Asks(call, accepted)
      BY <2>1, ArrayCalls DEF Asks
    <3>2. Adds(call, ArrayMin(schema, n), accepted)
      BY <2>2 DEF ArrayMin
    <3> HIDE DEF call, accepted, Adds
    <3>3. QED
      BY <1>3, <3>1, <3>2
  <2>3. ASSUME NEW n \in Bounds, Call(<<"Max", n>>, ArrayMax(schema, n)) PROVE CallsDecide'
    <3> DEFINE call == <<"Max", n>>
               accepted == {l \in List : Len(l) <= n}
    <3>1. call[1] = "Max" /\ Asks(call, accepted)
      BY <2>1, ArrayCalls DEF Asks
    <3>2. Adds(call, ArrayMax(schema, n), accepted)
      BY <2>3 DEF ArrayMax
    <3> HIDE DEF call, accepted, Adds
    <3>3. QED
      BY <1>3, <3>1, <3>2
  <2>4. ASSUME NEW n \in Bounds, Call(<<"Length", n>>, ArrayLength(schema, n)) PROVE CallsDecide'
    <3> DEFINE call == <<"Length", n>>
               accepted == {l \in List : Len(l) = n}
    <3>1. call[1] = "Length" /\ Asks(call, accepted)
      <4>1. AsksFor("array", slice, <<"Length", n>>, {l \in List : Len(l) = n})
        BY ArrayCalls
      <4>2. QED
        BY <2>1, <4>1 DEF Asks
    <3>2. Adds(call, ArrayLength(schema, n), accepted)
      BY <2>4 DEF ArrayLength
    <3> HIDE DEF call, accepted, Adds
    <3>3. QED
      BY <1>3, <3>1, <3>2
  <2>5. ASSUME NEW S \in ListSets, Call(<<"Refine", S>>, ArrayRefine(schema, S)) PROVE CallsDecide'
    <3> DEFINE call == <<"Refine", S>>
    <3>1. call[1] = "Refine" /\ Asks(call, S)
      BY <2>1, ArrayCalls DEF Asks
    <3>2. Adds(call, ArrayRefine(schema, S), S)
      BY <2>5 DEF ArrayRefine
    <3> HIDE DEF call, Adds
    <3>3. QED
      BY <1>3, <3>1, <3>2
  <2>6. ASSUME Call(<<"Unique">>, Unique(schema)) PROVE CallsDecide'
    <3> DEFINE call == <<"Unique">>
               accepted == {l \in List : Repeats(l) = {}}
    <3>1. call = <<"Unique">> /\ call[1] = "Unique" /\ Asks(call, accepted)
      BY <2>1, ArrayCalls DEF Asks
    <3>2. Adds(call, Unique(schema), accepted)
      BY <2>6 DEF Unique
    <3> HIDE DEF call, accepted, Adds
    <3>3. QED
      BY <1>3, <3>1, <3>2
  <2>7. ASSUME Call(<<"Items">>, Items(schema)) PROVE CallsDecide'
    <3> DEFINE call == <<"Items">>
               s == Items(schema)
    <3>1. /\ WellBuilt(schema) /\ Typed(schema) /\ IsList(calls)
          /\ DOMAIN schema = {"type", "field", "rules", "optional", "items"}
      BY DEF SchemasInv, SchemasTypeOK, WellBuilt
    <3>2. /\ RulesListed(schema, calls) /\ SharesOneOf(schema) /\ RulesAccept(schema, slice')
          /\ (schema.optional <=> MayBeEmpty(calls))
      BY <1>1 DEF CallsDecide, SchemaFollowsCalls
    <3>3. /\ s.rules = schema.rules /\ s.type = schema.type /\ s.field = schema.field
          /\ s.optional = schema.optional /\ s.items
      BY <3>1 DEF Items
    <3>4. Typed(s)
      BY <3>1, MarkContinues DEF Continues
    <3>5. calls' = Append(calls, call) /\ Call(call, s)
      BY <2>7 DEF Call
    <3>6. call = <<"Items">> /\ call[1] = "Items"
      OBVIOUS
    <3> HIDE DEF call, s
    <3>7. RulesListed(s, calls')
      BY <3>1, <3>2, <3>3, <3>5, <3>6, MarkListed
    <3>8. RulesAccept(s, slice') /\ SharesOneOf(s)
      BY <3>2, <3>3 DEF RulesAccept, SharesOneOf
    <3>9. MayBeEmpty(calls') <=> MayBeEmpty(calls)
      <4>1. ~IsMark(call)
        BY <3>6 DEF IsMark
      <4>2. QED
        BY <3>1, <3>5, <4>1, MarkAppended
    <3>10. QED
      BY <2>1, <3>2, <3>3, <3>4, <3>5, <3>6, <3>7, <3>8, <3>9, CallDecides
  <2> HIDE DEF Adds
  <2>8. QED
    BY <1>7, <2>2, <2>3, <2>4, <2>5, <2>6, <2>7 DEF BuildArray
<1>8. QED
  BY <1>4, <1>5, <1>6, <1>7

\* What strings and arrays accept does not depend on the program's slice.
LEMMA WithoutSlice ==
  ASSUME NEW s, s.type \in {"string", "array"}, NEW held, RulesAccept(s, held), NEW other
  PROVE  RulesAccept(s, other)
BY DEF RulesAccept, MeetsAs

\* OneOf: strings have a copy of their own, an integer's rule and the program
\* share the slice, which no other rule refers to.
LEMMA OneOfDecides ==
  ASSUME SchemasInv, CallsDecide, schema # NoSchema, BuildOneOf
  PROVE  CallsDecide'
<1>1. Continues(schema', schema) /\ IsList(calls) /\ RulesListed(schema, calls)
      /\ RulesAccept(schema, slice)
  BY OneOfKeeps DEF CallsDecide, SchemaFollowsCalls, SchemasInv
<1>2. CASE schema.type = "string" /\ Call(<<"OneOf", slice'>>, StringOneOf(schema, slice'))
  <2> DEFINE call == <<"OneOf", slice'>>
             rule == [message |-> call, accepts |-> slice', aliased |-> FALSE]
  <2>1. StringOneOf(schema, slice') = WithRule(schema, rule)
    BY DEF StringOneOf, addRule, WithRule
  <2>2. /\ rule.accepts = slice' /\ ~rule.aliased /\ rule.message = call
        /\ DOMAIN rule = {"message", "accepts", "aliased"}
    OBVIOUS
  <2>3. AsksFor("string", slice', call, slice')
    BY StringCalls
  <2>4. call[1] = "OneOf"
    OBVIOUS
  <2>5. RulesAccept(schema, slice')
    BY <1>1, <1>2, WithoutSlice
  <2>6. Call(call, WithRule(schema, rule)) /\ schema' = WithRule(schema, rule)
    BY <1>2, <2>1 DEF Call
  <2> HIDE DEF call, rule
  <2>7. QED
    BY <1>1, <1>2, <2>2, <2>3, <2>4, <2>5, <2>6, RuleDecides
<1>3. CASE schema.type = "int" /\ Call(<<"OneOf">>, IntOneOf(schema, slice'))
  <2> DEFINE call == <<"OneOf">>
             rule == [message |-> call, accepts |-> slice', aliased |-> TRUE]
  <2>1. IntOneOf(schema, slice') = WithRule(schema, rule)
    BY DEF IntOneOf, WithRule
  <2>2. /\ rule.accepts = slice' /\ rule.aliased /\ rule.message = call
        /\ DOMAIN rule = {"message", "accepts", "aliased"}
    OBVIOUS
  <2>3. AsksFor("int", slice', call, slice')
    BY IntCalls
  <2>4. call[1] = "OneOf"
    OBVIOUS
  <2>5. RulesAccept(schema, slice')
    <3>1. ASSUME NEW k \in DOMAIN schema.rules PROVE schema.rules[k].message[1] # "OneOf"
      <4>1. \E i \in Asked(calls) : schema.rules[k].message = calls[i]
        BY <1>1, MessageIsCall
      <4>2. \A i \in Asked(calls) : i \in DOMAIN calls
        BY DEF Asked
      <4>3. QED
        BY <4>1, <4>2 DEF BuildOneOf
    <3>2. \A m, x : m[1] # "OneOf" => (NumberMeets(m, x, slice') <=> NumberMeets(m, x, slice))
      BY DEF NumberMeets, NumberAsked, NaNPasses
    <3>3. \A m, x : m[1] # "OneOf" =>
            (MeetsAs(schema.type, m, x, slice') <=> MeetsAs(schema.type, m, x, slice))
      BY <1>3, <3>2 DEF MeetsAs
    <3>4. QED
      BY <1>1, <3>1, <3>3 DEF RulesAccept
  <2>6. Call(call, WithRule(schema, rule)) /\ schema' = WithRule(schema, rule)
    BY <1>3, <2>1 DEF Call
  <2> HIDE DEF call, rule
  <2>7. QED
    BY <1>1, <1>3, <2>2, <2>3, <2>4, <2>5, <2>6, RuleDecides
<1>4. QED
  BY <1>2, <1>3 DEF BuildOneOf

\* A call on the item schema, which the array's calls do not show.
LEMMA ItemDecides ==
  ASSUME SchemasInv, CallsDecide, schema # NoSchema, BuildItem
  PROVE  CallsDecide'
<1>1. /\ schema' = schema /\ calls' = calls /\ slice' = slice /\ answer' = NoAnswer
      /\ item.type = "string" /\ WellBuilt(item) /\ IsList(itemCalls)
      /\ DOMAIN item = {"type", "field", "rules", "optional", "items"}
  BY DEF BuildItem, SchemasInv, SchemasTypeOK, WellBuilt
<1>2. RulesListed(item, itemCalls) /\ RulesAccept(item, {}) /\ (item.optional <=> MayBeEmpty(itemCalls))
  BY DEF CallsDecide, ItemFollowsCalls
<1>3. SchemaFollowsCalls'
  BY <1>1 DEF CallsDecide, SchemaFollowsCalls
<1>4. ASSUME NEW call, call[1] \in {"Optional", "Min"}, itemCalls' = Append(itemCalls, call)
      PROVE  \A i \in DOMAIN itemCalls' : itemCalls'[i][1] \in {"Optional", "Min"}
  <2>1. \A i \in DOMAIN itemCalls : itemCalls[i][1] \in {"Optional", "Min"}
    BY DEF CallsDecide
  <2>2. \A i \in DOMAIN itemCalls' :
          (i \in DOMAIN itemCalls /\ itemCalls'[i] = itemCalls[i]) \/ itemCalls'[i] = call
    BY <1>1, <1>4, OneMoreCall
  <2>3. QED
    BY <1>4, <2>1, <2>2
<1>5. ASSUME NEW call, call[1] \in {"Optional", "Min"}, itemCalls' = Append(itemCalls, call),
             ItemFollowsCalls'
      PROVE  CallsDecide'
  BY <1>1, <1>3, <1>4, <1>5 DEF CallsDecide
<1>6. ASSUME item' = Optional(item), itemCalls' = Append(itemCalls, <<"Optional">>)
      PROVE  CallsDecide'
  <2> DEFINE call == <<"Optional">>
  <2>1. item'.rules = item.rules /\ item'.type = item.type /\ item'.optional
    BY <1>1, <1>6 DEF Optional
  <2>2. IsMark(call) /\ call[1] = "Optional" /\ call = <<"Optional">>
    BY DEF IsMark
  <2>3. itemCalls' = Append(itemCalls, call)
    BY <1>6
  <2> HIDE DEF call
  <2>4. RulesListed(item', itemCalls')
    BY <1>1, <1>2, <2>1, <2>2, <2>3, MarkListed
  <2>5. RulesAccept(item', {})
    BY <1>2, <2>1 DEF RulesAccept
  <2>6. MayBeEmpty(itemCalls')
    BY <1>1, <2>2, <2>3, MarkAppended
  <2>7. ItemFollowsCalls'
    BY <2>1, <2>4, <2>5, <2>6 DEF ItemFollowsCalls
  <2>8. QED
    BY <1>5, <2>2, <2>3, <2>7
<1>7. ASSUME NEW n \in Bounds, item' = StringMin(item, n),
             itemCalls' = Append(itemCalls, <<"Min", n>>)
      PROVE  CallsDecide'
  <2> DEFINE call == <<"Min", n>>
             accepted == {w \in Word : Runes[w] >= n}
             rule == [message |-> call, accepts |-> accepted, aliased |-> FALSE]
  <2>1. item' = WithRule(item, rule)
    BY <1>7 DEF StringMin, addRule, WithRule
  <2>2. /\ rule.accepts = accepted /\ ~rule.aliased /\ rule.message = call
        /\ DOMAIN rule = {"message", "accepts", "aliased"}
    OBVIOUS
  <2>3. AsksFor("string", {}, call, accepted)
    BY StringCalls
  <2>4. call[1] = "Min"
    OBVIOUS
  <2>5. itemCalls' = Append(itemCalls, call)
    BY <1>7
  <2> HIDE DEF call, accepted, rule
  <2>6. ~IsMark(call)
    BY <2>4 DEF IsMark
  <2>7. RulesListed(item', itemCalls')
    BY <1>1, <1>2, <2>1, <2>2, <2>4, <2>5, RuleListed
  <2>8. RulesAccept(item', {})
    <3>1. \A v \in Carrier(item.type) : v \in rule.accepts <=> MeetsAs(item.type, rule.message, v, {})
      BY <1>1, <2>2, <2>3 DEF AsksFor
    <3>2. QED
      BY <1>1, <1>2, <2>1, <2>2, <3>1, RuleAccepts
  <2>9. item'.optional = item.optional
    BY <1>1, <2>1, <2>2, RuleAppended
  <2>10. MayBeEmpty(itemCalls') <=> MayBeEmpty(itemCalls)
    BY <1>1, <2>5, <2>6, MarkAppended
  <2>11. ItemFollowsCalls'
    BY <1>2, <2>7, <2>8, <2>9, <2>10 DEF ItemFollowsCalls
  <2>12. QED
    BY <1>5, <2>4, <2>5, <2>11
<1>8. QED
  BY <1>6, <1>7 DEF BuildItem

\* A write into the slice changes what OneOf stands for, and the rule it made.
LEMMA WriteDecides ==
  ASSUME SchemasInv, CallsDecide, schema # NoSchema, ChangeSlice
  PROVE  CallsDecide'
<1> DEFINE old == schema.rules
           new == schema'.rules
<1>1. /\ WellBuilt(schema) /\ Typed(schema) /\ IsList(calls)
      /\ DOMAIN schema = {"type", "field", "rules", "optional", "items"}
      /\ \A k \in DOMAIN old : /\ DOMAIN old[k] = {"message", "accepts", "aliased"}
                               /\ old[k].aliased => schema.type = "int"
  BY DEF SchemasInv, SchemasTypeOK, WellBuilt
<1>2. /\ schema' = [schema EXCEPT !.rules =
           [i \in DOMAIN schema.rules |->
               IF schema.rules[i].aliased THEN [schema.rules[i] EXCEPT !.accepts = slice']
                                          ELSE schema.rules[i]]]
      /\ item' = item /\ calls' = calls /\ itemCalls' = itemCalls /\ answer' = NoAnswer
      /\ slice' \in (IF schema.type = "string" THEN WordSets ELSE NumberSets)
  BY DEF ChangeSlice
<1>3. /\ schema'.type = schema.type /\ schema'.optional = schema.optional
      /\ schema'.items = schema.items /\ schema'.field = schema.field
  BY <1>1, <1>2
<1>4. new = [i \in DOMAIN old |->
               IF old[i].aliased THEN [old[i] EXCEPT !.accepts = slice'] ELSE old[i]]
  BY <1>1, <1>2
<1>5. /\ RulesListed(schema, calls) /\ RulesAccept(schema, slice) /\ SharesOneOf(schema)
      /\ schema.field = <<"field">> /\ (schema.optional <=> MayBeEmpty(calls))
      /\ (schema.items <=> \E i \in DOMAIN calls : calls[i] = <<"Items">>)
      /\ (schema.items => schema.type = "array")
  BY DEF CallsDecide, SchemaFollowsCalls
<1> HIDE DEF old, new
<1>6. DOMAIN new = DOMAIN old
  BY <1>4
<1>7. ASSUME NEW k \in DOMAIN old
      PROVE  /\ new[k].message = old[k].message /\ new[k].aliased = old[k].aliased
             /\ new[k].accepts = IF old[k].aliased THEN slice' ELSE old[k].accepts
  BY <1>1, <1>4
<1>8. RulesListed(schema', calls')
  BY <1>2, <1>5, <1>6, <1>7 DEF RulesListed, old, new
<1>9. SharesOneOf(schema')
  BY <1>3, <1>5, <1>6, <1>7 DEF SharesOneOf, old, new
<1>10. RulesAccept(schema', slice')
  <2>1. CASE schema.type \in {"string", "array"}
    <3>1. RulesAccept(schema, slice')
      BY <1>5, <2>1, WithoutSlice
    <3>2. \A k \in DOMAIN old : ~old[k].aliased
      BY <1>1, <2>1
    <3>3. QED
      BY <1>3, <1>6, <1>7, <3>1, <3>2 DEF RulesAccept, old, new
  <2>2. CASE schema.type \in {"int", "float"}
    <3>1. ASSUME NEW k \in DOMAIN old, NEW v \in Carrier(schema.type)
          PROVE  v \in new[k].accepts <=> MeetsAs(schema.type, new[k].message, v, slice')
      <4>1. old[k].aliased <=> old[k].message[1] = "OneOf"
        BY <1>5, <2>2 DEF SharesOneOf, old
      <4>2. v \in old[k].accepts <=> MeetsAs(schema.type, old[k].message, v, slice)
        BY <1>5 DEF RulesAccept, old
      <4>3. CASE old[k].aliased
        <5>1. old[k].message[1] = "OneOf" /\ schema.type = "int"
          BY <1>1, <4>1, <4>3
        <5>2. v # NaN
          BY <5>1, ValidateAssumption DEF Carrier, Values, ValidateAssumption
        <5>3. MeetsAs(schema.type, old[k].message, v, slice') <=> v \in slice'
          BY <5>1, <5>2 DEF MeetsAs, NumberMeets, NumberAsked, NaNPasses
        <5>4. QED
          BY <1>7, <4>3, <5>3
      <4>4. CASE ~old[k].aliased
        <5>1. old[k].message[1] # "OneOf"
          BY <4>1, <4>4
        <5>2. NumberMeets(old[k].message, v, slice') <=> NumberMeets(old[k].message, v, slice)
          BY <5>1 DEF NumberMeets, NumberAsked, NaNPasses
        <5>3. MeetsAs(schema.type, old[k].message, v, slice')
                <=> MeetsAs(schema.type, old[k].message, v, slice)
          BY <2>2, <5>2 DEF MeetsAs
        <5>4. QED
          BY <1>7, <4>2, <4>4, <5>3
      <4>5. QED
        BY <4>3, <4>4
    <3>2. QED
      BY <1>3, <1>6, <3>1 DEF RulesAccept, new
  <2>3. QED
    BY <1>1, <2>1, <2>2 DEF Typed
<1>11. SchemaFollowsCalls'
  BY <1>2, <1>3, <1>5, <1>8, <1>9, <1>10 DEF SchemaFollowsCalls
<1>12. schema' # NoSchema
  BY <1>1, <1>3 DEF Typed, NoSchema, Schema
<1>13. QED
  BY <1>2, <1>11, <1>12 DEF CallsDecide, ItemFollowsCalls

\* A schema without rules, of which nothing has been asked.
LEMMA NothingAsked ==
  ASSUME NEW type \in {"string", "int", "float", "array"}, NEW field, NEW held
  PROVE  /\ RulesListed(Schema(type, field), <<>>) /\ RulesAccept(Schema(type, field), held)
         /\ SharesOneOf(Schema(type, field)) /\ ~MayBeEmpty(<<>>)
         /\ ~Schema(type, field).optional /\ ~Schema(type, field).items
         /\ Schema(type, field).field = field /\ Schema(type, field) # NoSchema
<1>1. /\ Schema(type, field).rules = <<>> /\ ~Schema(type, field).optional
      /\ ~Schema(type, field).items
      /\ Schema(type, field).field = field /\ Schema(type, field) # NoSchema
  BY DEF Schema, NoSchema
<1> DEFINE s == Schema(type, field)
<1> HIDE DEF s
<1>2. Asked(<<>>) = {}
  BY DEF Asked
<1>3. Selection(<<>>, {}) = <<>>
  <2>1. 0 \in Nat /\ {} \in SUBSET (1..0)
    OBVIOUS
  <2>2. QED
    BY <2>1, SelectionElements
<1>4. RulesListed(s, <<>>)
  BY <1>1, <1>2, <1>3 DEF RulesListed, s
<1>5. RulesAccept(s, held) /\ SharesOneOf(s)
  <2>1. DOMAIN s.rules = {}
    BY <1>1 DEF s
  <2>2. QED
    BY <2>1 DEF RulesAccept, SharesOneOf
<1>6. ~MayBeEmpty(<<>>)
  BY DEF MayBeEmpty
<1>7. QED
  BY <1>1, <1>4, <1>5, <1>6 DEF s

\* At first; with a new schema; and with a check, which changes no schema.
LEMMA CallsDecideAtFirst == SchemasInit => CallsDecide
<1>1. SUFFICES ASSUME SchemasInit PROVE CallsDecide
  OBVIOUS
<1>2. item = Schema("string", <<"item">>) /\ itemCalls = <<>> /\ calls = <<>> /\ answer = NoAnswer
      /\ schema = NoSchema
  BY <1>1 DEF SchemasInit, StringSchema
<1>3. ItemFollowsCalls
  <2>1. /\ RulesListed(Schema("string", <<"item">>), <<>>)
        /\ RulesAccept(Schema("string", <<"item">>), {})
        /\ ~MayBeEmpty(<<>>) /\ ~Schema("string", <<"item">>).optional
    BY NothingAsked
  <2>2. QED
    BY <1>2, <2>1 DEF ItemFollowsCalls
<1>4. QED
  BY <1>2, <1>3 DEF CallsDecide

\* A new schema has no call behind it, and decides nothing yet.
LEMMA NewDecides ==
  ASSUME CallsDecide, NewSchema
  PROVE  CallsDecide'
<1>1. /\ item' = item /\ slice' = slice /\ calls' = calls /\ itemCalls' = itemCalls
      /\ answer' = answer /\ calls = <<>>
  BY DEF NewSchema, CallsDecide
<1>2. PICK type \in {"string", "int", "float", "array"} : schema' = Schema(type, <<"field">>)
  BY DEF NewSchema, StringSchema, IntSchema, FloatSchema, ArraySchema
<1>3. /\ RulesListed(schema', <<>>) /\ RulesAccept(schema', slice')
      /\ SharesOneOf(schema') /\ ~MayBeEmpty(<<>>)
      /\ ~schema'.optional /\ ~schema'.items
      /\ schema'.field = <<"field">> /\ schema' # NoSchema
  BY <1>2, NothingAsked
<1>4. SchemaFollowsCalls'
  BY <1>1, <1>3 DEF SchemaFollowsCalls
<1>5. QED
  BY <1>1, <1>3, <1>4 DEF CallsDecide, ItemFollowsCalls

\* Every step keeps schemas and histories together.
LEMMA CallsDecideStep ==
  ASSUME SchemasInv, CallsDecide, [SchemasNext]_schemaVars
  PROVE  CallsDecide'
<1>1. CASE NewSchema
  BY <1>1, NewDecides
<1>2. CASE Check
  <2>1. schema # NoSchema /\ UNCHANGED <<schema, item, slice, calls, itemCalls>>
    BY <1>2 DEF Check
  <2>2. QED
    BY <2>1 DEF CallsDecide, SchemaFollowsCalls, ItemFollowsCalls
<1>3. CASE schema # NoSchema /\ (BuildString \/ BuildInt \/ BuildFloat \/ BuildArray)
  BY <1>3, BuildersDecide
<1>4. CASE schema # NoSchema /\ BuildMarks
  BY <1>4, MarksDecide
<1>5. CASE schema # NoSchema /\ BuildOneOf
  BY <1>5, OneOfDecides
<1>6. CASE schema # NoSchema /\ BuildItem
  BY <1>6, ItemDecides
<1>7. CASE schema # NoSchema /\ ChangeSlice
  BY <1>7, WriteDecides
<1>8. CASE UNCHANGED schemaVars
  BY <1>8 DEF schemaVars, CallsDecide, SchemaFollowsCalls, ItemFollowsCalls
<1>9. QED
  BY <1>1, <1>2, <1>3, <1>4, <1>5, <1>6, <1>7, <1>8 DEF SchemasNext

\* In every state the calls decide what the schemas are, the rules in the order
\* of the calls that made them and each accepting what its call asks for.
THEOREM CallsDecideAlways == ProgramsSpec => []CallsDecide
<1>1. ProgramsInit => CallsDecide
  BY CallsDecideAtFirst DEF ProgramsInit
<1>2. SchemasInv /\ CallsDecide /\ [ProgramsNext]_programVars => CallsDecide'
  BY CallsDecideStep DEF ProgramsNext, programVars
<1>3. QED
  BY <1>1, <1>2, SchemasInvariant, PTL DEF ProgramsSpec

-----------------------------------------------------------------------------
(* What a schema answers, by the calls alone. *)

\* The calls that v does not meet.
Failed(type, cs, held, v) ==
    {i \in DOMAIN cs : ~IsMark(cs[i]) /\ ~MeetsAs(type, cs[i], v, held)}

FirstRepeat(l) == CHOOSE j \in Repeats(l) : \A k \in Repeats(l) : j <= k

\* One error under this field for each call of unmet, in their order.
Reported(found, field, unmet, v) ==
    /\ IsList(found) /\ Len(found) = Len(unmet) /\ DOMAIN found = DOMAIN unmet
    /\ \A e \in DOMAIN found :
         /\ DOMAIN found[e] = {"field", "message", "code"} /\ found[e].field = field
         /\ found[e].message = IF unmet[e] = <<"Unique">> THEN <<"Unique", FirstRepeat(v) - 1>>
                                                         ELSE unmet[e]

\* The lemmas on selections, for positions in a given list.
Within(S, c) == S \in SUBSET DOMAIN c

\* What a selection holds, and when it is empty.
LEMMA PickedElements ==
  ASSUME NEW c, IsList(c), NEW S, Within(S, c), NEW s
  PROVE  /\ IsList(Selection(s, S))
         /\ \A k \in DOMAIN Selection(s, S) : \E i \in S : Selection(s, S)[k] = s[i]
         /\ Selection(s, S) = <<>> <=> S = {}
<1> DEFINE n == Len(c)
<1>1. n \in Nat /\ DOMAIN c = 1..n
  BY AppendLists
<1>2. S \in SUBSET (1..n)
  BY <1>1 DEF Within
<1> HIDE DEF n
<1>3. n \in Nat
  BY <1>1
<1>4. QED
  BY <1>2, <1>3, SelectionElements

\* The same positions of two lists: two lists of one length, place by place.
LEMMA PickedMatch ==
  ASSUME NEW c, IsList(c), NEW S, Within(S, c), NEW s, NEW t
  PROVE  /\ DOMAIN Selection(s, S) = DOMAIN Selection(t, S)
         /\ Len(Selection(s, S)) = Len(Selection(t, S))
         /\ \A k \in DOMAIN Selection(s, S) : \E i \in S :
              Selection(s, S)[k] = s[i] /\ Selection(t, S)[k] = t[i]
<1> DEFINE n == Len(c)
<1>1. n \in Nat /\ DOMAIN c = 1..n
  BY AppendLists
<1>2. S \in SUBSET (1..n)
  BY <1>1 DEF Within
<1> HIDE DEF n
<1>3. n \in Nat
  BY <1>1
<1>4. PICK p, m : Enumerates(p, m, S)
  BY <1>2, <1>3, EnumerationExists
<1>5. Selection(s, S) = [k \in 1..m |-> s[p[k]]] /\ Len(Selection(s, S)) = m
  BY <1>4, SelectionIs
<1>6. Selection(t, S) = [k \in 1..m |-> t[p[k]]] /\ Len(Selection(t, S)) = m
  BY <1>4, SelectionIs
<1>7. \A k \in 1..m : p[k] \in S
  BY <1>4 DEF Enumerates
<1>8. QED
  BY <1>5, <1>6, <1>7

PicksAgain(S, s, V) ==
    /\ DOMAIN InOrder(S) = DOMAIN Selection(s, S)
    /\ \A k \in V : InOrder(S)[k] \in S /\ Selection(s, S)[k] = s[InOrder(S)[k]]
    /\ \A i \in S : \E k \in DOMAIN Selection(s, S) : InOrder(S)[k] = i
    /\ Selection(Selection(s, S), V) = Selection(s, {InOrder(S)[k] : k \in V})

\* A selection from a selection is one from the list, by the positions behind it.
LEMMA PickedAgain ==
  ASSUME NEW c, IsList(c), NEW S, Within(S, c), NEW s, NEW V, Within(V, Selection(s, S))
  PROVE  PicksAgain(S, s, V)
<1> DEFINE n == Len(c)
<1>1. n \in Nat /\ DOMAIN c = 1..n
  BY AppendLists
<1>2. S \in SUBSET (1..n)
  BY <1>1 DEF Within
<1> HIDE DEF n
<1>3. n \in Nat
  BY <1>1
<1>4. V \in SUBSET DOMAIN Selection(s, S)
  BY DEF Within
<1>5. /\ DOMAIN InOrder(S) = DOMAIN Selection(s, S)
      /\ \A k \in V : InOrder(S)[k] \in S /\ Selection(s, S)[k] = s[InOrder(S)[k]]
      /\ \A i \in S : \E k \in DOMAIN Selection(s, S) : InOrder(S)[k] = i
      /\ Selection(Selection(s, S), V) = Selection(s, {InOrder(S)[k] : k \in V})
  BY <1>2, <1>3, <1>4, SelectionComposes
<1>6. QED
  BY <1>5 DEF PicksAgain

\* A selection that the rules make is the one that their calls make.
LEMMA RulesReport ==
  ASSUME NEW s, WellBuilt(s), NEW cs, IsList(cs), RulesListed(s, cs),
         NEW held, RulesAccept(s, held), NEW v \in Carrier(s.type),
         \A i \in DOMAIN cs : cs[i] = <<"Items">> => MeetsAs(s.type, cs[i], v, held),
         NEW bad, bad = Failed(s.type, cs, held, v)
  PROVE  /\ Reported(RuleErrors(s, v), s.field, Selection(cs, bad), v)
         /\ IsList(Selection(cs, bad))
         /\ \A k \in DOMAIN Selection(cs, bad) : \E i \in bad : Selection(cs, bad)[k] = cs[i]
         /\ RuleErrors(s, v) = <<>> <=> bad = {}
<1> DEFINE asked == Asked(cs)
           made == Selection(cs, asked)
           refused == {k \in DOMAIN s.rules : v \notin s.rules[k].accepts}
           broken == Broken(s.rules, v)
           found == RuleErrors(s, v)
           unmet == Selection(cs, bad)
<1>1. /\ Len(cs) \in Nat /\ DOMAIN cs = 1..Len(cs) /\ asked \in SUBSET (1..Len(cs))
      /\ bad \in SUBSET (1..Len(cs))
  BY CallAsked, AppendLists DEF Failed
<1>2. IsList(s.rules)
  BY DEF WellBuilt
<1>3. Len(s.rules) \in Nat /\ DOMAIN s.rules = 1..Len(s.rules)
  BY <1>2, AppendLists
<1>4. DOMAIN made = DOMAIN s.rules /\ \A k \in DOMAIN made : s.rules[k].message = made[k]
  BY DEF RulesListed
<1>5. \A k \in DOMAIN s.rules :
        v \in s.rules[k].accepts <=> MeetsAs(s.type, s.rules[k].message, v, held)
  BY DEF RulesAccept
<1>6. /\ broken = Selection(s.rules, refused) /\ IsList(found)
      /\ DOMAIN found = DOMAIN broken /\ Len(found) = Len(broken)
      /\ \A e \in DOMAIN found :
           found[e].field = s.field /\ found[e].message = Message(broken[e], v)
      /\ (found = <<>> <=> refused = {})
  BY <1>2, RuleErrorsAre
<1>7. \A e \in DOMAIN found : DOMAIN found[e] = {"field", "message", "code"}
  BY DEF RuleErrors, NewValidationError
<1>8. refused \in SUBSET DOMAIN made /\ Within(asked, cs) /\ Within(bad, cs)
  BY <1>1, <1>4 DEF Within
<1> DEFINE at == InOrder(asked)
<1> HIDE DEF asked, refused
<1>9. PicksAgain(asked, cs, refused) /\ PicksAgain(asked, cs, DOMAIN made)
  <2>1. Within(refused, Selection(cs, asked)) /\ Within(DOMAIN made, Selection(cs, asked))
    BY <1>8 DEF Within
  <2>2. QED
    BY <1>8, <2>1, PickedAgain
<1>10. /\ \A k \in DOMAIN made : at[k] \in asked /\ made[k] = cs[at[k]]
       /\ \A i \in asked : \E k \in DOMAIN made : at[k] = i
       /\ Selection(made, refused) = Selection(cs, {at[k] : k \in refused})
  BY <1>9 DEF PicksAgain
<1> HIDE DEF made, at, refused, broken, found, unmet
<1>11. \A k \in DOMAIN made : k \in refused <=> ~MeetsAs(s.type, made[k], v, held)
  BY <1>4, <1>5 DEF refused
<1>12. bad = {at[k] : k \in refused}
  <2>1. ASSUME NEW i \in bad PROVE \E k \in refused : at[k] = i
    <3>1. i \in asked /\ ~MeetsAs(s.type, cs[i], v, held)
      BY DEF Failed, Asked, asked
    <3>2. PICK k \in DOMAIN made : at[k] = i
      BY <1>10, <3>1
    <3>3. QED
      BY <1>10, <1>11, <3>1, <3>2
  <2>2. ASSUME NEW k \in refused PROVE at[k] \in bad
    <3>1. at[k] \in asked /\ ~MeetsAs(s.type, cs[at[k]], v, held)
      BY <1>8, <1>10, <1>11
    <3>2. at[k] \in DOMAIN cs /\ ~IsMark(cs[at[k]])
      BY <3>1 DEF Asked, asked
    <3>3. QED
      BY <3>1, <3>2 DEF Failed
  <2>3. QED
    BY <2>1, <2>2
<1>13. unmet = Selection(made, refused)
  BY <1>10, <1>12 DEF unmet
<1>14. /\ DOMAIN broken = DOMAIN unmet /\ Len(broken) = Len(unmet)
       /\ \A e \in DOMAIN broken : \E k \in refused : broken[e] = s.rules[k] /\ unmet[e] = made[k]
  <2>1. Within(refused, s.rules)
    BY <1>4, <1>8 DEF Within
  <2>2. /\ DOMAIN Selection(s.rules, refused) = DOMAIN Selection(made, refused)
        /\ Len(Selection(s.rules, refused)) = Len(Selection(made, refused))
        /\ \A k \in DOMAIN Selection(s.rules, refused) : \E i \in refused :
             Selection(s.rules, refused)[k] = s.rules[i] /\ Selection(made, refused)[k] = made[i]
    BY <1>2, <2>1, PickedMatch
  <2>3. broken = Selection(s.rules, refused) /\ unmet = Selection(made, refused)
    BY <1>6, <1>13
  <2>4. QED
    BY <2>2, <2>3
<1>15. \A e \in DOMAIN broken : broken[e].message = unmet[e]
  BY <1>4, <1>8, <1>14
<1>16. \A e \in DOMAIN found :
         found[e].message = IF unmet[e] = <<"Unique">> THEN <<"Unique", FirstRepeat(v) - 1>>
                                                      ELSE unmet[e]
  <2>1. ASSUME NEW rule
        PROVE  Message(rule, v) = IF rule.message = <<"Unique">>
                                    THEN <<"Unique", FirstRepeat(v) - 1>> ELSE rule.message
    BY DEF Message, FirstRepeat
  <2>2. QED
    BY <1>6, <1>15, <2>1
<1>17. Reported(found, s.field, unmet, v)
  BY <1>6, <1>7, <1>14, <1>16 DEF Reported, found
<1>18. /\ IsList(unmet) /\ \A k \in DOMAIN unmet : \E i \in bad : unmet[k] = cs[i]
  <2>1. /\ IsList(Selection(cs, bad))
        /\ \A k \in DOMAIN Selection(cs, bad) : \E i \in bad : Selection(cs, bad)[k] = cs[i]
    BY <1>8, PickedElements
  <2>2. QED
    BY <2>1 DEF unmet
<1>19. found = <<>> <=> bad = {}
  BY <1>6, <1>12
<1>20. QED
  BY <1>17, <1>18, <1>19 DEF found, unmet

\* The errors of a field in a list that goes on with another.
LEMMA FieldOfConcat ==
  ASSUME NEW a, IsList(a), NEW b, IsList(b), NEW field
  PROVE  ErrorsByField(a \o b, field) = ErrorsByField(a, field) \o ErrorsByField(b, field)
<1> DEFINE S == {i \in DOMAIN a : a[i].field = field}
           T == {i \in DOMAIN b : b[i].field = field}
           U == {i \in DOMAIN (a \o b) : (a \o b)[i].field = field}
<1>1. /\ Len(a) \in Nat /\ Len(b) \in Nat
      /\ DOMAIN a = 1..Len(a) /\ DOMAIN b = 1..Len(b)
      /\ DOMAIN (a \o b) = 1..Len(a) + Len(b)
      /\ \A i \in 1..Len(a) : (a \o b)[i] = a[i]
      /\ \A j \in 1..Len(b) : (a \o b)[Len(a) + j] = b[j]
  BY ConcatLists
<1>2. U = Joined(S, Len(a), T)
  <2>1. ASSUME NEW i \in U PROVE i \in S \cup {Len(a) + j : j \in T}
    <3>1. CASE i \in 1..Len(a)
      BY <1>1, <3>1
    <3>2. CASE i \notin 1..Len(a)
      <4>1. i - Len(a) \in 1..Len(b) /\ Len(a) + (i - Len(a)) = i
        BY <1>1, <3>2
      <4>2. (a \o b)[i] = b[i - Len(a)]
        BY <1>1, <4>1
      <4>3. i - Len(a) \in T
        BY <1>1, <4>1, <4>2
      <4>4. QED
        BY <4>1, <4>3
    <3>3. QED
      BY <3>1, <3>2
  <2>2. ASSUME NEW i \in S PROVE i \in U
    BY <1>1
  <2>3. ASSUME NEW j \in T PROVE Len(a) + j \in U
    BY <1>1
  <2> HIDE DEF S, T, U
  <2>4. QED
    BY <2>1, <2>2, <2>3 DEF Joined
<1>3. S \in SUBSET DOMAIN a /\ T \in SUBSET DOMAIN b
  OBVIOUS
<1>4. ErrorsByField(a, field) = Selection(a, S)
  BY DEF ErrorsByField
<1>5. ErrorsByField(b, field) = Selection(b, T)
  BY DEF ErrorsByField
<1>6. ErrorsByField(a \o b, field) = Selection(a \o b, U)
  BY DEF ErrorsByField
<1> HIDE DEF S, T, U
<1>7. SelectsBoth(a, b, S, T)
  BY <1>3, SelectionOfConcat
<1>8. QED
  BY <1>2, <1>4, <1>5, <1>6, <1>7 DEF SelectsBoth

\* All errors of a list are those of one field, or none is.
LEMMA FieldOfAll ==
  ASSUME NEW a, IsList(a), NEW field
  PROVE  /\ (\A e \in DOMAIN a : a[e].field = field) => ErrorsByField(a, field) = a
         /\ (\A e \in DOMAIN a : a[e].field # field) => ErrorsByField(a, field) = <<>>
         /\ IsList(ErrorsByField(a, field))
<1> DEFINE S == {i \in DOMAIN a : a[i].field = field}
<1>1. ErrorsByField(a, field) = Selection(a, S)
  BY DEF ErrorsByField
<1>2. Len(a) \in Nat /\ S \in SUBSET (1..Len(a))
  <2>1. Len(a) \in Nat /\ DOMAIN a = 1..Len(a)
    BY AppendLists
  <2>2. QED
    BY <2>1
<1>3. (\A e \in DOMAIN a : a[e].field = field) => S = DOMAIN a
  OBVIOUS
<1>4. (\A e \in DOMAIN a : a[e].field # field) => S = {}
  OBVIOUS
<1> HIDE DEF S
<1>5. IsList(Selection(a, S)) /\ (Selection(a, S) = <<>> <=> S = {})
  BY <1>2, SelectionElements
<1>6. Selection(a, DOMAIN a) = a
  BY SelectionOfAll
<1>7. QED
  BY <1>1, <1>3, <1>4, <1>5, <1>6

\* List i of lists holds what was found in item i of an array.
Placed(lists, n, name) ==
    \A i \in 1..n : /\ IsList(lists[i])
                    /\ \A e \in DOMAIN lists[i] : lists[i][e].field = <<name, i - 1>>

\* Under the index of an item, flat holds as much as the item's list if that is
\* one of the first k, and flat holds nothing else.
Holds(flat, lists, n, k, name) ==
    /\ IsList(flat)
    /\ \A e \in DOMAIN flat : \E i \in 1..k : \E d \in DOMAIN lists[i] : flat[e] = lists[i][d]
    /\ \A i \in 1..n : Len(ErrorsByField(flat, <<name, i - 1>>)) = IF i <= k THEN Len(lists[i]) ELSE 0
    /\ flat = <<>> <=> \A i \in 1..k : lists[i] = <<>>

\* The field of an item is not that of another.
LEMMA PlacesDiffer ==
  ASSUME NEW name, NEW i \in Nat, NEW j \in Nat
  PROVE  /\ <<name, i - 1>> = <<name, j - 1>> => i = j
         /\ <<name>> # <<name, i - 1>>
<1> DEFINE p == <<name, i - 1>>
           q == <<name, j - 1>>
           r == <<name>>
<1>1. p[2] = i - 1 /\ q[2] = j - 1 /\ Len(p) = 2 /\ Len(r) = 1
  OBVIOUS
<1> HIDE DEF p, q, r
<1>2. (p = q => i = j) /\ r # p
  BY <1>1
<1>3. QED
  BY <1>2 DEF p, q, r

\* Nothing but the empty list has no element.
LEMMA EmptyList ==
  ASSUME NEW s, IsList(s)
  PROVE  /\ s = <<>> <=> DOMAIN s = {}
         /\ s = <<>> <=> Len(s) = 0
         /\ s # <<>> => 1 \in DOMAIN s
<1>1. Len(s) \in Nat /\ DOMAIN s = 1..Len(s) /\ s = [i \in 1..Len(s) |-> s[i]]
  BY LenProperties DEF IsList
<1>2. s = <<>> => Len(s) = 0 /\ DOMAIN s = {}
  OBVIOUS
<1>3. Len(s) = 0 => s = <<>>
  BY <1>1, EmptySeq DEF IsList
<1>4. Len(s) # 0 => 1 \in DOMAIN s
  BY <1>1
<1>5. QED
  BY <1>2, <1>3, <1>4

\* One list more at the end.
LEMMA HoldsOneMore ==
  ASSUME NEW n \in Nat, NEW k \in 1..n, NEW lists, NEW name, Placed(lists, n, name),
         NEW flat, IF k = 1 THEN flat = <<>> ELSE Holds(flat, lists, n, k - 1, name),
         NEW more, more = IF k = 1 THEN lists[k] ELSE flat \o lists[k]
  PROVE  Holds(more, lists, n, k, name)
<1> DEFINE last == lists[k]
           place(i) == <<name, i - 1>>
<1>1. IsList(last) /\ \A e \in DOMAIN last : last[e].field = place(k)
  BY DEF Placed
<1>2. \A i \in 1..n : i # k => place(k) # place(i)
  <2>1. ASSUME NEW i \in 1..n, i # k PROVE place(k) # place(i)
    <3>1. i \in Nat /\ k \in Nat
      OBVIOUS
    <3>2. QED
      BY <2>1, <3>1, PlacesDiffer
  <2>2. QED
    BY <2>1
<1> HIDE DEF place, last
<1>3. ErrorsByField(last, place(k)) = last
  BY <1>1, FieldOfAll
<1>4. \A i \in 1..n : i # k => ErrorsByField(last, place(i)) = <<>>
  <2>1. ASSUME NEW i \in 1..n, i # k PROVE ErrorsByField(last, place(i)) = <<>>
    <3>1. \A e \in DOMAIN last : last[e].field # place(i)
      BY <1>1, <1>2, <2>1
    <3>2. QED
      BY <1>1, <3>1, FieldOfAll
  <2>2. QED
    BY <2>1
<1>5. Len(last) \in Nat /\ Len(<<>>) = 0
  BY <1>1, AppendLists
<1>6. CASE k = 1
  <2>1. more = last
    BY <1>6 DEF last
  <2>2. \A i \in 1..n : Len(ErrorsByField(more, place(i))) = IF i <= k THEN Len(lists[i]) ELSE 0
    <3>1. ASSUME NEW i \in 1..n, i = k
          PROVE  Len(ErrorsByField(more, place(i))) = Len(lists[i]) /\ i <= k
      <4>1. i <= k
        BY <3>1
      <4>2. place(i) = place(k) /\ lists[i] = last
        BY <3>1 DEF last
      <4>3. QED
        BY <1>3, <2>1, <4>1, <4>2
    <3>2. ASSUME NEW i \in 1..n, i # k
          PROVE  Len(ErrorsByField(more, place(i))) = 0 /\ ~(i <= k)
      <4>1. ErrorsByField(more, place(i)) = <<>>
        BY <1>4, <2>1, <3>2
      <4>2. ~(i <= k)
        BY <1>6, <3>2
      <4>3. QED
        BY <1>5, <4>1, <4>2
    <3>3. QED
      BY <3>1, <3>2
  <2>3. k \in 1..k /\ \A i \in 1..k : i = k
    BY <1>6
  <2>4. \A e \in DOMAIN more : \E i \in 1..k : \E d \in DOMAIN lists[i] : more[e] = lists[i][d]
    BY <2>1, <2>3 DEF last
  <2>5. more = <<>> <=> \A i \in 1..k : lists[i] = <<>>
    BY <2>1, <2>3 DEF last
  <2>6. QED
    BY <1>1, <2>1, <2>2, <2>4, <2>5 DEF Holds, place
<1>7. CASE k # 1
  <2>1. more = flat \o last /\ Holds(flat, lists, n, k - 1, name)
    BY <1>7 DEF last
  <2>2. /\ IsList(flat)
        /\ \A e \in DOMAIN flat :
             \E i \in 1..k - 1 : \E d \in DOMAIN lists[i] : flat[e] = lists[i][d]
        /\ \A i \in 1..n :
             Len(ErrorsByField(flat, place(i))) = IF i <= k - 1 THEN Len(lists[i]) ELSE 0
        /\ flat = <<>> <=> \A i \in 1..k - 1 : lists[i] = <<>>
    BY <2>1 DEF Holds, place
  <2>3. /\ IsList(more) /\ Len(flat) \in Nat
        /\ DOMAIN flat = 1..Len(flat) /\ DOMAIN last = 1..Len(last)
        /\ DOMAIN more = 1..Len(flat) + Len(last)
        /\ Len(more) = Len(flat) + Len(last)
        /\ \A i \in 1..Len(flat) : more[i] = flat[i]
        /\ \A j \in 1..Len(last) : more[Len(flat) + j] = last[j]
    <3>1. IsList(flat) /\ IsList(last)
      BY <1>1, <2>2
    <3>2. /\ IsList(flat \o last) /\ Len(flat) \in Nat
          /\ DOMAIN flat = 1..Len(flat) /\ DOMAIN last = 1..Len(last)
          /\ DOMAIN (flat \o last) = 1..Len(flat) + Len(last)
          /\ Len(flat \o last) = Len(flat) + Len(last)
          /\ \A i \in 1..Len(flat) : (flat \o last)[i] = flat[i]
          /\ \A j \in 1..Len(last) : (flat \o last)[Len(flat) + j] = last[j]
      BY <3>1, ConcatLists
    <3>3. QED
      BY <2>1, <3>2
  <2>4. ASSUME NEW i \in 1..n
        PROVE  Len(ErrorsByField(more, place(i)))
                 = Len(ErrorsByField(flat, place(i))) + Len(ErrorsByField(last, place(i)))
    <3>1. ErrorsByField(more, place(i)) = ErrorsByField(flat, place(i)) \o ErrorsByField(last, place(i))
      <4>1. IsList(flat) /\ IsList(last)
        BY <1>1, <2>2
      <4>2. ErrorsByField(flat \o last, place(i))
              = ErrorsByField(flat, place(i)) \o ErrorsByField(last, place(i))
        BY <4>1, FieldOfConcat
      <4>3. QED
        BY <2>1, <4>2
    <3>2. IsList(ErrorsByField(flat, place(i))) /\ IsList(ErrorsByField(last, place(i)))
      BY <1>1, <2>2, FieldOfAll
    <3>3. QED
      BY <3>1, <3>2, ConcatLists
  <2>5. ASSUME NEW i \in 1..n
        PROVE  Len(ErrorsByField(more, place(i))) = IF i <= k THEN Len(lists[i]) ELSE 0
    <3>1. CASE i = k
      <4>1. Len(ErrorsByField(flat, place(i))) = 0
        BY <2>2, <3>1
      <4>2. Len(ErrorsByField(last, place(i))) = Len(lists[i])
        BY <1>3, <3>1 DEF last
      <4>3. Len(lists[i]) \in Nat
        BY <1>5, <3>1 DEF last
      <4>4. QED
        BY <2>4, <3>1, <4>1, <4>2, <4>3
    <3>2. CASE i # k
      <4>1. Len(ErrorsByField(last, place(i))) = 0
        BY <1>4, <1>5, <3>2
      <4>2. Len(ErrorsByField(flat, place(i))) = IF i <= k THEN Len(lists[i]) ELSE 0
        BY <2>2, <3>2
      <4>3. Len(ErrorsByField(flat, place(i))) \in Nat
        <5>1. IsList(ErrorsByField(flat, place(i)))
          BY <2>2, FieldOfAll
        <5>2. QED
          BY <5>1, AppendLists
      <4>4. QED
        BY <2>4, <4>1, <4>2, <4>3
    <3>3. QED
      BY <3>1, <3>2
  <2>6. k \in 1..k /\ \A i \in 1..k - 1 : i \in 1..k
    OBVIOUS
  <2>7. ASSUME NEW e \in DOMAIN more
        PROVE  \E i \in 1..k : \E d \in DOMAIN lists[i] : more[e] = lists[i][d]
    <3>1. CASE e \in 1..Len(flat)
      BY <2>2, <2>3, <2>6, <3>1
    <3>2. CASE e \notin 1..Len(flat)
      <4>1. e - Len(flat) \in 1..Len(last) /\ Len(flat) + (e - Len(flat)) = e
        BY <1>5, <2>3, <3>2
      <4>2. e - Len(flat) \in DOMAIN last /\ more[e] = last[e - Len(flat)]
        BY <2>3, <4>1
      <4>3. QED
        BY <2>6, <4>2 DEF last
    <3>3. QED
      BY <3>1, <3>2
  <2>8. more = <<>> <=> \A i \in 1..k : lists[i] = <<>>
    <3>1. more = <<>> <=> Len(flat) + Len(last) = 0
      BY <2>3, EmptyList
    <3>2. flat = <<>> <=> Len(flat) = 0
      BY <2>2, EmptyList
    <3>3. last = <<>> <=> Len(last) = 0
      BY <1>1, EmptyList
    <3>4. Len(flat) + Len(last) = 0 <=> Len(flat) = 0 /\ Len(last) = 0
      BY <1>5, <2>3
    <3>5. \A i \in 1..k : i \in 1..k - 1 \/ i = k
      OBVIOUS
    <3>6. QED
      BY <2>2, <2>6, <3>1, <3>2, <3>3, <3>4, <3>5 DEF last
  <2>9. QED
    BY <2>3, <2>5, <2>7, <2>8 DEF Holds, place
<1>8. QED
  BY <1>6, <1>7

\* So FlattenSeq holds each list under its place, and nothing else.
LEMMA FlattenHolds ==
  ASSUME NEW n \in Nat, NEW lists, IsList(lists), Len(lists) = n, NEW name, Placed(lists, n, name)
  PROVE  Holds(FlattenSeq(lists), lists, n, n, name)
<1>1. CASE n = 0
  <2>1. FlattenSeq(lists) = lists
    BY <1>1 DEF FlattenSeq
  <2>2. lists = <<>>
    BY <1>1, EmptyList
  <2>3. \A i \in 1..n : FALSE
    BY <1>1
  <2>4. IsList(<<>>) /\ DOMAIN <<>> = {}
    BY <2>2
  <2>5. QED
    BY <2>1, <2>2, <2>3, <2>4 DEF Holds
<1>2. CASE n # 0
  <2>1. PICK flat : Flattens(flat, lists, n)
    BY <1>2, FlattenIs
  <2>2. /\ FlattenSeq(lists) = flat[n] /\ flat[1] = lists[1]
        /\ \A i \in 2..n : flat[i] = flat[i - 1] \o lists[i]
    BY <2>1 DEF Flattens
  <2> DEFINE Bad == {k \in Nat : k \in 1..n /\ ~Holds(flat[k], lists, n, k, name)}
  <2>3. Bad = {}
    <3>1. SUFFICES ASSUME Bad # {} PROVE FALSE
      OBVIOUS
    <3>2. PICK k \in Bad : \A j \in Bad : k <= j
      BY <3>1, LeastNumber
    <3>3. k \in 1..n /\ ~Holds(flat[k], lists, n, k, name)
      OBVIOUS
    <3>4. k = 1 \/ (k - 1 \in Nat /\ k - 1 \in 1..n /\ k - 1 < k /\ k \in 2..n)
      BY <3>3
    <3>5. CASE k = 1
      <4>1. flat[k] = lists[k]
        BY <2>2, <3>5
      <4>2. Holds(flat[k], lists, n, k, name)
        BY <3>3, <3>5, <4>1, HoldsOneMore
      <4>3. QED
        BY <3>3, <4>2
    <3>6. CASE k # 1
      <4>1. Holds(flat[k - 1], lists, n, k - 1, name)
        BY <3>2, <3>4, <3>6
      <4>2. flat[k] = flat[k - 1] \o lists[k]
        BY <2>2, <3>4, <3>6
      <4>3. Holds(flat[k], lists, n, k, name)
        BY <3>3, <3>6, <4>1, <4>2, HoldsOneMore
      <4>4. QED
        BY <3>3, <4>3
    <3>7. QED
      BY <3>5, <3>6
  <2>4. n \in 1..n /\ n \in Nat
    BY <1>2
  <2>5. Holds(flat[n], lists, n, n, name)
    BY <2>3, <2>4
  <2>6. QED
    BY <2>2, <2>5
<1>3. QED
  BY <1>1, <1>2

\* A schema that its calls decide, with what the slice holds; an item schema.
SchemaBuilt(s, cs, held) ==
    /\ WellBuilt(s) /\ IsList(cs) /\ s.type \in {"string", "int", "float", "array"}
    /\ RulesListed(s, cs) /\ RulesAccept(s, held)
    /\ s.optional <=> MayBeEmpty(cs)
    /\ s.items <=> \E i \in DOMAIN cs : cs[i] = <<"Items">>
    /\ s.items => s.type = "array"
    /\ s.field = <<"field">>
    /\ \A i \in DOMAIN cs : cs[i][1] = "Unique" => cs[i] = <<"Unique">>

ItemBuilt(it, ics) ==
    /\ WellBuilt(it) /\ IsList(ics) /\ it.type = "string"
    /\ RulesListed(it, ics) /\ RulesAccept(it, {})
    /\ it.optional <=> MayBeEmpty(ics)
    /\ \A i \in DOMAIN ics : ics[i][1] \in {"Optional", "Min"}

\* Whether a word passes as an item, and how many errors it has.
ItemPasses(ics, w) ==
    IF w \in Blank THEN MayBeEmpty(ics) ELSE Failed("string", ics, {}, w) = {}

ItemCount(ics, w) ==
    IF w \in Blank THEN IF MayBeEmpty(ics) THEN 0 ELSE 1
    ELSE Len(Selection(ics, Failed("string", ics, {}, w)))

OfItem(found, ics, w) ==
    /\ IsList(found)
    /\ \A e \in DOMAIN found : /\ DOMAIN found[e] = {"field", "message", "code"}
                               /\ found[e].message[1] # "Unique"
    /\ Len(found) = ItemCount(ics, w)
    /\ found = <<>> <=> ItemPasses(ics, w)

\* A value that is empty and has to be there is reported with one error.
LEMMA RequiredReported ==
  ASSUME NEW s, NEW found, found = <<NewValidationError(s.field, <<"Required">>, "required")>>
  PROVE  /\ IsList(found) /\ Len(found) = 1 /\ found # <<>>
         /\ \A e \in DOMAIN found :
              /\ DOMAIN found[e] = {"field", "message", "code"}
              /\ found[e].field = s.field /\ found[e].message = <<"Required">>
              /\ found[e].message[1] # "Unique"
<1> DEFINE err == NewValidationError(s.field, <<"Required">>, "required")
<1>1. /\ DOMAIN err = {"field", "message", "code"} /\ err.field = s.field
      /\ err.message = <<"Required">> /\ err.message[1] # "Unique"
  BY DEF NewValidationError
<1> HIDE DEF err
<1>2. found = <<err>>
  BY DEF err
<1>3. IsList(found)
  BY <1>2, Few
<1>4. Len(found) = 1 /\ DOMAIN found = {1} /\ found[1] = err
  BY <1>2
<1>5. found # <<>>
  BY <1>3, <1>4, EmptyList
<1>6. QED
  BY <1>1, <1>3, <1>4, <1>5

\* What the item schema says of one word.
LEMMA ItemReports ==
  ASSUME NEW it, NEW ics, ItemBuilt(it, ics), NEW w \in Word
  PROVE  OfItem(StringValidateAll(it, w), ics, w)
<1> DEFINE found == StringValidateAll(it, w)
           bad == Failed("string", ics, {}, w)
<1>1. /\ WellBuilt(it) /\ IsList(ics) /\ it.type = "string"
      /\ RulesListed(it, ics) /\ RulesAccept(it, {})
      /\ it.optional <=> MayBeEmpty(ics)
      /\ \A i \in DOMAIN ics : ics[i][1] \in {"Optional", "Min"}
  BY DEF ItemBuilt
<1>2. IsList(<<>>) /\ DOMAIN <<>> = {} /\ Len(<<>>) = 0
  BY DEF IsList
<1>3. CASE w \in Blank /\ it.optional
  <2>1. found = <<>>
    BY <1>3 DEF StringValidateAll, executeRules
  <2> HIDE DEF found
  <2>2. ItemCount(ics, w) = 0 /\ ItemPasses(ics, w)
    BY <1>1, <1>3 DEF ItemCount, ItemPasses
  <2>3. OfItem(found, ics, w)
    BY <1>2, <2>1, <2>2 DEF OfItem
  <2>4. QED
    BY <2>3 DEF found
<1>4. CASE w \in Blank /\ ~it.optional
  <2>1. found = <<NewValidationError(it.field, <<"Required">>, "required")>>
    BY <1>4 DEF StringValidateAll, executeRules
  <2> HIDE DEF found
  <2>2. ItemCount(ics, w) = 1 /\ ~ItemPasses(ics, w)
    BY <1>1, <1>4 DEF ItemCount, ItemPasses
  <2>3. /\ IsList(found) /\ Len(found) = 1 /\ found # <<>>
        /\ \A e \in DOMAIN found : /\ DOMAIN found[e] = {"field", "message", "code"}
                                   /\ found[e].message[1] # "Unique"
    BY <2>1, RequiredReported
  <2>4. OfItem(found, ics, w)
    BY <2>2, <2>3 DEF OfItem
  <2>5. QED
    BY <2>4 DEF found
<1>5. CASE w \notin Blank
  <2>1. found = RuleErrors(it, w)
    BY <1>5 DEF StringValidateAll, executeRules
  <2> HIDE DEF found
  <2>2. w \in Carrier(it.type)
    BY <1>1 DEF Carrier
  <2>3. \A i \in DOMAIN ics : ics[i] # <<"Items">>
    <3>1. \A c : c = <<"Items">> => c[1] = "Items"
      OBVIOUS
    <3>2. QED
      BY <1>1, <3>1
  <2>4. /\ Reported(RuleErrors(it, w), it.field, Selection(ics, bad), w)
        /\ IsList(Selection(ics, bad))
        /\ \A k \in DOMAIN Selection(ics, bad) : \E i \in bad : Selection(ics, bad)[k] = ics[i]
        /\ RuleErrors(it, w) = <<>> <=> bad = {}
    <3>1. bad = Failed(it.type, ics, {}, w)
      BY <1>1
    <3> HIDE DEF bad
    <3>2. QED
      BY <1>1, <2>2, <2>3, <3>1, RulesReport
  <2>5. ItemCount(ics, w) = Len(Selection(ics, bad)) /\ (ItemPasses(ics, w) <=> bad = {})
    BY <1>5 DEF ItemCount, ItemPasses
  <2>6. bad \in SUBSET DOMAIN ics
    BY DEF Failed
  <2> HIDE DEF bad
  <2> DEFINE unmet == Selection(ics, bad)
  <2>7. \A k \in DOMAIN unmet : unmet[k][1] # "Unique" /\ unmet[k] # <<"Unique">>
    <3>1. \A c : c = <<"Unique">> => c[1] = "Unique"
      OBVIOUS
    <3>2. \A k \in DOMAIN unmet : \E i \in DOMAIN ics : unmet[k] = ics[i]
      BY <2>4, <2>6
    <3>3. QED
      BY <1>1, <3>1, <3>2
  <2> HIDE DEF unmet
  <2>8. /\ IsList(found) /\ Len(found) = Len(unmet) /\ DOMAIN found = DOMAIN unmet
        /\ \A e \in DOMAIN found :
             /\ DOMAIN found[e] = {"field", "message", "code"}
             /\ found[e].message = IF unmet[e] = <<"Unique">> THEN <<"Unique", FirstRepeat(w) - 1>>
                                                             ELSE unmet[e]
    BY <2>1, <2>4 DEF Reported, unmet
  <2>9. \A e \in DOMAIN found : found[e].message[1] # "Unique"
    BY <2>7, <2>8
  <2>10. found = <<>> <=> bad = {}
    BY <2>1, <2>4
  <2>11. OfItem(found, ics, w)
    BY <2>5, <2>8, <2>9, <2>10 DEF OfItem, unmet
  <2>12. QED
    BY <2>11 DEF found
<1>6. QED
  BY <1>3, <1>4, <1>5

\* What an array reports of its items.
OfItems(found, ics, l) ==
    /\ IsList(found)
    /\ \A e \in DOMAIN found : /\ \E i \in DOMAIN l : found[e].field = <<"field", i - 1>>
                               /\ found[e].message[1] # "Unique"
    /\ \A i \in DOMAIN l : Len(ErrorsByField(found, <<"field", i - 1>>)) = ItemCount(ics, l[i])
    /\ found = <<>> <=> \A i \in DOMAIN l : ItemPasses(ics, l[i])

\* The items of a slice are each answered by the calls of the item schema, at their places.
LEMMA ItemErrorsAre ==
  ASSUME NEW s, s.field = <<"field">>, NEW it, NEW ics, ItemBuilt(it, ics), NEW l \in Seq(Word)
  PROVE  OfItems(ItemErrors(s, it, l), ics, l)
<1> DEFINE n == Len(l)
           place(i) == <<s.field[1], i - 1>>
           put(found, i) == [e \in DOMAIN found |-> [found[e] EXCEPT !.field = <<s.field[1], i - 1>>]]
           lists == [i \in DOMAIN l |-> put(StringValidateAll(it, l[i]), i)]
<1>1. n \in Nat /\ DOMAIN l = 1..n /\ \A i \in 1..n : l[i] \in Word
  OBVIOUS
<1>2. ItemErrors(s, it, l) = FlattenSeq(lists)
  BY DEF ItemErrors
<1>3. \A i \in 1..n : lists[i] = put(StringValidateAll(it, l[i]), i)
  BY <1>1
<1>4. DOMAIN lists = 1..n /\ lists = [i \in 1..n |-> lists[i]]
  BY <1>1
<1> HIDE DEF n, lists
<1>5. IsList(lists) /\ Len(lists) = n
  <2>1. IsList(lists)
    BY <1>1, <1>4, ListsItself
  <2>2. DOMAIN lists = 1..Len(lists) /\ Len(lists) \in Nat
    BY <2>1, AppendLists
  <2>3. QED
    BY <1>1, <1>4, <2>1, <2>2, SameLength
<1>6. ASSUME NEW found, NEW i \in Nat, NEW w, OfItem(found, ics, w)
      PROVE  /\ IsList(put(found, i)) /\ Len(put(found, i)) = ItemCount(ics, w)
             /\ \A e \in DOMAIN put(found, i) : /\ put(found, i)[e].field = <<"field", i - 1>>
                                                /\ put(found, i)[e].message[1] # "Unique"
             /\ put(found, i) = <<>> <=> ItemPasses(ics, w)
  <2> DEFINE new == put(found, i)
  <2>1. /\ IsList(found) /\ Len(found) = ItemCount(ics, w) /\ (found = <<>> <=> ItemPasses(ics, w))
        /\ \A e \in DOMAIN found : /\ DOMAIN found[e] = {"field", "message", "code"}
                                   /\ found[e].message[1] # "Unique"
    BY <1>6 DEF OfItem
  <2>2. Len(found) \in Nat /\ DOMAIN found = 1..Len(found)
    BY <2>1, AppendLists
  <2>3. DOMAIN new = DOMAIN found /\ new = [e \in 1..Len(found) |-> new[e]]
    BY <2>2
  <2>4. \A e \in DOMAIN found : new[e] = [found[e] EXCEPT !.field = <<"field", i - 1>>]
    OBVIOUS
  <2> HIDE DEF new
  <2>5. \A e \in DOMAIN new : new[e].field = <<"field", i - 1>> /\ new[e].message[1] # "Unique"
    BY <2>1, <2>3, <2>4
  <2>6. IsList(new)
    BY <2>2, <2>3, ListsItself
  <2>7. Len(new) = Len(found)
    <3>1. Len(new) \in Nat /\ DOMAIN new = 1..Len(new)
      BY <2>6, AppendLists
    <3>2. QED
      BY <2>2, <2>3, <3>1, SameLength
  <2>8. new = <<>> <=> found = <<>>
    BY <2>1, <2>6, <2>7, EmptyList
  <2>9. QED
    BY <2>1, <2>5, <2>6, <2>7, <2>8 DEF new
<1> HIDE DEF put
<1>7. ASSUME NEW i \in 1..n
      PROVE  /\ IsList(lists[i]) /\ Len(lists[i]) = ItemCount(ics, l[i])
             /\ \A e \in DOMAIN lists[i] : /\ lists[i][e].field = <<"field", i - 1>>
                                           /\ lists[i][e].message[1] # "Unique"
             /\ lists[i] = <<>> <=> ItemPasses(ics, l[i])
  <2>1. i \in Nat /\ l[i] \in Word /\ lists[i] = put(StringValidateAll(it, l[i]), i)
    BY <1>1, <1>3
  <2>2. OfItem(StringValidateAll(it, l[i]), ics, l[i])
    BY <2>1, ItemReports
  <2>3. QED
    BY <1>6, <2>1, <2>2
<1>8. Placed(lists, n, "field")
  BY <1>7 DEF Placed
<1>9. Holds(FlattenSeq(lists), lists, n, n, "field")
  BY <1>1, <1>5, <1>8, FlattenHolds
<1> DEFINE flat == FlattenSeq(lists)
<1> HIDE DEF flat
<1>10. /\ IsList(flat)
       /\ \A e \in DOMAIN flat : \E i \in 1..n : \E d \in DOMAIN lists[i] : flat[e] = lists[i][d]
       /\ \A i \in 1..n :
            Len(ErrorsByField(flat, <<"field", i - 1>>)) = IF i <= n THEN Len(lists[i]) ELSE 0
       /\ flat = <<>> <=> \A i \in 1..n : lists[i] = <<>>
  BY <1>9 DEF Holds, flat
<1>11. \A i \in 1..n : i <= n
  BY <1>1
<1>12. \A i \in 1..n : Len(ErrorsByField(flat, <<"field", i - 1>>)) = ItemCount(ics, l[i])
  BY <1>7, <1>10, <1>11
<1>13. ASSUME NEW e \in DOMAIN flat
       PROVE  /\ \E i \in 1..n : flat[e].field = <<"field", i - 1>>
              /\ flat[e].message[1] # "Unique"
  <2>1. PICK i \in 1..n : \E d \in DOMAIN lists[i] : flat[e] = lists[i][d]
    BY <1>10
  <2>2. PICK d \in DOMAIN lists[i] : flat[e] = lists[i][d]
    BY <2>1
  <2>3. lists[i][d].field = <<"field", i - 1>> /\ lists[i][d].message[1] # "Unique"
    BY <1>7
  <2>4. QED
    BY <2>2, <2>3
<1>14. flat = <<>> <=> \A i \in 1..n : ItemPasses(ics, l[i])
  BY <1>7, <1>10
<1>15. OfItems(flat, ics, l)
  BY <1>1, <1>10, <1>12, <1>13, <1>14 DEF OfItems
<1>16. QED
  BY <1>2, <1>15 DEF flat

\* What a schema reports under its own field.
Empty(type, v) == (type = "string" /\ v \in Blank) \/ (type = "array" /\ v = <<>>)

Passes(type, cs, held, v) ==
    IF Empty(type, v) THEN MayBeEmpty(cs) ELSE Failed(type, cs, held, v) = {}

Own(found, type, cs, held, v) ==
    LET unmet == Selection(cs, Failed(type, cs, held, v))
    IN  /\ IsList(found) /\ \A e \in DOMAIN found : found[e].field = <<"field">>
        /\ Empty(type, v) => found = IF MayBeEmpty(cs) THEN <<>> ELSE
                               <<NewValidationError(<<"field">>, <<"Required">>, "required")>>
        /\ ~Empty(type, v) =>
             /\ Len(found) = Len(unmet)
             /\ \A e \in DOMAIN found :
                  \/ found[e].message = unmet[e]
                  \/ unmet[e] = <<"Unique">> /\ found[e].message[1] = "Unique"
        /\ found = <<>> <=> Passes(type, cs, held, v)
        /\ type = "array" => \A e \in DOMAIN found :
             found[e].message[1] = "Unique" =>
               Repeats(v) # {} /\ found[e].message = <<"Unique", FirstRepeat(v) - 1>>

\* The rules of a schema, run over a value, report the calls the value does not meet.
LEMMA OwnErrorsAre ==
  ASSUME NEW s, NEW cs, NEW held, SchemaBuilt(s, cs, held), NEW v \in Carrier(s.type)
  PROVE  Own(executeRules(s, v, Empty(s.type, v)), s.type, cs, held, v)
<1> DEFINE found == executeRules(s, v, Empty(s.type, v))
           bad == Failed(s.type, cs, held, v)
<1>1. /\ WellBuilt(s) /\ IsList(cs) /\ RulesListed(s, cs) /\ RulesAccept(s, held)
      /\ s.type \in {"string", "int", "float", "array"}
      /\ s.optional <=> MayBeEmpty(cs)
      /\ s.items <=> \E i \in DOMAIN cs : cs[i] = <<"Items">>
      /\ s.items => s.type = "array"
      /\ s.field = <<"field">>
      /\ \A i \in DOMAIN cs : cs[i][1] = "Unique" => cs[i] = <<"Unique">>
  BY DEF SchemaBuilt
<1>2. IsList(<<>>) /\ DOMAIN <<>> = {} /\ Len(<<>>) = 0
  BY DEF IsList
<1>3. CASE Empty(s.type, v) /\ s.optional
  <2>1. found = <<>>
    BY <1>3 DEF executeRules
  <2> HIDE DEF found, bad
  <2>2. Own(found, s.type, cs, held, v)
    BY <1>1, <1>2, <1>3, <2>1 DEF Own, Passes
  <2>3. QED
    BY <2>2 DEF found
<1>4. CASE Empty(s.type, v) /\ ~s.optional
  <2>1. found = <<NewValidationError(s.field, <<"Required">>, "required")>>
    BY <1>4 DEF executeRules
  <2> HIDE DEF found, bad
  <2>2. /\ IsList(found) /\ found # <<>>
        /\ \A e \in DOMAIN found : found[e].field = s.field /\ found[e].message[1] # "Unique"
    BY <2>1, RequiredReported
  <2>3. found = <<NewValidationError(<<"field">>, <<"Required">>, "required")>>
    BY <1>1, <2>1
  <2>4. Own(found, s.type, cs, held, v)
    BY <1>1, <1>4, <2>2, <2>3 DEF Own, Passes
  <2>5. QED
    BY <2>4 DEF found
<1>5. CASE ~Empty(s.type, v)
  <2>1. found = RuleErrors(s, v)
    BY <1>5 DEF executeRules
  <2> HIDE DEF found
  <2>2. \A i \in DOMAIN cs : cs[i] = <<"Items">> => MeetsAs(s.type, cs[i], v, held)
    <3>1. MeetsAs("array", <<"Items">>, v, held)
      BY DEF MeetsAs, ListMeets
    <3>2. QED
      BY <1>1, <3>1
  <2>3. /\ Reported(RuleErrors(s, v), s.field, Selection(cs, bad), v)
        /\ IsList(Selection(cs, bad))
        /\ \A k \in DOMAIN Selection(cs, bad) : \E i \in bad : Selection(cs, bad)[k] = cs[i]
        /\ RuleErrors(s, v) = <<>> <=> bad = {}
    <3>1. bad = Failed(s.type, cs, held, v)
      OBVIOUS
    <3> HIDE DEF bad
    <3>2. /\ WellBuilt(s) /\ IsList(cs) /\ RulesListed(s, cs) /\ RulesAccept(s, held)
      BY <1>1
    <3>3. Reported(RuleErrors(s, v), s.field, Selection(cs, bad), v)
      BY <2>2, <3>1, <3>2, RulesReport
    <3>4. IsList(Selection(cs, bad)) /\ (RuleErrors(s, v) = <<>> <=> bad = {})
      BY <2>2, <3>1, <3>2, RulesReport
    <3>5. ASSUME NEW k \in DOMAIN Selection(cs, bad) PROVE \E i \in bad : Selection(cs, bad)[k] = cs[i]
      BY <2>2, <3>1, <3>2, RulesReport
    <3>6. QED
      BY <3>3, <3>4, <3>5
  <2> DEFINE unmet == Selection(cs, bad)
  <2>4. \A i \in bad : i \in DOMAIN cs /\ ~MeetsAs(s.type, cs[i], v, held)
    BY DEF Failed
  <2>5. unmet = Selection(cs, Failed(s.type, cs, held, v))
    OBVIOUS
  <2>6. bad = {} <=> Passes(s.type, cs, held, v)
    BY <1>5 DEF Passes
  <2> HIDE DEF bad, unmet
  <2>7. /\ IsList(found) /\ Len(found) = Len(unmet) /\ DOMAIN found = DOMAIN unmet
        /\ \A e \in DOMAIN found :
             /\ found[e].field = s.field
             /\ found[e].message = IF unmet[e] = <<"Unique">> THEN <<"Unique", FirstRepeat(v) - 1>>
                                                             ELSE unmet[e]
    BY <2>1, <2>3 DEF Reported, unmet
  <2>8. \A e \in DOMAIN found :
          found[e].message = unmet[e] \/ (unmet[e] = <<"Unique">> /\ found[e].message[1] = "Unique")
    BY <2>7
  <2>9. ASSUME s.type = "array", NEW e \in DOMAIN found, found[e].message[1] = "Unique"
        PROVE  Repeats(v) # {} /\ found[e].message = <<"Unique", FirstRepeat(v) - 1>>
    <3>1. PICK i \in bad : unmet[e] = cs[i]
      BY <2>3, <2>7 DEF unmet
    <3>2. unmet[e] = <<"Unique">>
      <4>1. CASE found[e].message = unmet[e]
        <5>1. cs[i][1] = "Unique"
          BY <2>9, <3>1, <4>1
        <5>2. QED
          BY <1>1, <2>4, <3>1, <5>1
      <4>2. CASE found[e].message # unmet[e]
        BY <2>8, <4>2
      <4>3. QED
        BY <4>1, <4>2
    <3>3. ~MeetsAs("array", <<"Unique">>, v, held)
      BY <2>4, <2>9, <3>1, <3>2
    <3>4. ~\A i1, j1 \in DOMAIN v : v[i1] = v[j1] => i1 = j1
      BY <3>3 DEF MeetsAs, ListMeets
    <3>5. Len(v) \in Nat /\ DOMAIN v = 1..Len(v)
      <4>1. v \in Seq(Word)
        BY <2>9, ValidateAssumption DEF ValidateAssumption, Carrier, Values
      <4>2. QED
        BY <4>1
    <3>6. Repeats(v) # {}
      BY <3>4, <3>5, RepeatsOf
    <3>7. QED
      BY <2>7, <3>2, <3>6
  <2>10. found = <<>> <=> Passes(s.type, cs, held, v)
    BY <2>1, <2>3, <2>6
  <2>11. Own(found, s.type, cs, held, v)
    BY <1>1, <1>5, <2>5, <2>7, <2>8, <2>9, <2>10 DEF Own
  <2>12. QED
    BY <2>11 DEF found
<1>6. QED
  BY <1>3, <1>4, <1>5

\* An answer is what the schema reports itself, and after it the items.
ItemPart(s, it, v) == IF s.items THEN ItemErrors(s, it, v) ELSE <<>>

Answers(found, own, rest, s, cs, held, ics, v) ==
    /\ found = own \o rest
    /\ Own(own, s.type, cs, held, v)
    /\ IF s.items THEN s.type = "array" /\ OfItems(rest, ics, v) ELSE rest = <<>>

\* ValidateAll of any schema that the calls built, for a value of its type.
LEMMA AnswerIs ==
  ASSUME NEW s, NEW cs, NEW held, SchemaBuilt(s, cs, held), NEW it, NEW ics, ItemBuilt(it, ics),
         NEW v \in Values(s.type)
  PROVE  /\ v \in Carrier(s.type)
         /\ Answers(ValidateAll(s, it, v), executeRules(s, v, Empty(s.type, v)), ItemPart(s, it, v),
                    s, cs, held, ics, v)
<1> DEFINE own == executeRules(s, v, Empty(s.type, v))
           rest == ItemPart(s, it, v)
<1>1. /\ s.type \in {"string", "int", "float", "array"} /\ s.field = <<"field">>
      /\ s.items => s.type = "array"
  BY DEF SchemaBuilt
<1>2. v \in Carrier(s.type)
  BY SchemasAssumption DEF SchemasAssumption, Values, Carrier
<1>3. Own(own, s.type, cs, held, v)
  BY <1>2, OwnErrorsAre
<1>4. IF s.items THEN s.type = "array" /\ OfItems(rest, ics, v) ELSE rest = <<>>
  <2>1. CASE s.items
    <3>1. v \in Seq(Word)
      BY <1>1, <2>1, ValidateAssumption DEF ValidateAssumption, Values
    <3>2. OfItems(ItemErrors(s, it, v), ics, v)
      BY <1>1, <3>1, ItemErrorsAre
    <3>3. QED
      BY <1>1, <2>1, <3>2 DEF ItemPart
  <2>2. CASE ~s.items
    BY <2>2 DEF ItemPart
  <2>3. QED
    BY <2>1, <2>2
<1>5. ValidateAll(s, it, v) = own \o rest
  <2>1. CASE s.type = "array"
    BY <2>1 DEF ValidateAll, ArrayValidateAll, Empty, ItemPart
  <2>2. CASE s.type # "array"
    <3>1. ValidateAll(s, it, v) = own /\ rest = <<>>
      BY <1>1, <2>2 DEF ValidateAll, StringValidateAll, IntValidateAll, FloatValidateAll, Empty,
         executeRules, ItemPart
    <3>2. IsList(own)
      BY <1>3 DEF Own
    <3> HIDE DEF own
    <3>3. own \o <<>> = own
      BY <3>2, ConcatEmptySeq DEF IsList
    <3>4. QED
      BY <3>1, <3>3
  <2>3. QED
    BY <2>1, <2>2
<1>6. QED
  BY <1>2, <1>3, <1>4, <1>5 DEF Answers

\* In every state the two schemas are built as their calls say.
LEMMA BothBuilt ==
  ASSUME SchemasInv, CallsDecide, schema # NoSchema
  PROVE  SchemaBuilt(schema, calls, slice) /\ ItemBuilt(item, itemCalls)
<1>1. SchemaBuilt(schema, calls, slice)
  BY DEF SchemasInv, SchemasTypeOK, Typed, CallsDecide, SchemaFollowsCalls, SchemaBuilt
<1>2. ItemBuilt(item, itemCalls)
  BY DEF SchemasInv, SchemasTypeOK, CallsDecide, ItemFollowsCalls, ItemBuilt
<1>3. QED
  BY <1>1, <1>2

\* The calls that were not met, said as the properties say it.
LEMMA UnmetAre ==
  ASSUME NEW v, NEW w
  PROVE  /\ Unmet(calls, v, Meets) = Selection(calls, Failed(schema.type, calls, slice, v))
         /\ Unmet(itemCalls, w, StringMeets) = Selection(itemCalls, Failed("string", itemCalls, {}, w))
         /\ IsEmpty(v) <=> Empty(schema.type, v)
<1>1. Unmet(calls, v, Meets) = Selection(calls, Failed(schema.type, calls, slice, v))
  BY DEF Unmet, Meets, Failed
<1>2. Unmet(itemCalls, w, StringMeets) = Selection(itemCalls, Failed("string", itemCalls, {}, w))
  <2>1. {i \in DOMAIN itemCalls : ~IsMark(itemCalls[i]) /\ ~StringMeets(itemCalls[i], w)}
          = Failed("string", itemCalls, {}, w)
    BY DEF Failed, MeetsAs
  <2>2. QED
    BY <2>1 DEF Unmet
<1>3. QED
  BY <1>1, <1>2 DEF IsEmpty, Empty

\* The answer in detail.
LEMMA AnswerSplits ==
  ASSUME SchemasInv, CallsDecide, AnswerCurrent, answer # NoAnswer
  PROVE  /\ schema # NoSchema /\ answer.value \in Values(schema.type)
         /\ answer.first = FirstOf(answer.errs)
         /\ \E own, rest :
              Answers(answer.errs, own, rest, schema, calls, slice, itemCalls, answer.value)
<1>1. PICK v \in Values(schema.type) :
        LET found == ValidateAll(schema, item, v)
        IN  answer = [value |-> v, errs |-> found, first |-> FirstOf(found)]
  BY DEF AnswerCurrent
<1>2. /\ answer.value = v /\ answer.errs = ValidateAll(schema, item, v)
      /\ answer.first = FirstOf(answer.errs)
  BY <1>1
<1>3. schema # NoSchema
  BY DEF CallsDecide
<1>4. SchemaBuilt(schema, calls, slice) /\ ItemBuilt(item, itemCalls)
  BY <1>3, BothBuilt
<1>5. Answers(ValidateAll(schema, item, v), executeRules(schema, v, Empty(schema.type, v)),
              ItemPart(schema, item, v), schema, calls, slice, itemCalls, v)
  BY <1>4, AnswerIs
<1>6. QED
  BY <1>2, <1>3, <1>5

\* Where the errors of an answer are.
LEMMA AnswerParts ==
  ASSUME NEW found, NEW own, NEW rest, NEW s, NEW cs, NEW held, NEW ics, NEW v,
         Answers(found, own, rest, s, cs, held, ics, v)
  PROVE  /\ IsList(found) /\ IsList(own) /\ IsList(rest) /\ found = own \o rest
         /\ \A e \in DOMAIN found : (\E k \in DOMAIN own : found[e] = own[k])
                                    \/ (\E k \in DOMAIN rest : found[e] = rest[k])
         /\ \A e \in DOMAIN own : own[e].field = <<"field">>
         /\ \A e \in DOMAIN rest : s.items /\ (\E i \in DOMAIN v : rest[e].field = <<"field", i - 1>>)
                                    /\ rest[e].message[1] # "Unique"
         /\ found = <<>> <=> own = <<>> /\ rest = <<>>
<1>1. IsList(own) /\ \A e \in DOMAIN own : own[e].field = <<"field">>
  BY DEF Answers, Own
<1>2. IsList(rest) /\ \A e \in DOMAIN rest :
        /\ s.items /\ (\E i \in DOMAIN v : rest[e].field = <<"field", i - 1>>)
        /\ rest[e].message[1] # "Unique"
  <2>1. CASE s.items
    BY <2>1 DEF Answers, OfItems
  <2>2. CASE ~s.items
    <3>1. rest = <<>>
      BY <2>2 DEF Answers
    <3>2. IsList(<<>>) /\ DOMAIN <<>> = {}
      BY DEF IsList
    <3>3. QED
      BY <3>1, <3>2
  <2>3. QED
    BY <2>1, <2>2
<1>3. found = own \o rest
  BY DEF Answers
<1>4. /\ IsList(own \o rest) /\ Len(own) \in Nat /\ Len(rest) \in Nat
      /\ DOMAIN own = 1..Len(own) /\ DOMAIN rest = 1..Len(rest)
      /\ DOMAIN (own \o rest) = 1..Len(own) + Len(rest)
      /\ Len(own \o rest) = Len(own) + Len(rest)
      /\ \A i \in 1..Len(own) : (own \o rest)[i] = own[i]
      /\ \A j \in 1..Len(rest) : (own \o rest)[Len(own) + j] = rest[j]
  BY <1>1, <1>2, ConcatLists
<1>5. ASSUME NEW e \in DOMAIN found
      PROVE  (\E k \in DOMAIN own : found[e] = own[k]) \/ (\E k \in DOMAIN rest : found[e] = rest[k])
  <2>1. CASE e \in 1..Len(own)
    BY <1>3, <1>4, <2>1
  <2>2. CASE e \notin 1..Len(own)
    <3>1. e - Len(own) \in 1..Len(rest) /\ Len(own) + (e - Len(own)) = e
      BY <1>3, <1>4, <2>2
    <3>2. found[e] = rest[e - Len(own)]
      BY <1>3, <1>4, <3>1
    <3>3. QED
      BY <1>4, <3>1, <3>2
  <2>3. QED
    BY <2>1, <2>2
<1>6. found = <<>> <=> own = <<>> /\ rest = <<>>
  <2>1. found = <<>> <=> Len(own) + Len(rest) = 0
    BY <1>3, <1>4, EmptyList
  <2>2. own = <<>> <=> Len(own) = 0
    BY <1>1, EmptyList
  <2>3. rest = <<>> <=> Len(rest) = 0
    BY <1>2, EmptyList
  <2>4. QED
    BY <1>4, <2>1, <2>2, <2>3
<1>7. QED
  BY <1>1, <1>2, <1>3, <1>4, <1>5, <1>6

\* An answer's own errors are those that carry the schema's field.
LEMMA OwnByField ==
  ASSUME NEW found, NEW own, NEW rest, NEW s, NEW cs, NEW held, NEW ics, NEW v,
         Answers(found, own, rest, s, cs, held, ics, v), IsList(v) \/ ~s.items
  PROVE  /\ ErrorsByField(found, <<"field">>) = own
         /\ \A i \in DOMAIN v : s.items =>
              ErrorsByField(found, <<"field", i - 1>>) = ErrorsByField(rest, <<"field", i - 1>>)
         /\ ~s.items => \A i \in Nat : ErrorsByField(found, <<"field", i - 1>>) = <<>>
<1>1. /\ IsList(own) /\ IsList(rest) /\ found = own \o rest
      /\ \A e \in DOMAIN own : own[e].field = <<"field">>
      /\ \A e \in DOMAIN rest : s.items /\ \E i \in DOMAIN v : rest[e].field = <<"field", i - 1>>
  BY AnswerParts
<1>2. s.items => \A i \in DOMAIN v : i \in Nat
  BY AppendLists
<1>3. \A field : ErrorsByField(found, field) = ErrorsByField(own, field) \o ErrorsByField(rest, field)
  BY <1>1, FieldOfConcat
<1>4. \A field : IsList(ErrorsByField(own, field)) /\ IsList(ErrorsByField(rest, field))
  BY <1>1, FieldOfAll
<1>5. ErrorsByField(own, <<"field">>) = own
  <2> DEFINE field == <<"field">>
  <2>1. \A e \in DOMAIN own : own[e].field = field
    BY <1>1
  <2> HIDE DEF field
  <2>2. ErrorsByField(own, field) = own
    BY <1>1, <2>1, FieldOfAll
  <2>3. QED
    BY <2>2 DEF field
<1>6. ErrorsByField(rest, <<"field">>) = <<>>
  <2> DEFINE field == <<"field">>
  <2>1. ASSUME NEW e \in DOMAIN rest PROVE rest[e].field # field
    <3>1. PICK i \in DOMAIN v : rest[e].field = <<"field", i - 1>>
      BY <1>1
    <3>2. i \in Nat
      BY <1>1, <1>2
    <3>3. QED
      BY <3>1, <3>2, PlacesDiffer
  <2> HIDE DEF field
  <2>2. ErrorsByField(rest, field) = <<>>
    BY <1>1, <2>1, FieldOfAll
  <2>3. QED
    BY <2>2 DEF field
<1>7. ASSUME NEW i \in Nat PROVE ErrorsByField(own, <<"field", i - 1>>) = <<>>
  <2> DEFINE field == <<"field", i - 1>>
  <2>1. <<"field">> # field
    BY PlacesDiffer
  <2>2. \A e \in DOMAIN own : own[e].field # field
    BY <1>1, <2>1
  <2> HIDE DEF field
  <2>3. ErrorsByField(own, field) = <<>>
    BY <1>1, <2>2, FieldOfAll
  <2>4. QED
    BY <2>3 DEF field
<1>8. \A t : IsList(t) => t \o <<>> = t /\ <<>> \o t = t
  BY ConcatEmptySeq DEF IsList
<1>9. ErrorsByField(found, <<"field">>) = own
  BY <1>1, <1>3, <1>5, <1>6, <1>8
<1>10. ASSUME NEW i \in Nat
       PROVE  ErrorsByField(found, <<"field", i - 1>>) = ErrorsByField(rest, <<"field", i - 1>>)
  BY <1>3, <1>4, <1>7, <1>8
<1>11. ASSUME ~s.items, NEW i \in Nat PROVE ErrorsByField(rest, <<"field", i - 1>>) = <<>>
  <2> DEFINE field == <<"field", i - 1>>
  <2> HIDE DEF field
  <2>1. \A e \in DOMAIN rest : rest[e].field # field
    BY <1>1, <1>11
  <2>2. ErrorsByField(rest, field) = <<>>
    BY <1>1, <2>1, FieldOfAll
  <2>3. QED
    BY <2>2 DEF field
<1>12. QED
  BY <1>2, <1>9, <1>10, <1>11

\* AnswerFollowsCalls follows: the answer is what ValidateAll returns now, and the
\* calls decide that.
LEMMA AnswerFollows ==
  ASSUME SchemasInv, CallsDecide, AnswerCurrent
  PROVE  AnswerFollowsCalls
<1>1. SUFFICES ASSUME answer # NoAnswer PROVE AnswerFollowsCalls
  BY DEF AnswerFollowsCalls
<1> DEFINE v == answer.value
           found == answer.errs
           unmet == Selection(calls, Failed(schema.type, calls, slice, v))
<1>2. /\ schema # NoSchema /\ v \in Values(schema.type) /\ answer.first = FirstOf(found)
      /\ \E own, rest : Answers(found, own, rest, schema, calls, slice, itemCalls, v)
  BY <1>1, AnswerSplits
<1>3. PICK own, rest : Answers(found, own, rest, schema, calls, slice, itemCalls, v)
  BY <1>2
<1>4. IsList(v) \/ ~schema.items
  <2>1. schema.items => schema.type = "array"
    BY <1>2 DEF CallsDecide, SchemaFollowsCalls
  <2>2. schema.type = "array" => v \in Seq(Word)
    BY <1>2, ValidateAssumption DEF ValidateAssumption, Values
  <2>3. ASSUME NEW l \in Seq(Word) PROVE IsList(l)
    <3>1. Len(l) \in Nat /\ l = [i \in 1..Len(l) |-> l[i]]
      BY LenProperties
    <3>2. QED
      BY <3>1, ListsItself
  <2>4. QED
    BY <2>1, <2>2, <2>3
<1> HIDE DEF found, v
<1>5. /\ IsList(found) /\ IsList(own) /\ IsList(rest) /\ found = own \o rest
      /\ \A e \in DOMAIN found : (\E k \in DOMAIN own : found[e] = own[k])
                                 \/ (\E k \in DOMAIN rest : found[e] = rest[k])
      /\ \A e \in DOMAIN own : own[e].field = <<"field">>
      /\ \A e \in DOMAIN rest : \E i \in DOMAIN v : rest[e].field = <<"field", i - 1>>
  BY <1>3, AnswerParts
<1>6. ErrorsByField(found, <<"field">>) = own
  BY <1>3, <1>4, OwnByField
<1>7. /\ Empty(schema.type, v) => own = IF MayBeEmpty(calls) THEN <<>> ELSE
                                     <<NewValidationError(<<"field">>, <<"Required">>, "required")>>
      /\ ~Empty(schema.type, v) =>
           /\ Len(own) = Len(unmet)
           /\ \A e \in DOMAIN own :
                own[e].message = unmet[e] \/ (unmet[e] = <<"Unique">> /\ own[e].message[1] = "Unique")
  BY <1>3 DEF Answers, Own
<1>8. ASSUME Empty(schema.type, v)
      PROVE  found = IF MayBeEmpty(calls) THEN <<>> ELSE
                      <<NewValidationError(<<"field">>, <<"Required">>, "required")>>
  <2>1. rest = <<>>
    <3>1. CASE schema.items
      <4>1. schema.type = "array"
        BY <1>3, <3>1 DEF Answers
      <4>2. v = <<>>
        BY <1>8, <4>1 DEF Empty
      <4>3. DOMAIN rest = {}
        BY <1>5, <4>2
      <4>4. QED
        BY <1>5, <4>3, EmptyList
    <3>2. CASE ~schema.items
      BY <1>3, <3>2 DEF Answers
    <3>3. QED
      BY <3>1, <3>2
  <2>2. own \o <<>> = own
    BY <1>5, ConcatEmptySeq DEF IsList
  <2>3. found = own
    BY <1>5, <2>1, <2>2
  <2>4. QED
    BY <1>7, <1>8, <2>3
<1>9. IsEmpty(v) <=> Empty(schema.type, v)
  BY UnmetAre
<1>10. Unmet(calls, v, Meets) = unmet
  BY UnmetAre
<1>11. found # <<>> => found[1] # NoError
  <2>1. SUFFICES ASSUME found # <<>> PROVE found[1] # NoError
    OBVIOUS
  <2>2. 1 \in DOMAIN found
    BY <1>5, <2>1, EmptyList
  <2>3. found[1].field[1] = "field" /\ Len(found[1].field) >= 1
    <3>1. CASE \E k \in DOMAIN own : found[1] = own[k]
      <4>1. found[1].field = <<"field">>
        BY <1>5, <3>1
      <4>2. QED
        BY <4>1
    <3>2. CASE \E k \in DOMAIN rest : found[1] = rest[k]
      <4>1. PICK i : found[1].field = <<"field", i - 1>>
        BY <1>5, <3>2
      <4>2. QED
        BY <4>1
    <3>3. QED
      BY <1>5, <2>2, <3>1, <3>2
  <2>4. NoError.field = <<>>
    BY DEF NoError, NewValidationError
  <2>5. ASSUME found[1] = NoError PROVE FALSE
    <3>1. found[1].field = <<>>
      BY <2>4, <2>5
    <3>2. Len(found[1].field) = 0
      BY <3>1
    <3>3. QED
      BY <2>3, <3>2
  <2>6. QED
    BY <2>5
<1>12. answer.first = IF found # <<>> THEN found[1] ELSE NoError
  BY <1>2 DEF FirstOf, HasErrors
<1>13. (answer.first = NoError <=> found = <<>>) /\ (answer.first # NoError => answer.first = found[1])
  BY <1>11, <1>12
<1> HIDE DEF unmet
<1>14. IF IsEmpty(v)
         THEN found = IF MayBeEmpty(calls) THEN <<>> ELSE
                       <<NewValidationError(<<"field">>, <<"Required">>, "required")>>
         ELSE /\ Len(own) = Len(unmet)
              /\ \A i \in DOMAIN own :
                   \/ own[i].message = unmet[i]
                   \/ unmet[i] = <<"Unique">> /\ own[i].message[1] = "Unique"
  BY <1>7, <1>8, <1>9
<1>15. QED
  BY <1>6, <1>10, <1>13, <1>14 DEF AnswerFollowsCalls, found, v

\* The first repeat comes after the item it repeats, and there is none before it.
LEMMA FirstRepeatIs ==
  ASSUME NEW l \in Seq(Word), Repeats(l) # {}, NEW j, j = FirstRepeat(l)
  PROVE  /\ j \in DOMAIN l
         /\ \E i \in 1..(j - 1) : l[i] = l[j]
         /\ \A i, k \in 1..(j - 1) : l[i] = l[k] => i = k
<1>1. Repeats(l) \in SUBSET Nat
  BY DEF Repeats
<1>2. \E m \in Repeats(l) : \A k \in Repeats(l) : m <= k
  BY <1>1, LeastNumber
<1>3. j \in Repeats(l) /\ \A k \in Repeats(l) : j <= k
  BY <1>2 DEF FirstRepeat
<1>4. j \in DOMAIN l /\ \E i \in 1..(j - 1) : l[i] = l[j]
  BY <1>3 DEF Repeats
<1>5. j \in 1..Len(l) /\ Len(l) \in Nat
  BY <1>4
<1>6. ASSUME NEW i \in 1..(j - 1), NEW k \in 1..(j - 1), l[i] = l[k], i < k PROVE FALSE
  <2>1. k \in DOMAIN l /\ i \in 1..(k - 1) /\ ~(j <= k)
    BY <1>5, <1>6
  <2>2. k \in Repeats(l)
    BY <1>6, <2>1 DEF Repeats
  <2>3. QED
    BY <1>3, <2>1, <2>2
<1>7. ASSUME NEW i \in 1..(j - 1), NEW k \in 1..(j - 1), l[i] = l[k] PROVE i = k
  <2>1. i < k \/ k < i \/ i = k
    OBVIOUS
  <2>2. QED
    BY <1>6, <1>7, <2>1
<1>8. QED
  BY <1>4, <1>7

\* ItemErrorsPlaced follows in the same way.
LEMMA ItemsFollow ==
  ASSUME SchemasInv, CallsDecide, AnswerCurrent
  PROVE  ItemErrorsPlaced
<1>1. SUFFICES ASSUME answer # NoAnswer, schema.type = "array" PROVE ItemErrorsPlaced
  BY DEF ItemErrorsPlaced
<1> DEFINE l == answer.value
           found == answer.errs
           place(i) == <<"field", i - 1>>
<1>2. /\ schema # NoSchema /\ l \in Values(schema.type)
      /\ \E own, rest : Answers(found, own, rest, schema, calls, slice, itemCalls, l)
  BY <1>1, AnswerSplits
<1>3. PICK own, rest : Answers(found, own, rest, schema, calls, slice, itemCalls, l)
  BY <1>2
<1>4. l \in Seq(Word)
  BY <1>1, <1>2, ValidateAssumption DEF ValidateAssumption, Values
<1> HIDE DEF found, l
<1>5. IsList(l) /\ \A i \in DOMAIN l : i \in Nat
  <2>1. Len(l) \in Nat /\ l = [i \in 1..Len(l) |-> l[i]]
    BY <1>4, LenProperties
  <2>2. IsList(l)
    BY <2>1, ListsItself
  <2>3. DOMAIN l = 1..Len(l)
    BY <2>1
  <2>4. QED
    BY <2>1, <2>2, <2>3
<1>6. /\ IsList(found)
      /\ \A e \in DOMAIN found : (\E k \in DOMAIN own : found[e] = own[k])
                                 \/ (\E k \in DOMAIN rest : found[e] = rest[k])
      /\ \A e \in DOMAIN own : own[e].field = <<"field">>
      /\ \A e \in DOMAIN rest : (\E i \in DOMAIN l : rest[e].field = place(i))
                                 /\ rest[e].message[1] # "Unique"
  <2>1. /\ IsList(found)
        /\ \A e \in DOMAIN found : (\E k \in DOMAIN own : found[e] = own[k])
                                   \/ (\E k \in DOMAIN rest : found[e] = rest[k])
    BY <1>3, AnswerParts
  <2>2. \A e \in DOMAIN own : own[e].field = <<"field">>
    BY <1>3, AnswerParts
  <2>3. \A e \in DOMAIN rest : /\ \E i \in DOMAIN l : rest[e].field = <<"field", i - 1>>
                               /\ rest[e].message[1] # "Unique"
    BY <1>3, AnswerParts
  <2>4. QED
    BY <2>1, <2>2, <2>3
<1>7. ASSUME NEW i \in DOMAIN l
      PROVE  ErrorsByField(found, place(i)) = IF schema.items THEN ErrorsByField(rest, place(i)) ELSE <<>>
  BY <1>3, <1>5, OwnByField
<1>8. ASSUME schema.items, NEW i \in DOMAIN l
      PROVE  Len(ErrorsByField(rest, place(i))) = ItemCount(itemCalls, l[i])
  BY <1>3, <1>8 DEF Answers, OfItems
<1>9. \A e \in DOMAIN own : own[e].message[1] = "Unique" =>
        Repeats(l) # {} /\ own[e].message = <<"Unique", FirstRepeat(l) - 1>>
  BY <1>1, <1>3 DEF Answers, Own
<1> HIDE DEF place
<1>10. ASSUME NEW i \in DOMAIN l
       PROVE  Len(ErrorsByField(found, place(i)))
                = IF schema.items THEN ItemCount(itemCalls, l[i]) ELSE 0
  <2>1. Len(<<>>) = 0
    OBVIOUS
  <2>2. QED
    BY <1>7, <1>8, <2>1
<1>11. ASSUME NEW i \in DOMAIN l
       PROVE  ItemCount(itemCalls, l[i])
                = IF l[i] \in Blank THEN IF MayBeEmpty(itemCalls) THEN 0 ELSE 1
                  ELSE Len(Unmet(itemCalls, l[i], StringMeets))
  BY UnmetAre DEF ItemCount
<1>12. ASSUME NEW e \in DOMAIN found
       PROVE  found[e].field = <<"field">> \/ \E i \in DOMAIN l : found[e].field = place(i)
  BY <1>6
<1>13. ASSUME NEW e \in DOMAIN found, found[e].message[1] = "Unique"
       PROVE  LET j == found[e].message[2] + 1
              IN  /\ \E i \in 1..(j - 1) : l[i] = l[j]
                  /\ \A i, k \in 1..(j - 1) : l[i] = l[k] => i = k
  <2>1. PICK k \in DOMAIN own : found[e] = own[k]
    BY <1>6, <1>13
  <2>2. Repeats(l) # {} /\ found[e].message = <<"Unique", FirstRepeat(l) - 1>>
    BY <1>9, <1>13, <2>1
  <2> DEFINE first == FirstRepeat(l)
  <2>3. found[e].message[2] = first - 1
    BY <2>2
  <2>4. /\ first \in DOMAIN l
        /\ \E i \in 1..(first - 1) : l[i] = l[first]
        /\ \A i, m \in 1..(first - 1) : l[i] = l[m] => i = m
    BY <1>4, <2>2, FirstRepeatIs
  <2> HIDE DEF first
  <2>5. found[e].message[2] + 1 = first
    BY <1>5, <2>3, <2>4
  <2>6. QED
    BY <2>4, <2>5
<1>14. QED
  BY <1>10, <1>11, <1>12, <1>13 DEF ItemErrorsPlaced, found, l, place

\* A step leaves no answer behind that is not the one of now.
LEMMA AnswerStaysCurrent ==
  ASSUME CallsDecide, AnswerCurrent, [SchemasNext]_schemaVars
  PROVE  AnswerCurrent'
<1>1. CASE answer' = NoAnswer
  BY <1>1 DEF AnswerCurrent
<1>2. CASE Check
  BY <1>2 DEF Check, AnswerCurrent
<1>3. CASE UNCHANGED schemaVars
  BY <1>3 DEF schemaVars, AnswerCurrent
<1>4. NewSchema => answer' = NoAnswer
  BY DEF NewSchema, CallsDecide
<1>5. BuildItem \/ ChangeSlice => answer' = NoAnswer
  BY DEF BuildItem, ChangeSlice
<1>6. \A call, s : Call(call, s) => answer' = NoAnswer
  BY DEF Call
<1>7. BuildMarks \/ BuildString \/ BuildInt \/ BuildFloat \/ BuildArray \/ BuildOneOf
        => answer' = NoAnswer
  BY <1>6 DEF BuildMarks, BuildString, BuildInt, BuildFloat, BuildArray, BuildOneOf
<1>8. QED
  BY <1>1, <1>2, <1>3, <1>4, <1>5, <1>7 DEF SchemasNext

\* Every answer is what would be answered now.
LEMMA AnswersAreCurrent == ProgramsSpec => []AnswerCurrent
<1>1. ProgramsInit => AnswerCurrent
  BY DEF ProgramsInit, SchemasInit, AnswerCurrent
<1>2. CallsDecide /\ AnswerCurrent /\ [ProgramsNext]_programVars => AnswerCurrent'
  BY AnswerStaysCurrent DEF ProgramsNext, programVars
<1>3. QED
  BY <1>1, <1>2, CallsDecideAlways, PTL DEF ProgramsSpec

\* ValidateAll reports an empty value once, another value once for each call it
\* does not meet, in the order of the calls; Validate returns the first of these.
THEOREM AnswersFollowCalls == ProgramsSpec => []AnswerFollowsCalls
BY AnswerFollows, AnswersAreCurrent, CallsDecideAlways, SchemasInvariant, PTL

\* An item's errors are found under its index, as many as the calls on the item
\* schema that it does not meet; a duplicate under the first index that repeats.
THEOREM ItemErrorsArePlaced == ProgramsSpec => []ItemErrorsPlaced
BY ItemsFollow, AnswersAreCurrent, CallsDecideAlways, SchemasInvariant, PTL

\* What passes, by the calls alone.
LEMMA AcceptedAre ==
  ASSUME NEW s, NEW cs, NEW held, SchemaBuilt(s, cs, held), NEW it, NEW ics, ItemBuilt(it, ics),
         NEW v \in Values(s.type)
  PROVE  ValidateAll(s, it, v) = <<>> <=>
           /\ Passes(s.type, cs, held, v)
           /\ s.items => \A i \in DOMAIN v : ItemPasses(ics, v[i])
<1> DEFINE found == ValidateAll(s, it, v)
           own == executeRules(s, v, Empty(s.type, v))
           rest == ItemPart(s, it, v)
<1>1. Answers(found, own, rest, s, cs, held, ics, v)
  BY AnswerIs
<1> HIDE DEF found, own, rest
<1>2. found = <<>> <=> own = <<>> /\ rest = <<>>
  BY <1>1, AnswerParts
<1>3. own = <<>> <=> Passes(s.type, cs, held, v)
  BY <1>1 DEF Answers, Own
<1>4. s.items => (rest = <<>> <=> \A i \in DOMAIN v : ItemPasses(ics, v[i]))
  BY <1>1 DEF Answers, OfItems
<1>5. ~s.items => rest = <<>>
  BY <1>1 DEF Answers
<1>6. QED
  BY <1>2, <1>3, <1>4, <1>5 DEF found

\* One more call, other than Optional, leaves no more empty values and no fewer
\* calls to meet.
LEMMA NarrowsWith ==
  ASSUME NEW cs, IsList(cs), NEW call, call # <<"Optional">>, NEW new, new = Append(cs, call),
         NEW type, NEW held, NEW later, NEW v,
         \A i \in DOMAIN cs : MeetsAs(type, cs[i], v, later) => MeetsAs(type, cs[i], v, held)
  PROVE  /\ MayBeEmpty(new) => MayBeEmpty(cs)
         /\ Failed(type, new, later, v) = {} => Failed(type, cs, held, v) = {}
<1>1. MayBeEmpty(new) => MayBeEmpty(cs)
  <2>1. IsMark(call) => ~MayBeEmpty(new)
    BY MarkAppended
  <2>2. ~IsMark(call) => (MayBeEmpty(new) <=> MayBeEmpty(cs))
    BY MarkAppended
  <2>3. QED
    BY <2>1, <2>2
<1>2. ASSUME NEW i \in Failed(type, cs, held, v) PROVE i \in Failed(type, new, later, v)
  <2>1. i \in DOMAIN cs /\ ~IsMark(cs[i]) /\ ~MeetsAs(type, cs[i], v, later)
    BY <1>2 DEF Failed
  <2>2. i \in DOMAIN new /\ new[i] = cs[i]
    BY <2>1, OneMoreCall
  <2>3. QED
    BY <2>1, <2>2 DEF Failed
<1>3. QED
  BY <1>1, <1>2

\* The schema after a step is built as its calls say as well.
LEMMA BothBuiltLater ==
  ASSUME SchemasInv', CallsDecide', schema' # NoSchema
  PROVE  SchemaBuilt(schema', calls', slice') /\ ItemBuilt(item', itemCalls')
<1>1. SchemaBuilt(schema', calls', slice')
  BY DEF SchemasInv, SchemasTypeOK, Typed, CallsDecide, SchemaFollowsCalls, SchemaBuilt
<1>2. ItemBuilt(item', itemCalls')
  BY DEF SchemasInv, SchemasTypeOK, CallsDecide, ItemFollowsCalls, ItemBuilt
<1>3. QED
  BY <1>1, <1>2

\* A call on the schema, if the slice that an earlier one refers to is unchanged.
LEMMA CallNarrows ==
  ASSUME SchemasInv, CallsDecide, SchemasInv', CallsDecide', schema # NoSchema,
         schema'.type = schema.type, schema' # NoSchema,
         NEW call, call # <<"Optional">>, calls' = Append(calls, call),
         item' = item, itemCalls' = itemCalls,
         \A i \in DOMAIN calls, v \in Values(schema.type) :
           MeetsAs(schema.type, calls[i], v, slice') => MeetsAs(schema.type, calls[i], v, slice)
  PROVE  Accepted(schema', item') \subseteq Accepted(schema, item)
<1>1. SchemaBuilt(schema, calls, slice) /\ ItemBuilt(item, itemCalls)
  BY BothBuilt
<1>2. SchemaBuilt(schema', calls', slice') /\ ItemBuilt(item', itemCalls')
  BY BothBuiltLater
<1>3. IsList(calls)
  BY DEF SchemasInv
<1>4. schema.items => schema'.items
  <2>1. \A i \in DOMAIN calls : i \in DOMAIN calls' /\ calls'[i] = calls[i]
    BY <1>3, OneMoreCall
  <2>2. schema.items <=> \E i \in DOMAIN calls : calls[i] = <<"Items">>
    BY <1>1 DEF SchemaBuilt
  <2>3. schema'.items <=> \E i \in DOMAIN calls' : calls'[i] = <<"Items">>
    BY <1>2 DEF SchemaBuilt
  <2>4. QED
    BY <2>1, <2>2, <2>3
<1>5. SUFFICES ASSUME NEW v \in Values(schema.type), ValidateAll(schema', item', v) = <<>>
               PROVE  ValidateAll(schema, item, v) = <<>>
  BY DEF Accepted
<1>6. /\ Passes(schema'.type, calls', slice', v)
      /\ schema'.items => \A i \in DOMAIN v : ItemPasses(itemCalls', v[i])
  BY <1>2, <1>5, AcceptedAre
<1>7. /\ MayBeEmpty(calls') => MayBeEmpty(calls)
      /\ Failed(schema.type, calls', slice', v) = {} => Failed(schema.type, calls, slice, v) = {}
  BY <1>3, NarrowsWith
<1>8. Passes(schema.type, calls, slice, v)
  BY <1>6, <1>7 DEF Passes
<1>9. schema.items => \A i \in DOMAIN v : ItemPasses(itemCalls, v[i])
  BY <1>4, <1>6
<1>10. QED
  BY <1>1, <1>8, <1>9, AcceptedAre

\* A call on the item schema.
LEMMA ItemNarrows ==
  ASSUME SchemasInv, CallsDecide, SchemasInv', CallsDecide', schema # NoSchema, schema' = schema,
         NEW call, call # <<"Optional">>, itemCalls' = Append(itemCalls, call),
         slice' = slice, calls' = calls
  PROVE  Accepted(schema', item') \subseteq Accepted(schema, item)
<1>1. SchemaBuilt(schema, calls, slice) /\ ItemBuilt(item, itemCalls)
  BY BothBuilt
<1>2. SchemaBuilt(schema', calls', slice') /\ ItemBuilt(item', itemCalls')
  BY BothBuiltLater
<1>3. IsList(itemCalls)
  BY DEF SchemasInv
<1>4. \A w : ItemPasses(itemCalls', w) => ItemPasses(itemCalls, w)
  <2>1. \A w : /\ MayBeEmpty(itemCalls') => MayBeEmpty(itemCalls)
               /\ Failed("string", itemCalls', {}, w) = {} => Failed("string", itemCalls, {}, w) = {}
    BY <1>3, NarrowsWith
  <2>2. QED
    BY <2>1 DEF ItemPasses
<1>5. SUFFICES ASSUME NEW v \in Values(schema.type), ValidateAll(schema', item', v) = <<>>
               PROVE  ValidateAll(schema, item, v) = <<>>
  BY DEF Accepted
<1>6. /\ Passes(schema.type, calls, slice, v)
      /\ schema.items => \A i \in DOMAIN v : ItemPasses(itemCalls', v[i])
  BY <1>1, <1>2, <1>5, AcceptedAre
<1>7. QED
  BY <1>1, <1>4, <1>6, AcceptedAre

\* How the histories grow: by one call at a time, the type staying as it is.
LEMMA HistoriesGrow ==
  ASSUME SchemasInv, CallsDecide, [SchemasNext]_schemaVars
  PROVE  /\ calls' # calls =>
              /\ schema # NoSchema /\ schema' # NoSchema /\ schema'.type = schema.type
              /\ item' = item /\ itemCalls' = itemCalls
              /\ \E call : calls' = Append(calls, call)
              /\ \A i \in DOMAIN calls, v \in Values(schema.type) :
                   MeetsAs(schema.type, calls[i], v, slice') => MeetsAs(schema.type, calls[i], v, slice)
         /\ itemCalls' # itemCalls =>
              /\ schema # NoSchema /\ schema' = schema /\ slice' = slice /\ calls' = calls
              /\ \E call : itemCalls' = Append(itemCalls, call)
<1>1. CASE UNCHANGED <<calls, itemCalls>>
  BY <1>1
<1>2. ASSUME NEW call, NEW s, Call(call, s)
      PROVE  schema' = s /\ item' = item /\ itemCalls' = itemCalls /\ calls' = Append(calls, call)
  BY <1>2 DEF Call
<1>3. ASSUME Continues(schema', schema) PROVE schema' # NoSchema /\ schema'.type = schema.type
  BY <1>3 DEF Continues, Typed, NoSchema, Schema
<1>4. CASE schema # NoSchema /\ (BuildMarks \/ BuildString \/ BuildInt \/ BuildFloat \/ BuildArray)
  <2>1. slice' = slice
    BY <1>4 DEF BuildMarks, BuildString, BuildInt, BuildFloat, BuildArray
  <2>2. Continues(schema', schema)
    BY <1>4, BuildKeeps
  <2>3. \E call, s : Call(call, s)
    BY <1>4 DEF BuildMarks, BuildString, BuildInt, BuildFloat, BuildArray
  <2>4. QED
    BY <1>2, <1>3, <1>4, <2>1, <2>2, <2>3
<1>5. CASE schema # NoSchema /\ BuildOneOf
  <2>1. Continues(schema', schema)
    BY <1>5, OneOfKeeps
  <2>2. \E call, s : Call(call, s)
    BY <1>5 DEF BuildOneOf
  <2>3. ASSUME NEW i \in DOMAIN calls, NEW v
        PROVE  MeetsAs(schema.type, calls[i], v, slice') => MeetsAs(schema.type, calls[i], v, slice)
    <3>1. calls[i][1] # "OneOf"
      BY <1>5 DEF BuildOneOf
    <3>2. NumberMeets(calls[i], v, slice') <=> NumberMeets(calls[i], v, slice)
      BY <3>1 DEF NumberMeets, NumberAsked, NaNPasses
    <3>3. QED
      BY <3>2 DEF MeetsAs
  <2>4. QED
    BY <1>2, <1>3, <1>5, <2>1, <2>2, <2>3
<1>6. CASE schema # NoSchema /\ BuildItem
  BY <1>6 DEF BuildItem
<1>7. NewSchema \/ Check \/ ChangeSlice => UNCHANGED <<calls, itemCalls>>
  BY DEF NewSchema, Check, ChangeSlice
<1>8. QED
  BY <1>1, <1>4, <1>5, <1>6, <1>7 DEF SchemasNext, schemaVars

\* One more call never lets a value through that was refused, but for Optional.
LEMMA StepNarrows ==
  ASSUME SchemasInv, CallsDecide, [SchemasNext]_schemaVars,
         schema # NoSchema, Demands(calls, calls') \/ Demands(itemCalls, itemCalls')
  PROVE  Accepted(schema', item') \subseteq Accepted(schema, item)
<1>1. SchemasInv' /\ CallsDecide'
  BY SchemasStepKeeps, CallsDecideStep
<1>2. ASSUME NEW cs, IsList(cs), NEW call, NEW more, more = Append(cs, call), Demands(cs, more)
      PROVE  call # <<"Optional">>
  <2>1. Len(more) = Len(cs) + 1
    BY <1>2, AppendLists
  <2>2. more[Len(cs) + 1] = call
    BY <1>2, AppendLists
  <2>3. QED
    BY <1>2, <2>1, <2>2 DEF Demands
<1>3. CASE Demands(calls, calls')
  <2>1. PICK call : calls' = Append(calls, call)
    BY <1>3, HistoriesGrow DEF Demands
  <2>2. call # <<"Optional">>
    BY <1>2, <1>3, <2>1 DEF SchemasInv
  <2>3. /\ schema # NoSchema /\ schema' # NoSchema /\ schema'.type = schema.type
        /\ item' = item /\ itemCalls' = itemCalls
        /\ \A i \in DOMAIN calls, v \in Values(schema.type) :
             MeetsAs(schema.type, calls[i], v, slice') => MeetsAs(schema.type, calls[i], v, slice)
    BY <1>3, HistoriesGrow DEF Demands
  <2>4. QED
    BY <1>1, <2>1, <2>2, <2>3, CallNarrows
<1>4. CASE Demands(itemCalls, itemCalls')
  <2>1. PICK call : itemCalls' = Append(itemCalls, call)
    BY <1>4, HistoriesGrow DEF Demands
  <2>2. call # <<"Optional">>
    BY <1>2, <1>4, <2>1 DEF SchemasInv
  <2>3. schema # NoSchema /\ schema' = schema /\ slice' = slice /\ calls' = calls
    BY <1>4, HistoriesGrow DEF Demands
  <2>4. QED
    BY <1>1, <2>1, <2>2, <2>3, ItemNarrows
<1>5. QED
  BY <1>3, <1>4

\* No call takes an earlier one back, but for Optional.
THEOREM CallsNarrow == ProgramsSpec => CallsOnlyNarrow
<1>1. SchemasInv /\ CallsDecide /\ [ProgramsNext]_programVars =>
        [schema # NoSchema /\ (Demands(calls, calls') \/ Demands(itemCalls, itemCalls'))
           => Accepted(schema', item') \subseteq Accepted(schema, item)]_schemaVars
  BY StepNarrows DEF ProgramsNext, programVars
<1>2. QED
  BY <1>1, SchemasInvariant, CallsDecideAlways, PTL DEF ProgramsSpec, CallsOnlyNarrow

-----------------------------------------------------------------------------
\* Of any program: types, the connections of the pool, and rules that accept
\* values of their schema's type only.
THEOREM ProgramsTypeCorrect == ProgramsSpec => []ProgramsTypeOK
<1>1. ServiceTypeOK /\ SchemasInv => ProgramsTypeOK
  BY DEF SchemasInv, ProgramsTypeOK
<1>2. QED
  BY <1>1, ProcessIsService, ServiceTypeCorrect, SchemasInvariant, PTL

\* A schema for strings depends on what it was given when it was built: no later
\* step changes one of its rules, since OneOf copies its words.
THEOREM StringRulesKept == ProgramsSpec => RulesAreKept
<1>1. SchemasInv /\ [ProgramsNext]_programVars =>
        [schema # NoSchema /\ schema.type = "string" =>
           \A i \in DOMAIN schema.rules : schema'.rules[i] = schema.rules[i]]_schemaVars
  BY SchemasStepKeeps DEF ProgramsNext, programVars
<1>2. QED
  BY <1>1, SchemasInvariant, PTL DEF ProgramsSpec, RulesAreKept

\* What is proved of services and tokens, for the specification that is checked:
\* exits are orderly, Load refuses exactly the unfit, what serves is backed, bans
\* reach the gateway in time and tokens work while fresh.
THEOREM ProgramsAreSafe ==
  ProgramsSpec => [](/\ OrderlyExit /\ RefusalIsComplete /\ ServingIsBacked
                     /\ BanReachesGateway /\ WorksWhileFresh)
BY ProcessIsService, TokensAreAccess, ExitIsOrderly, LoadRefusesTheUnfit, ServingHasItsMeans,
   BansReachTheGateway, TokensWorkWhileFresh, PTL
=============================================================================
