--------------------------- MODULE Service_proofs ---------------------------
(***************************************************************************)
(* ServiceInv is inductive for any environments, keys and finite set of    *)
(* requests, and a pool of any size: where a process can be in its course, *)
(* who holds connections, then one lemma for each action.                  *)
(***************************************************************************)
EXTENDS Service, Config_proofs

\* What a course consists of.
Statements ==
    {"load", "notify", "pool", "connection", "channel", "relay", "key", "listen", "select", "consume"}

\* The statements of each service, one after the other.
LEMMA CourseFacts ==
  ASSUME kind \in Kinds
  PROVE  /\ Course \in Seq(Statements)
         /\ kind = "accounts" => Course = AccountsRun /\ Len(Course) = 9
         /\ kind = "profiles" => Course = ProfilesRun /\ Len(Course) = 5
         /\ kind = "gateway" => Course = GatewayRun /\ Len(Course) = 5
         /\ Len(Course) \in Nat
<1>1. CASE kind = "accounts"
  <2>1. Course = AccountsRun
    BY <1>1 DEF Course
  <2>2. AccountsRun \in Seq(Statements) /\ Len(AccountsRun) = 9
    BY DEF AccountsRun, Statements
  <2>3. QED
    BY <1>1, <2>1, <2>2
<1>2. CASE kind = "profiles"
  <2>1. Course = ProfilesRun
    BY <1>2 DEF Course
  <2>2. ProfilesRun \in Seq(Statements) /\ Len(ProfilesRun) = 5
    BY DEF ProfilesRun, Statements
  <2>3. QED
    BY <1>2, <2>1, <2>2
<1>3. CASE kind = "gateway"
  <2>1. Course = GatewayRun
    BY <1>3 DEF Course
  <2>2. GatewayRun \in Seq(Statements) /\ Len(GatewayRun) = 5
    BY DEF GatewayRun, Statements
  <2>3. QED
    BY <1>3, <2>1, <2>2
<1>4. QED
  BY <1>1, <1>2, <1>3 DEF Kinds

\* What is in a sequence, and in it from a position on.
Entries(s) == {s[j] : j \in DOMAIN s}

From(s, i) == {s[j] : j \in i..Len(s)}

\* The rest of a course, from any position on.
LEMMA SuffixFacts ==
  ASSUME NEW s \in Seq(Statements), NEW i \in 1..Len(s), NEW t, t = SubSeq(s, i, Len(s))
  PROVE  /\ t \in Seq(Statements) /\ t # <<>> /\ Head(t) = s[i]
         /\ Entries(t) = From(s, i)
         /\ i < Len(s) => Tail(t) = SubSeq(s, i + 1, Len(s))
<1>1. /\ Len(s) \in Nat /\ i \in Int /\ i <= Len(s) /\ 1 <= i
      /\ \A j \in i..Len(s) : s[j] \in Statements
  OBVIOUS
<1>2. /\ SubSeq(s, i, Len(s)) \in Seq(Statements)
      /\ Len(SubSeq(s, i, Len(s))) = IF i <= Len(s) THEN Len(s) - i + 1 ELSE 0
      /\ \A j \in 1..Len(s) - i + 1 : SubSeq(s, i, Len(s))[j] = s[i + j - 1]
  BY <1>1, SubSeqProperties
<1>3. Head(t) = s[i] /\ Tail(t) = SubSeq(s, i + 1, Len(s))
  <2>1. Len(s) \in i..Len(s)
    BY <1>1
  <2>2. QED
    BY <2>1, HeadTailOfSubSeq
<1>4. t \in Seq(Statements) /\ Len(t) = Len(s) - i + 1
  BY <1>1, <1>2
<1>5. DOMAIN t = 1..Len(s) - i + 1
  BY <1>1, <1>4
<1>10. t # <<>>
  <2>1. Len(t) # 0
    BY <1>1, <1>4
  <2>2. t = <<>> => Len(t) = 0
    BY EmptySeq
  <2>3. QED
    BY <2>1, <2>2
<1>6. \A k \in i..Len(s) : \E j \in DOMAIN t : t[j] = s[k]
  <2>1. \A k \in i..Len(s) : k - i + 1 \in 1..Len(s) - i + 1 /\ t[k - i + 1] = s[k]
    BY <1>1, <1>2
  <2>2. QED
    BY <1>5, <2>1
<1>7. \A j \in DOMAIN t : \E k \in i..Len(s) : t[j] = s[k]
  <2>1. \A j \in 1..Len(s) - i + 1 : i + j - 1 \in i..Len(s) /\ t[j] = s[i + j - 1]
    BY <1>1, <1>2
  <2>2. QED
    BY <1>5, <2>1
<1>8. Entries(t) = From(s, i)
  <2>1. \A x \in Entries(t) : x \in From(s, i)
    BY <1>7 DEF Entries, From
  <2>2. \A x \in From(s, i) : x \in Entries(t)
    BY <1>6 DEF Entries, From
  <2>3. QED
    BY <2>1, <2>2
<1>9. QED
  BY <1>3, <1>4, <1>8, <1>10

\* Where the process is in its course.
LEMMA Position ==
  ASSUME kind \in Kinds, RunsItsCourse, todo \notin {<<"drain">>, <<"return">>, <<"exited">>}
  PROVE  \E i \in 1..Len(Course) :
           /\ todo = SubSeq(Course, i, Len(Course))
           /\ todo # <<>> /\ Head(todo) = Course[i] /\ Course[i] \in Statements
           /\ Ahead = From(Course, i)
           /\ i < Len(Course) => Tail(todo) = SubSeq(Course, i + 1, Len(Course))
<1>1. PICK i \in 1..Len(Course) : todo = SubSeq(Course, i, Len(Course))
  BY ServiceAssumption DEF ServiceAssumption, RunsItsCourse
<1>2. Course \in Seq(Statements)
  BY CourseFacts
<1>3. Course[i] \in Statements
  BY <1>2
<1>4. /\ todo # <<>> /\ Head(todo) = Course[i] /\ Entries(todo) = From(Course, i)
      /\ i < Len(Course) => Tail(todo) = SubSeq(Course, i + 1, Len(Course))
  BY <1>1, <1>2, SuffixFacts
<1>5. QED
  BY <1>1, <1>3, <1>4 DEF Ahead, Entries

\* The three statements that a course does not have, and where it stops for one.
LEMMA Singles ==
  ASSUME todo \in {<<"drain">>, <<"return">>, <<"exited">>}
  PROVE  /\ todo = <<"drain">> => At("drain") /\ ~Over
         /\ todo = <<"return">> => At("return") /\ Over
         /\ todo = <<"exited">> => At("exited") /\ Over
         /\ \A s \in Statements : ~At(s) /\ s \notin Ahead
BY DEF At, Over, Ahead, Statements

\* A statement of the course that is not the last is followed by the next one.
LEMMA Proceeds ==
  ASSUME kind \in Kinds, RunsItsCourse, NEW s, At(s),
         s \in Statements \ {"select", "consume"}, kind' = kind, todo' = Tail(todo)
  PROVE  /\ \E i \in 1..Len(Course) : todo' = SubSeq(Course, i, Len(Course))
         /\ Course' = Course
         /\ ~Over /\ ~Over' /\ ~At("drain")' /\ ~At("drain")
         /\ Ahead = Ahead' \cup {s} /\ s \notin Ahead'
         /\ kind = "profiles" \/ "listen" \in Ahead
         /\ s = "listen" => kind # "profiles"
         /\ s = "load" /\ kind # "profiles" => "key" \in Ahead'
<1>1. todo \notin {<<"drain">>, <<"return">>, <<"exited">>}
  BY Singles
<1>2. PICK i \in 1..Len(Course) :
           /\ todo = SubSeq(Course, i, Len(Course))
           /\ todo # <<>> /\ Head(todo) = Course[i] /\ Course[i] \in Statements
           /\ Ahead = From(Course, i)
           /\ i < Len(Course) => Tail(todo) = SubSeq(Course, i + 1, Len(Course))
  BY <1>1, Position
<1>3. Course[i] = s
  BY <1>2 DEF At
<1>4. /\ Course' = Course /\ Course \in Seq(Statements) /\ Len(Course) \in {5, 9}
      /\ i < Len(Course)
      /\ \A j \in i+1..Len(Course) : Course[j] # s
      /\ kind = "profiles" \/ \E j \in i..Len(Course) : Course[j] = "listen"
      /\ s = "listen" => kind # "profiles"
      /\ s = "load" /\ kind # "profiles" => \E j \in i+1..Len(Course) : Course[j] = "key"
  <2>1. CASE kind = "accounts"
    BY <2>1, <1>3, CourseFacts DEF Course, AccountsRun
  <2>2. CASE kind = "profiles"
    BY <2>2, <1>3, CourseFacts DEF Course, ProfilesRun
  <2>3. CASE kind = "gateway"
    BY <2>3, <1>3, CourseFacts DEF Course, GatewayRun
  <2>4. QED
    BY <2>1, <2>2, <2>3 DEF Kinds
<1>5. todo' = SubSeq(Course, i + 1, Len(Course)) /\ i + 1 \in 1..Len(Course)
  BY <1>2, <1>4
<1>6. /\ todo' # <<>> /\ Head(todo') = Course[i + 1] /\ Course[i + 1] \in Statements
      /\ Ahead' = From(Course, i + 1)
  <2> DEFINE n == i + 1
  <2>1. n \in 1..Len(Course) /\ todo' = SubSeq(Course, n, Len(Course)) /\ Course \in Seq(Statements)
    BY <1>4, <1>5
  <2> HIDE DEF n
  <2>2. todo' # <<>> /\ Head(todo') = Course[n] /\ Entries(todo') = From(Course, n)
    BY <2>1, SuffixFacts
  <2>3. Ahead' = Entries(todo')
    BY DEF Ahead, Entries
  <2>4. Course[n] \in Statements
    BY <2>1
  <2>5. QED
    BY <2>2, <2>3, <2>4 DEF n
<1>7. ~Over /\ ~Over' /\ ~At("drain")' /\ ~At("drain")
  BY <1>2, <1>6 DEF Over, At, Statements
<1>8. Ahead = Ahead' \cup {s} /\ s \notin Ahead'
  BY <1>2, <1>3, <1>4, <1>6 DEF From
<1>9. kind = "profiles" \/ "listen" \in Ahead
  BY <1>2, <1>4 DEF From
<1>10. s = "load" /\ kind # "profiles" => "key" \in Ahead'
  BY <1>4, <1>6 DEF From
<1>11. QED
  BY <1>4, <1>5, <1>7, <1>8, <1>9, <1>10

\* The last statement of a course waits.
LEMMA Waits ==
  ASSUME kind \in Kinds, RunsItsCourse, NEW s \in {"select", "consume"}, At(s)
  PROVE  /\ Ahead = {s} /\ ~Over /\ ~At("drain")
         /\ s = "consume" <=> kind = "profiles"
<1>1. todo \notin {<<"drain">>, <<"return">>, <<"exited">>}
  BY Singles DEF Statements
<1>2. PICK i \in 1..Len(Course) :
           /\ todo = SubSeq(Course, i, Len(Course))
           /\ todo # <<>> /\ Head(todo) = Course[i] /\ Course[i] \in Statements
           /\ Ahead = From(Course, i)
  BY <1>1, Position
<1>3. Course[i] = s
  BY <1>2 DEF At
<1>4. i = Len(Course) /\ (s = "consume" <=> kind = "profiles") /\ Len(Course) \in {5, 9}
  <2>1. CASE kind = "accounts"
    BY <2>1, <1>3, CourseFacts DEF Course, AccountsRun
  <2>2. CASE kind = "profiles"
    BY <2>2, <1>3, CourseFacts DEF Course, ProfilesRun
  <2>3. CASE kind = "gateway"
    BY <2>3, <1>3, CourseFacts DEF Course, GatewayRun
  <2>4. QED
    BY <2>1, <2>2, <2>3 DEF Kinds
<1>5. QED
  BY <1>2, <1>3, <1>4 DEF Over, At, From
\* Nothing listens yet while run executes such a statement.
LEMMA BeforeListen ==
  ASSUME kind \in Kinds, RunsItsCourse, NEW s \in Statements \ {"select", "consume"}, At(s)
  PROVE  ~Over /\ ~At("drain") /\ (kind = "profiles" \/ "listen" \in Ahead)
<1>1. todo \notin {<<"drain">>, <<"return">>, <<"exited">>}
  BY Singles
<1>2. PICK i \in 1..Len(Course) :
           todo # <<>> /\ Head(todo) = Course[i] /\ Ahead = From(Course, i)
  BY <1>1, Position
<1>3. Course[i] = s
  BY <1>2 DEF At
<1>4. kind = "profiles" \/ \E j \in i..Len(Course) : Course[j] = "listen"
  <2>1. CASE kind = "accounts"
    BY <2>1, <1>3, CourseFacts DEF Course, AccountsRun
  <2>2. CASE kind = "gateway"
    BY <2>2, <1>3, CourseFacts DEF Course, GatewayRun
  <2>3. QED
    BY <2>1, <2>2 DEF Kinds
<1>5. QED
  BY <1>2, <1>3, <1>4 DEF Over, At, From, Statements

\* In the accounts service the pool is opened before anything listens.
LEMMA PoolThenListen ==
  ASSUME kind = "accounts", RunsItsCourse, "pool" \in Ahead
  PROVE  "listen" \in Ahead
<1>1. kind \in Kinds /\ todo \notin {<<"drain">>, <<"return">>, <<"exited">>}
  BY Singles DEF Kinds, Statements
<1>2. PICK i \in 1..Len(Course) : Ahead = From(Course, i)
  BY <1>1, Position
<1>3. Course = AccountsRun /\ Len(Course) = 9
  BY <1>1, CourseFacts
<1>4. QED
  BY <1>2, <1>3 DEF From, AccountsRun

\* A service that serves, once it listens, has only its select before it.
LEMMA PastListen ==
  ASSUME kind \in {"accounts", "gateway"}, RunsItsCourse, "listen" \notin Ahead,
         ~At("drain"), ~Over
  PROVE  Ahead = {"select"}
<1>1. kind \in Kinds /\ todo \notin {<<"drain">>, <<"return">>, <<"exited">>}
  BY Singles DEF Kinds
<1>2. PICK i \in 1..Len(Course) : Ahead = From(Course, i)
  BY <1>1, Position
<1>3. CASE kind = "accounts"
  <2>1. Course = AccountsRun /\ Len(Course) = 9
    BY <1>1, <1>3, CourseFacts
  <2>2. QED
    BY <1>2, <2>1 DEF From, AccountsRun
<1>4. CASE kind = "gateway"
  <2>1. Course = GatewayRun /\ Len(Course) = 5
    BY <1>1, <1>4, CourseFacts
  <2>2. QED
    BY <1>2, <2>1 DEF From, GatewayRun
<1>5. QED
  BY <1>3, <1>4

\* Once run has returned nothing of its course is left.
LEMMA Returned ==
  ASSUME NEW result, Return(result)
  PROVE  /\ todo' = <<"return">> /\ status' = result
         /\ Over' /\ ~Exited' /\ ~At("drain")' /\ Ahead' = {"return"}
BY DEF Return, Over, Exited, At, Ahead

\* A process that has a statement to execute was started.
LEMMA Started ==
  ASSUME ServiceInv, NEW s, At(s)
  PROVE  kind \in Kinds /\ kind # NoKind
<1>1. todo # <<>>
  BY DEF At
<1>2. QED
  BY <1>1, ServiceAssumption DEF ServiceInv, RunsItsCourse, ServiceTypeOK, ServiceAssumption

\* The calls that run has deferred: one more, and the last one less.
Calls == {"stop", "pool", "connection", "channel"}

\* A call that is deferred joins those that were.
LEMMA DeferMore ==
  ASSUME deferred \in Seq(Calls), NEW call \in Calls, Defer(call)
  PROVE  deferred' \in Seq(Calls) /\ Deferred' = Deferred \cup {call}
<1>1. deferred' = Append(deferred, call) /\ Len(deferred) \in Nat
  BY DEF Defer
<1>2. /\ deferred' \in Seq(Calls) /\ Len(deferred') = Len(deferred) + 1
      /\ \A i \in 1..Len(deferred) : deferred'[i] = deferred[i]
      /\ deferred'[Len(deferred) + 1] = call
  BY <1>1, AppendProperties
<1>3. DOMAIN deferred = 1..Len(deferred) /\ DOMAIN deferred' = 1..Len(deferred) + 1
  BY <1>1, <1>2
<1>4. \A x \in Deferred' : x \in Deferred \cup {call}
  BY <1>1, <1>2, <1>3 DEF Deferred
<1>5. \A x \in Deferred : x \in Deferred'
  BY <1>1, <1>2, <1>3 DEF Deferred
<1>6. call \in Deferred'
  BY <1>1, <1>2, <1>3 DEF Deferred
<1>7. QED
  BY <1>2, <1>4, <1>5, <1>6

\* The last call leaves the others.
LEMMA DeferLess ==
  ASSUME deferred \in Seq(Calls), deferred # <<>>,
         deferred' = SubSeq(deferred, 1, Len(deferred) - 1)
  PROVE  /\ deferred' \in Seq(Calls) /\ deferred[Len(deferred)] \in Calls
         /\ Deferred \subseteq Deferred' \cup {deferred[Len(deferred)]}
<1>1. /\ Len(deferred) \in Nat \ {0} /\ DOMAIN deferred = 1..Len(deferred)
      /\ \A i \in 1..Len(deferred) : deferred[i] \in Calls
  BY EmptySeq
<1>2. /\ SubSeq(deferred, 1, Len(deferred) - 1) \in Seq(Calls)
      /\ Len(SubSeq(deferred, 1, Len(deferred) - 1)) =
           IF 1 <= Len(deferred) - 1 THEN (Len(deferred) - 1) - 1 + 1 ELSE 0
      /\ \A i \in 1..(Len(deferred) - 1) - 1 + 1 :
           SubSeq(deferred, 1, Len(deferred) - 1)[i] = deferred[1 + i - 1]
  BY <1>1, SubSeqProperties
<1>3. /\ deferred' \in Seq(Calls) /\ Len(deferred') = Len(deferred) - 1
      /\ \A i \in 1..Len(deferred) - 1 : deferred'[i] = deferred[i]
  BY <1>1, <1>2
<1>4. DOMAIN deferred' = 1..Len(deferred) - 1
  BY <1>1, <1>3
<1>5. \A i \in 1..Len(deferred) : i = Len(deferred) \/ i \in 1..Len(deferred) - 1
  <2>1. \A n \in Nat : \A i \in 1..n : i = n \/ i \in 1..n - 1
    OBVIOUS
  <2>2. QED
    BY <1>1, <2>1
<1>6. \A x \in Deferred : x \in Deferred' \cup {deferred[Len(deferred)]}
  BY <1>1, <1>3, <1>4, <1>5 DEF Deferred
<1>7. QED
  BY <1>1, <1>3, <1>6

\* Requests with one connection and with two are some of the finitely many; with
\* the relay they are counted.
LEMMA HeldFacts ==
  /\ IsFiniteSet(Holders) /\ Cardinality(Holders) \in Nat
  /\ IsFiniteSet(Twice) /\ Cardinality(Twice) \in Nat
  /\ Held = Cardinality(Holders) + Cardinality(Twice) + (IF RelayHolds THEN 1 ELSE 0)
  /\ Held \in Nat
<1>1. IsFiniteSet(Holders) /\ IsFiniteSet(Twice)
  <2>1. Holders \in SUBSET HTTPRequest /\ Twice \in SUBSET HTTPRequest
    BY DEF Holders, Twice
  <2>2. QED
    BY <2>1, ServiceAssumption, FS_Subset DEF ServiceAssumption
<1>2. Cardinality(Holders) \in Nat /\ Cardinality(Twice) \in Nat
  BY <1>1, FS_CardinalityType
<1>3. Held = Cardinality(Holders) + Cardinality(Twice) + (IF RelayHolds THEN 1 ELSE 0)
  BY DEF Held
<1>4. QED
  BY <1>1, <1>2, <1>3

\* No more connections are out when no request and no relay takes one.
LEMMA HeldNotMore ==
  ASSUME Holders' \subseteq Holders, Twice' \subseteq Twice, RelayHolds' => RelayHolds
  PROVE  Held' <= Held /\ Held' \in Nat
<1>1. /\ Cardinality(Holders') <= Cardinality(Holders)
      /\ Cardinality(Holders') \in Nat
  <2>1. Holders' \in SUBSET Holders
    OBVIOUS
  <2>2. IsFiniteSet(Holders') /\ Cardinality(Holders') <= Cardinality(Holders)
    BY <2>1, HeldFacts, FS_Subset
  <2>3. QED
    BY <2>2, FS_CardinalityType
<1>2. /\ Cardinality(Twice') <= Cardinality(Twice)
      /\ Cardinality(Twice') \in Nat
  <2>1. Twice' \in SUBSET Twice
    OBVIOUS
  <2>2. IsFiniteSet(Twice') /\ Cardinality(Twice') <= Cardinality(Twice)
    BY <2>1, HeldFacts, FS_Subset
  <2>3. QED
    BY <2>2, FS_CardinalityType
<1>3. Held' = Cardinality(Holders') + Cardinality(Twice') + (IF RelayHolds' THEN 1 ELSE 0)
  BY DEF Held
<1>4. QED
  BY <1>1, <1>2, <1>3, HeldFacts

\* Those that are out stay so when requests and relay do not move.
LEMMA HeldStays ==
  ASSUME request' = request, relay' = relay, Held <= MaxConns
  PROVE  Held' <= MaxConns /\ (RelayHolds' <=> RelayHolds)
BY DEF Held, Holders, Twice, RelayHolds

\* The deferred calls and the parts that are open have the types that lemmas on
\* them need.
LEMMA TypesOfParts ==
  ASSUME ServiceTypeOK
  PROVE  deferred \in Seq(Calls) /\ open \subseteq {"pool", "connection", "channel"}
BY DEF ServiceTypeOK, Calls

\* A statement that succeeds leaves what the other parts rely on.
LEMMA StatementDone ==
  ASSUME ServiceInv, NEW s \in Statements \ {"select", "consume"}, At(s), Proceed,
         kind' = kind, listener' = listener, request' = request, late' = late
  PROVE  /\ RunsItsCourse' /\ ListenerFollowsRun' /\ EndIsReported' /\ OrderlyExit'
         /\ kind \in Kinds /\ kind # NoKind /\ ~Over /\ ~Over'
         /\ Ahead = Ahead' \cup {s} /\ s \notin Ahead'
         /\ status' = status
<1>1. kind \in Kinds /\ kind # NoKind
  BY Started
<1>2. todo' = Tail(todo) /\ status' = status
  BY DEF Proceed
<1>3. /\ \E i \in 1..Len(Course) : todo' = SubSeq(Course, i, Len(Course))
      /\ Course' = Course
      /\ ~Over /\ ~Over' /\ ~At("drain")' /\ ~At("drain")
      /\ Ahead = Ahead' \cup {s} /\ s \notin Ahead'
      /\ kind = "profiles" \/ "listen" \in Ahead
  BY <1>1, <1>2, Proceeds DEF ServiceInv
<1>4. RunsItsCourse'
  <2>1. kind' # NoKind
    BY <1>1
  <2>2. \E i \in 1..Len(Course') : todo' = SubSeq(Course', i, Len(Course'))
    BY <1>3
  <2>3. QED
    BY <2>1, <2>2 DEF RunsItsCourse
<1>5. ListenerFollowsRun'
  BY <1>3 DEF ServiceInv, ListenerFollowsRun
<1>6. status = "none"
  BY <1>3 DEF ServiceInv, EndIsReported
<1>7. EndIsReported'
  BY <1>2, <1>3, <1>6 DEF EndIsReported
<1>8. OrderlyExit'
  <2>1. \A r \in HTTPRequest : request[r] \notin {"failed", "cut"}
    BY <1>6 DEF ServiceInv, OrderlyExit
  <2>2. ~Exited'
    BY <1>3 DEF Over, Exited
  <2>3. QED
    BY <2>1, <2>2 DEF OrderlyExit
<1>9. QED
  BY <1>1, <1>2, <1>3, <1>4, <1>5, <1>7, <1>8

\* A statement that fails leaves no handler behind: none was let in yet.
LEMMA StatementFails ==
  ASSUME ServiceInv, NEW s \in Statements \ {"select", "consume"}, At(s),
         NEW result \in {"ok", "error"}, Return(result),
         kind' = kind, listener' = listener, request' = request
  PROVE  /\ RunsItsCourse' /\ ListenerFollowsRun' /\ WorkStands' /\ EndIsReported'
         /\ OrderlyExit' /\ status' \in {"none", "ok", "error"}
<1>1. kind \in Kinds /\ kind # NoKind
  BY Started
<1>2. /\ todo' = <<"return">> /\ status' = result
      /\ Over' /\ ~Exited' /\ ~At("drain")' /\ Ahead' = {"return"}
  BY Returned
<1>3. ~Over /\ ~At("drain") /\ (kind = "profiles" \/ "listen" \in Ahead)
  BY <1>1, BeforeListen DEF ServiceInv
<1>4. listener = "off" /\ \A r \in HTTPRequest : request[r] = "none"
  BY <1>3 DEF ServiceInv, ListenerFollowsRun
<1>5. Active' = {}
  BY <1>4 DEF Active
<1>6. RunsItsCourse'
  BY <1>1, <1>2 DEF RunsItsCourse
<1>7. ListenerFollowsRun'
  BY <1>2, <1>4 DEF ListenerFollowsRun
<1>8. WorkStands' /\ EndIsReported'
  BY <1>2, <1>5 DEF WorkStands, EndIsReported
<1>9. OrderlyExit'
  BY <1>2, <1>4 DEF OrderlyExit
<1>10. QED
  BY <1>2, <1>6, <1>7, <1>8, <1>9

\* The process starts: all of its course is ahead.
LEMMA StartKeeps ==
  ASSUME ServiceInv, StartProcess
  PROVE  ServiceInv'
<1>1. /\ kind = NoKind /\ kind' \in Kinds /\ kind' # NoKind
      /\ todo = <<>>
      /\ deferred' = deferred /\ open' = open /\ cancelled' = cancelled /\ relay' = relay
      /\ listener' = listener /\ request' = request /\ late' = late /\ status' = status
  BY ServiceAssumption DEF ServiceInv, RunsItsCourse, StartProcess, ServiceAssumption
<1>2. todo' = Course' /\ Course' \in Seq(Statements) /\ Len(Course') \in {5, 9}
  <2>1. todo' = Course'
    BY <1>1 DEF StartProcess, Course
  <2>2. CASE kind' = "accounts"
    BY <2>1, <2>2 DEF Course, AccountsRun, Statements
  <2>3. CASE kind' = "profiles"
    BY <2>1, <2>3 DEF Course, ProfilesRun, Statements
  <2>4. CASE kind' = "gateway"
    BY <2>1, <2>4 DEF Course, GatewayRun, Statements
  <2>5. QED
    BY <1>1, <2>1, <2>2, <2>3, <2>4 DEF Kinds
<1>3. todo' = SubSeq(Course', 1, Len(Course'))
  BY <1>2, SubSeqFull
<1>4. RunsItsCourse'
  <2>1. 1 \in 1..Len(Course')
    BY <1>2
  <2>2. QED
    BY <1>1, <1>3, <2>1 DEF RunsItsCourse
<1>5. /\ todo' # <<>> /\ Head(todo') \in Statements
      /\ kind' # "profiles" => {"listen", "key"} \subseteq Ahead'
      /\ kind' = "accounts" => {"pool", "connection", "channel", "relay"} \subseteq Ahead'
  <2>1. CASE kind' = "accounts"
    BY <1>2, <2>1 DEF Course, AccountsRun, Statements, Ahead
  <2>2. CASE kind' = "profiles"
    BY <1>2, <2>2 DEF Course, ProfilesRun, Statements, Ahead
  <2>3. CASE kind' = "gateway"
    BY <1>2, <2>3 DEF Course, GatewayRun, Statements, Ahead
  <2>4. QED
    BY <1>1, <2>1, <2>2, <2>3 DEF Kinds
<1>6. ~Over' /\ ~At("drain")' /\ ~Over /\ ~Exited'
  BY <1>1, <1>5 DEF Over, At, Exited, Statements
<1>7. listener = "off" /\ status = "none" /\ \A r \in HTTPRequest : request[r] = "none"
  BY <1>1, <1>6 DEF ServiceInv, ListenerFollowsRun, EndIsReported
<1>8. ServiceTypeOK'
  BY <1>1, HeldStays DEF ServiceInv, ServiceTypeOK
<1>9. ListenerFollowsRun' /\ WorkStands' /\ EndIsReported'
  BY <1>1, <1>5, <1>6, <1>7 DEF ListenerFollowsRun, WorkStands, EndIsReported
<1>10. PoolClosesLast'
  BY <1>1 DEF ServiceInv, PoolClosesLast, RelayHolds, Deferred
<1>11. OrderlyExit'
  BY <1>1, <1>6, <1>7 DEF OrderlyExit
<1>12. QED
  BY <1>4, <1>8, <1>9, <1>10, <1>11 DEF ServiceInv

\* Whatever Load makes of the settings.
LEMMA LoadKeeps ==
  ASSUME ServiceInv, Load
  PROVE  ServiceInv'
<1>1. /\ At("load") /\ "load" \in Statements \ {"select", "consume"}
      /\ kind' = kind /\ deferred' = deferred /\ open' = open /\ cancelled' = cancelled
      /\ relay' = relay /\ listener' = listener /\ request' = request /\ late' = late
  BY DEF Load, Statements
<1>2. PoolClosesLast'
  BY <1>1 DEF ServiceInv, PoolClosesLast, RelayHolds, Deferred
<1>3. CASE Return("error")
  <2>1. /\ RunsItsCourse' /\ ListenerFollowsRun' /\ WorkStands' /\ EndIsReported'
        /\ OrderlyExit' /\ status' \in {"none", "ok", "error"}
    BY <1>1, <1>3, StatementFails
  <2>2. ServiceTypeOK'
    BY <1>1, <2>1, HeldStays DEF ServiceInv, ServiceTypeOK
  <2>3. QED
    BY <1>2, <2>1, <2>2 DEF ServiceInv
<1>4. CASE Proceed
  <2>1. /\ RunsItsCourse' /\ ListenerFollowsRun' /\ EndIsReported' /\ OrderlyExit'
        /\ kind \in Kinds /\ kind # NoKind /\ ~Over
        /\ Ahead = Ahead' \cup {"load"}
        /\ status' = status
    BY <1>1, <1>4, StatementDone
  <2>2. kind # "profiles" => "key" \in Ahead'
    BY <1>1, <1>4, <2>1, Proceeds DEF Proceed, ServiceInv
  <2>3. ServiceTypeOK'
    BY <1>1, <2>1, HeldStays DEF ServiceInv, ServiceTypeOK
  <2>4. WorkStands'
    BY <1>1, <2>1, <2>2 DEF ServiceInv, WorkStands
  <2>5. QED
    BY <1>2, <2>1, <2>3, <2>4 DEF ServiceInv
<1>5. QED
  BY <1>3, <1>4 DEF Load

\* Notify defers stop and opens nothing.
LEMMA NotifyKeeps ==
  ASSUME ServiceInv, Notify
  PROVE  ServiceInv'
<1>1. /\ At("notify") /\ "notify" \in Statements \ {"select", "consume"} /\ Proceed
      /\ kind' = kind /\ cfg' = cfg /\ open' = open /\ cancelled' = cancelled
      /\ relay' = relay /\ listener' = listener /\ request' = request /\ late' = late
      /\ Defer("stop") /\ "stop" \in Calls
  BY DEF Notify, Statements, Calls
<1>2. /\ RunsItsCourse' /\ ListenerFollowsRun' /\ EndIsReported' /\ OrderlyExit'
      /\ kind \in Kinds /\ kind # NoKind /\ ~Over
      /\ Ahead = Ahead' \cup {"notify"}
      /\ status' = status
  BY <1>1, StatementDone
<1>3. deferred' \in Seq(Calls) /\ Deferred' = Deferred \cup {"stop"}
  BY <1>1, TypesOfParts, DeferMore DEF ServiceInv
<1>4. ServiceTypeOK'
  BY <1>1, <1>2, <1>3, HeldStays DEF ServiceInv, ServiceTypeOK, Calls
<1>5. WorkStands'
  BY <1>1, <1>2 DEF ServiceInv, WorkStands
<1>6. PoolClosesLast'
  BY <1>1, <1>3 DEF ServiceInv, PoolClosesLast, RelayHolds
<1>7. QED
  BY <1>2, <1>4, <1>5, <1>6 DEF ServiceInv

\* What is opened is deferred to be closed, even when the ping fails.
LEMMA OpenKeeps ==
  ASSUME ServiceInv, OpenPool \/ OpenBroker("connection") \/ OpenBroker("channel")
  PROVE  ServiceInv'
<1>1. PICK part \in {"pool", "connection", "channel"} :
        /\ At(part)
        /\ kind' = kind /\ cfg' = cfg /\ cancelled' = cancelled
        /\ relay' = relay /\ listener' = listener /\ request' = request /\ late' = late
        /\ \/ Proceed /\ Defer(part) /\ open' = open \cup {part}
           \/ Return("error") /\ Defer(part) /\ open' = open \cup {part}
           \/ Return("error") /\ deferred' = deferred /\ open' = open
  BY DEF OpenPool, OpenBroker
<1>2. part \in Statements \ {"select", "consume"} /\ part \in Calls
  BY DEF Statements, Calls
<1>3. /\ deferred' \in Seq(Calls) /\ Deferred \subseteq Deferred'
      /\ open' \in {open, open \cup {part}} /\ part \in open' => part \in Deferred' \cup open
  <2>1. CASE Defer(part)
    BY <1>1, <1>2, <2>1, TypesOfParts, DeferMore DEF ServiceInv
  <2>2. CASE deferred' = deferred /\ open' = open
    BY <2>2, TypesOfParts DEF ServiceInv, Deferred
  <2>3. QED
    BY <1>1, <2>1, <2>2
<1>4. PoolClosesLast'
  BY <1>1, <1>3 DEF ServiceInv, PoolClosesLast, RelayHolds
<1>5. CASE Return("error")
  <2>1. /\ RunsItsCourse' /\ ListenerFollowsRun' /\ WorkStands' /\ EndIsReported'
        /\ OrderlyExit' /\ status' \in {"none", "ok", "error"}
    BY <1>1, <1>2, <1>5, StatementFails
  <2>2. ServiceTypeOK'
    BY <1>1, <1>3, <2>1, HeldStays DEF ServiceInv, ServiceTypeOK, Calls
  <2>3. QED
    BY <1>4, <2>1, <2>2 DEF ServiceInv
<1>6. CASE Proceed /\ open' = open \cup {part}
  <2>1. /\ RunsItsCourse' /\ ListenerFollowsRun' /\ EndIsReported' /\ OrderlyExit'
        /\ kind \in Kinds /\ kind # NoKind /\ ~Over
        /\ Ahead = Ahead' \cup {part}
        /\ status' = status
    BY <1>1, <1>2, <1>6, StatementDone
  <2>2. ServiceTypeOK'
    BY <1>1, <1>3, <2>1, HeldStays DEF ServiceInv, ServiceTypeOK, Calls
  <2>3. WorkStands'
    BY <1>1, <1>6, <2>1 DEF ServiceInv, WorkStands
  <2>4. QED
    BY <1>4, <2>1, <2>2, <2>3 DEF ServiceInv
<1>7. QED
  BY <1>1, <1>5, <1>6

\* The relay begins between two passes and holds nothing.
LEMMA StartRelayKeeps ==
  ASSUME ServiceInv, StartRelay
  PROVE  ServiceInv'
<1>1. /\ At("relay") /\ "relay" \in Statements \ {"select", "consume"} /\ Proceed
      /\ kind' = kind /\ cfg' = cfg /\ deferred' = deferred /\ open' = open
      /\ cancelled' = cancelled /\ relay' = "between" /\ listener' = listener
      /\ request' = request /\ late' = late
  BY DEF StartRelay, Statements
<1>2. /\ RunsItsCourse' /\ ListenerFollowsRun' /\ EndIsReported' /\ OrderlyExit'
      /\ kind \in Kinds /\ kind # NoKind /\ ~Over
      /\ Ahead = Ahead' \cup {"relay"}
      /\ status' = status
  BY <1>1, StatementDone
<1>3. ServiceTypeOK'
  <2>1. Holders' \subseteq Holders /\ Twice' \subseteq Twice /\ ~RelayHolds'
    BY <1>1 DEF Holders, Twice, RelayHolds
  <2>2. Held' <= MaxConns
    BY <2>1, HeldNotMore, HeldFacts, ServiceAssumption DEF ServiceInv, ServiceTypeOK, ServiceAssumption
  <2>3. QED
    BY <1>1, <1>2, <2>2 DEF ServiceInv, ServiceTypeOK
<1>4. WorkStands'
  BY <1>1, <1>2 DEF ServiceInv, WorkStands
<1>5. PoolClosesLast'
  BY <1>1 DEF ServiceInv, PoolClosesLast, RelayHolds, Deferred
<1>6. QED
  BY <1>2, <1>3, <1>4, <1>5 DEF ServiceInv

\* A key that does not parse ends run; one that does stays in use.
LEMMA ParseKeyKeeps ==
  ASSUME ServiceInv, ParseKey
  PROVE  ServiceInv'
<1>1. /\ At("key") /\ "key" \in Statements \ {"select", "consume"}
      /\ kind' = kind /\ cfg' = cfg /\ deferred' = deferred /\ open' = open
      /\ cancelled' = cancelled /\ relay' = relay /\ listener' = listener
      /\ request' = request /\ late' = late
      /\ \/ cfg.key \in GoodKey /\ Proceed
         \/ Return("error")
  BY DEF ParseKey, Statements
<1>2. PoolClosesLast'
  BY <1>1 DEF ServiceInv, PoolClosesLast, RelayHolds, Deferred
<1>3. CASE Return("error")
  <2>1. /\ RunsItsCourse' /\ ListenerFollowsRun' /\ WorkStands' /\ EndIsReported'
        /\ OrderlyExit' /\ status' \in {"none", "ok", "error"}
    BY <1>1, <1>3, StatementFails
  <2>2. ServiceTypeOK'
    BY <1>1, <2>1, HeldStays DEF ServiceInv, ServiceTypeOK
  <2>3. QED
    BY <1>2, <2>1, <2>2 DEF ServiceInv
<1>4. CASE cfg.key \in GoodKey /\ Proceed
  <2>1. /\ RunsItsCourse' /\ ListenerFollowsRun' /\ EndIsReported' /\ OrderlyExit'
        /\ kind \in Kinds /\ kind # NoKind /\ ~Over
        /\ Ahead = Ahead' \cup {"key"}
        /\ status' = status
    BY <1>1, <1>4, StatementDone
  <2>2. ServiceTypeOK'
    BY <1>1, <2>1, HeldStays DEF ServiceInv, ServiceTypeOK
  <2>3. WorkStands'
    BY <1>1, <1>4, <2>1 DEF ServiceInv, WorkStands
  <2>4. QED
    BY <1>2, <2>1, <2>2, <2>3 DEF ServiceInv
<1>5. QED
  BY <1>1, <1>3, <1>4

\* Only the services that serve come to listen, and they do so once.
LEMMA ListenKeeps ==
  ASSUME ServiceInv, Listen
  PROVE  ServiceInv'
<1>1. /\ At("listen") /\ "listen" \in Statements \ {"select", "consume"}
      /\ todo' = Tail(todo) /\ status' = status
      /\ kind' = kind /\ cfg' = cfg /\ deferred' = deferred /\ open' = open
      /\ cancelled' = cancelled /\ relay' = relay /\ listener' = "starting"
      /\ request' = request /\ late' = late
  BY DEF Listen, Proceed, Statements
<1>2. kind \in Kinds /\ kind # NoKind
  BY <1>1, Started
<1>3. /\ \E i \in 1..Len(Course) : todo' = SubSeq(Course, i, Len(Course))
      /\ Course' = Course
      /\ ~Over /\ ~Over' /\ ~At("drain")'
      /\ Ahead = Ahead' \cup {"listen"} /\ "listen" \notin Ahead'
      /\ kind # "profiles"
  BY <1>1, <1>2, Proceeds DEF ServiceInv
<1>4. RunsItsCourse'
  <2>1. \E i \in 1..Len(Course') : todo' = SubSeq(Course', i, Len(Course'))
    BY <1>3
  <2>2. QED
    BY <1>1, <1>2, <2>1 DEF RunsItsCourse
<1>5. ListenerFollowsRun'
  BY <1>1, <1>2, <1>3 DEF ListenerFollowsRun
<1>6. status = "none" /\ EndIsReported'
  BY <1>1, <1>3 DEF ServiceInv, EndIsReported
<1>7. OrderlyExit'
  <2>1. \A r \in HTTPRequest : request[r] \notin {"failed", "cut"}
    BY <1>6 DEF ServiceInv, OrderlyExit
  <2>2. ~Exited'
    BY <1>3 DEF Over, Exited
  <2>3. QED
    BY <1>1, <2>1, <2>2 DEF OrderlyExit
<1>8. ServiceTypeOK'
  BY <1>1, HeldStays DEF ServiceInv, ServiceTypeOK
<1>9. WorkStands'
  BY <1>1, <1>3 DEF ServiceInv, WorkStands
<1>10. PoolClosesLast'
  BY <1>1 DEF ServiceInv, PoolClosesLast, RelayHolds, Deferred
<1>11. QED
  BY <1>4, <1>5, <1>6, <1>7, <1>8, <1>9, <1>10 DEF ServiceInv

\* The server opens or fails, and does neither once Shutdown has begun.
LEMMA ServeKeeps ==
  ASSUME ServiceInv, Serve
  PROVE  ServiceInv'
<1>1. /\ listener \in {"starting", "open"} /\ listener' \in {"open", "failed"}
      /\ kind' = kind /\ cfg' = cfg /\ todo' = todo /\ deferred' = deferred /\ open' = open
      /\ cancelled' = cancelled /\ relay' = relay
      /\ request' = request /\ late' = late /\ status' = status
  BY DEF Serve
<1>2. /\ ~At("drain") /\ ~Over
      /\ kind \notin {NoKind, "profiles"} /\ "listen" \notin Ahead
  BY <1>1 DEF ServiceInv, ListenerFollowsRun
<1>3. /\ Course' = Course /\ Ahead' = Ahead /\ Active' = Active /\ (Over' <=> Over)
      /\ (At("drain")' <=> At("drain")) /\ (Exited' <=> Exited) /\ Deferred' = Deferred
  BY <1>1 DEF Course, Ahead, Active, Over, At, Exited, Deferred
<1>4. RunsItsCourse'
  BY <1>1, <1>3 DEF ServiceInv, RunsItsCourse
<1>5. ListenerFollowsRun' /\ EndIsReported'
  BY <1>1, <1>2, <1>3 DEF ServiceInv, ListenerFollowsRun, EndIsReported
<1>6. ServiceTypeOK'
  BY <1>1, HeldStays DEF ServiceInv, ServiceTypeOK
<1>7. WorkStands'
  BY <1>1, <1>3 DEF ServiceInv, WorkStands
<1>8. PoolClosesLast'
  BY <1>1, <1>3 DEF ServiceInv, PoolClosesLast, RelayHolds
<1>9. OrderlyExit'
  BY <1>1, <1>3 DEF ServiceInv, OrderlyExit, RelayHolds
<1>10. QED
  BY <1>4, <1>5, <1>6, <1>7, <1>8, <1>9 DEF ServiceInv

\* run leaves its select with the listener closed or failed, and all that was
\* opened still open.
LEMMA SelectKeeps ==
  ASSUME ServiceInv, Select
  PROVE  ServiceInv'
<1>1. /\ At("select")
      /\ kind' = kind /\ cfg' = cfg /\ deferred' = deferred /\ open' = open
      /\ cancelled' = cancelled /\ relay' = relay /\ request' = request /\ late' = late
      /\ listener' \in {"closed", "failed"} /\ (listener = "failed" => listener' = "failed")
      /\ \/ todo' = <<"drain">> /\ status' = status
         \/ todo' = <<"return">> /\ status' = "error" /\ listener' = "failed"
  BY DEF Select, Return
<1>2. kind \in Kinds /\ kind # NoKind
  BY <1>1, Started
<1>3. Ahead = {"select"} /\ ~Over /\ status = "none"
  <2>1. Ahead = {"select"} /\ ~Over
    BY <1>1, <1>2, Waits DEF ServiceInv
  <2>2. QED
    BY <2>1 DEF ServiceInv, EndIsReported
<1>4. ~Exited'
  BY <1>1 DEF Exited, At
<1>5. RunsItsCourse'
  BY <1>1, <1>2 DEF RunsItsCourse
<1>6. "listen" \notin Ahead' /\ kind # "profiles"
  <2>1. kind # "profiles"
    BY <1>1, <1>2, Waits DEF ServiceInv
  <2>2. "listen" \notin Ahead'
    BY <1>1 DEF Ahead
  <2>3. QED
    BY <2>1, <2>2
<1>7. ListenerFollowsRun'
  BY <1>1, <1>2, <1>6 DEF ListenerFollowsRun
<1>8. WorkStands'
  BY <1>1, <1>2, <1>3 DEF ServiceInv, WorkStands
<1>9. EndIsReported'
  BY <1>1, <1>3 DEF EndIsReported, Over, At
<1>10. OrderlyExit'
  <2>1. \A r \in HTTPRequest : request[r] \notin {"failed", "cut"}
    BY <1>3 DEF ServiceInv, OrderlyExit
  <2>2. QED
    BY <1>1, <1>4, <2>1 DEF OrderlyExit
<1>11. ServiceTypeOK'
  BY <1>1, HeldStays DEF ServiceInv, ServiceTypeOK
<1>12. PoolClosesLast'
  BY <1>1 DEF ServiceInv, PoolClosesLast, RelayHolds, Deferred
<1>13. QED
  BY <1>5, <1>7, <1>8, <1>9, <1>10, <1>11, <1>12 DEF ServiceInv

\* Shutdown ends with no handler at work, or says that it was too late.
LEMMA DrainKeeps ==
  ASSUME ServiceInv, Drain
  PROVE  ServiceInv'
<1>1. /\ At("drain")
      /\ kind' = kind /\ cfg' = cfg /\ deferred' = deferred /\ open' = open
      /\ cancelled' = cancelled /\ relay' = relay /\ request' = request
      /\ listener' = listener /\ late' \in {late, TRUE} /\ todo' = <<"return">>
      /\ \/ Active = {} /\ status' = "ok"
         \/ Active # {} /\ status' = "error" /\ late' = TRUE
  BY DEF Drain, Return
<1>2. kind \in Kinds /\ kind # NoKind
  BY <1>1, Started
<1>3. /\ Over' /\ ~Exited' /\ "listen" \notin Ahead' /\ ~At("drain")' /\ Active' = Active
      /\ ~Over
  BY <1>1 DEF Over, Exited, At, Ahead, Active
<1>4. status = "none"
  BY <1>3 DEF ServiceInv, EndIsReported
<1>5. RunsItsCourse'
  BY <1>1, <1>2 DEF RunsItsCourse
<1>6. ListenerFollowsRun'
  BY <1>1, <1>2, <1>3 DEF ServiceInv, ListenerFollowsRun
<1>7. WorkStands' /\ EndIsReported'
  BY <1>1, <1>3 DEF WorkStands, EndIsReported
<1>8. OrderlyExit'
  <2>1. \A r \in HTTPRequest : request[r] \notin {"failed", "cut"}
    BY <1>4 DEF ServiceInv, OrderlyExit
  <2>2. QED
    BY <1>1, <1>3, <2>1 DEF OrderlyExit
<1>9. ServiceTypeOK'
  BY <1>1, HeldStays DEF ServiceInv, ServiceTypeOK
<1>10. PoolClosesLast'
  BY <1>1 DEF ServiceInv, PoolClosesLast, RelayHolds, Deferred
<1>11. QED
  BY <1>5, <1>6, <1>7, <1>8, <1>9, <1>10 DEF ServiceInv

\* The profiles service, which consumes, has no listener and no handlers.
LEMMA ConsumeKeeps ==
  ASSUME ServiceInv, Consume
  PROVE  ServiceInv'
<1>1. /\ At("consume")
      /\ kind' = kind /\ cfg' = cfg /\ deferred' = deferred /\ open' = open
      /\ cancelled' = cancelled /\ relay' = relay /\ request' = request
      /\ listener' = listener /\ late' = late /\ todo' = <<"return">>
      /\ status' \in {"ok", "error"}
  BY DEF Consume, Return
<1>2. kind \in Kinds /\ kind # NoKind /\ kind = "profiles"
  BY <1>1, Started, Waits DEF ServiceInv
<1>3. listener = "off" /\ \A r \in HTTPRequest : request[r] = "none"
  BY <1>2 DEF ServiceInv, ListenerFollowsRun
<1>4. Over' /\ ~Exited' /\ ~At("drain")' /\ Active' = {}
  BY <1>1, <1>3 DEF Over, Exited, At, Active
<1>5. RunsItsCourse'
  BY <1>1, <1>2 DEF RunsItsCourse
<1>6. ListenerFollowsRun' /\ WorkStands' /\ EndIsReported'
  BY <1>1, <1>3, <1>4 DEF ListenerFollowsRun, WorkStands, EndIsReported
<1>7. OrderlyExit'
  BY <1>1, <1>3, <1>4 DEF OrderlyExit
<1>8. ServiceTypeOK'
  BY <1>1, HeldStays DEF ServiceInv, ServiceTypeOK
<1>9. PoolClosesLast'
  BY <1>1 DEF ServiceInv, PoolClosesLast, RelayHolds, Deferred
<1>10. QED
  BY <1>5, <1>6, <1>7, <1>8, <1>9 DEF ServiceInv

\* The pool's Close ends, and is deferred no more, only when no connection is out.
LEMMA UnwindKeeps ==
  ASSUME ServiceInv, Unwind
  PROVE  ServiceInv'
<1> DEFINE call == deferred[Len(deferred)]
<1>1. /\ At("return") /\ deferred # <<>>
      /\ open' = open \ (IF call = "connection" THEN {"connection", "channel"} ELSE {call})
      /\ deferred' = IF call = "pool" /\ Held > 0 THEN deferred
                       ELSE SubSeq(deferred, 1, Len(deferred) - 1)
      /\ cancelled' = (cancelled \/ call = "stop")
      /\ kind' = kind /\ cfg' = cfg /\ todo' = todo /\ relay' = relay /\ request' = request
      /\ listener' = listener /\ late' = late /\ status' = status
  BY DEF Unwind
<1>2. /\ Course' = Course /\ Ahead' = Ahead /\ Active' = Active /\ (Over' <=> Over) /\ Over
      /\ (At("drain")' <=> At("drain")) /\ (Exited' <=> Exited) /\ (RelayHolds' <=> RelayHolds)
  BY <1>1 DEF Course, Ahead, Active, Over, At, Exited, RelayHolds
<1>3. RunsItsCourse'
  BY <1>1, <1>2 DEF ServiceInv, RunsItsCourse
<1>4. ListenerFollowsRun'
  BY <1>1, <1>2 DEF ServiceInv, ListenerFollowsRun
<1>5. WorkStands' /\ EndIsReported'
  BY <1>1, <1>2 DEF ServiceInv, WorkStands, EndIsReported
<1>6. OrderlyExit'
  BY <1>1, <1>2 DEF ServiceInv, OrderlyExit
<1>7. CASE call = "pool" /\ Held > 0
  <2>1. deferred' = deferred /\ open' \subseteq open /\ cancelled' \in BOOLEAN
    BY <1>1, <1>7
  <2>2. ServiceTypeOK'
    BY <1>1, <2>1, HeldStays DEF ServiceInv, ServiceTypeOK
  <2>3. PoolClosesLast'
    BY <1>2, <2>1 DEF ServiceInv, PoolClosesLast, Deferred
  <2>4. QED
    BY <1>3, <1>4, <1>5, <1>6, <2>2, <2>3 DEF ServiceInv
<1>8. CASE ~(call = "pool" /\ Held > 0)
  <2>1. deferred' = SubSeq(deferred, 1, Len(deferred) - 1)
    BY <1>1, <1>8
  <2>2. deferred' \in Seq(Calls) /\ call \in Calls /\ Deferred \subseteq Deferred' \cup {call}
    BY <1>1, <2>1, TypesOfParts, DeferLess DEF ServiceInv
  <2>3. open' \subseteq open /\ call \notin open'
    BY <1>1
  <2>4. call = "pool" => ~RelayHolds
    BY <1>8, HeldFacts
  <2>5. cancelled' \in BOOLEAN
    BY <1>1
  <2>6. ServiceTypeOK'
    BY <1>1, <2>2, <2>3, <2>5, HeldStays DEF ServiceInv, ServiceTypeOK, Calls
  <2>7. PoolClosesLast'
    BY <1>2, <2>2, <2>3, <2>4 DEF ServiceInv, PoolClosesLast
  <2>8. QED
    BY <1>3, <1>4, <1>5, <1>6, <2>6, <2>7 DEF ServiceInv
<1>9. QED
  BY <1>7, <1>8

\* When the process is gone, so are its handlers, and none of them silently.
LEMMA ExitKeeps ==
  ASSUME ServiceInv, Exit
  PROVE  ServiceInv'
<1>1. /\ At("return") /\ deferred = <<>> /\ todo' = <<"exited">>
      /\ request' = [r \in HTTPRequest |-> IF r \in Active THEN "cut" ELSE request[r]]
      /\ kind' = kind /\ cfg' = cfg /\ deferred' = deferred /\ open' = open
      /\ cancelled' = cancelled /\ relay' = relay
      /\ listener' = listener /\ late' = late /\ status' = status
  BY DEF Exit
<1>2. kind \in Kinds /\ kind # NoKind
  BY <1>1, Started
<1>3. /\ Over /\ Over' /\ "listen" \notin Ahead'
      /\ (RelayHolds' <=> RelayHolds) /\ Deferred' = Deferred
  BY <1>1 DEF Over, At, Ahead, RelayHolds, Deferred
<1>4. ~RelayHolds /\ "pool" \notin open
  <2>1. Deferred = {}
    BY <1>1 DEF Deferred
  <2>2. QED
    BY <2>1 DEF ServiceInv, PoolClosesLast
<1>5. /\ request \in [HTTPRequest -> RequestStates]
      /\ Active' = {} /\ Holders' \subseteq Holders /\ Twice' \subseteq Twice
      /\ \A r \in HTTPRequest : request'[r] = IF r \in Active THEN "cut" ELSE request[r]
  BY <1>1 DEF Active, Holders, Twice, RequestStates, ServiceInv, ServiceTypeOK
<1>6. RunsItsCourse'
  BY <1>1, <1>2 DEF RunsItsCourse
<1>7. ListenerFollowsRun'
  <2>1. listener = "off" => \A r \in HTTPRequest : request'[r] = "none"
    BY <1>5 DEF ServiceInv, ListenerFollowsRun, Active
  <2>2. QED
    BY <1>1, <1>2, <1>3, <2>1 DEF ServiceInv, ListenerFollowsRun
<1>8. WorkStands' /\ EndIsReported'
  BY <1>3, <1>5 DEF WorkStands, EndIsReported
<1>9. OrderlyExit'
  BY <1>1, <1>3, <1>4, <1>5 DEF ServiceInv, OrderlyExit, EndIsReported
<1>10. ServiceTypeOK'
  <2>1. Held' <= MaxConns
    BY <1>3, <1>5, HeldNotMore, HeldFacts, ServiceAssumption
       DEF ServiceInv, ServiceTypeOK, ServiceAssumption
  <2>2. request' \in [HTTPRequest -> RequestStates]
    BY <1>1, <1>5 DEF RequestStates
  <2>3. QED
    BY <1>1, <2>1, <2>2 DEF ServiceInv, ServiceTypeOK
<1>11. PoolClosesLast'
  BY <1>1, <1>3, <1>4 DEF PoolClosesLast
<1>12. QED
  BY <1>6, <1>7, <1>8, <1>9, <1>10, <1>11 DEF ServiceInv

\* What stays as it was while run, the pool and the listener do not move.
LEMMA OthersStand ==
  ASSUME ServiceInv, kind' = kind, cfg' = cfg, todo' = todo, deferred' = deferred, open' = open,
         listener' = listener, late' = late, status' = status
  PROVE  /\ RunsItsCourse' /\ Ahead' = Ahead /\ Deferred' = Deferred
         /\ (Over' <=> Over) /\ (At("drain")' <=> At("drain")) /\ (Exited' <=> Exited)
<1>1. /\ Course' = Course /\ Ahead' = Ahead /\ Deferred' = Deferred
      /\ (Over' <=> Over) /\ (At("drain")' <=> At("drain")) /\ (Exited' <=> Exited)
  BY DEF Course, Ahead, Deferred, Over, At, Exited
<1>2. RunsItsCourse'
  BY <1>1 DEF ServiceInv, RunsItsCourse
<1>3. QED
  BY <1>1, <1>2

\* A signal cancels ctx and moves nothing else.
LEMMA SignalKeeps ==
  ASSUME ServiceInv, Signal
  PROVE  ServiceInv'
<1>1. /\ kind' = kind /\ cfg' = cfg /\ todo' = todo /\ deferred' = deferred /\ open' = open
      /\ listener' = listener /\ late' = late /\ status' = status
      /\ cancelled' = TRUE /\ relay' = relay /\ request' = request
  BY DEF Signal
<1>2. /\ RunsItsCourse' /\ Ahead' = Ahead /\ Deferred' = Deferred
      /\ (Over' <=> Over) /\ (At("drain")' <=> At("drain")) /\ (Exited' <=> Exited)
  BY <1>1, OthersStand
<1>3. Active' = Active /\ (RelayHolds' <=> RelayHolds)
  BY <1>1 DEF Active, RelayHolds
<1>4. ServiceTypeOK'
  BY <1>1, HeldStays DEF ServiceInv, ServiceTypeOK
<1>5. ListenerFollowsRun' /\ WorkStands' /\ EndIsReported'
  BY <1>1, <1>2, <1>3 DEF ServiceInv, ListenerFollowsRun, WorkStands, EndIsReported
<1>6. PoolClosesLast' /\ OrderlyExit'
  BY <1>1, <1>2, <1>3 DEF ServiceInv, PoolClosesLast, OrderlyExit
<1>7. QED
  BY <1>2, <1>4, <1>5, <1>6 DEF ServiceInv

\* One step of the relay: it takes a connection only of an open pool that has one
\* left, and is off only once ctx is done.
LEMMA RelayKeeps ==
  ASSUME ServiceInv, RelayTick \/ RelaySends \/ RelayConfirmed \/ RelayStep
  PROVE  ServiceInv'
<1>1. /\ kind' = kind /\ cfg' = cfg /\ todo' = todo /\ deferred' = deferred /\ open' = open
      /\ listener' = listener /\ late' = late /\ status' = status
      /\ cancelled' = cancelled /\ request' = request /\ ~Exited
      /\ relay' \in {"off", "between", "open", "sent", "marked"}
      /\ relay' = "off" => cancelled
      /\ RelayHolds' => RelayHolds \/ ("pool" \in open /\ Held < MaxConns)
  BY DEF RelayTick, RelaySends, RelayConfirmed, RelayStep, RelayMoves, RelayHolds
<1>2. /\ RunsItsCourse' /\ Ahead' = Ahead /\ Deferred' = Deferred
      /\ (Over' <=> Over) /\ (At("drain")' <=> At("drain")) /\ (Exited' <=> Exited)
  BY <1>1, OthersStand
<1>3. Active' = Active
  BY <1>1 DEF Active
<1>4. Held' <= MaxConns
  <2>1. Holders' = Holders /\ Twice' = Twice
    BY <1>1 DEF Holders, Twice
  <2>2. Held' = Cardinality(Holders) + Cardinality(Twice) + (IF RelayHolds' THEN 1 ELSE 0)
    BY <2>1 DEF Held
  <2>3. QED
    BY <1>1, <2>2, HeldFacts, ServiceAssumption DEF ServiceInv, ServiceTypeOK, ServiceAssumption
<1>5. ServiceTypeOK'
  BY <1>1, <1>4 DEF ServiceInv, ServiceTypeOK
<1>6. ListenerFollowsRun' /\ WorkStands' /\ EndIsReported'
  BY <1>1, <1>2, <1>3 DEF ServiceInv, ListenerFollowsRun, WorkStands, EndIsReported
<1>7. PoolClosesLast' /\ OrderlyExit'
  BY <1>1, <1>2 DEF ServiceInv, PoolClosesLast, OrderlyExit
<1>8. QED
  BY <1>2, <1>5, <1>6, <1>7 DEF ServiceInv

\* A request is let in while something listens, hence while run is not over.
LEMMA ArrivesKeeps ==
  ASSUME ServiceInv, NEW r \in HTTPRequest, RequestArrives(r)
  PROVE  ServiceInv'
<1>1. /\ kind' = kind /\ cfg' = cfg /\ todo' = todo /\ deferred' = deferred /\ open' = open
      /\ listener' = listener /\ late' = late /\ status' = status
      /\ cancelled' = cancelled /\ relay' = relay /\ ~Exited
      /\ listener = "open" /\ request[r] = "none"
      /\ request' = [request EXCEPT ![r] = "running"]
  BY DEF RequestArrives, Arrive, Move
<1>2. /\ RunsItsCourse' /\ Ahead' = Ahead /\ Deferred' = Deferred
      /\ (Over' <=> Over) /\ (At("drain")' <=> At("drain")) /\ (Exited' <=> Exited)
  BY <1>1, OthersStand
<1>3. ~Over /\ (RelayHolds' <=> RelayHolds)
  BY <1>1 DEF ServiceInv, ListenerFollowsRun, RelayHolds
<1>4. /\ request' \in [HTTPRequest -> RequestStates]
      /\ Holders' \subseteq Holders /\ Twice' \subseteq Twice
      /\ \A q \in HTTPRequest : request'[q] \in {"failed", "cut"} => request[q] \in {"failed", "cut"}
  BY <1>1 DEF ServiceInv, ServiceTypeOK, Holders, Twice, RequestStates
<1>5. Held' <= MaxConns
  BY <1>3, <1>4, HeldNotMore, HeldFacts, ServiceAssumption
     DEF ServiceInv, ServiceTypeOK, ServiceAssumption
<1>6. ServiceTypeOK'
  BY <1>1, <1>4, <1>5 DEF ServiceInv, ServiceTypeOK
<1>7. ListenerFollowsRun' /\ WorkStands' /\ EndIsReported'
  BY <1>1, <1>2, <1>3 DEF ServiceInv, ListenerFollowsRun, WorkStands, EndIsReported
<1>8. PoolClosesLast' /\ OrderlyExit'
  BY <1>1, <1>2, <1>3, <1>4 DEF ServiceInv, PoolClosesLast, OrderlyExit
<1>9. QED
  BY <1>2, <1>6, <1>7, <1>8 DEF ServiceInv

\* A handler meets a closed pool only when run is over, and then run has an error
\* to report.
LEMMA RequestKeeps ==
  ASSUME ServiceInv, NEW r \in HTTPRequest, RequestStep(r) \/ GiveUp(r)
  PROVE  ServiceInv'
<1>1. /\ kind' = kind /\ cfg' = cfg /\ todo' = todo /\ deferred' = deferred /\ open' = open
      /\ listener' = listener /\ late' = late /\ status' = status
      /\ cancelled' = cancelled /\ relay' = relay /\ ~Exited
      /\ Acquire(r) \/ Lose(r) \/ Release(r) \/ Answer(r) \/ Move(r, "wanting", "answered")
  BY DEF RequestStep, GiveUp
<1> DEFINE Takes(from, to) ==
             \/ from = "running" /\ to = "holding"
             \/ from = "wanting" /\ to = "both"
           Keeps(from, to) ==
             \/ from = "holding" /\ to \in {"wanting", "running"}
             \/ from = "both" /\ to = "holding"
             \/ from \in {"running", "wanting"} /\ to \in {"failed", "answered"}
<1>2. PICK to \in RequestStates :
        /\ request' = [request EXCEPT ![r] = to]
        /\ (Takes(request[r], to) /\ Held < MaxConns) \/ Keeps(request[r], to)
        /\ to = "failed" => kind = "accounts" /\ "pool" \notin open
  BY <1>1 DEF Acquire, Lent, Lose, Release, Answer, Move, RequestStates
<1>3. /\ RunsItsCourse' /\ Ahead' = Ahead /\ Deferred' = Deferred
      /\ (Over' <=> Over) /\ (At("drain")' <=> At("drain")) /\ (Exited' <=> Exited)
  BY <1>1, OthersStand
<1>4. /\ request \in [HTTPRequest -> RequestStates]
      /\ request' \in [HTTPRequest -> RequestStates]
      /\ r \in Active /\ Active' \subseteq Active /\ listener # "off"
      /\ (RelayHolds' <=> RelayHolds)
  <2>1. request \in [HTTPRequest -> RequestStates] /\ request' \in [HTTPRequest -> RequestStates]
    BY <1>2 DEF ServiceInv, ServiceTypeOK
  <2>2. r \in Active
    BY <1>2 DEF Active
  <2>3. Active' \subseteq Active
    BY <1>2, <2>1, <2>2 DEF Active
  <2>4. listener # "off"
    BY <2>2 DEF ServiceInv, ListenerFollowsRun, Active
  <2>5. QED
    BY <1>1, <2>1, <2>2, <2>3, <2>4 DEF RelayHolds
<1>5. Held' <= MaxConns
  <2>1. Held' = Cardinality(Holders') + Cardinality(Twice') + (IF RelayHolds' THEN 1 ELSE 0)
    BY DEF Held
  <2>2. CASE request[r] = "running" /\ to = "holding" /\ Held < MaxConns
    <3>1. Holders' = Holders \cup {r} /\ r \notin Holders /\ Twice' = Twice
      BY <1>2, <1>4, <2>2 DEF Holders, Twice
    <3>2. Cardinality(Holders') = Cardinality(Holders) + 1
      BY <3>1, HeldFacts, FS_AddElement
    <3>3. QED
      BY <1>4, <2>1, <2>2, <3>1, <3>2, HeldFacts, ServiceAssumption DEF ServiceAssumption
  <2>3. CASE request[r] = "wanting" /\ to = "both" /\ Held < MaxConns
    <3>1. Twice' = Twice \cup {r} /\ r \notin Twice /\ Holders' = Holders
      BY <1>2, <1>4, <2>3 DEF Holders, Twice
    <3>2. Cardinality(Twice') = Cardinality(Twice) + 1
      BY <3>1, HeldFacts, FS_AddElement
    <3>3. QED
      BY <1>4, <2>1, <2>3, <3>1, <3>2, HeldFacts, ServiceAssumption DEF ServiceAssumption
  <2>4. CASE Keeps(request[r], to)
    <3>1. Holders' \subseteq Holders /\ Twice' \subseteq Twice
      BY <1>2, <1>4, <2>4 DEF Holders, Twice
    <3>2. QED
      BY <1>4, <3>1, HeldNotMore, HeldFacts, ServiceAssumption
         DEF ServiceInv, ServiceTypeOK, ServiceAssumption
  <2>5. QED
    BY <1>2, <2>2, <2>3, <2>4
<1>6. to = "failed" => (late \/ listener = "failed") /\ status = "error"
  <2>1. SUFFICES ASSUME to = "failed"
                 PROVE  (late \/ listener = "failed") /\ status = "error"
    OBVIOUS
  <2>2. kind = "accounts" /\ kind # NoKind /\ "pool" \notin open
    BY <1>2, <2>1, ServiceAssumption DEF ServiceAssumption, Kinds
  <2>3. "pool" \notin Ahead
    BY <1>4, <2>2, PoolThenListen DEF ServiceInv, ListenerFollowsRun
  <2>4. Over
    BY <2>2, <2>3 DEF ServiceInv, WorkStands
  <2>5. QED
    BY <1>4, <2>4 DEF ServiceInv, EndIsReported
<1>7. ServiceTypeOK'
  BY <1>1, <1>4, <1>5 DEF ServiceInv, ServiceTypeOK
<1>8. ListenerFollowsRun' /\ WorkStands' /\ EndIsReported'
  BY <1>1, <1>3, <1>4 DEF ServiceInv, ListenerFollowsRun, WorkStands, EndIsReported
<1>9. PoolClosesLast'
  BY <1>1, <1>3, <1>4 DEF ServiceInv, PoolClosesLast
<1>10. OrderlyExit'
  <2>1. \A q \in HTTPRequest : q # r => request'[q] = request[q]
    BY <1>2, <1>4
  <2>2. request'[r] = to
    BY <1>2, <1>4
  <2>3. QED
    BY <1>1, <1>2, <1>3, <1>4, <1>6, <2>1, <2>2 DEF ServiceInv, OrderlyExit
<1>11. QED
  BY <1>3, <1>7, <1>8, <1>9, <1>10 DEF ServiceInv

\* No process has started at first.
LEMMA ServiceInitHolds == ServiceInit => ServiceInv
<1>1. SUFFICES ASSUME ServiceInit PROVE ServiceInv
  OBVIOUS
<1>2. /\ kind = NoKind /\ todo = <<>> /\ deferred = <<>> /\ open = {} /\ cancelled = FALSE
      /\ late = FALSE /\ relay = "off" /\ listener = "off" /\ status = "none"
      /\ request = [r \in HTTPRequest |-> "none"]
  BY <1>1 DEF ServiceInit
<1>3. ~Over /\ ~At("drain") /\ ~Exited /\ ~RelayHolds
  BY <1>2 DEF Over, At, Exited, RelayHolds
<1>4. Held <= MaxConns
  <2>1. Holders = {} /\ Twice = {}
    BY <1>2 DEF Holders, Twice
  <2>2. Held = 0
    BY <1>3, <2>1, HeldFacts, FS_EmptySet
  <2>3. QED
    BY <2>2, ServiceAssumption DEF ServiceAssumption
<1>5. ServiceTypeOK
  <2>1. deferred \in Seq({"stop", "pool", "connection", "channel"})
    BY <1>2
  <2>2. QED
    BY <1>2, <1>4, <2>1 DEF ServiceTypeOK, RequestStates
<1>6. RunsItsCourse /\ ListenerFollowsRun /\ WorkStands
  BY <1>2, <1>3 DEF RunsItsCourse, ListenerFollowsRun, WorkStands
<1>7. EndIsReported /\ PoolClosesLast /\ OrderlyExit
  BY <1>2, <1>3 DEF EndIsReported, PoolClosesLast, OrderlyExit
<1>8. QED
  BY <1>5, <1>6, <1>7 DEF ServiceInv

\* A step that moves nothing of the process keeps all of it.
LEMMA StutterKeeps ==
  ASSUME ServiceInv, UNCHANGED serviceVars
  PROVE  ServiceInv'
<1>1. /\ kind' = kind /\ cfg' = cfg /\ todo' = todo /\ deferred' = deferred /\ open' = open
      /\ listener' = listener /\ late' = late /\ status' = status
      /\ cancelled' = cancelled /\ relay' = relay /\ request' = request
  BY DEF serviceVars
<1>2. /\ RunsItsCourse' /\ Ahead' = Ahead /\ Deferred' = Deferred
      /\ (Over' <=> Over) /\ (At("drain")' <=> At("drain")) /\ (Exited' <=> Exited)
  BY <1>1, OthersStand
<1>3. Active' = Active /\ (RelayHolds' <=> RelayHolds)
  BY <1>1 DEF Active, RelayHolds
<1>4. ServiceTypeOK'
  BY <1>1, HeldStays DEF ServiceInv, ServiceTypeOK
<1>5. ListenerFollowsRun' /\ WorkStands' /\ EndIsReported'
  BY <1>1, <1>2, <1>3 DEF ServiceInv, ListenerFollowsRun, WorkStands, EndIsReported
<1>6. PoolClosesLast' /\ OrderlyExit'
  BY <1>1, <1>2, <1>3 DEF ServiceInv, PoolClosesLast, OrderlyExit
<1>7. QED
  BY <1>2, <1>4, <1>5, <1>6 DEF ServiceInv

\* Every step of the process keeps ServiceInv.
LEMMA ServiceStepKeeps ==
  ASSUME ServiceInv, [ServiceNext]_serviceVars
  PROVE  ServiceInv'
<1>1. CASE StartProcess
  BY <1>1, StartKeeps
<1>2. CASE Load
  BY <1>2, LoadKeeps
<1>3. CASE Notify
  BY <1>3, NotifyKeeps
<1>4. CASE OpenPool \/ OpenBroker("connection") \/ OpenBroker("channel")
  BY <1>4, OpenKeeps
<1>5. CASE StartRelay
  BY <1>5, StartRelayKeeps
<1>6. CASE ParseKey
  BY <1>6, ParseKeyKeeps
<1>7. CASE Listen
  BY <1>7, ListenKeeps
<1>8. CASE Select
  BY <1>8, SelectKeeps
<1>9. CASE Drain
  BY <1>9, DrainKeeps
<1>10. CASE Consume
  BY <1>10, ConsumeKeeps
<1>11. CASE Unwind
  BY <1>11, UnwindKeeps
<1>12. CASE Exit
  BY <1>12, ExitKeeps
<1>13. CASE Serve
  BY <1>13, ServeKeeps
<1>14. CASE Signal
  BY <1>14, SignalKeeps
<1>15. CASE RelayTick \/ RelaySends \/ RelayConfirmed \/ RelayStep
  BY <1>15, RelayKeeps
<1>16. ASSUME NEW r \in HTTPRequest, RequestArrives(r) PROVE ServiceInv'
  BY <1>16, ArrivesKeeps
<1>17. ASSUME NEW r \in HTTPRequest, RequestStep(r) \/ GiveUp(r) PROVE ServiceInv'
  BY <1>17, RequestKeeps
<1>18. CASE UNCHANGED serviceVars
  BY <1>18, StutterKeeps
<1>19. QED
  BY <1>1, <1>2, <1>3, <1>4, <1>5, <1>6, <1>7, <1>8, <1>9, <1>10, <1>11, <1>12, <1>13, <1>14,
     <1>15, <1>16, <1>17, <1>18 DEF ServiceNext, Main

\* ServiceInv holds in every state of every process.
THEOREM ServiceInvariant == ServiceSpec => []ServiceInv
<1>1. ServiceInit => ServiceInv
  BY ServiceInitHolds
<1>2. ServiceInv /\ [ServiceNext]_serviceVars => ServiceInv'
  BY ServiceStepKeeps
<1>3. QED
  BY <1>1, <1>2, PTL DEF ServiceSpec

\* Every variable of a process keeps its type, and no more connections are out
\* than its pool has.
THEOREM ServiceTypeCorrect == ServiceSpec => []ServiceTypeOK
<1>1. ServiceInv => ServiceTypeOK
  BY DEF ServiceInv
<1>2. QED
  BY <1>1, ServiceInvariant, PTL

\* run of cmd/main.go ends in order: a handler meets a closed pool, or is cut off,
\* only after Shutdown's time is up or the server failed, and then run returns an
\* error; and no transaction of the relay outlives the pool.
THEOREM ExitIsOrderly == ServiceSpec => []OrderlyExit
<1>1. ServiceInv => OrderlyExit
  BY DEF ServiceInv
<1>2. QED
  BY <1>1, ServiceInvariant, PTL

\* While the server listens, what its handlers work with is there: a key that was
\* parsed, and for accounts the pool, the broker and the relay.
THEOREM HandlersHaveAll == ServiceSpec => [](listener = "open" => HandlersBacked)
<1>1. ASSUME ServiceInv, listener = "open" PROVE HandlersBacked
  <2>1. /\ kind \in {"accounts", "gateway"} /\ kind # NoKind
        /\ "listen" \notin Ahead /\ ~At("drain") /\ ~Over
    BY <1>1 DEF ServiceInv, ListenerFollowsRun, ServiceTypeOK, Kinds
  <2>2. Ahead = {"select"}
    BY <1>1, <2>1, PastListen DEF ServiceInv
  <2>3. QED
    BY <1>1, <2>1, <2>2 DEF ServiceInv, WorkStands, HandlersBacked
<1>2. QED
  BY <1>1, ServiceInvariant, PTL
-----------------------------------------------------------------------------
\* Load comes first: what is left of a course has it only while it is next.
LEMMA LoadIsFirst ==
  ASSUME kind \in Kinds, RunsItsCourse, "load" \in Ahead
  PROVE  At("load")
<1>1. todo \notin {<<"drain">>, <<"return">>, <<"exited">>}
  BY Singles DEF Statements
<1>2. PICK i \in 1..Len(Course) :
           todo # <<>> /\ Head(todo) = Course[i] /\ Ahead = From(Course, i)
  BY <1>1, Position
<1>3. Course[i] = "load"
  <2>1. CASE kind = "accounts"
    BY <1>2, <2>1, CourseFacts DEF From, Course, AccountsRun
  <2>2. CASE kind = "profiles"
    BY <1>2, <2>2, CourseFacts DEF From, Course, ProfilesRun
  <2>3. CASE kind = "gateway"
    BY <1>2, <2>3, CourseFacts DEF From, Course, GatewayRun
  <2>4. QED
    BY <2>1, <2>2, <2>3 DEF Kinds
<1>4. QED
  BY <1>2, <1>3 DEF At

\* So it is not next after any statement but the start.
LEMMA LoadIsOver ==
  ASSUME ServiceInv, NEW s \in Statements \ {"select", "consume"}, At(s), kind' = kind, Proceed
  PROVE  ~At("load")' /\ ~Over /\ ~Over'
<1>1. kind \in Kinds
  BY Started
<1>2. /\ Ahead = Ahead' \cup {s} /\ s \notin Ahead' /\ ~Over /\ ~Over'
      /\ \E i \in 1..Len(Course) : todo' = SubSeq(Course, i, Len(Course))
      /\ Course' = Course
  BY <1>1, Proceeds DEF ServiceInv, Proceed
<1>3. ASSUME At("load")' PROVE FALSE
  <2>1. PICK i \in 1..Len(Course) : todo' = SubSeq(Course, i, Len(Course))
    BY <1>2
  <2>2. Course \in Seq(Statements) /\ Len(Course) \in Nat
    BY <1>1, CourseFacts
  <2>3. Head(todo') = Course[i] /\ Entries(todo') = From(Course, i)
    BY <2>1, <2>2, SuffixFacts
  <2>4. Ahead' = From(Course, i)
    BY <2>3 DEF Ahead, Entries
  <2>5. "load" \in Ahead'
    BY <1>3, <2>2, <2>3, <2>4 DEF At, From
  <2>6. At("load")
    BY <1>1, <1>2, <2>5, LoadIsFirst DEF ServiceInv
  <2>7. s = "load"
    BY <2>6 DEF At
  <2>8. QED
    BY <1>2, <2>5, <2>7
<1>4. QED
  BY <1>2, <1>3

\* What Load of a service returns, for the settings it has.
LEMMA LoadReports ==
  ASSUME kind \in Kinds, env \in Environments[kind], Load
  PROVE  Reports(errs', SettingsOf(kind), env)
<1>1. \A i \in DOMAIN SettingsOf(kind) : env[SettingsOf(kind)[i]] \in Word
  BY ServiceAssumption DEF ServiceAssumption
<1>2. CASE kind = "accounts"
  <2>1. SettingsOf(kind) = AccountsSettings /\ errs' = AccountsErrors(env)
    BY <1>2 DEF Load, SettingsOf
  <2>2. Complete(env, AccountsSettings)
    BY <1>1, <2>1 DEF Complete
  <2>3. QED
    BY <2>1, <2>2, AccountsReports
<1>3. CASE kind = "profiles"
  <2>1. SettingsOf(kind) = ProfilesSettings /\ errs' = ProfilesErrors(env)
    BY <1>3 DEF Load, SettingsOf
  <2>2. Complete(env, ProfilesSettings)
    BY <1>1, <2>1 DEF Complete
  <2>3. QED
    BY <2>1, <2>2, ProfilesReports
<1>4. CASE kind = "gateway"
  <2>1. SettingsOf(kind) = GatewaySettings /\ errs' = GatewayErrors(env)
    BY <1>4 DEF Load, SettingsOf
  <2>2. Complete(env, GatewaySettings)
    BY <1>1, <2>1 DEF Complete
  <2>3. QED
    BY <2>1, <2>2, GatewayReports
<1>5. QED
  BY <1>2, <1>3, <1>4 DEF Kinds

\* Load makes LoadDecides true of what it read.
LEMMA LoadStepDecides ==
  ASSUME ServiceInv, LoadDecides, Load
  PROVE  LoadDecides'
<1>1. /\ At("load") /\ "load" \in Statements \ {"select", "consume"}
      /\ kind' = kind /\ env' = env
  BY DEF Load, Statements
<1>2. kind \in Kinds /\ kind # NoKind
  BY <1>1, Started
<1>3. env \in Environments[kind]
  BY <1>1, <1>2 DEF LoadDecides
<1>4. Reports(errs', SettingsOf(kind), env)
  BY <1>2, <1>3, LoadReports
<1>5. RefusalIsComplete'
  BY <1>1, <1>4 DEF RefusalIsComplete, Settings, Reports, Fields, UnfitAt
<1>6. CASE HasErrors(errs')
  <2>1. Over'
    BY <1>6, Returned DEF Load
  <2>2. QED
    BY <1>1, <1>3, <1>5, <2>1 DEF LoadDecides
<1>7. CASE ~HasErrors(errs')
  <2>1. /\ errs' = <<>>
        /\ kind = "accounts" => cfg' = AccountsConfig(env)
        /\ kind = "gateway" => cfg' = GatewayConfig(env)
    BY <1>7 DEF Load, HasErrors
  <2>2. Reports(<<>>, SettingsOf(kind), env)
    BY <1>4, <2>1
  <2>3. CASE kind = "accounts"
    <3>1. Reports(<<>>, AccountsSettings, env)
      BY <2>2, <2>3 DEF SettingsOf
    <3>2. cfg'.port \in 1..MaxPort /\ (cfg'.resend => cfg'.mail)
      BY <2>1, <2>3, <3>1, AccountsPasses
    <3>3. QED
      BY <1>1, <1>3, <1>5, <3>2 DEF LoadDecides
  <2>4. CASE kind = "gateway"
    <3>1. Reports(<<>>, GatewaySettings, env)
      BY <2>2, <2>4 DEF SettingsOf
    <3>2. cfg'.port \in 1..MaxPort /\ (cfg'.resend => cfg'.mail)
      BY <2>1, <2>4, <3>1, GatewayPasses
    <3>3. QED
      BY <1>1, <1>3, <1>5, <3>2 DEF LoadDecides
  <2>5. CASE kind = "profiles"
    BY <1>1, <1>3, <1>5, <2>5 DEF LoadDecides
  <2>6. QED
    BY <1>2, <2>3, <2>4, <2>5 DEF Kinds
<1>8. QED
  BY <1>6, <1>7

\* A step that leaves alone what Load read and returned, and where it is, decides
\* nothing.
LEMMA OthersDecide ==
  ASSUME LoadDecides, kind' = kind, env' = env, errs' = errs, cfg' = cfg,
         At("load")' <=> At("load"), Over => Over'
  PROVE  LoadDecides'
<1>1. Settings' = Settings
  BY DEF Settings
<1>2. RefusalIsComplete'
  BY <1>1 DEF LoadDecides, RefusalIsComplete
<1>3. QED
  BY <1>2 DEF LoadDecides

\* Nor does a statement that comes after it.
LEMMA StatementDecides ==
  ASSUME ServiceInv, LoadDecides, NEW s \in Statements \ {"load"}, At(s),
         kind' = kind, env' = env, errs' = errs, cfg' = cfg,
         \/ s \notin {"select", "consume"} /\ Proceed
         \/ \E result : Return(result)
         \/ todo' = <<"drain">>
  PROVE  LoadDecides'
<1>1. ~At("load") /\ ~Over
  BY DEF At, Over, Statements
<1>2. ~At("load")'
  <2>1. CASE s \notin {"select", "consume"} /\ Proceed
    BY <2>1, LoadIsOver
  <2>2. CASE todo' = <<"return">> \/ todo' = <<"drain">>
    BY <2>2 DEF At
  <2>3. QED
    BY <2>1, <2>2 DEF Return
<1>3. QED
  BY <1>1, <1>2, OthersDecide

\* Every step of the process keeps LoadDecides.
LEMMA StepDecides ==
  ASSUME ServiceInv, LoadDecides, [ServiceNext]_serviceVars
  PROVE  LoadDecides'
<1>1. CASE StartProcess
  <2>1. kind' \in Kinds /\ env' \in Environments[kind'] /\ todo' # <<>> /\ Head(todo') = "load"
    <3>1. CASE kind' = "accounts"
      BY <1>1, <3>1 DEF StartProcess, AccountsRun
    <3>2. CASE kind' = "profiles"
      BY <1>1, <3>2 DEF StartProcess, ProfilesRun
    <3>3. CASE kind' = "gateway"
      BY <1>1, <3>3 DEF StartProcess, GatewayRun
    <3>4. QED
      BY <1>1, <3>1, <3>2, <3>3 DEF StartProcess, Kinds
  <2>2. At("load")'
    BY <2>1 DEF At
  <2>3. QED
    BY <2>1, <2>2 DEF LoadDecides, RefusalIsComplete
<1>2. CASE Load
  BY <1>2, LoadStepDecides
<1>3. CASE Notify
  <2>1. /\ At("notify") /\ "notify" \in Statements \ {"select", "consume"} /\ Proceed
        /\ kind' = kind /\ env' = NoEnv /\ errs' = errs /\ cfg' = cfg
    BY <1>3 DEF Notify, Statements
  <2>2. ~At("load")' /\ ~Over /\ ~At("load")
    BY <2>1, LoadIsOver DEF At
  <2>3. QED
    BY <2>1, <2>2 DEF LoadDecides, RefusalIsComplete
<1>4. CASE OpenPool \/ OpenBroker("connection") \/ OpenBroker("channel")
  <2>1. PICK s \in {"pool", "connection", "channel"} : At(s) /\ (Proceed \/ Return("error"))
    BY <1>4 DEF OpenPool, OpenBroker
  <2>2. kind' = kind /\ env' = env /\ errs' = errs /\ cfg' = cfg
    BY <1>4 DEF OpenPool, OpenBroker
  <2>3. s \in Statements \ {"load"} /\ s \notin {"select", "consume"}
    BY DEF Statements
  <2>4. QED
    BY <2>1, <2>2, <2>3, StatementDecides
<1>5. CASE StartRelay \/ ParseKey \/ Listen
  <2>1. PICK s \in {"relay", "key", "listen"} :
          At(s) /\ (Proceed \/ Return("error"))
    BY <1>5 DEF StartRelay, ParseKey, Listen
  <2>2. kind' = kind /\ env' = env /\ errs' = errs /\ cfg' = cfg
    BY <1>5 DEF StartRelay, ParseKey, Listen
  <2>3. s \in Statements \ {"load"} /\ s \notin {"select", "consume"}
    BY DEF Statements
  <2>4. QED
    BY <2>1, <2>2, <2>3, StatementDecides
<1>6. CASE Select \/ Consume
  <2>1. PICK s \in {"select", "consume"} :
          At(s) /\ (todo' = <<"drain">> \/ Return("ok") \/ Return("error"))
    BY <1>6 DEF Select, Consume
  <2>2. kind' = kind /\ env' = env /\ errs' = errs /\ cfg' = cfg
    BY <1>6 DEF Select, Consume
  <2>3. s \in Statements \ {"load"}
    BY DEF Statements
  <2>4. QED
    BY <2>1, <2>2, <2>3, StatementDecides
<1>7. CASE Drain \/ Exit
  <2>1. /\ todo' \in {<<"return">>, <<"exited">>}
        /\ At("drain") \/ At("return")
        /\ kind' = kind /\ env' = env /\ errs' = errs /\ cfg' = cfg
    BY <1>7 DEF Drain, Exit, Return
  <2>2. Over' /\ ~At("load")' /\ ~At("load")
    BY <2>1 DEF Over, At
  <2>3. QED
    BY <2>1, <2>2, OthersDecide
<1>8. ASSUME todo' = todo, kind' = kind, env' = env, errs' = errs, cfg' = cfg PROVE LoadDecides'
  <2>1. (At("load")' <=> At("load")) /\ (Over' <=> Over)
    BY <1>8 DEF At, Over
  <2>2. QED
    BY <1>8, <2>1, OthersDecide
<1>9. CASE \/ Serve \/ Unwind \/ Signal
           \/ RelayTick \/ RelaySends \/ RelayConfirmed \/ RelayStep
  BY <1>8, <1>9 DEF Serve, Unwind, Signal, RelayTick, RelaySends, RelayConfirmed, RelayStep, RelayMoves
<1>10. ASSUME NEW r \in HTTPRequest, RequestArrives(r) \/ RequestStep(r) \/ GiveUp(r)
       PROVE  LoadDecides'
  BY <1>8, <1>10 DEF RequestArrives, RequestStep, GiveUp
<1>11. CASE UNCHANGED serviceVars
  BY <1>8, <1>11 DEF serviceVars
<1>12. CASE Main
  BY <1>2, <1>3, <1>4, <1>5, <1>6, <1>7, <1>9, <1>12 DEF Main
<1>13. QED
  BY <1>1, <1>9, <1>10, <1>11, <1>12 DEF ServiceNext

\* What Load decided holds in every state of every process.
LEMMA LoadHasDecided == ServiceSpec => []LoadDecides
<1>1. ServiceInit => LoadDecides
  BY ServiceAssumption DEF ServiceInit, LoadDecides, RefusalIsComplete, ServiceAssumption, Kinds
<1>2. ServiceInv /\ LoadDecides /\ [ServiceNext]_serviceVars => LoadDecides'
  BY StepDecides
<1>3. QED
  BY <1>1, <1>2, ServiceInvariant, PTL DEF ServiceSpec

\* Load of each config.go reports every unfit setting, each once and in a fixed
\* order, and no other, whatever the environment is.
THEOREM LoadRefusesTheUnfit == ServiceSpec => []RefusalIsComplete
<1>1. LoadDecides => RefusalIsComplete
  BY DEF LoadDecides
<1>2. QED
  BY <1>1, LoadHasDecided, PTL

\* While the server of cmd/main.go listens, all that its handlers rely on is
\* there: the port and the mail settings that Load let pass, and what run opened.
THEOREM ServingHasItsMeans == ServiceSpec => []ServingIsBacked
<1>1. ASSUME ServiceInv, LoadDecides, listener = "open" => HandlersBacked
      PROVE  ServingIsBacked
  <2>1. SUFFICES ASSUME listener = "open" PROVE ServingIsBacked
    BY DEF ServingIsBacked
  <2>2. /\ kind \in {"accounts", "gateway"} /\ kind # NoKind
        /\ "listen" \notin Ahead /\ ~At("drain") /\ ~Over
    BY <1>1, <2>1 DEF ServiceInv, ListenerFollowsRun, ServiceTypeOK, Kinds
  <2>3. Ahead = {"select"}
    BY <1>1, <2>2, PastListen DEF ServiceInv
  <2>4. kind \in Kinds /\ todo \notin {<<"drain">>, <<"return">>, <<"exited">>}
    BY <2>2, Singles DEF Kinds
  <2>5. ~At("load")
    <3>1. PICK i \in 1..Len(Course) : todo # <<>> /\ Head(todo) = Course[i] /\ Ahead = From(Course, i)
      BY <1>1, <2>4, Position DEF ServiceInv
    <3>2. Len(Course) \in Nat
      BY <2>4, CourseFacts
    <3>3. Head(todo) \in Ahead
      BY <3>1, <3>2 DEF From
    <3>4. QED
      BY <2>3, <3>3 DEF At
  <2>6. QED
    BY <1>1, <2>1, <2>2, <2>5 DEF LoadDecides, ServingIsBacked
<1>2. QED
  BY <1>1, ServiceInvariant, LoadHasDecided, HandlersHaveAll, PTL

=============================================================================
