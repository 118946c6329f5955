------------------------------ MODULE Service -------------------------------
(***************************************************************************)
(* The life of one process, accounts, profiles or gateway: run in          *)
(* cmd/main.go, from config.Load to the exit, with the goroutines it       *)
(* starts (relay, HTTP server, handlers) and the resources it closes.      *)
(***************************************************************************)
EXTENDS Config, FiniteSets

CONSTANTS
    Environments,  \* per kind of service, the environments it may be started in
    GoodKey,       \* words that ParseSigningKey or ParsePublicKey accepts
    HTTPRequest,   \* bound: requests that reach the process
    MaxConns,      \* connections of the pool
    NoKind, NoEnv, NoConfig

Kinds == {"accounts", "profiles", "gateway"}

SettingsOf(k) == CASE k = "accounts" -> AccountsSettings
                   [] k = "profiles" -> ProfilesSettings
                   [] k = "gateway"  -> GatewaySettings

ASSUME ServiceAssumption ==
    /\ GoodKey \subseteq Word
    /\ MaxConns \in Nat \ {0}
    /\ NoKind \notin Kinds
    /\ IsFiniteSet(HTTPRequest)
    /\ \A k \in Kinds : \A e \in Environments[k] :
         \A i \in DOMAIN SettingsOf(k) : e[SettingsOf(k)[i]] \in Word

VARIABLES
    kind,       \* which service this is
    env,        \* its environment, forgotten once it is read
    errs,       \* what Load returned
    cfg,        \* the configuration in use
    todo,       \* the statements run has still to execute
    deferred,   \* its deferred calls, the last one first to run
    open,       \* those of the pool, the connection and the channel not closed
    cancelled,  \* ctx is done: a signal has come, or stop has been called
    relay,      \* where the relay's goroutine is
    listener,   \* the HTTP server
    request,    \* where each request is
    late,       \* Shutdown's five seconds have passed
    status      \* what run returns

serviceVars ==
    <<kind, env, errs, cfg, todo, deferred, open, cancelled, relay, listener, request, late, status>>

AccountsRun ==
    <<"load", "notify", "pool", "connection", "channel", "relay", "key", "listen", "select">>

ProfilesRun == <<"load", "notify", "pool", "connection", "consume">>

GatewayRun == <<"load", "key", "notify", "listen", "select">>

ServiceInit ==
    /\ kind = NoKind /\ env = NoEnv /\ errs = <<>> /\ cfg = NoConfig
    /\ todo = <<>> /\ deferred = <<>> /\ open = {}
    /\ cancelled = FALSE /\ late = FALSE
    /\ relay = "off" /\ listener = "off"
    /\ request = [r \in HTTPRequest |-> "none"]
    /\ status = "none"

At(step) == todo # <<>> /\ Head(todo) = step

Exited == At("exited")

\* run returns: the deferred calls come next.
Return(result) == todo' = <<"return">> /\ status' = result

Proceed == todo' = Tail(todo) /\ UNCHANGED status

Defer(call) == deferred' = Append(deferred, call)

StartProcess ==
    /\ kind = NoKind
    /\ kind' \in Kinds
    /\ env' \in Environments[kind']
    /\ todo' = CASE kind' = "accounts" -> AccountsRun
                 [] kind' = "profiles" -> ProfilesRun
                 [] kind' = "gateway"  -> GatewayRun
    /\ UNCHANGED <<errs, cfg, deferred, open, cancelled, relay, listener, request, late, status>>

Load ==
    /\ At("load")
    /\ errs' = CASE kind = "accounts" -> AccountsErrors(env)
                 [] kind = "profiles" -> ProfilesErrors(env)
                 [] kind = "gateway"  -> GatewayErrors(env)
    /\ IF HasErrors(errs')
         THEN Return("error") /\ UNCHANGED cfg
         ELSE /\ Proceed
              /\ cfg' = CASE kind = "accounts" -> AccountsConfig(env)
                          [] kind = "gateway"  -> GatewayConfig(env)
                          [] OTHER -> NoConfig
    /\ UNCHANGED <<kind, env, deferred, open, cancelled, relay, listener, request, late>>

\* signal.NotifyContext; from here on a signal no longer kills the process.
Notify ==
    /\ At("notify")
    /\ Proceed
    /\ Defer("stop")
    /\ env' = NoEnv
    /\ UNCHANGED <<kind, errs, cfg, open, cancelled, relay, listener, request, late>>

\* pgxpool.New, then Ping, which fails when ctx is done.
OpenPool ==
    /\ At("pool")
    /\ \/ ~cancelled /\ Proceed /\ Defer("pool") /\ open' = open \cup {"pool"}
       \/ Return("error") /\ Defer("pool") /\ open' = open \cup {"pool"}
       \/ Return("error") /\ UNCHANGED <<deferred, open>>
    /\ UNCHANGED <<kind, env, errs, cfg, cancelled, relay, listener, request, late>>

\* amqp.Dial and NewRabbitMQPublisher, which take no context.
OpenBroker(part) ==
    /\ At(part)
    /\ \/ Proceed /\ Defer(part) /\ open' = open \cup {part}
       \/ Return("error") /\ UNCHANGED <<deferred, open>>
    /\ UNCHANGED <<kind, env, errs, cfg, cancelled, relay, listener, request, late>>

StartRelay ==
    /\ At("relay")
    /\ Proceed
    /\ relay' = "between"
    /\ UNCHANGED <<kind, env, errs, cfg, deferred, open, cancelled, listener, request, late>>

\* In the accounts service this comes after the relay has started.
ParseKey ==
    /\ At("key")
    /\ IF cfg.key \in GoodKey THEN Proceed ELSE Return("error")
    /\ UNCHANGED <<kind, env, errs, cfg, deferred, open, cancelled, relay, listener, request, late>>

Listen ==
    /\ At("listen")
    /\ Proceed
    /\ listener' = "starting"
    /\ UNCHANGED <<kind, env, errs, cfg, deferred, open, cancelled, relay, request, late>>
-----------------------------------------------------------------------------
\* The goroutine of ListenAndServe: it binds the port, or fails at once or later.
Serve ==
    /\ \/ listener = "starting" /\ listener' \in {"open", "failed"}
       \/ listener = "open" /\ listener' = "failed"
    /\ ~Exited
    /\ UNCHANGED <<kind, env, errs, cfg, todo, deferred, open, cancelled, relay, request, late, status>>

\* A handler at work has no connection, one, one and waits for another, or two.
Active == {r \in HTTPRequest : request[r] \in {"running", "holding", "wanting", "both"}}

\* Mutated: the select returns when ctx is done, without Shutdown.
SelectThenReturn ==
    /\ At("select")
    /\ \/ cancelled /\ Return("ok") /\ listener' = "closed"
       \/ listener = "failed" /\ Return("error") /\ UNCHANGED listener
    /\ UNCHANGED <<kind, env, errs, cfg, deferred, open, cancelled, relay, request, late>>

\* The select of run, and Shutdown's first act: the listener is closed, and a
\* server that has not begun to listen never does.
Select ==
    /\ At("select")
    /\ \/ /\ cancelled
          /\ todo' = <<"drain">>
          /\ listener' = IF listener = "failed" THEN "failed" ELSE "closed"
          /\ UNCHANGED status
       \/ listener = "failed" /\ Return("error") /\ UNCHANGED listener
    /\ UNCHANGED <<kind, env, errs, cfg, deferred, open, cancelled, relay, request, late>>

\* Shutdown waits for the handlers, five seconds at most.
Drain ==
    /\ At("drain")
    /\ \/ Active = {} /\ Return("ok") /\ UNCHANGED late
       \/ Active # {} /\ Return("error") /\ late' = TRUE
    /\ UNCHANGED <<kind, env, errs, cfg, deferred, open, cancelled, relay, listener, request>>

\* profiles.Consume returns nil when ctx is done, an error when its channel is closed.
Consume ==
    /\ At("consume")
    /\ \/ cancelled /\ Return("ok")
       \/ Return("error")
    /\ UNCHANGED <<kind, env, errs, cfg, deferred, open, cancelled, relay, listener, request, late>>

RelayHolds == relay \in {"open", "sent", "marked"}

Holders == {r \in HTTPRequest : request[r] \in {"holding", "wanting", "both"}}

Twice == {r \in HTTPRequest : request[r] = "both"}

\* The connections that are out.
Held ==
    Cardinality(Holders) + Cardinality(Twice) + (IF RelayHolds THEN 1 ELSE 0)

\* Mutated: the pool is closed first, while the relay may wait for a confirm.
UnwindPoolFirst ==
    /\ At("return") /\ deferred # <<>>
    /\ LET pool == {i \in DOMAIN deferred : deferred[i] = "pool"}
           next == IF pool = {} THEN Len(deferred) ELSE CHOOSE i \in pool : TRUE
           call == deferred[next]
       IN  /\ open' = open \ (IF call = "connection" THEN {"connection", "channel"} ELSE {call})
           /\ deferred' = IF call = "pool" /\ Held > 0 THEN deferred
                          ELSE SubSeq(deferred, 1, next - 1)
                               \o SubSeq(deferred, next + 1, Len(deferred))
           /\ cancelled' = (cancelled \/ call = "stop")
    /\ UNCHANGED <<kind, env, errs, cfg, todo, relay, listener, request, late, status>>

\* The deferred calls run in reverse.  pool.Close lends no connection any more
\* and waits for those that are out; closing the connection closes its channel.
Unwind ==
    /\ At("return") /\ deferred # <<>>
    /\ LET call == deferred[Len(deferred)]
       IN  /\ open' = open \ (IF call = "connection" THEN {"connection", "channel"} ELSE {call})
           /\ deferred' = IF call = "pool" /\ Held > 0 THEN deferred
                          ELSE SubSeq(deferred, 1, Len(deferred) - 1)
           /\ cancelled' = (cancelled \/ call = "stop")
    /\ UNCHANGED <<kind, env, errs, cfg, todo, relay, listener, request, late, status>>

\* main returns, or log.Fatal exits: every goroutine is gone.
Exit ==
    /\ At("return") /\ deferred = <<>>
    /\ todo' = <<"exited">>
    /\ request' = [r \in HTTPRequest |-> IF r \in Active THEN "cut" ELSE request[r]]
    /\ UNCHANGED <<kind, env, errs, cfg, deferred, open, cancelled, relay, listener, late, status>>

\* SIGINT or SIGTERM.
Signal ==
    /\ "stop" \in {deferred[i] : i \in DOMAIN deferred}
    /\ ~cancelled
    /\ cancelled' = TRUE
    /\ UNCHANGED <<kind, env, errs, cfg, todo, deferred, open, relay, listener, request, late, status>>
-----------------------------------------------------------------------------
Move(r, from, to) == request[r] = from /\ request' = [request EXCEPT ![r] = to]

Arrive(r) == listener = "open" /\ Move(r, "none", "running")

\* The pool lends nothing once it is closed: the caller gets an error.
Lent(to) == IF "pool" \in open THEN to ELSE "failed"

\* Mutated: a connection is lent whatever is out already.
AcquireUnbounded(r) ==
    /\ kind = "accounts"
    /\ \/ Move(r, "running", Lent("holding"))
       \/ Move(r, "wanting", Lent("both"))

\* A handler of the accounts service asks the pool for a connection and waits
\* while all are out, on a closed pool too: Close wakes nobody.
Acquire(r) ==
    /\ kind = "accounts" /\ Held < MaxConns
    /\ \/ Move(r, "running", Lent("holding"))
       \/ Move(r, "wanting", Lent("both"))

\* A refresh finds that another one has revoked its row: it goes on to revoke
\* all sessions, for which it asks for a second connection and keeps the first.
\* Sessions says when that happens; here it may happen to any holder.
Lose(r) == Move(r, "holding", "wanting")

Release(r) == Move(r, "both", "holding") \/ Move(r, "holding", "running")

Answer(r) == Move(r, "running", "answered")

RequestStep(r) ==
    /\ ~Exited
    /\ Acquire(r) \/ Lose(r) \/ Release(r) \/ Answer(r)
    /\ UNCHANGED <<kind, env, errs, cfg, todo, deferred, open, cancelled, relay, listener, late, status>>

\* The context of a request that waits for a second connection ends, its client
\* has gone say: the refresh fails and its rollback gives the first one back.
\* Shutdown does not do that, so nothing makes it happen.
GiveUp(r) ==
    /\ ~Exited
    /\ Move(r, "wanting", "answered")
    /\ UNCHANGED <<kind, env, errs, cfg, todo, deferred, open, cancelled, relay, listener, late, status>>

RequestArrives(r) ==
    /\ ~Exited
    /\ Arrive(r)
    /\ UNCHANGED <<kind, env, errs, cfg, todo, deferred, open, cancelled, relay, listener, late, status>>

RelayMoves(from, to) ==
    /\ ~Exited
    /\ relay = from /\ relay' = to
    /\ UNCHANGED <<kind, env, errs, cfg, todo, deferred, open, cancelled, listener, request, late, status>>

\* A pass begins with a connection of the pool; Begin fails when ctx is done.
RelayTick == ~cancelled /\ "pool" \in open /\ Held < MaxConns /\ RelayMoves("between", "open")

RelaySends == ~cancelled /\ "channel" \in open /\ RelayMoves("open", "sent")

\* The broker may take its time, or never confirm.
RelayConfirmed == RelayMoves("sent", "marked")

\* Publish gives up when ctx is done or the channel is closed, the pass ends by
\* its commit or its rollback, and Run returns when ctx is done.
RelayStep ==
    \/ (cancelled \/ "channel" \notin open) /\ RelayMoves("sent", "marked")
    \/ RelayMoves("marked", "between")
    \/ RelayMoves("open", "between")
    \/ cancelled /\ RelayMoves("between", "off")

Main ==
    \/ Load \/ Notify \/ OpenPool \/ OpenBroker("connection") \/ OpenBroker("channel")
    \/ StartRelay \/ ParseKey \/ Listen \/ Select \/ Drain \/ Consume \/ Unwind \/ Exit

ServiceNext ==
    \/ StartProcess \/ Main \/ Serve \/ Signal
    \/ RelayTick \/ RelaySends \/ RelayConfirmed \/ RelayStep
    \/ \E r \in HTTPRequest : RequestArrives(r) \/ RequestStep(r) \/ GiveUp(r)

\* run and its goroutines go on, and so does a handler that waits for nothing.
\* One that waits for the pool goes on if a connection stays free.  The broker's
\* confirms, signals, requests, clients that go away and failures are not fair.
ServiceFairness ==
    /\ WF_serviceVars(Main)
    /\ WF_serviceVars(RelayStep)
    /\ \A r \in HTTPRequest : WF_serviceVars(RequestStep(r))
-----------------------------------------------------------------------------
RequestStates ==
    {"none", "running", "holding", "wanting", "both", "answered", "failed", "cut"}

ServiceTypeOK ==
    /\ kind \in Kinds \cup {NoKind}
    /\ deferred \in Seq({"stop", "pool", "connection", "channel"})
    /\ open \subseteq {"pool", "connection", "channel"}
    /\ cancelled \in BOOLEAN /\ late \in BOOLEAN
    /\ relay \in {"off", "between", "open", "sent", "marked"}
    /\ listener \in {"off", "starting", "open", "closed", "failed"}
    /\ request \in [HTTPRequest -> RequestStates]
    /\ status \in {"none", "ok", "error"}
    /\ Held <= MaxConns

Settings == SettingsOf(kind)

\* Load reports "every invalid field, not just the first" (profiles config.go),
\* each once, in a fixed order, and nothing else: a port that is no port is not
\* replaced by the fallback (doc of portField), an unset setting that has a
\* fallback is no reason to stop, one without is, and so are missing mail
\* settings anywhere but in development.
RefusalIsComplete ==
    kind # NoKind /\ env # NoEnv /\ ~At("load") =>
        [i \in DOMAIN errs |-> errs[i].field[1]]
            = Selection(Settings, {i \in DOMAIN Settings : Unfit(env, Settings[i])})

\* What handlers work with, apart from the settings that Load has checked.
HandlersBacked ==
    /\ cfg.key \in GoodKey
    /\ kind = "accounts" =>
         /\ {"pool", "connection", "channel"} \subseteq open
         /\ cancelled \/ relay # "off"

\* While requests are let in, what their handlers rely on is there: a port, a
\* key that was parsed, mail settings wherever Resend is used, the pool and the
\* broker not closed, the relay at work unless ctx is done.  run closes nothing
\* before the listener, whatever fails and whenever the signal comes.
ServingIsBacked ==
    listener = "open" =>
        /\ cfg.port \in 1..MaxPort
        /\ cfg.resend => cfg.mail
        /\ HandlersBacked

\* A request that was let in meets a closed pool, or loses its process, only if
\* Shutdown has waited five seconds for it or the server had failed; run then
\* returns an error.  No transaction of the relay outlives the pool, although
\* nobody waits for the relay itself.
OrderlyExit ==
    /\ \A r \in HTTPRequest : request[r] \in {"failed", "cut"} =>
         (late \/ listener = "failed") /\ status = "error"
    /\ Exited => ~RelayHolds

\* Every connection is kept by a refresh that waits for another one.
PoolStarved == Cardinality({r \in HTTPRequest : request[r] = "wanting"}) = MaxConns

\* A signal, or a failure at any step of run, ends the process, whatever the relay
\* waits for: pool.Close does not wait for ever for a confirm that never comes.
\* "Blocks until the process receives SIGINT or SIGTERM" (doc of run) has this one
\* exception: a pool that is all in the hands of refreshes that lost a race, for
\* nothing ends their wait.  Then, and only then, run never returns.
StopsWhenTold == (cancelled \/ At("return")) ~> (Exited \/ []PoolStarved)
-----------------------------------------------------------------------------
(* Why OrderlyExit, RefusalIsComplete and ServingIsBacked hold: ServiceInv and *)
(* LoadDecides are inductive together, proved in Service_proofs.               *)

ServiceSpec == ServiceInit /\ [][ServiceNext]_serviceVars

Course == CASE kind = "accounts" -> AccountsRun
            [] kind = "profiles" -> ProfilesRun
            [] kind = "gateway"  -> GatewayRun

Ahead == {todo[i] : i \in DOMAIN todo}

Deferred == {deferred[i] : i \in DOMAIN deferred}

Over == At("return") \/ At("exited")

\* What run has still to execute is the rest of its statements, until it waits
\* for its handlers, unwinds or is gone.
RunsItsCourse ==
    /\ kind = NoKind => todo = <<>>
    /\ kind # NoKind =>
         \/ todo \in {<<"drain">>, <<"return">>, <<"exited">>}
         \/ \E i \in 1..Len(Course) : todo = SubSeq(Course, i, Len(Course))

\* Nothing listens before "listen" or after Shutdown began; no request comes
\* before something listened.
ListenerFollowsRun ==
    /\ kind \in {NoKind, "profiles"} \/ "listen" \in Ahead => listener = "off"
    /\ At("drain") \/ Over => listener \notin {"starting", "open"}
    /\ listener = "off" => \A r \in HTTPRequest : request[r] = "none"

\* A statement that was executed has done its work, and nothing undoes it before
\* run is over.
WorkStands ==
    ~Over /\ kind # NoKind =>
        /\ kind = "accounts" =>
             /\ \A s \in {"pool", "connection", "channel"} : s \in Ahead \cup open
             /\ "relay" \in Ahead \/ cancelled \/ relay # "off"
        /\ kind # "profiles" => "key" \in Ahead \/ cfg.key \in GoodKey

\* run does not end with handlers at work unless it reports so.
EndIsReported ==
    /\ status # "none" => Over
    /\ Over /\ Active # {} => (late \/ listener = "failed") /\ status = "error"

\* pool.Close comes after every use of the pool.
PoolClosesLast ==
    (RelayHolds \/ "pool" \in open) => "pool" \in Deferred

ServiceInv ==
    /\ ServiceTypeOK
    /\ RunsItsCourse
    /\ ListenerFollowsRun
    /\ WorkStands
    /\ EndIsReported
    /\ PoolClosesLast
    /\ OrderlyExit

\* Load reads an environment of its kind, and what it passes is in use from then on.
LoadDecides ==
    /\ kind # NoKind /\ (env # NoEnv \/ At("load")) => env \in Environments[kind]
    /\ kind \in {"accounts", "gateway"} /\ ~Over /\ ~At("load") =>
         cfg.port \in 1..MaxPort /\ (cfg.resend => cfg.mail)
    /\ RefusalIsComplete
=============================================================================
