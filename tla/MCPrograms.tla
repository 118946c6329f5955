----------------------------- MODULE MCPrograms -----------------------------
(***************************************************************************)
(* An instance of Programs: the strings that occur, with what the standard *)
(* library makes of them, and the environments services are started in.    *)
(***************************************************************************)
EXTENDS Programs

Parts(scheme, host, login, password, database) ==
    [scheme |-> scheme, host |-> host, user |-> login, password |-> password,
     database |-> database]

\* Words that url.Parse takes for a bare path, or for nothing.
Plain ==
    {"a", "ab", "7", "0", "65535", "65536", "9090", "50051", "debug", "info", "warn", "error",
     "DEBUG", "development", "production", "staging", "prod", "a@b", "good", "bad", "  "}
Web == {"http://h", "http://localhost:3000", "http://accounts:9090"}
Redis == {"redis://valkey:6379", "redis://h"}

MCWord ==
    Plain \cup Web \cup Redis \cup
    {"", "%", "http:", "rediss://h", "amqp://h", "amqp://u@h", "amqp://:p@h", DefaultRabbitMQ,
     "postgres://h/d", "postgres://:p@h/d", "postgres://u:p@h", "postgresql://u:p@h/d", DefaultDatabase}

MCURLOf == [w \in MCWord |->
    CASE w \in Plain -> Parts("", FALSE, "none", FALSE, TRUE)
      [] w = "" -> Parts("", FALSE, "none", FALSE, FALSE)
      [] w = "%" -> Unparsed
      [] w = "http:" -> Parts("http", FALSE, "none", FALSE, FALSE)
      [] w \in Web -> Parts("http", TRUE, "none", FALSE, FALSE)
      [] w \in Redis -> Parts("redis", TRUE, "none", FALSE, FALSE)
      [] w = "rediss://h" -> Parts("rediss", TRUE, "none", FALSE, FALSE)
      [] w = "amqp://h" -> Parts("amqp", TRUE, "none", FALSE, FALSE)
      [] w = "amqp://u@h" -> Parts("amqp", TRUE, "name", FALSE, FALSE)
      [] w = "amqp://:p@h" -> Parts("amqp", TRUE, "empty", TRUE, FALSE)
      [] w = DefaultRabbitMQ -> Parts("amqp", TRUE, "name", TRUE, FALSE)
      [] w = "postgres://h/d" -> Parts("postgres", TRUE, "none", FALSE, TRUE)
      [] w = "postgres://:p@h/d" -> Parts("postgres", TRUE, "empty", TRUE, TRUE)
      [] w = "postgres://u:p@h" -> Parts("postgres", TRUE, "name", TRUE, FALSE)
      [] w = DefaultDatabase -> Parts("postgres", TRUE, "name", TRUE, TRUE)
      [] w = "postgresql://u:p@h/d" -> Parts("postgresql", TRUE, "name", TRUE, TRUE)]

MCBlank == {"", "  "}
MCMailbox == {"a@b"}
MCRunes == [w \in MCWord |-> CASE w = "" -> 0
                               [] w \in {"a", "%", "7", "0"} -> 1
                               [] w \in {"ab", "  "} -> 2
                               [] OTHER -> 3]
MCIntOf == [w \in MCWord |-> CASE w = "0" -> 0 [] w = "7" -> 7 [] w = "9090" -> 9090
                               [] w = "50051" -> 50051 [] w = "65535" -> 65535
                               [] w = "65536" -> 65536 [] OTHER -> Unparsed]
MCNumber == {-1, 0, 1, 2, 3, 7, 9090, 50051, 65535, 65536}
MCList == UNION {[1..n -> {"  ", "a", "ab"}] : n \in 0..3}

\* What the program that builds schemas passes to its calls, and checks.
MCProbe == {"", "  ", "a", "ab", "%", "a@b", "http:", "http://h", "redis://h", "amqp://:p@h",
            "amqp://u@h", "postgres://:p@h/d", "postgres://u:p@h", DefaultDatabase}
MCWordSets == {{"a", "ab"}, {"ab", "", "%"}}
MCNumberSets == {{1, 2}, {0, 2, 7}}
MCListSets == {{l \in MCList : Len(l) > 1 => l[1] # l[2]}}

Alternatives ==
    [HTTP_PORT |-> {"0", "65535", "65536", "a", "  "},
     GRPC_PORT |-> {"65536", "a"},
     ACCESS_SIGNING_KEY |-> {"", "  ", "bad"},
     ACCESS_PUBLIC_KEY |-> {"", "  ", "bad"},
     PUBLIC_APP_URL |-> {"  ", "http:"},
     ACCOUNTS_URL |-> {"  ", "%", "a", "http:", "http://h"},
     LOG_LEVEL |-> {"warn", "DEBUG", "  "},
     REDIS_URL |-> {"rediss://h", "http://h", "%"},
     ENVIRONMENT |-> {"production", "development", "prod", "  "},
     RABBITMQ_URL |-> {"amqp://h", "amqp://u@h", "amqp://:p@h", "%"},
     DATABASE_URL |-> {"postgresql://u:p@h/d", "postgres://u:p@h", "postgres://h/d",
                      "postgres://:p@h/d", "http:"},
     RESEND_API_KEY |-> {"", "a"},
     MAIL_FROM |-> {"", "a@b"}]

Nothing == [name \in DOMAIN Alternatives |-> ""]
Development == [Nothing EXCEPT !.ACCESS_SIGNING_KEY = "good", !.ACCESS_PUBLIC_KEY = "good"]
Production == [Development EXCEPT !.ENVIRONMENT = "production", !.RESEND_API_KEY = "a",
                                  !.MAIL_FROM = "a@b"]

\* The settings of one service, all good but for at most two of them.
Near(base, settings) ==
    LET names == {settings[i] : i \in DOMAIN settings}
        own == [n \in names |-> base[n]]
        choices == UNION {{<<n, w>> : w \in Alternatives[n]} : n \in names}
    IN  {[own EXCEPT ![c[1]] = c[2], ![d[1]] = d[2]] : c, d \in choices}

MCEnvironments ==
    [accounts |-> Near(Development, AccountsSettings) \cup Near(Production, AccountsSettings),
     profiles |-> Near(Nothing, ProfilesSettings),
     gateway  |-> Near(Development, GatewaySettings)]
=============================================================================
