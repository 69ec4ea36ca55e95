---------------------------- MODULE MCContracts ----------------------------
(***************************************************************************)
(* Each behaviour puts one question to one of the rules of Contracts.      *)
(***************************************************************************)
EXTENDS Contracts, TLC

\* "long" is a lifetime whose double has no room in eight bits.
MCDefaults ==
    [name |-> [word |-> "go-template", style |-> "plain"],
     env |-> [word |-> "local", style |-> "plain"],
     host |-> [word |-> "0.0.0.0", style |-> "plain"], port |-> 3000,
     readTimeout |-> 5, writeTimeout |-> 10, connectTimeout |-> 5, dialTimeout |-> 5,
     url |-> "postgres", maxOpen |-> 10, maxIdle |-> 2,
     logLevel |-> [word |-> "warn", style |-> "plain"],
     redisHost |-> "redis", redisPort |-> 6379, database |-> 0, poolSize |-> 10, minIdle |-> 2,
     lifetime |-> 30, idleTimeout |-> 7,
     app |-> <<"a", ":">>, admin |-> <<"b", ":">>]

\* The values that a file may give to a setting.
Values ==
    [name |-> [word : {"", "shop"}, style : {"plain", "padded", "upper"}],
     env |-> [word : {"", "production", "dev"}, style : {"plain", "padded", "upper"}],
     host |-> [word : {"", "localhost"}, style : {"plain", "padded"}],
     port |-> {0, 1, 65535, 65536},
     readTimeout |-> {-1, 0, 1}, writeTimeout |-> {0, 1}, connectTimeout |-> {0, 1},
     dialTimeout |-> {0, 1}, url |-> {"other"}, maxOpen |-> {0, 1, 2}, maxIdle |-> {-1, 0, 1, 2, 11},
     logLevel |-> [word : {"", "info", "debug"}, style : {"plain", "upper"}],
     redisHost |-> {""}, redisPort |-> {0, 1, 65536}, database |-> {-1, 1}, poolSize |-> {0, 1, 2},
     minIdle |-> {-1, 1, 11},
     lifetime |-> {-1, 0, 6, 7, 63, 64, 127}, idleTimeout |-> {-1, 0, 30, 31, 127}]

\* A prefix of one of the realms, which may continue that of the other.
Prefixes ==
    {<<>>, <<" ">>, <<"a">>, <<" ", "a", ":", " ">>, <<"a", " ", "b">>, <<"a", ":", "session">>}
        \cup {<<"a", ":", "user">> \o rest :
                rest \in {<<>>, <<":", "user">>, <<":", "user", ":", "device">>,
                          <<":", "id", ":", "device", ":", "user">>}}

\* Files that set one thing, two things that are compared, or something unknown.
MCFiles ==
    {Blank, <<>>, [unknown |-> 1]}
        \cup UNION {{setting :> v : v \in Values[setting]} : setting \in DOMAIN Values}
        \cup UNION {{(pair[1] :> v @@ pair[2] :> w) : v \in Values[pair[1]], w \in Values[pair[2]]} :
                pair \in {<<"maxOpen", "maxIdle">>, <<"poolSize", "minIdle">>,
                          <<"lifetime", "idleTimeout">>}}
        \cup [{"app", "admin"} -> Prefixes]

\* The words that a prefix is made of, the blank among them.
MCTokens == {"a", "b", "id", "user", "device", "session", ":", " "}

Template == [module |-> <<"go", "-", "template">>, name |-> <<"go", "-", "template">>]

Named(name) == [module |-> <<"example.com", "/">> \o name, name |-> name]

\* A path with a slash and no host, which the script takes.
Local(name) == [module |-> <<"internal", "/", "internal">>, name |-> name]

\* Words of more than one token, in which names of one may be.
MCSpelling ==
    [module |-> <<"module">>, name |-> <<"name">>, user |-> <<"use", "r">>,
     internal |-> <<"internal">>, local |-> <<"lo", "cal">>, auth |-> <<"auth">>,
     app |-> <<"app">>]

MCIdentities ==
    {Template, Named(<<"order">>), Named(<<"order", "s">>), Named(<<"order", "-", "service">>),
     Named(<<"app">>), Named(<<"internal">>), Named(<<"use", "r">>), Named(<<"cal">>),
     Local(<<"order">>), Local(<<"module">>), Local(<<"name", "-", "r">>),
     [module |-> <<"example.com">>, name |-> <<"order">>],
     [module |-> <<"example.com", "/", "app">>, name |-> <<"order", "-", "service">>]}

MCNext == chain = None /\ file = None /\ asked = None /\ Next

MCSpec == Init /\ [][MCNext]_vars
=============================================================================
