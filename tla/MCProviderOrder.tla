--------------------------- MODULE MCProviderOrder ---------------------------
(***************************************************************************)
(* Startup over small families of config files.                            *)
(***************************************************************************)
EXTENDS Startup

CONSTANTS MaxProviders, MaxWeight

-----------------------------------------------------------------------------
\* The families of files: each changes one part of a file that is fine.
Entry(name, weight, backends, key) ==
    [name |-> name, weight |-> weight, backends |-> backends, api_key |-> key, api_key_env |-> ""]
Positive == [MaxConcurrent |-> 1, PerUserLimit |-> 1, PerUserWindow |-> 1, MaxUsers |-> 1,
             PruneInterval |-> 1]
Fine ==
    [mode |-> "", token |-> "t", secret |-> "", logLevel |-> "", webhookPath |-> "",
     prometheus |-> "", prometheusPath |-> "", prometheusToken |-> "", template |-> <<>>,
     algorithm |-> "", providers |-> <<Entry("a", Omitted, {"gemini"}, "k")>>,
     limits |-> Positive, promotions |-> Omitted,
     enabled |-> [part \in {"anek", "swearing", "questions", "inline"} |-> ""], admins |-> {}]
NoEnv == [v \in {"ANEKBOT_MODE", "BOT_TOKEN", "WEBHOOK_SECRET_TOKEN", "LOG_LEVEL",
                 "METRICS_TOKEN", "GEMINI_API_KEY", "HF_API_KEY", "OTHER_KEY"} |-> ""]

Weightings ==
    LET Lists == UNION {[1 .. n -> {Omitted} \union 0 .. MaxWeight] : n \in 0 .. MaxProviders}
    IN  {[Fine EXCEPT !.algorithm = algorithm,
                      !.providers = [i \in DOMAIN given |->
                                        Entry(<<"a", "b", "c">>[i], given[i], {"gemini"}, "k")]] :
            algorithm \in {"", "round_robin", "order", "random", "fastest"}, given \in Lists}

Entries ==
    LET Some == {Entry(name, weight, backends, key) :
                   name \in {"", "a", "b"}, weight \in {0, 2},
                   backends \in SUBSET {"gemini", "huggingface"}, key \in {"", "k"}}
    IN  {[Fine EXCEPT !.algorithm = algorithm, !.providers = <<first, second>>] :
            algorithm \in {"round_robin", "order"}, first \in Some, second \in Some}

\* Each of the two tokens may be missing.
Servers ==
    {[Fine EXCEPT !.mode = mode, !.secret = secret, !.webhookPath = webhookPath,
                  !.prometheus = prometheus, !.prometheusPath = path, !.prometheusToken = token] :
        mode \in {"", "webhook", "poll", "push"}, secret \in {"", "s"}, token \in {"", "s"},
        prometheus \in {"", "true", "false"}, path \in {"", "/webhook", "/healthz", "/m"},
        webhookPath \in {"", "/m", "/metrics", "/healthz"}}

Templates ==
    {[Fine EXCEPT !.template = tmpl] :
        tmpl \in UNION {[1 .. n -> {"%", "s", "x"}] : n \in 0 .. 5}}

Limitings == {[Fine EXCEPT !.limits = limits] : limits \in [DOMAIN Positive -> {-1, 0, 2}]}

Promoting ==
    LET Items == [message : {"", "buy"}, weight : {0, 1, 2}, link : {"", "https", "invalid"}]
    IN  {[Fine EXCEPT !.promotions = [frequency |-> frequency, items |-> items]] :
            frequency \in -1 .. 3, items \in UNION {[1 .. n -> Items] : n \in 0 .. 2}}

Switching ==
    {[Fine EXCEPT !.enabled = switches, !.providers = providers, !.admins = admins] :
        switches \in [DOMAIN Fine.enabled -> {"", "true", "false"}],
        providers \in {<<>>, Fine.providers}, admins \in {{}, {"boss"}}}

Environments ==
    {[v \in DOMAIN NoEnv |-> IF v \in given THEN (IF v = "ANEKBOT_MODE" THEN "webhook" ELSE "warn")
                             ELSE ""] : given \in SUBSET DOMAIN NoEnv}
FromEnvironment ==
    {[Fine EXCEPT !.token = "", !.providers = <<Entry("a", 1, {"gemini"}, ""),
                                              Entry("b", 1, {"huggingface"}, "")>>],
     [Fine EXCEPT !.mode = "poll", !.providers = <<[Entry("a", 1, {"gemini"}, "")
                                              EXCEPT !.api_key_env = "OTHER_KEY"]>>]}

MCInputs ==
    ((Weightings \union Entries \union Servers \union Templates \union Limitings
        \union Promoting \union Switching) \X {NoEnv})
    \union (FromEnvironment \X Environments)
=============================================================================
