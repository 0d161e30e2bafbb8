------------------------------- MODULE Config --------------------------------
(***************************************************************************)
(* How the process starts: cmd/anekbot/config.go turns the config file and *)
(* the environment into a configuration or refuses it, and main.go builds  *)
(* the bot from it.  Both happen once, before the first update.            *)
(*                                                                         *)
(* A string is a value of which only equality matters, "" where it is left *)
(* out; a template is the sequence of its characters that matter, "%", "s" *)
(* and another.  Fractions are counted in units of 1/2.                    *)
(***************************************************************************)
EXTENDS Integers, FiniteSets, ProviderOrder

CONSTANTS MaxRoundRobinWeight, Omitted, Refused

\* The default of a field of Limits is positive; how large it is does not matter.
CONSTANT DefaultLimit

ASSUME ConfigAssumption == {MaxRoundRobinWeight, DefaultLimit} \subseteq Nat \ {0}

or(v, def) == IF v # "" THEN v ELSE def
fileEnvDefault(fileValue, envValue, def) == or(fileValue, or(envValue, def))
enabled(v) == v # "false"

-----------------------------------------------------------------------------
\* Whether there is a key: api_key, or else the variable that api_key_env names.
resolveAPIKey(auth, defaultEnv, env) == auth.api_key # "" \/ env[or(auth.api_key_env, defaultEnv)] # ""

\* A provider's entry names its backends; exactly one is right.
OneBackend(pc) == Cardinality(pc.backends) = 1

buildProvider(pc) ==
    [name |-> pc.name, weight |-> IF pc.weight = Omitted THEN 1 ELSE pc.weight]

HasKey(pc, env) ==
    \E b \in pc.backends :
       resolveAPIKey(pc, IF b = "gemini" THEN "GEMINI_API_KEY" ELSE "HF_API_KEY", env)

ParseAlgorithm(s) == or(s, "round_robin")

\* An entry is refused even if the provider it describes is skipped for want of a key.
ProvidersRefused(entries, algorithm) ==
    \/ \E i \in DOMAIN entries :
          \/ entries[i].name = ""
          \/ \E j \in 1 .. i - 1 : entries[j].name = entries[i].name
          \/ algorithm # "order" /\ entries[i].weight # Omitted /\ entries[i].weight < 1
          \/ ~OneBackend(entries[i])

Providers(entries, env) ==
    LET kept == EntriesAt(entries, {i \in DOMAIN entries : HasKey(entries[i], env)})
    IN  [i \in DOMAIN kept |-> buildProvider(kept[i])]

WeightsOf(providers) == [i \in DOMAIN providers |-> providers[i].weight]

\* withDefaults, field by field.
withDefaults(limits) ==
    [field \in DOMAIN limits |-> IF limits[field] <= 0 THEN DefaultLimit ELSE limits[field]]

NewPromotionsRefused(p) ==
    \/ p.frequency < 0 \/ p.frequency > 2
    \/ \E i \in DOMAIN p.items :
          \/ p.items[i].message = ""
          \/ p.items[i].weight <= 0
          \/ p.items[i].link = "invalid"

-----------------------------------------------------------------------------
\* Mutant of Seconds: the second sign of "%%" is a first one as well.
SecondsNoSkip(tmpl, seconds) ==
    \A i \in DOMAIN tmpl : i \in seconds <=> i > 1 /\ tmpl[i - 1] = "%"

\* The characters that validateAIJokePromptTemplate's loop skips to: the second of
\* each pair, after a "%" that is not the second of another.
Seconds(tmpl, seconds) ==
    \A i \in DOMAIN tmpl :
       i \in seconds <=> i > 1 /\ tmpl[i - 1] = "%" /\ i - 1 \notin seconds

\* No "%" is left without a second; each pair is "%%" or "%s", and one is "%s".
validateAIJokePromptTemplate(tmpl) ==
    \E seconds \in SUBSET DOMAIN tmpl :
       /\ Seconds(tmpl, seconds)
       /\ \A i \in seconds : tmpl[i] \in {"%", "s"}
       /\ Cardinality({i \in seconds : tmpl[i] = "s"}) = 1
       /\ \A i \in DOMAIN tmpl \ seconds : tmpl[i] = "%" => i < Len(tmpl)

DefaultTemplate == <<"x", "%", "s", "x">>

-----------------------------------------------------------------------------
\* The parts of loadConfig's result that do not come from the providers.
Settings(file, env) ==
    [mode        |-> fileEnvDefault(file.mode, env["ANEKBOT_MODE"], "poll"),
     token       |-> fileEnvDefault(file.token, env["BOT_TOKEN"], ""),
     secret      |-> fileEnvDefault(file.secret, env["WEBHOOK_SECRET_TOKEN"], ""),
     logLevel    |-> fileEnvDefault(file.logLevel, env["LOG_LEVEL"], "warn"),
     webhookPath |-> or(file.webhookPath, "/webhook"),
     prometheus  |-> file.prometheus = "true",
     prometheusPath  |-> or(file.prometheusPath, "/metrics"),
     prometheusToken |-> fileEnvDefault(file.prometheusToken, env["METRICS_TOKEN"], ""),
     template    |-> IF file.template = <<>> THEN DefaultTemplate ELSE file.template]

SettingsRefused(s) ==
    \/ s.token = ""
    \/ s.mode \notin {"webhook", "poll"}
    \/ s.mode = "webhook" /\ s.secret = ""
    \/ /\ s.mode = "webhook" /\ s.prometheus
       /\ \/ s.prometheusToken = ""
          \/ s.prometheusPath \in {s.webhookPath, "/healthz"}
    \/ s.logLevel \notin {"trace", "debug", "warn"}
    \/ ~validateAIJokePromptTemplate(s.template)

\* loadConfig: the first error ends it, and any error ends the process.
loadConfig(file, env) ==
    LET algorithm == ParseAlgorithm(file.algorithm)
        providers == Providers(file.providers, env)
        settings  == Settings(file, env)
    IN  IF \/ algorithm \notin {"order", "round_robin", "random"}
           \/ ProvidersRefused(file.providers, algorithm)
           \/ algorithm = "round_robin" /\ Total(WeightsOf(providers)) > MaxRoundRobinWeight
           \/ file.promotions # Omitted /\ NewPromotionsRefused(file.promotions)
           \/ SettingsRefused(settings)
        THEN Refused
        ELSE [algorithm |-> algorithm, providers |-> providers, settings |-> settings,
              limits |-> withDefaults(file.limits), promotions |-> file.promotions,
              enabled |-> {part \in {"anek", "swearing", "questions", "inline"} :
                              enabled(file.enabled[part])},
              admins |-> file.admins]

-----------------------------------------------------------------------------
\* main: the handlers that are not nil. An LLM needs a provider.
HasQuestions(config) == "questions" \in config.enabled /\ config.providers # <<>>

Handlers(config) ==
    (config.enabled \intersect {"anek", "swearing"})
    \union {"help"}
    \union (IF HasQuestions(config) THEN {"questions"} ELSE {})
    \union (IF config.admins # {} THEN {"stats"} ELSE {})

\* buildHelpText: what the bot says it does. It takes no account of inline mode's
\* own switch.
HelpText(config) ==
    (config.enabled \intersect {"anek", "swearing"})
    \union (IF "anek" \in config.enabled THEN {"inline"} ELSE {})
    \union (IF HasQuestions(config) THEN {"questions"} ELSE {})

\* runWebhook: the paths that are registered with the server, one by one; a second
\* registration of a path panics.
Routes(config) ==
    <<config.settings.webhookPath, "/healthz">>
    \o (IF config.settings.prometheus THEN <<config.settings.prometheusPath>> ELSE <<>>)
=============================================================================
