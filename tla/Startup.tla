------------------------------- MODULE Startup -------------------------------
(***************************************************************************)
(* Config and ProviderOrder at work: a config file is loaded, and then     *)
(* requests take their turns at the providers it configures.  The          *)
(* properties compare what the operators compute with what they are meant  *)
(* to compute.                                                             *)
(***************************************************************************)
EXTENDS Config

CONSTANTS
    Inputs,  \* the files, each with an environment: <<file, env>>
    Cycles,  \* bound: the turns, in cycles of the providers
    Unread

\* Decoding the file's JSON makes sure of it: an absent list is an empty one, as is
\* a template, and a weight that is there is a number, as every limit is.
IsList(s) == s \in Seq(Range(s))
ASSUME StartupAssumption ==
    /\ Cycles \in Nat
    /\ \A input \in Inputs : LET read == input[1] IN
          /\ IsList(read.providers) /\ IsList(read.template)
          /\ \A i \in DOMAIN read.providers :
                read.providers[i].weight = Omitted \/ read.providers[i].weight \in Int
          /\ \A field \in DOMAIN read.limits : read.limits[field] \in Int
          /\ read.promotions # Omitted =>
                /\ read.promotions.frequency \in Int
                /\ IsList(read.promotions.items)
                /\ \A i \in DOMAIN read.promotions.items :
                      read.promotions.items[i].weight \in Int

VARIABLES
    file, env,
    config,  \* Unread, Refused, or what loadConfig returned
    turn     \* the shared cursor that the next request finds

startVars == <<file, env, config, turn>>

-----------------------------------------------------------------------------
StartInit ==
    /\ \E input \in Inputs : file = input[1] /\ env = input[2]
    /\ config = Unread
    /\ turn = 0

Load ==
    /\ config = Unread
    /\ config' = loadConfig(file, env)
    /\ UNCHANGED <<file, env, turn>>

Accepted == config \notin {Unread, Refused}

weights == WeightsOf(config.providers)

\* The next request finds the cursor advanced by one.
NextRequest ==
    /\ Accepted /\ config.providers # <<>>
    /\ turn < Cycles * Total(weights)
    /\ turn' = turn + 1
    /\ UNCHANGED <<file, env, config>>

StartNext == Load \/ NextRequest
StartSpec == StartInit /\ [][StartNext]_startVars

RoundRobin == Accepted /\ config.providers # <<>> /\ config.algorithm = "round_robin"

-----------------------------------------------------------------------------
Names(order) == Len(order) = Len(weights) /\ Range(order) = DOMAIN weights

\* "Each provider is tried at most once" (llm.go:207-209), and none is left out:
\* with every list of providers that the configuration accepts, whatever the
\* cursor and the random numbers, the order of a request names every provider.
OrdersNameEveryProviderOnce ==
    Accepted /\ config.providers # <<>> =>
       \A order \in attemptOrder(config.algorithm, weights, turn, 1 + Total(weights)) : Names(order)

\* Weights decide who is primary and nothing else. In any run of Total(weights)
\* requests, whichever it starts from, each provider is primary exactly as often
\* as its weight says; and a request whose primary is p falls back to the provider
\* after p in the list, and so on round it.
WeightsDecidePrimaries ==
    RoundRobin =>
       /\ \A p \in DOMAIN weights :
             Cardinality({c \in turn .. turn + Total(weights) - 1 :
                             roundRobinOrder(weights, c)[1] = p}) = weights[p]
       /\ LET order == roundRobinOrder(weights, turn)
          IN  \A i \in 1 .. Len(order) - 1 : order[i + 1] = 1 + (order[i] % Len(weights))

\* With equally likely draws each entry is picked in exact proportion to its
\* weight, the last one included, which is also picked when no weight is left to
\* subtract: w are the weights of providers or of promotions.
InProportion(w) ==
    LET resolution == 2 * Total(w)
    IN  \A p \in DOMAIN w :
           Cardinality({d \in 0 .. resolution - 1 : Pick(w, DOMAIN w, d, resolution) = p}) = 2 * w[p]

\* A random order begins with each provider in proportion to its weight, and a
\* promotion is shown on the configured share of the results, in proportion to
\* its own: at shares of none and of all as well.
PicksFollowWeights ==
    Accepted =>
       /\ config.algorithm # "order" => InProportion(weights)
       /\ config.promotions # Omitted =>
             LET w == [i \in DOMAIN config.promotions.items |-> config.promotions.items[i].weight]
                 resolution == 2 * Total(w)
                 draws == 0 .. resolution - 1
                 frequency == config.promotions.frequency * Total(w)
             IN  \A p \in DOMAIN w :
                    Cardinality({d \in draws \X draws :
                                    PromotionPick(frequency, w, d[1], d[2], resolution) = <<p>>})
                       = frequency * 2 * w[p]

-----------------------------------------------------------------------------
\* What fmt.Sprintf reads as verbs in a template: the runs of "%" of odd length,
\* as a pair of them is a literal.
OddRun(tmpl, i, j) ==
    /\ i <= j /\ (j - i) % 2 = 0
    /\ \A n \in i .. j : tmpl[n] = "%"
    /\ i = 1 \/ tmpl[i - 1] # "%"
    /\ j = Len(tmpl) \/ tmpl[j + 1] # "%"

\* Where these runs end: there is one, and an "s" follows it.
FilledOnce(tmpl) ==
    LET ends == {j \in DOMAIN tmpl : \E i \in DOMAIN tmpl : OddRun(tmpl, i, j)}
    IN  \E end \in DOMAIN tmpl : ends = {end} /\ end < Len(tmpl) /\ tmpl[end + 1] = "s"

\* What the rest of the bot takes for granted of a configuration: the statistics,
\* that a name stands for one provider; LLM and its limiter, that limits are
\* positive; the server, that no path is registered twice, which would be a panic
\* ("/healthz" as the webhook's path, which nothing refuses, is left out); who
\* reads the help, that it names what is handled (inline mode too, which may be
\* switched off); and inline mode, that Sprintf puts the topic into the prompt's
\* template once.
Usable ==
    /\ \A i, j \in DOMAIN config.providers :
          config.providers[i].name = config.providers[j].name => i = j
    /\ \A field \in DOMAIN config.limits : config.limits[field] > 0
    /\ config.settings.mode = "webhook" /\ config.settings.webhookPath # "/healthz" =>
          \A i, j \in DOMAIN Routes(config) : Routes(config)[i] = Routes(config)[j] => i = j
    /\ HelpText(config) \ {"inline"} = Handlers(config) \ {"help", "stats"}
    /\ FilledOnce(config.settings.template)

\* All of this holds of whatever loadConfig accepts.
AcceptedIsUsable == Accepted => Usable
=============================================================================
