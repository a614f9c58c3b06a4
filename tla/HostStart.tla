------------------------------ MODULE HostStart ------------------------------
(***************************************************************************)
(* The start of a host: the environment is validated when app.module is    *)
(* imported, tracing starts, the application is created, its configuration *)
(* is loaded and checked once more, and it listens.  The environment is    *)
(* read four times, by the schema, by startTracing, by configuration.ts    *)
(* and by main.ts, each with rules of its own.                             *)
(*                                                                         *)
(* A string variable is modelled by its length, a flag by its spelling.    *)
(***************************************************************************)
EXTENDS Integers

CONSTANT Environments \* the environments a host may be started with

VARIABLES env,     \* process.env
          stage,   \* how far bootstrap has come
          failed,  \* the stage in which the process ended, if it did
          tracing, \* the SDK is running
          config   \* what loadConfiguration and ConfigService hand out

hostVars == <<env, stage, failed, tracing, config>>

Unset == -1
NodeEnvs == {"unset", "development", "production", "test", "staging"}
Spellings == {"unset", "true", "false", "TRUE", "yes"}
Origins == {"unset", "*", "url", "other"}
Accounts == {"unset", "wellKnown", "own"} \* of the database: postgres, root, ... or not
Lengths == {"API_TOKEN", "METRICS_TOKEN", "MAIL_WEBHOOK_SECRET", "MAIL_USER",
            "MAIL_PASSWORD", "MAIL_DEFAULT_FROM", "OTEL_EXPORTER_OTLP_ENDPOINT"}
Flags == {"OTEL_ENABLED", "MAIL_ENABLED", "MAIL_QUEUE_ENABLED"}

\* The numbers that bound the worker, with the range and default of each.
Numbers == {"MAIL_MAX_ATTEMPTS", "MAIL_QUEUE_BATCH_SIZE", "MAIL_QUEUE_CONCURRENCY",
            "MAIL_RETRY_BASE_DELAY_MS", "MAIL_IDEMPOTENCY_TTL_SEC"}
AtLeast(n) == {i \in Nat : i >= n}
Ranges == [MAIL_MAX_ATTEMPTS |-> 1..20, MAIL_QUEUE_BATCH_SIZE |-> 1..500,
          MAIL_QUEUE_CONCURRENCY |-> 1..100, MAIL_RETRY_BASE_DELAY_MS |-> AtLeast(1000),
          MAIL_IDEMPOTENCY_TTL_SEC |-> AtLeast(60)]
Defaults == [MAIL_MAX_ATTEMPTS |-> 3, MAIL_QUEUE_BATCH_SIZE |-> 20,
            MAIL_QUEUE_CONCURRENCY |-> 5, MAIL_RETRY_BASE_DELAY_MS |-> 10000,
            MAIL_IDEMPOTENCY_TTL_SEC |-> 3600]

Environment ==
    [node : NodeEnvs, length : [Lengths -> AtLeast(0) \cup {Unset}],
     flag : [Flags -> Spellings], number : [Numbers -> Int],
     scalar : Spellings, cors : SUBSET Origins, dbUser : Accounts, dbPassword : Accounts]

ASSUME EnvironmentsAssumption == Environments \subseteq Environment

Stages == {"import", "tracing", "create", "configure", "listen", "listening",
           "exited", "stopped"}

Production(e) == e.node = "production"

\* Joi.boolean: any case of true and false.
True(spelling) == spelling \in {"true", "TRUE"}

LongerThan(n, length) == length >= n
OptionallyLongerThan(n, length) == length \in {Unset, 0} \/ LongerThan(n, length)

-----------------------------------------------------------------------------
(* env.validation.ts                                                       *)

CorsValid(e) == e.cors = {"unset"} \/ (e.cors \subseteq {"*", "url"} /\ e.cors # {})

TokensValid(e) ==
    /\ \/ LongerThan(32, e.length["API_TOKEN"])
       \/ /\ ~Production(e)
          /\ e.length["API_TOKEN"] = Unset \/ LongerThan(16, e.length["API_TOKEN"])
    /\ \/ LongerThan(32, e.length["METRICS_TOKEN"])
       \/ ~Production(e) /\ e.length["METRICS_TOKEN"] \in {Unset, 0}
    /\ OptionallyLongerThan(16, e.length["MAIL_WEBHOOK_SECRET"])

NumbersValid(e) == \A n \in Numbers : e.number[n] \in Ranges[n] \cup {Unset}

DatabaseValid(e) == Production(e) => e.dbUser = "own" /\ e.dbPassword = "own"

\* The mail section is checked in production only, and only for a host that
\* sends mail; a flag that is spelled TRUE counts as set here.
MailValid(e) ==
    Production(e) /\ True(e.flag["MAIL_ENABLED"])
        => \A v \in {"MAIL_DEFAULT_FROM", "MAIL_USER", "MAIL_PASSWORD"} : e.length[v] > 0

Valid(e) ==
    /\ e.node # "staging"
    /\ \A f \in Flags : e.flag[f] # "yes"
    /\ CorsValid(e) /\ TokensValid(e) /\ NumbersValid(e)
    /\ DatabaseValid(e) /\ MailValid(e)

\* ConfigModule writes the defaults of the schema for variables that are missing.
Complete(e) ==
    [node |-> IF e.node = "unset" THEN "development" ELSE e.node,
     length |-> [v \in Lengths |->
         IF e.length[v] # Unset THEN e.length[v]
         ELSE IF v = "API_TOKEN" THEN 29
         ELSE IF v \in {"MAIL_USER", "MAIL_PASSWORD", "MAIL_DEFAULT_FROM"} THEN 0
         ELSE Unset],
     flag |-> [f \in Flags |->
         IF e.flag[f] # "unset" THEN e.flag[f]
         ELSE IF f = "MAIL_QUEUE_ENABLED" THEN "true" ELSE "false"],
     number |-> [n \in Numbers |-> IF e.number[n] = Unset THEN Defaults[n] ELSE e.number[n]],
     scalar |-> e.scalar,
     cors |-> IF e.cors = {"unset"} THEN {"url"} ELSE e.cors,
     dbUser |-> e.dbUser, dbPassword |-> e.dbPassword]

-----------------------------------------------------------------------------
(* configuration.ts and main.ts                                            *)

\* A missing or an empty string: `|| undefined', `!value'.
Given(length) == length > 0

\* Operators whose names end in Mutant are wrong on purpose: put in the place
\* of the operator that follows, each makes a run report a violation.

\* The wildcard is left in.
CorsOriginsMutant(origins) == origins

CorsOrigins(origins) == origins \ {"*"}

\* A flag that is off by default is on when it is spelled "true"; one that is on
\* by default is off when it is spelled "false"; isScalarEnabled asks for no case.
Load(e) ==
    [production |-> Production(e), apiToken |-> e.length["API_TOKEN"],
     metricsToken |-> Given(e.length["METRICS_TOKEN"]),
     webhookSecret |-> Given(e.length["MAIL_WEBHOOK_SECRET"]),
     mailEnabled |-> e.flag["MAIL_ENABLED"] = "true",
     queueEnabled |-> e.flag["MAIL_QUEUE_ENABLED"] # "false",
     defaultFrom |-> Given(e.length["MAIL_DEFAULT_FROM"]),
     authenticated |-> Given(e.length["MAIL_USER"]) /\ Given(e.length["MAIL_PASSWORD"]),
     maxAttempts |-> e.number["MAIL_MAX_ATTEMPTS"],
     scalar |-> True(e.scalar) \/ ~Production(e),
     corsOrigins |-> CorsOrigins(e.cors)]

Config == [production : BOOLEAN, apiToken : Int, metricsToken : BOOLEAN,
           webhookSecret : BOOLEAN, mailEnabled : BOOLEAN, queueEnabled : BOOLEAN,
           defaultFrom : BOOLEAN, authenticated : BOOLEAN, maxAttempts : Int,
           scalar : BOOLEAN, corsOrigins : SUBSET Origins]

-----------------------------------------------------------------------------
(* bootstrap                                                               *)

HostInit ==
    /\ env \in Environments
    /\ stage = "import"
    /\ failed = "none"
    /\ tracing = FALSE
    /\ config = Load(env)

Proceed(from, to) == stage = from /\ stage' = to /\ UNCHANGED failed
Exit == stage' = "exited" /\ failed' = stage

\* ConfigModule.forRoot, evaluated when app.module is imported.
ValidateEnvironment ==
    /\ \/ Valid(env) /\ Proceed("import", "tracing") /\ env' = Complete(env)
       \/ ~Valid(env) /\ stage = "import" /\ Exit /\ UNCHANGED env
    /\ UNCHANGED <<tracing, config>>

\* An exporter is made up when none is configured.
StartTracingMutant ==
    /\ Proceed("tracing", "create")
    /\ tracing' = (env.flag["OTEL_ENABLED"] = "true")
    /\ UNCHANGED <<env, config>>

StartTracing ==
    /\ LET on == env.flag["OTEL_ENABLED"] = "true"
           exporter == Given(env.length["OTEL_EXPORTER_OTLP_ENDPOINT"])
       IN  IF on /\ Production(env) /\ ~exporter
           THEN stage = "tracing" /\ Exit /\ UNCHANGED tracing
           ELSE Proceed("tracing", "create") /\ tracing' = on
    /\ UNCHANGED <<env, config>>

\* NestFactory.create: the database answers, or every attempt to connect fails.
CreateApplication ==
    /\ Proceed("create", "configure") \/ (stage = "create" /\ Exit)
    /\ UNCHANGED <<env, tracing, config>>

\* What loadConfiguration and setupApplication require once more.
ConfigurationSound(c) == Given(c.apiToken) /\ ~(c.production /\ "*" \in c.corsOrigins)

Configure ==
    /\ config' = Load(env)
    /\ IF ConfigurationSound(config') THEN Proceed("configure", "listen")
       ELSE stage = "configure" /\ Exit
    /\ UNCHANGED <<env, tracing>>

\* listen; another process may have the port.
Listen ==
    /\ Proceed("listen", "listening") \/ (stage = "listen" /\ Exit)
    /\ UNCHANGED <<env, tracing, config>>

\* SIGTERM: gracefulShutdown and the shutdown hooks of the application.
Shutdown ==
    /\ Proceed("listening", "stopped")
    /\ tracing' = FALSE
    /\ UNCHANGED <<env, config>>

HostNext ==
    \/ ValidateEnvironment \/ StartTracing \/ CreateApplication
    \/ Configure \/ Listen \/ Shutdown

HostSpec == HostInit /\ [][HostNext]_hostVars

-----------------------------------------------------------------------------
HostTypeOK ==
    /\ env \in Environment
    /\ stage \in Stages
    /\ failed \in Stages \cup {"none"}
    /\ tracing \in BOOLEAN
    /\ config \in Config

\* The four readings of the environment agree where it matters: a host that
\* listens in production has long tokens, admits no origin by wildcard, sends
\* its traces somewhere and, if it sends mail, has a sender and an account,
\* although the schema, the loader and the tracing each parse flags their own way.
ListensAsValidated == stage = "listening" /\ config.production =>
    /\ config.apiToken >= 32 /\ config.metricsToken
    /\ "*" \notin config.corsOrigins
    /\ tracing => Given(env.length["OTEL_EXPORTER_OTLP_ENDPOINT"])
    /\ config.mailEnabled => config.defaultFrom /\ config.authenticated

\* What main.ts checks again after the schema never stops a host: only an
\* invalid environment, missing exporter, database or port does.
LateChecksNeverFire == failed # "configure"
=============================================================================
