--------------------------- MODULE HostStartProofs ---------------------------
(***************************************************************************)
(* Proofs about HostStart, for any set of environments: lengths of strings *)
(* and numbers are not bounded.                                            *)
(***************************************************************************)
EXTENDS HostStart, TLAPS

\* What is left of the schema's promises once the defaults are in.
Validated(e) ==
    /\ e \in Environment
    /\ Given(e.length["API_TOKEN"])
    /\ e.number["MAIL_MAX_ATTEMPTS"] \in 1..20
    /\ Production(e) =>
          /\ e.length["API_TOKEN"] >= 32 /\ e.length["METRICS_TOKEN"] >= 32
          /\ e.flag["MAIL_ENABLED"] = "true" =>
                \A v \in {"MAIL_DEFAULT_FROM", "MAIL_USER", "MAIL_PASSWORD"} :
                    Given(e.length[v])

HostInv ==
    /\ HostTypeOK
    /\ stage \notin {"import", "exited"} => Validated(env)
    /\ stage \in {"listen", "listening"} => config = Load(env)
    /\ stage \in {"import", "tracing"} => ~tracing
    /\ tracing /\ Production(env) => Given(env.length["OTEL_EXPORTER_OTLP_ENDPOINT"])
    /\ failed # "configure"

LEMMA LoadTyped ==
    ASSUME NEW e \in Environment
    PROVE  Load(e) \in Config
<1>1. e.cors \in SUBSET Origins
  BY DEF Environment
<1>2. \A v \in Lengths : e.length[v] \in Int
  BY DEF Environment, AtLeast, Unset
<1>3. e.number["MAIL_MAX_ATTEMPTS"] \in Int
  BY DEF Environment, Numbers
<1>4. CorsOrigins(e.cors) \in SUBSET Origins
  BY <1>1 DEF CorsOrigins
<1>5. e.length["API_TOKEN"] \in Int
  BY <1>2 DEF Lengths
<1> QED
  BY <1>3, <1>4, <1>5 DEF Load, Config, Production, Given, True

LEMMA CompleteValidated ==
    ASSUME NEW e \in Environment, Valid(e)
    PROVE  Validated(Complete(e))
<1> DEFINE c == Complete(e)
<1>1. /\ e.node \in NodeEnvs /\ e.scalar \in Spellings
      /\ e.length \in [Lengths -> AtLeast(0) \cup {Unset}]
      /\ e.flag \in [Flags -> Spellings]
      /\ e.number \in [Numbers -> Int]
      /\ e.cors \in SUBSET Origins /\ e.dbUser \in Accounts /\ e.dbPassword \in Accounts
  BY DEF Environment
<1>2. c.node \in NodeEnvs /\ (c.node = "production" <=> e.node = "production")
  BY <1>1 DEF Complete, NodeEnvs
<1>3. c.length \in [Lengths -> AtLeast(0) \cup {Unset}]
  <2>1. 29 \in AtLeast(0) /\ 0 \in AtLeast(0)
    BY DEF AtLeast
  <2> QED
    BY <1>1, <2>1 DEF Complete
<1>4. c.flag \in [Flags -> Spellings]
  BY <1>1 DEF Complete, Spellings
<1>5. c.number \in [Numbers -> Int]
  <2>1. \A n \in Numbers : Defaults[n] \in Int
    BY DEF Defaults, Numbers
  <2> QED
    BY <1>1, <2>1 DEF Complete
<1>6. /\ c.cors \in SUBSET Origins /\ c.scalar \in Spellings
      /\ c.dbUser \in Accounts /\ c.dbPassword \in Accounts
  BY <1>1 DEF Complete, Origins
<1>7. c \in Environment
  BY <1>2, <1>3, <1>4, <1>5, <1>6 DEF Complete, Environment
<1>8. Given(c.length["API_TOKEN"])
  <2>1. e.length["API_TOKEN"] = Unset \/ e.length["API_TOKEN"] >= 16
    BY <1>1 DEF Valid, TokensValid, LongerThan, Lengths, AtLeast, Unset
  <2>2. c.length["API_TOKEN"] =
           IF e.length["API_TOKEN"] # Unset THEN e.length["API_TOKEN"] ELSE 29
    BY DEF Complete, Lengths
  <2> QED
    BY <1>1, <2>1, <2>2 DEF Given, Lengths, AtLeast, Unset
<1>9. ASSUME Production(c)
      PROVE  /\ c.length["API_TOKEN"] >= 32 /\ c.length["METRICS_TOKEN"] >= 32
             /\ c.flag["MAIL_ENABLED"] = "true" =>
                   \A v \in {"MAIL_DEFAULT_FROM", "MAIL_USER", "MAIL_PASSWORD"} :
                       Given(c.length[v])
  <2>1. Production(e)
    BY <1>2, <1>9 DEF Production
  <2>2. e.length["API_TOKEN"] >= 32 /\ e.length["METRICS_TOKEN"] >= 32
    BY <2>1 DEF Valid, TokensValid, LongerThan
  <2>3. \A v \in Lengths : e.length[v] # Unset => c.length[v] = e.length[v]
    BY DEF Complete
  <2>4. c.length["API_TOKEN"] >= 32 /\ c.length["METRICS_TOKEN"] >= 32
    BY <1>1, <2>2, <2>3 DEF Lengths, Unset
  <2>5. c.flag["MAIL_ENABLED"] = "true" => e.flag["MAIL_ENABLED"] = "true"
    BY DEF Complete, Flags
  <2>6. ASSUME e.flag["MAIL_ENABLED"] = "true",
               NEW v \in {"MAIL_DEFAULT_FROM", "MAIL_USER", "MAIL_PASSWORD"}
        PROVE  Given(c.length[v])
    <3>1. e.length[v] > 0 /\ v \in Lengths
      BY <2>1, <2>6 DEF Valid, MailValid, True, Lengths
    <3> QED
      BY <2>3, <3>1 DEF Given, Unset
  <2> QED
    BY <2>4, <2>5, <2>6
<1>10. c.number["MAIL_MAX_ATTEMPTS"] \in 1..20
  <2>1. /\ "MAIL_MAX_ATTEMPTS" \in Numbers
        /\ Ranges["MAIL_MAX_ATTEMPTS"] = 1..20 /\ Defaults["MAIL_MAX_ATTEMPTS"] = 3
    BY DEF Numbers, Ranges, Defaults
  <2>2. e.number["MAIL_MAX_ATTEMPTS"] \in 1..20 \cup {Unset}
    BY <2>1 DEF Valid, NumbersValid
  <2> QED
    BY <2>1, <2>2 DEF Complete
<1> QED
  BY <1>7, <1>8, <1>9, <1>10 DEF Validated

\* main.ts has nothing left to object to.
LEMMA ConfigureAccepts ==
    ASSUME NEW e, Validated(e)
    PROVE  /\ Given(Load(e).apiToken)
           /\ "*" \notin Load(e).corsOrigins
  BY DEF Validated, Load, CorsOrigins

LEMMA HostStarts == HostInit => HostInv
  BY EnvironmentsAssumption, LoadTyped DEF HostInit, HostInv, HostTypeOK, Stages

LEMMA HostKept == HostInv /\ [HostNext]_hostVars => HostInv'
<1> SUFFICES ASSUME HostInv, [HostNext]_hostVars PROVE HostInv'
  OBVIOUS
<1>1. CASE ValidateEnvironment
  <2>1. CASE Valid(env) /\ Proceed("import", "tracing") /\ env' = Complete(env)
    <3>1. Validated(env')
      BY <2>1, CompleteValidated DEF HostInv, HostTypeOK
    <3>2. /\ stage' = "tracing" /\ stage = "import" /\ UNCHANGED <<failed, tracing, config>>
      BY <1>1, <2>1 DEF ValidateEnvironment, Proceed
    <3> QED
      BY <3>1, <3>2 DEF HostInv, HostTypeOK, Stages, Validated
  <2>2. CASE ~Valid(env) /\ stage = "import" /\ Exit /\ UNCHANGED env
    BY <1>1, <2>2 DEF ValidateEnvironment, Exit, HostInv, HostTypeOK, Stages
  <2> QED
    BY <1>1, <2>1, <2>2 DEF ValidateEnvironment
<1>2. CASE StartTracing
  BY <1>2 DEF StartTracing, Exit, Proceed, HostInv, HostTypeOK, Stages
<1>3. CASE CreateApplication
  BY <1>3 DEF CreateApplication, Exit, Proceed, HostInv, HostTypeOK, Stages
<1>4. CASE Configure
  <2>1. stage = "configure" /\ UNCHANGED <<env, tracing>> /\ config' = Load(env)
    BY <1>4 DEF Configure, Proceed
  <2>2. Validated(env)
    BY <2>1 DEF HostInv
  <2>3. Given(config'.apiToken) /\ "*" \notin config'.corsOrigins
    BY <2>1, <2>2, ConfigureAccepts
  <2>4. stage' = "listen" /\ UNCHANGED failed
    BY <1>4, <2>3 DEF Configure, ConfigurationSound, Proceed
  <2>5. config' \in Config
    BY <2>1, <2>2, LoadTyped DEF Validated
  <2> QED
    BY <2>1, <2>2, <2>4, <2>5 DEF HostInv, HostTypeOK, Stages
<1>5. CASE Listen
  BY <1>5 DEF Listen, Exit, Proceed, HostInv, HostTypeOK, Stages
<1>6. CASE Shutdown
  BY <1>6 DEF Shutdown, Proceed, HostInv, HostTypeOK, Stages
<1>7. CASE UNCHANGED hostVars
  BY <1>7 DEF hostVars, HostInv, HostTypeOK
<1> QED
  BY <1>1, <1>2, <1>3, <1>4, <1>5, <1>6, <1>7 DEF HostNext

LEMMA HostInvariant == HostSpec => []HostInv
  BY HostStarts, HostKept, PTL DEF HostSpec

\* The start of a host is well typed for any environment.
THEOREM HostTyped == HostSpec => []HostTypeOK
<1>1. HostInv => HostTypeOK
  BY DEF HostInv
<1> QED
  BY <1>1, HostInvariant, PTL

\* What main.ts checks once more has been decided by the schema and the filter.
THEOREM LateChecksAreIdle == HostSpec => []LateChecksNeverFire
<1>1. HostInv => LateChecksNeverFire
  BY DEF HostInv, LateChecksNeverFire
<1> QED
  BY <1>1, HostInvariant, PTL

LEMMA HostValidated == HostInv => ListensAsValidated
<1> SUFFICES ASSUME HostInv, stage = "listening", config.production
             PROVE  /\ config.apiToken >= 32 /\ config.metricsToken
                    /\ "*" \notin config.corsOrigins
                    /\ tracing => Given(env.length["OTEL_EXPORTER_OTLP_ENDPOINT"])
                    /\ config.mailEnabled => config.defaultFrom /\ config.authenticated
  BY DEF ListensAsValidated
<1>1. config = Load(env) /\ Validated(env) /\ Production(env)
  BY DEF HostInv, Load
<1>2. "*" \notin config.corsOrigins
  BY <1>1, ConfigureAccepts
<1>3. env.length["METRICS_TOKEN"] \in Int /\ env.length["METRICS_TOKEN"] >= 32
  BY <1>1 DEF Validated, Environment, Lengths, AtLeast, Unset
<1>4. config.apiToken >= 32 /\ config.metricsToken
  <2>1. env.length["API_TOKEN"] >= 32 /\ Given(env.length["METRICS_TOKEN"])
    BY <1>1, <1>3 DEF Validated, Given
  <2>2. /\ Load(env).apiToken = env.length["API_TOKEN"]
        /\ Load(env).metricsToken = Given(env.length["METRICS_TOKEN"])
    BY DEF Load
  <2>3. Load(env).apiToken >= 32 /\ Load(env).metricsToken
    BY <2>1, <2>2
  <2> QED
    BY <1>1, <2>3
<1>5. config.mailEnabled => config.defaultFrom /\ config.authenticated
  BY <1>1 DEF Validated, Load
<1>6. tracing => Given(env.length["OTEL_EXPORTER_OTLP_ENDPOINT"])
  BY <1>1 DEF HostInv
<1> QED
  BY <1>2, <1>4, <1>5, <1>6

\* The four readings of the environment agree on every host that listens.
THEOREM ProductionIsValidated == HostSpec => []ListensAsValidated
  BY HostValidated, HostInvariant, PTL
=============================================================================
