----------------------------- MODULE MCProcess -----------------------------
(* A process that starts, serves and stops (the server, the loops of the   *)
(* worker), and what a failure half-way leaves behind in a registration, a *)
(* transaction, a stored object, a generated project.  These share no      *)
(* state: a behaviour is one of one part, the others stay still.           *)
EXTENDS Server, Startup, WorkerLoops, Registration, Storage, UnitOfWork, Generator,
        TLC

VARIABLE part

others == <<vars, startupVars, loopsVars, registrationVars, storageVars, unitVars,
            featureVars, projectVars>>

\* The configuration of the repository, as far as Startup reads it.
MCGroups ==
  (Key :> Reference("KEY")) @@ (DSN :> Reference("DB_DSN")) @@
  (MigrationDSN :> OrElse("DB_MIGRATION_DSN", "")) @@
  (Origins :> Literal("http://")) @@ (Relay :> Literal("inproc")) @@
  (AutoTopic :> Literal("true")) @@ (BaseURL :> Literal("local")) @@
  (Reporter :> Literal("none")) @@ (SentryDSN :> OrElse("SENTRY_DSN", "")) @@
  (Port :> Literal("8080")) @@ (ReadTimeout :> Literal("5s")) @@
  (MaxAttempts :> Literal("8")) @@ (Interop :> Literal("inproc")) @@ (Locale :> Literal("fr")) @@
  (Locales :> Literal("fr")) @@
  [k \in {Enabled(m) : m \in DOMAIN Catalog} |->
     Literal(IF k[2] \in {"auth", "scheduler", "notification"}
             THEN "false" ELSE "true")] @@
  [k \in {DriverKey(m) : m \in DOMAIN Catalog} |->
     Literal(Catalog[k[2]].default)] @@
  (<<"modules", "outbox", "options", "batch_size">> :> Literal("50"))

Deployed(name) ==
  (AppEnv :> Literal(name)) @@ (Origins :> Reference("WEB_ORIGIN")) @@
  (Telemetry :> Literal("true")) @@
  (Relay :> OrElse("MESSAGING_DRIVER", "inproc")) @@
  (BaseURL :> Prefix("PUBLIC_URL"))

MCEnvironmentOf == [
  development |->
    (AppEnv :> Literal("development")) @@ (DSN :> OrElse("DB_DSN", "local")) @@
    (Telemetry :> Literal("true")) @@ (Enabled("auth") :> Literal("true")) @@
    (Enabled("notification") :> Literal("true")),
  uat |-> Deployed("uat"),
  production |->
    (MigrationDSN :> Reference("DB_MIGRATION_DSN")) @@
    (AutoTopic :> Literal("false")) @@ Deployed("production")]

\* What a local.yaml changes: one of these, on top of nothing, of each driver
\* that needs a connection, or of the consumer of the worker.
Change(k, text) == k :> Literal(text)
On(m, d) == Change(Enabled(m), "true") @@ Change(DriverKey(m), d)
Changes == {
  <<>>,
  On("outbox", "postgres"), On("idempotency", "postgres"),
  On("idempotency", "redis"), On("scheduler", "advisory-lock"),
  Change(Enabled("notification"), "true"),
  Change(Enabled("outbox"), "false"), Change(Enabled("idempotency"), "false"),
  On("billing", "memory"), On("audit", "syslog"),
  Change(Enabled("user_registration"), "false")
    @@ Change(DriverKey("user_registration"), "postgres"),
  Change(<<"modules", "outbox", "options", "bath_size">>, "50"),
  Change(<<"modules", "outbox", "options", "batch_size">>, "0"),
  Change(<<"modules", "auth", "options", "session_ttl">>, "0"),
  Change(<<"database", "dns">>, "x"), Change(MigrationDSN, "app"),
  Change(Relay, "rabbitmq"), Change(Relay, "kafka"), Change(Sink, "file"),
  Change(Telemetry, "false"), Change(AppEnv, "production"),
  Change(Reporter, "sentry"), Change(Transport("billing"), "http"),
  Change(MaxAttempts, "0")}
Grounds == {<<>>, On("outbox", "postgres"), On("idempotency", "redis"),
  On("outbox", "postgres") @@ Change(Enabled("notification"), "true")}
MCLocalFiles == {a @@ b : a \in Changes, b \in Grounds}

\* Everything set; one variable unset, empty or raw text that decodes to nothing
\* or not at all; an origin of each kind; one account for both roles.
AllSet == [KEY |-> "32 bytes", DB_DSN |-> "app", DB_MIGRATION_DSN |-> "owner",
           WEB_ORIGIN |-> "https://", MESSAGING_DRIVER |-> "kafka",
           PUBLIC_URL |-> "public", SENTRY_DSN |-> "sentry"]
MCEnvirons ==
  {AllSet, [AllSet EXCEPT !.DB_MIGRATION_DSN = "app"]} \union
  {[AllSet EXCEPT ![v] = t] : v \in DOMAIN AllSet, t \in {"unset", "", "~"}} \union
  {[AllSet EXCEPT !.WEB_ORIGIN = t] : t \in {"#", "*", "http://", "HTTP://"}} \union
  {[AllSet EXCEPT !.PUBLIC_URL = "#"], [AllSet EXCEPT !.DB_DSN = "a: b"]}

MCInit ==
  /\ part \in {"server", "startup", "loops", "registration", "storage", "unit",
               "feature", "project"}
  /\ IF part = "server" THEN Init
     ELSE /\ env = "local" /\ metrics = "off" /\ cancelled = FALSE
          /\ main = "exited" /\ outcome = "nil" /\ listener = "none"
          /\ pool = "none" /\ signalled = FALSE
          /\ connection = [c \in Connections |-> "free"]
          /\ visitors = [h \in Hosts |-> Stranger]
          /\ credit = [h \in Hosts |-> Burst]
  /\ IF part = "startup" THEN StartupInit
     ELSE /\ binary = "cli" /\ asked = "" /\ file = <<>> /\ environ = AllSet
          /\ at = "refused" /\ cfg = <<>> /\ todo = <<>> /\ conn = Nothing
          /\ refusal = "" /\ command = ""
  /\ IF part = "loops" THEN LoopsInit
     ELSE /\ relay = "noop" /\ stopping = FALSE /\ connected = FALSE
          /\ dispatcher = "gone" /\ consumer = "gone" /\ exits = <<>>
          /\ reader = [t \in Subscriptions |-> "none"]
          /\ loop = "exited" /\ firstError = "nil"
          /\ terminated = FALSE /\ troubles = 0 /\ returned = {}
  /\ RegistrationInit /\ (part # "registration" => driver = "memory")
  /\ StorageInit /\ UnitInit
  /\ IF part = "feature" THEN FeatureInit
     ELSE /\ feature = [f \in Features |-> "failed"] /\ wrote = {} /\ cut = FALSE
          /\ anchor = [f \in Features |-> {}] /\ rules = {Demo}
          /\ rendered = [f \in Features |-> {}]
  /\ IF part = "project" THEN ProjectInit
     ELSE /\ project = "failed" /\ target = "other" /\ git = FALSE
          /\ starter = [f \in {} |-> ""] /\ copied = starter

\* What stays still when each part moves.
InServer == part = "server" /\ UNCHANGED <<part, startupVars, loopsVars,
  registrationVars, storageVars, unitVars, featureVars, projectVars>>
InStartup == part = "startup" /\ UNCHANGED <<part, vars, loopsVars,
  registrationVars, storageVars, unitVars, featureVars, projectVars>>
InLoops == part = "loops" /\ UNCHANGED <<part, vars, startupVars,
  registrationVars, storageVars, unitVars, featureVars, projectVars>>
InRegistration == part = "registration" /\ UNCHANGED <<part, vars, startupVars,
  loopsVars, storageVars, unitVars, featureVars, projectVars>>
InStorage == part = "storage" /\ UNCHANGED <<part, vars, startupVars, loopsVars,
  registrationVars, unitVars, featureVars, projectVars>>
InUnit == part = "unit" /\ UNCHANGED <<part, vars, startupVars, loopsVars,
  registrationVars, storageVars, featureVars, projectVars>>
InFeature == part = "feature" /\ UNCHANGED <<part, vars, startupVars, loopsVars,
  registrationVars, storageVars, unitVars, projectVars>>
InProject == part = "project" /\ UNCHANGED <<part, vars, startupVars, loopsVars,
  registrationVars, storageVars, unitVars, featureVars>>

MCNext ==
  \/ InServer /\ Next
  \/ InStartup /\ StartupNext
  \/ InLoops /\ LoopsNext
  \/ InRegistration /\ RegistrationNext
  \/ InStorage /\ StorageNext
  \/ InUnit /\ UnitNext
  \/ InFeature /\ FeatureNext
  \/ InProject /\ ProjectNext

\* The fairness of FairSpec and FairLoops: enabled in no part but theirs.
MCSpec ==
  /\ MCInit /\ [][MCNext]_<<part, others>>
  /\ WF_vars(Main) /\ \A c \in Connections : WF_vars(Release(c))
  /\ FairLoops
=============================================================================
