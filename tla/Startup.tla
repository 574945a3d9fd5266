------------------------------ MODULE Startup ------------------------------
(***************************************************************************)
(* How the server, the worker and the cli go from configuration files and  *)
(* the environment to a mounted process, or refuse: the layers are merged, *)
(* references resolved, defaults placed, the whole validated against the   *)
(* catalogue of mounted modules; then the connections the enabled modules  *)
(* require are opened and the modules mounted, one after the other.        *)
(*                                                                         *)
(* A variable holds raw text, which is put into the YAML of the layers and *)
(* decoded there; a value is the text it has once decoded, "" an absent    *)
(* key or a null.  Texts are told apart as far as a rule tells them apart. *)
(***************************************************************************)
EXTENDS Sequences, FiniteSets

CONSTANTS
  Groups,        \* config/*.yaml merged: key -> Literal or Reference
  EnvironmentOf, \* config/env/<name>.yaml: name -> such a function
  LocalFiles,    \* the config/local.yaml a developer may have
  Environs       \* the process environments: variable -> text, "" or "unset"

VARIABLES
  binary,   \* "server", "worker" or "cli"
  asked,    \* APP_ENV
  file,     \* config/local.yaml
  environ,  \* the environment variables
  at,       \* where main is
  cfg,      \* the configuration loaded: key -> text
  todo,     \* what is still to be mounted
  conn,     \* the connections: resource -> "none", "open" or "closed"
  refusal,  \* why it refused to start
  command   \* what the cli did

inputs == <<binary, asked, file, environ>>
startupVars == <<inputs, at, cfg, todo, conn, refusal, command>>

\* deepMerge: the layer wins, key by key.
Layered(base, layer) ==
  [k \in DOMAIN base \union DOMAIN layer |->
     IF k \in DOMAIN layer THEN layer[k] ELSE base[k]]

\* A value without reference, ${VAR}, ${VAR:-text}, and ${VAR}/more.
Literal(text)     == [var |-> "", text |-> text, optional |-> TRUE, whole |-> TRUE]
Reference(var)    == [var |-> var, text |-> "", optional |-> FALSE, whole |-> TRUE]
OrElse(var, text) == [var |-> var, text |-> text, optional |-> TRUE, whole |-> TRUE]
Prefix(var)       == [Reference(var) EXCEPT !.whole = FALSE]

-----------------------------------------------------------------------------
(* The catalogue: what the mounted modules let the configuration name.     *)

Driver(needs, options) == [needs |-> needs, options |-> options]

DispatcherOptions == {"batch_size", "max_attempts", "base_backoff", "interval"}

OutboxCatalog == [default |-> "memory", drivers |->
  [memory |-> Driver({}, DispatcherOptions),
   postgres |-> Driver({"sql"}, DispatcherOptions)]]
IdempotencyCatalog == [default |-> "memory", drivers |->
  [memory |-> Driver({}, {"ttl"}),
   postgres |-> Driver({"sql"}, {"ttl"}),
   redis |-> Driver({"cache"}, {"ttl", "namespace"})]]
DynconfCatalog == [default |-> "file", drivers |->
  [file |-> Driver({}, {"flags", "settings"}),
   postgres |-> Driver({"sql"}, {"ttl"})]]
AuditCatalog == [default |-> "log", drivers |->
  [log |-> Driver({}, {}), postgres |-> Driver({"sql"}, {})]]
StorageCatalog == [default |-> "disk", drivers |->
  [disk |-> Driver({}, {"base_dir", "base_url"})]]
SchedulerCatalog == [default |-> "cron-inproc", drivers |->
  [d \in {"cron-inproc", "advisory-lock"} |->
     Driver(IF d = "advisory-lock" THEN {"sql"} ELSE {}, {})]]
AuthCatalog == [default |-> "memory", drivers |->
  [memory |-> Driver({}, {"session_ttl"})]]
NotificationCatalog == [default |-> "log", drivers |-> [log |-> Driver({}, {"body"})]]

CoreCatalog == [
  outbox |-> OutboxCatalog, idempotency |-> IdempotencyCatalog,
  dynconf |-> DynconfCatalog, audit |-> AuditCatalog,
  storage |-> StorageCatalog, scheduler |-> SchedulerCatalog,
  auth |-> AuthCatalog, notification |-> NotificationCatalog]

BusinessCatalog == [
  user_registration |-> [default |-> "memory", drivers |->
    [memory |-> Driver({}, {})]]]

\* moduleCatalog: no name is on both sides, MergeCatalogs refuses none.
Catalog == Layered(CoreCatalog, BusinessCatalog)

-----------------------------------------------------------------------------
(* The configuration: keys, and the reading of them.                       *)

Enabled(m)   == <<"modules", m, "enabled">>
DriverKey(m) == <<"modules", m, "driver">>
AppEnv       == <<"app", "env">>
DSN          == <<"database", "dsn">>
MigrationDSN == <<"database", "migration_dsn">>
Origins      == <<"http", "allowed_origins">>
Relay        == <<"messaging", "driver">>
AutoTopic    == <<"messaging", "kafka", "allow_auto_topic_creation">>
Telemetry    == <<"telemetry", "enabled">>
Key          == <<"security", "encryption_key">>
Sink         == <<"observability", "logs", "sink">>
SendPII      == <<"observability", "errors", "sentry", "send_default_pii">>
Reporter     == <<"observability", "errors", "reporter">>
SentryDSN    == <<"observability", "errors", "sentry", "dsn">>
Interop      == <<"interop", "default_transport">>
Transport(m) == <<"interop", "transports", m>>
PeerURL(m)   == <<"interop", "base_urls", m>>
Port         == <<"http", "port">>
ReadTimeout  == <<"http", "read_timeout">>
MaxAttempts  == <<"worker", "max_attempts">>
Locale       == <<"i18n", "default_locale">>
Locales      == <<"i18n", "supported_locales">>
BaseURL      == <<"storage", "base_url">>

\* The fields Config declares, which KnownFields compares the keys with; the
\* name of a module and the keys of its options are free.
Declared(k) ==
  \/ k \in {AppEnv, DSN, MigrationDSN, Origins, Relay, AutoTopic, Telemetry,
            Key, Sink, SendPII, Reporter, SentryDSN, Interop, Port, ReadTimeout,
            MaxAttempts, Locale, Locales, BaseURL}
  \/ k[1] = "interop" /\ Len(k) = 3 /\ k[2] \in {"transports", "base_urls"}
  \/ k[1] = "modules" /\ Len(k) = 3 /\ k[3] \in {"enabled", "driver"}
  \/ k[1] = "modules" /\ Len(k) = 4 /\ k[3] = "options"

Get(c, k) == IF k \in DOMAIN c THEN c[k] ELSE ""

IsEnabled(c, m) == Get(c, Enabled(m)) = "true"
DriverOf(c, m) == Get(c, DriverKey(m))
Modules(c) == {k[2] : k \in {j \in DOMAIN c : j[1] = "modules"}}
Options(c, m) ==
  {k[4] : k \in {j \in DOMAIN c :
     Len(j) = 4 /\ j[1] = "modules" /\ j[2] = m /\ j[3] = "options"}}
OptionOf(c, m, o) == Get(c, <<"modules", m, "options", o>>)

\* Requires: an unknown driver requires nothing.
Requires(m, d) ==
  IF m \in DOMAIN Catalog /\ d \in DOMAIN Catalog[m].drivers
    THEN Catalog[m].drivers[d] ELSE Driver({}, {})

\* Broken on purpose: by the default driver, not by the one retained.
RequiresResource_ByDefault(c, r) ==
  \E m \in Modules(c) \cap DOMAIN Catalog :
    IsEnabled(c, m) /\ r \in Requires(m, Catalog[m].default).needs

\* RequiresSQL and RequiresCache.
RequiresResource(c, r) ==
  \E m \in Modules(c) : IsEnabled(c, m) /\ r \in Requires(m, DriverOf(c, m)).needs

-----------------------------------------------------------------------------
(* Load.                                                                   *)

\* mergeLayers: the last layer wins, key by key; an environment nobody wrote a
\* file for adds nothing, and local.yaml comes last.
Merged(env, local) ==
  Layered(Layered(Groups,
                  IF env \in DOMAIN EnvironmentOf THEN EnvironmentOf[env] ELSE <<>>),
          local)

\* LookupEnv finds the variable, and its raw text is not empty.
Present(var, vars) == vars[var] \notin {"unset", ""}

\* Broken on purpose: a variable that is defined but empty counts.
Missing_OnlyUnset(raw, vars) ==
  {raw[k].var : k \in {j \in DOMAIN raw :
     ~raw[j].optional /\ vars[raw[j].var] = "unset"}}

\* The mandatory references whose variable says nothing.
Missing(raw, vars) ==
  {raw[k].var : k \in {j \in DOMAIN raw :
     ~raw[j].optional /\ ~Present(raw[j].var, vars)}}

\* The raw text in the place of each reference.
Substituted(raw, vars) ==
  [k \in {j \in DOMAIN raw : raw[j].var # ""} |->
     IF Present(raw[k].var, vars) THEN vars[raw[k].var] ELSE raw[k].text]

\* What the decoder makes of raw text: nothing of a null, blanks or empty quotes
\* ("~" stands for them) unless the value goes on behind them; nothing of a
\* comment ("#"), which swallows what is behind it.
Scalar(text, whole) == IF text = "#" \/ (text = "~" /\ whole) THEN "" ELSE text

\* ... and "a: b" stands for what the decoder refuses where a scalar is due: a
\* mapping, a list, an open quote.
Legible(raw, vars) ==
  \A k \in DOMAIN Substituted(raw, vars) : Substituted(raw, vars)[k] # "a: b"

\* The values of the layers, decoded again behind their references.
Expanded(raw, vars) ==
  LET substituted == Substituted(raw, vars)
  IN [k \in DOMAIN raw |->
        IF k \in DOMAIN substituted THEN Scalar(substituted[k], raw[k].whole)
        ELSE raw[k].text]

Default(c, k, text) == IF Get(c, k) = "" THEN Layered(c, [j \in {k} |-> text]) ELSE c

\* applyDefaults, as far as a rule reads the result.
WithDefaults(c) ==
  LET placed == Default(Default(Default(Default(Default(Default(Default(c,
                  AppEnv, "development"),
                  MigrationDSN, Get(c, DSN)),
                  Relay, "inproc"),
                  Interop, "inproc"),
                  Sink, "stdout"),
                  Reporter, "none"),
                  Locale, "fr")
  IN Default(placed, Locales, placed[Locale])

\* Resolve: every module, those of the catalogue nobody mentions included,
\* carries a driver, which enables none of them.
Resolved(c) ==
  Layered(c, [k \in {DriverKey(m) : m \in Modules(c) \union DOMAIN Catalog} |->
    IF Get(c, k) # "" THEN c[k]
    ELSE IF k[2] \in DOMAIN Catalog THEN Catalog[k[2]].default ELSE ""])

IsLocal(c) == c[AppEnv] \in {"development", "test"}

ValidApp(c) == c[AppEnv] \in {"development", "test", "uat", "production"}
ValidSecurity(c) == Get(c, Key) = "32 bytes"
ValidDatabase(c) == Get(c, DSN) # ""
ValidMessaging(c) == c[Relay] \in {"inproc", "kafka", "rabbitmq", "noop"}
ValidI18n(c) == c[Locales] = c[Locale]

\* Numbers nothing defaults: 0 is out of range, and so is an absent one.
ValidNumbers(c) == \A k \in {Port, ReadTimeout, MaxAttempts} : Get(c, k) \notin {"", "0"}

ValidCore(c) ==
  /\ ValidApp(c) /\ ValidSecurity(c) /\ ValidDatabase(c) /\ ValidNumbers(c)
  /\ ValidMessaging(c) /\ ValidI18n(c)

\* Observability.hardened.
HardenedObservability(c) == Get(c, SendPII) # "true" /\ c[Sink] # "file"

\* hardenOrigins: a list with no entry, or with one of these, is refused; every
\* other origin passes, whatever its scheme.  The list has one entry.
RefusedOrigins == {"", "*", "http://"}

\* validateHardening, which nothing local has to pass.
Hardened(c) ==
  /\ c[MigrationDSN] # c[DSN]
  /\ Get(c, Origins) \notin RefusedOrigins
  /\ ~(c[Relay] = "kafka" /\ Get(c, AutoTopic) = "true")
  /\ Get(c, Telemetry) = "true"
  /\ HardenedObservability(c)

ValidObservability(c) ==
  /\ c[Sink] \in {"stdout", "file"}
  /\ c[Reporter] \in {"none", "sentry"}
  /\ c[Reporter] = "sentry" => Get(c, SentryDSN) # ""

ValidModules(c) ==
  \A m \in Modules(c) :
    /\ m \in DOMAIN Catalog
    /\ IsEnabled(c, m) =>
         /\ DriverOf(c, m) \in DOMAIN Catalog[m].drivers
         /\ Options(c, m) \subseteq Requires(m, DriverOf(c, m)).options

Modes == {"inproc", "http", "event", "disabled"}

ValidInterop(c) ==
  /\ c[Interop] \in Modes
  /\ \A m \in {k[3] : k \in {j \in DOMAIN c : j[1] = "interop" /\ j[2] = "transports"}} :
       /\ c[Transport(m)] \in Modes
       /\ c[Transport(m)] = "http" => Get(c, PeerURL(m)) # ""

Valid(c) ==
  /\ ValidCore(c)
  /\ IsLocal(c) \/ Hardened(c)
  /\ ValidObservability(c) /\ ValidModules(c) /\ ValidInterop(c)

\* What Load decodes, defaults placed; and whether it accepts it.
Decoded(env, local, vars) ==
  Resolved(WithDefaults(Expanded(Merged(env, local), vars)))

Accepted(env, local, vars) ==
  LET raw == Merged(env, local)
  IN /\ Missing(raw, vars) = {}
     /\ Legible(raw, vars)
     /\ \A k \in DOMAIN raw : Declared(k)
     /\ Valid(Decoded(env, local, vars))

-----------------------------------------------------------------------------
(* main.                                                                   *)

\* What each binary mounts, in its order.
Plan == [
  server |-> <<"outbox", "auth", "user_registration">>,
  cli    |-> <<"outbox", "user_registration">>,
  worker |-> <<"dispatching", "relay", "notification", "idempotency", "outbox",
               "dispatcher">>]

Nothing == [r \in {"sql", "cache", "relay"} |-> "none"]

\* The deferred conn.Close, and the cli's own.
CloseBoth == [r \in DOMAIN conn |->
  IF r # "relay" /\ conn[r] = "open" THEN "closed" ELSE conn[r]]

StartupInit ==
  /\ binary \in DOMAIN Plan
  /\ asked \in {"", "development", "production", "uat", "prod"}
  /\ file \in LocalFiles
  /\ environ \in Environs
  /\ at = "load"
  /\ cfg = <<>>
  /\ todo = Plan[binary]
  /\ conn = Nothing
  /\ refusal = ""
  /\ command = ""

Refuse(why) == at' = "refused" /\ refusal' = why

\* config.Load.
Load ==
  LET env == IF asked = "" THEN "development" ELSE asked
  IN /\ at = "load"
     /\ IF Accepted(env, file, environ)
          THEN /\ cfg' = Decoded(env, file, environ)
               /\ at' = IF binary = "cli" THEN "pool" ELSE "observe"
               /\ UNCHANGED refusal
          ELSE Refuse("configuration") /\ UNCHANGED cfg
     /\ UNCHANGED <<inputs, todo, conn, command>>

\* startObservability: nothing to install when telemetry is off.
Observe ==
  /\ at = "observe"
  /\ \/ at' = "pool" /\ UNCHANGED refusal
     \/ Get(cfg, Telemetry) = "true" /\ Refuse("trouble")
  /\ UNCHANGED <<inputs, cfg, todo, conn, command>>

\* resources.Open, first half: database.New closes a pool that does not answer.
OpenPool ==
  /\ at = "pool"
  /\ \/ at' = "cache" /\ ~RequiresResource(cfg, "sql")
        /\ UNCHANGED <<conn, refusal>>
     \/ at' = "cache" /\ RequiresResource(cfg, "sql")
        /\ conn' = [conn EXCEPT !["sql"] = "open"] /\ UNCHANGED refusal
     \/ RequiresResource(cfg, "sql") /\ Refuse("trouble") /\ UNCHANGED conn
  /\ UNCHANGED <<inputs, cfg, todo, command>>

\* Broken on purpose: the pool stays open behind a cache that does not answer.
OpenCache_LeavesThePool ==
  /\ at = "cache"
  /\ \/ at' = "mount" /\ ~RequiresResource(cfg, "cache")
        /\ UNCHANGED <<conn, refusal>>
     \/ at' = "mount" /\ RequiresResource(cfg, "cache")
        /\ conn' = [conn EXCEPT !["cache"] = "open"] /\ UNCHANGED refusal
     \/ RequiresResource(cfg, "cache") /\ Refuse("trouble") /\ UNCHANGED conn
  /\ UNCHANGED <<inputs, cfg, todo, command>>

\* ... second half: what is open is closed again.
OpenCache ==
  /\ at = "cache"
  /\ \/ at' = "mount" /\ ~RequiresResource(cfg, "cache")
        /\ UNCHANGED <<conn, refusal>>
     \/ at' = "mount" /\ RequiresResource(cfg, "cache")
        /\ conn' = [conn EXCEPT !["cache"] = "open"] /\ UNCHANGED refusal
     \/ RequiresResource(cfg, "cache") /\ Refuse("trouble") /\ conn' = CloseBoth
  /\ UNCHANGED <<inputs, cfg, todo, command>>

\* The option accessors refuse what they cannot read, 0 among it.
Unreadable(m, o) == OptionOf(cfg, m, o) = "0"

\* Why each factory refuses; "" when it does not.
OutboxRefusal ==
  IF /\ IsEnabled(cfg, "outbox") /\ DriverOf(cfg, "outbox") = "postgres"
     /\ conn["sql"] # "open"
    THEN "not provided" ELSE ""

AuthRefusal ==
  IF IsEnabled(cfg, "auth") /\ Unreadable("auth", "session_ttl")
    THEN "option" ELSE ""

\* Mounted whether it is enabled or not.
RegistrationRefusal ==
  IF DriverOf(cfg, "user_registration") # "memory" THEN "driver" ELSE ""

\* DispatchesHere: the memory driver is worked off by the process that writes.
DispatchingRefusal ==
  IF ~IsEnabled(cfg, "outbox") THEN "disabled"
  ELSE IF DriverOf(cfg, "outbox") # "postgres" THEN "not shared" ELSE ""

Mailing == IsEnabled(cfg, "notification")

NotificationRefusal ==
  IF ~Mailing THEN ""
  ELSE IF ~IsEnabled(cfg, "idempotency") THEN "disabled"
  ELSE IF OptionOf(cfg, "notification", "body") \notin {"", "masked", "logged"}
    THEN "option" ELSE ""

\* The subscription gives the module neither the pool nor the cache.
IdempotencyRefusal ==
  IF ~Mailing THEN ""
  ELSE IF Unreadable("idempotency", "ttl") THEN "option"
  ELSE IF DriverOf(cfg, "idempotency") # "memory" THEN "not provided" ELSE ""

DispatcherRefusal ==
  IF \E o \in DispatcherOptions : Unreadable("outbox", o) THEN "option" ELSE ""

Refusal(part) ==
  CASE part = "outbox" -> OutboxRefusal
    [] part = "auth" -> AuthRefusal
    [] part = "user_registration" -> RegistrationRefusal
    [] part = "dispatching" -> DispatchingRefusal
    [] part = "relay" -> ""
    [] part = "notification" -> NotificationRefusal
    [] part = "idempotency" -> IdempotencyRefusal
    [] part = "dispatcher" -> DispatcherRefusal

\* One module, or the relay, is built; when one refuses the process ends, and
\* its deferred calls close the pool and the cache, not yet the relay.
MountNext ==
  /\ at = "mount" /\ todo # <<>>
  /\ LET part == Head(todo)
         why == Refusal(part)
     IN \/ /\ why = ""
           /\ todo' = Tail(todo)
           /\ conn' = IF part = "relay" THEN [conn EXCEPT !["relay"] = "open"]
                      ELSE conn
           /\ UNCHANGED <<at, refusal>>
        \/ /\ why # "" /\ Refuse(why)
           /\ conn' = CloseBoth
           /\ UNCHANGED todo
        \/ /\ part = "relay" /\ cfg[Relay] = "rabbitmq" /\ Refuse("trouble")
           /\ conn' = CloseBoth
           /\ UNCHANGED todo
  /\ UNCHANGED <<inputs, cfg, command>>

Mounted ==
  /\ at = "mount" /\ todo = <<>>
  /\ at' = "up"
  /\ UNCHANGED <<inputs, cfg, todo, conn, refusal, command>>

\* The command of the cli; demonstration accounts are refused where deployed.
Command ==
  /\ at = "up" /\ binary = "cli" /\ command = ""
  /\ command' \in {"register", "health",
                   IF IsLocal(cfg) THEN "seed" ELSE "seed refused"}
  /\ UNCHANGED <<inputs, at, cfg, todo, conn, refusal>>

\* The deferred calls of an orderly end: the relay, then the connections.
Finish ==
  /\ at = "up" /\ (binary = "cli" => command # "")
  /\ at' = "ended"
  /\ conn' = [r \in DOMAIN conn |-> IF conn[r] = "open" THEN "closed" ELSE conn[r]]
  /\ UNCHANGED <<inputs, cfg, todo, refusal, command>>

StartupNext ==
  \/ Load \/ Observe \/ OpenPool \/ OpenCache \/ MountNext \/ Mounted \/ Command
  \/ Finish

-----------------------------------------------------------------------------
(* Properties.                                                             *)

\* resources.go, Open: a start-up that fails half-way, or a process that ends,
\* leaves neither the pool nor the cache open, whichever step failed.
RefusalLeavesNothing ==
  at \in {"refused", "ended"} => conn["sql"] # "open" /\ conn["cache"] # "open"

\* ADR 012, resources.go: a connection is opened only for an enabled module that
\* requires it, and no module of the server or the cli is ever refused for want
\* of one; of the worker's only the idempotency module is.
OpenedForWhoNeedsIt ==
  /\ \A r \in {"sql", "cache"} :
       conn[r] = "open" => \E m \in DOMAIN Catalog :
         IsEnabled(cfg, m) /\ r \in Requires(m, cfg[DriverKey(m)]).needs
  /\ refusal = "not provided" => binary = "worker" /\ Head(todo) = "idempotency"

\* hardening.go, loader.go: whatever the layers and the variables say and however
\* their text decodes, a process that is up found the variable of each mandatory
\* reference and has an application account and an encryption key; in uat or in
\* production it does not run its migrations with that account, is observable,
\* lets neither everybody nor a plain http origin in, and seeds nobody.
RunsOnlyHardened ==
  at = "up" =>
    /\ LET raw == Merged(IF asked = "" THEN "development" ELSE asked, file)
       IN \A k \in DOMAIN raw : raw[k].optional \/ Present(raw[k].var, environ)
    /\ Get(cfg, DSN) # "" /\ Get(cfg, Key) # ""
    /\ cfg[AppEnv] \in {"uat", "production"} =>
         /\ Get(cfg, MigrationDSN) \notin {"", cfg[DSN]}
         /\ Get(cfg, Telemetry) = "true"
         /\ Get(cfg, Origins) \notin {"", "*", "http://"}
         /\ command # "seed"
=============================================================================
