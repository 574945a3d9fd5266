---------------------------- MODULE ProcessProofs ----------------------------
(***************************************************************************)
(* What MCProcess checks on one instance, for any number of modules,       *)
(* connections, clients, readers, calls, files and use cases: a process    *)
(* that starts, serves and stops, and what a failure half-way leaves       *)
(* behind.  The parts share no state; each has its own invariant.          *)
(***************************************************************************)
EXTENDS Server, Startup, WorkerLoops, Registration, Storage, UnitOfWork,
        Generator, Integers, TLAPS

-----------------------------------------------------------------------------
(* The start of a process.                                                 *)

StartupSpec == StartupInit /\ [][StartupNext]_startupVars

Resources == {"sql", "cache", "relay"}
Before == {"load", "observe", "pool"}

\* A connection is opened at its step, and closed with the process.
Opening ==
  /\ conn \in [Resources -> {"none", "open", "closed"}]
  /\ at \in Before => conn["sql"] = "none" /\ conn["cache"] = "none"
  /\ at = "cache" => conn["cache"] = "none"
  /\ at \in {"refused", "ended"} => conn["sql"] # "open" /\ conn["cache"] # "open"

\* What was loaded stays what it is.
Loaded ==
  \/ at \in {"load", "refused"}
  \/ LET name == IF asked = "" THEN "development" ELSE asked
     IN Accepted(name, file, environ) /\ cfg = Decoded(name, file, environ)

\* What is open is required; what is required is open once its step is over.
Needed ==
  /\ \A r \in {"sql", "cache"} :
       conn[r] = "open" => \E m \in DOMAIN Catalog :
         IsEnabled(cfg, m) /\ r \in Requires(m, cfg[DriverKey(m)]).needs
  /\ at \in {"cache", "mount"} /\ RequiresResource(cfg, "sql") => conn["sql"] = "open"

Parts == {"outbox", "auth", "user_registration", "dispatching", "relay",
          "notification", "idempotency", "dispatcher"}

\* Only the worker mounts the module whose refusal it is.
Mounting ==
  /\ binary \in {"server", "worker", "cli"}
  /\ todo \in Seq(Parts)
  /\ binary # "worker" => \A i \in 1..Len(todo) : todo[i] # "idempotency"
  /\ refusal = "not provided" =>
       at = "refused" /\ binary = "worker" /\ Head(todo) = "idempotency"

SeedsLocally == command = "seed" => at # "load" /\ IsLocal(cfg)

StartupInv == Opening /\ Loaded /\ Needed /\ Mounting /\ SeedsLocally

-----------------------------------------------------------------------------
(* Layers and defaults.                                                    *)

LEMMA Layering ==
  ASSUME NEW base, NEW layer
  PROVE  /\ DOMAIN Layered(base, layer) = DOMAIN base \cup DOMAIN layer
         /\ \A k \in DOMAIN layer : Layered(base, layer)[k] = layer[k]
         /\ \A k \in DOMAIN base \ DOMAIN layer : Layered(base, layer)[k] = base[k]
BY DEF Layered

LEMMA CatalogIs ==
  /\ "outbox" \in DOMAIN Catalog
  /\ Requires("outbox", "postgres").needs = {"sql"}
<1>1. "outbox" \in DOMAIN CoreCatalog /\ CoreCatalog["outbox"] = OutboxCatalog
      /\ "outbox" \notin DOMAIN BusinessCatalog
  BY DEF CoreCatalog, BusinessCatalog
<1>2. "outbox" \in DOMAIN Catalog /\ Catalog["outbox"] = OutboxCatalog
  BY <1>1, Layering DEF Catalog
<1>3. "postgres" \in DOMAIN OutboxCatalog.drivers
      /\ OutboxCatalog.drivers["postgres"].needs = {"sql"}
  BY DEF OutboxCatalog, Driver
<1> QED
  BY <1>2, <1>3 DEF Requires

-----------------------------------------------------------------------------
(* Connections.                                                            *)

LEMMA OpeningStep ==
  ASSUME Opening, StartupNext
  PROVE  Opening'
<1> USE DEF Opening, Resources, Before
<1>1. CASE Load \/ Observe
  BY <1>1 DEF Load, Observe, Refuse
<1>2. CASE OpenPool
  BY <1>2 DEF OpenPool, Refuse
<1>3. CASE OpenCache
  BY <1>3 DEF OpenCache, Refuse, CloseBoth
<1>4. CASE MountNext
  <2>1. /\ at = "mount"
        /\ \/ at' = at /\ UNCHANGED conn
           \/ at' = at /\ conn' = [conn EXCEPT !["relay"] = "open"]
           \/ at' = "refused" /\ conn' = CloseBoth
    BY <1>4 DEF MountNext, Refuse
  <2> QED
    BY <2>1 DEF CloseBoth
<1>5. CASE Mounted \/ Command
  BY <1>5 DEF Mounted, Command
<1>6. CASE Finish
  BY <1>6 DEF Finish
<1> QED
  BY <1>1, <1>2, <1>3, <1>4, <1>5, <1>6 DEF StartupNext

LEMMA OpeningInitially == StartupInit => Opening
BY DEF StartupInit, Nothing, Opening, Resources, Before

\* A start that is refused, wherever it was, and a process that ends, leave
\* neither the pool nor the cache open.
THEOREM NothingLeftOpen == StartupSpec => []RefusalLeavesNothing
<1>1. Opening /\ [StartupNext]_startupVars => Opening'
  BY OpeningStep DEF startupVars, Opening
<1>2. Opening => RefusalLeavesNothing
  BY DEF Opening, RefusalLeavesNothing
<1> QED
  BY <1>1, <1>2, OpeningInitially, PTL DEF StartupSpec

-----------------------------------------------------------------------------
(* What a configuration that was accepted says.                            *)

Absent == ""

\* A default is placed where there was nothing, and nowhere else.
LEMMA Defaulting ==
  ASSUME NEW c, NEW k, NEW text, NEW d, d = Default(c, k, text)
  PROVE  /\ \A j : j # k => Get(d, j) = Get(c, j)
         /\ Get(c, k) = Absent => Get(d, k) = text
         /\ Get(c, k) # Absent => d = c
<1> USE DEF Absent
<1>1. CASE Get(c, k) # ""
  BY <1>1 DEF Default
<1>2. CASE Get(c, k) = ""
  <2> DEFINE layer == [j \in {k} |-> text]
  <2>1. d = Layered(c, layer) /\ DOMAIN layer = {k} /\ layer[k] = text
    BY <1>2 DEF Default
  <2> HIDE DEF layer
  <2>2. /\ DOMAIN d = DOMAIN c \cup {k} /\ d[k] = text
        /\ \A j \in DOMAIN c : j # k => d[j] = c[j]
    BY <2>1 DEF Layered
  <2>3. \A j : j # k => Get(d, j) = Get(c, j)
    BY <2>2 DEF Get
  <2>4. Get(d, k) = text
    BY <2>2 DEF Get
  <2> QED
    BY <1>2, <2>3, <2>4
<1> QED
  BY <1>1, <1>2

LEMMA DefaultLeaves ==
  \A c, k, text, j : j # k => Get(Default(c, k, text), j) = Get(c, j)
<1> TAKE c, k, text, j
<1> DEFINE d == Default(c, k, text)
<1>1. d = Default(c, k, text)
  OBVIOUS
<1> HIDE DEF d
<1>2. \A i : i # k => Get(d, i) = Get(c, i)
  BY <1>1, Defaulting
<1> QED
  BY <1>1, <1>2

\* What says something is said by every default placed since.
LEMMA DefaultKeeps ==
  \A c, k, text, j : Get(c, j) # Absent => Get(Default(c, k, text), j) = Get(c, j)
<1> TAKE c, k, text, j
<1> DEFINE d == Default(c, k, text)
<1>1. d = Default(c, k, text)
  OBVIOUS
<1> HIDE DEF d
<1>2. Get(c, k) # Absent => d = c
  BY <1>1, Defaulting
<1>3. CASE j = k
  BY <1>1, <1>2, <1>3
<1>4. CASE j # k
  BY <1>4, DefaultLeaves
<1> QED
  BY <1>3, <1>4

LEMMA DefaultPlaces ==
  \A c, k, text : Get(c, k) = Absent => Get(Default(c, k, text), k) = text
<1> TAKE c, k, text
<1> DEFINE d == Default(c, k, text)
<1>1. d = Default(c, k, text)
  OBVIOUS
<1> HIDE DEF d
<1>2. Get(c, k) = Absent => Get(d, k) = text
  BY <1>1, Defaulting
<1> QED
  BY <1>1, <1>2

\* ... and by the drivers retained.
LEMMA ResolvedDoes ==
  ASSUME NEW c
  PROVE  /\ \A m \in DOMAIN Catalog : DriverKey(m) \in DOMAIN Resolved(c)
         /\ \A j : Get(c, j) # Absent => Get(Resolved(c), j) = Get(c, j)
         /\ Get(c, DSN) = Absent => Get(Resolved(c), DSN) = Absent
<1> DEFINE keys == {DriverKey(m) : m \in Modules(c) \union DOMAIN Catalog}
           layer == [k \in keys |->
             IF Get(c, k) # "" THEN c[k]
             ELSE IF k[2] \in DOMAIN Catalog THEN Catalog[k[2]].default ELSE ""]
<1>1. Resolved(c) = Layered(c, layer)
  BY DEF Resolved
<1>2. DOMAIN layer = keys /\ \A k \in keys : Get(c, k) # Absent => layer[k] = c[k]
  BY DEF Absent
<1>3. \A m \in DOMAIN Catalog : DriverKey(m) \in keys
  OBVIOUS
<1>4. DSN \notin keys
  BY DEF DSN, DriverKey
<1> HIDE DEF layer, keys
<1>5. \A j : Get(c, j) # Absent => j \in DOMAIN c /\ c[j] = Get(c, j)
  BY DEF Get, Absent
<1>6. \A j : Get(c, j) # Absent => Get(Layered(c, layer), j) = Get(c, j)
  BY <1>2, <1>5 DEF Layered, Get, Absent
<1>7. Get(c, DSN) = Absent => Get(Layered(c, layer), DSN) = Absent
  BY <1>2, <1>4 DEF Layered, Get, Absent
<1> QED
  BY <1>1, <1>2, <1>3, <1>6, <1>7 DEF Layered

LEMMA DefaultsDo ==
  ASSUME NEW c
  PROVE  /\ \A j : Get(c, j) # Absent => Get(WithDefaults(c), j) = Get(c, j)
         /\ Get(c, DSN) = Absent => Get(WithDefaults(c), DSN) = Absent
         /\ Get(c, DSN) # Absent => Get(WithDefaults(c), MigrationDSN) # Absent
<1> DEFINE c1 == Default(c, AppEnv, "development")
           c2 == Default(c1, MigrationDSN, Get(c, DSN))
           c3 == Default(c2, Relay, "inproc")
           c4 == Default(c3, Interop, "inproc")
           c5 == Default(c4, Sink, "stdout")
           c6 == Default(c5, Reporter, "none")
           c7 == Default(c6, Locale, "fr")
           c8 == Default(c7, Locales, c7[Locale])
<1>1. WithDefaults(c) = c8
  BY DEF WithDefaults
<1>2. /\ DSN # AppEnv /\ DSN # MigrationDSN /\ DSN # Relay /\ DSN # Interop
      /\ DSN # Sink /\ DSN # Reporter /\ DSN # Locale /\ DSN # Locales
  BY DEF DSN, AppEnv, MigrationDSN, Relay, Interop, Sink, Reporter, Locale, Locales
<1> HIDE DEF c1, c2, c3, c4, c5, c6, c7, c8
<1>3. /\ \A j : Get(c, j) # Absent => Get(c1, j) = Get(c, j)
      /\ Get(c1, DSN) = Get(c, DSN)
  BY <1>2, DefaultKeeps, DefaultLeaves DEF c1
<1>4. /\ \A j : Get(c1, j) # Absent => Get(c2, j) = Get(c1, j)
      /\ Get(c2, DSN) = Get(c1, DSN)
  BY <1>2, DefaultKeeps, DefaultLeaves DEF c2
<1>5. /\ \A j : Get(c2, j) # Absent => Get(c3, j) = Get(c2, j)
      /\ Get(c3, DSN) = Get(c2, DSN)
  BY <1>2, DefaultKeeps, DefaultLeaves DEF c3
<1>6. /\ \A j : Get(c3, j) # Absent => Get(c4, j) = Get(c3, j)
      /\ Get(c4, DSN) = Get(c3, DSN)
  BY <1>2, DefaultKeeps, DefaultLeaves DEF c4
<1>7. /\ \A j : Get(c4, j) # Absent => Get(c5, j) = Get(c4, j)
      /\ Get(c5, DSN) = Get(c4, DSN)
  BY <1>2, DefaultKeeps, DefaultLeaves DEF c5
<1>8. /\ \A j : Get(c5, j) # Absent => Get(c6, j) = Get(c5, j)
      /\ Get(c6, DSN) = Get(c5, DSN)
  BY <1>2, DefaultKeeps, DefaultLeaves DEF c6
<1>9. /\ \A j : Get(c6, j) # Absent => Get(c7, j) = Get(c6, j)
      /\ Get(c7, DSN) = Get(c6, DSN)
  BY <1>2, DefaultKeeps, DefaultLeaves DEF c7
<1>10. /\ \A j : Get(c7, j) # Absent => Get(c8, j) = Get(c7, j)
      /\ Get(c8, DSN) = Get(c7, DSN)
  BY <1>2, DefaultKeeps, DefaultLeaves DEF c8
<1>11. Get(c, DSN) # Absent => Get(c2, MigrationDSN) # Absent
  <2>1. CASE Get(c1, MigrationDSN) = Absent
    BY <2>1, DefaultPlaces, <1>3 DEF c2
  <2>2. CASE Get(c1, MigrationDSN) # Absent
    BY <2>2, DefaultKeeps DEF c2
  <2> QED
    BY <2>1, <2>2
<1>12. \A j : Get(c, j) # Absent => Get(c4, j) = Get(c, j)
  BY <1>3, <1>4, <1>5, <1>6
<1>13. \A j : Get(c2, j) # Absent => Get(c4, j) = Get(c2, j)
  BY <1>5, <1>6
<1>14. \A j : Get(c4, j) # Absent => Get(c8, j) = Get(c4, j)
  BY <1>7, <1>8, <1>9, <1>10
<1>15. Get(c8, DSN) = Get(c, DSN)
  BY <1>3, <1>4, <1>5, <1>6, <1>7, <1>8, <1>9, <1>10
<1> QED
  BY <1>1, <1>11, <1>12, <1>13, <1>14, <1>15

\* Each mandatory reference has its variable, what every process needs is there
\* once decoded, a deployed process is hardened: no default and no driver retained
\* undoes it.
LEMMA AcceptedIsHardened ==
  ASSUME NEW name, NEW local, NEW given, Accepted(name, local, given),
         NEW c, c = Decoded(name, local, given)
  PROVE  /\ \A k \in DOMAIN Merged(name, local) :
              Merged(name, local)[k].optional
                \/ Present(Merged(name, local)[k].var, given)
         /\ Get(c, DSN) # "" /\ Get(c, Key) # ""
         /\ c[AppEnv] \in {"uat", "production"} =>
              /\ Get(c, MigrationDSN) \notin {"", c[DSN]}
              /\ Get(c, Telemetry) = "true"
              /\ Get(c, Origins) \notin {"", "*", "http://"}
         /\ \A m \in DOMAIN Catalog : DriverKey(m) \in DOMAIN c
<1> DEFINE merged == Merged(name, local)
           text == Expanded(merged, given)
           placed == WithDefaults(text)
<1>1. c = Resolved(placed) /\ Valid(c) /\ Missing(merged, given) = {}
  BY DEF Decoded, Accepted
<1>2. ASSUME NEW k \in DOMAIN merged, ~merged[k].optional
      PROVE  Present(merged[k].var, given)
  BY <1>1, <1>2 DEF Missing
<1>3. Get(c, DSN) # "" /\ Get(c, Key) # ""
  BY <1>1 DEF Valid, ValidCore, ValidDatabase, ValidSecurity
<1>4. ASSUME c[AppEnv] \in {"uat", "production"}
      PROVE  /\ Get(c, MigrationDSN) \notin {"", c[DSN]}
             /\ Get(c, Telemetry) = "true"
             /\ Get(c, Origins) \notin {"", "*", "http://"}
  <2>1. Hardened(c) /\ Get(c, DSN) # Absent
    BY <1>1, <1>4 DEF Valid, ValidCore, ValidDatabase, IsLocal, Absent
  <2> HIDE DEF text, placed
  <2>2. Get(placed, DSN) # Absent
    BY <1>1, <2>1, ResolvedDoes
  <2>3. Get(text, DSN) # Absent
    BY <2>2, DefaultsDo DEF placed
  <2>4. Get(c, MigrationDSN) # Absent
    BY <1>1, <2>3, DefaultsDo, ResolvedDoes DEF placed
  <2>5. Get(c, MigrationDSN) \notin {"", c[DSN]}
    BY <2>1, <2>4 DEF Hardened, Get, Absent
  <2> QED
    BY <2>1, <2>5 DEF Hardened, RefusedOrigins
<1> QED
  BY <1>1, <1>2, <1>3, <1>4, ResolvedDoes

-----------------------------------------------------------------------------
(* The invariant.                                                          *)

\* The configuration is loaded once; nothing changes it, or what it is from.
LEMMA LoadedOnce ==
  ASSUME StartupNext
  PROVE  /\ UNCHANGED inputs
         /\ Load \/ (at \notin {"load", "refused"} /\ at' # "load" /\ UNCHANGED cfg)
<1>1. CASE Load
  BY <1>1 DEF Load
<1>2. CASE Observe \/ OpenPool \/ OpenCache
  BY <1>2 DEF Observe, OpenPool, OpenCache, Refuse
<1>3. CASE MountNext
  BY <1>3 DEF MountNext, Refuse
<1>4. CASE Mounted \/ Command \/ Finish
  BY <1>4 DEF Mounted, Command, Finish
<1> QED
  BY <1>1, <1>2, <1>3, <1>4 DEF StartupNext

LEMMA LoadedStep ==
  ASSUME Loaded, StartupNext
  PROVE  Loaded'
<1>1. UNCHANGED <<asked, file, environ>>
  BY LoadedOnce DEF inputs
<1>2. CASE Load
  <2> DEFINE name == IF asked = "" THEN "development" ELSE asked
  <2>1. \/ Accepted(name, file, environ) /\ cfg' = Decoded(name, file, environ)
        \/ at' = "refused"
    BY <1>2 DEF Load, Refuse
  <2> QED
    BY <1>1, <2>1 DEF Loaded
<1>3. CASE at \notin {"load", "refused"} /\ UNCHANGED cfg
  BY <1>1, <1>3 DEF Loaded
<1> QED
  BY <1>2, <1>3, LoadedOnce

\* Who requires a resource is in the catalogue, under the driver retained.
LEMMA RequiringIs ==
  ASSUME Loaded, at \notin {"load", "refused"}, NEW r, RequiresResource(cfg, r)
  PROVE  \E m \in DOMAIN Catalog :
           IsEnabled(cfg, m) /\ r \in Requires(m, cfg[DriverKey(m)]).needs
<1>1. \A m \in DOMAIN Catalog : DriverKey(m) \in DOMAIN cfg
  BY AcceptedIsHardened DEF Loaded
<1>2. PICK m \in Modules(cfg) :
        IsEnabled(cfg, m) /\ r \in Requires(m, DriverOf(cfg, m)).needs
  BY DEF RequiresResource
<1>3. m \in DOMAIN Catalog
  BY <1>2 DEF Requires, Driver
<1>4. DriverOf(cfg, m) = cfg[DriverKey(m)]
  BY <1>1, <1>3 DEF DriverOf, Get
<1> QED
  BY <1>2, <1>3, <1>4

\* Only the two opening steps change the pool or the cache but to close it.
LEMMA NeededStep ==
  ASSUME Opening, Loaded, Needed, StartupNext
  PROVE  Needed'
<1> DEFINE Wanted(r) == \E m \in DOMAIN Catalog :
             IsEnabled(cfg, m) /\ r \in Requires(m, cfg[DriverKey(m)]).needs
<1>0. \A r \in {"sql", "cache"} : conn[r] = "open" => Wanted(r)
  BY DEF Needed
<1>1. CASE Load
  BY <1>1 DEF Load, Opening, Before, Resources, Needed, Refuse
<1>2. CASE at \notin {"load", "refused"} /\ UNCHANGED cfg
  <2>1. \A r \in {"sql", "cache"} :
          conn'[r] = "open" => conn[r] = "open" \/ RequiresResource(cfg, r)
    <3>1. CASE Observe \/ OpenPool \/ OpenCache
      BY <3>1 DEF Observe, OpenPool, OpenCache, Refuse, CloseBoth, Opening, Resources
    <3>2. CASE MountNext
      BY <3>2 DEF MountNext, Refuse, CloseBoth, Opening, Resources
    <3>3. CASE Mounted \/ Command \/ Finish
      BY <3>3 DEF Mounted, Command, Finish, Opening, Resources
    <3>4. CASE Load
      BY <1>2, <3>4 DEF Load
    <3> QED
      BY <3>1, <3>2, <3>3, <3>4 DEF StartupNext
  <2>2. \A r \in {"sql", "cache"} : conn'[r] = "open" => Wanted(r)
    BY <1>0, <1>2, <2>1, RequiringIs
  <2>3. at' \in {"cache", "mount"} /\ RequiresResource(cfg, "sql") =>
          conn'["sql"] = "open"
    <3>1. CASE Observe
      BY <3>1 DEF Observe, Refuse
    <3>2. CASE OpenPool
      BY <3>2 DEF OpenPool, Refuse, Opening, Resources
    <3>3. CASE OpenCache
      BY <3>3 DEF OpenCache, Refuse, Opening, Resources, Needed
    <3>4. CASE MountNext
      BY <3>4 DEF MountNext, Refuse, Opening, Resources, Needed
    <3>5. CASE Mounted \/ Command \/ Finish
      BY <3>5 DEF Mounted, Command, Finish
    <3>6. CASE Load
      BY <1>2, <3>6 DEF Load
    <3> QED
      BY <3>1, <3>2, <3>3, <3>4, <3>5, <3>6 DEF StartupNext
  <2>4. UNCHANGED cfg
    BY <1>2
  <2> QED
    BY <2>2, <2>3, <2>4 DEF Needed, RequiresResource
<1> QED
  BY <1>1, <1>2, LoadedOnce

LEMMA HeadAndTail ==
  ASSUME NEW S, NEW s \in Seq(S), s # <<>>
  PROVE  /\ Head(s) \in S /\ Head(s) = s[1] /\ 1 \in 1..Len(s)
         /\ Tail(s) \in Seq(S) /\ Tail(s) # s
         /\ \A i \in 1..Len(Tail(s)) : i + 1 \in 1..Len(s) /\ Tail(s)[i] = s[i + 1]
<1>1. Head(s) \in S /\ Head(s) = s[1]
  OBVIOUS
<1>2. Len(s) \in Nat /\ 1 \in 1..Len(s)
  OBVIOUS
<1>3. Len(Tail(s)) = Len(s) - 1
  OBVIOUS
<1>4. \A i \in 1..Len(Tail(s)) : i + 1 \in 1..Len(s) /\ Tail(s)[i] = s[i + 1]
  OBVIOUS
<1>5. \A n \in Nat : n - 1 # n
  OBVIOUS
<1>6. Tail(s) # s
  BY <1>2, <1>3, <1>5
<1> QED
  BY <1>1, <1>2, <1>4, <1>6

\* A module that refuses for want of a connection is the worker's idempotency.
LEMMA WhoIsRefused ==
  ASSUME Loaded, Needed, Mounting, at = "mount", todo # <<>>,
         Refusal(Head(todo)) = "not provided"
  PROVE  binary = "worker" /\ Head(todo) = "idempotency"
<1>0. todo \in Seq(Parts)
  BY DEF Mounting
<1>1. Head(todo) \in Parts /\ Head(todo) = todo[1] /\ 1 \in 1..Len(todo)
  BY <1>0, HeadAndTail
<1>2. OutboxRefusal = ""
  <2> SUFFICES ASSUME IsEnabled(cfg, "outbox"), DriverOf(cfg, "outbox") = "postgres",
                      conn["sql"] # "open"
               PROVE  FALSE
    BY DEF OutboxRefusal
  <2>1. Enabled("outbox") \in DOMAIN cfg
    BY DEF IsEnabled, Get
  <2>2. Enabled("outbox")[1] = "modules" /\ Enabled("outbox")[2] = "outbox"
    BY DEF Enabled
  <2>3. "outbox" \in Modules(cfg)
    BY <2>1, <2>2 DEF Modules
  <2>4. "sql" \in Requires("outbox", DriverOf(cfg, "outbox")).needs
    BY CatalogIs
  <2>5. RequiresResource(cfg, "sql")
    BY <2>3, <2>4 DEF RequiresResource
  <2> QED
    BY <2>5 DEF Needed
<1>3. Head(todo) = "idempotency"
  BY <1>1, <1>2 DEF Parts, Refusal, AuthRefusal, RegistrationRefusal,
     DispatchingRefusal, NotificationRefusal, DispatcherRefusal
<1> QED
  BY <1>1, <1>3 DEF Mounting

LEMMA MountingStep ==
  ASSUME Opening, Loaded, Needed, Mounting, StartupNext
  PROVE  Mounting'
<1>0. binary' = binary
  BY LoadedOnce DEF inputs
<1>1. CASE MountNext /\ todo' = Tail(todo)
  <2>0. todo \in Seq(Parts) /\ todo # <<>>
    BY <1>1 DEF MountNext, Mounting
  <2>1. /\ Tail(todo) \in Seq(Parts) /\ Tail(todo) # todo
        /\ \A i \in 1..Len(Tail(todo)) :
             i + 1 \in 1..Len(todo) /\ Tail(todo)[i] = todo[i + 1]
    BY <2>0, HeadAndTail
  <2>2. UNCHANGED <<at, refusal>> /\ at = "mount"
    BY <1>1, <2>1 DEF MountNext, Refuse
  <2>3. refusal # "not provided"
    BY <2>2 DEF Mounting
  <2> QED
    BY <1>0, <1>1, <2>1, <2>2, <2>3 DEF Mounting
<1>2. CASE MountNext /\ UNCHANGED todo
  <2>1. \/ refusal' = "trouble" \/ UNCHANGED <<at, refusal>>
        \/ at' = "refused" /\ refusal' = Refusal(Head(todo))
    BY <1>2 DEF MountNext, Refuse
  <2>2. at = "mount" /\ todo # <<>>
    BY <1>2 DEF MountNext
  <2> QED
    BY <1>0, <1>2, <2>1, <2>2, WhoIsRefused DEF Mounting
<1>3. CASE /\ UNCHANGED todo /\ at # "refused"
           /\ UNCHANGED refusal \/ refusal' \in {"configuration", "trouble"}
  BY <1>0, <1>3 DEF Mounting
<1>4. \/ MountNext /\ (todo' = Tail(todo) \/ UNCHANGED todo)
      \/ /\ UNCHANGED todo /\ at # "refused"
         /\ UNCHANGED refusal \/ refusal' \in {"configuration", "trouble"}
  <2>1. CASE Load \/ Observe \/ OpenPool \/ OpenCache
    BY <2>1 DEF Load, Observe, OpenPool, OpenCache, Refuse
  <2>2. CASE MountNext
    BY <2>2 DEF MountNext, Refuse
  <2>3. CASE Mounted \/ Command \/ Finish
    BY <2>3 DEF Mounted, Command, Finish
  <2> QED
    BY <2>1, <2>2, <2>3 DEF StartupNext
<1> QED
  BY <1>1, <1>2, <1>3, <1>4

LEMMA SeedsLocallyStep ==
  ASSUME SeedsLocally, StartupNext
  PROVE  SeedsLocally'
<1>1. CASE Load
  BY <1>1 DEF Load, SeedsLocally
<1>2. CASE at \notin {"load", "refused"} /\ at' # "load" /\ UNCHANGED cfg
  <2>1. command' = command \/ (command' = "seed" => IsLocal(cfg))
    <3>1. CASE Observe \/ OpenPool \/ OpenCache
      BY <3>1 DEF Observe, OpenPool, OpenCache
    <3>2. CASE MountNext
      BY <3>2 DEF MountNext
    <3>3. CASE Mounted \/ Finish
      BY <3>3 DEF Mounted, Finish
    <3>4. CASE Command
      BY <3>4 DEF Command
    <3>5. CASE Load
      BY <1>2, <3>5 DEF Load
    <3> QED
      BY <3>1, <3>2, <3>3, <3>4, <3>5 DEF StartupNext
  <2> QED
    BY <1>2, <2>1 DEF SeedsLocally, IsLocal
<1> QED
  BY <1>1, <1>2, LoadedOnce

LEMMA StartupInitially == StartupInit => StartupInv
<1> SUFFICES ASSUME StartupInit PROVE StartupInv
  OBVIOUS
<1>1. Opening /\ Loaded /\ SeedsLocally
  BY OpeningInitially DEF StartupInit, Loaded, SeedsLocally
<1>2. Needed
  BY DEF StartupInit, Needed, Nothing
<1>3. /\ binary \in {"server", "worker", "cli"} /\ todo \in Seq(Parts)
      /\ binary # "worker" => \A i \in 1..Len(todo) : todo[i] # "idempotency"
  <2>1. CASE binary = "server"
    <3>1. todo = <<"outbox", "auth", "user_registration">>
      BY <2>1 DEF StartupInit, Plan
    <3> QED
      BY <2>1, <3>1 DEF Parts
  <2>2. CASE binary = "cli"
    <3>1. todo = <<"outbox", "user_registration">>
      BY <2>2 DEF StartupInit, Plan
    <3> QED
      BY <2>2, <3>1 DEF Parts
  <2>3. CASE binary = "worker"
    <3>1. todo = <<"dispatching", "relay", "notification", "idempotency", "outbox",
                   "dispatcher">>
      BY <2>3 DEF StartupInit, Plan
    <3> QED
      BY <2>3, <3>1 DEF Parts
  <2> QED
    BY <2>1, <2>2, <2>3 DEF StartupInit, Plan
<1> QED
  BY <1>1, <1>2, <1>3 DEF StartupInv, Mounting, StartupInit

LEMMA StartupStays == StartupInv /\ [StartupNext]_startupVars => StartupInv'
<1> SUFFICES ASSUME StartupInv, [StartupNext]_startupVars PROVE StartupInv'
  OBVIOUS
<1>1. CASE StartupNext
  BY <1>1, OpeningStep, LoadedStep, NeededStep, MountingStep, SeedsLocallyStep
     DEF StartupInv
<1>2. CASE UNCHANGED startupVars
  BY <1>2 DEF startupVars, inputs, StartupInv, Opening, Loaded, Needed, Mounting,
     SeedsLocally, RequiresResource
<1> QED
  BY <1>1, <1>2

\* The pool and the cache are opened for an enabled module that requires them,
\* and no module of the server or the cli is refused for want of one.
THEOREM ConnectionsAreWanted == StartupSpec => []OpenedForWhoNeedsIt
<1>1. StartupInv => OpenedForWhoNeedsIt
  BY DEF StartupInv, Needed, Mounting, OpenedForWhoNeedsIt
<1> QED
  BY <1>1, StartupInitially, StartupStays, PTL DEF StartupSpec

\* Whatever the files and the variables say, a process that is up has its account
\* and its key and found every variable it must, and in uat or in production it is
\* hardened.
THEOREM UpMeansHardened == StartupSpec => []RunsOnlyHardened
<1>1. ASSUME StartupInv, at = "up"
      PROVE  RunsOnlyHardened
  <2> DEFINE name == IF asked = "" THEN "development" ELSE asked
  <2>1. Accepted(name, file, environ) /\ cfg = Decoded(name, file, environ)
    BY <1>1 DEF StartupInv, Loaded
  <2> HIDE DEF name
  <2>2. /\ \A k \in DOMAIN Merged(name, file) :
             Merged(name, file)[k].optional \/ Present(Merged(name, file)[k].var, environ)
        /\ Get(cfg, DSN) # "" /\ Get(cfg, Key) # ""
        /\ cfg[AppEnv] \in {"uat", "production"} =>
             /\ Get(cfg, MigrationDSN) \notin {"", cfg[DSN]}
             /\ Get(cfg, Telemetry) = "true"
             /\ Get(cfg, Origins) \notin {"", "*", "http://"}
    BY <2>1, AcceptedIsHardened
  <2>3. cfg[AppEnv] \in {"uat", "production"} => command # "seed"
    BY <1>1 DEF StartupInv, SeedsLocally, IsLocal
  <2> QED
    BY <2>2, <2>3 DEF RunsOnlyHardened, name
<1>2. StartupInv => RunsOnlyHardened
  BY <1>1 DEF RunsOnlyHardened
<1> QED
  BY <1>2, StartupInitially, StartupStays, PTL DEF StartupSpec

-----------------------------------------------------------------------------
(* The loops of the worker.                                                *)

\* Each loop writes one result, and main reads two: those written, those read.
Gone(side) == IF side = "gone" THEN 1 ELSE 0
ResultsRead == IF loop = "first" THEN 0 ELSE IF loop = "second" THEN 1 ELSE 2

\* An error that was returned is kept, or still to be read.
ErrorIsKept ==
  "error" \in returned =>
    firstError = "error" \/ \E i \in 1..Len(exits) : exits[i] = "error"

\* A consumer without subscriptions of its own, or that did not start, has no
\* reader; one that ended without an error left none at work.
ReadersAreWaitedFor ==
  /\ ~Networked \/ consumer = "starting" => \A t \in Subscriptions : reader[t] = "none"
  /\ consumer = "gone" =>
       \/ "error" \in returned
       \/ \A t \in Subscriptions : reader[t] \in {"none", "gone"}

LoopsTypes ==
  /\ dispatcher \in {"polling", "draining", "gone"}
  /\ consumer \in {"starting", "running", "failing", "gone"}
  /\ reader \in [Subscriptions -> {"none", "waiting", "handling", "gone"}]
  /\ exits \in Seq({"nil", "error"})
  /\ loop \in {"first", "second", "closing", "exited"}
  /\ loop = "first" => firstError = "nil"

LoopsInv ==
  /\ LoopsTypes
  /\ Len(exits) + ResultsRead = Gone(dispatcher) + Gone(consumer)
  /\ ErrorIsKept
  /\ ReadersAreWaitedFor

LEMMA LoopsInitially == LoopsInit => LoopsInv
BY DEF LoopsInit, LoopsInv, LoopsTypes, Gone, ResultsRead, ErrorIsKept,
       ReadersAreWaitedFor

\* A result more keeps the errors, and the error it may be.
LEMMA ExitKeepsErrors ==
  ASSUME LoopsTypes, ErrorIsKept, NEW result \in {"nil", "error"}, Exit(result),
         UNCHANGED firstError
  PROVE  /\ exits' \in Seq({"nil", "error"}) /\ Len(exits') = Len(exits) + 1
         /\ ErrorIsKept'
<1>1. /\ exits' \in Seq({"nil", "error"}) /\ Len(exits') = Len(exits) + 1
      /\ \A i \in 1..Len(exits) : exits'[i] = exits[i]
      /\ exits'[Len(exits) + 1] = result
  BY DEF Exit, LoopsTypes
<1>2. Len(exits) \in Nat
  BY DEF LoopsTypes
<1>3. CASE result = "error"
  <2>1. Len(exits) + 1 \in 1..Len(exits')
    BY <1>1, <1>2
  <2> QED
    BY <1>1, <1>3, <2>1 DEF ErrorIsKept
<1>4. CASE result = "nil"
  <2>1. \A i \in 1..Len(exits) : i \in 1..Len(exits')
    BY <1>1, <1>2
  <2>2. "error" \in returned' => "error" \in returned
    BY <1>4 DEF Exit
  <2> QED
    BY <1>1, <2>1, <2>2 DEF ErrorIsKept
<1> QED
  BY <1>1, <1>3, <1>4

\* The first result read is the error main returns; so is the second one when
\* the first was none.
LEMMA ReadKeepsErrors ==
  ASSUME LoopsTypes, ErrorIsKept, exits # <<>>, exits' = Tail(exits),
         firstError' = IF firstError = "error" THEN firstError ELSE Head(exits),
         UNCHANGED returned
  PROVE  /\ exits' \in Seq({"nil", "error"}) /\ Len(exits') + 1 = Len(exits)
         /\ ErrorIsKept'
<1>1. /\ exits' \in Seq({"nil", "error"}) /\ Len(exits') + 1 = Len(exits)
      /\ \A i \in 1..Len(exits') : exits'[i] = exits[i + 1]
      /\ Head(exits) = exits[1]
      /\ Len(exits) \in Nat /\ Len(exits') \in Nat
  BY DEF LoopsTypes
<1>2. ASSUME "error" \in returned', firstError' # "error"
      PROVE  \E i \in 1..Len(exits') : exits'[i] = "error"
  <2>1. PICK i \in 1..Len(exits) : exits[i] = "error"
    BY <1>2 DEF ErrorIsKept
  <2>2. i # 1
    BY <1>1, <1>2, <2>1
  <2>3. i - 1 \in 1..Len(exits') /\ (i - 1) + 1 = i
    BY <1>1, <2>1, <2>2
  <2> QED
    BY <1>1, <2>1, <2>3
<1> QED
  BY <1>1, <1>2 DEF ErrorIsKept

\* A loop that ends.
LEMMA EndsKeepLoops ==
  ASSUME LoopsInv, DispatcherEnds \/ ConsumerFails \/ ConsumerEnds
  PROVE  LoopsInv'
<1>0. UNCHANGED <<relay, reader, loop, firstError>>
  BY DEF DispatcherEnds, ConsumerFails, ConsumerEnds
<1>1. PICK result \in {"nil", "error"} : Exit(result)
  BY DEF DispatcherEnds, ConsumerFails, ConsumerEnds
<1>2. /\ exits' \in Seq({"nil", "error"}) /\ Len(exits') = Len(exits) + 1
      /\ ErrorIsKept'
  BY <1>0, <1>1, ExitKeepsErrors DEF LoopsInv
<1>3. LoopsTypes'
  BY <1>0, <1>2 DEF LoopsInv, LoopsTypes, DispatcherEnds, ConsumerFails, ConsumerEnds
<1>4. (Len(exits) + ResultsRead = Gone(dispatcher) + Gone(consumer))'
  <2>1. ResultsRead' = ResultsRead
    BY <1>0 DEF ResultsRead
  <2>2. CASE DispatcherEnds
    <3>1. Gone(dispatcher) = 0 /\ Gone(dispatcher') = 1 /\ consumer' = consumer
      BY <2>2 DEF DispatcherEnds, Gone
    <3> QED
      BY <1>2, <2>1, <3>1 DEF LoopsInv, LoopsTypes, Gone, ResultsRead
  <2>3. CASE ConsumerFails \/ ConsumerEnds
    <3>1. Gone(consumer) = 0 /\ Gone(consumer') = 1 /\ dispatcher' = dispatcher
      BY <2>3 DEF ConsumerFails, ConsumerEnds, Gone
    <3> QED
      BY <1>2, <2>1, <3>1 DEF LoopsInv, LoopsTypes, Gone, ResultsRead
  <2> QED
    BY <2>2, <2>3
<1>5. ReadersAreWaitedFor'
  <2>1. Networked' = Networked /\ returned \subseteq returned'
    BY <1>0, <1>1 DEF Networked, Exit
  <2>2. CASE DispatcherEnds
    BY <1>0, <2>1, <2>2 DEF LoopsInv, ReadersAreWaitedFor, DispatcherEnds
  <2>3. CASE ConsumerFails
    BY <1>0, <2>1, <2>3 DEF LoopsInv, ReadersAreWaitedFor, ConsumerFails, Exit
  <2>4. CASE ConsumerEnds
    BY <1>0, <2>1, <2>4 DEF LoopsInv, ReadersAreWaitedFor, ConsumerEnds
  <2> QED
    BY <2>2, <2>3, <2>4
<1> QED
  BY <1>2, <1>3, <1>4, <1>5 DEF LoopsInv

\* main reads a result.
LEMMA ReadsKeepLoops ==
  ASSUME LoopsInv, FirstExit \/ SecondExit
  PROVE  LoopsInv'
<1>1. /\ exits # <<>> /\ exits' = Tail(exits)
      /\ firstError' = IF firstError = "error" THEN firstError ELSE Head(exits)
      /\ UNCHANGED <<relay, dispatcher, consumer, reader, returned>>
  BY DEF FirstExit, SecondExit, loops, record, LoopsInv, LoopsTypes
<1>2. /\ exits' \in Seq({"nil", "error"}) /\ Len(exits') + 1 = Len(exits)
      /\ ErrorIsKept'
  BY <1>1, ReadKeepsErrors DEF LoopsInv
<1>3. LoopsTypes' /\ ReadersAreWaitedFor'
  BY <1>1, <1>2
  DEF LoopsInv, LoopsTypes, FirstExit, SecondExit, ReadersAreWaitedFor, Networked
<1>4. (Len(exits) + ResultsRead = Gone(dispatcher) + Gone(consumer))'
  <2>1. ResultsRead' = ResultsRead + 1
    BY DEF FirstExit, SecondExit, ResultsRead
  <2> QED
    BY <1>1, <1>2, <2>1 DEF LoopsInv, LoopsTypes, Gone, ResultsRead
<1> QED
  BY <1>2, <1>3, <1>4 DEF LoopsInv

\* What writes no result and reads none.
LEMMA OthersKeepLoops ==
  ASSUME LoopsInv, UNCHANGED <<relay, exits, firstError, returned>>,
         Gone(dispatcher') = Gone(dispatcher), Gone(consumer') = Gone(consumer),
         ResultsRead' = ResultsRead,
         LoopsTypes', ReadersAreWaitedFor'
  PROVE  LoopsInv'
<1>1. ErrorIsKept'
  BY DEF LoopsInv, ErrorIsKept
<1> QED
  BY <1>1 DEF LoopsInv, Gone, ResultsRead

LEMMA LoopsStep == LoopsInv /\ [LoopsNext]_loopsVars => LoopsInv'
<1> SUFFICES ASSUME LoopsInv, [LoopsNext]_loopsVars PROVE LoopsInv'
  OBVIOUS
<1>1. CASE Poll \/ DrainEnds
  <2>1. Gone(dispatcher') = Gone(dispatcher) /\ LoopsTypes' /\ ReadersAreWaitedFor'
    BY <1>1 DEF Poll, DrainEnds, record, Gone, LoopsInv, LoopsTypes, ReadersAreWaitedFor,
       Networked
  <2> QED
    BY <1>1, <2>1, OthersKeepLoops DEF Poll, DrainEnds, record, ResultsRead
<1>2. CASE DispatcherEnds \/ ConsumerFails \/ ConsumerEnds
  BY <1>2, EndsKeepLoops
<1>3. CASE ConsumerStarts
  <2>1. PICK ok \in SUBSET Subscriptions :
          /\ reader' = [t \in Subscriptions |->
                          IF Networked /\ t \in ok THEN "waiting" ELSE "none"]
          /\ consumer' \in {"running", "failing"}
    BY <1>3 DEF ConsumerStarts
  <2>2. LoopsTypes' /\ ReadersAreWaitedFor'
    BY <1>3, <2>1
    DEF ConsumerStarts, LoopsInv, LoopsTypes, ReadersAreWaitedFor, Networked
  <2> QED
    BY <1>3, <2>1, <2>2, OthersKeepLoops DEF ConsumerStarts, Gone, ResultsRead
<1>4. ASSUME NEW t \in Subscriptions,
             ReaderReceives(t) \/ ReaderHandled(t) \/ ReaderEnds(t)
      PROVE  LoopsInv'
  <2>1. PICK step \in {"waiting", "handling", "gone"} :
          /\ Turn(t, step) /\ reader[t] # "none" /\ reader[t] # "gone"
    BY <1>4 DEF ReaderReceives, ReaderHandled, ReaderEnds
  <2>2. LoopsTypes' /\ ReadersAreWaitedFor'
    BY <2>1 DEF Turn, record, LoopsInv, LoopsTypes, ReadersAreWaitedFor, Networked
  <2> QED
    BY <2>1, <2>2, OthersKeepLoops DEF Turn, record, ResultsRead
<1>5. CASE FirstExit \/ SecondExit
  BY <1>5, ReadsKeepLoops
<1>6. CASE Close \/ Terminate \/ MetricsLost \/ ConnectionDrops \/ UNCHANGED loopsVars
  <2>1. /\ UNCHANGED <<relay, dispatcher, consumer, reader, exits, firstError, returned>>
        /\ loop' = loop \/ (loop = "closing" /\ loop' = "exited")
    BY <1>6 DEF Close, Terminate, MetricsLost, ConnectionDrops, loopsVars, loops, record
  <2>2. LoopsTypes' /\ ReadersAreWaitedFor' /\ ResultsRead' = ResultsRead
    BY <2>1 DEF LoopsInv, LoopsTypes, ReadersAreWaitedFor, Networked, ResultsRead
  <2> QED
    BY <2>1, <2>2, OthersKeepLoops
<1> QED
  BY <1>1, <1>2, <1>3, <1>4, <1>5, <1>6
  DEF LoopsNext, Dispatcher, Consumer, Reader, Loop

\* A worker that exits reports the failure of either loop, and leaves no handler
\* at work unless the consumer failed to subscribe.
THEOREM WorkerStopsInOrder == LoopsSpec => []StopsInOrder
<1>1. LoopsInv => StopsInOrder
  <2> SUFFICES ASSUME LoopsInv, loop \in {"closing", "exited"}
      PROVE  /\ "error" \in returned => firstError = "error"
             /\ "error" \notin returned => \A t \in Subscriptions : reader[t] # "handling"
    BY DEF StopsInOrder
  <2>1. Len(exits) \in Nat /\ Len(exits) + 2 = Gone(dispatcher) + Gone(consumer)
    BY DEF LoopsInv, LoopsTypes, ResultsRead
  <2>2. consumer = "gone" /\ Len(exits) = 0
    BY <2>1 DEF Gone
  <2> QED
    BY <2>2 DEF LoopsInv, ErrorIsKept, ReadersAreWaitedFor
<1> QED
  BY <1>1, LoopsInitially, LoopsStep, PTL DEF LoopsSpec

-----------------------------------------------------------------------------
(* The server.                                                             *)

Entries == [tokens : 0..Burst, idle : 0..(TTL + 1)]

\* What a bucket nobody forgot has got back after so many ticks of silence.
Refilled(ticks) == Capped(ticks * Rps, Burst)

\* The table never promises more than the credit that is left; a client it does
\* not know has all of it, one it knows at least what its silence gave back.
TableIsSafe ==
  \A h \in Hosts :
    /\ credit[h] \in 0..Burst
    /\ visitors[h] = Stranger => credit[h] = Burst
    /\ visitors[h] # Stranger =>
         /\ visitors[h] \in Entries
         /\ visitors[h].tokens <= credit[h]
         /\ Refilled(visitors[h].idle) <= credit[h]

LimiterInv ==
  /\ visitors \in [Hosts -> Entries \union {Stranger}]
  /\ credit \in [Hosts -> Int]
  /\ TableIsSafe

LEMMA Cap ==
  ASSUME NEW n \in Nat, NEW top \in Nat
  PROVE  /\ Capped(n, top) \in 0..top
         /\ Capped(n, top) <= n
         /\ n >= top => Capped(n, top) = top
         /\ n < top => Capped(n, top) = n
  BY DEF Capped

\* A tick adds at most Rps to what silence gives back; after the TTL it has
\* given everything back.
LEMMA Refill ==
  /\ Refilled(0) = 0
  /\ \A i \in Nat : Refilled(i) \in Nat /\ Refilled(i + 1) <= Capped(Refilled(i) + Rps, Burst)
  /\ Refilled(TTL + 1) = Burst
<1> USE LimitsAssumption
<1>1. \A i \in Nat : i * Rps \in Nat /\ (i + 1) * Rps = i * Rps + Rps
  OBVIOUS
<1>2. Refilled(0) = 0
  BY DEF Refilled, Capped
<1>3. ASSUME NEW i \in Nat
      PROVE  Refilled(i) \in Nat /\ Refilled(i + 1) <= Capped(Refilled(i) + Rps, Burst)
  <2>1. PICK n \in Nat : i * Rps = n /\ (i + 1) * Rps = n + Rps
    BY <1>1
  <2> QED
    BY <2>1 DEF Refilled, Capped
<1>4. Refilled(TTL + 1) = Burst
  <2>1. PICK n \in Nat : TTL * Rps = n /\ (TTL + 1) * Rps = n + Rps
    BY <1>1
  <2> QED
    BY <2>1, RefillAssumption DEF Refilled, Capped
<1> QED
  BY <1>2, <1>3, <1>4

LEMMA LimiterInitially == Init => LimiterInv
  BY LimitsAssumption DEF Init, LimiterInv, TableIsSafe

LEMMA LimiterTick ==
  ASSUME LimiterInv, Tick
  PROVE  LimiterInv'
<1> USE LimitsAssumption, StrangerAssumption
<1>t. /\ visitors \in [Hosts -> Entries \union {Stranger}]
      /\ credit \in [Hosts -> Int]
      /\ TableIsSafe
  BY DEF LimiterInv
<1>0. /\ visitors' = [h \in Hosts |->
           IF visitors[h] = Stranger THEN Stranger
           ELSE [tokens |-> Capped(visitors[h].tokens + Rps, Burst),
                 idle |-> Capped(visitors[h].idle + 1, TTL + 1)]]
      /\ credit' = [h \in Hosts |-> Capped(credit[h] + Rps, Burst)]
  BY DEF Tick
<1>s. Stranger \notin Entries
  BY DEF Entries
<1>1. ASSUME NEW h \in Hosts
      PROVE  /\ visitors'[h] \in Entries \union {Stranger}
             /\ credit'[h] \in 0..Burst
             /\ visitors'[h] = Stranger => credit'[h] = Burst
             /\ visitors'[h] # Stranger =>
                  /\ visitors'[h] \in Entries
                  /\ visitors'[h].tokens <= credit'[h]
                  /\ Refilled(visitors'[h].idle) <= credit'[h]
  <2>1. credit[h] \in 0..Burst /\ credit'[h] = Capped(credit[h] + Rps, Burst)
    BY <1>0, <1>t DEF TableIsSafe
  <2>2. credit'[h] \in 0..Burst /\ credit[h] <= credit'[h]
    BY <2>1 DEF Capped
  <2>3. CASE visitors[h] = Stranger
    BY <1>0, <1>t, <2>1, <2>2, <2>3 DEF TableIsSafe, Capped
  <2>4. CASE visitors[h] # Stranger
    <3> DEFINE i == visitors[h].idle
               n == visitors[h].tokens
    <3>1. /\ i \in 0..(TTL + 1) /\ n \in 0..Burst /\ n <= credit[h]
          /\ Refilled(i) <= credit[h] /\ Refilled(i) \in Nat
      BY <1>t, <2>4, Refill DEF TableIsSafe, Entries
    <3>2. visitors'[h] = [tokens |-> Capped(n + Rps, Burst),
                          idle |-> Capped(i + 1, TTL + 1)]
      BY <1>0, <2>4
    <3> HIDE DEF i, n
    <3>3. visitors'[h] \in Entries /\ visitors'[h] # Stranger
      <4>1. Capped(n + Rps, Burst) \in 0..Burst
        BY <3>1 DEF Capped
      <4>2. Capped(i + 1, TTL + 1) \in 0..(TTL + 1)
        BY <3>1 DEF Capped
      <4> QED
        BY <1>s, <3>2, <4>1, <4>2 DEF Entries
    <3>4. visitors'[h].tokens <= credit'[h]
      BY <2>1, <3>1, <3>2 DEF Capped
    <3>5. Refilled(visitors'[h].idle) <= credit'[h]
      <4>1. CASE i = TTL + 1
        <5>1. visitors'[h].idle = i
          BY <3>1, <3>2, <4>1 DEF Capped
        <5> QED
          BY <2>1, <2>2, <3>1, <5>1
      <4>2. CASE i < TTL + 1
        <5>1. visitors'[h].idle = i + 1
          BY <3>1, <3>2, <4>2 DEF Capped
        <5>2. /\ Refilled(i + 1) <= Capped(Refilled(i) + Rps, Burst)
              /\ Refilled(i + 1) \in Nat
          BY <3>1, Refill
        <5> QED
          BY <2>1, <3>1, <5>1, <5>2 DEF Capped
      <4> QED
        BY <3>1, <4>1, <4>2
    <3> QED
      BY <2>2, <3>3, <3>4, <3>5
  <2> QED
    BY <2>3, <2>4
<1>2. credit' \in [Hosts -> Int]
  <2>1. \A h \in Hosts : credit'[h] \in Int
    BY <1>1
  <2> QED
    BY <1>0, <2>1
<1>3. visitors' \in [Hosts -> Entries \union {Stranger}]
  <2>1. \A h \in Hosts : visitors'[h] \in Entries \union {Stranger}
    BY <1>1
  <2> QED
    BY <1>0, <2>1
<1> QED
  BY <1>1, <1>2, <1>3 DEF LimiterInv, TableIsSafe

\* Whoever comes, the table it is looked up in is safe too: what is evicted had
\* its whole bucket back.
LEMMA LimiterAllow ==
  ASSUME LimiterInv, NEW h \in Hosts, NEW allowed \in BOOLEAN, Allow(h, allowed)
  PROVE  LimiterInv'
<1> USE LimitsAssumption, StrangerAssumption
<1> DEFINE table == Entered(h)
           Good(x, g) ==
             /\ x = Stranger => credit[g] = Burst
             /\ x # Stranger =>
                  /\ x \in Entries
                  /\ x.tokens <= credit[g]
                  /\ Refilled(x.idle) <= credit[g]
<1>t. /\ visitors \in [Hosts -> Entries \union {Stranger}]
      /\ credit \in [Hosts -> Int]
      /\ \A g \in Hosts : credit[g] \in 0..Burst /\ Good(visitors[g], g)
  BY DEF LimiterInv, TableIsSafe
<1>s. Stranger \notin Entries
  BY DEF Entries
<1>n. Newcomer \in Entries /\ Newcomer.tokens = Burst /\ Newcomer.idle = 0
  BY DEF Newcomer, Entries
<1>1. \A g \in Hosts : Evicted(visitors)[g] \in {visitors[g], Stranger}
                       /\ Good(Evicted(visitors)[g], g)
  <2> SUFFICES ASSUME NEW g \in Hosts
               PROVE  /\ Evicted(visitors)[g] \in {visitors[g], Stranger}
                      /\ Good(Evicted(visitors)[g], g)
    OBVIOUS
  <2>1. Evicted(visitors)[g] =
          IF visitors[g] # Stranger /\ visitors[g].idle > TTL THEN Stranger
          ELSE visitors[g]
    BY DEF Evicted
  <2>2. CASE visitors[g] # Stranger /\ visitors[g].idle > TTL
    <3>1. visitors[g].idle \in 0..(TTL + 1) /\ Refilled(visitors[g].idle) <= credit[g]
      BY <1>t, <2>2 DEF Entries
    <3>2. visitors[g].idle = TTL + 1
      BY <2>2, <3>1
    <3>3. credit[g] = Burst
      BY <1>t, <3>1, <3>2, Refill
    <3> QED
      BY <2>1, <2>2, <3>3
  <2>3. CASE ~(visitors[g] # Stranger /\ visitors[g].idle > TTL)
    BY <1>t, <2>1, <2>3
  <2> QED
    BY <2>2, <2>3
<1>2. /\ table \in [Hosts -> Entries \union {Stranger}]
      /\ table[h] \in Entries
      /\ \A g \in Hosts : Good(table[g], g)
  <2>1. CASE visitors[h] # Stranger
    BY <1>t, <2>1 DEF Entered
  <2>2. CASE visitors[h] = Stranger
    <3>1. table = [Evicted(visitors) EXCEPT ![h] = Newcomer]
      BY <2>2 DEF Entered
    <3>2. Evicted(visitors) \in [Hosts -> Entries \union {Stranger}]
      BY <1>1, <1>t DEF Evicted
    <3>3. table \in [Hosts -> Entries \union {Stranger}] /\ table[h] = Newcomer
      BY <1>n, <3>1, <3>2
    <3>4. Good(Newcomer, h)
      <4>1. credit[h] = Burst
        BY <1>t, <2>2
      <4> QED
        BY <1>n, <1>s, <4>1, Refill
    <3>5. \A g \in Hosts \ {h} : table[g] = Evicted(visitors)[g]
      BY <3>1, <3>2
    <3> HIDE DEF Good, table
    <3> QED
      BY <1>1, <1>n, <3>3, <3>4, <3>5
  <2> QED
    BY <2>1, <2>2
<1> DEFINE left == IF allowed THEN table[h].tokens - 1 ELSE table[h].tokens
<1>3. /\ allowed <=> table[h].tokens > 0
      /\ visitors' = [table EXCEPT ![h] = [tokens |-> left, idle |-> 0]]
      /\ credit' = IF allowed THEN [credit EXCEPT ![h] = @ - 1] ELSE credit
  BY <1>2, <1>s DEF Allow
<1>4. table[h].tokens \in 0..Burst /\ table[h].tokens <= credit[h]
  BY <1>2, <1>s DEF Entries
<1>5. left \in 0..Burst
  BY <1>3, <1>4
<1>6. /\ credit'[h] = IF allowed THEN credit[h] - 1 ELSE credit[h]
      /\ \A g \in Hosts \ {h} : credit'[g] = credit[g]
      /\ credit' \in [Hosts -> Int]
  BY <1>3, <1>t
<1>7. [tokens |-> left, idle |-> 0] \in Entries
  BY <1>5 DEF Entries
<1>8. /\ visitors'[h] = [tokens |-> left, idle |-> 0]
      /\ \A g \in Hosts \ {h} : visitors'[g] = table[g]
      /\ visitors' \in [Hosts -> Entries \union {Stranger}]
  BY <1>2, <1>3, <1>7
<1>9. credit'[h] \in 0..Burst /\ left <= credit'[h]
  BY <1>3, <1>4, <1>6, <1>t
<1>10. /\ visitors'[h] \in Entries /\ visitors'[h] # Stranger
       /\ visitors'[h].tokens <= credit'[h]
       /\ Refilled(visitors'[h].idle) <= credit'[h]
  <2> HIDE DEF left
  <2> QED
    BY <1>7, <1>8, <1>9, <1>s, Refill
<1>11. ASSUME NEW g \in Hosts
       PROVE  /\ credit'[g] \in 0..Burst
              /\ visitors'[g] = Stranger => credit'[g] = Burst
              /\ visitors'[g] # Stranger =>
                   /\ visitors'[g] \in Entries
                   /\ visitors'[g].tokens <= credit'[g]
                   /\ Refilled(visitors'[g].idle) <= credit'[g]
  <2>1. CASE g = h
    BY <1>9, <1>10, <2>1
  <2>2. CASE g # h
    <3>1. visitors'[g] = table[g] /\ credit'[g] = credit[g] /\ Good(table[g], g)
      BY <1>2, <1>6, <1>8, <2>2
    <3> HIDE DEF table
    <3> QED
      BY <1>t, <3>1
  <2> QED
    BY <2>1, <2>2
<1> QED
  BY <1>6, <1>8, <1>11 DEF LimiterInv, TableIsSafe

LEMMA LimiterStep == LimiterInv /\ [Next]_vars => LimiterInv'
<1> SUFFICES ASSUME LimiterInv, [Next]_vars PROVE LimiterInv'
  OBVIOUS
<1>1. CASE Tick
  BY <1>1, LimiterTick
<1>2. ASSUME NEW c \in Connections, NEW h \in Hosts, Throttled(c, h) PROVE LimiterInv'
  BY <1>2, LimiterAllow DEF Throttled
<1>3. ASSUME NEW c \in Connections, NEW h \in Hosts, Admitted(c, h) PROVE LimiterInv'
  BY <1>3, LimiterAllow DEF Admitted
<1>4. ASSUME UNCHANGED limiter PROVE LimiterInv'
  BY <1>4 DEF limiter, LimiterInv, TableIsSafe
<1>5. CASE Main
  BY <1>4, <1>5 DEF Main, Open, Mount, ServingFails, Shutdown, Drained, GraceOver,
                    ClosePool, Closed, Flushed
<1>6. CASE Signal \/ MetricsFail \/ MetricsStop \/ ListenerFails
  BY <1>4, <1>6 DEF Signal, MetricsFail, MetricsStop, ListenerFails, limiter
<1>7. ASSUME NEW c \in Connections,
             Accept(c) \/ CloseIdle(c) \/ RefusedEarly(c) \/ Handler(c)
      PROVE  LimiterInv'
  BY <1>4, <1>7 DEF Accept, CloseIdle, RefusedEarly, Handler, Acquire, Release, Answer
<1>8. CASE UNCHANGED vars
  BY <1>4, <1>8 DEF vars
<1> QED
  BY <1>1, <1>2, <1>3, <1>5, <1>6, <1>7, <1>8 DEF Next

\* rate_limiter.go: eviction and insertion never give a client more than a bucket
\* that is never forgotten, provided an idle one is full again within the TTL.
THEOREM Limiting == Spec => []NeverOverTheBucket
<1>1. LimiterInv => NeverOverTheBucket
  BY DEF LimiterInv, TableIsSafe, NeverOverTheBucket
<1> QED
  BY <1>1, LimiterInitially, LimiterStep, PTL DEF Spec

-----------------------------------------------------------------------------
Past == {"closing", "flushing", "exited"}

\* Nothing is accepted once the drain has begun, and what follows it without an
\* error follows an empty server.
DrainInv ==
  /\ connection \in [Connections -> {"free", "kept", "running", "holding"}]
  /\ main = "draining" => listener = "closed"
  /\ main \in Past /\ outcome = "nil" =>
       /\ listener = "closed"
       /\ \A c \in Connections : connection[c] = "free"

LEMMA DrainInitially == Init => DrainInv
  BY DEF Init, DrainInv, Past

LEMMA DrainStep == DrainInv /\ [Next]_vars => DrainInv'
<1> SUFFICES ASSUME DrainInv, [Next]_vars PROVE DrainInv'
  OBVIOUS
<1> USE DEF DrainInv, Past
<1>1. ASSUME NEW c \in Connections, NEW from, NEW to,
             Turns(c, from, to), from # "free" \/ listener = "up",
             to \in {"free", "kept", "running", "holding"},
             UNCHANGED process
      PROVE  DrainInv'
  BY <1>1 DEF Turns, process
<1>2. ASSUME UNCHANGED connection,
             UNCHANGED <<main, outcome, listener>>
      PROVE  DrainInv'
  BY <1>2
<1>3. CASE Tick \/ Signal \/ MetricsFail \/ MetricsStop \/ ClosePool
  BY <1>2, <1>3 DEF Tick, Signal, MetricsFail, MetricsStop, ClosePool, process
<1>4. CASE ListenerFails
  BY <1>4 DEF ListenerFails
<1>5. CASE Open \/ Mount \/ ServingFails
  BY <1>5 DEF Open, Mount, ServingFails, Fails, Proceed
<1>6. CASE Shutdown \/ Drained
  BY <1>6 DEF Shutdown, Drained, Proceed
<1>7. CASE GraceOver \/ Closed \/ Flushed
  BY <1>7 DEF GraceOver, Closed, Flushed, Fails, Proceed
<1>8. ASSUME NEW c \in Connections, Accept(c) \/ CloseIdle(c) PROVE DrainInv'
  BY <1>1, <1>8 DEF Accept, CloseIdle
<1>9. ASSUME NEW c \in Connections,
             RefusedEarly(c) \/ \E h \in Hosts : Throttled(c, h) \/ Admitted(c, h)
      PROVE  DrainInv'
  <2>1. Turns(c, "kept", Kept) \/ Turns(c, "kept", "running")
    BY <1>9 DEF RefusedEarly, Throttled, Admitted
  <2>2. UNCHANGED process
    BY <1>9 DEF RefusedEarly, Throttled, Admitted
  <2>3. Kept \in {"free", "kept"}
    BY DEF Kept
  <2> QED
    BY <1>1, <2>1, <2>2, <2>3
<1>10. ASSUME NEW c \in Connections, Handler(c) PROVE DrainInv'
  <2>1. Kept \in {"free", "kept"}
    BY DEF Kept
  <2> QED
    BY <1>1, <1>10, <2>1 DEF Handler, Acquire, Release, Answer
<1>11. CASE UNCHANGED vars
  BY <1>11 DEF vars, process
<1> QED
  BY <1>3, <1>4, <1>5, <1>6, <1>7, <1>8, <1>9, <1>10, <1>11 DEF Next, Main

\* httpserver.go: closing what the handlers use, with no error to report, means
\* that no handler is left.
THEOREM Draining == Spec => []SuccessMeansDrained
<1>1. DrainInv => SuccessMeansDrained
  BY DEF DrainInv, Past, SuccessMeansDrained, InFlight
<1> QED
  BY <1>1, DrainInitially, DrainStep, PTL DEF Spec

-----------------------------------------------------------------------------
(* The registration.                                                       *)

Waiting == {"check", "hash", "persist"}
Places == Waiting \union {"new", "publish", "answered", "cut"}

RegistrationTypes ==
  /\ driver \in {"memory", "postgres"}
  /\ pc \in [Calls -> Places]
  /\ raw \in [Calls -> [address : Addresses \union {"malformed", "none"},
                        spelling : Spellings]]
  /\ byEmail \in [Emails -> SUBSET Calls]
  /\ outbox \subseteq Calls /\ saved \subseteq Calls
  /\ status \in [Calls -> {0, 201, 409, 422, 500, 503}]
  /\ life \in Nat /\ born \in [Calls -> Nat]

\* Where a call stands tells whether it has its account, and that it runs in
\* the present life of the server.
PlaceTells ==
  \A c \in Calls :
    /\ born[c] <= life
    /\ pc[c] \in Waiting \union {"new"} => c \notin saved
    /\ pc[c] = "publish" => c \in saved
    /\ pc[c] \in Waiting \union {"publish"} =>
         born[c] = life /\ raw[c].address \in Addresses
    /\ pc[c] # "answered" => status[c] = 0
    /\ c \in saved => raw[c].address \in Addresses

\* The accounts of this life are those the store holds.
StoreHolds ==
  \A c \in saved : born[c] = life => byEmail[Email(c)] = {c}

RegistrationInv ==
  /\ RegistrationTypes
  /\ PlaceTells
  /\ StoreHolds
  /\ OneAccountPerAddress
  /\ EventAndAccount

-----------------------------------------------------------------------------
\* Two well-formed inputs are one Email exactly when their address is one.
LEMMA EmailIsAddress ==
  ASSUME RegistrationTypes, NEW c \in Calls, NEW d \in Calls
  PROVE  /\ Email(c) = Email(d) <=> raw[c].address = raw[d].address
         /\ raw[c].address \in Addresses => Email(c) \in Emails
<1> USE SpellingAssumption
<1>1. \A b \in Calls :
        Email(b) = [address |-> raw[b].address, spelling |-> Lower]
  BY DEF RegistrationTypes, Email, NewEmail
<1> QED
  BY <1>1 DEF Emails

LEMMA RegistrationInitially == RegistrationInit => RegistrationInv
<1> SUFFICES ASSUME RegistrationInit PROVE RegistrationInv
  OBVIOUS
<1> USE SpellingAssumption, DriverAssumption DEF RegistrationInit
<1>1. RegistrationTypes
  BY DEF RegistrationTypes, Places, Waiting, NoInput, NoAccount
<1>2. PlaceTells
  BY DEF PlaceTells, Waiting
<1>3. StoreHolds /\ OneAccountPerAddress /\ EventAndAccount
  BY DEF StoreHolds, OneAccountPerAddress, EventAndAccount
<1> QED
  BY <1>1, <1>2, <1>3 DEF RegistrationInv

\* The three ways a step moves one call: on to the next step, out of the
\* pipeline with an error, and out of its last step.
Advances(c, place) ==
  /\ pc[c] \in Waiting /\ place \in Waiting
  /\ pc' = [pc EXCEPT ![c] = place] /\ status' = status
  /\ UNCHANGED <<driver, raw, byEmail, outbox, saved, life, born>>

Refuses(c, code) ==
  /\ pc[c] \in Waiting /\ code \in {409, 422, 500}
  /\ pc' = [pc EXCEPT ![c] = "answered"]
  /\ status' = [status EXCEPT ![c] = code]
  /\ UNCHANGED <<driver, raw, byEmail, outbox, saved, life, born>>

Finishes(c, code) ==
  /\ pc[c] = "publish" /\ code \in {201, 500, 503}
  /\ pc' = [pc EXCEPT ![c] = "answered"]
  /\ status' = [status EXCEPT ![c] = code]
  /\ outbox' \in {outbox, outbox \union {c}}
  /\ code = 201 => outbox' = outbox \union {c}
  /\ UNCHANGED <<driver, raw, byEmail, saved, life, born>>

\* A step that moves one call of the pipeline, and neither accounts nor events.
LEMMA MovePreserves ==
  ASSUME RegistrationInv, NEW c \in Calls, NEW arg,
         Advances(c, arg) \/ Refuses(c, arg)
  PROVE  RegistrationInv'
<1>0. /\ pc[c] \in Waiting
      /\ UNCHANGED <<driver, raw, byEmail, outbox, saved, life, born>>
  BY DEF Advances, Refuses
<1>t. /\ RegistrationTypes /\ PlaceTells /\ StoreHolds
      /\ OneAccountPerAddress /\ EventAndAccount
  BY DEF RegistrationInv
<1>p. /\ pc' \in [Calls -> Places]
      /\ status' \in [Calls -> {0, 201, 409, 422, 500, 503}]
      /\ \A d \in Calls : d # c => pc'[d] = pc[d] /\ status'[d] = status[d]
      /\ \/ pc'[c] \in Waiting /\ status'[c] = 0
         \/ pc'[c] = "answered" /\ status'[c] # 201
  <2>1. CASE Advances(c, arg)
    <3>1. status[c] = 0
      BY <1>t, <1>0 DEF PlaceTells, Waiting
    <3> QED
      BY <1>t, <2>1, <3>1 DEF Advances, RegistrationTypes, Places
  <2>2. CASE Refuses(c, arg)
    BY <1>t, <2>2 DEF Refuses, RegistrationTypes, Places
  <2> QED
    BY <2>1, <2>2
<1>1. RegistrationTypes'
  BY <1>t, <1>0, <1>p DEF RegistrationTypes
<1>2. PlaceTells'
  BY <1>t, <1>0, <1>p DEF RegistrationTypes, PlaceTells, Waiting
<1>3. StoreHolds' /\ OneAccountPerAddress'
  BY <1>t, <1>0 DEF StoreHolds, OneAccountPerAddress, SameAddress, Email
<1>4. EventAndAccount'
  BY <1>t, <1>0, <1>p DEF EventAndAccount, RegistrationTypes
<1> QED
  BY <1>1, <1>2, <1>3, <1>4 DEF RegistrationInv

\* Nothing of this reads who has left, or what failed.
LEMMA StillPreserves ==
  ASSUME RegistrationInv,
         UNCHANGED <<driver, pc, raw, byEmail, outbox, status, saved, life, born>>
  PROVE  RegistrationInv'
<1>1. RegistrationTypes'
  BY DEF RegistrationInv, RegistrationTypes
<1>2. PlaceTells'
  BY DEF RegistrationInv, PlaceTells
<1>3. StoreHolds'
  BY DEF RegistrationInv, StoreHolds, Email
<1>4. OneAccountPerAddress' /\ EventAndAccount'
  BY DEF RegistrationInv, OneAccountPerAddress, SameAddress, EventAndAccount
<1> QED
  BY <1>1, <1>2, <1>3, <1>4 DEF RegistrationInv

\* The last step of the pipeline: an account it has, and a 201 only with its event.
LEMMA FinishPreserves ==
  ASSUME RegistrationInv, NEW c \in Calls, NEW code, Finishes(c, code)
  PROVE  RegistrationInv'
<1>f. /\ pc[c] = "publish" /\ code \in {201, 500, 503}
      /\ pc' = [pc EXCEPT ![c] = "answered"]
      /\ status' = [status EXCEPT ![c] = code]
      /\ outbox' \in {outbox, outbox \union {c}}
      /\ code = 201 => outbox' = outbox \union {c}
      /\ UNCHANGED <<driver, raw, byEmail, saved, life, born>>
  BY DEF Finishes
<1>t. /\ RegistrationTypes /\ PlaceTells /\ StoreHolds
      /\ OneAccountPerAddress /\ EventAndAccount
  BY DEF RegistrationInv
<1>0. /\ pc' \in [Calls -> Places]
      /\ status' \in [Calls -> {0, 201, 409, 422, 500, 503}]
      /\ \A d \in Calls : d # c => pc'[d] = pc[d] /\ status'[d] = status[d]
      /\ pc'[c] = "answered" /\ status'[c] = code
  BY <1>f, <1>t DEF RegistrationTypes, Places
<1>1. RegistrationTypes'
  BY <1>f, <1>t, <1>0 DEF RegistrationTypes
<1>2. PlaceTells'
  BY <1>f, <1>t, <1>0 DEF PlaceTells, Waiting
<1>3. StoreHolds' /\ OneAccountPerAddress'
  BY <1>f, <1>t DEF StoreHolds, OneAccountPerAddress, SameAddress, Email
<1>4. c \in saved
  BY <1>f, <1>t DEF PlaceTells
<1>5. EventAndAccount'
  <2>1. outbox' \subseteq saved' /\ outbox \subseteq outbox'
    BY <1>f, <1>t, <1>4 DEF EventAndAccount
  <2>2. ASSUME NEW d \in Calls, status'[d] = 201
        PROVE  d \in saved' /\ (driver' = "postgres" \/ born'[d] = life' => d \in outbox')
    <3>1. CASE d = c
      BY <1>f, <1>0, <1>4, <2>2, <3>1
    <3>2. CASE d # c
      BY <1>f, <1>t, <1>0, <2>1, <2>2, <3>2 DEF EventAndAccount
    <3> QED
      BY <3>1, <3>2
  <2> QED
    BY <2>1, <2>2 DEF EventAndAccount
<1> QED
  BY <1>1, <1>2, <1>3, <1>5 DEF RegistrationInv

LEMMA RegistrationStep ==
  RegistrationInv /\ [RegistrationNext]_registrationVars => RegistrationInv'
<1> SUFFICES ASSUME RegistrationInv, [RegistrationNext]_registrationVars
             PROVE  RegistrationInv'
  OBVIOUS
<1>t. /\ RegistrationTypes /\ PlaceTells /\ StoreHolds
      /\ OneAccountPerAddress /\ EventAndAccount
  BY DEF RegistrationInv
<1>1. ASSUME NEW c \in Calls, NEW input \in Inputs, NEW strong \in BOOLEAN,
             Validate(c, input, strong)
      PROVE  RegistrationInv'
  <2>0. /\ pc[c] = "new"
        /\ raw' = [raw EXCEPT ![c] = input]
        /\ born' = [born EXCEPT ![c] = life]
        /\ driver' = driver /\ byEmail' = byEmail /\ outbox' = outbox
        /\ saved' = saved /\ life' = life
        /\ \/ /\ input.address \in Addresses
              /\ pc' = [pc EXCEPT ![c] = "check"]
              /\ status' = status
           \/ /\ pc' = [pc EXCEPT ![c] = "answered"]
              /\ status' = [status EXCEPT ![c] = 422]
    BY <1>1 DEF Validate, Goto, Reply
  <2>i. /\ input.address \in Addresses \union {"malformed"}
        /\ input \in [address : Addresses \union {"malformed", "none"},
                      spelling : Spellings]
    BY DEF Inputs
  <2>p. /\ pc' \in [Calls -> Places]
        /\ status' \in [Calls -> {0, 201, 409, 422, 500, 503}]
    BY <1>t, <2>0 DEF RegistrationTypes, Places, Waiting
  <2>r. raw' \in [Calls -> [address : Addresses \union {"malformed", "none"},
                            spelling : Spellings]]
    BY <1>t, <2>0, <2>i DEF RegistrationTypes
  <2>1. RegistrationTypes'
    BY <1>t, <2>0, <2>p, <2>r DEF RegistrationTypes
  <2>2. c \notin saved /\ status[c] = 0
    BY <1>t, <2>0 DEF PlaceTells
  <2>3. PlaceTells'
    BY <1>t, <2>0, <2>2 DEF RegistrationTypes, PlaceTells, Waiting
  <2>4. \A d \in saved : raw'[d] = raw[d] /\ born'[d] = born[d]
    BY <1>t, <2>0, <2>2 DEF RegistrationTypes
  <2>5. StoreHolds' /\ OneAccountPerAddress'
    BY <1>t, <2>0, <2>4 DEF StoreHolds, OneAccountPerAddress, SameAddress, Email
  <2>6. EventAndAccount'
    <3>1. \A d \in Calls : status'[d] = 201 => status[d] = 201 /\ d # c
      BY <1>t, <2>0, <2>2 DEF RegistrationTypes
    <3>2. \A d \in Calls : status'[d] = 201 => born'[d] = born[d]
      BY <1>t, <2>0, <3>1 DEF RegistrationTypes
    <3> QED
      BY <1>t, <2>0, <3>1, <3>2 DEF EventAndAccount
  <2> QED
    BY <2>1, <2>3, <2>5, <2>6 DEF RegistrationInv
<1>2. ASSUME NEW c \in Calls, EnsureEmailAvailable(c) PROVE RegistrationInv'
  <2>1. Advances(c, "hash") \/ Refuses(c, 409)
    BY <1>2 DEF EnsureEmailAvailable, Advances, Refuses, Goto, Reply,
       request, history, Waiting
  <2> QED
    BY <2>1, MovePreserves
<1>3. ASSUME NEW c \in Calls, HashPassword(c) PROVE RegistrationInv'
  <2>1. Advances(c, "persist")
    BY <1>3 DEF HashPassword, Advances, Goto, request, history, Waiting
  <2> QED
    BY <2>1, MovePreserves
<1>4. ASSUME NEW c \in Calls, HashFails(c) PROVE RegistrationInv'
  <2>1. Refuses(c, 500)
    BY <1>4 DEF HashFails, Refuses, Reply, Goto, request, Waiting
  <2> QED
    BY <2>1, MovePreserves
<1>5. ASSUME NEW c \in Calls, Save(c) PROVE RegistrationInv'
  <2>0. /\ pc[c] = "persist"
        /\ UNCHANGED <<driver, raw, outbox, life, born>>
    BY <1>5 DEF Save, request
  <2>1. CASE /\ byEmail[Email(c)] = {}
             /\ byEmail' = [byEmail EXCEPT ![Email(c)] = {c}]
             /\ saved' = saved \union {c}
             /\ pc' = [pc EXCEPT ![c] = "publish"]
             /\ status' = status
    <3>c. born[c] = life /\ raw[c].address \in Addresses /\ status[c] = 0
      BY <1>t, <2>0 DEF PlaceTells, Waiting
    <3>1. RegistrationTypes'
      <4>0. {c} \in SUBSET Calls /\ saved' \subseteq Calls
        BY <1>t, <2>1 DEF RegistrationTypes
      <4>1. byEmail' \in [Emails -> SUBSET Calls]
        BY <1>t, <2>1, <4>0 DEF RegistrationTypes
      <4>2. pc' \in [Calls -> Places]
        BY <1>t, <2>1 DEF RegistrationTypes, Places
      <4> QED
        BY <1>t, <2>0, <2>1, <4>1, <4>2 DEF RegistrationTypes
    <3>2. PlaceTells'
      BY <1>t, <2>0, <2>1, <3>c DEF RegistrationTypes, PlaceTells, Waiting
    <3>3. \A d \in saved : born[d] = life => raw[d].address # raw[c].address
      <4> SUFFICES ASSUME NEW d \in saved, born[d] = life
                   PROVE  raw[d].address # raw[c].address
        OBVIOUS
      <4>1. byEmail[Email(d)] = {d}
        BY <1>t DEF StoreHolds
      <4>2. Email(d) # Email(c) /\ d \in Calls
        BY <1>t, <2>1, <4>1 DEF RegistrationTypes
      <4> QED
        BY <1>t, <4>2, EmailIsAddress
    <3>4. OneAccountPerAddress'
      BY <1>t, <2>0, <2>1, <3>c, <3>3 DEF OneAccountPerAddress, SameAddress
    <3>5. StoreHolds'
      <4> SUFFICES ASSUME NEW d \in saved', born[d] = life
                   PROVE  byEmail'[Email(d)] = {d}
        BY <2>0 DEF StoreHolds, Email
      <4>1. CASE d = c
        BY <1>t, <2>1, <3>c, <4>1, EmailIsAddress DEF RegistrationTypes
      <4>2. CASE d # c
        <5>1. d \in saved /\ d \in Calls
          BY <1>t, <2>1, <4>2 DEF RegistrationTypes
        <5>2. Email(d) # Email(c) /\ Email(d) \in Emails
          BY <1>t, <3>3, <5>1, EmailIsAddress DEF PlaceTells
        <5> QED
          BY <1>t, <2>1, <5>1, <5>2 DEF StoreHolds, RegistrationTypes
      <4> QED
        BY <4>1, <4>2
    <3>6. EventAndAccount'
      BY <1>t, <2>0, <2>1 DEF EventAndAccount
    <3> QED
      BY <3>1, <3>2, <3>4, <3>5, <3>6 DEF RegistrationInv
  <2>2. CASE /\ pc' = [pc EXCEPT ![c] = "answered"]
             /\ status' = [status EXCEPT ![c] = 409]
             /\ byEmail' = byEmail /\ saved' = saved
    <3>1. Refuses(c, 409)
      BY <2>0, <2>2 DEF Refuses, Waiting
    <3> QED
      BY <3>1, MovePreserves
  <2> QED
    BY <1>5, <2>1, <2>2 DEF Save, Goto, Reply, NoAccount
<1>7. ASSUME NEW c \in Calls, Publish(c) PROVE RegistrationInv'
  <2>1. Finishes(c, 201)
    BY <1>7 DEF Publish, Finishes, Reply, Goto, request, history
  <2> QED
    BY <2>1, FinishPreserves
<1>8. ASSUME NEW c \in Calls, PublishFails(c) PROVE RegistrationInv'
  <2>1. Finishes(c, 500) \/ Finishes(c, 503)
    BY <1>8 DEF PublishFails, Finishes, Reply, Goto, request
  <2> QED
    BY <2>1, FinishPreserves
<1>9. ASSUME NEW c \in Calls, Leave(c) PROVE RegistrationInv'
  BY <1>9, StillPreserves DEF Leave, history
<1>10. CASE Restart
  <2>0. /\ life' = life + 1
        /\ pc' = [c \in Calls |->
                    IF pc[c] \in {"new", "answered"} THEN pc[c] ELSE "cut"]
        /\ byEmail' = [e \in Emails |-> {}]
        /\ outbox' = IF driver = "memory" THEN {} ELSE outbox
        /\ UNCHANGED <<driver, raw, status, saved, born>>
    BY <1>10 DEF Restart, request, NoAccount
  <2>1. RegistrationTypes'
    BY <1>t, <2>0 DEF RegistrationTypes, Places, Waiting
  <2>2. \A c \in Calls : born[c] < life'
    BY <1>t, <2>0 DEF PlaceTells, RegistrationTypes
  <2>3. PlaceTells'
    BY <1>t, <2>0, <2>2 DEF RegistrationTypes, PlaceTells, Waiting
  <2>4. StoreHolds'
    BY <1>t, <2>0, <2>2 DEF StoreHolds, RegistrationTypes
  <2>5. OneAccountPerAddress'
    BY <1>t, <2>0 DEF OneAccountPerAddress, SameAddress
  <2>6. EventAndAccount'
    BY <1>t, <2>0, <2>2 DEF EventAndAccount, RegistrationTypes
  <2> QED
    BY <2>1, <2>3, <2>4, <2>5, <2>6 DEF RegistrationInv
<1>11. CASE UNCHANGED registrationVars
  BY <1>11, StillPreserves DEF registrationVars, request, history
<1> QED
  BY <1>1, <1>2, <1>3, <1>4, <1>5, <1>7, <1>8, <1>9, <1>10, <1>11
     DEF RegistrationNext, Step

-----------------------------------------------------------------------------
\* Store.Save: whatever the interleaving of check and write, one life of the
\* server has one account for an address.
THEOREM Uniqueness == RegistrationSpec => []OneAccountPerAddress
<1>1. RegistrationInv => OneAccountPerAddress
  BY DEF RegistrationInv
<1> QED
  BY <1>1, RegistrationInitially, RegistrationStep, PTL DEF RegistrationSpec

\* register_user.go: a 201 is said of an account whose event is in the outbox,
\* and no event announces what was not stored.
THEOREM TruthfulAnswers == RegistrationSpec => []EventAndAccount
<1>1. RegistrationInv => EventAndAccount
  BY DEF RegistrationInv
<1> QED
  BY <1>1, RegistrationInitially, RegistrationStep, PTL DEF RegistrationSpec

-----------------------------------------------------------------------------
(* The transactions.                                                       *)

\* The rows a use case has written so far.
Batch(u) ==
  {[unit |-> u, by |-> a, tenant |-> scope[u]] : a \in written[u]}

RowsOf(u) == {r \in rows : r.unit = u}

Steps == {"called", "scoped", "begun", "inside", "Ok", "Err"}
Records == [unit : Units, by : Adapters, tenant : Tenants \union {NoTenant}]

UnitTypes ==
  /\ unit \in [Units -> Steps]
  /\ scope \in [Units -> Tenants \union {NoTenant}]
  /\ session \in [Units -> Sessions \union {0}]
  /\ written \in [Units -> SUBSET Adapters]
  /\ rows \subseteq Records
  /\ pending \in [Sessions -> SUBSET Records]
  /\ setting \in [Sessions ->
       [tenant : Tenants \union {NoTenant}, local : BOOLEAN]]

\* A connection is out of the pool for one transaction at a time.
OneUnitPerSession ==
  /\ \A u \in Units : session[u] \in Sessions <=> unit[u] \in {"begun", "inside"}
  /\ \A u, v \in Units : session[u] \in Sessions /\ session[u] = session[v] => u = v

\* A connection of the pool carries no row and no tenant.
IdleIsClean ==
  \A s \in Idle : pending[s] = {} /\ setting[s] = Unset

\* Until its transaction ends, the rows of a use case are those pending on its
\* connection, under its tenant.
OwnRowsPending ==
  \A u \in Units :
    /\ unit[u] \in {"called", "scoped", "begun"} => written[u] = {}
    /\ unit[u] = "begun" =>
         pending[session[u]] = {} /\ setting[session[u]] = Unset
    /\ unit[u] = "inside" =>
         /\ pending[session[u]] = Batch(u)
         /\ setting[session[u]] = TenantSetting(scope[u])

\* Afterwards they are committed, all of them or none.
WholeBatches ==
  \A u \in Units :
    /\ RowsOf(u) \in {{}, Batch(u)}
    /\ unit[u] = "Ok" => RowsOf(u) = Batch(u)
    /\ unit[u] \notin {"Ok", "Err"} => RowsOf(u) = {}

UnitInv ==
  /\ UnitTypes
  /\ OneUnitPerSession
  /\ IdleIsClean
  /\ OwnRowsPending
  /\ WholeBatches

-----------------------------------------------------------------------------
LEMMA UnitInitially == UnitInit => UnitInv
<1> SUFFICES ASSUME UnitInit PROVE UnitInv
  OBVIOUS
<1> USE SessionAssumption
<1>1. UnitTypes
  BY DEF UnitInit, UnitTypes, Steps, Records, Unset
<1>2. OneUnitPerSession
  BY DEF UnitInit, OneUnitPerSession
<1>3. IdleIsClean
  BY DEF UnitInit, IdleIsClean, Idle
<1>4. OwnRowsPending
  BY DEF UnitInit, OwnRowsPending
<1>5. WholeBatches
  BY DEF UnitInit, WholeBatches, RowsOf, Batch
<1> QED
  BY <1>1, <1>2, <1>3, <1>4, <1>5 DEF UnitInv

\* The end of a transaction: the rows it keeps are all of the use case's, or
\* none; its connection goes back clean.
LEMMA OverPreserves ==
  ASSUME UnitInv, NEW u \in Units,
         unit[u] \in {"begun", "inside"},
         NEW kept \in SUBSET Records, NEW result \in {"Ok", "Err"},
         kept = {} \/ kept = Batch(u),
         result = "Ok" => kept = Batch(u),
         Over(u, kept, result)
  PROVE  UnitInv'
<1> DEFINE s == session[u]
<1> USE SessionAssumption
<1>0. /\ s \in Sessions
      /\ rows' = rows \union kept
      /\ pending' = [pending EXCEPT ![s] = {}]
      /\ setting' = [setting EXCEPT ![s] = IF @.local THEN Unset ELSE @]
      /\ session' = [session EXCEPT ![u] = 0]
      /\ unit' = [unit EXCEPT ![u] = result]
      /\ scope' = scope /\ written' = written
  BY DEF Over, UnitInv, OneUnitPerSession
<1>t. UnitTypes /\ OneUnitPerSession /\ IdleIsClean /\ OwnRowsPending /\ WholeBatches
  BY DEF UnitInv
<1>1. UnitTypes'
  BY <1>0, <1>t DEF UnitTypes, Steps, Unset
<1>2. OneUnitPerSession'
  BY <1>0, <1>t DEF UnitTypes, OneUnitPerSession, Steps
<1>3. IdleIsClean'
  <2> SUFFICES ASSUME NEW q \in Idle'
               PROVE  pending'[q] = {} /\ setting'[q] = Unset
    BY DEF IdleIsClean
  <2>1. q \in Sessions /\ \A v \in Units : session'[v] # q
    BY DEF Idle
  <2>2. CASE q = s
    <3>1. setting[s].local
      <4>1. Unset.local /\ \A x : TenantSetting(x).local
        BY DEF Unset, TenantSetting
      <4>2. setting[s] = Unset \/ setting[s] = TenantSetting(scope[u])
        BY <1>t DEF OwnRowsPending
      <4> QED
        BY <4>1, <4>2
    <3> QED
      BY <1>0, <1>t, <2>2, <3>1 DEF UnitTypes
  <2>3. CASE q # s
    <3>1. q \in Idle
      BY <1>0, <1>t, <2>1, <2>3 DEF Idle, UnitTypes
    <3> QED
      BY <1>0, <1>t, <2>1, <2>3, <3>1 DEF IdleIsClean, UnitTypes
  <2> QED
    BY <2>2, <2>3
<1>4. \A v \in Units : Batch(v)' = Batch(v)
  BY <1>0 DEF Batch
<1>5. OwnRowsPending'
  <2> SUFFICES ASSUME NEW v \in Units
      PROVE  /\ unit'[v] \in {"called", "scoped", "begun"} => written'[v] = {}
             /\ unit'[v] = "begun" =>
                  pending'[session'[v]] = {} /\ setting'[session'[v]] = Unset
             /\ unit'[v] = "inside" =>
                  /\ pending'[session'[v]] = Batch(v)'
                  /\ setting'[session'[v]] = TenantSetting(scope'[v])
    BY DEF OwnRowsPending
  <2>1. CASE v = u
    BY <1>0, <1>t, <2>1 DEF UnitTypes
  <2>2. CASE v # u
    <3>1. unit'[v] = unit[v] /\ session'[v] = session[v]
      BY <1>0, <1>t, <2>2 DEF UnitTypes
    <3>2. unit[v] \in {"begun", "inside"} => session[v] \in Sessions /\ session[v] # s
      BY <1>0, <1>t, <2>2 DEF OneUnitPerSession
    <3>3. unit[v] \in {"begun", "inside"} =>
            /\ pending'[session[v]] = pending[session[v]]
            /\ setting'[session[v]] = setting[session[v]]
      BY <1>0, <1>t, <3>2 DEF UnitTypes
    <3> QED
      BY <1>0, <1>t, <1>4, <3>1, <3>3 DEF OwnRowsPending
  <2> QED
    BY <2>1, <2>2
<1>6. WholeBatches'
  <2> SUFFICES ASSUME NEW v \in Units
      PROVE  /\ RowsOf(v)' \in {{}, Batch(v)'}
             /\ unit'[v] = "Ok" => RowsOf(v)' = Batch(v)'
             /\ unit'[v] \notin {"Ok", "Err"} => RowsOf(v)' = {}
    BY DEF WholeBatches
  <2>1. CASE v = u
    <3>1. RowsOf(u) = {}
      BY <1>t DEF WholeBatches
    <3>2. RowsOf(u)' = kept
      BY <1>0, <3>1 DEF RowsOf, Batch
    <3>3. unit'[u] = result
      BY <1>0, <1>t DEF UnitTypes
    <3> QED
      BY <1>4, <2>1, <3>2, <3>3
  <2>2. CASE v # u
    <3>1. RowsOf(v)' = RowsOf(v)
      BY <1>0, <2>2 DEF RowsOf, Batch
    <3>2. unit'[v] = unit[v]
      BY <1>0, <1>t, <2>2 DEF UnitTypes
    <3> QED
      BY <1>4, <1>t, <3>1, <3>2 DEF WholeBatches
  <2> QED
    BY <2>1, <2>2
<1> QED
  BY <1>1, <1>2, <1>3, <1>5, <1>6 DEF UnitInv

\* What is pending inside a transaction is the batch of its use case.
LEMMA PendingIsBatch ==
  ASSUME UnitInv, NEW u \in Units, unit[u] = "inside"
  PROVE  pending[session[u]] = Batch(u) /\ pending[session[u]] \in SUBSET Records
<1>1. session[u] \in Sessions
  BY DEF UnitInv, OneUnitPerSession
<1> QED
  BY <1>1 DEF UnitInv, OwnRowsPending, UnitTypes

LEMMA UnitStep == UnitInv /\ [UnitNext]_unitVars => UnitInv'
<1> SUFFICES ASSUME UnitInv, [UnitNext]_unitVars PROVE UnitInv'
  OBVIOUS
<1> USE SessionAssumption
<1>t. UnitTypes /\ OneUnitPerSession /\ IdleIsClean /\ OwnRowsPending /\ WholeBatches
  BY DEF UnitInv
<1>1. ASSUME NEW u \in Units, NEW t \in Tenants, WithTenant(u, t) PROVE UnitInv'
  <2>0. /\ unit[u] = "called"
        /\ scope' = [scope EXCEPT ![u] = t]
        /\ unit' = [unit EXCEPT ![u] = "scoped"]
        /\ session' = session /\ written' = written /\ rows' = rows
        /\ pending' = pending /\ setting' = setting
    BY <1>1 DEF WithTenant
  <2>1. UnitTypes'
    BY <1>t, <2>0 DEF UnitTypes, Steps
  <2>2. OneUnitPerSession'
    BY <1>t, <2>0 DEF UnitTypes, OneUnitPerSession
  <2>3. IdleIsClean'
    BY <1>t, <2>0 DEF IdleIsClean, Idle
  <2>4. written[u] = {} /\ RowsOf(u) = {}
    BY <1>t, <2>0 DEF OwnRowsPending, WholeBatches
  <2>5. \A v \in Units : Batch(v)' = Batch(v) /\ RowsOf(v)' = RowsOf(v)
    BY <1>t, <2>0, <2>4 DEF Batch, RowsOf, UnitTypes
  <2>6. OwnRowsPending'
    BY <1>t, <2>0, <2>5 DEF OwnRowsPending, UnitTypes
  <2>7. WholeBatches'
    BY <1>t, <2>0, <2>5 DEF WholeBatches, UnitTypes
  <2> QED
    BY <2>1, <2>2, <2>3, <2>6, <2>7 DEF UnitInv
<1>2. ASSUME NEW u \in Units, Begin(u) PROVE UnitInv'
  <2>0. PICK s \in Idle :
        /\ session' = [session EXCEPT ![u] = s]
        /\ unit[u] \in {"called", "scoped"}
        /\ unit' = [unit EXCEPT ![u] = "begun"]
        /\ scope' = scope /\ written' = written /\ rows' = rows
        /\ pending' = pending /\ setting' = setting
    BY <1>2 DEF Begin
  <2>i. s \in Sessions /\ \A v \in Units : session[v] # s
    BY DEF Idle
  <2>1. UnitTypes'
    BY <1>t, <2>0, <2>i DEF UnitTypes, Steps
  <2>2. OneUnitPerSession'
    BY <1>t, <2>0, <2>i DEF UnitTypes, OneUnitPerSession
  <2>3. Idle' \subseteq Idle
    BY <1>t, <2>0, <2>i DEF Idle, UnitTypes, OneUnitPerSession
  <2>4. IdleIsClean'
    BY <1>t, <2>0, <2>3 DEF IdleIsClean
  <2>5. \A v \in Units : Batch(v)' = Batch(v) /\ RowsOf(v)' = RowsOf(v)
    BY <2>0 DEF Batch, RowsOf
  <2>6. pending[s] = {} /\ setting[s] = Unset
    BY <1>t DEF IdleIsClean
  <2>7. OwnRowsPending'
    BY <1>t, <2>0, <2>5, <2>6 DEF OwnRowsPending, UnitTypes
  <2>8. WholeBatches'
    BY <1>t, <2>0, <2>5 DEF WholeBatches, UnitTypes
  <2> QED
    BY <2>1, <2>2, <2>4, <2>7, <2>8 DEF UnitInv
<1>3. ASSUME NEW u \in Units, BeginFails(u) PROVE UnitInv'
  <2>0. /\ unit[u] \in {"called", "scoped"}
        /\ unit' = [unit EXCEPT ![u] = "Err"]
        /\ scope' = scope /\ session' = session /\ written' = written
        /\ rows' = rows /\ pending' = pending /\ setting' = setting
    BY <1>3 DEF BeginFails
  <2>1. UnitTypes'
    BY <1>t, <2>0 DEF UnitTypes, Steps
  <2>2. OneUnitPerSession' /\ IdleIsClean'
    BY <1>t, <2>0 DEF UnitTypes, OneUnitPerSession, IdleIsClean, Idle
  <2>3. \A v \in Units : Batch(v)' = Batch(v) /\ RowsOf(v)' = RowsOf(v)
    BY <2>0 DEF Batch, RowsOf
  <2>4. OwnRowsPending'
    BY <1>t, <2>0, <2>3 DEF OwnRowsPending, UnitTypes
  <2>5. WholeBatches'
    BY <1>t, <2>0, <2>3 DEF WholeBatches, UnitTypes
  <2> QED
    BY <2>1, <2>2, <2>4, <2>5 DEF UnitInv
<1>4. ASSUME NEW u \in Units, Enter(u) PROVE UnitInv'
  <2> DEFINE s == session[u]
  <2>0. /\ unit[u] = "begun"
        /\ setting' = IF scope[u] = NoTenant THEN setting
                      ELSE [setting EXCEPT ![s] = TenantSetting(scope[u])]
        /\ unit' = [unit EXCEPT ![u] = "inside"]
        /\ scope' = scope /\ session' = session /\ written' = written
        /\ rows' = rows /\ pending' = pending
    BY <1>4 DEF Enter
  <2>s. s \in Sessions /\ \A v \in Units \ {u} : session[v] # s
    BY <1>t, <2>0 DEF OneUnitPerSession
  <2>1. UnitTypes'
    BY <1>t, <2>0, <2>s DEF UnitTypes, Steps, TenantSetting
  <2>2. OneUnitPerSession'
    BY <1>t, <2>0 DEF UnitTypes, OneUnitPerSession
  <2>3. Idle' = Idle /\ s \notin Idle
    BY <2>0 DEF Idle
  <2>4. IdleIsClean'
    <3> SUFFICES ASSUME NEW q \in Idle
                 PROVE  pending'[q] = {} /\ setting'[q] = Unset
      BY <2>3 DEF IdleIsClean
    <3>1. q # s /\ q \in Sessions
      BY <2>3 DEF Idle
    <3> QED
      BY <1>t, <2>0, <3>1 DEF IdleIsClean, UnitTypes
  <2>5. \A v \in Units : Batch(v)' = Batch(v) /\ RowsOf(v)' = RowsOf(v)
    BY <2>0 DEF Batch, RowsOf
  <2>6. setting'[s] = TenantSetting(scope[u])
    BY <1>t, <2>0, <2>s DEF OwnRowsPending, UnitTypes, TenantSetting, Unset
  <2>7. Batch(u) = {} /\ pending[s] = {}
    BY <1>t, <2>0 DEF OwnRowsPending, Batch
  <2>8. \A v \in Units \ {u} :
          /\ unit'[v] = unit[v]
          /\ unit[v] \in {"begun", "inside"} =>
               setting'[session[v]] = setting[session[v]]
    BY <1>t, <2>0, <2>s DEF OneUnitPerSession, UnitTypes
  <2>9. OwnRowsPending'
    <3> SUFFICES ASSUME NEW v \in Units
        PROVE  /\ unit'[v] \in {"called", "scoped", "begun"} => written'[v] = {}
               /\ unit'[v] = "begun" =>
                    pending'[session'[v]] = {} /\ setting'[session'[v]] = Unset
               /\ unit'[v] = "inside" =>
                    /\ pending'[session'[v]] = Batch(v)'
                    /\ setting'[session'[v]] = TenantSetting(scope'[v])
      BY DEF OwnRowsPending
    <3>1. CASE v = u
      BY <1>t, <2>0, <2>5, <2>6, <2>7, <3>1 DEF UnitTypes
    <3>2. CASE v # u
      BY <1>t, <2>0, <2>5, <2>8, <3>2 DEF OwnRowsPending
    <3> QED
      BY <3>1, <3>2
  <2>10. WholeBatches'
    BY <1>t, <2>0, <2>5 DEF WholeBatches, UnitTypes
  <2> QED
    BY <2>1, <2>2, <2>4, <2>9, <2>10 DEF UnitInv
<1>5. ASSUME NEW u \in Units, NEW a \in Adapters, Write(u, a) PROVE UnitInv'
  <2> DEFINE s == session[u]
             r == [unit |-> u, by |-> a, tenant |-> scope[u]]
  <2>0. /\ unit[u] = "inside"
        /\ pending' = [pending EXCEPT ![s] = @ \union {Row(u, a, s)}]
        /\ written' = [written EXCEPT ![u] = @ \union {a}]
        /\ unit' = unit /\ scope' = scope /\ session' = session
        /\ rows' = rows /\ setting' = setting
    BY <1>5 DEF Write
  <2>s. s \in Sessions /\ \A v \in Units \ {u} : session[v] # s
    BY <1>t, <2>0 DEF OneUnitPerSession
  <2>r. Row(u, a, s) = r
    <3>1. setting[s] = TenantSetting(scope[u])
      BY <1>t, <2>0 DEF OwnRowsPending
    <3>2. setting[s].tenant = scope[u]
      BY <3>1 DEF TenantSetting
    <3> QED
      BY <3>2 DEF Row
  <2>1. UnitTypes'
    BY <1>t, <2>0, <2>r, <2>s DEF UnitTypes, Records
  <2>2. OneUnitPerSession'
    BY <1>t, <2>0 DEF OneUnitPerSession
  <2>3. Idle' = Idle /\ s \notin Idle
    BY <2>0 DEF Idle
  <2>4. IdleIsClean'
    <3> SUFFICES ASSUME NEW q \in Idle
                 PROVE  pending'[q] = {} /\ setting'[q] = Unset
      BY <2>3 DEF IdleIsClean
    <3>1. q # s /\ q \in Sessions
      BY <2>3 DEF Idle
    <3> QED
      BY <1>t, <2>0, <3>1 DEF IdleIsClean, UnitTypes
  <2>5. \A v \in Units \ {u} : Batch(v)' = Batch(v)
    BY <1>t, <2>0 DEF Batch, UnitTypes
  <2>6. Batch(u)' = Batch(u) \union {r}
    BY <1>t, <2>0 DEF Batch, UnitTypes
  <2>7. pending'[s] = Batch(u)'
    BY <1>t, <2>0, <2>r, <2>s, <2>6 DEF OwnRowsPending, UnitTypes
  <2>8. \A v \in Units \ {u} :
          unit[v] \in {"begun", "inside"} =>
            pending'[session[v]] = pending[session[v]]
    BY <1>t, <2>0, <2>s DEF OneUnitPerSession, UnitTypes
  <2>9. OwnRowsPending'
    <3> SUFFICES ASSUME NEW v \in Units
        PROVE  /\ unit'[v] \in {"called", "scoped", "begun"} => written'[v] = {}
               /\ unit'[v] = "begun" =>
                    pending'[session'[v]] = {} /\ setting'[session'[v]] = Unset
               /\ unit'[v] = "inside" =>
                    /\ pending'[session'[v]] = Batch(v)'
                    /\ setting'[session'[v]] = TenantSetting(scope'[v])
      BY DEF OwnRowsPending
    <3>1. CASE v = u
      BY <1>t, <2>0, <2>7, <3>1 DEF OwnRowsPending
    <3>2. CASE v # u
      <4>1. written'[v] = written[v]
        BY <1>t, <2>0, <3>2 DEF UnitTypes
      <4> QED
        BY <1>t, <2>0, <2>5, <2>8, <3>2, <4>1 DEF OwnRowsPending
    <3> QED
      BY <3>1, <3>2
  <2>10. WholeBatches'
    <3> SUFFICES ASSUME NEW v \in Units
        PROVE  /\ RowsOf(v)' \in {{}, Batch(v)'}
               /\ unit'[v] = "Ok" => RowsOf(v)' = Batch(v)'
               /\ unit'[v] \notin {"Ok", "Err"} => RowsOf(v)' = {}
      BY DEF WholeBatches
    <3>1. RowsOf(v)' = RowsOf(v)
      BY <2>0 DEF RowsOf
    <3> QED
      BY <1>t, <2>0, <2>5, <3>1 DEF WholeBatches
  <2> QED
    BY <2>1, <2>2, <2>4, <2>9, <2>10 DEF UnitInv
<1>6. ASSUME NEW u \in Units, Rollback(u) PROVE UnitInv'
  <2>1. unit[u] \in {"begun", "inside"} /\ Over(u, {}, "Err")
    BY <1>6 DEF Rollback
  <2> QED
    BY <2>1, OverPreserves
<1>7. ASSUME NEW u \in Units, Commit(u) PROVE UnitInv'
  <2>1. unit[u] = "inside" /\ Over(u, pending[session[u]], "Ok")
    BY <1>7 DEF Commit
  <2> QED
    BY <2>1, PendingIsBatch, OverPreserves
<1>8. ASSUME NEW u \in Units, CommitFails(u) PROVE UnitInv'
  <2>1. /\ unit[u] = "inside"
        /\ Over(u, {}, "Err") \/ Over(u, pending[session[u]], "Err")
    BY <1>8 DEF CommitFails
  <2> QED
    BY <2>1, PendingIsBatch, OverPreserves
<1>9. CASE UNCHANGED unitVars
  BY <1>9 DEF unitVars, UnitInv, UnitTypes, OneUnitPerSession, IdleIsClean, Idle,
              OwnRowsPending, WholeBatches, RowsOf, Batch
<1> QED
  BY <1>1, <1>2, <1>3, <1>4, <1>5, <1>6, <1>7, <1>8, <1>9 DEF UnitNext

-----------------------------------------------------------------------------
\* RunInTx: the rows of a use case are there all together or not at all, and all
\* of them when it answered Ok.
THEOREM Atomicity == UnitSpec => []AllOrNothing
<1>1. UnitInv => AllOrNothing
  <2> SUFFICES ASSUME UnitInv, NEW u \in Units
      PROVE  /\ Committed(u) \in {{}, written[u]}
             /\ unit[u] = "Ok" => Committed(u) = written[u]
             /\ unit[u] \notin {"Ok", "Err"} => Committed(u) = {}
    BY DEF AllOrNothing
  <2>1. Committed(u) = {r.by : r \in RowsOf(u)}
    BY DEF Committed, RowsOf
  <2>2. {r.by : r \in Batch(u)} = written[u]
    <3> DEFINE R(a) == [unit |-> u, by |-> a, tenant |-> scope[u]]
    <3>1. \A a \in written[u] : R(a) \in Batch(u) /\ R(a).by = a
      BY DEF Batch
    <3>2. \A r \in Batch(u) : r.by \in written[u]
      BY DEF Batch
    <3> HIDE DEF R
    <3> QED
      BY <3>1, <3>2
  <2> QED
    BY <2>1, <2>2 DEF UnitInv, WholeBatches
<1> QED
  BY <1>1, UnitInitially, UnitStep, PTL DEF UnitSpec

\* runWithRollback: no row is written under the tenant of an earlier use case of
\* the same connection.
THEOREM OwnTenant == UnitSpec => []NoForeignTenant
<1>1. UnitInv => NoForeignTenant
  <2> SUFFICES ASSUME UnitInv, NEW r \in rows PROVE r.tenant = scope[r.unit]
    BY DEF NoForeignTenant
  <2>1. r.unit \in Units /\ r \in RowsOf(r.unit)
    BY DEF UnitInv, UnitTypes, Records, RowsOf
  <2>2. r \in Batch(r.unit)
    BY <2>1 DEF UnitInv, WholeBatches
  <2> QED
    BY <2>2 DEF Batch
<1> QED
  BY <1>1, UnitInitially, UnitStep, PTL DEF UnitSpec

-----------------------------------------------------------------------------
(* Stored objects.                                                         *)

StorageSpec == StorageInit /\ [][StorageNext]_storageVars

Files == Seq(Uploads \union {NoFile})

Placed(u) == put[u].at \in {"copying", "located"}

StorageTypeOK ==
  /\ path \in [Keys -> Nat \union {NoFile}]
  /\ \A k \in Keys : path[k] # NoFile => path[k] \in 1..Len(inode)
  /\ inode \in Seq(Files)
  /\ put \in [Uploads -> [at : {"starting", "copying", "located", "failed"},
                          key : Keys \union {NoFile}, file : Nat, done : Nat]]
  /\ \A u \in Uploads : /\ put[u].done <= Size(u)
                        /\ Placed(u) => put[u].file \in 1..Len(inode)
                        /\ put[u].at = "starting" => put[u].file = 0
  /\ get \in [Downloads -> [at : {"starting", "reading", "read", "refused"},
                            file : Nat, read : Files, of : SUBSET Uploads]]
  /\ \A d \in Downloads : /\ get[d].at = "reading" => get[d].file \in 1..Len(inode)
                          /\ get[d].at = "starting" => get[d].read = <<>>
  /\ disturbed \subseteq Uploads

Blocks(u, n) == [i \in 1..n |-> u]

\* Nobody else is writing in the file of who is undisturbed: it holds the blocks
\* of its own copy, all of them once the location is returned.
OwnBlocks ==
  \A u \in Uploads \ disturbed :
    Placed(u) =>
      /\ \A v \in Uploads \ {u} : put[v].at = "copying" => put[v].file # put[u].file
      /\ inode[put[u].file] = Blocks(u, put[u].done)
      /\ put[u].at = "located" => put[u].done = Size(u)

\* Who opened such a file reads those blocks in order, and that file only.
OwnReading ==
  \A d \in Downloads : \A u \in get[d].of \ disturbed :
    /\ put[u].at = "located"
    /\ get[d].at = "reading" =>
         /\ get[d].file = put[u].file
         /\ \E n \in 0..Size(u) : get[d].read = Blocks(u, n)
    /\ get[d].at = "read" => get[d].read = Content(u)

StorageInv == StorageTypeOK /\ OwnBlocks /\ OwnReading

LEMMA BlocksAre ==
  /\ \A u \in Uploads : \A n \in Nat :
       /\ Blocks(u, n) \in Files /\ Len(Blocks(u, n)) = n
       /\ Append(Blocks(u, n), u) = Blocks(u, n + 1)
  /\ \A u \in Uploads : Blocks(u, 0) = <<>>
<1>1. ASSUME NEW u \in Uploads, NEW n \in Nat
      PROVE  /\ Blocks(u, n) \in Files /\ Len(Blocks(u, n)) = n
             /\ Append(Blocks(u, n), u) = Blocks(u, n + 1)
  <2>1. Blocks(u, n) \in Files /\ Len(Blocks(u, n)) = n
    BY DEF Blocks, Files
  <2>2. Append(Blocks(u, n), u) = Blocks(u, n + 1)
    <3>1. /\ Append(Blocks(u, n), u) \in Files /\ Len(Append(Blocks(u, n), u)) = n + 1
          /\ \A i \in 1..(n + 1) : Append(Blocks(u, n), u)[i] = u
      <4>1. Append(Blocks(u, n), u) \in Files /\ Len(Append(Blocks(u, n), u)) = n + 1
        BY <2>1 DEF Files
      <4>2. \A i \in 1..(n + 1) : Append(Blocks(u, n), u)[i] = u
        BY <2>1 DEF Files, Blocks
      <4> QED
        BY <4>1, <4>2
    <3>2. n + 1 \in Nat /\ Blocks(u, n + 1) = [i \in 1..(n + 1) |-> u]
      BY DEF Blocks
    <3>3. \A s \in Files : s = [i \in 1..Len(s) |-> s[i]]
      BY DEF Files
    <3>4. Append(Blocks(u, n), u) = [i \in 1..(n + 1) |-> Append(Blocks(u, n), u)[i]]
      BY <3>1, <3>3
    <3> QED
      BY <3>1, <3>2, <3>4
  <2> QED
    BY <2>1, <2>2
<1>2. ASSUME NEW u \in Uploads PROVE Blocks(u, 0) = <<>>
  BY DEF Blocks
<1> QED
  BY <1>1, <1>2

LEMMA SizeIs == \A u \in Uploads : Size(u) \in Nat /\ Content(u) = Blocks(u, Size(u))
BY DEF Size, Content, Blocks

LEMMA WriteAtIs ==
  /\ \A c \in Files : \A n \in Nat : \A u \in Uploads : WriteAt(c, n + 1, u) \in Files
  /\ \A u \in Uploads : \A n \in Nat : WriteAt(Blocks(u, n), n + 1, u) = Blocks(u, n + 1)
<1>1. ASSUME NEW c \in Files, NEW n \in Nat, NEW u \in Uploads
      PROVE  WriteAt(c, n + 1, u) \in Files
  <2> DEFINE last == IF Len(c) > n + 1 THEN Len(c) ELSE n + 1
  <2>1. last \in Nat
    BY DEF Files
  <2>2. \A i \in 1..last :
          (IF i = n + 1 THEN u ELSE IF i <= Len(c) THEN c[i] ELSE NoFile)
            \in Uploads \union {NoFile}
    BY DEF Files
  <2>3. WriteAt(c, n + 1, u) =
          [i \in 1..last |-> IF i = n + 1 THEN u ELSE IF i <= Len(c) THEN c[i] ELSE NoFile]
    BY DEF WriteAt
  <2> HIDE DEF last
  <2> QED
    BY <2>1, <2>2, <2>3 DEF Files
<1>2. ASSUME NEW u \in Uploads, NEW n \in Nat
      PROVE  WriteAt(Blocks(u, n), n + 1, u) = Blocks(u, n + 1)
  <2>1. Len(Blocks(u, n)) = n
    BY BlocksAre
  <2>2. ~(n > n + 1) /\ n + 1 \in Nat
    OBVIOUS
  <2>3. \A i \in 1..(n + 1) :
          (IF i = n + 1 THEN u ELSE IF i <= n THEN Blocks(u, n)[i] ELSE NoFile) = u
    BY DEF Blocks
  <2>4. WriteAt(Blocks(u, n), n + 1, u) =
          [i \in 1..(n + 1) |->
             IF i = n + 1 THEN u ELSE IF i <= n THEN Blocks(u, n)[i] ELSE NoFile]
    BY <2>1, <2>2 DEF WriteAt
  <2> QED
    BY <2>3, <2>4 DEF Blocks
<1> QED
  BY <1>1, <1>2

\* PutRefused, PutFails and PutReturns only say where a call is.
LEMMA PutMoves ==
  ASSUME StorageInv, NEW u \in Uploads, PutRefused(u) \/ PutFails(u) \/ PutReturns(u)
  PROVE  StorageInv'
<1> USE DEF StorageInv
<1>1. UNCHANGED <<path, inode, get, disturbed>>
  BY DEF PutRefused, PutFails, PutReturns
<1>2. /\ \A v \in Uploads \ {u} : put'[v] = put[v]
      /\ put'[u].file = put[u].file /\ put'[u].done = put[u].done
      /\ put[u].at = "starting" => put'[u].at = "failed"
      /\ put[u].at # "starting" => put[u].at = "copying" /\
           (put'[u].at = "failed" \/ (put'[u].at = "located" /\ put[u].done = Size(u)))
      /\ put' \in [Uploads -> [at : {"starting", "copying", "located", "failed"},
                               key : Keys \union {NoFile}, file : Nat, done : Nat]]
  <2>1. put \in [Uploads -> [at : {"starting", "copying", "located", "failed"},
                             key : Keys \union {NoFile}, file : Nat, done : Nat]]
    BY DEF StorageTypeOK
  <2>2. CASE PutRefused(u) \/ PutFails(u)
    <3>1. /\ put' = [put EXCEPT ![u].at = "failed"]
          /\ put[u].at \in {"starting", "copying"}
      BY <2>2 DEF PutRefused, PutFails
    <3> QED
      BY <2>1, <3>1
  <2>3. CASE PutReturns(u)
    <3>1. /\ put' = [put EXCEPT ![u].at = "located"]
          /\ put[u].at = "copying" /\ put[u].done = Size(u)
      BY <2>3 DEF PutReturns
    <3> QED
      BY <2>1, <3>1
  <2> QED
    BY <2>2, <2>3
<1>3. StorageTypeOK'
  BY <1>1, <1>2 DEF StorageTypeOK, Placed
<1>4. OwnBlocks'
  <2>1. ASSUME NEW w \in Uploads \ disturbed, Placed(w)'
        PROVE  /\ \A v \in Uploads \ {w} : put'[v].at = "copying" => put'[v].file # put'[w].file
               /\ inode[put'[w].file] = Blocks(w, put'[w].done)
               /\ put'[w].at = "located" => put'[w].done = Size(w)
    <3>1. Placed(w) /\ put'[w].file = put[w].file /\ put'[w].done = put[w].done
      BY <1>2, <2>1 DEF Placed
    <3>2. \A v \in Uploads : put'[v].at = "copying" =>
            put[v].at = "copying" /\ put'[v].file = put[v].file
      BY <1>2
    <3>3. /\ \A v \in Uploads \ {w} : put[v].at = "copying" => put[v].file # put[w].file
          /\ inode[put[w].file] = Blocks(w, put[w].done)
          /\ put[w].at = "located" => put[w].done = Size(w)
      BY <3>1 DEF OwnBlocks
    <3>4. put'[w].at = "located" => put'[w].done = Size(w)
      BY <1>2, <3>3
    <3> QED
      BY <3>1, <3>2, <3>3, <3>4
  <2> QED
    BY <1>1, <2>1 DEF OwnBlocks
<1>5. OwnReading'
  <2>1. \A d \in Downloads : \A w \in get[d].of \ disturbed :
          put'[w].at = put[w].at /\ put'[w].file = put[w].file
    BY <1>2 DEF OwnReading, StorageTypeOK
  <2> QED
    BY <1>1, <2>1 DEF OwnReading
<1> QED
  BY <1>3, <1>4, <1>5

LEMMA PutBlockKeeps ==
  ASSUME StorageInv, NEW u \in Uploads, PutBlock(u)
  PROVE  StorageInv'
<1> USE DEF StorageInv
<1> DEFINE f == put[u].file
           n == put[u].done
<1>0. /\ put[u].at = "copying" /\ n < Size(u)
      /\ inode' = [inode EXCEPT ![f] = WriteAt(@, n + 1, Content(u)[n + 1])]
      /\ put' = [put EXCEPT ![u].done = @ + 1]
      /\ UNCHANGED <<path, get, disturbed>>
  BY DEF PutBlock
<1>1. /\ put \in [Uploads -> [at : {"starting", "copying", "located", "failed"},
                              key : Keys \union {NoFile}, file : Nat, done : Nat]]
      /\ inode \in Seq(Files) /\ f \in 1..Len(inode) /\ n \in Nat /\ Size(u) \in Nat
  BY <1>0, SizeIs DEF StorageTypeOK, Placed
<1>2. Content(u)[n + 1] = u
  <2>1. n + 1 \in 1..Size(u)
    BY <1>0, <1>1
  <2> QED
    BY <2>1 DEF Content
<1>3. /\ inode' \in Seq(Files) /\ Len(inode') = Len(inode)
      /\ inode'[f] = WriteAt(inode[f], n + 1, u)
      /\ \A g \in 1..Len(inode) : g # f => inode'[g] = inode[g]
  <2>1. inode[f] \in Files
    BY <1>1
  <2>2. WriteAt(inode[f], n + 1, u) \in Files
    BY <1>1, <2>1, WriteAtIs
  <2>3. inode' = [inode EXCEPT ![f] = WriteAt(inode[f], n + 1, u)]
    BY <1>0, <1>2
  <2> HIDE DEF f
  <2> QED
    BY <1>1, <2>2, <2>3
<1>4. /\ \A v \in Uploads \ {u} : put'[v] = put[v]
      /\ put'[u].at = "copying" /\ put'[u].file = f /\ put'[u].done = n + 1
      /\ put' \in [Uploads -> [at : {"starting", "copying", "located", "failed"},
                               key : Keys \union {NoFile}, file : Nat, done : Nat]]
  BY <1>0, <1>1
<1>5. StorageTypeOK'
  <2>1. \A v \in Uploads : /\ put'[v].done <= Size(v)
                           /\ Placed(v)' => put'[v].file \in 1..Len(inode')
                           /\ put'[v].at = "starting" => put'[v].file = 0
    <3>1. put'[u].done <= Size(u) /\ put'[u].file \in 1..Len(inode')
      BY <1>0, <1>1, <1>3, <1>4
    <3> QED
      BY <1>3, <1>4, <3>1 DEF StorageTypeOK, Placed
  <2> QED
    BY <1>0, <1>3, <1>4, <2>1 DEF StorageTypeOK
<1>6. OwnBlocks'
  <2>1. ASSUME NEW w \in Uploads \ disturbed, Placed(w)'
        PROVE  /\ \A v \in Uploads \ {w} : put'[v].at = "copying" => put'[v].file # put'[w].file
               /\ inode'[put'[w].file] = Blocks(w, put'[w].done)
               /\ put'[w].at = "located" => put'[w].done = Size(w)
    <3>1. Placed(w) /\ put'[w].file = put[w].file /\ put'[w].at = put[w].at
      BY <1>0, <1>4, <2>1 DEF Placed
    <3>2. \A v \in Uploads : put'[v].at = put[v].at /\ put'[v].file = put[v].file
      BY <1>0, <1>4
    <3>3. /\ \A v \in Uploads \ {w} : put[v].at = "copying" => put[v].file # put[w].file
          /\ inode[put[w].file] = Blocks(w, put[w].done)
          /\ put[w].at = "located" => put[w].done = Size(w)
      BY <3>1 DEF OwnBlocks
    <3>4. CASE w = u
      <4>1. inode'[f] = Blocks(u, n + 1)
        BY <1>1, <1>3, <3>3, <3>4, WriteAtIs
      <4>2. \A v \in Uploads \ {w} : put'[v].at = "copying" => put'[v].file # put'[w].file
        BY <3>2, <3>3
      <4>3. put'[w].at # "located"
        BY <1>4, <3>4
      <4>4. inode'[put'[w].file] = Blocks(w, put'[w].done)
        BY <1>4, <3>4, <4>1
      <4> QED
        BY <4>2, <4>3, <4>4
    <3>5. CASE w # u
      <4>1. put[w].file # f /\ put[w].file \in 1..Len(inode)
        BY <1>0, <3>1, <3>3, <3>5 DEF StorageTypeOK
      <4>2. \A v \in Uploads \ {w} : put'[v].at = "copying" => put'[v].file # put'[w].file
        BY <3>2, <3>3
      <4>3. put'[w] = put[w] /\ inode'[put[w].file] = inode[put[w].file]
        BY <1>3, <1>4, <3>5, <4>1
      <4> QED
        BY <3>3, <4>2, <4>3
    <3> QED
      BY <3>4, <3>5
  <2> QED
    BY <1>0, <2>1 DEF OwnBlocks
<1>7. OwnReading'
  <2>1. \A v \in Uploads : put'[v].at = put[v].at /\ put'[v].file = put[v].file
    BY <1>0, <1>4
  <2>2. \A d \in Downloads : get[d].of \subseteq Uploads
    BY DEF StorageTypeOK
  <2> QED
    BY <1>0, <2>1, <2>2 DEF OwnReading
<1> QED
  BY <1>5, <1>6, <1>7

LEMMA PutOpenKeeps ==
  ASSUME StorageInv, NEW u \in Uploads, NEW k \in Keys, PutOpen(u, k)
  PROVE  StorageInv'
<1> USE DEF StorageInv
<1> DEFINE f == Opened(k)
<1>0. /\ put[u].at = "starting"
      /\ path' = [path EXCEPT ![k] = f]
      /\ put' = [put EXCEPT ![u] = [at |-> "copying", key |-> k, file |-> f, done |-> 0]]
      /\ disturbed' = disturbed \union Disturbs(u, f)
      /\ get' = get
  BY DEF PutOpen
<1>1. /\ put \in [Uploads -> [at : {"starting", "copying", "located", "failed"},
                              key : Keys \union {NoFile}, file : Nat, done : Nat]]
      /\ inode \in Seq(Files) /\ Len(inode) \in Nat /\ path \in [Keys -> Nat \union {NoFile}]
  BY DEF StorageTypeOK
<1>2. f \in 1..(Len(inode) + 1)
  BY <1>1 DEF Opened, StorageTypeOK
<1>3. /\ inode' \in Seq(Files) /\ Len(inode) <= Len(inode') /\ Len(inode') \in Nat
      /\ f \in 1..Len(inode') /\ inode'[f] = <<>>
      /\ \A g \in 1..Len(inode) : g # f => inode'[g] = inode[g]
  <2>0. <<>> \in Files
    BY DEF Files
  <2>1. CASE path[k] = NoFile
    <3>1. inode' = Append(inode, <<>>) /\ f = Len(inode) + 1
      BY <2>1 DEF PutOpen, Opened
    <3> HIDE DEF f
    <3> QED
      BY <1>1, <2>0, <3>1
  <2>2. CASE path[k] # NoFile
    <3>1. inode' = [inode EXCEPT ![f] = <<>>] /\ f \in 1..Len(inode)
      BY <2>2 DEF PutOpen, Opened, StorageTypeOK
    <3> HIDE DEF f
    <3> QED
      BY <1>1, <2>0, <3>1
  <2> QED
    BY <2>1, <2>2
<1>4. /\ \A v \in Uploads \ {u} : put'[v] = put[v]
      /\ put'[u].at = "copying" /\ put'[u].file = f /\ put'[u].done = 0
      /\ put' \in [Uploads -> [at : {"starting", "copying", "located", "failed"},
                               key : Keys \union {NoFile}, file : Nat, done : Nat]]
  <2>1. [at |-> "copying", key |-> k, file |-> f, done |-> 0]
          \in [at : {"starting", "copying", "located", "failed"},
               key : Keys \union {NoFile}, file : Nat, done : Nat]
    BY <1>2
  <2> HIDE DEF f
  <2> QED
    BY <1>0, <1>1, <2>1
<1>5. disturbed \subseteq disturbed' /\ disturbed' \subseteq Uploads
  BY <1>0 DEF StorageTypeOK, Disturbs, OnFile
<1>6. StorageTypeOK'
  <2>1. /\ path' \in [Keys -> Nat \union {NoFile}]
        /\ \A j \in Keys : path'[j] # NoFile => path'[j] \in 1..Len(inode')
    <3>1. f \in Nat
      BY <1>2
    <3>2. \A j \in Keys : path[j] # NoFile => path[j] \in 1..Len(inode')
      BY <1>1, <1>3 DEF StorageTypeOK
    <3> HIDE DEF f
    <3> QED
      BY <1>0, <1>1, <1>3, <3>1, <3>2
  <2>2. \A v \in Uploads : /\ put'[v].done <= Size(v)
                           /\ Placed(v)' => put'[v].file \in 1..Len(inode')
                           /\ put'[v].at = "starting" => put'[v].file = 0
    <3>1. put'[u].done <= Size(u) /\ put'[u].file \in 1..Len(inode')
      BY <1>3, <1>4, SizeIs
    <3>2. \A v \in Uploads : Placed(v) => put[v].file \in 1..Len(inode')
      BY <1>1, <1>3 DEF StorageTypeOK
    <3> QED
      BY <1>4, <3>1, <3>2 DEF StorageTypeOK, Placed
  <2>3. \A d \in Downloads : /\ get[d].at = "reading" => get[d].file \in 1..Len(inode')
                             /\ get[d].at = "starting" => get[d].read = <<>>
    BY <1>1, <1>3 DEF StorageTypeOK
  <2> QED
    BY <1>0, <1>3, <1>4, <1>5, <2>1, <2>2, <2>3 DEF StorageTypeOK
<1>7. \A w \in Uploads \ disturbed' : w # u /\ Placed(w) => put[w].file # f
  <2>1. \A w \in Uploads : Placed(w) /\ put[w].file = f => w \in OnFile(f)
    BY DEF OnFile, Placed
  <2> QED
    BY <1>0, <2>1 DEF Disturbs
<1>8. u \notin disturbed' => \A v \in Uploads \ {u} : put[v].at = "copying" => put[v].file # f
  <2>1. \A v \in Uploads : put[v].at = "copying" /\ put[v].file = f => v \in OnFile(f)
    BY DEF OnFile
  <2> QED
    BY <1>0, <2>1 DEF Disturbs
<1>9. OwnBlocks'
  <2>1. ASSUME NEW w \in Uploads \ disturbed', Placed(w)'
        PROVE  /\ \A v \in Uploads \ {w} : put'[v].at = "copying" => put'[v].file # put'[w].file
               /\ inode'[put'[w].file] = Blocks(w, put'[w].done)
               /\ put'[w].at = "located" => put'[w].done = Size(w)
    <3>1. CASE w = u
      BY <1>3, <1>4, <1>8, <2>1, <3>1, BlocksAre
    <3>2. CASE w # u
      <4>1. Placed(w) /\ put'[w] = put[w] /\ w \notin disturbed
        BY <1>4, <1>5, <2>1, <3>2 DEF Placed
      <4>2. /\ \A v \in Uploads \ {w} : put[v].at = "copying" => put[v].file # put[w].file
            /\ inode[put[w].file] = Blocks(w, put[w].done)
            /\ put[w].at = "located" => put[w].done = Size(w)
        BY <4>1 DEF OwnBlocks
      <4>3. put[w].file # f /\ put[w].file \in 1..Len(inode)
        BY <1>7, <3>2, <4>1 DEF StorageTypeOK
      <4> HIDE DEF f
      <4> QED
        BY <1>3, <1>4, <3>2, <4>1, <4>2, <4>3
    <3> QED
      BY <3>1, <3>2
  <2> QED
    BY <2>1 DEF OwnBlocks
<1>10. OwnReading'
  <2>1. \A d \in Downloads : \A w \in get[d].of \ disturbed' :
          w \in get[d].of \ disturbed /\ put'[w] = put[w]
    BY <1>0, <1>4, <1>5 DEF OwnReading, StorageTypeOK
  <2> QED
    BY <1>0, <2>1 DEF OwnReading
<1> QED
  BY <1>6, <1>9, <1>10

\* A name removed leaves every file as it was.
LEMMA DeleteKeeps ==
  ASSUME StorageInv, NEW k \in Keys, Delete(k)
  PROVE  StorageInv'
<1>1. /\ UNCHANGED <<inode, put, get, disturbed>>
      /\ path' = [path EXCEPT ![k] = NoFile]
  BY DEF Delete
<1> QED
  BY <1>1 DEF StorageInv, StorageTypeOK, OwnBlocks, OwnReading, Placed

LEMMA GetKeeps ==
  ASSUME StorageInv, NEW d \in Downloads,
         GetRefused(d) \/ GetBlock(d) \/ \E k \in Keys : GetOpen(d, k)
  PROVE  StorageInv'
<1> USE DEF StorageInv
<1> DEFINE Gets == [at : {"starting", "reading", "read", "refused"},
                    file : Nat, read : Files, of : SUBSET Uploads]
<1>0. /\ UNCHANGED <<path, inode, put, disturbed>>
      /\ get \in [Downloads -> Gets] /\ inode \in Seq(Files)
  BY DEF GetRefused, GetBlock, GetOpen, StorageTypeOK
<1>1. SUFFICES
        /\ get' \in [Downloads -> Gets]
        /\ \A e \in Downloads \ {d} : get'[e] = get[e]
        /\ get'[d].at = "reading" => get'[d].file \in 1..Len(inode)
        /\ get'[d].at # "starting"
        /\ \A u \in get'[d].of \ disturbed :
             /\ put[u].at = "located"
             /\ get'[d].at = "reading" =>
                  /\ get'[d].file = put[u].file
                  /\ \E n \in 0..Size(u) : get'[d].read = Blocks(u, n)
             /\ get'[d].at = "read" => get'[d].read = Content(u)
  <2>1. SUFFICES ASSUME /\ get' \in [Downloads -> Gets]
                        /\ \A e \in Downloads \ {d} : get'[e] = get[e]
                        /\ get'[d].at = "reading" => get'[d].file \in 1..Len(inode)
                        /\ get'[d].at # "starting"
                        /\ \A u \in get'[d].of \ disturbed :
                             /\ put[u].at = "located"
                             /\ get'[d].at = "reading" =>
                                  /\ get'[d].file = put[u].file
                                  /\ \E n \in 0..Size(u) : get'[d].read = Blocks(u, n)
                             /\ get'[d].at = "read" => get'[d].read = Content(u)
                 PROVE  StorageInv'
    OBVIOUS
  <2>2. StorageTypeOK'
    BY <1>0, <2>1 DEF StorageTypeOK, Placed
  <2>3. OwnBlocks'
    BY <1>0 DEF OwnBlocks, Placed
  <2>4. OwnReading'
    BY <1>0, <2>1 DEF OwnReading
  <2> QED
    BY <2>2, <2>3, <2>4
<1>2. CASE GetRefused(d)
  <2>1. get[d].at = "starting" /\ get' = [get EXCEPT ![d].at = "refused"]
    BY <1>2 DEF GetRefused
  <2>2. \A u \in get[d].of \ disturbed : put[u].at = "located"
    BY DEF OwnReading
  <2> QED
    BY <1>0, <2>1, <2>2
<1>3. CASE \E k \in Keys : GetOpen(d, k)
  <2>1. PICK k \in Keys : GetOpen(d, k)
    BY <1>3
  <2> DEFINE f == path[k]
             of == {u \in OnFile(f) : put[u].at = "located"}
  <2>2. /\ get[d].at = "starting" /\ f \in 1..Len(inode)
        /\ get' = [get EXCEPT ![d].at = "reading", ![d].file = f, ![d].of = of]
    BY <2>1 DEF GetOpen, StorageTypeOK
  <2>3. of \subseteq Uploads /\ \A u \in of : put[u].at = "located" /\ put[u].file = f
    BY DEF OnFile
  <2>4. get[d].read = <<>>
    BY <2>2 DEF StorageTypeOK
  <2>5. \A u \in of : Blocks(u, 0) = <<>> /\ 0 \in 0..Size(u)
    BY <2>3, BlocksAre, SizeIs
  <2>6. /\ get'[d].at = "reading" /\ get'[d].file = f /\ get'[d].of = of
        /\ get'[d].read = <<>>
        /\ \A e \in Downloads \ {d} : get'[e] = get[e]
        /\ get' \in [Downloads -> Gets]
    <3> DEFINE g == [[[get[d] EXCEPT !.at = "reading"] EXCEPT !.file = f] EXCEPT !.of = of]
    <3>1. get' = [get EXCEPT ![d] = g]
      BY <2>2
    <3>2. f \in Nat /\ of \in SUBSET Uploads /\ get[d] \in Gets
      BY <1>0, <2>2, <2>3
    <3>3. /\ g \in Gets /\ g.at = "reading" /\ g.file = f /\ g.of = of
          /\ g.read = get[d].read
      <4> HIDE DEF f, of
      <4> QED
        BY <3>2
    <3> HIDE DEF f, of, g
    <3> QED
      BY <1>0, <2>4, <3>1, <3>3
  <2> HIDE DEF f, of
  <2> QED
    BY <2>2, <2>3, <2>5, <2>6
<1>4. CASE GetBlock(d)
  <2> DEFINE c == inode[get[d].file]
             r == get[d].read
  <2>1. /\ get[d].at = "reading"
        /\ Len(r) + 1 <= Len(c) =>
             get' = [get EXCEPT ![d] = [get[d] EXCEPT !.read = Append(r, c[Len(r) + 1])]]
        /\ ~(Len(r) + 1 <= Len(c)) => get' = [get EXCEPT ![d] = [get[d] EXCEPT !.at = "read"]]
    BY <1>4 DEF GetBlock
  <2>2. get[d] \in Gets /\ get[d].file \in 1..Len(inode) /\ c \in Files /\ r \in Files
    BY <1>0, <2>1 DEF StorageTypeOK
  <2>3. Len(r) \in Nat /\ Len(c) \in Nat
    BY <2>2 DEF Files
  <2>4. ASSUME NEW u \in get[d].of \ disturbed
        PROVE  /\ put[u].at = "located" /\ get[d].file = put[u].file
               /\ u \in Uploads /\ Size(u) \in Nat
               /\ c = Content(u) /\ Len(c) = Size(u)
               /\ \E n \in 0..Size(u) : r = Blocks(u, n)
    <3>1. u \in Uploads \ disturbed /\ Size(u) \in Nat
      BY <2>2, SizeIs
    <3>2. /\ put[u].at = "located" /\ get[d].file = put[u].file
          /\ \E n \in 0..Size(u) : r = Blocks(u, n)
      BY <2>1 DEF OwnReading
    <3>3. c = Blocks(u, Size(u))
      BY <3>1, <3>2 DEF OwnBlocks, Placed
    <3> QED
      BY <3>1, <3>2, <3>3, BlocksAre, SizeIs
  <2>5. CASE Len(r) + 1 <= Len(c)
    <3>1. get' = [get EXCEPT ![d] = [get[d] EXCEPT !.read = Append(r, c[Len(r) + 1])]]
      BY <2>1, <2>5
    <3>2. Append(r, c[Len(r) + 1]) \in Files
      <4>1. c[Len(r) + 1] \in Uploads \union {NoFile}
        BY <2>2, <2>3, <2>5 DEF Files
      <4> QED
        BY <2>2, <4>1 DEF Files
    <3>3. ASSUME NEW u \in get[d].of \ disturbed
          PROVE  \E n \in 0..Size(u) : Append(r, c[Len(r) + 1]) = Blocks(u, n)
      <4>1. PICK n \in 0..Size(u) : r = Blocks(u, n)
        BY <2>4
      <4>2. u \in Uploads /\ Size(u) \in Nat /\ c = Content(u) /\ Len(c) = Size(u)
        BY <2>4
      <4>3. Len(r) = n /\ n + 1 \in 1..Size(u)
        <5>1. Len(r) = n
          BY <4>1, <4>2, BlocksAre
        <5> QED
          BY <2>5, <4>2, <5>1
      <4>4. c[Len(r) + 1] = u
        BY <4>2, <4>3 DEF Content
      <4>5. Append(Blocks(u, n), u) = Blocks(u, n + 1)
        BY <4>2, BlocksAre
      <4> QED
        BY <4>1, <4>3, <4>4, <4>5
    <3>4. /\ get'[d].at = "reading" /\ get'[d].file = get[d].file /\ get'[d].of = get[d].of
          /\ get'[d].read = Append(r, c[Len(r) + 1])
          /\ \A e \in Downloads \ {d} : get'[e] = get[e]
          /\ get' \in [Downloads -> Gets]
      <4>1. PICK s \in Files : s = Append(r, c[Len(r) + 1])
        BY <3>2
      <4>2. get' = [get EXCEPT ![d] = [get[d] EXCEPT !.read = s]]
        BY <3>1, <4>1
      <4>3. get'[d] = [get[d] EXCEPT !.read = s] /\ \A e \in Downloads \ {d} : get'[e] = get[e]
        BY <1>0, <4>2
      <4>4. [get[d] EXCEPT !.read = s] \in Gets
        BY <2>2
      <4>5. get' \in [Downloads -> Gets]
        BY <1>0, <4>2, <4>4
      <4>6. /\ [get[d] EXCEPT !.read = s].at = get[d].at
            /\ [get[d] EXCEPT !.read = s].file = get[d].file
            /\ [get[d] EXCEPT !.read = s].of = get[d].of
            /\ [get[d] EXCEPT !.read = s].read = s
        BY <2>2
      <4> QED
        BY <2>1, <4>1, <4>3, <4>5, <4>6
    <3>5. \A u \in get[d].of \ disturbed : put[u].at = "located" /\ get[d].file = put[u].file
      BY <2>4
    <3> HIDE DEF c, r
    <3> QED
      BY <2>2, <3>3, <3>4, <3>5
  <2>6. CASE ~(Len(r) + 1 <= Len(c))
    <3>1. get' = [get EXCEPT ![d] = [get[d] EXCEPT !.at = "read"]]
      BY <2>1, <2>6
    <3>2. ASSUME NEW u \in get[d].of \ disturbed
          PROVE  r = Content(u)
      <4>1. PICK n \in 0..Size(u) : r = Blocks(u, n)
        BY <2>4
      <4>2. u \in Uploads /\ Size(u) \in Nat /\ Len(c) = Size(u)
        BY <2>4
      <4>3. Len(r) = n
        BY <4>1, <4>2, BlocksAre
      <4>4. n = Size(u)
        BY <2>6, <4>2, <4>3
      <4> QED
        BY <4>1, <4>2, <4>4, SizeIs
    <3>3. /\ get'[d].at = "read" /\ get'[d].of = get[d].of /\ get'[d].read = r
          /\ \A e \in Downloads \ {d} : get'[e] = get[e]
          /\ get' \in [Downloads -> Gets]
      BY <1>0, <2>2, <3>1
    <3> HIDE DEF c, r
    <3> QED
      BY <2>4, <3>2, <3>3
  <2> QED
    BY <2>5, <2>6
<1> QED
  BY <1>2, <1>3, <1>4

LEMMA StorageInitially == StorageInit => StorageInv
<1> SUFFICES ASSUME StorageInit PROVE StorageInv
  OBVIOUS
<1>1. inode = <<>> /\ Len(inode) = 0 /\ inode \in Seq(Files) /\ <<>> \in Files
  BY DEF StorageInit, Files
<1>2. \A u \in Uploads : put[u] = Starting
  BY DEF StorageInit
<1>3. \A u \in Uploads : Size(u) \in Nat
  BY SizeIs
<1>4. StorageTypeOK
  BY <1>1, <1>2, <1>3 DEF StorageInit, StorageTypeOK, Starting, Placed
<1>5. OwnBlocks /\ OwnReading
  BY <1>2 DEF StorageInit, OwnBlocks, OwnReading, Placed, Starting
<1> QED
  BY <1>4, <1>5 DEF StorageInv

LEMMA StorageStep == StorageInv /\ [StorageNext]_storageVars => StorageInv'
<1> SUFFICES ASSUME StorageInv, [StorageNext]_storageVars PROVE StorageInv'
  OBVIOUS
<1>1. CASE UNCHANGED storageVars
  BY <1>1 DEF storageVars, StorageInv, StorageTypeOK, OwnBlocks, OwnReading, Placed
<1>2. CASE StorageNext
  BY <1>2, PutMoves, PutBlockKeeps, PutOpenKeeps, DeleteKeeps, GetKeeps DEF StorageNext
<1> QED
  BY <1>1, <1>2

\* An object whose location was returned is whole, and so is what a later Get of
\* it returns, unless another Put opened the file: disk.go's Put and Get, for any
\* number of keys, uploads, downloads and deletions.
THEOREM StoredWhole == StorageSpec => []LocatedIsWhole
<1>1. StorageInv => LocatedIsWhole
  <2> SUFFICES ASSUME StorageInv, NEW u \in Uploads \ disturbed
               PROVE  /\ put[u].at = "located" => inode[put[u].file] = Content(u)
                      /\ \A d \in Downloads :
                           get[d].at = "read" /\ u \in get[d].of => get[d].read = Content(u)
    BY DEF LocatedIsWhole
  <2>1. put[u].at = "located" => inode[put[u].file] = Blocks(u, Size(u))
    BY DEF StorageInv, OwnBlocks, Placed
  <2> QED
    BY <2>1, SizeIs DEF StorageInv, OwnReading
<1> QED
  BY <1>1, StorageInitially, StorageStep, PTL DEF StorageSpec

-----------------------------------------------------------------------------
(* The generator.                                                          *)

\* The commands share files and nothing else: each may step, or both.
GeneratorSpec ==
  /\ FeatureInit /\ [][FeatureNext]_featureVars
  /\ ProjectInit /\ [][ProjectNext]_projectVars

FeatureSteps == {"called", "rendering", "declaring", "proving", "created", "failed"}

\* A module is rendered before it is declared; a plan is not changed once its
\* command has written arch-go.yml, and who lost its rule lost it to such a plan.
FeatureInv ==
  /\ feature \in [Features -> FeatureSteps]
  /\ DOMAIN anchor = Features /\ DOMAIN rendered = Features
  /\ wrote \subseteq Features /\ \A f \in wrote : feature[f] # "called"
  /\ \A f \in Features :
       /\ feature[f] \in {"declaring", "proving", "created"} => rendered[f] = Templates
       /\ feature[f] \in {"proving", "created"} =>
            \/ f \in rules \/ cut
            \/ \E g \in wrote \ {f} : f \notin anchor[g]

ProjectInv ==
  /\ project \in {"verifying", "compiling", "created"} => DOMAIN copied = DOMAIN starter
  /\ project \in {"compiling", "created"} =>
       \A f \in DOMAIN copied : Contains(copied[f]) => starter[f] = "record"

\* A command that moves changes its own place and no other.
LEMMA MovesOne ==
  ASSUME FeatureInv, NEW f \in Features, NEW from, NEW to \in FeatureSteps,
         Moves(f, from, to)
  PROVE  /\ feature' \in [Features -> FeatureSteps]
         /\ feature[f] = from /\ feature'[f] = to
         /\ \A g \in Features \ {f} : feature'[g] = feature[g]
BY DEF Moves, FeatureInv

LEMMA PlanFeatureKeeps ==
  ASSUME FeatureInv, NEW f \in Features, PlanFeature(f)
  PROVE  FeatureInv'
<1>1. UNCHANGED <<rendered, rules, wrote, cut>>
  BY DEF PlanFeature
<1>2. /\ feature' \in [Features -> FeatureSteps]
      /\ feature[f] = "called" /\ feature'[f] \in {"rendering", "failed"}
      /\ \A g \in Features \ {f} : feature'[g] = feature[g]
  <2>1. CASE Moves(f, "called", "rendering")
    BY <2>1, MovesOne DEF FeatureSteps
  <2>2. CASE Moves(f, "called", "failed")
    BY <2>2, MovesOne DEF FeatureSteps
  <2> QED
    BY <2>1, <2>2 DEF PlanFeature
<1>3. DOMAIN anchor' = Features /\ \A g \in Features \ {f} : anchor'[g] = anchor[g]
  BY DEF PlanFeature, FeatureInv
<1> QED
  BY <1>1, <1>2, <1>3 DEF FeatureInv

LEMMA DeclareIsolationKeeps ==
  ASSUME FeatureInv, NEW f \in Features, DeclareIsolation(f)
  PROVE  FeatureInv'
<1>1. UNCHANGED <<anchor, rendered>>
  BY DEF DeclareIsolation
<1>2. CASE Moves(f, "declaring", "proving") /\ rules' = anchor[f] \union {f}
           /\ wrote' = wrote \union {f}
  <2>1. /\ feature' \in [Features -> FeatureSteps]
        /\ feature[f] = "declaring" /\ feature'[f] = "proving"
        /\ \A g \in Features \ {f} : feature'[g] = feature[g]
    BY <1>2, MovesOne DEF FeatureSteps
  <2>2. ASSUME NEW g \in Features, feature'[g] \in {"proving", "created"}
        PROVE  \/ g \in rules' \/ \E h \in wrote' \ {g} : g \notin anchor'[h]
    BY <1>1, <1>2, <2>2
  <2> QED
    BY <1>1, <1>2, <2>1, <2>2 DEF FeatureInv
<1>3. CASE Moves(f, "declaring", "failed") /\ UNCHANGED wrote
           /\ (UNCHANGED <<rules, cut>> \/ cut' = TRUE)
  <2>1. /\ feature' \in [Features -> FeatureSteps]
        /\ feature[f] = "declaring" /\ feature'[f] = "failed"
        /\ \A g \in Features \ {f} : feature'[g] = feature[g]
    BY <1>3, MovesOne DEF FeatureSteps
  <2> QED
    BY <1>1, <1>3, <2>1 DEF FeatureInv
<1> QED
  BY <1>2, <1>3 DEF DeclareIsolation

LEMMA FeatureMovesOn ==
  ASSUME FeatureInv, NEW f \in Features,
         RenderFeature(f) \/ ProveFeature(f) \/ FeatureFails(f)
  PROVE  FeatureInv'
<1>1. UNCHANGED <<anchor, rendered, rules, wrote, cut>>
  BY DEF RenderFeature, ProveFeature, FeatureFails
<1>2. /\ feature' \in [Features -> FeatureSteps] /\ feature'[f] # "called"
      /\ \A g \in Features \ {f} : feature'[g] = feature[g]
      /\ \/ feature'[f] = "failed"
         \/ feature'[f] = "declaring" /\ rendered[f] = Templates
         \/ feature'[f] = "created" /\ feature[f] = "proving"
  <2>1. CASE RenderFeature(f)
    BY <2>1, MovesOne DEF RenderFeature, FeatureSteps
  <2>2. CASE ProveFeature(f)
    BY <2>2, MovesOne DEF ProveFeature, FeatureSteps
  <2>3. CASE FeatureFails(f)
    <3>1. PICK from \in {"rendering", "declaring", "proving"} :
            Moves(f, from, "failed")
      BY <2>3 DEF FeatureFails
    <3> QED
      BY <3>1, MovesOne DEF FeatureSteps
  <2> QED
    BY <2>1, <2>2, <2>3
<1> QED
  BY <1>1, <1>2 DEF FeatureInv

LEMMA FeatureKeeps == FeatureInv /\ [FeatureNext]_featureVars => FeatureInv'
<1> SUFFICES ASSUME FeatureInv, [FeatureNext]_featureVars PROVE FeatureInv'
  OBVIOUS
<1>1. ASSUME NEW f \in Features, NEW t \in Templates, RenderOne(f, t)
      PROVE  FeatureInv'
  <2>1. /\ UNCHANGED <<feature, anchor, rules, wrote, cut>> /\ feature[f] = "rendering"
        /\ rendered' = [rendered EXCEPT ![f] = @ \union {t}]
    BY <1>1 DEF RenderOne
  <2> QED
    BY <2>1 DEF FeatureInv
<1>2. CASE UNCHANGED featureVars
  BY <1>2 DEF featureVars, FeatureInv
<1> QED
  BY <1>1, <1>2, PlanFeatureKeeps, DeclareIsolationKeeps, FeatureMovesOn
     DEF FeatureNext

LEMMA ProjectKeeps == ProjectInv /\ [ProjectNext]_projectVars => ProjectInv'
<1> SUFFICES ASSUME ProjectInv, [ProjectNext]_projectVars PROVE ProjectInv'
  OBVIOUS
<1> USE DEF ProjectInv, Reaches
<1>1. CASE PlanProject \/ CopyProject
  BY <1>1 DEF PlanProject, CopyProject
<1>2. CASE VerifyNoTrace
  BY <1>2 DEF VerifyNoTrace, CitesSocleByHistory
<1>3. CASE Compile
  BY <1>3 DEF Compile
<1>4. CASE ProjectFails
  BY <1>4 DEF ProjectFails
<1>5. CASE \E f \in DOMAIN starter : CopyOne(f)
  BY <1>5 DEF CopyOne
<1>6. CASE UNCHANGED projectVars
  BY <1>6 DEF projectVars
<1> QED
  BY <1>1, <1>2, <1>3, <1>4, <1>5, <1>6 DEF ProjectNext

\* Whatever failed and whatever other command ran, a module announced is whole
\* and sealed, but where another command's plan, or a write cut short, took the seal; a
\* project announced is whole, and cites the starter in its records only.
THEOREM Announcements == GeneratorSpec => []CreatedIsComplete
<1>1. FeatureInit => FeatureInv
  BY DEF FeatureInit, FeatureInv, FeatureSteps
<1>2. ProjectInit => ProjectInv
  BY DEF ProjectInit, ProjectInv
<1>3. FeatureInv /\ ProjectInv => CreatedIsComplete
  BY DEF FeatureInv, ProjectInv, CreatedIsComplete
<1> QED
  BY <1>1, <1>2, <1>3, FeatureKeeps, ProjectKeeps, PTL DEF GeneratorSpec
=============================================================================
