-------------------------------- MODULE Auth --------------------------------
(***************************************************************************)
(* The authentication module over its memory driver, behind the HTTP       *)
(* surface: accounts, roles and sessions read and written by many calls at *)
(* once.  Each access to the store is one step under its lock; a call is   *)
(* several of them, and nothing holds them together.  Names (subjects,     *)
(* roles) are the canonical ones: Normalised is applied where a call reads *)
(* its input, which is pure.                                               *)
(***************************************************************************)
EXTENDS Integers, FiniteSets

CONSTANTS
  Callers,          \* the connections, one call at a time each
  Subjects,         \* well-formed subjects besides the bootstrap one
  RoleNames,        \* role names besides the bootstrap one
  Blank,            \* a name of white space only
  Spellings,        \* the ways of typing a name
  PermissionSets,   \* the sets of permissions a role is defined with
  Environments,     \* subset of {"local", "deployed"}
  SessionTTL,       \* ticks a session lives
  MaxClock,         \* bound: instants
  MaxIdentities,    \* bound: identifiers drawn
  MaxTokens,        \* bound: tokens drawn
  MaxRare           \* bound: restarts, and reopenings no surface exposes

ASSUME BoundAssumption ==
  {SessionTTL, MaxClock, MaxIdentities, MaxTokens, MaxRare} \subseteq Nat
ASSUME EnvironmentAssumption == Environments \subseteq {"local", "deployed"}

Permissions ==
  {"auth.identity.create", "auth.identity.roles", "auth.identity.close", "auth.role.write"}

ASSUME PermissionAssumption == PermissionSets \subseteq SUBSET Permissions

\* What each protected operation demands.
Required ==
  [create |-> "auth.identity.create", assign |-> "auth.identity.roles",
   shut   |-> "auth.identity.close",  define |-> "auth.role.write"]

BootstrapSubject == "admin@local"
BootstrapRole == "admin"

Names == RoleNames \cup {BootstrapRole}
Accounts == Subjects \cup {BootstrapSubject}
Ids == 1..MaxIdentities
Tokens == 1..MaxTokens
Malformed == "malformed"

\* What the module was configured with, settled before the program starts.
VARIABLES environment, enabled

\* memory.Store, under one lock; bySubject is 0 for an unknown subject.
VARIABLES bySubject, credentials, roles, sessions

\* The process: its phase, the clock, the random draws.
VARIABLES phase, clock, drawn, issued

\* The calls in flight: the step each stands before, what it has read so far
\* and, in the step that answers, its status.
VARIABLES pc, call, status

\* History: what held at some instant of a call, the roles each account was
\* given, the closures and reopenings an assignment overlapped, and the bounded
\* events.
VARIABLES seen, given, overlapped, rare

settings == <<environment, enabled>>
store == <<bySubject, credentials, roles, sessions>>
calls == <<pc, call, status>>
assignments == <<given, overlapped>>
vars == <<settings, store, phase, clock, drawn, issued, calls, seen, assignments, rare>>

Nobody == [subject |-> Malformed, roles |-> {}, active |-> FALSE]
Identities == [subject: Accounts, roles: SUBSET Names, active: BOOLEAN]
Garbled == 0
Forged == -1
NoSession == [identity |-> 0, expires |-> 0]
NoCall ==
  [kind |-> "none", token |-> 0, caller |-> 0, target |-> 0, copy |-> Nobody]

\* No call is answered by this step.
NoStatus == [c \in Callers |-> 0]

\* A role nobody defined; one defined with no permission grants as little.
NoRole == {}

\* strings.ToLower and TrimSpace: what is typed is a name and a spelling of it.
Normalised(raw) == raw[1]

\* domain.NewSubject: a blank subject is refused.
NewSubject(raw) == IF Normalised(raw) = Blank THEN Malformed ELSE Normalised(raw)

\* domain.NewRole: a blank name is refused, and so is any malformed permission.
NewRole(raw, permissions) ==
  LET names == {Normalised(raw)} \ {Blank}
  IN [names |-> names, permissions |-> IF names = {} THEN {} ELSE permissions]

\* domain.normalizeRoles: blank entries are dropped, not refused.
NormalizeRoles(raws) == {Normalised(raw) : raw \in raws} \ {Blank}

\* The bodies a call may carry, once read.
SubjectInputs == {NewSubject(raw) : raw \in (Accounts \cup {Blank}) \X Spellings}
RoleInputs ==
  {NewRole(raw, p) : raw \in (Names \cup {Blank}) \X Spellings, p \in PermissionSets}
RolesInputs == {NormalizeRoles(raws) : raws \in SUBSET ((Names \cup {Blank}) \X Spellings)}

\* domain.NewIdentity: open, and with no role.
NewIdentity(subject) == [subject |-> subject, roles |-> {}, active |-> TRUE]

WithRoles(identity, names) == [identity EXCEPT !.roles = names]
Deactivated(identity) == [identity EXCEPT !.active = FALSE]
Reactivated(identity) == [identity EXCEPT !.active = TRUE]

\* domain.NewSession: it names an account, never what the account may do.
NewSession(i) == [identity |-> i, expires |-> clock + SessionTTL]

Init ==
  /\ environment \in Environments
  /\ enabled \in BOOLEAN
  /\ bySubject = [s \in Accounts |-> 0]
  /\ credentials = [i \in Ids |-> Nobody]
  /\ roles = [n \in Names |-> NoRole]
  /\ sessions = [t \in Tokens |-> NoSession]
  /\ phase = "boot" /\ clock = 0 /\ drawn = 0 /\ issued = 0
  /\ pc = [c \in Callers |-> "idle"]
  /\ call = [c \in Callers |-> NoCall]
  /\ status = NoStatus
  /\ seen = [c \in Callers |-> {}]
  /\ given = [i \in Ids |-> {}] /\ overlapped = {}
  /\ rare = 0

-----------------------------------------------------------------------------
(* The store: each of these is one access under the lock.                  *)

Known(i) == i \in Ids /\ credentials[i] # Nobody

Active(i) == Known(i) /\ credentials[i].active

\* domain.Session.Expired: the instant of expiry is expired.
Expired(session) == ~(clock < session.expires)

Live(t) == t \in Tokens /\ sessions[t] # NoSession /\ ~Expired(sessions[t])

\* Store.Grants: what the identity holds now, nothing for a closed account.
Grants(i, permission) ==
  /\ Active(i)
  /\ \E n \in credentials[i].roles : permission \in roles[n]

\* Broken on purpose: the duplicate is not looked for.
SaveIdentity_Overwrites(subject) ==
  /\ drawn < MaxIdentities
  /\ drawn' = drawn + 1
  /\ bySubject' = [bySubject EXCEPT ![subject] = drawn + 1]
  /\ credentials' = [credentials EXCEPT ![drawn + 1] =
                      NewIdentity(subject)]

\* Store.SaveIdentity after NewIdentityID: the duplicate is refused under the
\* lock that writes.
SaveIdentity(subject) ==
  /\ bySubject[subject] = 0
  /\ drawn < MaxIdentities
  /\ drawn' = drawn + 1
  /\ bySubject' = [bySubject EXCEPT ![subject] = drawn + 1]
  /\ credentials' = [credentials EXCEPT ![drawn + 1] =
                      NewIdentity(subject)]

\* Store.AssignRoles: replaces the roles of the identity as it is now.
Rebind(i, names) == credentials' = [credentials EXCEPT ![i] = WithRoles(@, names)]

-----------------------------------------------------------------------------
(* The calls.  A body is read where it is first used: its decoding touches *)
(* nothing shared.                                                         *)

Serving == phase = "serving"

Answer(c, code) ==
  /\ pc' = [pc EXCEPT ![c] = "idle"]
  /\ call' = [call EXCEPT ![c] = NoCall]
  /\ status' = [NoStatus EXCEPT ![c] = code]

Proceed(c, step, read) ==
  /\ pc' = [pc EXCEPT ![c] = step]
  /\ call' = [call EXCEPT ![c] = read]
  /\ status' = NoStatus

Rare == rare < MaxRare /\ rare' = rare + 1

\* Every port of Disabled() refuses, and statusFor makes it a 503; a header
\* that is no bearer is refused before.
RefusedWhenDisabled(c) ==
  /\ Serving /\ pc[c] = "idle"
  /\ ~enabled
  /\ Answer(c, 401) \/ Answer(c, 503)
  /\ UNCHANGED <<settings, store, phase, clock, drawn, issued, assignments, rare>>

\* Authenticate, up to the comparison of the secret: subject and account are
\* read once, and a closed account is refused like an unknown one.
FindBySubject(c, subject) ==
  /\ Serving /\ pc[c] = "idle" /\ enabled
  /\ LET i == IF subject \in Accounts THEN bySubject[subject] ELSE 0
     IN IF Active(i)
        THEN Proceed(c, "compare", [NoCall EXCEPT !.kind = "open", !.caller = i])
        ELSE Answer(c, 401)
  /\ UNCHANGED <<settings, store, phase, clock, drawn, issued, assignments, rare>>

\* The comparison succeeds and issue draws and saves the session.
IssueSession(c) ==
  /\ pc[c] = "compare"
  /\ issued < MaxTokens
  /\ issued' = issued + 1
  /\ sessions' = [sessions EXCEPT ![issued + 1] =
                   NewSession(call[c].caller)]
  /\ Answer(c, 201)
  /\ UNCHANGED <<settings, bySubject, credentials, roles, phase, clock, drawn,
                 assignments, rare>>

\* The secret is wrong, or the comparison or the draw of the token fails.
SecretRefused(c) ==
  /\ pc[c] = "compare"
  /\ Answer(c, 401) \/ Answer(c, 500)
  /\ UNCHANGED <<settings, store, phase, clock, drawn, issued, assignments,
                 rare>>

\* bearer, then the first half of Verify: a malformed, unknown, revoked or
\* expired token is a 401.  What the token names is kept for the rest.
FindSession(c, t, kind) ==
  /\ Serving /\ pc[c] = "idle" /\ enabled
  /\ IF Live(t)
     THEN Proceed(c, "resolve", [NoCall EXCEPT !.kind = kind, !.token = t,
                                               !.caller = sessions[t].identity])
     ELSE Answer(c, 401)
  /\ UNCHANGED <<settings, store, phase, clock, drawn, issued, assignments, rare>>

\* Broken on purpose: a live token is enough.
FindIdentity_TrustsTheToken(c) ==
  /\ pc[c] = "resolve"
  /\ IF call[c].kind = "who" THEN Answer(c, 200)
     ELSE Proceed(c, "authorize", call[c])
  /\ UNCHANGED <<settings, store, phase, clock, drawn, issued, assignments, rare>>

\* The second half of Verify: the identity is read again, and a closed account
\* is worth nothing whatever its token says.
FindIdentity(c) ==
  /\ pc[c] = "resolve"
  /\ IF ~Active(call[c].caller) THEN Answer(c, 401)
     ELSE IF call[c].kind = "who" THEN Answer(c, 200)
     ELSE Proceed(c, "authorize", call[c])
  /\ UNCHANGED <<settings, store, phase, clock, drawn, issued, assignments, rare>>

\* Broken on purpose: a role that exists no more, or grants no more, still does.
Authorize_ByRole(c) ==
  /\ pc[c] = "authorize"
  /\ IF Active(call[c].caller) /\ BootstrapRole \in credentials[call[c].caller].roles
     THEN Proceed(c, "act", call[c])
     ELSE Answer(c, 403)
  /\ UNCHANGED <<settings, store, phase, clock, drawn, issued, assignments, rare>>

\* Authorize, the second half of Guard.Require.
Authorize(c) ==
  /\ pc[c] = "authorize"
  /\ IF Grants(call[c].caller, Required[call[c].kind])
     THEN Proceed(c, "act", call[c])
     ELSE Answer(c, 403)
  /\ UNCHANGED <<settings, store, phase, clock, drawn, issued, assignments, rare>>

\* Revoke: the token is deleted, whether it was there or not.
DeleteSession(c, t) ==
  /\ Serving /\ pc[c] = "idle" /\ enabled
  /\ sessions' = IF t \in Tokens THEN [sessions EXCEPT ![t] = NoSession] ELSE sessions
  /\ Answer(c, IF t = Garbled THEN 401 ELSE 204)
  /\ UNCHANGED <<settings, bySubject, credentials, roles, phase, clock, drawn, issued,
                 assignments, rare>>

\* A protected operation, once its guard is passed.
Acting(c, kind) == pc[c] = "act" /\ call[c].kind = kind

\* Register: shape, length of the secret and digest first, the store last.
Register(c, subject) ==
  /\ Acting(c, "create")
  /\ \/ /\ subject = Malformed
        /\ Answer(c, 422)
        /\ UNCHANGED <<bySubject, credentials, drawn>>
     \/ /\ subject # Malformed
        /\ Answer(c, 500)
        /\ UNCHANGED <<bySubject, credentials, drawn>>
     \/ /\ subject # Malformed
        /\ bySubject[subject] # 0
        /\ Answer(c, 409)
        /\ UNCHANGED <<bySubject, credentials, drawn>>
     \/ /\ subject # Malformed
        /\ SaveIdentity(subject)
        /\ Answer(c, 201)
  /\ UNCHANGED <<settings, roles, sessions, phase, clock, issued, assignments,
                 rare>>

\* DefineRole: replaces the role and what it grants.
DefineRole(c, role) ==
  /\ Acting(c, "define")
  /\ roles' = [n \in Names |-> IF n \in role.names THEN role.permissions ELSE roles[n]]
  /\ Answer(c, IF role.names = {} THEN 422 ELSE 204)
  /\ UNCHANGED <<settings, bySubject, credentials, sessions, phase, clock, drawn, issued,
                 assignments, rare>>

\* The calls that hold a copy of the identity and will write it back.
Rewriting(i) == {c \in Callers : pc[c] = "update" /\ call[c].target = i}

\* AssignRoles: one write under the lock.
AssignRoles(c, i, names) ==
  /\ Acting(c, "assign")
  /\ \/ /\ Known(i)
        /\ Rebind(i, names)
        /\ Answer(c, 204)
        /\ given' = [given EXCEPT ![i] = names]
        /\ overlapped' = overlapped \cup Rewriting(i)
     \/ /\ ~Known(i)
        /\ Answer(c, 401)
        /\ UNCHANGED <<credentials, assignments>>
  /\ UNCHANGED <<settings, bySubject, roles, sessions, phase, clock, drawn, issued, rare>>

\* setActive, first half: the identity is copied out of the store.
ReadIdentity(c, i) ==
  /\ Acting(c, "shut")
  /\ IF Known(i)
     THEN Proceed(c, "update", [call[c] EXCEPT !.target = i, !.copy = credentials[i]])
     ELSE Answer(c, 401)
  /\ UNCHANGED <<settings, store, phase, clock, drawn, issued, assignments, rare>>

\* Reactivate is a port of the module that no surface exposes: its caller is
\* the program itself.
ReadIdentityToReopen(c, i) ==
  /\ Serving /\ pc[c] = "idle" /\ enabled
  /\ Rare
  /\ IF Known(i)
     THEN Proceed(c, "update",
                  [NoCall EXCEPT !.kind = "reopen", !.target = i, !.copy = credentials[i]])
     ELSE Answer(c, 401)
  /\ UNCHANGED <<settings, store, phase, clock, drawn, issued, assignments>>

\* Broken on purpose: the identity is rebuilt, and not transformed.
UpdateIdentity_Rebuilds(c) ==
  LET i == call[c].target IN
  /\ pc[c] = "update"
  /\ credentials' = [credentials EXCEPT ![i] =
                      [NewIdentity(call[c].copy.subject)
                         EXCEPT !.active = (call[c].kind = "reopen")]]
  /\ Answer(c, 204)
  /\ IF c \in overlapped
     THEN /\ given' = [given EXCEPT ![i] = call[c].copy.roles]
          /\ overlapped' = (overlapped \cup Rewriting(i)) \ {c}
     ELSE UNCHANGED assignments
  /\ UNCHANGED <<settings, bySubject, roles, sessions, phase, clock, drawn, issued, rare>>

\* setActive, second half: the copy is written back whole, with what it says of
\* the account and of its roles.
UpdateIdentity(c) ==
  LET i == call[c].target IN
  /\ pc[c] = "update"
  /\ credentials' = [credentials EXCEPT ![i] =
                      IF call[c].kind = "reopen"
                      THEN Reactivated(call[c].copy) ELSE Deactivated(call[c].copy)]
  /\ Answer(c, 204)
  /\ IF c \in overlapped
     THEN /\ given' = [given EXCEPT ![i] = call[c].copy.roles]
          /\ overlapped' = (overlapped \cup Rewriting(i)) \ {c}
     ELSE UNCHANGED assignments
  /\ UNCHANGED <<settings, bySubject, roles, sessions, phase, clock, drawn, issued, rare>>

-----------------------------------------------------------------------------
(* The surroundings.                                                       *)

Quiet == status' = NoStatus /\ UNCHANGED <<pc, call>>

\* Broken on purpose: wherever the module is on.
Bootstrap_Everywhere ==
  /\ phase = "boot"
  /\ phase' = "serving"
  /\ IF enabled
     THEN /\ drawn < MaxIdentities
          /\ drawn' = drawn + 1
          /\ bySubject' = [bySubject EXCEPT ![BootstrapSubject] = drawn + 1]
          /\ roles' = [roles EXCEPT ![BootstrapRole] = Permissions]
          /\ credentials' = [credentials EXCEPT ![drawn + 1] =
               WithRoles(NewIdentity(BootstrapSubject), {BootstrapRole})]
          /\ given' = [given EXCEPT ![drawn + 1] = {BootstrapRole}]
     ELSE UNCHANGED <<drawn, bySubject, roles, credentials, given>>
  /\ Quiet
  /\ UNCHANGED <<settings, sessions, clock, issued, overlapped, rare>>

\* Bootstrap, before the server listens: the first account, in a local
\* environment and with the module on, defined and granted all it needs.
Bootstrap ==
  /\ phase = "boot"
  /\ phase' = "serving"
  /\ IF environment = "local" /\ enabled
     THEN /\ drawn < MaxIdentities
          /\ drawn' = drawn + 1
          /\ bySubject' = [bySubject EXCEPT ![BootstrapSubject] = drawn + 1]
          /\ roles' = [roles EXCEPT ![BootstrapRole] = Permissions]
          /\ credentials' = [credentials EXCEPT ![drawn + 1] =
               WithRoles(NewIdentity(BootstrapSubject), {BootstrapRole})]
          /\ given' = [given EXCEPT ![drawn + 1] = {BootstrapRole}]
     ELSE UNCHANGED <<drawn, bySubject, roles, credentials, given>>
  /\ Quiet
  /\ UNCHANGED <<settings, sessions, clock, issued, overlapped, rare>>

\* The secret cannot be drawn or hashed: the start is refused.
BootstrapFails ==
  /\ phase = "boot"
  /\ environment = "local"
  /\ phase' = "refused"
  /\ Quiet
  /\ UNCHANGED <<settings, store, clock, drawn, issued, assignments, rare>>

Tick ==
  /\ clock < MaxClock
  /\ clock' = clock + 1
  /\ Quiet
  /\ UNCHANGED <<settings, store, phase, drawn, issued, assignments, rare>>

\* Store.PurgeExpired, which nothing calls by itself.
PurgeExpired ==
  /\ Serving
  /\ sessions' = [t \in Tokens |-> IF Live(t) THEN sessions[t] ELSE NoSession]
  /\ Quiet
  /\ UNCHANGED <<settings, bySubject, credentials, roles, phase, clock, drawn, issued,
                 assignments, rare>>

\* The server stops and starts again: the store was in its memory, the tokens
\* and identifiers its clients hold were not.
Restart ==
  /\ phase # "boot"
  /\ Rare
  /\ phase' = "boot"
  /\ bySubject' = [s \in Accounts |-> 0]
  /\ credentials' = [i \in Ids |-> Nobody]
  /\ roles' = [n \in Names |-> NoRole]
  /\ sessions' = [t \in Tokens |-> NoSession]
  /\ pc' = [c \in Callers |-> "idle"]
  /\ call' = [c \in Callers |-> NoCall]
  /\ status' = NoStatus
  /\ given' = [i \in Ids |-> {}] /\ overlapped' = {}
  /\ UNCHANGED <<settings, clock, drawn, issued>>

\* A client presents a token issued, now or in an earlier life of the server,
\* one that never was, or a header that is none.
Presented == {Garbled, Forged} \cup 1..issued

\* What a bearer may ask for.
Kinds == {"who"} \cup DOMAIN Required

\* The identities a path may name: those there are, and one there is not.
Targets == 0..drawn

\* What a call under way could be granted for, at this instant.
Facts(c) ==
  {f \in {"session", "active", "granted"} :
     CASE f = "session" -> Live(call[c].token)
       [] f = "active"  -> Active(call[c].caller)
       [] f = "granted" -> call[c].kind \in DOMAIN Required
                             /\ Grants(call[c].caller, Required[call[c].kind])}

\* What has held at some instant since the call began.
Observe ==
  seen' = [c \in Callers |->
            IF pc'[c] = "idle" THEN {}
            ELSE (IF pc[c] = "idle" THEN {} ELSE seen[c]) \cup Facts(c)']

Step(c) ==
  \/ RefusedWhenDisabled(c)
  \/ \E subject \in SubjectInputs : FindBySubject(c, subject)
  \/ IssueSession(c) \/ SecretRefused(c)
  \/ \E t \in Presented, kind \in Kinds : FindSession(c, t, kind)
  \/ \E t \in Presented : DeleteSession(c, t)
  \/ FindIdentity(c) \/ Authorize(c)
  \/ \E subject \in SubjectInputs : Register(c, subject)
  \/ \E role \in RoleInputs : DefineRole(c, role)
  \/ \E i \in Targets, names \in RolesInputs : AssignRoles(c, i, names)
  \/ \E i \in Targets : ReadIdentity(c, i) \/ ReadIdentityToReopen(c, i)
  \/ UpdateIdentity(c)

Next ==
  /\ \/ \E c \in Callers : Step(c)
     \/ Bootstrap \/ BootstrapFails \/ Tick \/ PurgeExpired \/ Restart
  /\ Observe

Spec == Init /\ [][Next]_vars

-----------------------------------------------------------------------------
(* Properties.                                                             *)

\* Two spellings of a subject, or two calls that race for it, never make two
\* accounts: every account is the one its subject leads to.
SubjectNamesOne ==
  \A i \in Ids : Known(i) => bySubject[credentials[i].subject] = i

\* "On the next call": a closure, a revocation or an expiry that precedes a
\* call, with nothing undoing it meanwhile, makes the call worthless.  Whatever
\* identity is resolved, whatever session is opened, the account was open and
\* the token alive at some instant of the call, never only before it.
AcceptedWasValid ==
  [][\A c \in Callers :
       /\ pc[c] = "resolve" /\ (pc'[c] = "authorize" \/ status'[c] = 200)
            => {"session", "active"} \subseteq seen[c]
       /\ pc[c] = "compare" /\ status'[c] = 201 => "active" \in seen[c]]_vars

\* A protected operation touches the store only for a caller who held its
\* permission at some instant of the call, open account and role included: a
\* right withdrawn, a role emptied or an account closed before the call began
\* no longer counts.  One withdrawn during the call may.
ActedWasGranted ==
  [][\A c \in Callers :
       call[c].kind \in DOMAIN Required /\ status'[c] \in {201, 204} /\ pc[c] # "idle"
         => {"session", "active", "granted"} \subseteq seen[c]]_vars

\* An account has the roles it was last given, unless a closure or a reopening
\* had read it before they were given and wrote its whole copy after.
RolesAreTheLastGiven ==
  \A i \in Ids : Known(i) => credentials[i].roles = given[i]

\* Outside a local environment nobody is created by the start, and creating
\* somebody takes somebody: there is no account, and no session, ever.
DeployedHasNobody ==
  environment # "local" => \A i \in Ids : ~Known(i)

=============================================================================
