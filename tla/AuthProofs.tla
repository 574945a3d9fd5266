----------------------------- MODULE AuthProofs -----------------------------
(***************************************************************************)
(* A subject names one account, an account keeps the roles it was given,   *)
(* nobody exists where nobody was bootstrapped, and what a call accepts or *)
(* does was valid at some instant of the call: for any number of calls,    *)
(* subjects, roles, sessions and restarts.                                 *)
(***************************************************************************)
EXTENDS Auth, TLAPS

Steps == {"idle", "compare", "resolve", "authorize", "act", "update"}

CallType == [kind: {"none", "open", "who", "reopen"} \cup DOMAIN Required,
             token: Int, caller: Nat, target: Nat, copy: Identities \cup {Nobody}]

TypeOK ==
  /\ bySubject \in [Accounts -> Nat]
  /\ credentials \in [Ids -> Identities \cup {Nobody}]
  /\ sessions \in [Tokens -> [identity: Nat, expires: Nat]]
  /\ phase \in {"boot", "serving", "refused"}
  /\ clock \in Nat /\ drawn \in 0..MaxIdentities /\ issued \in Nat
  /\ pc \in [Callers -> Steps]
  /\ call \in [Callers -> CallType]
  /\ seen \in [Callers -> SUBSET {"session", "active", "granted"}]
  /\ given \in [Ids -> SUBSET Names]
  /\ overlapped \subseteq Callers

\* A store that is rebuilt is rebuilt empty, before any call.
NothingBeforeServing ==
  /\ phase = "boot" => \A i \in Ids : credentials[i] = Nobody
  /\ phase # "serving" => \A c \in Callers : pc[c] = "idle"

\* An identifier that was not drawn designates nobody, and was given nothing.
NotDrawnYet ==
  \A i \in Ids : i > drawn => credentials[i] = Nobody /\ given[i] = {}

\* Who is known by the store has a subject that leads there, and the roles given.
Consistent ==
  \A i \in Ids : credentials[i] # Nobody =>
    /\ credentials[i].subject # Malformed
    /\ bySubject[credentials[i].subject] = i
    /\ credentials[i].roles = given[i]

\* A copy held is that of the account it will be written to, older roles only
\* where an assignment was noted.
CopiesAreTheirs ==
  \A c \in Callers : pc[c] = "update" =>
    LET i == call[c].target IN
    /\ i \in Ids /\ credentials[i] # Nobody
    /\ call[c].copy \in Identities
    /\ call[c].copy.subject = credentials[i].subject
    /\ c \notin overlapped => call[c].copy.roles = credentials[i].roles

StoreInv == NothingBeforeServing /\ NotDrawnYet /\ Consistent /\ CopiesAreTheirs

\* Outside a local environment there is nobody, no session, and no call that a
\* session would have let go on.
NobodyWhereDeployed ==
  environment # "local" =>
    /\ \A i \in Ids : credentials[i] = Nobody
    /\ \A t \in Tokens : sessions[t] = NoSession
    /\ \A c \in Callers : pc[c] = "idle"

\* What a call must have seen to stand where it stands.
Reached(c) ==
  /\ pc[c] = "compare" => call[c].kind = "open" /\ "active" \in seen[c]
  /\ pc[c] = "resolve" => call[c].kind \in Kinds /\ "session" \in seen[c]
  /\ pc[c] = "authorize" =>
       call[c].kind \in DOMAIN Required /\ {"session", "active"} \subseteq seen[c]
  /\ pc[c] = "act" =>
       call[c].kind \in DOMAIN Required /\ {"session", "active", "granted"} \subseteq seen[c]
  /\ pc[c] = "update" =>
       call[c].kind = "reopen" \/ {"session", "active", "granted"} \subseteq seen[c]

\* What holds of a call under way is noted, and brought it where it stands.
SeenInv ==
  \A c \in Callers :
    /\ pc[c] # "idle" => Facts(c) \subseteq seen[c]
    /\ Reached(c)

-----------------------------------------------------------------------------
(* What calls carry, and what answering or going on does.                  *)

LEMMA Inputs ==
  /\ SubjectInputs \subseteq Accounts \cup {Malformed}
  /\ RolesInputs \subseteq SUBSET Names
  /\ Kinds = {"who", "create", "assign", "shut", "define"}
  /\ DOMAIN Required = {"create", "assign", "shut", "define"}
<1>1. SubjectInputs \subseteq Accounts \cup {Malformed}
  BY DEF SubjectInputs, NewSubject, Normalised
<1>2. RolesInputs \subseteq SUBSET Names
  BY DEF RolesInputs, NormalizeRoles, Normalised
<1>3. DOMAIN Required = {"create", "assign", "shut", "define"}
  BY DEF Required
<1> QED
  BY <1>1, <1>2, <1>3 DEF Kinds

LEMMA NoCallType == NoCall \in CallType
  BY DEF NoCall, CallType

\* Calls one by one: what the others have is left alone.
Others(c) ==
  \A d \in Callers \ {c} : pc'[d] = pc[d] /\ call'[d] = call[d] /\ status'[d] = 0

CallsAreTyped == pc \in [Callers -> Steps] /\ call \in [Callers -> CallType]

LEMMA Answering ==
  ASSUME TypeOK, NEW c \in Callers, NEW code \in Nat, Answer(c, code)
  PROVE  /\ CallsAreTyped' /\ Others(c)
         /\ pc'[c] = "idle" /\ status'[c] = code
  BY NoCallType DEF TypeOK, CallsAreTyped, Answer, Others, NoStatus, Steps

LEMMA Proceeding ==
  ASSUME TypeOK, NEW c \in Callers, NEW step \in Steps, NEW read \in CallType,
         Proceed(c, step, read)
  PROVE  /\ CallsAreTyped' /\ Others(c)
         /\ pc'[c] = step /\ call'[c] = read /\ status'[c] = 0
  BY DEF TypeOK, CallsAreTyped, Proceed, Others, NoStatus

LEMMA Observing ==
  ASSUME TypeOK, Observe
  PROVE  /\ seen' \in [Callers -> SUBSET {"session", "active", "granted"}]
         /\ \A c \in Callers : pc'[c] # "idle" => Facts(c)' \subseteq seen'[c]
         /\ \A c \in Callers : pc[c] # "idle" /\ pc'[c] # "idle" => seen[c] \subseteq seen'[c]
<1>1. \A c \in Callers : Facts(c)' \subseteq {"session", "active", "granted"}
  BY DEF Facts
<1> QED
  BY <1>1 DEF TypeOK, Observe

-----------------------------------------------------------------------------
(* Types.                                                                  *)

StoreTypes ==
  /\ bySubject \in [Accounts -> Nat]
  /\ credentials \in [Ids -> Identities \cup {Nobody}]
  /\ sessions \in [Tokens -> [identity: Nat, expires: Nat]]
  /\ drawn \in 0..MaxIdentities
  /\ given \in [Ids -> SUBSET Names]
  /\ overlapped \subseteq Callers

StoreUnchanged ==
  UNCHANGED <<bySubject, credentials, sessions, drawn, given, overlapped>>

ProcessTypes ==
  phase \in {"boot", "serving", "refused"} /\ clock \in Nat /\ issued \in Nat

LEMMA SameStore ==
  ASSUME TypeOK, StoreUnchanged PROVE StoreTypes'
  BY DEF TypeOK, StoreUnchanged, StoreTypes

LEMMA SameProcess ==
  ASSUME TypeOK, UNCHANGED <<phase, clock, issued>> PROVE ProcessTypes'
  BY DEF TypeOK, ProcessTypes

LEMMA TypesGathered ==
  ASSUME TypeOK, Observe, StoreTypes', ProcessTypes', CallsAreTyped'
  PROVE  TypeOK'
  BY Observing DEF TypeOK, StoreTypes, ProcessTypes, CallsAreTyped

LEMMA CallTyped ==
  ASSUME TypeOK, NEW c \in Callers
  PROVE  /\ call[c] \in CallType
         /\ call[c].kind \in {"none", "open", "who", "reopen"} \cup DOMAIN Required
         /\ call[c].token \in Int /\ call[c].caller \in Nat /\ call[c].target \in Nat
         /\ call[c].copy \in Identities \cup {Nobody}
  BY DEF TypeOK, CallType

\* What an identity becomes is an identity.
LEMMA IdentitiesClosed ==
  /\ \A subject \in Accounts : NewIdentity(subject) \in Identities
  /\ \A x \in Identities, names \in SUBSET Names : WithRoles(x, names) \in Identities
  /\ \A x \in Identities : Deactivated(x) \in Identities /\ Reactivated(x) \in Identities
<1>1. \A subject \in Accounts : NewIdentity(subject) \in Identities
  BY DEF NewIdentity, Identities
<1>2. \A x \in Identities, names \in SUBSET Names : WithRoles(x, names) \in Identities
  BY DEF WithRoles, Identities
<1>3. \A x \in Identities : Deactivated(x) \in Identities /\ Reactivated(x) \in Identities
  BY DEF Deactivated, Reactivated, Identities
<1> QED
  BY <1>1, <1>2, <1>3

\* What each writes of an identity, and what it keeps of it.
LEMMA Written ==
  /\ \A s \in Accounts : NewIdentity(s).subject = s /\ NewIdentity(s).roles = {}
  /\ \A x \in Identities, names \in SUBSET Names :
       WithRoles(x, names).subject = x.subject /\ WithRoles(x, names).roles = names
  /\ \A x \in Identities :
       /\ Deactivated(x).subject = x.subject /\ Deactivated(x).roles = x.roles
       /\ Reactivated(x).subject = x.subject /\ Reactivated(x).roles = x.roles
<1>1. \A s \in Accounts : NewIdentity(s).subject = s /\ NewIdentity(s).roles = {}
  BY DEF NewIdentity
<1>2. \A x \in Identities, names \in SUBSET Names :
        WithRoles(x, names).subject = x.subject /\ WithRoles(x, names).roles = names
  BY DEF WithRoles, Identities
<1>3. \A x \in Identities :
        /\ Deactivated(x).subject = x.subject /\ Deactivated(x).roles = x.roles
        /\ Reactivated(x).subject = x.subject /\ Reactivated(x).roles = x.roles
  BY DEF Deactivated, Reactivated, Identities
<1> QED
  BY <1>1, <1>2, <1>3

-----------------------------------------------------------------------------
(* What a call has read at each of its steps.                              *)

Opening(i) == [NoCall EXCEPT !.kind = "open", !.caller = i]

Bearing(kind, t, i) == [NoCall EXCEPT !.kind = kind, !.token = t, !.caller = i]

Holding(x, i, identity) == [x EXCEPT !.target = i, !.copy = identity]

Reopening(i, identity) ==
  [NoCall EXCEPT !.kind = "reopen", !.target = i, !.copy = identity]

LEMMA ReadsTyped ==
  /\ \A i \in Nat : Opening(i) \in CallType /\ Opening(i).kind = "open"
                       /\ Opening(i).caller = i
  /\ \A kind \in Kinds, t \in Int, i \in Nat :
       /\ Bearing(kind, t, i) \in CallType
       /\ Bearing(kind, t, i).kind = kind /\ Bearing(kind, t, i).token = t
  /\ \A x \in CallType, i \in Nat, a \in Identities :
       /\ Holding(x, i, a) \in CallType
       /\ Holding(x, i, a).kind = x.kind /\ Holding(x, i, a).target = i
       /\ Holding(x, i, a).copy = a
  /\ \A i \in Nat, a \in Identities :
       /\ Reopening(i, a) \in CallType
       /\ Reopening(i, a).kind = "reopen" /\ Reopening(i, a).target = i
       /\ Reopening(i, a).copy = a
<1>1. ASSUME NEW x \in CallType, NEW i \in Nat, NEW a \in Identities
      PROVE  /\ Holding(x, i, a) \in CallType
             /\ Holding(x, i, a).kind = x.kind /\ Holding(x, i, a).target = i
             /\ Holding(x, i, a).copy = a
  BY DEF Holding, CallType
<1>2. \A i \in Nat : Opening(i) \in CallType /\ Opening(i).kind = "open"
                     /\ Opening(i).caller = i
  BY NoCallType DEF Opening, CallType
<1>3. ASSUME NEW i \in Nat, NEW a \in Identities
      PROVE  /\ Reopening(i, a) \in CallType
             /\ Reopening(i, a).kind = "reopen" /\ Reopening(i, a).target = i
             /\ Reopening(i, a).copy = a
  BY NoCallType DEF Reopening, CallType
<1>4. ASSUME NEW kind \in Kinds, NEW t \in Int, NEW i \in Nat
      PROVE  /\ Bearing(kind, t, i) \in CallType
             /\ Bearing(kind, t, i).kind = kind /\ Bearing(kind, t, i).token = t
  BY NoCallType DEF Bearing, CallType, Kinds
<1> QED
  BY <1>1, <1>2, <1>3, <1>4

-----------------------------------------------------------------------------
(* Types are kept, one action after the other.                             *)

\* What leaves the store and the process as they were only has calls to type.
LEMMA CallStepTypes ==
  ASSUME TypeOK, Observe, StoreUnchanged, UNCHANGED <<phase, clock, issued>>,
         CallsAreTyped'
  PROVE  TypeOK'
  BY SameStore, SameProcess, TypesGathered

\* The steps of a call: it reads, and answers or goes on with what it read; it
\* copies an identity; it writes and answers.
Finds(c) ==
  \/ RefusedWhenDisabled(c) \/ SecretRefused(c) \/ FindIdentity(c) \/ Authorize(c)
  \/ \E subject \in SubjectInputs : FindBySubject(c, subject)
  \/ \E t \in Presented, kind \in Kinds : FindSession(c, t, kind)

Copies(c) == \E i \in Targets : ReadIdentity(c, i) \/ ReadIdentityToReopen(c, i)

WritesElsewhere(c) ==
  \/ IssueSession(c) \/ \E t \in Presented : DeleteSession(c, t)
  \/ \E role \in RoleInputs : DefineRole(c, role)

WritesAccounts(c) ==
  \/ \E subject \in SubjectInputs : Register(c, subject)
  \/ \E i \in Targets, names \in RolesInputs : AssignRoles(c, i, names)
  \/ UpdateIdentity(c)

LEMMA StepsOfACall ==
  ASSUME NEW c \in Callers, Step(c)
  PROVE  Finds(c) \/ Copies(c) \/ WritesElsewhere(c) \/ WritesAccounts(c)
BY DEF Step, Finds, Copies, WritesElsewhere, WritesAccounts

LEMMA PresentedType == TypeOK => Presented \subseteq Int
BY DEF Presented, Garbled, Forged, TypeOK

\* A call that reads the store, or is refused by what it read.
LEMMA FindsDo ==
  ASSUME TypeOK, NEW c \in Callers, Finds(c)
  PROVE  /\ StoreUnchanged /\ UNCHANGED <<environment, roles, phase, clock, issued>>
         /\ phase = "serving" \/ pc[c] # "idle"
         /\ \/ \E code \in Nat : Answer(c, code)
            \/ \E step \in Steps \ {"idle", "update"}, read \in CallType :
                 Proceed(c, step, read)
<1>1. StoreUnchanged /\ UNCHANGED <<environment, roles, phase, clock, issued>>
  BY DEF RefusedWhenDisabled, FindBySubject, SecretRefused, FindSession, FindIdentity,
         Authorize, Finds, settings, store, assignments, StoreUnchanged
<1>2. phase = "serving" \/ pc[c] # "idle"
  BY DEF RefusedWhenDisabled, FindBySubject, SecretRefused, FindSession, FindIdentity,
         Authorize, Finds, Serving
<1> DEFINE Outcome == \/ \E code \in Nat : Answer(c, code)
                      \/ \E step \in Steps \ {"idle", "update"}, read \in CallType :
                           Proceed(c, step, read)
<1>3. Outcome
  <2>1. CASE RefusedWhenDisabled(c)
    BY <2>1 DEF RefusedWhenDisabled
  <2>2. ASSUME NEW subject \in SubjectInputs, FindBySubject(c, subject)
        PROVE  Outcome
    <3> DEFINE i == IF subject \in Accounts THEN bySubject[subject] ELSE 0
    <3>1. i \in Nat
      BY DEF TypeOK
    <3>2. Proceed(c, "compare", Opening(i)) \/ Answer(c, 401)
      BY <2>2 DEF FindBySubject, Opening
    <3> QED
      BY <3>1, <3>2, ReadsTyped DEF Steps
  <2>3. CASE SecretRefused(c)
    BY <2>3 DEF SecretRefused
  <2>4. ASSUME NEW t \in Presented, NEW kind \in Kinds, FindSession(c, t, kind)
        PROVE  Outcome
    <3>1. CASE Answer(c, 401)
      BY <3>1
    <3>2. CASE Live(t) /\ Proceed(c, "resolve", Bearing(kind, t, sessions[t].identity))
      <4>1. sessions[t].identity \in Nat
        BY <3>2 DEF Live, TypeOK
      <4> QED
        BY <4>1, <3>2, ReadsTyped, PresentedType DEF Steps
    <3> QED
      BY <3>1, <3>2, <2>4 DEF FindSession, Bearing
  <2>5. CASE FindIdentity(c) \/ Authorize(c)
    BY <2>5, CallTyped DEF FindIdentity, Authorize, Steps
  <2> QED
    BY <2>1, <2>2, <2>3, <2>4, <2>5 DEF Finds
<1> QED
  BY <1>1, <1>2, <1>3

LEMMA FindsType ==
  ASSUME TypeOK, Observe, NEW c \in Callers, Finds(c)
  PROVE  TypeOK'
<1>1. CallsAreTyped'
  BY FindsDo, Answering, Proceeding
<1> QED
  BY <1>1, FindsDo, CallStepTypes

\* The copy of an identity that is known.
LEMMA CopiesDo ==
  ASSUME TypeOK, NEW c \in Callers, Copies(c)
  PROVE  /\ StoreUnchanged /\ UNCHANGED <<environment, roles, phase, clock, issued>>
         /\ phase = "serving" \/ pc[c] = "act"
         /\ \/ \E code \in Nat : Answer(c, code)
            \/ \E i \in Ids, read \in CallType :
                 /\ Proceed(c, "update", read)
                 /\ credentials[i] # Nobody /\ credentials[i] \in Identities
                 /\ read.target = i /\ read.copy = credentials[i]
                 /\ read.kind = "reopen" \/ Acting(c, "shut")
<1>0. PICK i \in Targets : ReadIdentity(c, i) \/ ReadIdentityToReopen(c, i)
  BY DEF Copies
<1>1. StoreUnchanged /\ UNCHANGED <<environment, roles, phase, clock, issued>>
  BY <1>0 DEF ReadIdentity, ReadIdentityToReopen, settings, store, assignments,
              StoreUnchanged
<1>2. phase = "serving" \/ pc[c] = "act"
  BY <1>0 DEF ReadIdentity, ReadIdentityToReopen, Serving, Acting
<1>3. CASE Answer(c, 401)
  BY <1>1, <1>2, <1>3
<1>4. CASE /\ Known(i)
           /\ \/ Proceed(c, "update", Holding(call[c], i, credentials[i])) /\ Acting(c, "shut")
              \/ Proceed(c, "update", Reopening(i, credentials[i]))
  <2>1. i \in Ids /\ i \in Nat /\ credentials[i] # Nobody /\ credentials[i] \in Identities
    BY <1>4 DEF Known, TypeOK, Targets
  <2>2. PICK read \in CallType : /\ Proceed(c, "update", read)
                                 /\ read.target = i /\ read.copy = credentials[i]
                                 /\ read.kind = "reopen" \/ Acting(c, "shut")
    <3>1. CASE Proceed(c, "update", Holding(call[c], i, credentials[i])) /\ Acting(c, "shut")
      BY <2>1, <3>1, ReadsTyped, CallTyped
    <3>2. CASE Proceed(c, "update", Reopening(i, credentials[i]))
      BY <2>1, <3>2, ReadsTyped
    <3> QED
      BY <1>4, <3>1, <3>2
  <2> QED
    BY <1>1, <1>2, <2>1, <2>2
<1> QED
  BY <1>0, <1>3, <1>4 DEF ReadIdentity, ReadIdentityToReopen, Holding, Reopening

LEMMA CopiesType ==
  ASSUME TypeOK, Observe, NEW c \in Callers, Copies(c)
  PROVE  TypeOK'
<1>1. CallsAreTyped'
  BY CopiesDo, Answering, Proceeding DEF Steps
<1> QED
  BY <1>1, CopiesDo, CallStepTypes

\* What a call writes in the store as it answers.
LEMMA WritesType ==
  ASSUME TypeOK, CopiesAreTheirs, Observe, NEW c \in Callers,
         WritesElsewhere(c) \/ WritesAccounts(c)
  PROVE  TypeOK'
<1>1. CallsAreTyped'
  <2>1. \E code \in Nat : Answer(c, code)
    BY DEF IssueSession, DeleteSession, Register, DefineRole, AssignRoles, UpdateIdentity,
           WritesElsewhere, WritesAccounts
  <2> QED
    BY <2>1, Answering
<1>2. ProcessTypes'
  BY DEF IssueSession, DeleteSession, Register, DefineRole, AssignRoles, UpdateIdentity,
         WritesElsewhere, WritesAccounts, ProcessTypes, TypeOK
<1>3. StoreTypes'
  <2>1. CASE IssueSession(c)
    <3>1. NewSession(call[c].caller) \in [identity: Nat, expires: Nat]
      BY CallTyped, BoundAssumption DEF NewSession, TypeOK
    <3> QED
      BY <2>1, <3>1 DEF IssueSession, StoreTypes, TypeOK, assignments
  <2>2. ASSUME NEW t \in Presented, DeleteSession(c, t)
        PROVE  StoreTypes'
    <3>1. NoSession \in [identity: Nat, expires: Nat]
      BY DEF NoSession
    <3> QED
      BY <2>2, <3>1 DEF DeleteSession, StoreTypes, TypeOK, assignments
  <2>3. ASSUME NEW subject \in SubjectInputs, Register(c, subject)
        PROVE  StoreTypes'
    <3>1. CASE subject # Malformed /\ SaveIdentity(subject)
      <4>1. subject \in Accounts
        BY <3>1, Inputs
      <4> QED
        BY <2>3, <3>1, <4>1, IdentitiesClosed, BoundAssumption
        DEF Register, SaveIdentity, StoreTypes, TypeOK, assignments, Ids
    <3>2. CASE UNCHANGED <<bySubject, credentials, drawn>>
      BY <2>3, <3>2 DEF Register, StoreTypes, TypeOK, assignments
    <3> QED
      BY <2>3, <3>1, <3>2 DEF Register
  <2>4. ASSUME NEW role \in RoleInputs, DefineRole(c, role)
        PROVE  StoreTypes'
    BY <2>4 DEF DefineRole, StoreTypes, TypeOK, assignments
  <2>5. ASSUME NEW i \in Targets, NEW names \in RolesInputs, AssignRoles(c, i, names)
        PROVE  StoreTypes'
    <3>1. names \in SUBSET Names /\ Rewriting(i) \subseteq Callers
      BY Inputs DEF Rewriting
    <3>2. CASE UNCHANGED <<credentials, assignments>>
      BY <2>5, <3>2 DEF AssignRoles, StoreTypes, TypeOK, assignments
    <3>3. CASE Known(i) /\ Rebind(i, names)
      BY <2>5, <3>1, <3>3, IdentitiesClosed
      DEF AssignRoles, Rebind, Known, StoreTypes, TypeOK, assignments
    <3> QED
      BY <2>5, <3>2, <3>3 DEF AssignRoles
  <2>6. CASE UpdateIdentity(c)
    <3> DEFINE j == call[c].target
               x == call[c].copy
    <3>1. j \in Ids /\ x \in Identities /\ x.roles \in SUBSET Names
      BY <2>6 DEF UpdateIdentity, CopiesAreTheirs, Identities
    <3>2. credentials' \in [Ids -> Identities \cup {Nobody}]
      BY <2>6, <3>1, IdentitiesClosed DEF UpdateIdentity, TypeOK
    <3>3. given' \in [Ids -> SUBSET Names] /\ overlapped' \subseteq Callers
      BY <2>6, <3>1 DEF UpdateIdentity, TypeOK, assignments, Rewriting
    <3> QED
      BY <2>6, <3>2, <3>3 DEF UpdateIdentity, StoreTypes, TypeOK
  <2> QED
    BY <2>1, <2>2, <2>3, <2>4, <2>5, <2>6 DEF WritesElsewhere, WritesAccounts
<1> QED
  BY <1>1, <1>2, <1>3, TypesGathered

LEMMA SurroundingsType ==
  ASSUME TypeOK, Observe,
         Bootstrap \/ BootstrapFails \/ Tick \/ PurgeExpired \/ Restart
  PROVE  TypeOK'
<1>1. CASE Bootstrap \/ BootstrapFails \/ Tick \/ PurgeExpired
  <2>1. CallsAreTyped'
    BY <1>1 DEF Bootstrap, BootstrapFails, Tick, PurgeExpired, Quiet, CallsAreTyped, TypeOK
  <2>2. ProcessTypes'
    BY <1>1 DEF Bootstrap, BootstrapFails, Tick, PurgeExpired, ProcessTypes, TypeOK
  <2>3. StoreTypes'
    <3>1. CASE StoreUnchanged
      BY <3>1, SameStore
    <3>2. CASE Bootstrap /\ ~StoreUnchanged
      <4> DEFINE first == WithRoles(NewIdentity(BootstrapSubject), {BootstrapRole})
      <4>1. BootstrapSubject \in Accounts /\ {BootstrapRole} \in SUBSET Names
        BY DEF Accounts, Names
      <4>2. first \in Identities
        BY <4>1, IdentitiesClosed
      <4> HIDE DEF first
      <4>3. /\ drawn < MaxIdentities /\ drawn' = drawn + 1
            /\ bySubject' = [bySubject EXCEPT ![BootstrapSubject] = drawn + 1]
            /\ credentials' = [credentials EXCEPT ![drawn + 1] = first]
            /\ given' = [given EXCEPT ![drawn + 1] = {BootstrapRole}]
            /\ UNCHANGED <<sessions, overlapped>>
        BY <3>2 DEF Bootstrap, StoreUnchanged, first
      <4> QED
        BY <4>1, <4>2, <4>3, BoundAssumption DEF StoreTypes, TypeOK, Ids
    <3>3. CASE PurgeExpired
      <4>1. NoSession \in [identity: Nat, expires: Nat]
        BY DEF NoSession
      <4> QED
        BY <3>3, <4>1 DEF PurgeExpired, StoreTypes, TypeOK, assignments
    <3>4. CASE BootstrapFails \/ Tick
      BY <3>4, SameStore DEF BootstrapFails, Tick, store, assignments, StoreUnchanged
    <3> QED
      BY <1>1, <3>1, <3>2, <3>3, <3>4
  <2> QED
    BY <2>1, <2>2, <2>3, TypesGathered
<1>2. CASE Restart
  <2>1. CallsAreTyped'
    BY <1>2, NoCallType DEF Restart, CallsAreTyped, Steps
  <2>2. ProcessTypes'
    BY <1>2 DEF Restart, ProcessTypes, TypeOK
  <2>3. StoreTypes'
    BY <1>2 DEF Restart, StoreTypes, TypeOK, NoSession
  <2> QED
    BY <2>1, <2>2, <2>3, TypesGathered
<1> QED
  BY <1>1, <1>2

-----------------------------------------------------------------------------
(* The store.                                                              *)

\* No copy is taken by this step: who holds one held it.
NoNewCopy ==
  \A c \in Callers : pc'[c] = "update" => pc[c] = "update" /\ call'[c] = call[c]

\* No call begins by this step.
NoNewCall == \A c \in Callers : pc'[c] # "idle" => pc[c] # "idle"

\* A step of a call that answers, or goes on without a copy.
LEMMA OneCall ==
  ASSUME TypeOK, NEW c \in Callers
  PROVE  /\ \A code \in Nat : Answer(c, code) => NoNewCopy /\ NoNewCall
         /\ \A step \in Steps \ {"update"}, read \in CallType :
              Proceed(c, step, read) =>
                NoNewCopy /\ (pc[c] # "idle" => NoNewCall)
<1>1. ASSUME NEW code \in Nat, Answer(c, code) PROVE NoNewCopy /\ NoNewCall
  BY <1>1, Answering DEF Others, NoNewCopy, NoNewCall
<1>2. ASSUME NEW step \in Steps \ {"update"}, NEW read \in CallType, Proceed(c, step, read)
      PROVE  NoNewCopy /\ (pc[c] # "idle" => NoNewCall)
  BY <1>2, Proceeding DEF Others, NoNewCopy, NoNewCall
<1> QED
  BY <1>1, <1>2

\* What leaves accounts, roles and identifiers alone and takes no copy.
LEMMA SameAccounts ==
  ASSUME TypeOK, StoreInv, NoNewCopy, NoNewCall \/ phase = "serving",
         UNCHANGED <<bySubject, credentials, drawn, given, overlapped>>,
         phase' = phase \/ phase = "boot"
  PROVE  StoreInv'
<1>1. NothingBeforeServing'
  BY DEF StoreInv, NothingBeforeServing, NoNewCall, TypeOK
<1>2. NotDrawnYet'
  BY DEF StoreInv, NotDrawnYet
<1>3. Consistent'
  BY DEF StoreInv, Consistent
<1>4. CopiesAreTheirs'
  BY DEF StoreInv, CopiesAreTheirs, NoNewCopy
<1> QED
  BY <1>1, <1>2, <1>3, <1>4 DEF StoreInv

LEMMA FindsKeepStore ==
  ASSUME TypeOK, StoreInv, NEW c \in Callers, Finds(c)
  PROVE  StoreInv'
<1>1. NoNewCopy /\ (NoNewCall \/ phase = "serving")
  BY FindsDo, OneCall
<1> QED
  BY <1>1, FindsDo, SameAccounts DEF StoreUnchanged

\* Sessions and roles are not accounts.
LEMMA ElsewhereKeepsStore ==
  ASSUME TypeOK, StoreInv, NEW c \in Callers, WritesElsewhere(c)
  PROVE  StoreInv'
<1>1. /\ UNCHANGED <<bySubject, credentials, drawn, given, overlapped, phase>>
      /\ \E code \in Nat : Answer(c, code)
  BY DEF WritesElsewhere, IssueSession, DeleteSession, DefineRole, assignments
<1>2. NoNewCopy /\ NoNewCall
  BY <1>1, OneCall
<1> QED
  BY <1>1, <1>2, SameAccounts

\* A process that refuses to start, that purges or that ages changes no account.
LEMMA QuietKeepsStore ==
  ASSUME TypeOK, StoreInv, BootstrapFails \/ Tick \/ PurgeExpired
  PROVE  StoreInv'
<1>1. /\ UNCHANGED <<bySubject, credentials, drawn, given, overlapped>>
      /\ phase' = phase \/ phase = "boot"
  BY DEF BootstrapFails, Tick, PurgeExpired, store, assignments
<1>2. NoNewCopy /\ NoNewCall
  BY DEF BootstrapFails, Tick, PurgeExpired, Quiet, NoNewCopy, NoNewCall
<1> QED
  BY <1>1, <1>2, SameAccounts

\* The copy that is taken is the account's, at this instant.
LEMMA CopiesKeepStore ==
  ASSUME TypeOK, StoreInv, NEW c \in Callers, Copies(c)
  PROVE  StoreInv'
<1>1. StoreUnchanged /\ UNCHANGED phase /\ phase = "serving"
  BY CopiesDo DEF StoreInv, NothingBeforeServing
<1>2. CASE \E code \in Nat : Answer(c, code)
  BY <1>1, <1>2, OneCall, SameAccounts DEF StoreUnchanged
<1>3. ASSUME NEW i \in Ids, NEW read \in CallType, Proceed(c, "update", read),
             credentials[i] # Nobody, credentials[i] \in Identities,
             read.target = i, read.copy = credentials[i]
      PROVE  StoreInv'
  <2>1. Others(c) /\ pc'[c] = "update" /\ call'[c] = read
    BY <1>3, Proceeding DEF Steps
  <2>2. NothingBeforeServing' /\ NotDrawnYet' /\ Consistent'
    BY <1>1 DEF StoreUnchanged, StoreInv, NothingBeforeServing, NotDrawnYet, Consistent
  <2>3. CopiesAreTheirs'
    BY <1>1, <1>3, <2>1 DEF StoreUnchanged, StoreInv, CopiesAreTheirs, Others
  <2> QED
    BY <2>2, <2>3 DEF StoreInv
<1> QED
  BY <1>2, <1>3, CopiesDo

LEMMA AssignKeepsStore ==
  ASSUME TypeOK, StoreInv, NEW c \in Callers, NEW i \in Targets,
         NEW names \in RolesInputs, AssignRoles(c, i, names)
  PROVE  StoreInv'
<1>0. NoNewCopy /\ NoNewCall
  <2>1. \E code \in Nat : Answer(c, code)
    BY DEF AssignRoles
  <2> QED
    BY <2>1, OneCall
<1>1. CASE UNCHANGED <<credentials, assignments>>
  BY <1>0, <1>1, SameAccounts DEF AssignRoles, assignments
<1>2. CASE /\ Known(i) /\ Rebind(i, names)
           /\ given' = [given EXCEPT ![i] = names]
           /\ overlapped' = overlapped \cup Rewriting(i)
  <2>1. /\ i \in Ids /\ credentials[i] # Nobody /\ credentials[i] \in Identities
        /\ names \in SUBSET Names
    BY <1>2, Inputs DEF Known, TypeOK
  <2>2. PICK x \in Identities : /\ credentials' = [credentials EXCEPT ![i] = x]
                                /\ x.subject = credentials[i].subject /\ x.roles = names
    <3>1. credentials' = [credentials EXCEPT ![i] = WithRoles(credentials[i], names)]
      BY <1>2, <2>1 DEF Rebind, TypeOK
    <3>2. WithRoles(credentials[i], names) \in Identities
      BY <2>1, IdentitiesClosed
    <3>3. /\ WithRoles(credentials[i], names).subject = credentials[i].subject
          /\ WithRoles(credentials[i], names).roles = names
      BY <2>1, Written
    <3> QED
      BY <3>1, <3>2, <3>3
  <2>3. UNCHANGED <<bySubject, drawn, phase>>
    BY DEF AssignRoles
  <2>4. x.subject # Malformed /\ x # Nobody
    BY <2>1, <2>2 DEF StoreInv, Consistent, Nobody
  <2>5. NothingBeforeServing'
    BY <1>0, <2>1, <2>2, <2>3 DEF StoreInv, NothingBeforeServing, NoNewCall, TypeOK
  <2>6. NotDrawnYet'
    BY <1>2, <2>1, <2>2, <2>3 DEF StoreInv, NotDrawnYet, TypeOK
  <2>7. Consistent'
    BY <1>2, <2>1, <2>2, <2>3, <2>4 DEF StoreInv, Consistent, TypeOK
  <2>8. CopiesAreTheirs'
    <3>1. SUFFICES ASSUME NEW d \in Callers, pc'[d] = "update"
          PROVE  /\ call'[d].target \in Ids /\ credentials'[call'[d].target] # Nobody
                 /\ call'[d].copy \in Identities
                 /\ call'[d].copy.subject = credentials'[call'[d].target].subject
                 /\ d \notin overlapped' =>
                      call'[d].copy.roles = credentials'[call'[d].target].roles
      BY DEF CopiesAreTheirs
    <3>2. pc[d] = "update" /\ call'[d] = call[d]
      BY <1>0, <3>1 DEF NoNewCopy
    <3>3. call[d].target = i => d \in overlapped'
      BY <1>2, <3>2 DEF Rewriting
    <3> QED
      BY <1>2, <2>1, <2>2, <2>4, <3>2, <3>3 DEF StoreInv, CopiesAreTheirs, TypeOK
  <2> QED
    BY <2>5, <2>6, <2>7, <2>8 DEF StoreInv
<1> QED
  BY <1>1, <1>2 DEF AssignRoles

LEMMA DrawnNext ==
  ASSUME TypeOK, drawn < MaxIdentities
  PROVE  drawn \in Nat /\ drawn + 1 \in Ids /\ drawn + 1 > drawn
BY BoundAssumption DEF TypeOK, Ids

\* An account is created under an identifier just drawn, for a subject that led
\* nowhere.
LEMMA CreationKeepsStore ==
  ASSUME TypeOK, StoreInv, NoNewCopy, NoNewCall,
         NEW s \in Accounts, s # Malformed,
         NEW x \in Identities, x.subject = s,
         \A i \in Ids : credentials[i] # Nobody => credentials[i].subject # s,
         drawn < MaxIdentities, drawn' = drawn + 1,
         bySubject' = [bySubject EXCEPT ![s] = drawn + 1],
         credentials' = [credentials EXCEPT ![drawn + 1] = x],
         given'[drawn + 1] = x.roles,
         \A i \in Ids : i # drawn + 1 => given'[i] = given[i],
         UNCHANGED overlapped, phase' = "serving"
  PROVE  StoreInv'
<1>1. drawn + 1 \in Ids /\ drawn \in Nat /\ x # Nobody /\ credentials[drawn + 1] = Nobody
  <2>1. x # Nobody
    BY DEF Nobody
  <2>2. credentials[drawn + 1] = Nobody
    BY DrawnNext DEF StoreInv, NotDrawnYet
  <2> QED
    BY <2>1, <2>2, DrawnNext
<1>2. /\ credentials'[drawn + 1] = x
      /\ \A i \in Ids : i # drawn + 1 => credentials'[i] = credentials[i]
  BY <1>1 DEF TypeOK
<1>3. NothingBeforeServing'
  BY DEF StoreInv, NothingBeforeServing
<1>4. NotDrawnYet'
  BY <1>1, <1>2 DEF StoreInv, NotDrawnYet, Ids
<1>5. Consistent'
  <2>1. SUFFICES ASSUME NEW i \in Ids, credentials'[i] # Nobody
        PROVE  /\ credentials'[i].subject # Malformed
               /\ bySubject'[credentials'[i].subject] = i
               /\ credentials'[i].roles = given'[i]
    BY DEF Consistent
  <2>2. CASE i = drawn + 1
    BY <1>2, <2>2 DEF TypeOK
  <2>3. CASE i # drawn + 1
    <3>1. credentials'[i] = credentials[i] /\ given'[i] = given[i]
      BY <1>2, <2>3
    <3>2. credentials[i].subject \in Accounts
      BY <2>1, <3>1 DEF TypeOK, Identities
    <3> QED
      BY <2>1, <3>1, <3>2 DEF TypeOK, StoreInv, Consistent
  <2> QED
    BY <2>2, <2>3
<1>6. CopiesAreTheirs'
  BY <1>1, <1>2 DEF StoreInv, CopiesAreTheirs, NoNewCopy
<1> QED
  BY <1>3, <1>4, <1>5, <1>6 DEF StoreInv

LEMMA RegisterKeepsStore ==
  ASSUME TypeOK, StoreInv, NEW c \in Callers, NEW subject \in SubjectInputs,
         Register(c, subject)
  PROVE  StoreInv'
<1>1. NoNewCopy /\ NoNewCall
  <2>1. \E code \in Nat : Answer(c, code)
    BY DEF Register
  <2> QED
    BY <2>1, OneCall
<1>2. phase = "serving" /\ UNCHANGED <<phase, given, overlapped>>
  BY DEF Register, Acting, StoreInv, NothingBeforeServing, assignments
<1>3. CASE UNCHANGED <<bySubject, credentials, drawn>>
  BY <1>1, <1>2, <1>3, SameAccounts
<1>4. CASE subject # Malformed /\ SaveIdentity(subject)
  <2> DEFINE x == NewIdentity(subject)
  <2>1. subject \in Accounts
    BY <1>4, Inputs
  <2>2. x \in Identities /\ x.subject = subject /\ x.roles = {}
    BY <2>1, IdentitiesClosed, Written
  <2>3. /\ bySubject[subject] = 0 /\ drawn < MaxIdentities /\ drawn' = drawn + 1
        /\ bySubject' = [bySubject EXCEPT ![subject] = drawn + 1]
        /\ credentials' = [credentials EXCEPT ![drawn + 1] = x]
    BY <1>4 DEF SaveIdentity
  <2> HIDE DEF x
  <2>4. \A i \in Ids : credentials[i] # Nobody => credentials[i].subject # subject
    BY <2>3 DEF StoreInv, Consistent, Ids
  <2>5. given'[drawn + 1] = x.roles
    <3>1. drawn + 1 \in Ids /\ drawn + 1 > drawn
      BY <2>3, DrawnNext
    <3>2. given[drawn + 1] = {}
      BY <3>1 DEF StoreInv, NotDrawnYet
    <3> QED
      BY <1>2, <2>2, <3>2
  <2> QED
    BY <1>1, <1>2, <1>4, <2>1, <2>2, <2>3, <2>4, <2>5, CreationKeepsStore
<1> QED
  BY <1>3, <1>4 DEF Register

\* Before serving there is nobody whose subject the first account could take.
LEMMA BootstrapKeepsStore ==
  ASSUME TypeOK, StoreInv, Bootstrap
  PROVE  StoreInv'
<1>1. NoNewCopy /\ NoNewCall
  BY DEF Bootstrap, Quiet, NoNewCopy, NoNewCall
<1>2. CASE ~(environment = "local" /\ enabled)
  <2>1. UNCHANGED <<bySubject, credentials, drawn, given, overlapped>> /\ phase = "boot"
    BY <1>2 DEF Bootstrap
  <2> QED
    BY <1>1, <2>1, SameAccounts
<1>3. CASE environment = "local" /\ enabled
  <2> DEFINE x == WithRoles(NewIdentity(BootstrapSubject), {BootstrapRole})
  <2>1. /\ BootstrapSubject \in Accounts /\ {BootstrapRole} \in SUBSET Names
        /\ BootstrapSubject # Malformed
    BY DEF Accounts, Names, BootstrapSubject, Malformed
  <2>2. x \in Identities /\ x.subject = BootstrapSubject /\ x.roles = {BootstrapRole}
    <3>1. NewIdentity(BootstrapSubject) \in Identities
      BY <2>1, IdentitiesClosed
    <3> QED
      BY <2>1, <3>1, IdentitiesClosed, Written
  <2>3. /\ drawn < MaxIdentities /\ drawn' = drawn + 1
        /\ bySubject' = [bySubject EXCEPT ![BootstrapSubject] = drawn + 1]
        /\ credentials' = [credentials EXCEPT ![drawn + 1] = x]
        /\ given' = [given EXCEPT ![drawn + 1] = {BootstrapRole}]
        /\ UNCHANGED overlapped /\ phase = "boot" /\ phase' = "serving"
    BY <1>3 DEF Bootstrap
  <2> HIDE DEF x
  <2>4. \A i \in Ids : credentials[i] = Nobody
    BY <2>3 DEF StoreInv, NothingBeforeServing
  <2>5. /\ given'[drawn + 1] = x.roles
        /\ \A i \in Ids : i # drawn + 1 => given'[i] = given[i]
    BY <2>2, <2>3, BoundAssumption DEF Ids, TypeOK
  <2> QED
    BY <1>1, <2>1, <2>2, <2>3, <2>4, <2>5, CreationKeepsStore
<1> QED
  BY <1>2, <1>3

\* The copy is written back over the account it was made from: its subject is
\* the account's, its roles too unless an assignment was noted, and then it is
\* noted what they are now.
LEMMA UpdateKeepsStore ==
  ASSUME TypeOK, StoreInv, NEW c \in Callers, UpdateIdentity(c)
  PROVE  StoreInv'
<1> DEFINE i == call[c].target
           x == call[c].copy
<1>0. NoNewCopy /\ NoNewCall /\ pc[c] = "update" /\ pc'[c] = "idle"
  BY OneCall, Answering DEF UpdateIdentity
<1>1. /\ i \in Ids /\ credentials[i] # Nobody /\ x \in Identities
      /\ x.subject = credentials[i].subject
      /\ c \notin overlapped => x.roles = credentials[i].roles
  BY <1>0 DEF StoreInv, CopiesAreTheirs
<1>2. PICK y \in Identities : /\ credentials' = [credentials EXCEPT ![i] = y]
                              /\ y.subject = x.subject /\ y.roles = x.roles
  <2>1. CASE call[c].kind = "reopen"
    <3>1. credentials' = [credentials EXCEPT ![i] = Reactivated(x)]
      BY <2>1 DEF UpdateIdentity
    <3> QED
      BY <1>1, <3>1, IdentitiesClosed, Written
  <2>2. CASE call[c].kind # "reopen"
    <3>1. credentials' = [credentials EXCEPT ![i] = Deactivated(x)]
      BY <2>2 DEF UpdateIdentity
    <3> QED
      BY <1>1, <3>1, IdentitiesClosed, Written
  <2> QED
    BY <2>1, <2>2
<1>3. UNCHANGED <<bySubject, drawn, phase>>
  BY DEF UpdateIdentity
<1>4. y.subject # Malformed /\ y # Nobody
  BY <1>1, <1>2 DEF StoreInv, Consistent, Nobody
<1>5. /\ given'[i] = x.roles
      /\ \A j \in Ids : j # i => given'[j] = given[j]
      /\ \A d \in Callers : d # c /\ d \in overlapped => d \in overlapped'
  BY <1>1 DEF UpdateIdentity, assignments, StoreInv, Consistent, TypeOK
<1>6. \A d \in Callers :
        d # c /\ d \notin overlapped' /\ pc[d] = "update" /\ call[d].target = i =>
          x.roles = credentials[i].roles
  BY <1>1 DEF UpdateIdentity, assignments, Rewriting
<1> HIDE DEF i, x
<1>7. NothingBeforeServing'
  BY <1>0, <1>1, <1>3 DEF StoreInv, NothingBeforeServing, NoNewCall, TypeOK
<1>8. NotDrawnYet'
  BY <1>1, <1>2, <1>3, <1>5 DEF StoreInv, NotDrawnYet, TypeOK
<1>9. Consistent'
  BY <1>1, <1>2, <1>3, <1>4, <1>5 DEF StoreInv, Consistent, TypeOK
<1>10. CopiesAreTheirs'
  <2>1. SUFFICES ASSUME NEW d \in Callers, pc'[d] = "update"
        PROVE  /\ call'[d].target \in Ids /\ credentials'[call'[d].target] # Nobody
               /\ call'[d].copy \in Identities
               /\ call'[d].copy.subject = credentials'[call'[d].target].subject
               /\ d \notin overlapped' =>
                    call'[d].copy.roles = credentials'[call'[d].target].roles
    BY DEF CopiesAreTheirs
  <2>2. pc[d] = "update" /\ call'[d] = call[d] /\ d # c
    BY <1>0, <2>1 DEF NoNewCopy
  <2>3. /\ call[d].target \in Ids /\ credentials[call[d].target] # Nobody
        /\ call[d].copy \in Identities
        /\ call[d].copy.subject = credentials[call[d].target].subject
        /\ d \notin overlapped' =>
             call[d].copy.roles = credentials[call[d].target].roles
    BY <1>5, <2>2 DEF StoreInv, CopiesAreTheirs
  <2>4. CASE call[d].target = i
    BY <1>1, <1>2, <1>4, <1>6, <2>2, <2>3, <2>4 DEF TypeOK
  <2>5. CASE call[d].target # i
    BY <1>2, <2>2, <2>3, <2>5 DEF TypeOK
  <2> QED
    BY <2>4, <2>5
<1> QED
  BY <1>7, <1>8, <1>9, <1>10 DEF StoreInv

LEMMA RestartKeepsStore ==
  ASSUME TypeOK, StoreInv, Restart
  PROVE  StoreInv'
BY DEF Restart, StoreInv, NothingBeforeServing, NotDrawnYet, Consistent, CopiesAreTheirs,
       TypeOK

LEMMA StoreStep ==
  ASSUME TypeOK, StoreInv, Next
  PROVE  TypeOK' /\ StoreInv'
<1>0. Observe /\ CopiesAreTheirs
  BY DEF Next, StoreInv
<1>1. ASSUME NEW c \in Callers, Step(c)
      PROVE  TypeOK' /\ StoreInv'
  <2>1. CASE Finds(c)
    BY <1>0, <2>1, FindsType, FindsKeepStore
  <2>2. CASE Copies(c)
    BY <1>0, <2>2, CopiesType, CopiesKeepStore
  <2>3. CASE WritesElsewhere(c)
    BY <1>0, <2>3, WritesType, ElsewhereKeepsStore
  <2>4. CASE WritesAccounts(c)
    BY <1>0, <2>4, WritesType, RegisterKeepsStore, AssignKeepsStore, UpdateKeepsStore
    DEF WritesAccounts
  <2> QED
    BY <1>1, <2>1, <2>2, <2>3, <2>4, StepsOfACall
<1>2. CASE Bootstrap \/ BootstrapFails \/ Tick \/ PurgeExpired \/ Restart
  BY <1>0, <1>2, SurroundingsType, BootstrapKeepsStore, QuietKeepsStore, RestartKeepsStore
<1> QED
  BY <1>1, <1>2 DEF Next

-----------------------------------------------------------------------------
(* Where nobody bootstraps.                                                *)

\* Every call is refused: there is nobody to open a session for, no session to
\* present, nobody to reopen.
LEMMA DeployedStep ==
  ASSUME TypeOK, NobodyWhereDeployed, Next
  PROVE  NobodyWhereDeployed'
<1>1. UNCHANGED environment
  <2>1. ASSUME NEW c \in Callers, Step(c) PROVE UNCHANGED environment
    BY <2>1 DEF Step, RefusedWhenDisabled, FindBySubject, IssueSession, SecretRefused,
       FindSession, DeleteSession, FindIdentity, Authorize, Register, DefineRole,
       AssignRoles, ReadIdentity, ReadIdentityToReopen, UpdateIdentity, settings
  <2>2. CASE Bootstrap \/ BootstrapFails \/ Tick \/ PurgeExpired \/ Restart
    BY <2>2 DEF Bootstrap, BootstrapFails, Tick, PurgeExpired, Restart, settings
  <2> QED
    BY <2>1, <2>2 DEF Next
<1>2. SUFFICES ASSUME environment # "local"
      PROVE  /\ \A i \in Ids : credentials'[i] = Nobody
             /\ \A t \in Tokens : sessions'[t] = NoSession
             /\ \A c \in Callers : pc'[c] = "idle"
  BY <1>1 DEF NobodyWhereDeployed
<1>3. /\ \A i \in Ids : credentials[i] = Nobody
      /\ \A t \in Tokens : sessions[t] = NoSession
      /\ \A c \in Callers : pc[c] = "idle"
  BY <1>2 DEF NobodyWhereDeployed
<1>4. ASSUME NEW c \in Callers, Step(c)
      PROVE  /\ UNCHANGED credentials
             /\ \A t \in Tokens : sessions'[t] = NoSession
             /\ \E code \in Nat : Answer(c, code)
  <2>1. /\ \A i : ~Known(i) /\ ~Active(i)
        /\ \A t : ~Live(t)
    BY <1>3 DEF Known, Active, Live
  <2>2. \/ RefusedWhenDisabled(c)
        \/ \E subject \in SubjectInputs : FindBySubject(c, subject)
        \/ \E t \in Presented, kind \in Kinds : FindSession(c, t, kind)
        \/ \E t \in Presented : DeleteSession(c, t)
        \/ \E i \in Targets : ReadIdentityToReopen(c, i)
    BY <1>3, <1>4 DEF Step, IssueSession, SecretRefused, FindIdentity, Authorize, Register,
       DefineRole, AssignRoles, ReadIdentity, UpdateIdentity, Acting
  <2>3. CASE RefusedWhenDisabled(c)
    BY <1>3, <2>3 DEF RefusedWhenDisabled, store
  <2>4. ASSUME NEW subject \in SubjectInputs, FindBySubject(c, subject)
        PROVE  Answer(c, 401) /\ UNCHANGED store
    BY <2>1, <2>4 DEF FindBySubject
  <2>5. ASSUME NEW t \in Presented, NEW kind \in Kinds, FindSession(c, t, kind)
        PROVE  Answer(c, 401) /\ UNCHANGED store
    BY <2>1, <2>5 DEF FindSession
  <2>6. ASSUME NEW t \in Presented, DeleteSession(c, t)
        PROVE  /\ UNCHANGED credentials
               /\ \A u \in Tokens : sessions'[u] = NoSession
               /\ \E code \in Nat : Answer(c, code)
    BY <1>3, <2>6 DEF DeleteSession, TypeOK
  <2>7. ASSUME NEW i \in Targets, ReadIdentityToReopen(c, i)
        PROVE  Answer(c, 401) /\ UNCHANGED store
    BY <2>1, <2>7 DEF ReadIdentityToReopen
  <2>8. ASSUME Answer(c, 401), UNCHANGED store
        PROVE  /\ UNCHANGED credentials
               /\ \A u \in Tokens : sessions'[u] = NoSession
               /\ \E code \in Nat : Answer(c, code)
    BY <1>3, <2>8 DEF store
  <2> QED
    BY <2>2, <2>3, <2>4, <2>5, <2>6, <2>7, <2>8
<1>5. ASSUME NEW c \in Callers, Step(c)
      PROVE  /\ \A i \in Ids : credentials'[i] = Nobody
             /\ \A t \in Tokens : sessions'[t] = NoSession
             /\ \A d \in Callers : pc'[d] = "idle"
  <2>1. \A d \in Callers : pc'[d] = "idle"
    BY <1>3, <1>4, <1>5, OneCall DEF NoNewCall
  <2> QED
    BY <1>3, <1>4, <1>5, <2>1
<1>6. CASE Bootstrap \/ BootstrapFails \/ Tick \/ PurgeExpired \/ Restart
  BY <1>2, <1>3, <1>6 DEF Bootstrap, BootstrapFails, Tick, PurgeExpired, Restart, Quiet,
     store, settings
<1> QED
  BY <1>5, <1>6 DEF Next

-----------------------------------------------------------------------------
(* What a call has seen.                                                   *)

\* What others do takes nothing from what a call has seen.
LEMMA OthersKeepReach ==
  ASSUME TypeOK, SeenInv, Observe,
         NEW d \in Callers, pc'[d] = pc[d], call'[d] = call[d]
  PROVE  Reached(d)'
<1>1. Reached(d)
  BY DEF SeenInv
<1>2. pc[d] # "idle" => seen[d] \subseteq seen'[d]
  BY Observing
<1>3. Kinds' = Kinds /\ (DOMAIN Required)' = DOMAIN Required
  BY Inputs DEF Kinds, Required
<1> QED
  BY <1>1, <1>2, <1>3 DEF Reached

LEMMA AnswerKeepsReach ==
  ASSUME TypeOK, SeenInv, Observe, NEW c \in Callers,
         \E code \in Nat : Answer(c, code)
  PROVE  \A d \in Callers : Reached(d)'
<1>1. Others(c) /\ pc'[c] = "idle"
  BY Answering
<1>2. Reached(c)'
  BY <1>1 DEF Reached
<1> QED
  BY <1>1, <1>2, OthersKeepReach DEF Others

\* A call that goes on has seen what lets it go on.
LEMMA ProceedKeepsReach ==
  ASSUME TypeOK, SeenInv, Observe, NEW c \in Callers,
         NEW step \in Steps, NEW read \in CallType, Proceed(c, step, read),
         pc'[c] = step /\ call'[c] = read => Reached(c)'
  PROVE  \A d \in Callers : Reached(d)'
BY Proceeding, OthersKeepReach DEF Others

LEMMA FindsKeepReach ==
  ASSUME TypeOK, SeenInv, Observe, NEW c \in Callers, Finds(c)
  PROVE  \A d \in Callers : Reached(d)'
<1> DEFINE Goal == \A d \in Callers : Reached(d)'
<1>0. /\ UNCHANGED <<store, clock>>
      /\ (\E code \in Nat : Answer(c, code)) => Goal
  BY AnswerKeepsReach
  DEF Finds, RefusedWhenDisabled, FindBySubject, SecretRefused, FindSession, FindIdentity,
      Authorize
<1>1. CASE RefusedWhenDisabled(c) \/ SecretRefused(c)
  BY <1>0, <1>1 DEF RefusedWhenDisabled, SecretRefused
<1>2. ASSUME NEW subject \in SubjectInputs, FindBySubject(c, subject)
      PROVE  Goal
  <2> DEFINE i == IF subject \in Accounts THEN bySubject[subject] ELSE 0
  <2>1. i \in Nat
    BY DEF TypeOK
  <2>2. CASE Answer(c, 401)
    BY <1>0, <2>2
  <2>3. CASE Active(i) /\ Proceed(c, "compare", Opening(i))
    <3>1. Opening(i) \in CallType /\ Opening(i).kind = "open" /\ Opening(i).caller = i
      BY <2>1, ReadsTyped
    <3>2. ASSUME pc'[c] = "compare", call'[c] = Opening(i)
          PROVE  Reached(c)'
      <4>1. Active(call[c].caller)'
        BY <1>0, <2>3, <3>1, <3>2 DEF Active, Known, store
      <4>2. "active" \in Facts(c)'
        BY <4>1 DEF Facts
      <4> QED
        BY <3>1, <3>2, <4>2, Observing DEF Reached
    <3> QED
      BY <2>3, <3>1, <3>2, ProceedKeepsReach DEF Steps
  <2> QED
    BY <1>2, <2>2, <2>3 DEF FindBySubject, Opening
<1>3. ASSUME NEW t \in Presented, NEW kind \in Kinds, FindSession(c, t, kind)
      PROVE  Goal
  <2> DEFINE read == Bearing(kind, t, sessions[t].identity)
  <2>1. CASE Answer(c, 401)
    BY <1>0, <2>1
  <2>2. CASE Live(t) /\ Proceed(c, "resolve", read)
    <3>1. sessions[t].identity \in Nat
      BY <2>2 DEF Live, TypeOK
    <3>2. read \in CallType /\ read.kind = kind /\ read.token = t
      BY <3>1, ReadsTyped, PresentedType
    <3>3. ASSUME pc'[c] = "resolve", call'[c] = read
          PROVE  Reached(c)'
      <4>1. Live(call[c].token)'
        BY <1>0, <2>2, <3>2, <3>3 DEF Live, Expired, store
      <4>2. "session" \in Facts(c)'
        BY <4>1 DEF Facts
      <4>3. kind \in Kinds'
        BY DEF Kinds, Required
      <4> QED
        BY <3>2, <3>3, <4>2, <4>3, Observing DEF Reached
    <3> HIDE DEF read
    <3> QED
      BY <2>2, <3>2, <3>3, ProceedKeepsReach DEF Steps
  <2> QED
    BY <1>3, <2>1, <2>2 DEF FindSession, Bearing
<1>4. CASE FindIdentity(c)
  <2>1. CASE \E code \in Nat : Answer(c, code)
    BY <1>0, <2>1
  <2>2. CASE /\ Active(call[c].caller) /\ call[c].kind # "who"
             /\ Proceed(c, "authorize", call[c])
    <3>1. ASSUME pc'[c] = "authorize", call'[c] = call[c]
          PROVE  Reached(c)'
      <4>1. Active(call[c].caller)'
        BY <1>0, <2>2, <3>1 DEF Active, Known, store
      <4>2. "active" \in Facts(c)'
        BY <4>1 DEF Facts
      <4>3. pc[c] = "resolve" /\ call[c].kind \in DOMAIN Required /\ "session" \in seen[c]
        BY <1>4, <2>2 DEF FindIdentity, SeenInv, Reached, Kinds
      <4>4. (DOMAIN Required)' = DOMAIN Required
        BY DEF Required
      <4> QED
        BY <3>1, <4>2, <4>3, <4>4, Observing DEF Reached
    <3> QED
      BY <2>2, <3>1, CallTyped, ProceedKeepsReach DEF Steps
  <2> QED
    BY <1>4, <2>1, <2>2 DEF FindIdentity
<1>5. CASE Authorize(c)
  <2>1. CASE \E code \in Nat : Answer(c, code)
    BY <1>0, <2>1
  <2>2. CASE /\ Grants(call[c].caller, Required[call[c].kind])
             /\ Proceed(c, "act", call[c])
    <3>1. ASSUME pc'[c] = "act", call'[c] = call[c]
          PROVE  Reached(c)'
      <4>1. /\ pc[c] = "authorize" /\ call[c].kind \in DOMAIN Required
            /\ {"session", "active"} \subseteq seen[c]
        BY <1>5 DEF Authorize, SeenInv, Reached
      <4>2. (DOMAIN Required)' = DOMAIN Required /\ Required' = Required
        BY DEF Required
      <4>3. Grants(call[c].caller, Required[call[c].kind])'
        BY <1>0, <2>2, <3>1, <4>2 DEF Grants, Active, Known, store
      <4>4. "granted" \in Facts(c)'
        BY <3>1, <4>1, <4>2, <4>3 DEF Facts
      <4> QED
        BY <3>1, <4>1, <4>2, <4>4, Observing DEF Reached
    <3> QED
      BY <2>2, <3>1, CallTyped, ProceedKeepsReach DEF Steps
  <2> QED
    BY <1>5, <2>1, <2>2 DEF Authorize
<1> QED
  BY <1>1, <1>2, <1>3, <1>4, <1>5 DEF Finds

LEMMA CopiesKeepReach ==
  ASSUME TypeOK, SeenInv, Observe, NEW c \in Callers, Copies(c)
  PROVE  \A d \in Callers : Reached(d)'
<1>1. CASE \E code \in Nat : Answer(c, code)
  BY <1>1, AnswerKeepsReach
<1>2. ASSUME NEW read \in CallType, Proceed(c, "update", read),
             read.kind = "reopen" \/ Acting(c, "shut")
      PROVE  \A d \in Callers : Reached(d)'
  <2>1. Acting(c, "shut") =>
          pc[c] = "act" /\ {"session", "active", "granted"} \subseteq seen[c]
    BY DEF Acting, SeenInv, Reached
  <2>2. pc'[c] = "update" /\ call'[c] = read => Reached(c)'
    BY <1>2, <2>1, Observing DEF Reached
  <2> QED
    BY <1>2, <2>2, ProceedKeepsReach DEF Steps
<1> QED
  BY <1>1, <1>2, CopiesDo

LEMMA SeenStep ==
  ASSUME TypeOK, SeenInv, Next
  PROVE  SeenInv'
<1>0. Observe
  BY DEF Next
<1>1. \A c \in Callers : pc'[c] # "idle" => Facts(c)' \subseteq seen'[c]
  BY <1>0, Observing
<1>2. ASSUME NEW c \in Callers, Step(c)
      PROVE  \A d \in Callers : Reached(d)'
  <2>1. CASE Finds(c)
    BY <1>0, <2>1, FindsKeepReach
  <2>2. CASE Copies(c)
    BY <1>0, <2>2, CopiesKeepReach
  <2>3. CASE WritesElsewhere(c) \/ WritesAccounts(c)
    <3>1. \E code \in Nat : Answer(c, code)
      BY <2>3 DEF WritesElsewhere, WritesAccounts, IssueSession, DeleteSession, DefineRole,
         Register, AssignRoles, UpdateIdentity
    <3> QED
      BY <1>0, <3>1, AnswerKeepsReach
  <2> QED
    BY <1>2, <2>1, <2>2, <2>3, StepsOfACall
<1>3. CASE Bootstrap \/ BootstrapFails \/ Tick \/ PurgeExpired
  <2>1. UNCHANGED <<pc, call>>
    BY <1>3 DEF Bootstrap, BootstrapFails, Tick, PurgeExpired, Quiet
  <2>2. \A d \in Callers : Reached(d)'
    BY <1>0, <2>1, OthersKeepReach
  <2> QED
    BY <1>1, <2>2 DEF SeenInv
<1>4. CASE Restart
  <2>1. \A d \in Callers : Reached(d)'
    BY <1>4 DEF Restart, Reached
  <2> QED
    BY <1>1, <2>1 DEF SeenInv
<1>5. ASSUME NEW c \in Callers, Step(c) PROVE SeenInv'
  BY <1>1, <1>2, <1>5 DEF SeenInv
<1> QED
  BY <1>3, <1>4, <1>5 DEF Next

-----------------------------------------------------------------------------
(* The invariant, and the theorems.                                        *)

AuthInv == TypeOK /\ StoreInv /\ NobodyWhereDeployed /\ SeenInv

LEMMA AuthInit == Init => AuthInv
<1> SUFFICES ASSUME Init PROVE AuthInv
  OBVIOUS
<1>1. TypeOK
  <2>1. NoSession \in [identity: Nat, expires: Nat]
    BY DEF NoSession
  <2> QED
    BY <2>1, NoCallType, BoundAssumption DEF Init, TypeOK, Steps
<1>2. StoreInv
  BY DEF Init, StoreInv, NothingBeforeServing, NotDrawnYet, Consistent, CopiesAreTheirs
<1>3. NobodyWhereDeployed
  BY DEF Init, NobodyWhereDeployed
<1>4. SeenInv
  BY DEF Init, SeenInv, Reached
<1> QED
  BY <1>1, <1>2, <1>3, <1>4 DEF AuthInv

LEMMA AuthStep == AuthInv /\ [Next]_vars => AuthInv'
<1> SUFFICES ASSUME AuthInv, [Next]_vars PROVE AuthInv'
  OBVIOUS
<1>1. CASE Next
  BY <1>1, StoreStep, DeployedStep, SeenStep DEF AuthInv
<1>2. CASE UNCHANGED vars
  <2>1. UNCHANGED <<environment, bySubject, credentials, roles, sessions, phase, clock>>
        /\ UNCHANGED <<drawn, issued, pc, call, seen, given, overlapped>>
    BY <1>2 DEF vars, settings, store, calls, assignments
  <2>2. TypeOK'
    BY <2>1 DEF AuthInv, TypeOK
  <2>3. StoreInv'
    BY <2>1 DEF AuthInv, StoreInv, NothingBeforeServing, NotDrawnYet, Consistent,
       CopiesAreTheirs
  <2>4. NobodyWhereDeployed'
    BY <2>1 DEF AuthInv, NobodyWhereDeployed
  <2>5. SeenInv'
    <3>1. \A c \in Callers : Facts(c)' = Facts(c)
      BY <2>1 DEF Facts, Live, Expired, Active, Known, Grants
    <3>2. Kinds' = Kinds /\ (DOMAIN Required)' = DOMAIN Required
      BY Inputs DEF Kinds, Required
    <3> QED
      BY <2>1, <3>1, <3>2 DEF AuthInv, SeenInv, Reached
  <2> QED
    BY <2>2, <2>3, <2>4, <2>5 DEF AuthInv
<1> QED
  BY <1>1, <1>2

LEMMA AuthInvariant == Spec => []AuthInv
BY AuthInit, AuthStep, PTL DEF Spec

\* Two calls that register the same subject, in two spellings or at once, never
\* make two accounts, for any number of calls, subjects and restarts.
THEOREM OneAccountPerSubject == Spec => []SubjectNamesOne
<1>1. AuthInv => SubjectNamesOne
  BY DEF AuthInv, StoreInv, Consistent, SubjectNamesOne, Known
<1> QED
  BY <1>1, AuthInvariant, PTL

\* The roles of an account are the last it was given, as long as no closure or
\* reopening overlapped the assignment.
THEOREM RolesAreKept == Spec => []RolesAreTheLastGiven
<1>1. AuthInv => RolesAreTheLastGiven
  BY DEF AuthInv, StoreInv, Consistent, RolesAreTheLastGiven, Known
<1> QED
  BY <1>1, AuthInvariant, PTL

\* Outside a local environment no account ever exists.
THEOREM NobodyDeployed == Spec => []DeployedHasNobody
<1>1. AuthInv => DeployedHasNobody
  BY DEF AuthInv, NobodyWhereDeployed, DeployedHasNobody, Known
<1> QED
  BY <1>1, AuthInvariant, PTL

\* Whoever answers a call in this step is the step of that call.
LEMMA AnsweredByItself ==
  ASSUME TypeOK, Next, NEW c \in Callers,
         status'[c] # 0 \/ (pc[c] # "idle" /\ pc'[c] # "idle" /\ pc'[c] # pc[c])
  PROVE  Step(c)
<1>1. ASSUME NEW d \in Callers, Step(d), d # c
      PROVE  FALSE
  <2>1. \/ \E code \in Nat : Answer(d, code)
        \/ \E step \in Steps, read \in CallType : Proceed(d, step, read)
    <3>1. CASE Finds(d)
      BY <3>1, FindsDo
    <3>2. CASE WritesElsewhere(d) \/ WritesAccounts(d)
      BY <3>2 DEF WritesElsewhere, WritesAccounts, IssueSession, DeleteSession, DefineRole,
         Register, AssignRoles, UpdateIdentity
    <3>3. CASE Copies(d)
      BY <3>3, CopiesDo DEF Steps
    <3> QED
      BY <1>1, <3>1, <3>2, <3>3, StepsOfACall
  <2>2. Others(d)
    BY <2>1, Answering, Proceeding
  <2> QED
    BY <1>1, <2>2 DEF Others
<1>2. ~(Bootstrap \/ BootstrapFails \/ Tick \/ PurgeExpired \/ Restart)
  BY DEF Bootstrap, BootstrapFails, Tick, PurgeExpired, Restart, Quiet, NoStatus
<1> QED
  BY <1>1, <1>2 DEF Next

\* A revoked or expired token, a closed account, are refused by the next call:
\* what a call accepts was valid at some instant of it.
THEOREM RevocationIsEffective == Spec => AcceptedWasValid
<1> DEFINE Accepted(c) ==
      /\ pc[c] = "resolve" /\ (pc'[c] = "authorize" \/ status'[c] = 200)
           => {"session", "active"} \subseteq seen[c]
      /\ pc[c] = "compare" /\ status'[c] = 201 => "active" \in seen[c]
<1>1. ASSUME AuthInv, Next, NEW c \in Callers
      PROVE  Accepted(c)
  <2>1. TypeOK /\ SeenInv
    BY <1>1 DEF AuthInv
  <2>2. pc[c] = "compare" => "active" \in seen[c]
    BY <2>1 DEF SeenInv, Reached
  <2>3. ASSUME pc[c] = "resolve", pc'[c] = "authorize" \/ status'[c] = 200
        PROVE  {"session", "active"} \subseteq seen[c]
    <3>0. status'[c] # 0 \/ (pc[c] # "idle" /\ pc'[c] # "idle" /\ pc'[c] # pc[c])
      BY <2>3
    <3>1. Step(c)
      BY <1>1, <2>1, <3>0, AnsweredByItself
    <3>2. FindIdentity(c)
      BY <2>3, <3>1 DEF Step, RefusedWhenDisabled, FindBySubject, IssueSession,
         SecretRefused, FindSession, DeleteSession, Authorize, Register, DefineRole,
         AssignRoles, ReadIdentity, ReadIdentityToReopen, UpdateIdentity, Acting
    <3>3. Active(call[c].caller)
      <4>1. ~Answer(c, 401)
        BY <2>1, <2>3, Answering
      <4> QED
        BY <3>2, <4>1 DEF FindIdentity
    <3>4. "active" \in Facts(c)
      BY <3>3 DEF Facts
    <3> QED
      BY <2>1, <2>3, <3>4 DEF SeenInv, Reached
  <2> QED
    BY <2>2, <2>3
<1>2. AuthInv /\ [Next]_vars => [\A c \in Callers : Accepted(c)]_vars
  BY <1>1
<1> QED
  BY <1>2, AuthInvariant, PTL DEF Spec, AcceptedWasValid

\* A protected operation is done for who held the permission at some instant of
\* the call.
THEOREM NothingUngranted == Spec => ActedWasGranted
<1> DEFINE Granted(c) ==
      call[c].kind \in DOMAIN Required /\ status'[c] \in {201, 204} /\ pc[c] # "idle"
        => {"session", "active", "granted"} \subseteq seen[c]
<1>1. ASSUME AuthInv, Next, NEW c \in Callers
      PROVE  Granted(c)
  <2>1. TypeOK /\ SeenInv
    BY <1>1 DEF AuthInv
  <2>2. SUFFICES ASSUME call[c].kind \in DOMAIN Required, status'[c] \in {201, 204},
                        pc[c] # "idle"
        PROVE  {"session", "active", "granted"} \subseteq seen[c]
    OBVIOUS
  <2>3. CASE pc[c] \in {"act", "update"}
    BY <2>1, <2>2, <2>3, Inputs DEF SeenInv, Reached
  <2>4. pc[c] # "compare"
    BY <2>1, <2>2, Inputs DEF SeenInv, Reached
  <2>5. CASE pc[c] \in {"resolve", "authorize"}
    <3>0. status'[c] # 0
      BY <2>2
    <3>1. Step(c)
      BY <1>1, <2>1, <3>0, AnsweredByItself
    <3>2. FindIdentity(c) \/ Authorize(c)
      BY <2>5, <3>1 DEF Step, RefusedWhenDisabled, FindBySubject, IssueSession,
         SecretRefused, FindSession, DeleteSession, Register, DefineRole,
         AssignRoles, ReadIdentity, ReadIdentityToReopen, UpdateIdentity, Acting
    <3>3. \/ Answer(c, 401) \/ Answer(c, 200) \/ Answer(c, 403)
          \/ \E step \in Steps : Proceed(c, step, call[c])
      BY <3>2 DEF FindIdentity, Authorize, Steps
    <3>4. status'[c] \in {401, 200, 403, 0}
      BY <2>1, <3>3, Answering, Proceeding, CallTyped
    <3> QED
      BY <2>2, <3>4
  <2> QED
    BY <2>1, <2>2, <2>3, <2>4, <2>5 DEF TypeOK, Steps
<1>2. AuthInv /\ [Next]_vars => [\A c \in Callers : Granted(c)]_vars
  BY <1>1
<1> QED
  BY <1>2, AuthInvariant, PTL DEF Spec, ActedWasGranted
=============================================================================
