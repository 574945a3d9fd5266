---------------------------- MODULE Registration ----------------------------
(***************************************************************************)
(* The registration of a user: the pipeline validate, check, hash, build,  *)
(* persist, publish of one call, run by many calls at once over the        *)
(* in-memory account store, and the event written into the outbox.         *)
(* Nothing holds the steps together: no driver of the module opens a       *)
(* transaction.                                                            *)
(***************************************************************************)
EXTENDS Naturals, FiniteSets

CONSTANTS
  Calls,         \* the registration requests
  Addresses,     \* well-formed addresses
  Spellings,     \* the ways of typing one: case, surrounding blanks
  Lower,         \* the spelling addresses are normalised to
  OutboxDrivers, \* those considered: "memory", "postgres"
  MaxGone,       \* bound: clients that leave before the answer
  MaxFailures,   \* bound: effects that fail
  MaxRestarts    \* bound: restarts of the server

ASSUME SpellingAssumption == Lower \in Spellings
ASSUME DriverAssumption == OutboxDrivers \subseteq {"memory", "postgres"}
ASSUME CallsAssumption == {MaxGone, MaxFailures, MaxRestarts} \subseteq Nat

\* The driver of the outbox, settled before the program starts.
VARIABLE driver

VARIABLES
  pc,        \* the step each call stands before, or "new", "answered", "cut"
  raw,       \* the address as typed; NoInput before the call
  gone,      \* the calls whose context is cancelled
  byEmail,   \* memory.Store.byEmail: which call's account holds the address
  outbox,    \* the calls whose UserRegistered event is in the outbox
  status     \* the HTTP status answered; 0 before

\* History: the accounts ever stored, the server's lives, and what went wrong.
VARIABLES saved, life, born, failures

request == <<raw, gone>>
history == <<saved, life, born, failures>>
registrationVars == <<driver, pc, request, byEmail, outbox, status, history>>

Inputs == [address: Addresses \cup {"malformed"}, spelling: Spellings]
NoInput == [address |-> "none", spelling |-> Lower]
Emails == [address: Addresses, spelling: Spellings]
NoAccount == {}

\* domain.NewEmail: two spellings of one address are one Email.
NewEmail(input) == [input EXCEPT !.spelling = Lower]

Email(c) == NewEmail(raw[c])

RegistrationInit ==
  /\ driver \in OutboxDrivers
  /\ pc = [c \in Calls |-> "new"]
  /\ raw = [c \in Calls |-> NoInput]
  /\ gone = {}
  /\ byEmail = [e \in Emails |-> NoAccount]
  /\ outbox = {}
  /\ status = [c \in Calls |-> 0]
  /\ saved = {} /\ life = 0 /\ born = [c \in Calls |-> 0] /\ failures = 0

Failure == failures < MaxFailures /\ failures' = failures + 1
NoFailure == UNCHANGED failures

Goto(c, step) == pc' = [pc EXCEPT ![c] = step]

\* The end of a call, whichever step short-circuits the pipeline.
Reply(c, code) ==
  /\ Goto(c, "answered")
  /\ status' = [status EXCEPT ![c] = code]

-----------------------------------------------------------------------------
(* The pipeline.                                                           *)

\* The request arrives and is validated: a malformed address, or a password
\* the policy refuses, is a 422.
Validate(c, input, strong) ==
  /\ pc[c] = "new"
  /\ raw' = [raw EXCEPT ![c] = input]
  /\ born' = [born EXCEPT ![c] = life]
  /\ \/ /\ input.address \in Addresses
        /\ strong
        /\ Goto(c, "check")
        /\ UNCHANGED status
     \/ /\ input.address \notin Addresses \/ ~strong
        /\ Reply(c, 422)
  /\ UNCHANGED <<driver, gone, byEmail, outbox, saved, life, failures>>

\* ensureEmailAvailable: a read under the store's lock.
EnsureEmailAvailable(c) ==
  /\ pc[c] = "check"
  /\ \/ /\ byEmail[Email(c)] = NoAccount
        /\ Goto(c, "hash")
        /\ UNCHANGED status
     \/ /\ byEmail[Email(c)] # NoAccount
        /\ Reply(c, 409)
  /\ UNCHANGED <<driver, request, byEmail, outbox, history>>

\* hashPassword, and buildUser which touches nothing.
HashPassword(c) ==
  /\ pc[c] = "hash"
  /\ Goto(c, "persist")
  /\ UNCHANGED <<driver, request, byEmail, outbox, status, history>>

HashFails(c) ==
  /\ pc[c] = "hash"
  /\ Reply(c, 500)
  /\ Failure
  /\ UNCHANGED <<driver, request, byEmail, outbox, saved, life, born>>

\* Broken on purpose: the earlier check is taken for the truth.
Save_TrustsTheCheck(c) ==
  /\ pc[c] = "persist"
  /\ Goto(c, "publish")
  /\ byEmail' = [byEmail EXCEPT ![Email(c)] = {c}]
  /\ saved' = saved \cup {c}
  /\ UNCHANGED <<driver, request, outbox, status, life, born, failures>>

\* Store.Save: the duplicate is refused under the lock that writes.
Save(c) ==
  /\ pc[c] = "persist"
  /\ \/ /\ byEmail[Email(c)] = NoAccount
        /\ byEmail' = [byEmail EXCEPT ![Email(c)] = {c}]
        /\ saved' = saved \cup {c}
        /\ Goto(c, "publish")
        /\ UNCHANGED status
     \/ /\ byEmail[Email(c)] # NoAccount
        /\ Reply(c, 409)
        /\ UNCHANGED <<byEmail, saved>>
  /\ UNCHANGED <<driver, request, outbox, life, born, failures>>

\* publish: the event enters the outbox.  The memory driver refuses a cancelled
\* context, and nothing else.
Publish(c) ==
  /\ pc[c] = "publish"
  /\ c \notin gone
  /\ outbox' = outbox \cup {c}
  /\ Reply(c, 201)
  /\ UNCHANGED <<driver, request, byEmail, history>>

\* Broken on purpose: the event is given up and the answer is 201.
PublishFails_Ignored(c) ==
  /\ pc[c] = "publish"
  /\ c \in gone \/ driver = "postgres"
  /\ Reply(c, 201)
  /\ UNCHANGED <<driver, request, byEmail, outbox, history>>

\* outboxpub.translate: a cancelled context is transient, the rest internal.
\* PostgreSQL may have committed the row whose acknowledgement is lost.
PublishFails(c) ==
  /\ pc[c] = "publish"
  /\ \/ /\ c \in gone
        /\ Reply(c, 503)
        /\ NoFailure
     \/ /\ c \notin gone
        /\ driver = "postgres"
        /\ Reply(c, 500)
        /\ Failure
  /\ \/ UNCHANGED outbox
     \/ driver = "postgres" /\ outbox' = outbox \cup {c}
  /\ UNCHANGED <<driver, request, byEmail, saved, life, born>>

-----------------------------------------------------------------------------
(* The surroundings.                                                       *)

\* The client leaves, or its deadline passes: the request's context is
\* cancelled, the pipeline runs on.
Leave(c) ==
  /\ pc[c] \notin {"new", "answered", "cut"}
  /\ c \notin gone
  /\ Cardinality(gone) < MaxGone
  /\ gone' = gone \cup {c}
  /\ UNCHANGED <<driver, pc, raw, byEmail, outbox, status, history>>

\* The server stops and starts again: the accounts were in its memory.
Restart ==
  /\ life < MaxRestarts
  /\ life' = life + 1
  /\ pc' = [c \in Calls |-> IF pc[c] \in {"new", "answered"} THEN pc[c] ELSE "cut"]
  /\ byEmail' = [e \in Emails |-> NoAccount]
  /\ outbox' = IF driver = "memory" THEN {} ELSE outbox
  /\ UNCHANGED <<driver, request, status, saved, born, failures>>

Step(c) ==
  \/ \E input \in Inputs, strong \in BOOLEAN : Validate(c, input, strong)
  \/ EnsureEmailAvailable(c)
  \/ HashPassword(c) \/ HashFails(c)
  \/ Save(c)
  \/ Publish(c) \/ PublishFails(c)

RegistrationNext ==
  \/ \E c \in Calls : Step(c) \/ Leave(c)
  \/ Restart

RegistrationSpec == RegistrationInit /\ [][RegistrationNext]_registrationVars

-----------------------------------------------------------------------------
(* Properties.                                                             *)

SameAddress(c, d) == raw[c].address = raw[d].address /\ born[c] = born[d]

\* One server never creates two accounts for one address, however it is typed
\* and however the two calls interleave: the check and the write are two steps,
\* and Store.Save settles what the check cannot.
OneAccountPerAddress ==
  \A c, d \in saved : SameAddress(c, d) => c = d

\* A client told 201 has an account and its event is owed to the consumers: the
\* answer of publish comes after both writes (an outbox in memory keeps that
\* promise as long as the server lives).  And no event announces an account that
\* was refused: the loser of the race for an address leaves the pipeline before.
EventAndAccount ==
  /\ outbox \subseteq saved
  /\ \A c \in Calls : status[c] = 201 =>
       /\ c \in saved
       /\ driver = "postgres" \/ born[c] = life => c \in outbox

\* What publish's comment promises: a registration whose event could not be
\* written is cancelled, so a client told 500 or 503 has no account.
FailureCancels ==
  \A c \in Calls : status[c] \in {500, 503} =>
    \A e \in Emails : c \notin byEmail[e]

=============================================================================
