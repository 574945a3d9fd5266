----------------------------- MODULE UnitOfWork -----------------------------
(***************************************************************************)
(* database.go: a use case run in a transaction.  RunInTx begins one on a  *)
(* connection of the pool, unless the context carries one already, sets    *)
(* the tenant the row policies read, and commits or rolls back after what  *)
(* the use case returned.  QuerierFrom is how an adapter reaches either    *)
(* the transaction of its context or, without one, the pool.               *)
(*                                                                         *)
(* The database is external: a transaction is visible once committed, a    *)
(* local setting ends with it.                                             *)
(***************************************************************************)
EXTENDS Naturals, FiniteSets

CONSTANTS
  Units,    \* the use cases running
  Tenants,  \* with their tenant scope, or
  NoTenant, \* without any
  Sessions, \* the connections of the pool
  Adapters  \* the secondary adapters a use case calls, each writing a row

ASSUME SessionAssumption == 0 \notin Sessions

VARIABLES
  unit,    \* where RunInTx is
  scope,   \* the tenant the context carries
  session, \* the connection its transaction is on; 0 for none
  written, \* the adapters whose writing succeeded
  rows,    \* the rows committed
  pending, \* the rows of the transaction open on each connection
  setting  \* app.current_tenant on each connection, and whether it is local

unitVars == <<unit, scope, session, written, rows, pending, setting>>

Unset == [tenant |-> NoTenant, local |-> TRUE]

UnitInit ==
  /\ unit = [u \in Units |-> "called"]
  /\ scope = [u \in Units |-> NoTenant]
  /\ session = [u \in Units |-> 0]
  /\ written = [u \in Units |-> {}]
  /\ rows = {}
  /\ pending = [s \in Sessions |-> {}]
  /\ setting = [s \in Sessions |-> Unset]

Idle == {s \in Sessions : \A u \in Units : session[u] # s}

\* WithTenant, upstream.
WithTenant(u, t) ==
  /\ unit[u] = "called"
  /\ scope' = [scope EXCEPT ![u] = t]
  /\ unit' = [unit EXCEPT ![u] = "scoped"]
  /\ UNCHANGED <<session, written, rows, pending, setting>>

Begin(u) ==
  /\ unit[u] \in {"called", "scoped"}
  /\ \E s \in Idle : session' = [session EXCEPT ![u] = s]
  /\ unit' = [unit EXCEPT ![u] = "begun"]
  /\ UNCHANGED <<scope, written, rows, pending, setting>>

\* No connection: an Err that says nothing.
BeginFails(u) ==
  /\ unit[u] \in {"called", "scoped"}
  /\ unit' = [unit EXCEPT ![u] = "Err"]
  /\ UNCHANGED <<scope, session, written, rows, pending, setting>>

\* Broken on purpose: set_config(..., false) lasts as long as the connection.
TenantSetting_ForTheSession(t) == [tenant |-> t, local |-> FALSE]

\* set_config(..., true).
TenantSetting(t) == [tenant |-> t, local |-> TRUE]

\* The tenant, if the context carries one, then the use case.
Enter(u) ==
  /\ unit[u] = "begun"
  /\ setting' = IF scope[u] = NoTenant THEN setting
                ELSE [setting EXCEPT ![session[u]] = TenantSetting(scope[u])]
  /\ unit' = [unit EXCEPT ![u] = "inside"]
  /\ UNCHANGED <<scope, session, written, rows, pending>>

Row(u, a, s) == [unit |-> u, by |-> a, tenant |-> setting[s].tenant]

\* Broken on purpose: the adapter was given the pool.
Write_OnThePool(u, a) ==
  /\ unit[u] = "inside" /\ a \notin written[u]
  /\ \E s \in Idle : rows' = rows \union {Row(u, a, s)}
  /\ written' = [written EXCEPT ![u] = @ \union {a}]
  /\ UNCHANGED <<unit, scope, session, pending, setting>>

\* An adapter's statement, on QuerierFrom's choice: its own RunInTx, if it has
\* one, is not nested, so it is the same.  One under another WithTenant would
\* keep the tenant of the outer one; nothing does that, and no unit here.
Write(u, a) ==
  /\ unit[u] = "inside" /\ a \notin written[u]
  /\ pending' = [pending EXCEPT ![session[u]] = @ \union {Row(u, a, session[u])}]
  /\ written' = [written EXCEPT ![u] = @ \union {a}]
  /\ UNCHANGED <<unit, scope, session, rows, setting>>

\* The transaction is over, with what becomes of its rows.
Over(u, kept, outcome) ==
  LET s == session[u]
  IN /\ rows' = rows \union kept
     /\ pending' = [pending EXCEPT ![s] = {}]
     /\ setting' = [setting EXCEPT ![s] = IF @.local THEN Unset ELSE @]
     /\ session' = [session EXCEPT ![u] = 0]
     /\ unit' = [unit EXCEPT ![u] = outcome]
     /\ UNCHANGED <<scope, written>>

\* set_config fails, the use case returns Err or panics: the deferred rollback,
\* that the cancellation of the context does not reach.
Rollback(u) ==
  /\ unit[u] \in {"begun", "inside"}
  /\ Over(u, {}, "Err")

Commit(u) ==
  /\ unit[u] = "inside"
  /\ Over(u, pending[session[u]], "Ok")

\* Commit's error: either nothing was committed, or the answer is lost and all
\* of it was; the rollback that follows finds nothing to undo.
CommitFails(u) ==
  /\ unit[u] = "inside"
  /\ \/ Over(u, {}, "Err")
     \/ Over(u, pending[session[u]], "Err")

UnitNext ==
  \E u \in Units :
    \/ Begin(u) \/ BeginFails(u) \/ Enter(u) \/ Rollback(u) \/ Commit(u)
    \/ CommitFails(u)
    \/ \E t \in Tenants : WithTenant(u, t)
    \/ \E a \in Adapters : Write(u, a)

UnitSpec == UnitInit /\ [][UnitNext]_unitVars

-----------------------------------------------------------------------------
Committed(u) == {r.by : r \in {q \in rows : q.unit = u}}

\* database.go, RunInTx: nothing an adapter writes is there before the use case
\* has returned; then all of it is there or none, and all when it is Ok.
AllOrNothing ==
  \A u \in Units :
    /\ Committed(u) \in {{}, written[u]}
    /\ unit[u] = "Ok" => Committed(u) = written[u]
    /\ unit[u] \notin {"Ok", "Err"} => Committed(u) = {}

\* database.go, runWithRollback: no row is written under the tenant of a use case
\* that had the connection before.
NoForeignTenant == \A r \in rows : r.tenant = scope[r.unit]
=============================================================================
