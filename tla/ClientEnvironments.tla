------------------------- MODULE ClientEnvironments -------------------------
(***************************************************************************)
(* The customers' environments: who owns one, which account is logged in   *)
(* on it, and what follows from both (client-user-store.ts), with the      *)
(* comment policy an environment carries (approval-policy-store.ts).       *)
(*                                                                         *)
(* An environment belongs to at most one customer (a unique index), and an *)
(* account may be observed on several environments.  A handshake reports   *)
(* the account of an environment; the write is refused when the account is *)
(* already bound to an environment of another customer.  That check reads  *)
(* other rows without a lock, so two reports may pass it together; every   *)
(* read repeats the question.                                              *)
(*                                                                         *)
(* Each process answers "which environment is this account on" from a copy *)
(* it rebuilds with a query and an assignment, after each of its own       *)
(* writes and whenever a round of the refresher sees a new version.        *)
(*                                                                         *)
(* Left out: names, labels and platforms (every environment here is a      *)
(* Facebook one), the audit rows, the end of a slow start, which           *)
(* FacebookOperationPolicy models, and the clean-up admissions, which      *)
(* OffboardAdmission models.                                               *)
(***************************************************************************)
EXTENDS Integers, FiniteSets

CONSTANTS
  Users,         \* customers
  Envs,          \* environments
  Accounts,      \* platform accounts
  Tasks,         \* reports and writes a process has under way
  Poller,        \* the refresher's round, a task of its own
  None,
  LegacyStart,   \* accounts with a slow start of the old, per-account kind
  MaxVersion     \* bound on the recorded writes

ASSUME PollerIsATask == Poller \in Tasks

VARIABLES
  enabled,       \* client_users.status
  owner,         \* client_env_scope: environment -> customer
  registered,    \* rows of client_environments
  account,       \* client_environments.account_id
  active,        \* client_environments.lifecycle_state = 'active'
  known,         \* rows of accounts
  commentMode,   \* environment_comment_approval_policy
  slowStart,     \* slow_start_initialized and slow_start_since
  version,       \* the recorded version of client_environment_slow_start
  task,          \* what each task is doing
  copy,          \* this process's environmentKeyByAccount and the anchors
  recorded,      \* the version the refresher has recorded for the copy
  past           \* what reports and copies have seen (history)

envVars == <<enabled, owner, registered, account, active, known, commentMode,
             slowStart, version, task, copy, recorded>>

Modes == {"source_rules", "auto_approve_all"}
Ambiguous == [env |-> None, since |-> None, clash |-> TRUE]
Unbound == [env |-> None, since |-> None, clash |-> FALSE]
Idle == [at |-> "idle"]

ASSUME EnvironmentsAssumption ==
  /\ None \notin Users \cup Envs \cup Accounts \cup Modes \cup {"legacy", "set"}
  /\ IsFiniteSet(Envs) /\ MaxVersion \in Nat

-----------------------------------------------------------------------------
(* The questions of ownership and binding. *)

Owns(u, e) == owner[e] = u
OwnsActive(u, e) == Owns(u, e) /\ e \in active
BoundTo(a) == {e \in registered : account[e] = a}

ContendedAcrossCustomers(a, u) == \E e \in BoundTo(a) : owner[e] \notin {None, u}

(* env -> account, for the customer's doors. *)
ResolveBoundAccount(u, e) ==
  CASE ~OwnsActive(u, e) -> [ok |-> FALSE, why |-> "environment_not_owned"]
    [] OwnsActive(u, e) /\ account[e] = None -> [ok |-> FALSE, why |-> "binding_unknown"]
    [] OwnsActive(u, e) /\ account[e] # None /\ ContendedAcrossCustomers(account[e], u) ->
         [ok |-> FALSE, why |-> "binding_conflict"]
    [] OTHER -> IF account[e] \in known THEN [ok |-> TRUE, account |-> account[e]]
                                        ELSE [ok |-> FALSE, why |-> "binding_unknown"]

(* The same for the alias door, which does not ask for an active row. *)
ResolveAliasAccount(u, e) ==
  IF Owns(u, e) /\ account[e] \in known /\ ~ContendedAcrossCustomers(account[e], u)
  THEN [ok |-> TRUE, account |-> account[e]]
  ELSE [ok |-> FALSE, why |-> "environment_not_owned"]

(* account -> reachable, for the actions on a task. *)
Reachable(u, a) == ~ContendedAcrossCustomers(a, u) /\ \E e \in BoundTo(a) : Owns(u, e)

(* getOwnedEnvironment: owned, and bound to an account of its own or not. *)
OwnedBinding(u, e) ==
  CASE ~Owns(u, e) -> "environment_not_owned"
    [] Owns(u, e) /\ account[e] # None
         /\ (ContendedAcrossCustomers(account[e], u) \/ Cardinality(BoundTo(account[e])) > 1) -> "binding_conflict"
    [] OTHER -> IF account[e] \in known THEN "bound" ELSE "binding_unknown"

-----------------------------------------------------------------------------
(* The process's copy. *)

CopyOf(a) ==
  LET on == BoundTo(a) \cap active IN
  IF on = {} THEN Unbound
  ELSE IF Cardinality(on) > 1 THEN Ambiguous
  ELSE LET e == CHOOSE x \in on : TRUE IN [env |-> e, since |-> slowStart[e].since, clash |-> FALSE]

CopyNow == [a \in Accounts |-> CopyOf(a)]

QueryCopy(t) ==
  /\ task[t].at = "query"
  /\ task' = [task EXCEPT ![t] = [at |-> "assign", copy |-> CopyNow, seen |-> task[t].seen]]
  /\ UNCHANGED <<enabled, owner, registered, account, active, known, commentMode, slowStart, version, copy, recorded>>

QueryFails(t) ==                                         \* or the write was another process's
  /\ task[t].at = "query"
  /\ task' = [task EXCEPT ![t] = Idle]
  /\ UNCHANGED <<enabled, owner, registered, account, active, known, commentMode, slowStart, version, copy, recorded>>

SeenLate(t) == version                                   \* faulty variant: the version after the load is recorded
Seen(t) == task[t].seen

AssignCopy(t) ==
  /\ task[t].at = "assign"
  /\ copy' = task[t].copy
  /\ recorded' = IF t = Poller THEN Seen(t) ELSE recorded
  /\ task' = [task EXCEPT ![t] = Idle]
  /\ UNCHANGED <<enabled, owner, registered, account, active, known, commentMode, slowStart, version>>

(* A round of the refresher: a version it has not recorded starts a reload. *)
Poll ==
  /\ task[Poller] = Idle /\ version # recorded
  /\ task' = [task EXCEPT ![Poller] = [at |-> "query", seen |-> version]]
  /\ UNCHANGED <<enabled, owner, registered, account, active, known, commentMode, slowStart, version, copy, recorded>>

(* What follows a committed write: its version, and a reload of the writer. *)
BumpForgotten(t) ==                                      \* faulty variant: the version stays
  /\ UNCHANGED version
  /\ task' = [task EXCEPT ![t] = [at |-> "query", seen |-> 0]]
Bump(t) ==
  /\ version < MaxVersion /\ version' = version + 1
  /\ task' = [task EXCEPT ![t] = [at |-> "query", seen |-> 0]]

-----------------------------------------------------------------------------
(* Reports of a handshake. *)

FirstRow(e) ==
  /\ registered' = registered \cup {e}
  /\ active' = IF e \in registered THEN active ELSE active \cup {e}

RegisterUnbound(e) ==                                    \* no account reported: nothing to bind, no version
  /\ e \notin registered
  /\ FirstRow(e)
  /\ UNCHANGED <<enabled, owner, account, known, commentMode, slowStart, version, task, copy, recorded>>

Report(t, e, a) ==
  /\ t # Poller /\ task[t] = Idle /\ account[e] # a
  /\ task' = [task EXCEPT ![t] = [at |-> "gate", env |-> e, account |-> a]]
  /\ UNCHANGED <<enabled, owner, registered, account, active, known, commentMode, slowStart, version, copy, recorded>>

ConflictsWithOwned(e, a) ==                              \* faulty variant: environments nobody owns do not count
  \E x \in BoundTo(a) \ {e} : owner[x] \notin {None, owner[e]}
BindingConflicts(e, a) == \E x \in BoundTo(a) \ {e} : owner[x] # owner[e]

GateBinding(t) ==
  /\ task[t].at = "gate"
  /\ task' = [task EXCEPT ![t] =
       [at |-> "upsert", env |-> task[t].env,
        account |-> IF BindingConflicts(task[t].env, task[t].account) THEN None ELSE task[t].account]]
  /\ UNCHANGED <<enabled, owner, registered, account, active, known, commentMode, slowStart, version, copy, recorded>>

UpsertEnvironment(t) ==
  /\ task[t].at = "upsert"
  /\ FirstRow(task[t].env)
  /\ account' = IF task[t].account = None THEN account ELSE [account EXCEPT ![task[t].env] = task[t].account]
  /\ Bump(t)
  /\ UNCHANGED <<enabled, owner, known, commentMode, slowStart, copy, recorded>>

AccountAppears(a) ==                                     \* the account's own row
  /\ a \notin known /\ known' = known \cup {a}
  /\ UNCHANGED <<enabled, owner, registered, account, active, commentMode, slowStart, version, task, copy, recorded>>

LeaveActive(e) ==                                        \* another service starts a deletion
  /\ e \in active /\ owner[e] = None /\ active' = active \ {e}
  /\ UNCHANGED <<enabled, owner, registered, account, known, commentMode, slowStart, version, task, copy, recorded>>

-----------------------------------------------------------------------------
(* Ownership: the console replaces a customer's environments, or disables
   the customer, which withdraws them all. *)

AssignableUnseen(u) == {e \in Envs : owner[e] \in {None, u}}          \* faulty variant: unknown environments pass
Assignable(u) == {e \in registered : owner[e] \in {None, u}}

SetScope(u, keep) ==
  /\ keep \subseteq Assignable(u)
  /\ {e \in Envs : owner[e] = u} # keep
  /\ owner' = [e \in Envs |-> IF e \in keep THEN u ELSE IF owner[e] = u THEN None ELSE owner[e]]
  /\ UNCHANGED <<enabled, registered, account, active, known, commentMode, slowStart, version, task, copy, recorded>>

DisableUser(u) ==
  /\ u \in enabled
  /\ enabled' = enabled \ {u}
  /\ owner' = [e \in Envs |-> IF owner[e] = u THEN None ELSE owner[e]]
  /\ UNCHANGED <<registered, account, active, known, commentMode, slowStart, version, task, copy, recorded>>

EnableUser(u) ==
  /\ u \notin enabled /\ enabled' = enabled \cup {u}
  /\ UNCHANGED <<owner, registered, account, active, known, commentMode, slowStart, version, task, copy, recorded>>

-----------------------------------------------------------------------------
(* The slow start of an environment. *)

Switched(e, on) == [initialized |-> TRUE,
                    since |-> IF ~on THEN None ELSE IF slowStart[e].since = None THEN "set" ELSE slowStart[e].since]

SetSlowStart(t, e, u, on) ==                             \* u = None: the console
  /\ t # Poller /\ task[t] = Idle /\ e \in registered
  /\ IF u = None THEN e \in active ELSE Owns(u, e)
  /\ slowStart[e] # Switched(e, on)
  /\ slowStart' = [slowStart EXCEPT ![e] = Switched(e, on)]
  /\ Bump(t)
  /\ UNCHANGED <<enabled, owner, registered, account, active, known, commentMode, copy, recorded>>

ToMigrateAll == {e \in registered : slowStart[e].since = None}    \* faulty variant: the flag is not read
ToMigrate == {e \in registered : ~slowStart[e].initialized}

Migrate(t) ==
  /\ t # Poller /\ task[t] = Idle /\ ToMigrate # {}
  /\ slowStart' = [e \in Envs |->
       IF e \notin ToMigrate THEN slowStart[e]
       ELSE [initialized |-> TRUE,
             since |-> IF slowStart[e].since # None THEN slowStart[e].since
                       ELSE IF account[e] \in LegacyStart \cap known THEN "legacy" ELSE None]]
  /\ Bump(t)
  /\ UNCHANGED <<enabled, owner, registered, account, active, known, commentMode, copy, recorded>>

-----------------------------------------------------------------------------
(* The comment mode of an environment: written by its customer with the
   ownership in the same statement, by the console for the environment, or
   by the console for an account, whose environment it reads first. *)

WriteMode(e, m) == commentMode' = [commentMode EXCEPT ![e] = m]

SetOwnedMode(u, e, m) == e \in registered /\ Owns(u, e) /\ WriteMode(e, m)

SetModeAsCustomer(u, e, m) ==
  /\ commentMode[e] # m /\ SetOwnedMode(u, e, m)
  /\ UNCHANGED <<enabled, owner, registered, account, active, known, slowStart, version, task, copy, recorded>>

SetModeAsConsole(e, m) ==
  /\ commentMode[e] # m /\ e \in registered /\ WriteMode(e, m)
  /\ UNCHANGED <<enabled, owner, registered, account, active, known, slowStart, version, task, copy, recorded>>

ReadModeTarget(t, a, m) ==
  /\ t # Poller /\ task[t] = Idle /\ a \in known
  /\ Cardinality(BoundTo(a)) = 1
  /\ task' = [task EXCEPT ![t] = [at |-> "mode", env |-> CHOOSE e \in BoundTo(a) : TRUE, mode |-> m]]
  /\ UNCHANGED <<enabled, owner, registered, account, active, known, commentMode, slowStart, version, copy, recorded>>

WriteModeTarget(t) ==
  /\ task[t].at = "mode"
  /\ WriteMode(task[t].env, task[t].mode)
  /\ task' = [task EXCEPT ![t] = Idle]
  /\ UNCHANGED <<enabled, owner, registered, account, active, known, slowStart, version, copy, recorded>>

-----------------------------------------------------------------------------
EnvInit ==
  /\ enabled = Users
  /\ owner = [e \in Envs |-> None]
  /\ registered = {} /\ active = {} /\ known = {}
  /\ account = [e \in Envs |-> None]
  /\ commentMode = [e \in Envs |-> None]
  /\ slowStart = [e \in Envs |-> [initialized |-> FALSE, since |-> None]]
  /\ version = 0 /\ recorded = 0
  /\ task = [t \in Tasks |-> Idle]
  /\ copy = [a \in Accounts |-> Unbound]
  /\ past = [asOf |-> [t \in Tasks |-> 0], copyOf |-> 0, newest |-> 0, overtaken |-> {}, unvouched |-> {}]

Reporting ==
  \/ \E e \in Envs : RegisterUnbound(e) \/ LeaveActive(e)
  \/ \E t \in Tasks, e \in Envs, a \in Accounts : Report(t, e, a)
  \/ \E t \in Tasks : GateBinding(t) \/ UpsertEnvironment(t)
  \/ \E a \in Accounts : AccountAppears(a)

Copying ==
  \/ Poll
  \/ \E t \in Tasks : QueryCopy(t) \/ QueryFails(t) \/ AssignCopy(t)

Assigning ==
  \E u \in Users : DisableUser(u) \/ EnableUser(u) \/ \E keep \in SUBSET Envs : SetScope(u, keep)

Switching ==
  \/ \E t \in Tasks, e \in Envs, u \in Users \cup {None}, on \in BOOLEAN : SetSlowStart(t, e, u, on)
  \/ \E t \in Tasks : Migrate(t)

Moding ==
  \/ \E u \in Users, e \in Envs, m \in Modes : SetModeAsCustomer(u, e, m)
  \/ \E e \in Envs, m \in Modes : SetModeAsConsole(e, m)
  \/ \E t \in Tasks, a \in Accounts, m \in Modes : ReadModeTarget(t, a, m)
  \/ \E t \in Tasks : WriteModeTarget(t)

EnvNext == Reporting \/ Copying \/ Assigning \/ Switching \/ Moding

-----------------------------------------------------------------------------
(* History.  Of the copy: the version each query saw, that of the answer
   assigned last, and the newest of those assigned.  Of the reports: which of
   those past their gate an owner or a binding has moved under since, and
   which environments such a report has bound, or have changed owners since
   a report bound them. *)

Queries(t) == task[t].at = "query" /\ task'[t].at = "assign"
Assigns(t) == task[t].at = "assign" /\ task'[t].at # "assign"
Binds(t, e) == task[t].at = "upsert" /\ task'[t].at # "upsert" /\ task[t].env = e /\ task[t].account # None
Newer(v, w) == IF v < w THEN w ELSE v

AsOf == [t \in Tasks |-> IF Queries(t) THEN version ELSE IF Assigns(t) THEN 0 ELSE past.asOf[t]]
CopiedAt ==
  IF \E t \in Tasks : Assigns(t) THEN past.asOf[CHOOSE t \in Tasks : Assigns(t)] ELSE past.copyOf
Overtaken ==
  {t \in Tasks : task'[t].at = "upsert" /\ (t \in past.overtaken \/ owner' # owner \/ account' # account)}
Unvouched ==
  {e \in Envs : /\ account'[e] # None
                /\ \/ owner'[e] # owner[e]
                   \/ \E t \in past.overtaken : Binds(t, e)
                   \/ e \in past.unvouched /\ \A t \in Tasks : ~Binds(t, e)}

Witness ==
  past' = [asOf |-> AsOf, copyOf |-> CopiedAt, newest |-> Newer(past.newest, CopiedAt),
           overtaken |-> Overtaken, unvouched |-> Unvouched]

-----------------------------------------------------------------------------
Copies == [env : Envs \cup {None}, since : {None, "legacy", "set"}, clash : BOOLEAN]

(* The tables and the tasks keep their shape, and only a registered
   environment has an owner. *)
EnvTypeOK ==
  /\ enabled \subseteq Users /\ active \subseteq registered /\ registered \subseteq Envs /\ known \subseteq Accounts
  /\ owner \in [Envs -> Users \cup {None}] /\ account \in [Envs -> Accounts \cup {None}]
  /\ \A e \in Envs : owner[e] # None => e \in registered
  /\ commentMode \in [Envs -> Modes \cup {None}]
  /\ slowStart \in [Envs -> [initialized : BOOLEAN, since : {None, "legacy", "set"}]]
  /\ version \in 0..MaxVersion /\ recorded \in 0..version
  /\ \A t \in Tasks : task[t].at \in {"idle", "gate", "upsert", "query", "assign", "mode"}
  /\ copy \in [Accounts -> Copies]

(* A copy is true of the tables: the environment it names for an account is
   the only active one the account is on, with the slow start it has; where it
   names none and has seen no clash, there is none. *)
Current(c) ==
  \A a \in Accounts : LET on == BoundTo(a) \cap active IN
    /\ c[a].env # None => on \subseteq {c[a].env} /\ \A e \in on : c[a].since = slowStart[e].since
    /\ c[a].env = None /\ ~c[a].clash => on = {}

(* refreshEnvironmentSlowStartMirror, bumpInTx: a copy that has seen the newest
   version, or that the refresher takes for the newest, is true of the tables,
   however reports, switches, failed queries and reloads overlap, unless an
   answer older than one the process had before was assigned last. *)
CopyKeepsUp ==
  version \in {recorded, past.copyOf} /\ past.copyOf = past.newest => Current(copy)

(* registerEnvironments: the gate of a report reads what the upsert does not
   read again.  Even so an account is on environments of two owners only where
   an owner or a binding moved between the two, or an owner has changed since. *)
ContestedWhenOvertaken ==
  \A e, f \in Envs : e # f /\ account[e] # None /\ account[e] = account[f] /\ owner[e] # owner[f] =>
    e \in past.unvouched \/ f \in past.unvouched

(* A slow start of the old kind is taken over once: whoever switched the
   environment since then decides, and a second migration brings nothing back. *)
LegacyOnce ==
  [][\A e \in Envs : slowStart[e].initialized /\ slowStart[e].since # "legacy" => slowStart'[e].since # "legacy"]_slowStart

(* server.ts: a process must not read an old value for ever.  With nothing
   under way and the newest version recorded, the environment its copy names
   for an account is the only active one the account is bound to. *)
QuietCopyIsCurrent ==
  (\A t \in Tasks : task[t] = Idle) /\ recorded = version =>
    \A a \in Accounts : copy[a].env # None => BoundTo(a) \cap active \subseteq {copy[a].env}
=============================================================================
