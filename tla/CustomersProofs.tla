--------------------------- MODULE CustomersProofs ---------------------------
(* Theorems about the customers' environments and accounts, for any customers, *)
(* environments, accounts, reports, intents, calls, requests, log-ins and      *)
(* processes, all of them in one behaviour: that copies and bindings hold but  *)
(* for the races that are named, that an intent makes one environment, that    *)
(* doors act in reach and leave nothing when they refuse, and that memory and  *)
(* roster agree with the rows.                                                 *)
(*                                                                             *)
(* The invariant has a part for each table.  Between two tables it says only   *)
(* that registered environments stay registered, that a locked row keeps its   *)
(* owner, that what a request was given was in reach when it was given, and    *)
(* what a copy or a report that nothing has overtaken still says.              *)
EXTENDS Customers, FiniteSetTheorems, TLAPS

-----------------------------------------------------------------------------
(* Environments: the shape of the tables and of what each task is at.          *)

Since == {None, "legacy", "set"}
TaskStates ==
  {Idle} \cup [at: {"gate"}, env: Envs, account: Accounts]
  \cup [at: {"upsert"}, env: Envs, account: Accounts \cup {None}]
  \cup [at: {"query"}, seen: Nat] \cup [at: {"assign"}, copy: [Accounts -> Copies], seen: Nat]
  \cup [at: {"mode"}, env: Envs, mode: Modes]

TablesFit ==
  /\ enabled \subseteq Users /\ active \subseteq registered /\ registered \subseteq Envs /\ known \subseteq Accounts
  /\ owner \in [Envs -> Users \cup {None}] /\ account \in [Envs -> Accounts \cup {None}]
  /\ \A e \in Envs : owner[e] # None => e \in registered
MarksFit ==
  /\ commentMode \in [Envs -> Modes \cup {None}]
  /\ slowStart \in [Envs -> [initialized : BOOLEAN, since : Since]]
TasksFit ==
  /\ version \in 0..MaxVersion /\ recorded \in 0..version
  /\ task \in [Tasks -> TaskStates]
  /\ \A t \in Tasks : task[t].at \in {"query", "assign"} => task[t].seen <= version
  /\ copy \in [Accounts -> Copies]
EnvInv == TablesFit /\ MarksFit /\ TasksFit

-----------------------------------------------------------------------------
(* Intents: what was completed, what each call has done, and what it was told. *)

IntentStates == [state: {"none", "pending", "completed", "expired"}, user: Users \cup {None}, env: Envs \cup {None}]
Refusals == {"disabled", "invalid_intent", "intent_expired", "environment_already_registered",
             "intent_target_mismatch", "proxy_authority_mismatch", "env_already_assigned",
             "intent_operation_mode_mismatch"}
Ends == {"operation_policy_refresh_unavailable", "ok", "lost", "environment_not_owned", "proxy_authority_conflict"}
CallStates ==
  {Idle} \cup [at: {"refresh"}, intent: Intents, env: Envs, again: BOOLEAN]
  \cup [at: {"done"}, why: Refusals, intent: Intents, env: Envs] \cup [at: {"done"}, why: Ends]
  \cup [at: {"write"}, user: Users, env: Envs, value: Proxies, expected: 0..MaxRevision]
Authorities == [revision: 1..MaxRevision, value: Proxies]

IntentsTyped ==
  /\ intent \in [Intents -> IntentStates] /\ late \subseteq Intents
  /\ \A i \in Intents : (intent[i].state = "completed") = (intent[i].env # None)
  /\ policy \in [Envs -> BaseModes \cup {None}] /\ proxy \in [Envs -> Authorities \cup {None}]
  /\ cached \subseteq {e \in Envs : policy[e] # None}
  /\ rowLock \in [Envs -> Calls \cup {None}] /\ call \in [Calls -> CallStates]
  /\ told \subseteq [intent: Intents, env: Envs, again: BOOLEAN]

(* Each policy was made with an intent, each intent's environment by it alone. *)
Made(i, e) == intent[i].env = e
IntentsFit ==
  /\ \A i, j \in Intents : \A e \in Envs : Made(i, e) /\ Made(j, e) => i = j
  /\ \A e \in Envs : (\E i \in Intents : Made(i, e)) = (policy[e] # None)
  /\ \A e \in Envs : policy[e] # None \/ proxy[e] # None => e \in registered
ToldFits == \A s \in told : Made(s.intent, s.env) /\ s.env \in cached

(* A call that waits for its reload has completed its intent; one that was     *)
(* refused will not have; one that edits a proxy holds its owner's row.        *)
CallFits(c, d) ==
  /\ d.at = "refresh" => Made(d.intent, d.env)
  /\ d.at = "done" /\ d.why = "environment_already_registered" => d.env \in registered /\ ~Made(d.intent, d.env)
  /\ d.at = "done" /\ d.why = "intent_expired" => intent[d.intent].state = "expired"
  /\ d.at = "write" => rowLock[d.env] = c /\ owner[d.env] = d.user
CallsFit == \A c \in Calls : CallFits(c, call[c])
ProvInv == IntentsTyped /\ IntentsFit /\ ToldFits /\ CallsFit

-----------------------------------------------------------------------------
(* Requests: what a door was given, and what was written before a refusal.     *)

OpenRequests ==
  [at: {"status", "gate", "act", "again"}, door: Doors, user: Users, token: Tokens, env: Envs \cup {None},
   named: Accounts \cup {None}, account: Accounts \cup {None}, wrote: BOOLEAN]
Denials == {"environment_not_owned", "binding_conflict", "disabled"}
Reasons == Denials \cup {"ok", "lost", "unavailable", "binding_unknown", "unsupported_platform", "not_reachable",
                         "not_found", "cleanup_grant_unavailable"}
RequestStates == {Idle} \cup OpenRequests \cup [at: {"done"}, door: Doors, wrote: BOOLEAN, why: Reasons]

RequestFits(q, in) ==
  /\ q \in OpenRequests /\ q.door # MyEnvironments => q.env \in Envs /\ q.named \in Accounts
  /\ q.at \in {"status", "gate", "act"} => ~q.wrote
  /\ q.at = "act" => /\ (q.account = None) = (q.door.gate \in {"statement", "owned", "settled"})
                     /\ q.account # None => q.account \in in
  /\ q.at = "done" /\ q.why \in Denials /\ q.wrote
       => q.door = SlowStartWrite
RequestsFit ==
  /\ request \in [Requests -> RequestStates]
  /\ \A r \in Requests : RequestFits(request[r], reached[r])
TokensFit == token \in [Tokens -> Users \cup {None}] /\ withdrawn \subseteq Tokens

(* An attempt passed the limit before the others that are under way failed.    *)
Verifying(k) == {l \in Logins : login[l].at = "verify" /\ k \in login[l].keys}
Attempts == {Idle} \cup [at: {"verify"}, keys: SUBSET (Names \cup Places)]
LoginsFit ==
  /\ login \in [Logins -> Attempts]
  /\ failures \in [Names \cup Places -> Nat]
  /\ \A k \in Names \cup Places : failures[k] + Cardinality(Verifying(k)) < MaxFailures + Cardinality(Logins)
ApiInv == RequestsFit /\ TokensFit /\ LoginsFit

-----------------------------------------------------------------------------
(* Accounts: what is known of a row that is there.                             *)

RowStates == [platform : Platforms, paused : BOOLEAN, group : Labels \cup {Nobody}]
ErrandStates ==
  {Waiting}
  \cup [at: {"inserted", "existing", "seed"}, server: Servers, account: Rows, platform: Platforms \cup {Nobody}]
  \cup [at: {"write"}, server: Servers, account: Rows, paused: BOOLEAN]
AccountsTyped ==
  /\ row \in [Rows -> RowStates \cup {Nobody}] /\ statusVersion \in 0..MaxStatus
  /\ platformCache \in [Servers -> [Rows -> Platforms \cup {Nobody}]]
  /\ paused \in [Servers -> SUBSET Rows] /\ errand \in [Handshakes -> ErrandStates]
  /\ seeded \in [Rows -> [Platforms -> 0..Cardinality(Handshakes)]] /\ declared \in [Rows -> SUBSET Platforms]

(* A request that made a row is the only one to seed it, and has not yet.      *)
Makes(c, a) == errand[c].at \in {"inserted", "seed"} /\ errand[c].account = a
ErrandFits(c, d) ==
  /\ d.at \in {"inserted", "existing", "seed"} => d.account \in Here
  /\ d.at \in {"inserted", "seed"} =>
       /\ row[d.account].platform = Stored(d.platform)
       /\ d.platform # Nobody => d.platform \in declared[d.account]
       /\ \A p \in Platforms : seeded[d.account][p] = 0
  /\ d.at = "seed" => d.platform # Nobody
ErrandsFit ==
  /\ \A c \in Handshakes : ErrandFits(c, errand[c])
  /\ \A a \in Rows : \A c, d \in Handshakes : Makes(c, a) /\ Makes(d, a) => c = d
RostersFit ==
  \A x \in rosters : /\ x.cursor \in 0..statusVersion
                     /\ x.cursor = statusVersion => x.accounts = Roster
AccInv == AccountsTyped /\ ErrandsFit /\ PlatformIsTheRows /\ SeededOnce /\ RostersFit /\ CursorNamesOneRoster

CustomersInv == EnvInv /\ ProvInv /\ ApiInv /\ AccInv

-----------------------------------------------------------------------------
(* What the invariant of the environments says for each of them.               *)

LEMMA NoneIsNobody ==
  /\ None \notin Users /\ None \notin Envs /\ None \notin Accounts /\ None \notin Modes
  /\ None # "legacy" /\ None # "set"
  /\ MaxVersion \in Nat /\ Poller \in Tasks
BY EnvironmentsAssumption, PollerIsATask

LEMMA EnvTypes == EnvInv => EnvTypeOK
BY DEF EnvInv, TablesFit, MarksFit, TasksFit, EnvTypeOK, TaskStates, Idle, Since

LEMMA EnvStarts == EnvInit => EnvInv
<1> SUFFICES ASSUME EnvInit PROVE EnvInv OBVIOUS
<1>1. TablesFit BY NoneIsNobody DEF EnvInit, TablesFit
<1>2. MarksFit BY DEF EnvInit, MarksFit, Since
<1>3. TasksFit
  <2>1. Unbound \in Copies BY DEF Unbound, Copies
  <2> QED BY <2>1, NoneIsNobody DEF EnvInit, TasksFit, TaskStates, Idle
<1> QED BY <1>1, <1>2, <1>3 DEF EnvInv

LEMMA CopyShape == ASSUME EnvInv, NEW a \in Accounts PROVE CopyOf(a) \in Copies
<1> DEFINE on == BoundTo(a) \cap active
<1>1. on \subseteq Envs BY DEF EnvInv, TablesFit, BoundTo
<1>2. CASE on = {} BY <1>2 DEF CopyOf, Unbound, Copies
<1>3. CASE on # {} /\ Cardinality(on) > 1 BY <1>3 DEF CopyOf, Ambiguous, Copies
<1>4. CASE on # {} /\ ~(Cardinality(on) > 1)
  <2> DEFINE e == CHOOSE x \in on : TRUE
  <2>1. e \in Envs BY <1>4, <1>1
  <2>2. slowStart[e].since \in Since BY <2>1 DEF EnvInv, MarksFit
  <2>3. CopyOf(a) = [env |-> e, since |-> slowStart[e].since, clash |-> FALSE] BY <1>4 DEF CopyOf
  <2> QED BY <2>1, <2>2, <2>3 DEF Copies, Since
<1> QED BY <1>2, <1>3, <1>4

(* A task is changed and all others are as they were.                          *)
LEMMA TaskMoves ==
  ASSUME EnvInv, NEW t \in Tasks, NEW d \in TaskStates, task' = [task EXCEPT ![t] = d],
         version' \in 0..MaxVersion, version <= version', recorded' \in 0..version',
         d.at \in {"query", "assign"} => d.seen <= version', copy' \in [Accounts -> Copies]
  PROVE  TasksFit'
<1>1. version \in Nat /\ version' \in Nat /\ task \in [Tasks -> TaskStates] BY NoneIsNobody DEF EnvInv, TasksFit
<1>2. task' \in [Tasks -> TaskStates] /\ \A s \in Tasks : task'[s] = IF s = t THEN d ELSE task[s] BY <1>1
<1>3. ASSUME NEW s \in Tasks, task'[s].at \in {"query", "assign"} PROVE task'[s].seen <= version'
  <2>1. CASE s = t BY <2>1, <1>2, <1>3
  <2>2. CASE s # t
    <3>1. task'[s] = task[s] BY <2>2, <1>2
    <3>2. task[s].seen <= version BY <3>1, <1>3 DEF EnvInv, TasksFit
    <3>3. task[s].seen \in Nat BY <1>1, <1>3, <3>1 DEF TaskStates, Idle
    <3> QED BY <3>1, <3>2, <3>3, <1>1
  <2> QED BY <2>1, <2>2
<1> QED BY <1>2, <1>3 DEF TasksFit

LEMMA TaskAlone ==
  ASSUME EnvInv, NEW t \in Tasks, NEW d \in TaskStates, task' = [task EXCEPT ![t] = d],
         UNCHANGED <<version, recorded, copy>>, d.at \in {"query", "assign"} => d.seen <= version
  PROVE  TasksFit'
<1>1. version \in 0..MaxVersion /\ recorded \in 0..version /\ copy \in [Accounts -> Copies] BY DEF EnvInv, TasksFit
<1>2. version' \in 0..MaxVersion /\ recorded' \in 0..version' /\ copy' \in [Accounts -> Copies] BY <1>1
<1>3. version <= version' BY <1>1, NoneIsNobody
<1>4. d.at \in {"query", "assign"} => d.seen <= version' OBVIOUS
<1> QED BY <1>2, <1>3, <1>4, TaskMoves

LEMMA TasksStay == TasksFit /\ UNCHANGED <<version, recorded, task, copy>> => TasksFit'
BY DEF TasksFit

LEMMA FirstRowFits ==
  ASSUME TablesFit, NEW e \in Envs, FirstRow(e), UNCHANGED <<enabled, owner, known>>,
         account' \in [Envs -> Accounts \cup {None}]
  PROVE  TablesFit' /\ registered \subseteq registered'
BY DEF TablesFit, FirstRow

(* What follows a write.                                                       *)
LEMMA BumpFits ==
  ASSUME EnvInv, NEW t \in Tasks, Bump(t), UNCHANGED <<copy, recorded>>
  PROVE  TasksFit'
<1>1. version \in 0..MaxVersion /\ recorded \in 0..version /\ copy \in [Accounts -> Copies] BY DEF EnvInv, TasksFit
<1>2. version' \in 0..MaxVersion /\ version <= version' /\ recorded' \in 0..version'
  BY <1>1, NoneIsNobody DEF Bump
<1>3. [at |-> "query", seen |-> 0] \in TaskStates BY DEF TaskStates
<1>4. 0 <= version' BY <1>2, NoneIsNobody
<1> QED BY <1>1, <1>2, <1>3, <1>4, TaskMoves DEF Bump

-----------------------------------------------------------------------------
(* The steps of reports, of copies, of the console and of the switches.        *)

(* A step that leaves environments registered.                                 *)
Keeps == EnvInv' /\ registered \subseteq registered'

LEMMA OnlyTasks ==
  ASSUME EnvInv, TasksFit',
         UNCHANGED <<enabled, owner, registered, account, active, known, commentMode, slowStart>>
  PROVE  Keeps
BY DEF EnvInv, TablesFit, MarksFit, Keeps

LEMMA OnlyTables ==
  ASSUME EnvInv, TablesFit', registered \subseteq registered',
         UNCHANGED <<commentMode, slowStart, version, task, copy, recorded>>
  PROVE  Keeps
BY TasksStay DEF EnvInv, MarksFit, Keeps

LEMMA OnlyMarks ==
  ASSUME EnvInv, MarksFit', TasksFit',
         UNCHANGED <<enabled, owner, registered, account, active, known>>
  PROVE  Keeps
BY DEF EnvInv, TablesFit, Keeps

LEMMA TaskNow ==
  ASSUME EnvInv, NEW t \in Tasks
  PROVE  /\ task[t] \in TaskStates
         /\ task[t].at = "gate" => task[t].env \in Envs /\ task[t].account \in Accounts
         /\ task[t].at = "upsert" => task[t].env \in Envs /\ task[t].account \in Accounts \cup {None}
         /\ task[t].at \in {"query", "assign"} => task[t].seen \in 0..version
         /\ task[t].at = "assign" => task[t].copy \in [Accounts -> Copies]
         /\ task[t].at = "mode" => task[t].env \in Envs /\ task[t].mode \in Modes
         /\ version \in 0..MaxVersion /\ recorded \in 0..version /\ copy \in [Accounts -> Copies]
<1>1. task[t] \in TaskStates BY DEF EnvInv, TasksFit
<1>2. task[t].at \in {"query", "assign"} => task[t].seen \in Nat /\ task[t].seen <= version
  BY <1>1 DEF EnvInv, TasksFit, TaskStates, Idle
<1>3. version \in 0..MaxVersion /\ recorded \in 0..version /\ copy \in [Accounts -> Copies] BY DEF EnvInv, TasksFit
<1>4. task[t].at \in {"query", "assign"} => task[t].seen \in 0..version BY <1>2, <1>3
<1> QED BY <1>1, <1>3, <1>4 DEF TaskStates, Idle

LEMMA ReportingFits == EnvInv /\ Reporting => Keeps
<1> SUFFICES ASSUME EnvInv, Reporting PROVE Keeps OBVIOUS
<1>0. TablesFit BY DEF EnvInv
<1>1. ASSUME NEW e \in Envs, RegisterUnbound(e) PROVE Keeps
  <2>1. TablesFit' /\ registered \subseteq registered' BY <1>0, <1>1, FirstRowFits DEF RegisterUnbound, TablesFit
  <2> QED BY <2>1, <1>1, OnlyTables DEF RegisterUnbound
<1>2. ASSUME NEW e \in Envs, LeaveActive(e) PROVE Keeps
  <2>1. TablesFit' /\ registered \subseteq registered' BY <1>0, <1>2 DEF LeaveActive, TablesFit
  <2> QED BY <2>1, <1>2, OnlyTables DEF LeaveActive
<1>3. ASSUME NEW t \in Tasks, NEW e \in Envs, NEW a \in Accounts, Report(t, e, a) PROVE Keeps
  <2>1. [at |-> "gate", env |-> e, account |-> a] \in TaskStates BY DEF TaskStates
  <2> DEFINE d == [at |-> "gate", env |-> e, account |-> a]
  <2>3. task' = [task EXCEPT ![t] = d] /\ d.at = "gate" /\ d \in TaskStates BY <2>1, <1>3 DEF Report
  <2>4. UNCHANGED <<version, recorded, copy>> BY <1>3 DEF Report
  <2> HIDE DEF d
  <2>2. TasksFit' BY <2>3, <2>4, TaskAlone
  <2> QED BY <2>2, <1>3, OnlyTasks DEF Report
<1>4. ASSUME NEW t \in Tasks, GateBinding(t) PROVE Keeps
  <2> DEFINE d == [at |-> "upsert", env |-> task[t].env,
                   account |-> IF BindingConflicts(task[t].env, task[t].account) THEN None ELSE task[t].account]
  <2>1. d \in TaskStates BY <1>4, TaskNow DEF GateBinding, TaskStates
  <2>2. task' = [task EXCEPT ![t] = d] /\ d.at = "upsert" BY <1>4 DEF GateBinding
  <2>3. UNCHANGED <<enabled, owner, registered, account, active, known, commentMode, slowStart, version, copy, recorded>>
    BY <1>4 DEF GateBinding
  <2> HIDE DEF d
  <2>4. TasksFit' BY <2>1, <2>2, <2>3, TaskAlone
  <2> QED BY <2>3, <2>4, OnlyTasks
<1>5. ASSUME NEW t \in Tasks, UpsertEnvironment(t) PROVE Keeps
  <2>1. task[t].env \in Envs /\ task[t].account \in Accounts \cup {None} BY <1>5, TaskNow DEF UpsertEnvironment
  <2>2. account' \in [Envs -> Accounts \cup {None}] BY <2>1, <1>0, <1>5 DEF UpsertEnvironment, TablesFit
  <2>3. TablesFit' /\ registered \subseteq registered'
    BY <2>1, <2>2, <1>0, <1>5, FirstRowFits DEF UpsertEnvironment
  <2>4. TasksFit' BY <1>5, BumpFits DEF UpsertEnvironment
  <2>5. MarksFit' BY <1>5 DEF UpsertEnvironment, MarksFit, EnvInv
  <2> QED BY <2>3, <2>4, <2>5 DEF EnvInv, Keeps
<1>6. ASSUME NEW a \in Accounts, AccountAppears(a) PROVE Keeps
  <2>1. TablesFit' /\ registered \subseteq registered' BY <1>0, <1>6 DEF AccountAppears, TablesFit
  <2> QED BY <2>1, <1>6, OnlyTables DEF AccountAppears
<1> QED BY <1>1, <1>2, <1>3, <1>4, <1>5, <1>6 DEF Reporting

LEMMA CopyingFits == EnvInv /\ Copying => Keeps
<1> SUFFICES ASSUME EnvInv, Copying PROVE Keeps OBVIOUS
<1>1. ASSUME Poll PROVE Keeps
  <2>1. version \in 0..MaxVersion /\ recorded \in 0..version /\ copy \in [Accounts -> Copies]
    BY NoneIsNobody, TaskNow
  <2>2. [at |-> "query", seen |-> version] \in TaskStates BY <2>1 DEF TaskStates
  <2> DEFINE d == [at |-> "query", seen |-> version]
  <2>4. task' = [task EXCEPT ![Poller] = d] /\ d \in TaskStates /\ d.seen <= version
    BY <2>1, <2>2, <1>1, NoneIsNobody DEF Poll
  <2>5. UNCHANGED <<version, recorded, copy>> BY <1>1 DEF Poll
  <2> HIDE DEF d
  <2>3. TasksFit' BY <2>4, <2>5, NoneIsNobody, TaskAlone
  <2> QED BY <2>3, <1>1, OnlyTasks DEF Poll
<1>2. ASSUME NEW t \in Tasks, QueryCopy(t) PROVE Keeps
  <2> DEFINE d == [at |-> "assign", copy |-> CopyNow, seen |-> task[t].seen]
  <2>1. CopyNow \in [Accounts -> Copies] BY CopyShape DEF CopyNow
  <2>2. task[t].seen \in 0..version /\ version \in 0..MaxVersion /\ recorded \in 0..version
        /\ copy \in [Accounts -> Copies]
    BY <1>2, TaskNow DEF QueryCopy
  <2>3. d \in TaskStates /\ d.seen <= version BY <2>1, <2>2 DEF TaskStates
  <2>5. task' = [task EXCEPT ![t] = d] /\ UNCHANGED <<version, recorded, copy>> BY <1>2 DEF QueryCopy
  <2> HIDE DEF d
  <2>4. TasksFit' BY <2>3, <2>5, TaskAlone
  <2> QED BY <2>4, <1>2, OnlyTasks DEF QueryCopy
<1>3. ASSUME NEW t \in Tasks, AssignCopy(t) PROVE Keeps
  <2>1. /\ task[t].seen \in 0..version /\ task[t].copy \in [Accounts -> Copies]
        /\ version \in 0..MaxVersion /\ recorded \in 0..version
    BY <1>3, TaskNow DEF AssignCopy
  <2>2. recorded' \in 0..version' /\ copy' \in [Accounts -> Copies] BY <2>1, <1>3 DEF AssignCopy, Seen
  <2>3. Idle \in TaskStates /\ Idle.at = "idle" BY DEF TaskStates, Idle
  <2>4. task' = [task EXCEPT ![t] = Idle] /\ version' = version BY <1>3 DEF AssignCopy
  <2>6. version' \in 0..MaxVersion /\ version <= version' BY <2>1, <2>4, NoneIsNobody
  <2>5. TasksFit' BY <2>2, <2>3, <2>4, <2>6, TaskMoves
  <2> QED BY <2>5, <1>3, OnlyTasks DEF AssignCopy
<1>4. ASSUME NEW t \in Tasks, QueryFails(t) PROVE Keeps
  <2>1. Idle \in TaskStates /\ Idle.at = "idle" BY DEF TaskStates, Idle
  <2>2. task' = [task EXCEPT ![t] = Idle] /\ UNCHANGED <<version, recorded, copy>> BY <1>4 DEF QueryFails
  <2>3. TasksFit' BY <2>1, <2>2, TaskAlone
  <2> QED BY <2>3, <1>4, OnlyTasks DEF QueryFails
<1> QED BY <1>1, <1>2, <1>3, <1>4 DEF Copying

LEMMA AssigningFits == EnvInv /\ Assigning => Keeps
<1> SUFFICES ASSUME EnvInv, Assigning PROVE Keeps OBVIOUS
<1>0. TablesFit BY DEF EnvInv
<1>1. ASSUME NEW u \in Users, DisableUser(u) PROVE Keeps
  <2>1. TablesFit' /\ registered \subseteq registered' BY <1>0, <1>1 DEF DisableUser, TablesFit
  <2> QED BY <2>1, <1>1, OnlyTables DEF DisableUser
<1>2. ASSUME NEW u \in Users, EnableUser(u) PROVE Keeps
  <2>1. TablesFit' /\ registered \subseteq registered' BY <1>0, <1>2 DEF EnableUser, TablesFit
  <2> QED BY <2>1, <1>2, OnlyTables DEF EnableUser
<1>3. ASSUME NEW u \in Users, NEW keep \in SUBSET Envs, SetScope(u, keep) PROVE Keeps
  <2>1. keep \subseteq registered BY <1>3 DEF SetScope, Assignable
  <2>2. TablesFit' /\ registered \subseteq registered' BY <2>1, <1>0, <1>3 DEF SetScope, TablesFit
  <2> QED BY <2>2, <1>3, OnlyTables DEF SetScope
<1> QED BY <1>1, <1>2, <1>3 DEF Assigning

LEMMA SwitchedShape ==
  ASSUME MarksFit, NEW e \in Envs, NEW on \in BOOLEAN
  PROVE  Switched(e, on) \in [initialized : BOOLEAN, since : Since]
BY DEF MarksFit, Switched, Since

LEMMA SwitchingFits == EnvInv /\ Switching => Keeps
<1> SUFFICES ASSUME EnvInv, Switching PROVE Keeps OBVIOUS
<1>0. MarksFit BY DEF EnvInv
<1>1. ASSUME NEW t \in Tasks, NEW e \in Envs, NEW u \in Users \cup {None}, NEW on \in BOOLEAN,
             SetSlowStart(t, e, u, on)
      PROVE  Keeps
  <2>1. MarksFit' BY <1>0, <1>1, SwitchedShape DEF SetSlowStart, MarksFit
  <2>2. TasksFit' BY <1>1, BumpFits DEF SetSlowStart
  <2> QED BY <2>1, <2>2, <1>1, OnlyMarks DEF SetSlowStart
<1>2. ASSUME NEW t \in Tasks, Migrate(t) PROVE Keeps
  <2>1. MarksFit'
    <3>1. commentMode' = commentMode BY <1>2 DEF Migrate
    <3>2. slowStart' \in [Envs -> [initialized : BOOLEAN, since : Since]]
      BY <1>0, <1>2 DEF Migrate, MarksFit, Since
    <3> QED BY <3>1, <3>2, <1>0 DEF MarksFit
  <2>2. TasksFit' BY <1>2, BumpFits DEF Migrate
  <2> QED BY <2>1, <2>2, <1>2, OnlyMarks DEF Migrate
<1> QED BY <1>1, <1>2 DEF Switching

LEMMA ModingFits == EnvInv /\ Moding => Keeps
<1> SUFFICES ASSUME EnvInv, Moding PROVE Keeps OBVIOUS
<1>0. MarksFit /\ TasksFit BY DEF EnvInv
<1>1. ASSUME NEW e \in Envs, NEW m \in Modes, WriteMode(e, m), UNCHANGED slowStart PROVE MarksFit'
  BY <1>0, <1>1 DEF WriteMode, MarksFit
<1>2. ASSUME NEW u \in Users, NEW e \in Envs, NEW m \in Modes, SetModeAsCustomer(u, e, m) PROVE Keeps
  <2>1. MarksFit' BY <1>1, <1>2 DEF SetModeAsCustomer, SetOwnedMode
  <2>2. TasksFit' BY <1>0, <1>2, TasksStay DEF SetModeAsCustomer
  <2> QED BY <2>1, <2>2, <1>2, OnlyMarks DEF SetModeAsCustomer
<1>3. ASSUME NEW e \in Envs, NEW m \in Modes, SetModeAsConsole(e, m) PROVE Keeps
  <2>1. MarksFit' BY <1>1, <1>3 DEF SetModeAsConsole
  <2>2. TasksFit' BY <1>0, <1>3, TasksStay DEF SetModeAsConsole
  <2> QED BY <2>1, <2>2, <1>3, OnlyMarks DEF SetModeAsConsole
<1>4. ASSUME NEW t \in Tasks, NEW a \in Accounts, NEW m \in Modes, ReadModeTarget(t, a, m) PROVE Keeps
  <2> DEFINE e == CHOOSE x \in BoundTo(a) : TRUE
             d == [at |-> "mode", env |-> e, mode |-> m]
  <2>1. BoundTo(a) # {} BY <1>4, FS_EmptySet DEF ReadModeTarget
  <2>2. e \in BoundTo(a) BY <2>1
  <2>3. e \in Envs BY <2>2 DEF BoundTo, EnvInv, TablesFit
  <2>4. task' = [task EXCEPT ![t] = d] BY <1>4 DEF ReadModeTarget
  <2>5. d \in TaskStates /\ d.at = "mode" BY <2>3 DEF TaskStates
  <2>6. UNCHANGED <<enabled, owner, registered, account, active, known, commentMode, slowStart, version, copy, recorded>>
    BY <1>4 DEF ReadModeTarget
  <2> HIDE DEF d
  <2>7. TasksFit' BY <2>4, <2>5, <2>6, TaskAlone
  <2> QED BY <2>6, <2>7, OnlyTasks
<1>5. ASSUME NEW t \in Tasks, WriteModeTarget(t) PROVE Keeps
  <2>1. task[t].env \in Envs /\ task[t].mode \in Modes BY <1>5, TaskNow DEF WriteModeTarget
  <2>2. MarksFit' BY <2>1, <1>1, <1>5 DEF WriteModeTarget
  <2>3. Idle \in TaskStates /\ Idle.at = "idle" BY DEF TaskStates, Idle
  <2>5. task' = [task EXCEPT ![t] = Idle] /\ UNCHANGED <<version, recorded, copy>> BY <1>5 DEF WriteModeTarget
  <2>4. TasksFit' BY <2>3, <2>5, TaskAlone
  <2> QED BY <2>2, <2>4, <1>5, OnlyMarks DEF WriteModeTarget
<1> QED BY <1>2, <1>3, <1>4, <1>5 DEF Moding

LEMMA EnvironmentStep == EnvInv /\ EnvNext => Keeps
BY ReportingFits, CopyingFits, AssigningFits, SwitchingFits, ModingFits DEF EnvNext

-----------------------------------------------------------------------------
(* Intents and proxies.                                                        *)

LEMMA Provisions ==
  /\ None \notin Calls /\ None \notin BaseModes /\ None \notin Authorities
  /\ Questions \subseteq [mode : BaseModes \cup {"slow_start"}, proxy : Proxies]
  /\ MaxRevision \in Nat \ {0}
<1>1. Authorities \subseteq [revision : Nat, value : Proxies] BY DEF Authorities
<1> QED BY <1>1, ProvisioningAssumption

LEMMA ProvTypes == ProvInv => ProvTypeOK
<1> SUFFICES ASSUME ProvInv PROVE ProvTypeOK OBVIOUS
<1>1. IntentsTyped BY DEF ProvInv
<1> QED BY <1>1 DEF IntentsTyped, ProvTypeOK, IntentStates, Authorities

LEMMA ProvisionParts == EnvInv /\ ProvInv => ProvisionedOnce
<1> SUFFICES ASSUME EnvInv, ProvInv PROVE ProvisionedOnce OBVIOUS
<1>1. IntentsTyped /\ IntentsFit /\ ToldFits /\ CallsFit BY DEF ProvInv
<1>2. ASSUME NEW i \in Intents PROVE intent[i].env \in Envs \cup {None} BY <1>1 DEF IntentsTyped, IntentStates
<1>3. OneEnvironmentPerIntent
  <2>1. \A i, j \in Intents : intent[i].env # None /\ intent[i].env = intent[j].env => i = j
    BY <1>1, <1>2 DEF IntentsFit, Made
  <2>2. \A s \in told : s.intent \in Intents /\ s.env \in Envs BY <1>1 DEF IntentsTyped
  <2>3. \A s \in told : intent[s.intent].env = s.env BY <1>1 DEF ToldFits, Made
  <2>4. \A s \in told : intent[s.intent].state = "completed"
    BY <1>1, <2>2, <2>3, NoneIsNobody DEF IntentsTyped
  <2>5. \A e \in Envs : (\E i \in Intents : intent[i].env = e) = (policy[e] # None) BY <1>1 DEF IntentsFit, Made
  <2> QED BY <2>1, <2>3, <2>4, <2>5 DEF OneEnvironmentPerIntent
<1>4. RetryRecognised
  <2> SUFFICES ASSUME NEW c \in Calls, call[c].at = "done",
                      call[c].why \in {"environment_already_registered", "intent_expired"}
               PROVE  intent[call[c].intent].env # call[c].env
    BY DEF RetryRecognised
  <2>1. call[c].intent \in Intents /\ call[c].env \in Envs
    BY <1>1 DEF IntentsTyped, CallStates, Ends, Idle
  <2>2. CallFits(c, call[c]) BY <1>1 DEF CallsFit
  <2>3. CASE call[c].why = "environment_already_registered" BY <2>2, <2>3 DEF CallFits, Made
  <2>4. CASE call[c].why = "intent_expired"
    <3>1. intent[call[c].intent].state = "expired" BY <2>2, <2>4 DEF CallFits
    <3>2. intent[call[c].intent].env = None BY <1>1, <2>1, <3>1 DEF IntentsTyped
    <3> QED BY <3>2, <2>1, NoneIsNobody
  <2> QED BY <2>3, <2>4
<1>5. ToldIsLoaded BY <1>1 DEF ToldIsLoaded, ToldFits
<1> QED BY <1>3, <1>4, <1>5 DEF ProvisionedOnce

LEMMA ProvStarts == ProvInit => ProvInv
<1> SUFFICES ASSUME ProvInit PROVE ProvInv OBVIOUS
<1>1. NoIntent \in IntentStates /\ NoIntent.env = None /\ NoIntent.state = "none" BY DEF NoIntent, IntentStates
<1>2. IntentsTyped
  <2>1. Idle \in CallStates BY DEF CallStates, Idle
  <2> QED BY <1>1, <2>1 DEF ProvInit, IntentsTyped
<1>3. IntentsFit BY <1>1, NoneIsNobody DEF ProvInit, IntentsFit, Made
<1>4. ToldFits BY DEF ProvInit, ToldFits
<1>5. CallsFit BY DEF ProvInit, CallsFit, CallFits, Idle
<1> QED BY <1>2, <1>3, <1>4, <1>5 DEF ProvInv

(* What others do leaves it true, while rows stay and locked rows keep owners. *)
LEMMA ProvStays ==
  ASSUME ProvInv, UNCHANGED provVars, registered \subseteq registered', OwnersUnlocked
  PROVE  ProvInv'
<1>0. IntentsTyped /\ IntentsFit /\ ToldFits /\ CallsFit BY DEF ProvInv
<1>1. UNCHANGED <<intent, late, proxy, policy, cached, rowLock, call, told>> BY DEF provVars
<1>2. IntentsTyped' BY <1>0, <1>1 DEF IntentsTyped
<1>3. IntentsFit' BY <1>0, <1>1 DEF IntentsFit, Made
<1>4. ToldFits' BY <1>0, <1>1 DEF ToldFits, Made
<1>5. ASSUME NEW c \in Calls PROVE CallFits(c, call[c])'
  <2>1. CallFits(c, call[c]) /\ call[c] \in CallStates BY <1>0 DEF CallsFit, IntentsTyped
  <2>2. call[c].at = "write" => rowLock'[call[c].env] = c /\ owner'[call[c].env] = call[c].user
    <3> SUFFICES ASSUME call[c].at = "write" PROVE rowLock'[call[c].env] = c /\ owner'[call[c].env] = call[c].user
      OBVIOUS
    <3>1. call[c].env \in Envs BY <2>1 DEF CallStates, Idle
    <3>2. rowLock[call[c].env] = c /\ owner[call[c].env] = call[c].user BY <2>1 DEF CallFits
    <3> QED BY <3>1, <3>2, <1>1, Provisions DEF OwnersUnlocked
  <2> QED BY <1>1, <2>1, <2>2 DEF CallFits, Made
<1>6. CallsFit' BY <1>1, <1>5 DEF CallsFit
<1> QED BY <1>2, <1>3, <1>4, <1>6 DEF ProvInv

(* A call is changed; the others keep what they rest on.                       *)
LEMMA CallsHold ==
  ASSUME IntentsTyped, CallsFit, registered \subseteq registered', NEW c \in Calls, NEW d \in CallStates,
         \A i \in Intents, e \in Envs : Made(i, e) => Made(i, e)',
         \A i \in Intents, e \in Envs : e \in registered /\ ~Made(i, e) => ~Made(i, e)',
         \A i \in Intents : intent[i].state = "expired" => intent'[i].state = "expired",
         \A e \in Envs : rowLock[e] \notin {None, c} => rowLock'[e] = rowLock[e] /\ owner'[e] = owner[e],
         call' = [call EXCEPT ![c] = d], CallFits(c, d)'
  PROVE  CallsFit' /\ call' \in [Calls -> CallStates]
<1>1. call \in [Calls -> CallStates] BY DEF IntentsTyped
<1>2. call' \in [Calls -> CallStates] /\ \A b \in Calls : call'[b] = IF b = c THEN d ELSE call[b] BY <1>1
<1>3. ASSUME NEW b \in Calls PROVE CallFits(b, call[b])'
  <2>1. CASE b = c BY <2>1, <1>2
  <2>2. CASE b # c
    <3>1. call'[b] = call[b] /\ call[b] \in CallStates /\ CallFits(b, call[b]) BY <2>2, <1>1, <1>2 DEF CallsFit
    <3>2. call[b].at = "refresh" => call[b].intent \in Intents /\ call[b].env \in Envs BY <3>1 DEF CallStates, Idle
    <3>3. call[b].at = "done" /\ call[b].why \in {"environment_already_registered", "intent_expired"} =>
            call[b].intent \in Intents /\ call[b].env \in Envs
      BY <3>1 DEF CallStates, Idle, Ends
    <3>4. call[b].at = "write" => call[b].env \in Envs BY <3>1 DEF CallStates, Idle
    <3>5. call[b].at = "refresh" => Made(call[b].intent, call[b].env)' BY <3>1, <3>2 DEF CallFits
    <3>6. call[b].at = "done" /\ call[b].why = "environment_already_registered" =>
            call[b].env \in registered' /\ ~Made(call[b].intent, call[b].env)'
      BY <3>1, <3>3 DEF CallFits
    <3>7. call[b].at = "done" /\ call[b].why = "intent_expired" => intent'[call[b].intent].state = "expired"
      BY <3>1, <3>3 DEF CallFits
    <3>8. call[b].at = "write" => rowLock'[call[b].env] = b /\ owner'[call[b].env] = call[b].user
      BY <3>1, <3>4, <2>2, Provisions DEF CallFits
    <3> QED BY <3>1, <3>5, <3>6, <3>7, <3>8 DEF CallFits, Made
  <2> QED BY <2>1, <2>2
<1> QED BY <1>2, <1>3 DEF CallsFit

(* A call is changed and the tables are as they were.                          *)
LEMMA CallAlone ==
  ASSUME EnvInv, ProvInv, NEW c \in Calls, NEW d \in CallStates, call' = [call EXCEPT ![c] = d],
         UNCHANGED <<envVars, intent, late, proxy, policy, cached, rowLock, told>>, CallFits(c, d)'
  PROVE  Keeps /\ ProvInv'
<1>0. IntentsTyped /\ IntentsFit /\ ToldFits /\ CallsFit BY DEF ProvInv
<1>1. UNCHANGED <<enabled, owner, registered, account, active, known, commentMode, slowStart, version, task,
                  copy, recorded>>
  BY DEF envVars
<1>2. Keeps BY <1>1 DEF EnvInv, TablesFit, MarksFit, TasksFit, Keeps
<1>3. CallsFit' /\ call' \in [Calls -> CallStates] BY <1>0, <1>1, CallsHold DEF Made
<1>4. IntentsTyped' BY <1>0, <1>3 DEF IntentsTyped
<1>5. IntentsFit' BY <1>0, <1>1 DEF IntentsFit, Made
<1>6. ToldFits' BY <1>0, <1>1 DEF ToldFits, Made
<1> QED BY <1>2, <1>3, <1>4, <1>5, <1>6 DEF ProvInv

LEMMA CreateIntentFits ==
  ASSUME EnvInv, ProvInv, NEW i \in Intents, NEW u \in Users, CreateIntent(i, u)
  PROVE  Keeps /\ ProvInv'
<1>0. IntentsTyped /\ IntentsFit /\ ToldFits /\ CallsFit BY DEF ProvInv
<1>1. UNCHANGED <<enabled, owner, registered, account, active, known, commentMode, slowStart, version, task,
                  copy, recorded, late, proxy, policy, cached, rowLock, call, told>>
  BY DEF CreateIntent, envVars
<1>2. Keeps BY <1>1 DEF EnvInv, TablesFit, MarksFit, TasksFit, Keeps
<1>3. intent' \in [Intents -> IntentStates] BY <1>0 DEF CreateIntent, IntentsTyped, IntentStates
<1>4. ASSUME NEW j \in Intents
      PROVE  /\ intent'[j].env = intent[j].env
             /\ (intent'[j].state = "completed") = (intent'[j].env # None)
             /\ intent[j].state = "expired" => intent'[j].state = "expired"
  <2>1. intent[j] \in IntentStates /\ (intent[j].state = "completed") = (intent[j].env # None)
    BY <1>0 DEF IntentsTyped
  <2>2. CASE j = i BY <2>1, <2>2 DEF CreateIntent, NoIntent
  <2>3. CASE j # i BY <2>1, <2>3 DEF CreateIntent, IntentStates
  <2> QED BY <2>2, <2>3
<1>5. IntentsTyped' BY <1>0, <1>1, <1>3, <1>4 DEF IntentsTyped
<1>6. \A j \in Intents, e \in Envs : Made(j, e)' = Made(j, e) BY <1>4 DEF Made
<1>7. IntentsFit'
  <2>1. UNCHANGED <<policy, proxy, registered>> BY <1>1
  <2>2. \A j, k \in Intents : \A x \in Envs : Made(j, x)' /\ Made(k, x)' => j = k BY <1>0, <1>6 DEF IntentsFit
  <2>3. ASSUME NEW x \in Envs PROVE (\E j \in Intents : Made(j, x)') = (policy'[x] # None)
    BY <1>0, <2>1, <1>6 DEF IntentsFit
  <2>4. \A x \in Envs : policy'[x] # None \/ proxy'[x] # None => x \in registered' BY <1>0, <2>1 DEF IntentsFit
  <2> QED BY <2>2, <2>3, <2>4 DEF IntentsFit
<1>8. ToldFits'
  <2>1. \A s \in told : s.intent \in Intents /\ s.env \in Envs /\ intent[s.intent].env = s.env /\ s.env \in cached
    BY <1>0 DEF ToldFits, IntentsTyped, Made
  <2>2. \A s \in told : intent'[s.intent].env = s.env BY <1>4, <2>1
  <2> QED BY <1>1, <2>1, <2>2 DEF ToldFits, Made
<1>9. ASSUME NEW c \in Calls PROVE CallFits(c, call[c])'
  <2>1. call[c] \in CallStates /\ CallFits(c, call[c]) BY <1>0 DEF IntentsTyped, CallsFit
  <2>2. call[c].at = "refresh" \/ (call[c].at = "done" /\ call[c].why \in {"environment_already_registered", "intent_expired"}) =>
          call[c].intent \in Intents /\ call[c].env \in Envs
    BY <2>1 DEF CallStates, Idle, Ends
  <2>3. call[c].at = "refresh" => Made(call[c].intent, call[c].env)' BY <2>1, <2>2, <1>1, <1>6 DEF CallFits, Made
  <2>4. call[c].at = "done" /\ call[c].why = "environment_already_registered" =>
          call[c].env \in registered' /\ ~Made(call[c].intent, call[c].env)'
    BY <2>1, <2>2, <1>1, <1>6 DEF CallFits, Made
  <2>5. call[c].at = "done" /\ call[c].why = "intent_expired" => intent'[call[c].intent].state = "expired"
    BY <2>1, <2>2, <1>4 DEF CallFits
  <2> QED BY <1>1, <2>1, <2>3, <2>4, <2>5 DEF CallFits, Made
<1>10. CallsFit' BY <1>9 DEF CallsFit
<1> QED BY <1>2, <1>5, <1>7, <1>8, <1>10 DEF ProvInv

LEMMA TimePassesFits ==
  ASSUME EnvInv, ProvInv, NEW i \in Intents, TimePasses(i)
  PROVE  Keeps /\ ProvInv'
<1>1. UNCHANGED <<enabled, owner, registered, account, active, known, commentMode, slowStart, version, task,
                  copy, recorded, intent, proxy, policy, cached, rowLock, call, told>>
  BY DEF TimePasses, envVars
<1>2. Keeps BY <1>1 DEF EnvInv, TablesFit, MarksFit, TasksFit, Keeps
<1>3. IntentsTyped' BY <1>1 DEF ProvInv, IntentsTyped, TimePasses
<1>4. IntentsFit' /\ ToldFits' BY <1>1 DEF ProvInv, IntentsFit, ToldFits, Made
<1>5. CallsFit' BY <1>1 DEF ProvInv, CallsFit, CallFits, Made
<1> QED BY <1>2, <1>3, <1>4, <1>5 DEF ProvInv

(* A refused completion may end the time of its intent.                        *)
LEMMA RefusalFits ==
  ASSUME EnvInv, ProvInv, NEW c \in Calls, NEW i \in Intents, NEW e \in Envs, NEW o \in Refusals,
         o = "environment_already_registered" => intent[i].state # "completed" /\ e \in registered,
         o = "intent_expired" => intent[i].state # "completed",
         call' = [call EXCEPT ![c] = [at |-> "done", why |-> o, intent |-> i, env |-> e]],
         intent' = IF o = "intent_expired" THEN [intent EXCEPT ![i].state = "expired"] ELSE intent,
         UNCHANGED <<envVars, late, proxy, policy, cached, rowLock, told>>
  PROVE  Keeps /\ ProvInv'
<1>0. IntentsTyped /\ IntentsFit /\ ToldFits /\ CallsFit BY DEF ProvInv
<1> DEFINE d == [at |-> "done", why |-> o, intent |-> i, env |-> e]
<1>1. UNCHANGED <<enabled, owner, registered, account, active, known, commentMode, slowStart, version, task,
                  copy, recorded>>
  BY DEF envVars
<1>2. Keeps BY <1>1 DEF EnvInv, TablesFit, MarksFit, TasksFit, Keeps
<1>3. d \in CallStates BY DEF CallStates
<1>4. intent \in [Intents -> IntentStates] /\ intent' \in [Intents -> IntentStates]
  BY <1>0 DEF IntentsTyped, IntentStates
<1>5. ASSUME NEW j \in Intents
      PROVE  /\ intent'[j].env = intent[j].env
             /\ (intent'[j].state = "completed") = (intent[j].state = "completed")
             /\ intent[j].state = "expired" => intent'[j].state = "expired"
  BY <1>4 DEF IntentStates
<1>6. \A j \in Intents, x \in Envs : Made(j, x)' = Made(j, x) BY <1>5 DEF Made
<1>7. CallFits(c, d)'
  <2>1. o = "environment_already_registered" => e \in registered' /\ ~Made(i, e)'
    BY <1>0, <1>1, <1>5, NoneIsNobody DEF Made, IntentsTyped
  <2>2. o = "intent_expired" => intent'[i].state = "expired" BY <1>4
  <2> QED BY <2>1, <2>2 DEF CallFits, Made
<1>8. call' = [call EXCEPT ![c] = d] OBVIOUS
<1> HIDE DEF d
<1>9. CallsFit' /\ call' \in [Calls -> CallStates] BY <1>0, <1>1, <1>3, <1>5, <1>6, <1>7, <1>8, CallsHold
<1>10. IntentsTyped' BY <1>0, <1>4, <1>5, <1>9 DEF IntentsTyped
<1>11. IntentsFit'
  <2>1. UNCHANGED <<policy, proxy, registered>> BY <1>1
  <2>2. \A j, k \in Intents : \A x \in Envs : Made(j, x)' /\ Made(k, x)' => j = k BY <1>0, <1>6 DEF IntentsFit
  <2>3. ASSUME NEW x \in Envs PROVE (\E j \in Intents : Made(j, x)') = (policy'[x] # None)
    BY <1>0, <2>1, <1>6 DEF IntentsFit
  <2>4. \A x \in Envs : policy'[x] # None \/ proxy'[x] # None => x \in registered' BY <1>0, <2>1 DEF IntentsFit
  <2> QED BY <2>2, <2>3, <2>4 DEF IntentsFit
<1>12. ToldFits' BY <1>0, <1>6 DEF ToldFits, IntentsTyped, Made
<1> QED BY <1>2, <1>9, <1>10, <1>11, <1>12 DEF ProvInv

LEMMA Outcomes ==
  ASSUME NEW i \in Intents, NEW u \in Users, NEW e \in Envs, NEW q \in Questions
  PROVE  LET o == Outcome(i, u, e, q) IN
         /\ o \in Refusals \cup {"new", "again"}
         /\ o = "new" => intent[i].state \notin {"completed", "expired"} /\ e \notin registered
         /\ o = "again" => Made(i, e)
         /\ o = "environment_already_registered" => intent[i].state # "completed" /\ e \in registered
         /\ o = "intent_expired" => intent[i].state # "completed"
<1> DEFINE o == Outcome(i, u, e, q)
           ag == Again(i, u, e, q)
<1>1. /\ ag \in {"intent_target_mismatch", "proxy_authority_mismatch", "env_already_assigned",
                 "intent_operation_mode_mismatch", "again"}
      /\ ag = "again" => Made(i, e)
  BY DEF Again, Made
<1>2. CASE u \notin enabled BY <1>2 DEF Outcome, Refusals
<1>3. CASE u \in enabled /\ intent[i].user # u BY <1>3 DEF Outcome, Refusals
<1>4. CASE u \in enabled /\ intent[i].user = u /\ intent[i].state = "completed"
  <2>1. o = ag BY <1>4 DEF Outcome
  <2> HIDE DEF ag
  <2> QED BY <1>1, <2>1 DEF Refusals
<1>5. CASE u \in enabled /\ intent[i].user = u /\ intent[i].state # "completed"
           /\ (intent[i].state = "expired" \/ i \in late)
  BY <1>5 DEF Outcome, Refusals
<1>6. CASE u \in enabled /\ intent[i].user = u /\ intent[i].state # "completed"
           /\ ~(intent[i].state = "expired" \/ i \in late)
  BY <1>6 DEF Outcome, Refusals
<1> QED BY <1>2, <1>3, <1>4, <1>5, <1>6

(* One transaction: the environment, its policy, its proxy and its owner.      *)
LEMMA ProvisionFits ==
  ASSUME EnvInv, ProvInv, NEW c \in Calls, NEW i \in Intents, NEW u \in Users, NEW e \in Envs, NEW q \in Questions,
         rowLock[e] = None, intent[i].state \notin {"completed", "expired"}, e \notin registered,
         Provision(i, u, e, q), UNCHANGED told,
         call' = [call EXCEPT ![c] = [at |-> "refresh", intent |-> i, env |-> e, again |-> FALSE]]
  PROVE  Keeps /\ ProvInv'
<1>0. IntentsTyped /\ IntentsFit /\ ToldFits /\ CallsFit BY DEF ProvInv
<1>1. UNCHANGED <<enabled, account, known, commentMode, task, copy, recorded, late, cached, rowLock, told>>
  BY DEF Provision
<1>2. registered' = registered \cup {e} /\ active' = active \cup {e} BY DEF Provision, EnvironmentRows, FirstRow
<1>3. intent' = [intent EXCEPT ![i] = [state |-> "completed", user |-> u, env |-> e]] /\ owner' = [owner EXCEPT ![e] = u]
  BY DEF Provision, OwnershipRows
<1>4. q.mode \in BaseModes \cup {"slow_start"} /\ q.proxy \in Proxies BY Provisions
<1>5. policy' = [policy EXCEPT ![e] = IF q.mode = "slow_start" THEN "consumption" ELSE q.mode]
      /\ proxy' = [proxy EXCEPT ![e] = [revision |-> 1, value |-> q.proxy]]
  BY DEF Provision, PolicyRows, EnvironmentRows
<1>6. policy[e] = None /\ proxy[e] = None BY <1>0 DEF IntentsFit
<1>7. Keeps
  <2>1. TablesFit' BY <1>1, <1>2, <1>3 DEF EnvInv, TablesFit
  <2>2. MarksFit' BY <1>1 DEF EnvInv, MarksFit, Provision, PolicyRows, Since
  <2>3. /\ version \in Nat /\ version' = version + 1 /\ version' \in 0..MaxVersion /\ recorded' \in 0..version'
        /\ task \in [Tasks -> TaskStates] /\ copy \in [Accounts -> Copies]
    BY <1>1, NoneIsNobody DEF EnvInv, TasksFit, Provision, OwnershipRows
  <2>4. ASSUME NEW t \in Tasks, task[t].at \in {"query", "assign"} PROVE task[t].seen <= version'
    <3>1. task[t].seen \in 0..version BY <2>4, TaskNow
    <3> QED BY <3>1, <2>3
  <2>5. TasksFit' BY <1>1, <2>3, <2>4 DEF TasksFit
  <2> QED BY <1>2, <2>1, <2>2, <2>5 DEF EnvInv, Keeps
<1>8. intent \in [Intents -> IntentStates] /\ intent' \in [Intents -> IntentStates]
  BY <1>0, <1>3 DEF IntentsTyped, IntentStates
<1>9. ASSUME NEW j \in Intents PROVE intent'[j].env = IF j = i THEN e ELSE intent[j].env BY <1>3, <1>8
<1>10. intent[i].env = None BY <1>0 DEF IntentsTyped
<1>11. IntentsTyped'
  <2>1. ASSUME NEW j \in Intents PROVE (intent'[j].state = "completed") = (intent'[j].env # None)
    BY <1>0, <1>3, <1>8, NoneIsNobody DEF IntentsTyped
  <2>2. policy' \in [Envs -> BaseModes \cup {None}] BY <1>0, <1>4, <1>5 DEF IntentsTyped, BaseModes
  <2>3. proxy' \in [Envs -> Authorities \cup {None}]
    <3>1. [revision |-> 1, value |-> q.proxy] \in Authorities BY <1>4, Provisions DEF Authorities
    <3> QED BY <3>1, <1>0, <1>5 DEF IntentsTyped
  <2>4. cached' \subseteq {x \in Envs : policy'[x] # None} BY <1>0, <1>1, <1>5, <1>6 DEF IntentsTyped
  <2>5. call' \in [Calls -> CallStates] BY <1>0 DEF IntentsTyped, CallStates
  <2> QED BY <1>0, <1>1, <1>8, <2>1, <2>2, <2>3, <2>4, <2>5 DEF IntentsTyped
<1>12. \A j \in Intents : ~Made(j, e) BY <1>0, <1>6 DEF IntentsFit
<1>13. ASSUME NEW j \in Intents, NEW x \in Envs PROVE Made(j, x)' = (Made(j, x) \/ (j = i /\ x = e))
  BY <1>9, <1>10, <1>12, NoneIsNobody DEF Made
<1>14. IntentsFit'
  <2>1. ASSUME NEW j \in Intents, NEW k \in Intents, NEW x \in Envs, Made(j, x)', Made(k, x)' PROVE j = k
    BY <2>1, <1>0, <1>12, <1>13 DEF IntentsFit
  <2>2. ASSUME NEW x \in Envs PROVE (\E j \in Intents : Made(j, x)') = (policy'[x] # None)
    <3>1. CASE x = e
      <4>1. policy'[e] # None BY <1>0, <1>4, <1>5, Provisions DEF IntentsTyped, BaseModes
      <4> QED BY <3>1, <4>1, <1>13
    <3>2. CASE x # e
      <4>1. policy'[x] = policy[x] BY <3>2, <1>0, <1>5 DEF IntentsTyped
      <4>2. \A j \in Intents : Made(j, x)' = Made(j, x) BY <3>2, <1>13 DEF Made
      <4> QED BY <4>1, <4>2, <1>0 DEF IntentsFit
    <3> QED BY <3>1, <3>2
  <2>3. \A x \in Envs : policy'[x] # None \/ proxy'[x] # None => x \in registered'
    BY <1>0, <1>2, <1>5 DEF IntentsFit, IntentsTyped
  <2> QED BY <2>1, <2>2, <2>3 DEF IntentsFit
<1>15. ToldFits'
  <2>1. \A s \in told : s.intent \in Intents /\ s.env \in Envs BY <1>0 DEF IntentsTyped
  <2> QED BY <2>1, <1>0, <1>1, <1>13 DEF ToldFits, Made
<1>16. CallsFit'
  <2> DEFINE d == [at |-> "refresh", intent |-> i, env |-> e, again |-> FALSE]
  <2>1. d \in CallStates BY DEF CallStates
  <2>2. CallFits(c, d)' BY <1>9 DEF CallFits, Made
  <2>3. \A j \in Intents, x \in Envs : Made(j, x) => Made(j, x)' BY <1>13
  <2>4. \A j \in Intents, x \in Envs : x \in registered /\ ~Made(j, x) => ~Made(j, x)' BY <1>13
  <2>5. \A j \in Intents : intent[j].state = "expired" => intent'[j].state = "expired" BY <1>3, <1>8
  <2>6. \A x \in Envs : rowLock[x] \notin {None, c} => rowLock'[x] = rowLock[x] /\ owner'[x] = owner[x]
    BY <1>1, <1>3 DEF EnvInv, TablesFit
  <2>7. call' = [call EXCEPT ![c] = d] OBVIOUS
  <2> HIDE DEF d
  <2> QED BY <1>0, <1>2, <2>1, <2>2, <2>3, <2>4, <2>5, <2>6, <2>7, CallsHold
<1> QED BY <1>7, <1>11, <1>14, <1>15, <1>16 DEF ProvInv

LEMMA CompleteIntentFits ==
  ASSUME EnvInv, ProvInv, NEW c \in Calls, NEW i \in Intents, NEW u \in Users, NEW e \in Envs, NEW q \in Questions,
         CompleteIntent(c, i, u, e, q)
  PROVE  Keeps /\ ProvInv'
<1>0. IntentsTyped /\ IntentsFit /\ ToldFits /\ CallsFit BY DEF ProvInv
<1> DEFINE o == Outcome(i, u, e, q)
<1>1. /\ o \in Refusals \cup {"new", "again"}
      /\ o = "new" => intent[i].state \notin {"completed", "expired"} /\ e \notin registered
      /\ o = "again" => Made(i, e)
      /\ o = "environment_already_registered" => intent[i].state # "completed" /\ e \in registered
      /\ o = "intent_expired" => intent[i].state # "completed"
  BY Outcomes
<1>2. \/ /\ o = "new" /\ Provision(i, u, e, q)
         /\ call' = [call EXCEPT ![c] = [at |-> "refresh", intent |-> i, env |-> e, again |-> FALSE]]
      \/ /\ o = "again"
         /\ call' = [call EXCEPT ![c] = [at |-> "refresh", intent |-> i, env |-> e, again |-> TRUE]]
         /\ UNCHANGED <<envVars, intent, late, proxy, policy, cached, rowLock>>
      \/ /\ o \notin {"new", "again"}
         /\ call' = [call EXCEPT ![c] = [at |-> "done", why |-> o, intent |-> i, env |-> e]]
         /\ intent' = IF o = "intent_expired" THEN [intent EXCEPT ![i].state = "expired"] ELSE intent
         /\ UNCHANGED <<envVars, late, proxy, policy, cached, rowLock>>
  BY DEF CompleteIntent
<1>3. UNCHANGED told /\ rowLock[e] = None BY DEF CompleteIntent
<1> HIDE DEF o
<1>4. CASE o = "new" BY <1>4, <1>1, <1>2, <1>3, ProvisionFits
<1>5. CASE o = "again"
  <2> DEFINE d == [at |-> "refresh", intent |-> i, env |-> e, again |-> TRUE]
  <2>1. UNCHANGED <<envVars, intent, late, proxy, policy, cached, rowLock, told>> /\ call' = [call EXCEPT ![c] = d]
    BY <1>2, <1>3, <1>5
  <2>2. d \in CallStates BY DEF CallStates
  <2>3. CallFits(c, d)' BY <1>1, <1>5, <2>1 DEF CallFits, Made
  <2> HIDE DEF d
  <2> QED BY <2>1, <2>2, <2>3, CallAlone
<1>6. CASE o \notin {"new", "again"}
  <2>1. o \in Refusals /\ UNCHANGED <<envVars, late, proxy, policy, cached, rowLock, told>> BY <1>1, <1>2, <1>3, <1>6
  <2>2. /\ call' = [call EXCEPT ![c] = [at |-> "done", why |-> o, intent |-> i, env |-> e]]
        /\ intent' = IF o = "intent_expired" THEN [intent EXCEPT ![i].state = "expired"] ELSE intent
    BY <1>2, <1>6
  <2> QED BY <1>1, <2>1, <2>2, RefusalFits
<1> QED BY <1>4, <1>5, <1>6

LEMMA ReloadFits ==
  ASSUME EnvInv, ProvInv, NEW c \in Calls, RefreshAndAnswer(c) \/ RefreshOrFail(c) \/ AnswerLost(c)
  PROVE  Keeps /\ ProvInv'
<1>0. IntentsTyped /\ IntentsFit /\ ToldFits /\ CallsFit BY DEF ProvInv
<1>1. Done("ok") \in CallStates /\ Done("lost") \in CallStates /\ Done("operation_policy_refresh_unavailable") \in CallStates
  BY DEF Done, CallStates, Ends
<1>2. CallFits(c, Done("ok"))' /\ CallFits(c, Done("lost"))' /\ CallFits(c, Done("operation_policy_refresh_unavailable"))'
  BY DEF CallFits, Done
<1>3. CASE RefreshOrFail(c)
  <2> DEFINE d == Done("operation_policy_refresh_unavailable")
  <2>1. call' = [call EXCEPT ![c] = d] /\ UNCHANGED <<envVars, intent, late, proxy, policy, cached, rowLock, told>>
    BY <1>3 DEF RefreshOrFail, RefreshFails, Finish
  <2> HIDE DEF d
  <2> QED BY <1>1, <1>2, <2>1, CallAlone DEF d
<1>4. CASE AnswerLost(c)
  <2> DEFINE d == Done("lost")
  <2>1. call' = [call EXCEPT ![c] = d] /\ UNCHANGED <<envVars, intent, late, proxy, policy, cached, rowLock, told>>
    BY <1>4 DEF AnswerLost, Finish
  <2> HIDE DEF d
  <2> QED BY <1>1, <1>2, <2>1, CallAlone DEF d
<1>5. CASE RefreshAndAnswer(c)
  <2>1. UNCHANGED <<enabled, owner, registered, account, active, known, commentMode, slowStart, version, task,
                    copy, recorded, intent, late, proxy, policy, rowLock>>
    BY <1>5 DEF RefreshAndAnswer, envVars
  <2>2. /\ cached' = {e \in Envs : policy[e] # None} /\ call' = [call EXCEPT ![c] = Done("ok")]
        /\ told' = told \cup {[intent |-> call[c].intent, env |-> call[c].env, again |-> call[c].again]}
        /\ call[c].at = "refresh"
    BY <1>5 DEF RefreshAndAnswer, Finish, Tell
  <2>3. Keeps BY <2>1 DEF EnvInv, TablesFit, MarksFit, TasksFit, Keeps
  <2>4. CallsFit' /\ call' \in [Calls -> CallStates] BY <1>0, <1>1, <1>2, <2>1, <2>2, CallsHold DEF Made
  <2>5. /\ call[c].intent \in Intents /\ call[c].env \in Envs /\ call[c].again \in BOOLEAN
        /\ Made(call[c].intent, call[c].env)
    BY <1>0, <2>2 DEF IntentsTyped, CallsFit, CallFits, CallStates, Idle
  <2>6. told' \subseteq [intent : Intents, env : Envs, again : BOOLEAN] BY <1>0, <2>2, <2>5 DEF IntentsTyped
  <2>7. IntentsTyped' BY <1>0, <2>1, <2>2, <2>4, <2>6 DEF IntentsTyped
  <2>8. IntentsFit' BY <1>0, <2>1 DEF IntentsFit, Made
  <2>9. ASSUME NEW s \in told' PROVE intent[s.intent].env = s.env /\ s.env \in cached'
    <3>1. intent[s.intent].env = s.env /\ s.intent \in Intents /\ s.env \in Envs
      BY <1>0, <2>2, <2>5 DEF ToldFits, Made, IntentsTyped
    <3>2. policy[s.env] # None BY <3>1, <1>0 DEF IntentsFit, Made
    <3> QED BY <3>1, <3>2, <2>2
  <2>10. ToldFits' BY <2>1, <2>9 DEF ToldFits, Made
  <2> QED BY <2>3, <2>4, <2>7, <2>8, <2>10 DEF ProvInv
<1> QED BY <1>3, <1>4, <1>5

LEMMA CompletingFits == EnvInv /\ ProvInv /\ Completing => Keeps /\ ProvInv'
BY CreateIntentFits, TimePassesFits, CompleteIntentFits, ReloadFits DEF Completing

(* The edit of a proxy: opened over the revision it saw, written with its row  *)
(* locked.                                                                     *)
LEMMA OpenProxyFits ==
  ASSUME EnvInv, ProvInv, NEW c \in Calls, NEW u \in Users, NEW e \in Envs, NEW v \in Proxies,
         NEW r \in 0..MaxRevision, OpenProxy(c, u, e, v, r)
  PROVE  Keeps /\ ProvInv'
<1>0. IntentsTyped /\ IntentsFit /\ ToldFits /\ CallsFit BY DEF ProvInv
<1> DEFINE d == [at |-> "write", user |-> u, env |-> e, value |-> v, expected |-> r]
<1>1. UNCHANGED <<enabled, owner, registered, account, active, known, commentMode, slowStart, version, task,
                  copy, recorded, intent, late, proxy, policy, cached, told>>
  BY DEF OpenProxy, envVars
<1>2. /\ owner[e] = u /\ rowLock[e] = None /\ rowLock' = [rowLock EXCEPT ![e] = c] /\ call' = [call EXCEPT ![c] = d]
  BY DEF OpenProxy, OpenLocked, OwnsActive, Owns
<1>3. d \in CallStates BY DEF CallStates
<1>4. rowLock' \in [Envs -> Calls \cup {None}] /\ rowLock'[e] = c BY <1>0, <1>2 DEF IntentsTyped
<1>5. CallFits(c, d)' BY <1>1, <1>2, <1>4 DEF CallFits
<1> HIDE DEF d
<1>6. Keeps BY <1>1 DEF EnvInv, TablesFit, MarksFit, TasksFit, Keeps
<1>7. \A x \in Envs : rowLock[x] \notin {None, c} => rowLock'[x] = rowLock[x] /\ owner'[x] = owner[x]
  BY <1>0, <1>1, <1>2 DEF IntentsTyped
<1>8. CallsFit' /\ call' \in [Calls -> CallStates] BY <1>0, <1>1, <1>2, <1>3, <1>5, <1>7, CallsHold DEF Made
<1>9. IntentsTyped' BY <1>0, <1>1, <1>4, <1>8 DEF IntentsTyped
<1>10. IntentsFit' /\ ToldFits' BY <1>0, <1>1 DEF IntentsFit, ToldFits, Made
<1> QED BY <1>6, <1>8, <1>9, <1>10 DEF ProvInv

LEMMA RefuseProxyFits ==
  ASSUME EnvInv, ProvInv, NEW c \in Calls, NEW u \in Users, NEW e \in Envs, RefuseProxy(c, u, e)
  PROVE  Keeps /\ ProvInv'
<1> DEFINE d == Done("environment_not_owned")
<1>1. d \in CallStates /\ CallFits(c, d)' BY DEF Done, CallStates, Ends, CallFits
<1>2. call' = [call EXCEPT ![c] = d] /\ UNCHANGED <<envVars, intent, late, proxy, policy, cached, rowLock, told>>
  BY DEF RefuseProxy, Finish
<1> HIDE DEF d
<1> QED BY <1>1, <1>2, CallAlone

LEMMA Revisions ==
  ASSUME IntentsTyped, NEW e \in Envs
  PROVE  /\ Expected(e) \in 0..MaxRevision
         /\ proxy[e] # None => proxy[e] \in Authorities /\ Expected(e) = proxy[e].revision
<1>1. proxy[e] \in Authorities \cup {None} /\ MaxRevision \in Nat BY Provisions DEF IntentsTyped
<1>2. CASE proxy[e] = None BY <1>1, <1>2 DEF Expected
<1>3. CASE proxy[e] # None BY <1>1, <1>3 DEF Expected, Authorities
<1> QED BY <1>2, <1>3

LEMMA WriteProxyFits ==
  ASSUME EnvInv, ProvInv, NEW c \in Calls, WriteProxy(c)
  PROVE  Keeps /\ ProvInv'
<1>0. IntentsTyped /\ IntentsFit /\ ToldFits /\ CallsFit BY DEF ProvInv
<1> DEFINE e == call[c].env
<1>1. UNCHANGED <<enabled, owner, registered, account, active, known, commentMode, slowStart, version, task,
                  copy, recorded, intent, late, policy, cached, told>>
  BY DEF WriteProxy, envVars
<1>2. e \in Envs /\ call[c].value \in Proxies /\ owner[e] = call[c].user /\ call[c].user \in Users
  BY <1>0 DEF WriteProxy, IntentsTyped, CallStates, Idle, CallsFit, CallFits
<1>3. PICK why \in {"ok", "proxy_authority_conflict"} : call' = [call EXCEPT ![c] = Done(why)]
  BY DEF WriteProxy, Finish
<1>4. rowLock' = [x \in Envs |-> IF rowLock[x] = c THEN None ELSE rowLock[x]] BY DEF WriteProxy
<1>5. \/ proxy' = proxy
      \/ Expected(e) < MaxRevision /\ proxy' = [proxy EXCEPT ![e] = [revision |-> Expected(e) + 1, value |-> call[c].value]]
  BY DEF WriteProxy
<1>6. e \in registered BY <1>2, NoneIsNobody DEF EnvInv, TablesFit
<1>7. proxy' \in [Envs -> Authorities \cup {None}] /\ \A x \in Envs : proxy'[x] # None => proxy[x] # None \/ x = e
  <2>1. ASSUME Expected(e) < MaxRevision PROVE [revision |-> Expected(e) + 1, value |-> call[c].value] \in Authorities
    BY <1>0, <1>2, <2>1, Revisions, Provisions DEF Authorities
  <2>2. proxy \in [Envs -> Authorities \cup {None}] BY <1>0 DEF IntentsTyped
  <2> QED BY <1>2, <1>5, <2>1, <2>2
<1>8. Keeps BY <1>1 DEF EnvInv, TablesFit, MarksFit, TasksFit, Keeps
<1>9. Done(why) \in CallStates /\ CallFits(c, Done(why))' BY DEF Done, CallStates, Ends, CallFits
<1>10. \A x \in Envs : rowLock[x] \notin {None, c} => rowLock'[x] = rowLock[x] /\ owner'[x] = owner[x] BY <1>1, <1>4
<1>11. CallsFit' /\ call' \in [Calls -> CallStates] BY <1>0, <1>1, <1>3, <1>9, <1>10, CallsHold DEF Made
<1>12. rowLock' \in [Envs -> Calls \cup {None}] BY <1>0, <1>4 DEF IntentsTyped
<1>13. IntentsTyped' BY <1>0, <1>1, <1>7, <1>11, <1>12 DEF IntentsTyped
<1>14. IntentsFit' BY <1>0, <1>1, <1>6, <1>7 DEF IntentsFit, Made
<1>15. ToldFits' BY <1>0, <1>1 DEF ToldFits, Made
<1> QED BY <1>8, <1>11, <1>13, <1>14, <1>15 DEF ProvInv

LEMMA EditingFits == EnvInv /\ ProvInv /\ Editing => Keeps /\ ProvInv'
BY OpenProxyFits, RefuseProxyFits, WriteProxyFits DEF Editing

(* Whoever changes an owner has the rows unlocked before it.                   *)
LEMMA OwningFits == EnvInv /\ ProvInv /\ Owning => Keeps /\ ProvInv'
<1> SUFFICES ASSUME EnvInv, ProvInv, Owning PROVE Keeps /\ ProvInv' OBVIOUS
<1>1. ASSUME NEW u \in Users, NEW keep \in SUBSET Envs, SetScopeLocked(u, keep) PROVE Keeps /\ ProvInv'
  <2>1. Assigning BY <1>1 DEF SetScopeLocked, Assigning
  <2>2. Keeps BY <2>1, AssigningFits
  <2>3. OwnersUnlocked
    <3> SUFFICES ASSUME NEW e \in Envs, owner'[e] # owner[e] PROVE rowLock[e] = None BY DEF OwnersUnlocked
    <3>1. e \in keep \/ owner[e] = u BY <1>1 DEF SetScopeLocked, SetScope
    <3> QED BY <3>1, <1>1 DEF SetScopeLocked, Unlocked
  <2>4. UNCHANGED provVars BY <1>1 DEF SetScopeLocked
  <2> QED BY <2>2, <2>3, <2>4, ProvStays DEF Keeps
<1>2. ASSUME NEW u \in Users, DisableUserLocked(u) PROVE Keeps /\ ProvInv'
  <2>1. Assigning BY <1>2 DEF DisableUserLocked, Assigning
  <2>2. Keeps BY <2>1, AssigningFits
  <2>3. OwnersUnlocked
    <3> SUFFICES ASSUME NEW e \in Envs, owner'[e] # owner[e] PROVE rowLock[e] = None BY DEF OwnersUnlocked
    <3>1. owner[e] = u BY <1>2 DEF DisableUserLocked, DisableUser
    <3> QED BY <3>1, <1>2 DEF DisableUserLocked, Unlocked
  <2>4. UNCHANGED provVars BY <1>2 DEF DisableUserLocked
  <2> QED BY <2>2, <2>3, <2>4, ProvStays DEF Keeps
<1>3. ASSUME NEW e \in Envs, HandshakeFirst(e) PROVE Keeps /\ ProvInv'
  <2>1. Reporting BY <1>3 DEF HandshakeFirst, Reporting
  <2>2. Keeps BY <2>1, ReportingFits
  <2>3. OwnersUnlocked /\ UNCHANGED provVars BY <1>3 DEF HandshakeFirst, RegisterUnbound, OwnersUnlocked
  <2> QED BY <2>2, <2>3, ProvStays DEF Keeps
<1> QED BY <1>1, <1>2, <1>3 DEF Owning

LEMMA ProvisioningStep == EnvInv /\ ProvInv /\ ProvNext => Keeps /\ ProvInv'
BY CompletingFits, EditingFits, OwningFits DEF ProvNext

-----------------------------------------------------------------------------
(* Log-ins.                                                                    *)

LEMMA Limits == IsFiniteSet(Logins) /\ Cardinality(Logins) \in Nat /\ MaxFailures \in Nat \ {0}
BY LimiterAssumption, FS_CardinalityType

LEMMA Counted ==
  ASSUME LoginsFit, NEW k \in Names \cup Places
  PROVE  /\ failures[k] \in Nat /\ IsFiniteSet(Verifying(k)) /\ Verifying(k) \subseteq Logins
         /\ Cardinality(Verifying(k)) \in 0..Cardinality(Logins)
         /\ failures[k] + Cardinality(Verifying(k)) < MaxFailures + Cardinality(Logins)
<1>1. Verifying(k) \in SUBSET Logins BY DEF Verifying
<1>2. IsFiniteSet(Verifying(k)) /\ Cardinality(Verifying(k)) <= Cardinality(Logins) BY <1>1, Limits, FS_Subset
<1>3. Cardinality(Verifying(k)) \in Nat BY <1>2, FS_CardinalityType
<1> QED BY <1>1, <1>2, <1>3, Limits DEF LoginsFit

LEMMA AttemptsWithin == LoginsFit => AttemptsBounded
<1> SUFFICES ASSUME LoginsFit, NEW k \in Names \cup Places PROVE failures[k] < MaxFailures + Cardinality(Logins)
  BY DEF AttemptsBounded
<1> QED BY Counted, Limits

(* Fewer failures and fewer attempts under way are within the limit too.       *)
LEMMA FewerAttempts ==
  ASSUME LoginsFit, NEW k \in Names \cup Places, failures'[k] \in 0..failures[k],
         Verifying(k)' \subseteq Verifying(k)
  PROVE  failures'[k] + Cardinality(Verifying(k)') < MaxFailures + Cardinality(Logins)
<1> DEFINE W == Verifying(k)'
<1>1. W \in SUBSET Verifying(k) OBVIOUS
<1> HIDE DEF W
<1>2. IsFiniteSet(W) /\ Cardinality(W) <= Cardinality(Verifying(k)) BY <1>1, Counted, FS_Subset
<1>3. Cardinality(W) \in Nat BY <1>2, FS_CardinalityType
<1>4. failures'[k] + Cardinality(W) < MaxFailures + Cardinality(Logins) BY <1>2, <1>3, Counted, Limits
<1> QED BY <1>4 DEF W

LEMMA LoginStartFits ==
  ASSUME LoginsFit, NEW l \in Logins, NEW n \in Names, NEW p \in Places, LoginStart(l, n, p)
  PROVE  LoginsFit'
<1>1. UNCHANGED failures /\ login[l] = Idle BY DEF LoginStart
<1>2. login' = [login EXCEPT ![l] = IF Limited(n, p) THEN Idle ELSE [at |-> "verify", keys |-> Keys(n, p)]]
  BY DEF LoginStart
<1>3. login \in [Logins -> Attempts] /\ failures \in [Names \cup Places -> Nat] BY DEF LoginsFit
<1>4. login' \in [Logins -> Attempts] BY <1>2, <1>3 DEF Attempts, Keys
<1>5. ASSUME NEW k \in Names \cup Places
      PROVE  failures'[k] + Cardinality(Verifying(k)') < MaxFailures + Cardinality(Logins)
  <2>1. CASE Limited(n, p) \/ k \notin Keys(n, p)
    <3>1. Verifying(k)' \subseteq Verifying(k) BY <2>1, <1>1, <1>2, <1>3 DEF Verifying, Idle
    <3>2. failures'[k] \in 0..failures[k] BY <1>1, <1>3
    <3> QED BY <3>1, <3>2, FewerAttempts
  <2>2. CASE ~Limited(n, p) /\ k \in Keys(n, p)
    <3>1. failures[k] < MaxFailures BY <2>2, <1>3, Limits DEF Limited
    <3> DEFINE W == Verifying(k)'
    <3>2. W \in SUBSET Logins BY DEF Verifying
    <3> HIDE DEF W
    <3>3. IsFiniteSet(W) /\ Cardinality(W) <= Cardinality(Logins) BY <3>2, Limits, FS_Subset
    <3>4. Cardinality(W) \in Nat BY <3>3, FS_CardinalityType
    <3>5. failures'[k] + Cardinality(W) < MaxFailures + Cardinality(Logins)
      BY <3>1, <3>3, <3>4, <1>1, <1>3, Limits
    <3> QED BY <3>5 DEF W
  <2> QED BY <2>1, <2>2
<1> QED BY <1>1, <1>3, <1>4, <1>5 DEF LoginsFit

(* An attempt that ends counts as a failure instead of as one under way.       *)
LEMMA LoginFailsFits ==
  ASSUME LoginsFit, NEW l \in Logins, LoginFails(l)
  PROVE  LoginsFit'
<1>1. login[l].at = "verify" /\ login' = [login EXCEPT ![l] = Idle] BY DEF LoginFails
<1>2. login \in [Logins -> Attempts] /\ failures \in [Names \cup Places -> Nat] BY DEF LoginsFit
<1>3. failures' = [k \in Names \cup Places |-> IF k \in login[l].keys THEN failures[k] + 1 ELSE failures[k]]
  BY <1>2 DEF LoginFails, RecordFailure
<1>4. login' \in [Logins -> Attempts] BY <1>1, <1>2 DEF Attempts
<1>5. failures' \in [Names \cup Places -> Nat] BY <1>2, <1>3
<1>6. ASSUME NEW k \in Names \cup Places
      PROVE  failures'[k] + Cardinality(Verifying(k)') < MaxFailures + Cardinality(Logins)
  <2>1. Verifying(k)' = Verifying(k) \ {l} BY <1>1, <1>2 DEF Verifying, Idle
  <2>2. CASE k \in login[l].keys
    <3>1. l \in Verifying(k) BY <2>2, <1>1 DEF Verifying
    <3>2. Cardinality(Verifying(k) \ {l}) = Cardinality(Verifying(k)) - 1 BY <3>1, Counted, FS_RemoveElement
    <3>3. failures'[k] = failures[k] + 1 BY <2>2, <1>3
    <3>4. failures'[k] + Cardinality(Verifying(k) \ {l}) < MaxFailures + Cardinality(Logins)
      BY <3>2, <3>3, Counted, Limits
    <3> QED BY <2>1, <3>4
  <2>3. CASE k \notin login[l].keys
    <3>1. failures'[k] \in 0..failures[k] BY <2>3, <1>2, <1>3
    <3>2. Verifying(k)' \subseteq Verifying(k) BY <2>1
    <3> QED BY <3>1, <3>2, FewerAttempts
  <2> QED BY <2>2, <2>3
<1> QED BY <1>4, <1>5, <1>6 DEF LoginsFit

LEMMA LoginSucceedsFits ==
  ASSUME LoginsFit, NEW l \in Logins, NEW k \in Tokens, NEW u \in Users, LoginSucceeds(l, k, u)
  PROVE  LoginsFit'
<1>1. login' = [login EXCEPT ![l] = Idle] BY DEF LoginSucceeds
<1>2. login \in [Logins -> Attempts] /\ failures \in [Names \cup Places -> Nat] BY DEF LoginsFit
<1>3. failures' = [x \in Names \cup Places |-> IF x \in login[l].keys THEN 0 ELSE failures[x]]
  BY <1>2 DEF LoginSucceeds
<1>4. login' \in [Logins -> Attempts] BY <1>1, <1>2 DEF Attempts
<1>5. failures' \in [Names \cup Places -> Nat] BY <1>2, <1>3
<1>6. ASSUME NEW x \in Names \cup Places
      PROVE  failures'[x] + Cardinality(Verifying(x)') < MaxFailures + Cardinality(Logins)
  <2>1. Verifying(x)' \subseteq Verifying(x) BY <1>1, <1>2 DEF Verifying, Idle
  <2>2. failures'[x] \in 0..failures[x] BY <1>2, <1>3
  <2> QED BY <2>1, <2>2, FewerAttempts
<1> QED BY <1>4, <1>5, <1>6 DEF LoginsFit

LEMMA WindowEndsFits ==
  ASSUME LoginsFit, NEW k \in Names \cup Places, WindowEnds(k)
  PROVE  LoginsFit'
<1>1. UNCHANGED login /\ failures' = [failures EXCEPT ![k] = 0] BY DEF WindowEnds
<1>2. login \in [Logins -> Attempts] /\ failures \in [Names \cup Places -> Nat] BY DEF LoginsFit
<1>3. failures' \in [Names \cup Places -> Nat] BY <1>1, <1>2
<1>4. ASSUME NEW x \in Names \cup Places
      PROVE  failures'[x] + Cardinality(Verifying(x)') < MaxFailures + Cardinality(Logins)
  <2>1. Verifying(x)' \subseteq Verifying(x) BY <1>1 DEF Verifying
  <2>2. failures'[x] \in 0..failures[x] BY <1>1, <1>2
  <2> QED BY <2>1, <2>2, FewerAttempts
<1> QED BY <1>1, <1>2, <1>3, <1>4 DEF LoginsFit

LEMMA RestartFits ==
  ASSUME LoginsFit, Restart
  PROVE  LoginsFit'
<1>1. login' = [l \in Logins |-> Idle] BY DEF Restart
<1>2. failures \in [Names \cup Places -> Nat] BY DEF LoginsFit
<1>3. failures' = [x \in Names \cup Places |-> 0] BY <1>2 DEF Restart
<1>4. login' \in [Logins -> Attempts] BY <1>1 DEF Attempts
<1>5. ASSUME NEW x \in Names \cup Places
      PROVE  failures'[x] + Cardinality(Verifying(x)') < MaxFailures + Cardinality(Logins)
  <2>1. Verifying(x)' \subseteq Verifying(x) BY <1>1 DEF Verifying, Idle
  <2>2. failures'[x] \in 0..failures[x] BY <1>2, <1>3
  <2> QED BY <2>1, <2>2, FewerAttempts
<1> QED BY <1>3, <1>4, <1>5 DEF LoginsFit

LEMMA LoginsStay == LoginsFit /\ UNCHANGED <<login, failures>> => LoginsFit'
BY DEF LoginsFit, Verifying

-----------------------------------------------------------------------------
(* Doors: which have no environment, and which ask for the owner again.        *)

DoorFits(d) ==
  /\ d.again = "ownership" => d = SlowStartWrite
  /\ d = MyEnvironments => d.gate = "statement" /\ d.writes = "nothing" /\ ~d.compares

LEMMA DoorsFit == \A d \in Doors : DoorFits(d)
<1>1. MyEnvironments.gate = "statement" /\ MyEnvironments.writes = "nothing" /\ ~MyEnvironments.compares
      /\ MyEnvironments.again = "no"
  BY DEF MyEnvironments, InStatement, Reads
<1>2. SlowStartWrite.again = "ownership" BY DEF SlowStartWrite, InStatement, Reads
<1>3. ASSUME NEW d, d.again # "ownership" PROVE DoorFits(d) BY <1>1, <1>3 DEF DoorFits
<1>4. DoorFits(SlowStartWrite) BY <1>1, <1>2 DEF DoorFits
<1>5. \A p : Reads(p).again # "ownership" /\ WritesAccount(p).again # "ownership" /\ WritesRecord(p).again # "ownership"
  BY DEF Reads, WritesAccount, WritesRecord
<1>6. \A w : InStatement(w).again # "ownership" /\ Setting(w).again # "ownership" BY DEF InStatement, Reads, Setting
<1>7. ReadsRecord.again # "ownership" /\ OperatorAlias.again # "ownership" /\ TaskAction.again # "ownership"
      /\ PolicyRead.again # "ownership" /\ ProgressRead.again # "ownership" /\ SurfaceRead.again # "ownership"
      /\ RuleModeRead.again # "ownership" /\ OffboardBegin.again # "ownership"
  BY DEF ReadsRecord, OperatorAlias, TaskAction, PolicyRead, ProgressRead, SurfaceRead, RuleModeRead, OffboardBegin,
         Reads, WritesAccount, InStatement, Setting
<1>8. \A d \in Doors : d = SlowStartWrite \/ d.again # "ownership"
  BY <1>5, <1>6, <1>7
  DEF Doors, MyEnvironments, ProxyRead, ProxyWrite, PersonaRead, PersonaDraft, PersonaWrite, DraftEdit,
      RefinementCreate, RefinementRead, DraftApprove, DraftImageRemove, RiskRead, RecoveryOutcome, Recover, AutoFill,
      ControlBootstrap, Overview, ScheduleRead, PolicyWrite, ProgressWrite, SurfaceWrite, RuleModeWrite,
      CommentApproval, SlowStartRead, DraftsRead, OccupiedHours, DraftDetail, CuratedRead, CuratedCreate,
      CuratedDetail, QueueRead, QueueCancel, DelegatedRead, DelegatedDraft
<1> QED BY <1>3, <1>4, <1>8

(* A request under way carries what it was given, and has not yet written.     *)
LEMMA RequestNow ==
  ASSUME RequestsFit, NEW r \in Requests, request[r] # Idle
  PROVE  /\ request[r] \in RequestStates /\ request[r].at # "idle" /\ request[r].door \in Doors
         /\ request[r].wrote \in BOOLEAN
         /\ request[r].at # "done" =>
              /\ request[r] \in OpenRequests /\ request[r].user \in Users /\ request[r].token \in Tokens
              /\ request[r].door # MyEnvironments => request[r].env \in Envs /\ request[r].named \in Accounts
         /\ request[r].at \in {"status", "gate", "act"} => ~request[r].wrote
         /\ request[r].at = "act" /\ request[r].account # None => request[r].account \in reached[r]
         /\ request[r].at = "done" /\ request[r].why \in Denials
              /\ request[r].wrote => request[r].door = SlowStartWrite
BY DEF RequestsFit, RequestFits, RequestStates, OpenRequests, Idle

LEMMA ReachGrows ==
  ASSUME Remember, NEW r \in Requests, request'[r] # Idle, request'[r].at # "done"
  PROVE  /\ reached[r] \subseteq reached'[r]
         /\ \A u \in Users, a \in Accounts : request'[r].user = u /\ Reachable(u, a)' => a \in reached'[r]
BY DEF Remember, UnderWay

LEMMA OthersFit ==
  ASSUME RequestsFit, Remember, NEW s \in Requests, request'[s] = request[s]
  PROVE  RequestFits(request[s], reached[s])'
<1>1. RequestFits(request[s], reached[s]) BY DEF RequestsFit
<1>2. request[s].at = "act" => reached[s] \subseteq reached'[s] BY ReachGrows DEF Idle
<1> QED BY <1>1, <1>2 DEF RequestFits

(* A request is changed and the others are as they were.                       *)
LEMMA RequestMoves ==
  ASSUME RequestsFit, Remember, NEW r \in Requests, request' \in [Requests -> RequestStates],
         \A s \in Requests \ {r} : request'[s] = request[s],
         RequestFits(request[r], reached[r])'
  PROVE  RequestsFit'
BY OthersFit DEF RequestsFit

LEMMA RequestsStay == RequestsFit /\ Remember /\ UNCHANGED request => RequestsFit'
BY OthersFit DEF RequestsFit

(* A request ends: with a reason that does not deny, or before it has written. *)
LEMMA RefusedFits ==
  ASSUME RequestsFit, Remember, NEW r \in Requests, NEW why \in Reasons, Refused(r, why), request[r] # Idle,
         \/ why \notin Denials
         \/ ~request[r].wrote \/ request[r].door = SlowStartWrite
  PROVE  RequestsFit'
<1> DEFINE q == Over(r, why)
<1>1. q \in RequestStates /\ q.at = "done" /\ q.door = request[r].door /\ q.wrote = request[r].wrote /\ q.why = why
      /\ q \notin OpenRequests
  BY RequestNow DEF Over, RequestStates, OpenRequests
<1>2. request' = [request EXCEPT ![r] = q] BY DEF Refused
<1> HIDE DEF q
<1>3. request \in [Requests -> RequestStates] BY DEF RequestsFit
<1>4. request'[r] = q /\ request' \in [Requests -> RequestStates] /\ \A s \in Requests \ {r} : request'[s] = request[s]
  BY <1>1, <1>2, <1>3
<1>5. RequestFits(request[r], reached[r])' BY <1>1, <1>4 DEF RequestFits
<1> QED BY <1>4, <1>5, RequestMoves

(* The gate lets a request pass with an account in reach, or with none.        *)
LEMMA PassFits ==
  ASSUME EnvInv, RequestsFit, Remember, UNCHANGED envVars, NEW r \in Requests, NEW a \in Accounts \cup {None},
         Pass(r, a), request[r].at = "gate",
         (a = None) = (request[r].door.gate \in {"statement", "owned", "settled"}),
         a # None => Reachable(request[r].user, a)
  PROVE  RequestsFit'
<1> DEFINE q == [request[r] EXCEPT !.at = "act", !.account = a]
<1>1. request[r] # Idle BY DEF Idle
<1>2. request[r] \in OpenRequests /\ request[r].user \in Users /\ ~request[r].wrote
      /\ (request[r].door # MyEnvironments => request[r].env \in Envs /\ request[r].named \in Accounts)
  BY <1>1, RequestNow
<1>3. q \in OpenRequests BY <1>2 DEF OpenRequests
<1>4. q.at = "act" /\ q.account = a /\ q.door = request[r].door /\ q.wrote = request[r].wrote /\ q.env = request[r].env
      /\ q.named = request[r].named /\ q.user = request[r].user
  BY <1>2 DEF OpenRequests
<1>5. request' = [request EXCEPT ![r] = q] BY DEF Pass
<1> HIDE DEF q
<1>6. request \in [Requests -> RequestStates] BY DEF RequestsFit
<1>7. request'[r] = q /\ request' \in [Requests -> RequestStates] /\ \A s \in Requests \ {r} : request'[s] = request[s]
  BY <1>3, <1>5, <1>6 DEF RequestStates
<1>8. a # None => Reachable(request[r].user, a)'
  BY DEF envVars, Reachable, ContendedAcrossCustomers, BoundTo, Owns, Pass
<1>9. a # None => a \in reached'[r] BY <1>2, <1>4, <1>7, <1>8, ReachGrows DEF Idle
<1>10. RequestFits(request[r], reached[r])' BY <1>2, <1>3, <1>4, <1>7, <1>9 DEF RequestFits
<1> QED BY <1>7, <1>10, RequestMoves

LEMMA ArriveFits ==
  ASSUME RequestsFit, TokensFit, Remember, NEW r \in Requests, NEW k \in Tokens, NEW d \in Doors, NEW e \in Envs \cup {None},
         NEW a \in Accounts \cup {None}, d # MyEnvironments => e \in Envs /\ a \in Accounts, Arrive(r, k, d, e, a)
  PROVE  RequestsFit'
<1> DEFINE q == [at |-> "status", door |-> d, user |-> token[k], token |-> k, env |-> e, named |-> a,
                 account |-> None, wrote |-> FALSE]
<1>1. token[k] \in Users BY DEF TokensFit, Arrive
<1>2. q \in OpenRequests /\ q.at = "status" /\ q.door = d /\ q.env = e /\ q.named = a /\ ~q.wrote
  BY <1>1 DEF OpenRequests
<1>3. request' = [request EXCEPT ![r] = q] BY DEF Arrive
<1> HIDE DEF q
<1>4. request \in [Requests -> RequestStates] BY DEF RequestsFit
<1>5. request'[r] = q /\ request' \in [Requests -> RequestStates] /\ \A s \in Requests \ {r} : request'[s] = request[s]
  BY <1>2, <1>3, <1>4 DEF RequestStates
<1>6. RequestFits(request[r], reached[r])' BY <1>2, <1>5 DEF RequestFits
<1> QED BY <1>5, <1>6, RequestMoves

LEMMA IsEnabledFits ==
  ASSUME RequestsFit, Remember, NEW r \in Requests, IsEnabled(r)
  PROVE  RequestsFit'
<1>1. request[r].at = "status" /\ request[r] # Idle BY DEF IsEnabled, Idle
<1>2. CASE request[r].user \notin enabled
  <2>1. Refused(r, "disabled") BY <1>2 DEF IsEnabled
  <2>2. ~request[r].wrote BY <1>1, RequestNow
  <2> QED BY <1>1, <2>1, <2>2, RefusedFits DEF Reasons, Denials
<1>3. CASE request[r].user \in enabled
  <2> DEFINE q == [request[r] EXCEPT !.at = "gate"]
  <2>1. /\ request[r] \in OpenRequests /\ ~request[r].wrote
        /\ request[r].door # MyEnvironments => request[r].env \in Envs /\ request[r].named \in Accounts
    BY <1>1, RequestNow
  <2>2. q \in OpenRequests /\ q.at = "gate" /\ ~q.wrote /\ q.door = request[r].door /\ q.env = request[r].env
        /\ q.named = request[r].named
    BY <2>1 DEF OpenRequests
  <2>3. request' = [request EXCEPT ![r] = q] BY <1>3 DEF IsEnabled, Doing
  <2> HIDE DEF q
  <2>4. request \in [Requests -> RequestStates] BY DEF RequestsFit
  <2>5. request'[r] = q /\ request' \in [Requests -> RequestStates] /\ \A s \in Requests \ {r} : request'[s] = request[s]
    BY <2>2, <2>3, <2>4 DEF RequestStates
  <2>6. RequestFits(request[r], reached[r])' BY <2>1, <2>2, <2>5 DEF RequestFits
  <2> QED BY <2>5, <2>6, RequestMoves
<1> QED BY <1>2, <1>3

LEMMA AnsweredFits ==
  ASSUME RequestsFit, Remember, NEW r \in Requests, Answered(r), request[r] # Idle
  PROVE  RequestsFit'
<1>1. Refused(r, "ok") /\ "ok" \in Reasons \ Denials BY DEF Answered, Reasons, Denials
<1> QED BY <1>1, RefusedFits

LEMMA RestartedFits ==
  ASSUME RequestsFit, Restart
  PROVE  RequestsFit'
<1>1. request' = [r \in Requests |-> IF request[r] = Idle THEN Idle ELSE Over(r, "lost")] BY DEF Restart
<1>2. ASSUME NEW r \in Requests PROVE request'[r] \in RequestStates /\ RequestFits(request[r], reached[r])'
  <2>1. CASE request[r] = Idle
    <3>1. request'[r] = Idle BY <2>1, <1>1
    <3>2. Idle \in RequestStates /\ Idle \notin OpenRequests /\ Idle.at = "idle"
      BY DEF RequestStates, OpenRequests, Idle
    <3> QED BY <3>1, <3>2 DEF RequestFits
  <2>2. CASE request[r] # Idle
    <3> DEFINE q == Over(r, "lost")
    <3>1. q \in RequestStates /\ q \notin OpenRequests /\ q.at = "done" /\ q.why = "lost"
      BY <2>2, RequestNow DEF Over, RequestStates, OpenRequests, Reasons
    <3>2. request'[r] = q BY <2>2, <1>1
    <3> HIDE DEF q
    <3> QED BY <3>1, <3>2 DEF RequestFits, Denials
  <2> QED BY <2>1, <2>2
<1>3. request' \in [Requests -> RequestStates] BY <1>1, <1>2
<1> QED BY <1>2, <1>3 DEF RequestsFit

(* What a customer's own environment resolves to is in reach.                  *)
LEMMA BoundInReach ==
  ASSUME TablesFit, NEW u \in Users, NEW e \in Envs, ResolveBoundAccount(u, e).ok
  PROVE  LET a == ResolveBoundAccount(u, e).account IN a \in Accounts /\ Reachable(u, a)
<1>1. /\ Owns(u, e) /\ account[e] \in known /\ ~ContendedAcrossCustomers(account[e], u)
      /\ ResolveBoundAccount(u, e) = [ok |-> TRUE, account |-> account[e]]
  BY DEF ResolveBoundAccount, OwnsActive
<1>2. e \in BoundTo(account[e]) BY <1>1, NoneIsNobody DEF BoundTo, Owns, TablesFit
<1> QED BY <1>1, <1>2 DEF Reachable, TablesFit

LEMMA AliasInReach ==
  ASSUME TablesFit, NEW u \in Users, NEW e \in Envs, ResolveAliasAccount(u, e).ok
  PROVE  LET a == ResolveAliasAccount(u, e).account IN a \in Accounts /\ Reachable(u, a)
<1>1. /\ Owns(u, e) /\ account[e] \in known /\ ~ContendedAcrossCustomers(account[e], u)
      /\ ResolveAliasAccount(u, e) = [ok |-> TRUE, account |-> account[e]]
  BY DEF ResolveAliasAccount
<1>2. e \in BoundTo(account[e]) BY <1>1, NoneIsNobody DEF BoundTo, Owns, TablesFit
<1> QED BY <1>1, <1>2 DEF Reachable, TablesFit

LEMMA RefusalReasons ==
  ASSUME NEW u, NEW e
  PROVE  /\ ~ResolveBoundAccount(u, e).ok =>
              ResolveBoundAccount(u, e).why \in {"environment_not_owned", "binding_unknown", "binding_conflict"}
         /\ ~ResolveAliasAccount(u, e).ok => ResolveAliasAccount(u, e).why = "environment_not_owned"
BY DEF ResolveBoundAccount, ResolveAliasAccount

LEMMA GateFits ==
  ASSUME EnvInv, RequestsFit, Remember, UNCHANGED envVars, NEW r \in Requests, Gate(r)
  PROVE  RequestsFit'
<1> DEFINE q == request[r]
<1>0. TablesFit BY DEF EnvInv
<1>1. q.at = "gate" BY DEF Gate, GateBound, GateAlias, GateOwned, GateTask, GateStatement
<1>2. q # Idle BY <1>1 DEF Idle
<1>3. /\ q \in OpenRequests /\ q.user \in Users /\ ~q.wrote /\ q.door \in Doors
      /\ q.door # MyEnvironments => q.env \in Envs /\ q.named \in Accounts
  BY <1>1, <1>2, RequestNow
<1>4. q.door.gate # "statement" => q.env \in Envs /\ q.named \in Accounts BY <1>3, DoorsFit DEF DoorFits
<1>5. ASSUME NEW why \in Reasons, Refused(r, why) PROVE RequestsFit' BY <1>2, <1>3, <1>5, RefusedFits
<1>6. CASE GateBound(r)
  <2> DEFINE b == ResolveBoundAccount(q.user, q.env)
  <2>1. q.door.gate = "bound" /\ q.env \in Envs BY <1>4, <1>6 DEF GateBound
  <2>2. b.ok => b.account \in Accounts /\ Reachable(q.user, b.account) BY <1>0, <1>3, <2>1, BoundInReach
  <2>3. ~b.ok => b.why \in {"environment_not_owned", "binding_unknown", "binding_conflict"} BY RefusalReasons
  <2>4. \/ ~b.ok /\ Refused(r, b.why)
        \/ Refused(r, "unsupported_platform")
        \/ b.ok /\ Pass(r, b.account)
    BY <1>6 DEF GateBound
  <2> HIDE DEF b
  <2>5. CASE ~b.ok /\ Refused(r, b.why) BY <2>3, <2>5, <1>5 DEF Reasons, Denials
  <2>6. CASE Refused(r, "unsupported_platform") BY <2>6, <1>5 DEF Reasons
  <2>7. CASE b.ok /\ Pass(r, b.account)
    <3>1. PICK a \in Accounts : Reachable(q.user, a) /\ Pass(r, a) BY <2>2, <2>7
    <3> QED BY <3>1, <2>1, <1>1, PassFits, NoneIsNobody
  <2> QED BY <2>4, <2>5, <2>6, <2>7
<1>7. CASE GateAlias(r)
  <2> DEFINE b == ResolveAliasAccount(q.user, q.env)
  <2>1. q.door.gate = "alias" /\ q.env \in Envs BY <1>4, <1>7 DEF GateAlias
  <2>2. b.ok => b.account \in Accounts /\ Reachable(q.user, b.account) BY <1>0, <1>3, <2>1, AliasInReach
  <2>3. ~b.ok => b.why = "environment_not_owned" BY RefusalReasons
  <2>4. (~b.ok /\ Refused(r, b.why)) \/ (b.ok /\ Pass(r, b.account)) BY <1>7 DEF GateAlias
  <2> HIDE DEF b
  <2>5. CASE ~b.ok /\ Refused(r, b.why) BY <2>3, <2>5, <1>5 DEF Reasons, Denials
  <2>6. CASE b.ok /\ Pass(r, b.account)
    <3>1. PICK a \in Accounts : Reachable(q.user, a) /\ Pass(r, a) BY <2>2, <2>6
    <3> QED BY <3>1, <2>1, <1>1, PassFits, NoneIsNobody
  <2> QED BY <2>4, <2>5, <2>6
<1>8. CASE GateOwned(r)
  <2> DEFINE b == OwnedBinding(q.user, q.env)
  <2>1. q.door.gate \in {"owned", "settled"} BY <1>8 DEF GateOwned
  <2>3. \/ b \in {"environment_not_owned", "binding_conflict"} /\ Refused(r, b)
        \/ Refused(r, "unsupported_platform")
        \/ Pass(r, None)
    BY <1>8 DEF GateOwned
  <2> HIDE DEF b
  <2>4. CASE b \in {"environment_not_owned", "binding_conflict"} /\ Refused(r, b) BY <2>4, <1>5 DEF Reasons, Denials
  <2>5. CASE Refused(r, "unsupported_platform") BY <2>5, <1>5 DEF Reasons
  <2>6. CASE Pass(r, None) BY <2>6, <2>1, <1>1, PassFits
  <2> QED BY <2>3, <2>4, <2>5, <2>6
<1>9. CASE GateTask(r)
  <2>1. q.door.gate = "task" /\ q.named \in Accounts BY <1>4, <1>9 DEF GateTask
  <2>2. CASE Reachable(q.user, q.named)
    <3>1. PICK a \in Accounts : Reachable(q.user, a) /\ Pass(r, a) BY <1>9, <2>1, <2>2 DEF GateTask
    <3> QED BY <3>1, <2>1, <1>1, PassFits, NoneIsNobody
  <2>3. CASE ~Reachable(q.user, q.named) BY <1>9, <2>3, <1>5 DEF GateTask, Reasons
  <2> QED BY <2>2, <2>3
<1>10. CASE GateStatement(r) BY <1>10, <1>1, PassFits DEF GateStatement
<1> QED BY <1>6, <1>7, <1>8, <1>9, <1>10 DEF Gate

LEMMA AfterWriteFits ==
  ASSUME RequestsFit, Remember, NEW r \in Requests, AfterWrite(r)
  PROVE  RequestsFit'
<1>1. request[r].at = "again" /\ request[r] # Idle BY DEF AfterWrite, Idle
<1>2. request[r].door \in Doors BY <1>1, RequestNow
<1>3. CASE Answered(r) BY <1>1, <1>3, AnsweredFits
<1>4. CASE Refused(r, "unavailable") BY <1>1, <1>4, RefusedFits DEF Reasons, Denials
<1>5. CASE request[r].door.again = "ownership" /\ Refused(r, "environment_not_owned")
  <2>1. request[r].door = SlowStartWrite BY <1>2, <1>5, DoorsFit DEF DoorFits
  <2> QED BY <1>1, <1>5, <2>1, RefusedFits DEF Reasons, Denials
<1>6. CASE Refused(r, "cleanup_grant_unavailable") BY <1>1, <1>6, RefusedFits DEF Reasons, Denials
<1> QED BY <1>3, <1>4, <1>5, <1>6 DEF AfterWrite

(* An act writes once, and what it leaves of the request is over or asks again. *)
LEMMA WroteFits ==
  ASSUME RequestsFit, Remember, NEW r \in Requests, request[r].at = "act", Wrote(r)
  PROVE  RequestsFit'
<1> DEFINE q == IF request[r].door.again = "no" THEN [Over(r, "ok") EXCEPT !.wrote = TRUE]
                ELSE [request[r] EXCEPT !.at = "again", !.wrote = TRUE]
<1>1. request[r] # Idle BY DEF Idle
<1>2. /\ request[r] \in OpenRequests /\ request[r].door \in Doors
      /\ request[r].door # MyEnvironments => request[r].env \in Envs /\ request[r].named \in Accounts
  BY <1>1, RequestNow
<1>3. request' = [request EXCEPT ![r] = q] BY DEF Wrote
<1>4. request \in [Requests -> RequestStates] BY DEF RequestsFit
<1>5. CASE request[r].door.again = "no"
  <2>1. q = [at |-> "done", door |-> request[r].door, wrote |-> TRUE, why |-> "ok"] BY <1>5 DEF Over
  <2>2. q \in RequestStates /\ q \notin OpenRequests /\ q.at = "done" /\ q.why \notin Denials
    BY <1>2, <2>1 DEF RequestStates, Reasons, Denials, OpenRequests
  <2> HIDE DEF q
  <2>3. request'[r] = q /\ request' \in [Requests -> RequestStates] /\ \A s \in Requests \ {r} : request'[s] = request[s]
    BY <2>2, <1>3, <1>4
  <2>4. RequestFits(request[r], reached[r])' BY <2>2, <2>3 DEF RequestFits
  <2> QED BY <2>3, <2>4, RequestMoves
<1>6. CASE request[r].door.again # "no"
  <2>1. q = [request[r] EXCEPT !.at = "again", !.wrote = TRUE] BY <1>6
  <2>2. q \in OpenRequests /\ q.at = "again" /\ q.door = request[r].door /\ q.env = request[r].env
        /\ q.named = request[r].named
    BY <1>2, <2>1 DEF OpenRequests
  <2> HIDE DEF q
  <2>3. request'[r] = q /\ request' \in [Requests -> RequestStates] /\ \A s \in Requests \ {r} : request'[s] = request[s]
    BY <2>2, <1>3, <1>4 DEF RequestStates
  <2>4. RequestFits(request[r], reached[r])' BY <1>2, <2>2, <2>3 DEF RequestFits
  <2> QED BY <2>3, <2>4, RequestMoves
<1> QED BY <1>5, <1>6

LEMMA EnvStays == EnvInv /\ UNCHANGED envVars => Keeps
BY DEF EnvInv, TablesFit, MarksFit, TasksFit, Keeps, envVars

LEMMA ActFits ==
  ASSUME EnvInv, RequestsFit, Remember, NEW r \in Requests, Act(r)
  PROVE  Keeps /\ RequestsFit'
<1>1. request[r].at = "act"
  BY DEF Act, ActMissing, ActRead, ActOnAccount, NotOwner, ActOnSetting, ActOnOffboard, ActOnMode, ActOnSlowStart
<1>2. request[r] # Idle BY <1>1 DEF Idle
<1>3. ~request[r].wrote /\ request[r].user \in Users BY <1>1, <1>2, RequestNow
<1>4. TablesFit /\ MarksFit /\ TasksFit BY DEF EnvInv
<1>5. CASE ActMissing(r)
  <2>1. Refused(r, "unavailable") /\ UNCHANGED envVars BY <1>5 DEF ActMissing
  <2> QED BY <1>2, <2>1, EnvStays, RefusedFits DEF Reasons, Denials
<1>6. CASE ActRead(r)
  <2>1. (Answered(r) \/ Refused(r, "not_found")) /\ UNCHANGED envVars BY <1>6 DEF ActRead
  <2> QED BY <1>2, <2>1, EnvStays, AnsweredFits, RefusedFits DEF Reasons, Denials
<1>7. CASE ActOnAccount(r)
  <2>1. (Wrote(r) \/ Refused(r, "not_found")) /\ UNCHANGED envVars BY <1>7 DEF ActOnAccount
  <2> QED BY <1>1, <1>2, <2>1, EnvStays, WroteFits, RefusedFits DEF Reasons, Denials
<1>8. CASE NotOwner(r)
  <2>1. Refused(r, "environment_not_owned") /\ UNCHANGED envVars BY <1>8 DEF NotOwner
  <2> QED BY <1>2, <1>3, <2>1, EnvStays, RefusedFits DEF Reasons, Denials
<1>9. CASE ActOnSetting(r)
  <2>1. Wrote(r) /\ UNCHANGED envVars BY <1>9 DEF ActOnSetting
  <2> QED BY <1>1, <2>1, EnvStays, WroteFits
<1>10. CASE ActOnOffboard(r)
  <2>1. /\ Wrote(r) /\ owner' = [owner EXCEPT ![request[r].env] = None]
        /\ UNCHANGED <<enabled, registered, account, active, known, commentMode, slowStart, version, task, copy, recorded>>
    BY <1>10 DEF ActOnOffboard
  <2>2. TablesFit' BY <1>4, <2>1 DEF TablesFit
  <2> QED BY <1>1, <2>1, <2>2, OnlyTables, WroteFits
<1>11. ASSUME NEW m \in Modes, ActOnMode(r, m) PROVE Keeps /\ RequestsFit'
  <2>1. /\ Wrote(r) /\ commentMode' = [commentMode EXCEPT ![request[r].env] = m]
        /\ UNCHANGED <<enabled, owner, registered, account, active, known, slowStart, version, task, copy, recorded>>
    BY <1>11 DEF ActOnMode, WriteMode
  <2>2. MarksFit' BY <1>4, <2>1 DEF MarksFit
  <2>3. TasksFit' BY <1>4, <2>1, TasksStay
  <2> QED BY <1>1, <2>1, <2>2, <2>3, OnlyMarks, WroteFits
<1>12. ASSUME NEW on \in BOOLEAN, ActOnSlowStart(r, on) PROVE Keeps /\ RequestsFit'
  <2> DEFINE e == request[r].env
  <2>1. /\ Wrote(r) /\ slowStart' = [slowStart EXCEPT ![e] = Switched(e, on)]
        /\ UNCHANGED <<enabled, owner, registered, account, active, known, commentMode, copy, recorded>>
    BY <1>12 DEF ActOnSlowStart
  <2>2. MarksFit'
    <3>1. e \in Envs => Switched(e, on) \in [initialized : BOOLEAN, since : Since] BY <1>4, SwitchedShape
    <3> HIDE DEF e
    <3> QED BY <1>4, <2>1, <3>1 DEF MarksFit
  <2>3. TasksFit'
    <3>1. PICK t \in Tasks : Bump(t) BY <1>12 DEF ActOnSlowStart
    <3> QED BY <2>1, <3>1, BumpFits
  <2> QED BY <1>1, <2>1, <2>2, <2>3, OnlyMarks, WroteFits
<1> QED BY <1>5, <1>6, <1>7, <1>8, <1>9, <1>10, <1>11, <1>12 DEF Act

-----------------------------------------------------------------------------
(* The steps of requests and log-ins together.                                 *)

LEMMA TokensStay == TokensFit /\ UNCHANGED <<token, withdrawn>> => TokensFit'
BY DEF TokensFit

LEMMA IssueFits ==
  ASSUME TokensFit, NEW k \in Tokens, NEW u \in Users, Issue(k, u), UNCHANGED withdrawn
  PROVE  TokensFit'
BY DEF TokensFit, Issue

LEMMA RequestingStep == EnvInv /\ ApiInv /\ Remember /\ (LoggingIn \/ Visiting) => Keeps /\ ApiInv'
<1> SUFFICES ASSUME EnvInv, ApiInv, Remember, LoggingIn \/ Visiting PROVE Keeps /\ ApiInv' OBVIOUS
<1>0. RequestsFit /\ TokensFit /\ LoginsFit BY DEF ApiInv
<1>1. ASSUME NEW r \in Requests, IsEnabled(r), UNCHANGED envVars PROVE Keeps /\ ApiInv'
  <2>1. UNCHANGED <<token, login, failures, withdrawn>> BY <1>1 DEF IsEnabled, Others
  <2>2. TokensFit' /\ LoginsFit' BY <1>0, <2>1, TokensStay, LoginsStay
  <2> QED BY <1>0, <1>1, <2>2, EnvStays, IsEnabledFits DEF ApiInv
<1>2. CASE LoggingIn
  <2>0. Keeps BY <1>2, EnvStays DEF LoggingIn
  <2>1. ASSUME NEW l \in Logins, NEW n \in Names, NEW p \in Places, LoginStart(l, n, p) PROVE ApiInv'
    <3>1. UNCHANGED <<request, token, withdrawn>> BY <2>1 DEF LoginStart
    <3>2. RequestsFit' /\ TokensFit' BY <1>0, <3>1, TokensStay, RequestsStay
    <3> QED BY <1>0, <2>1, <3>2, LoginStartFits DEF ApiInv
  <2>2. ASSUME NEW l \in Logins, LoginFails(l) PROVE ApiInv'
    <3>1. UNCHANGED <<request, token, withdrawn>> BY <2>2 DEF LoginFails
    <3>2. RequestsFit' /\ TokensFit' BY <1>0, <3>1, TokensStay, RequestsStay
    <3> QED BY <1>0, <2>2, <3>2, LoginFailsFits DEF ApiInv
  <2>3. ASSUME NEW l \in Logins, NEW k \in Tokens, NEW u \in Users, LoginSucceeds(l, k, u) PROVE ApiInv'
    <3>1. UNCHANGED <<request, withdrawn>> /\ Issue(k, u) BY <2>3 DEF LoginSucceeds
    <3>2. RequestsFit' /\ TokensFit' BY <1>0, <3>1, IssueFits, RequestsStay
    <3> QED BY <1>0, <2>3, <3>2, LoginSucceedsFits DEF ApiInv
  <2>4. ASSUME NEW k \in Names \cup Places, WindowEnds(k) PROVE ApiInv'
    <3>1. UNCHANGED <<request, token, withdrawn>> BY <2>4 DEF WindowEnds
    <3>2. RequestsFit' /\ TokensFit' BY <1>0, <3>1, TokensStay, RequestsStay
    <3> QED BY <1>0, <2>4, <3>2, WindowEndsFits DEF ApiInv
  <2>5. ASSUME NEW r \in Requests, NEW k \in Tokens, Arrive(r, k, MyEnvironments, None, None) PROVE ApiInv'
    <3>1. UNCHANGED <<token, login, failures, withdrawn>> BY <2>5 DEF Arrive, Others
    <3>2. TokensFit' /\ LoginsFit' BY <1>0, <3>1, TokensStay, LoginsStay
    <3>3. MyEnvironments \in Doors BY DEF Doors
    <3>4. RequestsFit' BY <1>0, <2>5, <3>3, ArriveFits
    <3> QED BY <3>2, <3>4 DEF ApiInv
  <2>6. ASSUME NEW r \in Requests, NEW k \in Tokens, Refresh(r, k) PROVE ApiInv'
    <3>1. /\ request[r].at = "gate" /\ Answered(r) /\ Issue(k, request[r].user)
          /\ UNCHANGED <<login, failures, withdrawn>>
      BY <2>6 DEF Refresh, Others
    <3>2. request[r] # Idle BY <3>1 DEF Idle
    <3>3. request[r].user \in Users BY <1>0, <3>1, <3>2, RequestNow
    <3>4. TokensFit' BY <1>0, <3>1, <3>3 DEF TokensFit, Issue
    <3>5. LoginsFit' BY <1>0, <3>1, LoginsStay
    <3> QED BY <1>0, <3>1, <3>2, <3>4, <3>5, AnsweredFits DEF ApiInv
  <2>7. ASSUME NEW r \in Requests, Logout(r) PROVE ApiInv'
    <3>1. /\ request[r].at = "gate" /\ Answered(r) /\ withdrawn' = withdrawn \cup {request[r].token}
          /\ UNCHANGED <<login, failures, token>>
      BY <2>7 DEF Logout
    <3>2. request[r] # Idle BY <3>1 DEF Idle
    <3>3. request[r].token \in Tokens BY <1>0, <3>1, <3>2, RequestNow
    <3>4. TokensFit' BY <1>0, <3>1, <3>3 DEF TokensFit
    <3>5. LoginsFit' BY <1>0, <3>1, LoginsStay
    <3> QED BY <1>0, <3>1, <3>2, <3>4, <3>5, AnsweredFits DEF ApiInv
  <2>8. ASSUME NEW k \in Tokens, Expire(k) PROVE ApiInv'
    <3>1. UNCHANGED <<request, login, failures, withdrawn>> /\ token' = [token EXCEPT ![k] = None]
      BY <2>8 DEF Expire, Others
    <3>2. TokensFit' BY <1>0, <3>1 DEF TokensFit
    <3> QED BY <1>0, <3>1, <3>2, LoginsStay, RequestsStay DEF ApiInv
  <2>9. ASSUME Restart PROVE ApiInv'
    <3>1. TokensFit' BY <1>0, <2>9 DEF TokensFit, Restart
    <3> QED BY <1>0, <2>9, <3>1, RestartFits, RestartedFits DEF ApiInv
  <2> QED BY <1>1, <1>2, <2>0, <2>1, <2>2, <2>3, <2>4, <2>5, <2>6, <2>7, <2>8, <2>9 DEF LoggingIn
<1>3. CASE Visiting
  <2>1. ASSUME NEW r \in Requests, NEW k \in Tokens, NEW d \in Doors, NEW e \in Envs, NEW a \in Accounts,
               Arrive(r, k, d, e, a), UNCHANGED envVars
        PROVE  Keeps /\ ApiInv'
    <3>1. UNCHANGED <<token, login, failures, withdrawn>> BY <2>1 DEF Arrive, Others
    <3>2. TokensFit' /\ LoginsFit' BY <1>0, <3>1, TokensStay, LoginsStay
    <3>3. RequestsFit' BY <1>0, <2>1, ArriveFits
    <3> QED BY <2>1, <3>2, <3>3, EnvStays DEF ApiInv
  <2>2. ASSUME NEW r \in Requests, Gate(r), UNCHANGED envVars PROVE Keeps /\ ApiInv'
    <3>1. UNCHANGED <<token, login, failures, withdrawn>> BY <2>2 DEF Gate, Others
    <3>2. TokensFit' /\ LoginsFit' BY <1>0, <3>1, TokensStay, LoginsStay
    <3> QED BY <1>0, <2>2, <3>2, EnvStays, GateFits DEF ApiInv
  <2>3. ASSUME NEW r \in Requests, AfterWrite(r), UNCHANGED envVars PROVE Keeps /\ ApiInv'
    <3>1. UNCHANGED <<token, login, failures, withdrawn>> BY <2>3 DEF AfterWrite, Others
    <3>2. TokensFit' /\ LoginsFit' BY <1>0, <3>1, TokensStay, LoginsStay
    <3> QED BY <1>0, <2>3, <3>2, EnvStays, AfterWriteFits DEF ApiInv
  <2>4. ASSUME NEW r \in Requests, Act(r) PROVE Keeps /\ ApiInv'
    <3>1. UNCHANGED <<token, login, failures, withdrawn>>
      BY <2>4 DEF Act, ActMissing, ActRead, ActOnAccount, NotOwner, ActOnSetting, ActOnOffboard, ActOnMode,
                  ActOnSlowStart, Others
    <3>2. TokensFit' /\ LoginsFit' BY <1>0, <3>1, TokensStay, LoginsStay
    <3> QED BY <1>0, <2>4, <3>2, ActFits DEF ApiInv
  <2> QED BY <1>1, <1>3, <2>1, <2>2, <2>3, <2>4 DEF Visiting
<1> QED BY <1>2, <1>3

(* What happens beside the requests: only what is in reach changes.            *)
LEMMA ApiStays ==
  ASSUME ApiInv, Remember, UNCHANGED <<request, login, failures, token, withdrawn>>
  PROVE  ApiInv'
BY RequestsStay, TokensStay, LoginsStay DEF ApiInv

LEMMA ApiStarts ==
  ASSUME ApiInit, token \in [Tokens -> Users \cup {None}]
  PROVE  ApiInv
<1>1. RequestsFit
  <2>1. Idle \in RequestStates /\ Idle \notin OpenRequests /\ Idle.at = "idle" BY DEF RequestStates, OpenRequests, Idle
  <2> QED BY <2>1 DEF ApiInit, RequestsFit, RequestFits
<1>2. TokensFit BY DEF ApiInit, TokensFit
<1>3. LoginsFit
  <2>1. Idle \in Attempts BY DEF Attempts
  <2>2. \A k \in Names \cup Places : Verifying(k) = {} BY DEF ApiInit, Verifying, Idle
  <2>3. 0 + Cardinality({}) < MaxFailures + Cardinality(Logins) BY FS_EmptySet, Limits
  <2> QED BY <2>1, <2>2, <2>3 DEF ApiInit, LoginsFit
<1> QED BY <1>1, <1>2, <1>3 DEF ApiInv

LEMMA ApiTypes == ApiInv => ApiTypeOK
<1> SUFFICES ASSUME ApiInv PROVE ApiTypeOK OBVIOUS
<1>0. RequestsFit /\ TokensFit BY DEF ApiInv
<1>1. ASSUME NEW r \in Requests
      PROVE  /\ request[r].at \in {"idle", "status", "gate", "act", "again", "done"}
             /\ request[r].at \notin {"idle", "done"} =>
                  /\ request[r].door \in Doors /\ request[r].user \in Users
                  /\ request[r].account \in Accounts \cup {None}
                  /\ request[r].at = "act" =>
                       (request[r].account = None) = (request[r].door.gate \in {"statement", "owned", "settled"})
  BY <1>0 DEF RequestsFit, RequestFits, RequestStates, OpenRequests, Idle
<1> QED BY <1>0, <1>1 DEF ApiTypeOK, TokensFit

LEMMA DoorParts == ApiInv => DoorsHold
<1> SUFFICES ASSUME ApiInv PROVE DoorsHold OBVIOUS
<1>0. RequestsFit /\ LoginsFit BY DEF ApiInv
<1>1. ActsWithinReach
  <2> SUFFICES ASSUME NEW r \in Requests, request[r].at = "act", request[r].account # None, Belongs(r)
               PROVE  Target(r) \in reached[r]
    BY DEF ActsWithinReach
  <2>1. request[r].account \in reached[r] BY <1>0 DEF RequestsFit, RequestFits
  <2>2. Target(r) = request[r].account BY DEF Target, Belongs
  <2> QED BY <2>1, <2>2
<1>2. RefusedLeavesNothing BY <1>0 DEF RefusedLeavesNothing, RequestsFit, RequestFits, Denials
<1> QED BY <1>0, <1>1, <1>2, AttemptsWithin DEF DoorsHold

-----------------------------------------------------------------------------
(* Accounts.                                                                   *)

LEMMA NobodyIsNoRow ==
  /\ DefaultPlatform \in Platforms /\ Nobody \notin Platforms /\ Nobody \notin RowStates
  /\ IsFiniteSet(Handshakes) /\ Cardinality(Handshakes) \in Nat /\ MaxStatus \in Nat
BY AccountsAssumption, FS_CardinalityType DEF RowStates

LEMMA AccTypes == AccInv => AccountsTypeOK
<1> SUFFICES ASSUME AccountsTyped PROVE AccountsTypeOK BY DEF AccInv
<1>1. \A c \in Handshakes : errand[c].at \in {"waiting", "inserted", "existing", "seed", "write"}
  BY DEF AccountsTyped, ErrandStates, Waiting
<1> QED BY <1>1 DEF AccountsTyped, AccountsTypeOK, RowStates

LEMMA AccStarts == AccountsInit => AccInv
<1> SUFFICES ASSUME AccountsInit PROVE AccInv OBVIOUS
<1>1. AccountsTyped
  <2>1. Waiting \in ErrandStates /\ 0 \in 0..Cardinality(Handshakes) /\ 0 \in 0..MaxStatus
    BY NobodyIsNoRow DEF ErrandStates
  <2> QED BY <2>1 DEF AccountsInit, AccountsTyped
<1>2. ErrandsFit BY DEF AccountsInit, ErrandsFit, ErrandFits, Makes, Waiting
<1>3. PlatformIsTheRows BY DEF AccountsInit, PlatformIsTheRows
<1>4. SeededOnce BY DEF AccountsInit, SeededOnce
<1>5. RostersFit /\ CursorNamesOneRoster BY DEF AccountsInit, RostersFit, CursorNamesOneRoster
<1> QED BY <1>1, <1>2, <1>3, <1>4, <1>5 DEF AccInv

(* Rows stay, and stay on their platform; what was declared stays declared.    *)
RowsKeep ==
  /\ \A a \in Rows : row[a] # Nobody => row'[a] # Nobody /\ row'[a].platform = row[a].platform
  /\ \A a \in Rows : declared[a] \subseteq declared'[a]

LEMMA RowNow ==
  ASSUME AccountsTyped, NEW a \in Rows
  PROVE  /\ a \in Here => row[a] \in RowStates /\ row[a].platform \in Platforms
         /\ (a \in Here) = (row[a] # Nobody)
BY DEF AccountsTyped, RowStates, Here

LEMMA ErrandNow ==
  ASSUME AccountsTyped, NEW c \in Handshakes
  PROVE  /\ errand[c] \in ErrandStates
         /\ errand[c].at \in {"inserted", "existing", "seed"} =>
              /\ errand[c].server \in Servers /\ errand[c].account \in Rows
              /\ errand[c].platform \in Platforms \cup {Nobody}
         /\ errand[c].at = "write" => errand[c].server \in Servers /\ errand[c].account \in Rows /\ errand[c].paused \in BOOLEAN
BY DEF AccountsTyped, ErrandStates, Waiting

(* One errand is changed, and nothing is seeded for what another has made.     *)
LEMMA ErrandMoves ==
  ASSUME AccountsTyped, ErrandsFit, RowsKeep, NEW c \in Handshakes,
         \A b \in Handshakes \ {c} : errand'[b] = errand[b],
         \A b \in Handshakes \ {c}, a \in Rows : Makes(b, a) => seeded'[a] = seeded[a],
         ErrandFits(c, errand[c])',
         \A b \in Handshakes \ {c}, a \in Rows : Makes(c, a)' => ~Makes(b, a)
  PROVE  ErrandsFit'
<1>1. ASSUME NEW b \in Handshakes, b # c PROVE ErrandFits(b, errand[b])'
  <2>1. errand'[b] = errand[b] /\ ErrandFits(b, errand[b]) BY <1>1 DEF ErrandsFit
  <2>2. errand[b].at \in {"inserted", "existing", "seed"} => errand[b].account \in Rows /\ errand[b].account \in Here'
    BY <2>1, ErrandNow DEF ErrandFits, RowsKeep, Here
  <2>3. ASSUME errand[b].at \in {"inserted", "seed"}
        PROVE  LET a == errand[b].account IN
               /\ row'[a].platform = Stored(errand[b].platform)
               /\ errand[b].platform # Nobody => errand[b].platform \in declared'[a]
               /\ \A p \in Platforms : seeded'[a][p] = 0
    <3> DEFINE a == errand[b].account
    <3>1. a \in Rows /\ a \in Here /\ Makes(b, a) BY <2>1, <2>3, ErrandNow DEF ErrandFits, Makes
    <3>2. seeded'[a] = seeded[a] BY <3>1, <1>1
    <3>3. row'[a].platform = row[a].platform /\ declared[a] \subseteq declared'[a] BY <3>1 DEF RowsKeep, Here
    <3> QED BY <2>1, <2>3, <3>2, <3>3 DEF ErrandFits
  <2> QED BY <2>1, <2>2, <2>3 DEF ErrandFits, Stored
<1>2. \A b \in Handshakes : ErrandFits(b, errand[b])' BY <1>1
<1>3. ASSUME NEW a \in Rows, NEW b \in Handshakes, NEW d \in Handshakes, Makes(b, a)', Makes(d, a)' PROVE b = d
  <2>1. \A x \in Handshakes \ {c} : Makes(x, a)' => Makes(x, a) BY DEF Makes
  <2> QED BY <1>3, <2>1 DEF ErrandsFit
<1> QED BY <1>2, <1>3 DEF ErrandsFit

LEMMA ErrandsStay ==
  ASSUME AccountsTyped, ErrandsFit, RowsKeep, UNCHANGED <<errand, seeded>>
  PROVE  ErrandsFit'
<1>1. ASSUME NEW c \in Handshakes PROVE ErrandFits(c, errand[c])'
  <2>1. ErrandFits(c, errand[c]) BY DEF ErrandsFit
  <2>2. errand[c].at \in {"inserted", "existing", "seed"} => errand[c].account \in Rows /\ errand[c].account \in Here
    BY <2>1, ErrandNow DEF ErrandFits
  <2> QED BY <2>1, <2>2 DEF ErrandFits, RowsKeep, Here, Stored
<1>2. \A a \in Rows : \A c, d \in Handshakes : Makes(c, a)' /\ Makes(d, a)' => c = d BY DEF ErrandsFit, Makes
<1> QED BY <1>1, <1>2 DEF ErrandsFit

LEMMA PlatformsStay ==
  ASSUME PlatformIsTheRows, RowsKeep, UNCHANGED platformCache
  PROVE  PlatformIsTheRows'
BY DEF PlatformIsTheRows, RowsKeep, Here

LEMMA SeededStays ==
  ASSUME SeededOnce, RowsKeep, UNCHANGED seeded
  PROVE  SeededOnce'
BY DEF SeededOnce, RowsKeep, Here

(* Whatever the roster shows moves the version with it.                        *)
LEMMA RostersMove ==
  ASSUME AccountsTyped, RostersFit, CursorNamesOneRoster, UNCHANGED rosters,
         statusVersion' = statusVersion + 1 \/ UNCHANGED <<row, statusVersion>>
  PROVE  RostersFit' /\ CursorNamesOneRoster'
<1>1. statusVersion \in Nat BY NobodyIsNoRow DEF AccountsTyped
<1>2. CursorNamesOneRoster' BY DEF CursorNamesOneRoster
<1>3. CASE statusVersion' = statusVersion + 1
  <2> SUFFICES ASSUME NEW x \in rosters PROVE x.cursor \in 0..statusVersion' /\ x.cursor # statusVersion'
    BY <1>2 DEF RostersFit
  <2>1. x.cursor \in 0..statusVersion BY DEF RostersFit
  <2> QED BY <2>1, <1>1, <1>3
<1>4. CASE UNCHANGED <<row, statusVersion>>
  <2>1. Roster' = Roster BY <1>4 DEF Roster, Here
  <2> QED BY <2>1, <1>2, <1>4 DEF RostersFit
<1> QED BY <1>2, <1>3, <1>4

(* A process learns the platform of one row, as the table has it.              *)
LEMMA CacheFills ==
  ASSUME AccountsTyped, PlatformIsTheRows, NEW s \in Servers, NEW a \in Rows, NEW v \in Platforms \cup {Nobody},
         platformCache' = [platformCache EXCEPT ![s][a] = v],
         v # Nobody => a \in Here /\ v = row[a].platform, UNCHANGED row
  PROVE  PlatformIsTheRows' /\ platformCache' \in [Servers -> [Rows -> Platforms \cup {Nobody}]]
<1>1. platformCache \in [Servers -> [Rows -> Platforms \cup {Nobody}]] BY DEF AccountsTyped
<1>2. platformCache' \in [Servers -> [Rows -> Platforms \cup {Nobody}]] BY <1>1
<1>3. \A t \in Servers, b \in Rows : platformCache'[t][b] = IF t = s /\ b = a THEN v ELSE platformCache[t][b] BY <1>1
<1> QED BY <1>2, <1>3 DEF PlatformIsTheRows, Here

LEMMA Waits ==
  ASSUME NEW c \in Handshakes, errand'[c] = Waiting
  PROVE  ErrandFits(c, errand[c])' /\ \A a \in Rows : ~Makes(c, a)'
BY DEF ErrandFits, Makes, Waiting

LEMMA StartFits == ASSUME AccInv, NEW s \in Servers, Start(s) PROVE AccInv'
<1>0. AccountsTyped /\ ErrandsFit /\ PlatformIsTheRows /\ SeededOnce /\ RostersFit /\ CursorNamesOneRoster BY DEF AccInv
<1>1. UNCHANGED <<row, statusVersion, errand, seeded, declared, rosters>> BY DEF Start
<1>2. /\ platformCache' = [platformCache EXCEPT ![s] = [a \in Rows |-> IF a \in Here THEN row[a].platform ELSE Nobody]]
      /\ paused' = [paused EXCEPT ![s] = {a \in Here : row[a].paused}]
  BY DEF Start
<1>3. RowsKeep BY <1>1 DEF RowsKeep
<1>4. ErrandsFit' /\ SeededOnce' /\ RostersFit' /\ CursorNamesOneRoster'
  BY <1>0, <1>1, <1>3, ErrandsStay, SeededStays, RostersMove
<1>5. [a \in Rows |-> IF a \in Here THEN row[a].platform ELSE Nobody] \in [Rows -> Platforms \cup {Nobody}]
  BY <1>0, RowNow
<1>6. AccountsTyped'
  <2>1. platformCache' \in [Servers -> [Rows -> Platforms \cup {Nobody}]] BY <1>0, <1>2, <1>5 DEF AccountsTyped
  <2>2. paused' \in [Servers -> SUBSET Rows] BY <1>0, <1>2 DEF AccountsTyped, Here
  <2> QED BY <1>0, <1>1, <2>1, <2>2 DEF AccountsTyped
<1>7. PlatformIsTheRows'
  <2> SUFFICES ASSUME NEW t \in Servers, NEW a \in Rows, platformCache'[t][a] # Nobody
               PROVE  a \in Here /\ platformCache'[t][a] = row[a].platform
    BY <1>1 DEF PlatformIsTheRows, Here
  <2>1. CASE t = s BY <2>1, <1>0, <1>2 DEF AccountsTyped
  <2>2. CASE t # s BY <2>2, <1>0, <1>2 DEF AccountsTyped, PlatformIsTheRows
  <2> QED BY <2>1, <2>2
<1> QED BY <1>4, <1>6, <1>7 DEF AccInv

LEMMA EnsureAccountFits ==
  ASSUME AccInv, statusVersion < MaxStatus, NEW c \in Handshakes, NEW s \in Servers, NEW a \in Rows,
         NEW p \in Platforms \cup {Nobody}, EnsureAccount(c, s, a, p)
  PROVE  AccInv'
<1>0. AccountsTyped /\ ErrandsFit /\ PlatformIsTheRows /\ SeededOnce /\ RostersFit /\ CursorNamesOneRoster BY DEF AccInv
<1>1. UNCHANGED <<platformCache, paused, seeded, rosters>> /\ statusVersion' = statusVersion + 1
  BY DEF EnsureAccount, Bumped
<1>2. row' = IF a \in Here THEN row ELSE [row EXCEPT ![a] = Blank(Stored(p))] BY DEF EnsureAccount
<1>3. declared' = [declared EXCEPT ![a] = @ \cup ({p} \ {Nobody})] BY DEF EnsureAccount
<1> DEFINE d == [at |-> IF a \in Here THEN "existing" ELSE "inserted", server |-> s, account |-> a, platform |-> p]
<1>4. errand' = [errand EXCEPT ![c] = d] BY DEF EnsureAccount
<1>5. Stored(p) \in Platforms /\ Blank(Stored(p)) \in RowStates /\ Blank(Stored(p)).platform = Stored(p)
  BY NobodyIsNoRow DEF Stored, Blank, RowStates
<1>6. row \in [Rows -> RowStates \cup {Nobody}] BY <1>0 DEF AccountsTyped
<1>7. /\ row' \in [Rows -> RowStates \cup {Nobody}] /\ row'[a] # Nobody
      /\ a \notin Here => row'[a].platform = Stored(p)
      /\ \A b \in Rows : row[b] # Nobody => row'[b] = row[b]
  BY <1>2, <1>5, <1>6, NobodyIsNoRow DEF Here
<1>8. declared' \in [Rows -> SUBSET Platforms] /\ (p # Nobody => p \in declared'[a])
      /\ \A b \in Rows : declared[b] \subseteq declared'[b]
  BY <1>0, <1>3 DEF AccountsTyped
<1>9. RowsKeep BY <1>7, <1>8 DEF RowsKeep
<1>10. d \in ErrandStates BY DEF ErrandStates
<1>11. errand' \in [Handshakes -> ErrandStates] /\ errand'[c] = d /\ \A b \in Handshakes \ {c} : errand'[b] = errand[b]
  BY <1>0, <1>4, <1>10 DEF AccountsTyped
<1>12. AccountsTyped'
  <2>1. statusVersion' \in 0..MaxStatus BY <1>0, <1>1, NobodyIsNoRow DEF AccountsTyped
  <2> QED BY <1>0, <1>1, <1>7, <1>8, <1>11, <2>1 DEF AccountsTyped
<1>13. ErrandsFit'
  <2>1. a \notin Here => \A q \in Platforms : seeded[a][q] = 0
    BY <1>0 DEF SeededOnce, AccountsTyped
  <2>2. ErrandFits(c, errand[c])' BY <1>1, <1>7, <1>8, <1>11, <2>1 DEF ErrandFits, Here, Stored
  <2>3. \A b \in Handshakes \ {c}, x \in Rows : Makes(c, x)' => ~Makes(b, x)
    <3>1. \A x \in Rows : Makes(c, x)' => x = a /\ a \notin Here BY <1>11 DEF Makes
    <3>2. \A b \in Handshakes : Makes(b, a) => a \in Here BY <1>0 DEF Makes, ErrandsFit, ErrandFits
    <3> QED BY <3>1, <3>2
  <2> QED BY <1>0, <1>1, <1>9, <1>11, <2>2, <2>3, ErrandMoves
<1>14. PlatformIsTheRows' /\ SeededOnce' /\ RostersFit' /\ CursorNamesOneRoster'
  BY <1>0, <1>1, <1>9, PlatformsStay, SeededStays, RostersMove
<1> QED BY <1>12, <1>13, <1>14 DEF AccInv

(* What follows an insertion: the process learns the platform, and may seed.   *)
LEMMA InsertedFits == ASSUME AccInv, NEW c \in Handshakes, Inserted(c) PROVE AccInv'
<1>0. AccountsTyped /\ ErrandsFit /\ PlatformIsTheRows /\ SeededOnce /\ RostersFit /\ CursorNamesOneRoster BY DEF AccInv
<1> DEFINE s == errand[c].server
           a == errand[c].account
           p == errand[c].platform
           d == [at |-> "seed", server |-> s, account |-> a, platform |-> p]
<1>1. UNCHANGED <<row, statusVersion, paused, seeded, declared, rosters>> /\ errand[c].at = "inserted" BY DEF Inserted
<1>2. /\ platformCache' = [platformCache EXCEPT ![s][a] = Stored(p)]
      /\ errand' = [errand EXCEPT ![c] = IF p = Nobody THEN Waiting ELSE [errand[c] EXCEPT !.at = "seed"]]
  BY <1>0 DEF Inserted, AccountsTyped
<1>3. /\ errand[c] \in [at: {"inserted", "existing", "seed"}, server: Servers, account: Rows, platform: Platforms \cup {Nobody}]
      /\ s \in Servers /\ a \in Rows /\ p \in Platforms \cup {Nobody}
  BY <1>0, <1>1 DEF AccountsTyped, ErrandStates, Waiting
<1>4. [errand[c] EXCEPT !.at = "seed"] = d /\ d \in ErrandStates BY <1>3 DEF ErrandStates
<1>5. ErrandFits(c, errand[c]) BY <1>0 DEF ErrandsFit
<1>6. a \in Here /\ row[a].platform = Stored(p) BY <1>1, <1>5 DEF ErrandFits
<1>7. Stored(p) \in Platforms BY <1>3, NobodyIsNoRow DEF Stored
<1>8. RowsKeep BY <1>1 DEF RowsKeep
<1>9. errand'[c] = (IF p = Nobody THEN Waiting ELSE d) /\ errand' \in [Handshakes -> ErrandStates]
      /\ \A b \in Handshakes \ {c} : errand'[b] = errand[b]
  BY <1>0, <1>2, <1>4 DEF AccountsTyped, ErrandStates
<1>10. PlatformIsTheRows' /\ platformCache' \in [Servers -> [Rows -> Platforms \cup {Nobody}]]
  <2> DEFINE v == Stored(p)
  <2>1. v \in Platforms \cup {Nobody} /\ v = row[a].platform /\ a \in Here BY <1>6, <1>7
  <2>2. platformCache' = [platformCache EXCEPT ![s][a] = v] BY <1>2
  <2> HIDE DEF v, s, a
  <2> QED BY <1>0, <1>1, <1>3, <2>1, <2>2, CacheFills
<1>11. AccountsTyped' BY <1>0, <1>1, <1>9, <1>10 DEF AccountsTyped
<1>12. ErrandsFit'
  <2>1. ErrandFits(c, errand[c])' BY <1>1, <1>5, <1>9 DEF ErrandFits, Waiting, Here, Stored
  <2>2. \A b \in Handshakes \ {c}, x \in Rows : Makes(c, x)' => ~Makes(b, x)
    <3>1. \A x \in Rows : Makes(c, x)' => Makes(c, x) BY <1>1, <1>9 DEF Makes, Waiting
    <3> QED BY <3>1, <1>0 DEF ErrandsFit
  <2> QED BY <1>0, <1>1, <1>8, <1>9, <2>1, <2>2, ErrandMoves
<1>13. SeededOnce' /\ RostersFit' /\ CursorNamesOneRoster' BY <1>0, <1>1, <1>8, SeededStays, RostersMove
<1> QED BY <1>10, <1>11, <1>12, <1>13 DEF AccInv

LEMMA SeedFits == ASSUME AccInv, NEW c \in Handshakes, Seed(c) PROVE AccInv'
<1>0. AccountsTyped /\ ErrandsFit /\ PlatformIsTheRows /\ SeededOnce /\ RostersFit /\ CursorNamesOneRoster BY DEF AccInv
<1> DEFINE a == errand[c].account
           p == errand[c].platform
<1>1. /\ UNCHANGED <<row, statusVersion, platformCache, paused, declared, rosters>>
      /\ errand[c].at = "seed" /\ errand' = [errand EXCEPT ![c] = Waiting]
      /\ (seeded' = [seeded EXCEPT ![a][Stored(p)] = seeded[a][Stored(p)] + 1] \/ seeded' = seeded)
  BY <1>0 DEF Seed, AccountsTyped
<1>2. a \in Rows /\ p \in Platforms \cup {Nobody} BY <1>0, <1>1, ErrandNow
<1>3. /\ a \in Here /\ row[a].platform = Stored(p) /\ p # Nobody /\ p \in declared[a]
      /\ \A q \in Platforms : seeded[a][q] = 0
  BY <1>0, <1>1 DEF ErrandsFit, ErrandFits
<1>4. Stored(p) = p /\ p \in Platforms BY <1>2, <1>3 DEF Stored
<1>5. 1 \in 0..Cardinality(Handshakes)
  <2>1. Cardinality(Handshakes) # 0 BY NobodyIsNoRow, FS_EmptySet
  <2> QED BY <2>1, NobodyIsNoRow
<1>6. seeded \in [Rows -> [Platforms -> 0..Cardinality(Handshakes)]] BY <1>0 DEF AccountsTyped
<1> HIDE DEF a, p
<1>7. /\ seeded' \in [Rows -> [Platforms -> 0..Cardinality(Handshakes)]]
      /\ \A b \in Rows : b # a => seeded'[b] = seeded[b]
      /\ \A q \in Platforms : q # p => seeded'[a][q] = 0
      /\ seeded'[a][p] <= 1
  <2>1. CASE seeded' = seeded BY <2>1, <1>2, <1>3, <1>4, <1>6
  <2>2. CASE seeded' = [seeded EXCEPT ![a][Stored(p)] = seeded[a][Stored(p)] + 1]
    <3> DEFINE f == [seeded[a] EXCEPT ![p] = seeded[a][p] + 1]
    <3>1. seeded' = [seeded EXCEPT ![a] = f] BY <2>2, <1>2, <1>4, <1>6
    <3>2. seeded[a] \in [Platforms -> 0..Cardinality(Handshakes)] /\ seeded[a][p] + 1 = 1 BY <1>2, <1>3, <1>4, <1>6
    <3>3. f \in [Platforms -> 0..Cardinality(Handshakes)] /\ f[p] = 1 /\ \A q \in Platforms : q # p => f[q] = 0
      BY <3>2, <1>3, <1>4, <1>5
    <3> HIDE DEF f
    <3> QED BY <3>1, <3>3, <1>2, <1>4, <1>6
  <2> QED BY <1>1, <2>1, <2>2
<1>8. RowsKeep BY <1>1 DEF RowsKeep
<1>9. errand'[c] = Waiting /\ errand' \in [Handshakes -> ErrandStates] /\ \A b \in Handshakes \ {c} : errand'[b] = errand[b]
  BY <1>0, <1>1 DEF AccountsTyped, ErrandStates
<1>10. AccountsTyped' BY <1>0, <1>1, <1>7, <1>9 DEF AccountsTyped
<1>11. ErrandsFit'
  <2>1. ErrandFits(c, errand[c])' /\ \A x \in Rows : ~Makes(c, x)' BY <1>9, Waits
  <2>2. \A b \in Handshakes \ {c}, x \in Rows : Makes(b, x) => seeded'[x] = seeded[x]
    <3>1. Makes(c, a) BY <1>1 DEF Makes, a
    <3>2. \A b \in Handshakes \ {c} : ~Makes(b, a) BY <3>1, <1>0, <1>2 DEF ErrandsFit
    <3> QED BY <3>2, <1>7
  <2> QED BY <1>0, <1>8, <1>9, <2>1, <2>2, ErrandMoves
<1>12. SeededOnce'
  <2> SUFFICES ASSUME NEW b \in Rows, NEW q \in Platforms
               PROVE  /\ seeded'[b][q] <= 1
                      /\ seeded'[b][q] > 0 => b \in Here' /\ row'[b].platform = q /\ q \in declared'[b]
    BY DEF SeededOnce
  <2>1. CASE b # a BY <2>1, <1>0, <1>1, <1>7 DEF SeededOnce, Here
  <2>2. CASE b = a /\ q # p BY <2>2, <1>7
  <2>3. CASE b = a /\ q = p BY <2>3, <1>1, <1>3, <1>4, <1>7 DEF Here
  <2> QED BY <2>1, <2>2, <2>3
<1>13. PlatformIsTheRows' /\ RostersFit' /\ CursorNamesOneRoster' BY <1>0, <1>1, <1>8, PlatformsStay, RostersMove
<1> QED BY <1>10, <1>11, <1>12, <1>13 DEF AccInv

(* What a process reads of a row that was there.                               *)
LEMMA HydrateFits == ASSUME AccInv, NEW c \in Handshakes, Hydrate(c) PROVE AccInv'
<1>0. AccountsTyped /\ ErrandsFit /\ PlatformIsTheRows /\ SeededOnce /\ RostersFit /\ CursorNamesOneRoster BY DEF AccInv
<1> DEFINE s == errand[c].server
           a == errand[c].account
           v == IF platformCache[s][a] = Nobody THEN row[a].platform ELSE platformCache[s][a]
<1>1. /\ UNCHANGED <<row, statusVersion, paused, seeded, declared, rosters>>
      /\ errand[c].at = "existing" /\ errand' = [errand EXCEPT ![c] = Waiting]
  BY DEF Hydrate
<1>2. s \in Servers /\ a \in Rows BY <1>0, <1>1, ErrandNow
<1>3. platformCache' = [platformCache EXCEPT ![s][a] = v] BY <1>0, <1>2 DEF Hydrate, AccountsTyped
<1>4. a \in Here BY <1>0, <1>1 DEF ErrandsFit, ErrandFits
<1>5. v \in Platforms \cup {Nobody} /\ v = row[a].platform
  BY <1>0, <1>2, <1>4, RowNow DEF PlatformIsTheRows
<1> HIDE DEF s, a, v
<1>6. PlatformIsTheRows' /\ platformCache' \in [Servers -> [Rows -> Platforms \cup {Nobody}]]
  BY <1>0, <1>1, <1>2, <1>3, <1>4, <1>5, CacheFills
<1>7. errand'[c] = Waiting /\ errand' \in [Handshakes -> ErrandStates] /\ \A b \in Handshakes \ {c} : errand'[b] = errand[b]
  BY <1>0, <1>1 DEF AccountsTyped, ErrandStates
<1>8. RowsKeep BY <1>1 DEF RowsKeep
<1>9. AccountsTyped' BY <1>0, <1>1, <1>6, <1>7 DEF AccountsTyped
<1>10. ErrandsFit' BY <1>0, <1>1, <1>7, <1>8, ErrandMoves, Waits
<1>11. SeededOnce' /\ RostersFit' /\ CursorNamesOneRoster' BY <1>0, <1>1, <1>8, SeededStays, RostersMove
<1> QED BY <1>6, <1>9, <1>10, <1>11 DEF AccInv

LEMMA GetPlatformFits == ASSUME AccInv, NEW s \in Servers, NEW a \in Rows, GetPlatform(s, a) PROVE AccInv'
<1>0. AccountsTyped /\ ErrandsFit /\ PlatformIsTheRows /\ SeededOnce /\ RostersFit /\ CursorNamesOneRoster BY DEF AccInv
<1>1. /\ UNCHANGED <<row, statusVersion, paused, errand, seeded, declared, rosters>> /\ a \in Here
      /\ platformCache' = [platformCache EXCEPT ![s][a] = row[a].platform]
  BY DEF GetPlatform
<1> DEFINE v == row[a].platform
<1>2. v \in Platforms \cup {Nobody} /\ v = row[a].platform /\ platformCache' = [platformCache EXCEPT ![s][a] = v]
  BY <1>0, <1>1, RowNow
<1> HIDE DEF v
<1>3. PlatformIsTheRows' /\ platformCache' \in [Servers -> [Rows -> Platforms \cup {Nobody}]]
  BY <1>0, <1>1, <1>2, CacheFills
<1>4. RowsKeep BY <1>1 DEF RowsKeep
<1>5. AccountsTyped' BY <1>0, <1>1, <1>3 DEF AccountsTyped
<1>6. ErrandsFit' /\ SeededOnce' /\ RostersFit' /\ CursorNamesOneRoster'
  BY <1>0, <1>1, <1>4, ErrandsStay, SeededStays, RostersMove
<1> QED BY <1>3, <1>5, <1>6 DEF AccInv

(* A row is made or changed, but not its platform, and the version moves.      *)
LEMMA RowChanges ==
  ASSUME AccInv, statusVersion < MaxStatus, statusVersion' = statusVersion + 1,
         row' \in [Rows -> RowStates \cup {Nobody}], RowsKeep,
         UNCHANGED <<platformCache, paused, seeded, declared, rosters>>
  PROVE  /\ PlatformIsTheRows' /\ SeededOnce' /\ RostersFit' /\ CursorNamesOneRoster'
         /\ errand' \in [Handshakes -> ErrandStates] => AccountsTyped'
<1>0. AccountsTyped /\ ErrandsFit /\ PlatformIsTheRows /\ SeededOnce /\ RostersFit /\ CursorNamesOneRoster BY DEF AccInv
<1>1. PlatformIsTheRows' /\ SeededOnce' /\ RostersFit' /\ CursorNamesOneRoster'
  BY <1>0, PlatformsStay, SeededStays, RostersMove
<1>2. statusVersion' \in 0..MaxStatus BY <1>0, NobodyIsNoRow DEF AccountsTyped
<1>3. errand' \in [Handshakes -> ErrandStates] => AccountsTyped' BY <1>0, <1>2 DEF AccountsTyped
<1> QED BY <1>1, <1>3

LEMMA BlankShape == Blank(DefaultPlatform) \in RowStates /\ Blank(DefaultPlatform).platform = DefaultPlatform
BY NobodyIsNoRow DEF Blank, RowStates

LEMMA SetNicknameFits ==
  ASSUME AccInv, statusVersion < MaxStatus, NEW a \in Rows, SetNickname(a) PROVE AccInv'
<1>0. AccountsTyped /\ ErrandsFit BY DEF AccInv
<1>1. /\ UNCHANGED <<platformCache, paused, errand, seeded, declared, rosters>> /\ statusVersion' = statusVersion + 1
      /\ row' = IF a \in Here THEN row ELSE [row EXCEPT ![a] = Blank(DefaultPlatform)]
  BY DEF SetNickname, Bumped
<1>2. row' \in [Rows -> RowStates \cup {Nobody}] BY <1>0, <1>1, BlankShape DEF AccountsTyped
<1>3. RowsKeep BY <1>0, <1>1, BlankShape, NobodyIsNoRow DEF RowsKeep, AccountsTyped, Here
<1>4. ErrandsFit' BY <1>0, <1>1, <1>3, ErrandsStay
<1>5. errand' \in [Handshakes -> ErrandStates] BY <1>0, <1>1 DEF AccountsTyped
<1> QED BY <1>1, <1>2, <1>3, <1>4, <1>5, RowChanges DEF AccInv

LEMMA SetGroupLabelFits ==
  ASSUME AccInv, statusVersion < MaxStatus, NEW a \in Rows, NEW n \in Labels \cup {Nobody}, SetGroupLabel(a, n)
  PROVE  AccInv'
<1>0. AccountsTyped /\ ErrandsFit BY DEF AccInv
<1> DEFINE d == [row[a] EXCEPT !.group = n]
<1>1. /\ UNCHANGED <<platformCache, paused, errand, seeded, declared, rosters>> /\ statusVersion' = statusVersion + 1
      /\ row' = IF a \in Here THEN [row EXCEPT ![a] = d] ELSE row
  BY <1>0 DEF SetGroupLabel, Bumped, AccountsTyped
<1>2. a \in Here => d \in RowStates /\ d.platform = row[a].platform BY <1>0, RowNow DEF RowStates
<1> HIDE DEF d
<1>3. row' \in [Rows -> RowStates \cup {Nobody}] BY <1>0, <1>1, <1>2 DEF AccountsTyped
<1>4. RowsKeep BY <1>0, <1>1, <1>2, NobodyIsNoRow DEF RowsKeep, AccountsTyped, Here
<1>5. ErrandsFit' BY <1>0, <1>1, <1>4, ErrandsStay
<1>6. errand' \in [Handshakes -> ErrandStates] BY <1>0, <1>1 DEF AccountsTyped
<1> QED BY <1>1, <1>3, <1>4, <1>5, <1>6, RowChanges DEF AccInv

LEMMA SetPausedFits ==
  ASSUME AccInv, statusVersion < MaxStatus, NEW c \in Handshakes, SetPaused(c) PROVE AccInv'
<1>0. AccountsTyped /\ ErrandsFit BY DEF AccInv
<1> DEFINE a == errand[c].account
           b == IF a \in Here THEN row[a] ELSE Blank(DefaultPlatform)
           d == [b EXCEPT !.paused = errand[c].paused]
<1>1. /\ UNCHANGED <<platformCache, paused, seeded, declared, rosters>> /\ statusVersion' = statusVersion + 1
      /\ errand[c].at = "write" /\ errand' = [errand EXCEPT ![c] = Waiting]
      /\ row' = [row EXCEPT ![a] = d]
  BY <1>0 DEF SetPaused, Bumped, AccountsTyped
<1>2. a \in Rows /\ errand[c].paused \in BOOLEAN BY <1>0, <1>1, ErrandNow
<1>3. b \in RowStates /\ (a \in Here => b.platform = row[a].platform) BY <1>0, <1>2, RowNow, BlankShape
<1> HIDE DEF b
<1>4. d \in RowStates /\ (a \in Here => d.platform = row[a].platform) BY <1>2, <1>3 DEF RowStates
<1> HIDE DEF d, a
<1>5. row' \in [Rows -> RowStates \cup {Nobody}] BY <1>0, <1>1, <1>4 DEF AccountsTyped
<1>6. RowsKeep BY <1>0, <1>1, <1>4, NobodyIsNoRow DEF RowsKeep, AccountsTyped, Here
<1>7. errand'[c] = Waiting /\ errand' \in [Handshakes -> ErrandStates] /\ \A x \in Handshakes \ {c} : errand'[x] = errand[x]
  BY <1>0, <1>1 DEF AccountsTyped, ErrandStates
<1>8. ErrandsFit' BY <1>0, <1>1, <1>6, <1>7, ErrandMoves, Waits
<1> QED BY <1>1, <1>5, <1>6, <1>7, <1>8, RowChanges DEF AccInv

LEMMA SetPausedFailsFits == ASSUME AccInv, NEW c \in Handshakes, SetPausedFails(c) PROVE AccInv'
<1>0. AccountsTyped /\ ErrandsFit /\ PlatformIsTheRows /\ SeededOnce /\ RostersFit /\ CursorNamesOneRoster BY DEF AccInv
<1>1. /\ UNCHANGED <<row, statusVersion, platformCache, paused, seeded, declared, rosters>>
      /\ errand' = [errand EXCEPT ![c] = Waiting]
  BY DEF SetPausedFails
<1>2. RowsKeep BY <1>1 DEF RowsKeep
<1>3. errand'[c] = Waiting /\ errand' \in [Handshakes -> ErrandStates] /\ \A x \in Handshakes \ {c} : errand'[x] = errand[x]
  BY <1>0, <1>1 DEF AccountsTyped, ErrandStates
<1>4. ErrandsFit' BY <1>0, <1>1, <1>2, <1>3, ErrandMoves, Waits
<1>5. AccountsTyped' BY <1>0, <1>1, <1>3 DEF AccountsTyped
<1>6. PlatformIsTheRows' /\ SeededOnce' /\ RostersFit' /\ CursorNamesOneRoster'
  BY <1>0, <1>1, <1>2, PlatformsStay, SeededStays, RostersMove
<1> QED BY <1>4, <1>5, <1>6 DEF AccInv

LEMMA PauseOrResumeFits ==
  ASSUME AccInv, NEW c \in Handshakes, NEW s \in Servers, NEW a \in Rows, NEW p \in BOOLEAN, PauseOrResume(c, s, a, p)
  PROVE  AccInv'
<1>0. AccountsTyped /\ ErrandsFit /\ PlatformIsTheRows /\ SeededOnce /\ RostersFit /\ CursorNamesOneRoster BY DEF AccInv
<1> DEFINE d == [at |-> "write", server |-> s, account |-> a, paused |-> p]
<1>1. /\ UNCHANGED <<row, statusVersion, platformCache, seeded, declared, rosters>>
      /\ errand' = [errand EXCEPT ![c] = d]
  BY DEF PauseOrResume
<1>2. paused' = [paused EXCEPT ![s] = IF p THEN paused[s] \cup {a} ELSE paused[s] \ {a}]
  BY <1>0 DEF PauseOrResume, RememberPause, AccountsTyped
<1>3. paused' \in [Servers -> SUBSET Rows] BY <1>0, <1>2 DEF AccountsTyped
<1>4. RowsKeep BY <1>1 DEF RowsKeep
<1>5. d \in ErrandStates BY DEF ErrandStates
<1>6. errand'[c] = d /\ errand' \in [Handshakes -> ErrandStates] /\ \A x \in Handshakes \ {c} : errand'[x] = errand[x]
  BY <1>0, <1>1, <1>5 DEF AccountsTyped
<1>7. AccountsTyped' BY <1>0, <1>1, <1>3, <1>6 DEF AccountsTyped
<1>8. ErrandFits(c, errand[c])' /\ \A x \in Rows : ~Makes(c, x)' BY <1>6 DEF ErrandFits, Makes
<1>9. ErrandsFit' BY <1>0, <1>1, <1>4, <1>6, <1>8, ErrandMoves
<1>10. PlatformIsTheRows' /\ SeededOnce' /\ RostersFit' /\ CursorNamesOneRoster'
  BY <1>0, <1>1, <1>4, PlatformsStay, SeededStays, RostersMove
<1> QED BY <1>7, <1>9, <1>10 DEF AccInv

LEMMA SendRosterFits == ASSUME AccInv, SendRoster PROVE AccInv'
<1>0. AccountsTyped /\ ErrandsFit /\ PlatformIsTheRows /\ SeededOnce /\ RostersFit /\ CursorNamesOneRoster BY DEF AccInv
<1>1. /\ UNCHANGED <<row, statusVersion, platformCache, paused, errand, seeded, declared>>
      /\ rosters' = rosters \cup {[cursor |-> statusVersion, accounts |-> Roster]}
  BY DEF SendRoster
<1>2. RowsKeep /\ Roster' = Roster BY <1>1 DEF RowsKeep, Roster, Here
<1>3. ErrandsFit' /\ SeededOnce' /\ PlatformIsTheRows' BY <1>0, <1>1, <1>2, ErrandsStay, SeededStays, PlatformsStay
<1>4. AccountsTyped' BY <1>0, <1>1 DEF AccountsTyped
<1>5. statusVersion \in 0..statusVersion BY <1>0, NobodyIsNoRow DEF AccountsTyped
<1>6. RostersFit' BY <1>0, <1>1, <1>2, <1>5 DEF RostersFit
<1>7. CursorNamesOneRoster' BY <1>0, <1>1 DEF CursorNamesOneRoster, RostersFit
<1> QED BY <1>3, <1>4, <1>6, <1>7 DEF AccInv

LEMMA AccountsStep == AccInv /\ AccountsNext => AccInv'
BY StartFits, EnsureAccountFits, InsertedFits, SeedFits, HydrateFits, GetPlatformFits, SetNicknameFits,
   SetGroupLabelFits, SetPausedFits, SetPausedFailsFits, PauseOrResumeFits, SendRosterFits
DEF AccountsNext

LEMMA AccStays == AccInv /\ UNCHANGED accountVars => AccInv'
BY ErrandsStay, PlatformsStay, SeededStays, RostersMove
DEF AccInv, accountVars, AccountsTyped, RowsKeep

-----------------------------------------------------------------------------
(* All of them together.                                                       *)

LEMMA CustomersStart == CustomersInit => CustomersInv
BY EnvStarts, ProvStarts, ApiStarts, AccStarts DEF CustomersInit, CustomersInv

LEMMA ApiSame == ApiInv /\ UNCHANGED apiVars => ApiInv'
BY LoginsStay, TokensStay DEF ApiInv, apiVars, RequestsFit

LEMMA CustomersStep == CustomersInv /\ [CustomersNext]_customersVars => CustomersInv'
<1> SUFFICES ASSUME CustomersInv, [CustomersNext]_customersVars PROVE CustomersInv' OBVIOUS
<1>0. EnvInv /\ ProvInv /\ ApiInv /\ AccInv BY DEF CustomersInv
<1>1. ASSUME UNCHANGED <<envVars, provVars>> PROVE EnvInv' /\ ProvInv'
  <2>1. Keeps BY <1>0, <1>1, EnvStays
  <2>2. OwnersUnlocked BY <1>1 DEF OwnersUnlocked, envVars
  <2> QED BY <1>0, <1>1, <2>1, <2>2, ProvStays DEF Keeps
<1>2. CASE BesideRequests /\ Remember /\ UNCHANGED accountVars
  <2>1. ApiInv' /\ AccInv' BY <1>0, <1>2, ApiStays, AccStays DEF BesideRequests
  <2>2. CASE EnvNext /\ OwnersUnlocked /\ UNCHANGED provVars
    <3>1. Keeps BY <1>0, <2>2, EnvironmentStep
    <3>2. ProvInv' BY <1>0, <2>2, <3>1, ProvStays DEF Keeps
    <3> QED BY <2>1, <3>1, <3>2 DEF CustomersInv, Keeps
  <2>3. CASE ProvNext BY <1>0, <2>1, <2>3, ProvisioningStep DEF CustomersInv, Keeps
  <2> QED BY <1>2, <2>2, <2>3 DEF BesideRequests
<1>3. CASE Requesting /\ Remember /\ UNCHANGED accountVars
  <2>1. AccInv' BY <1>0, <1>3, AccStays
  <2>2. Keeps /\ ApiInv' BY <1>0, <1>3, RequestingStep DEF Requesting
  <2>3. ProvInv' BY <1>0, <1>3, <2>2, ProvStays DEF Requesting, Keeps
  <2> QED BY <2>1, <2>2, <2>3 DEF CustomersInv, Keeps
<1>4. CASE AccountsNext /\ UNCHANGED <<envVars, provVars, apiVars>>
  BY <1>0, <1>1, <1>4, AccountsStep, ApiSame DEF CustomersInv
<1>5. CASE UNCHANGED customersVars
  <2>1. UNCHANGED <<envVars, provVars, apiVars, accountVars>> BY <1>5 DEF customersVars
  <2> QED BY <1>0, <1>1, <2>1, ApiSame, AccStays DEF CustomersInv
<1> QED BY <1>2, <1>3, <1>4, <1>5 DEF CustomersNext

LEMMA CustomersAlways == CustomersSpec => []CustomersInv
<1>1. CustomersInit => CustomersInv BY CustomersStart
<1>2. CustomersInv /\ [CustomersNext]_customersVars => CustomersInv' BY CustomersStep
<1> QED BY <1>1, <1>2, PTL DEF CustomersSpec

-----------------------------------------------------------------------------
(* What reports and copies have seen.                                          *)

(* Where no version is recorded, nothing a copy shows has changed.             *)
TablesKept ==
  /\ slowStart' = slowStart
  /\ \A e \in Envs : account[e] # None /\ e \in active' => e \in active

(* Most steps neither finish a query or a report, nor bind an account.         *)
Quiet ==
  /\ UNCHANGED <<account, copy, recorded>>
  /\ version' \in Nat /\ version <= version' /\ (version' = version => TablesKept)
  /\ \A t \in Tasks : task[t].at \in {"assign", "upsert"} \/ task'[t].at \in {"assign", "upsert"} => task'[t] = task[t]

HistoryTyped ==
  past \in [asOf : [Tasks -> Nat], copyOf : Nat, newest : Nat, overtaken : SUBSET Tasks, unvouched : SUBSET Envs]
BoundAreRegistered == \A e \in Envs : account[e] # None => e \in registered
CopiesFit ==
  /\ past.copyOf <= past.newest /\ past.newest <= version /\ recorded <= past.newest
  /\ past.copyOf = version => Current(copy)
  /\ \A t \in Tasks : task[t].at = "assign" =>
       /\ past.asOf[t] <= version /\ task[t].seen <= past.asOf[t]
       /\ past.asOf[t] = version => Current(task[t].copy)
ReportsFit ==
  \A t \in Tasks : task[t].at = "upsert" /\ task[t].account # None /\ t \notin past.overtaken =>
    ~BindingConflicts(task[t].env, task[t].account)
HistoryFits == HistoryTyped /\ BoundAreRegistered /\ CopiesFit /\ ReportsFit /\ ContestedWhenOvertaken

LEMMA HistoryParts == CustomersInv /\ HistoryFits => BindingsHold
<1> SUFFICES ASSUME CustomersInv, HistoryFits, version \in {recorded, past.copyOf}, past.copyOf = past.newest
             PROVE  Current(copy)
  BY DEF BindingsHold, CopyKeepsUp, HistoryFits
<1>1. /\ past.copyOf \in Nat /\ past.newest \in Nat /\ version \in Nat /\ recorded \in Nat
      /\ past.newest <= version /\ recorded <= past.newest /\ (past.copyOf = version => Current(copy))
  BY NoneIsNobody DEF HistoryFits, HistoryTyped, CopiesFit, CustomersInv, EnvInv, TasksFit
<1>2. past.copyOf = version BY <1>1
<1> QED BY <1>1, <1>2

LEMMA HistoryStarts == CustomersInit => HistoryFits
<1> SUFFICES ASSUME CustomersInit PROVE HistoryFits OBVIOUS
<1>1. EnvInit BY DEF CustomersInit
<1>2. HistoryTyped BY <1>1 DEF EnvInit, HistoryTyped
<1>3. Current(copy)
  <2> SUFFICES ASSUME NEW a \in Accounts
               PROVE  copy[a].env = None /\ ~copy[a].clash /\ BoundTo(a) \cap active = {}
    BY DEF Current
  <2> QED BY <1>1 DEF EnvInit, Unbound, BoundTo
<1>4. CopiesFit BY <1>1, <1>3 DEF EnvInit, CopiesFit, Idle
<1> QED BY <1>1, <1>2, <1>4 DEF EnvInit, HistoryFits, BoundAreRegistered, ReportsFit, ContestedWhenOvertaken, Idle

(* A copy stays true as long as nothing it shows changes.                      *)
LEMMA CurrentStays ==
  ASSUME TablesFit, TablesFit', BoundAreRegistered, registered \subseteq registered', account' = account, TablesKept,
         NEW c, Current(c)
  PROVE  Current(c)'
<1> SUFFICES ASSUME NEW a \in Accounts
             PROVE  /\ c[a].env # None => /\ (BoundTo(a) \cap active)' \subseteq {c[a].env}
                                          /\ \A e \in (BoundTo(a) \cap active)' : c[a].since = slowStart'[e].since
                    /\ c[a].env = None /\ ~c[a].clash => (BoundTo(a) \cap active)' = {}
  BY DEF Current
<1>1. /\ c[a].env # None => /\ BoundTo(a) \cap active \subseteq {c[a].env}
                            /\ \A e \in BoundTo(a) \cap active : c[a].since = slowStart[e].since
      /\ c[a].env = None /\ ~c[a].clash => BoundTo(a) \cap active = {}
  BY DEF Current
<1>2. ASSUME NEW e \in (BoundTo(a) \cap active)' PROVE e \in BoundTo(a) \cap active
  <2>1. e \in registered' /\ account[e] = a /\ e \in active' /\ e \in Envs BY <1>2 DEF BoundTo, TablesFit
  <2>2. account[e] # None BY <2>1, NoneIsNobody
  <2> QED BY <2>1, <2>2 DEF BoundAreRegistered, TablesKept, BoundTo
<1>3. slowStart' = slowStart BY DEF TablesKept
<1> QED BY <1>1, <1>2, <1>3

(* The steps: each is quiet, or one of the four that are not.                  *)
Loud(t) == QueryCopy(t) \/ AssignCopy(t) \/ GateBinding(t) \/ UpsertEnvironment(t)

LEMMA QuietTask ==
  ASSUME EnvInv, NEW t \in Tasks, NEW d, task' = [task EXCEPT ![t] = d],
         task[t].at \notin {"assign", "upsert"}, d.at \notin {"assign", "upsert"}
  PROVE  \A s \in Tasks : task[s].at \in {"assign", "upsert"} \/ task'[s].at \in {"assign", "upsert"} => task'[s] = task[s]
BY DEF EnvInv, TasksFit

LEMMA QuietBump ==
  ASSUME EnvInv, NEW t \in Tasks, task[t] = Idle, Bump(t), UNCHANGED <<account, copy, recorded>>
  PROVE  Quiet
<1>1. version \in Nat /\ version' = version + 1 BY NoneIsNobody DEF EnvInv, TasksFit, Bump
<1> DEFINE d == [at |-> "query", seen |-> 0]
<1>2. task' = [task EXCEPT ![t] = d] /\ d.at = "query" BY DEF Bump
<1>3. task[t].at = "idle" BY DEF Idle
<1> HIDE DEF d
<1>4. \A s \in Tasks : task[s].at \in {"assign", "upsert"} \/ task'[s].at \in {"assign", "upsert"} => task'[s] = task[s]
  BY <1>2, <1>3, QuietTask
<1> QED BY <1>1, <1>4 DEF Quiet

LEMMA QuietTables ==
  ASSUME EnvInv, BoundAreRegistered, UNCHANGED <<account, copy, recorded, version, slowStart>>,
         \A t \in Tasks : task[t].at \in {"assign", "upsert"} \/ task'[t].at \in {"assign", "upsert"} => task'[t] = task[t],
         \A e \in active' \ active : e \notin registered
  PROVE  Quiet
BY NoneIsNobody DEF EnvInv, TasksFit, BoundAreRegistered, TablesKept, Quiet

LEMMA QuietStays == EnvInv /\ UNCHANGED envVars => Quiet
BY NoneIsNobody DEF EnvInv, TasksFit, TablesKept, Quiet, envVars

LEMMA EnvironmentKinds == EnvInv /\ BoundAreRegistered /\ EnvNext => Quiet \/ \E t \in Tasks : Loud(t)
<1> SUFFICES ASSUME EnvInv, BoundAreRegistered, EnvNext PROVE Quiet \/ \E t \in Tasks : Loud(t) OBVIOUS
<1>0. version \in Nat /\ Poller \in Tasks /\ Idle.at = "idle" BY NoneIsNobody DEF EnvInv, TasksFit, Idle
<1>1. ASSUME NEW e \in Envs, RegisterUnbound(e) PROVE Quiet
  BY <1>1, QuietTables DEF RegisterUnbound, FirstRow
<1>2. ASSUME NEW e \in Envs, LeaveActive(e) PROVE Quiet BY <1>2, QuietTables DEF LeaveActive
<1>3. ASSUME NEW a \in Accounts, AccountAppears(a) PROVE Quiet BY <1>3, QuietTables DEF AccountAppears
<1>4. ASSUME NEW t \in Tasks, NEW e \in Envs, NEW a \in Accounts, Report(t, e, a) PROVE Quiet
  <2> DEFINE d == [at |-> "gate", env |-> e, account |-> a]
  <2>1. task[t].at = "idle" /\ task' = [task EXCEPT ![t] = d] /\ d.at = "gate" BY <1>0, <1>4 DEF Report
  <2> HIDE DEF d
  <2> QED BY <1>4, <2>1, QuietTask, QuietTables DEF Report
<1>5. ASSUME Poll PROVE Quiet
  <2> DEFINE d == [at |-> "query", seen |-> version]
  <2>1. task[Poller].at = "idle" /\ task' = [task EXCEPT ![Poller] = d] /\ d.at = "query" BY <1>0, <1>5 DEF Poll
  <2> HIDE DEF d
  <2> QED BY <1>0, <1>5, <2>1, QuietTask, QuietTables DEF Poll
<1>6. ASSUME NEW t \in Tasks, QueryFails(t) PROVE Quiet
  <2>1. task[t].at = "query" /\ task' = [task EXCEPT ![t] = Idle] BY <1>6 DEF QueryFails
  <2> QED BY <1>0, <1>6, <2>1, QuietTask, QuietTables DEF QueryFails
<1>7. CASE Assigning BY <1>7, QuietTables DEF Assigning, SetScope, DisableUser, EnableUser
<1>8. CASE Switching BY <1>8, QuietBump DEF Switching, SetSlowStart, Migrate
<1>9. ASSUME NEW t \in Tasks, NEW a \in Accounts, NEW m \in Modes, ReadModeTarget(t, a, m) PROVE Quiet
  <2> DEFINE d == [at |-> "mode", env |-> CHOOSE e \in BoundTo(a) : TRUE, mode |-> m]
  <2>1. task[t].at = "idle" /\ task' = [task EXCEPT ![t] = d] /\ d.at = "mode" BY <1>0, <1>9 DEF ReadModeTarget
  <2> HIDE DEF d
  <2> QED BY <1>9, <2>1, QuietTask, QuietTables DEF ReadModeTarget
<1>10. ASSUME NEW t \in Tasks, WriteModeTarget(t) PROVE Quiet
  <2>1. task[t].at = "mode" /\ task' = [task EXCEPT ![t] = Idle] BY <1>10 DEF WriteModeTarget
  <2> QED BY <1>0, <1>10, <2>1, QuietTask, QuietTables DEF WriteModeTarget
<1>11. CASE Moding BY <1>9, <1>10, <1>11, QuietTables DEF Moding, SetModeAsCustomer, SetModeAsConsole
<1>12. CASE Reporting BY <1>1, <1>2, <1>3, <1>4, <1>12 DEF Reporting, Loud
<1>13. CASE Copying BY <1>5, <1>6, <1>13 DEF Copying, Loud
<1> QED BY <1>7, <1>8, <1>11, <1>12, <1>13 DEF EnvNext

LEMMA ProvisioningKinds == EnvInv /\ BoundAreRegistered /\ ProvNext => Quiet
<1> SUFFICES ASSUME EnvInv, BoundAreRegistered, ProvNext PROVE Quiet OBVIOUS
<1>1. CASE Completing
  <2>1. ASSUME NEW i \in Intents, NEW u \in Users, NEW e \in Envs, NEW q \in Questions, Provision(i, u, e, q)
        PROVE  Quiet
    <3>1. version \in Nat /\ version' = version + 1 /\ UNCHANGED <<account, copy, recorded, task>>
      BY <2>1, NoneIsNobody DEF EnvInv, TasksFit, Provision, OwnershipRows
    <3> QED BY <3>1 DEF Quiet
  <2> QED BY <1>1, <2>1, QuietStays
    DEF Completing, CreateIntent, TimePasses, CompleteIntent, RefreshAndAnswer, RefreshOrFail, RefreshFails, AnswerLost
<1>2. CASE Editing BY <1>2, QuietStays DEF Editing, OpenProxy, RefuseProxy, WriteProxy
<1>3. CASE Owning
  <2>1. UNCHANGED task
    BY <1>3 DEF Owning, SetScopeLocked, DisableUserLocked, HandshakeFirst, SetScope, DisableUser, RegisterUnbound
  <2> QED BY <1>3, <2>1, QuietTables
    DEF Owning, SetScopeLocked, DisableUserLocked, HandshakeFirst, SetScope, DisableUser, RegisterUnbound, FirstRow
<1> QED BY <1>1, <1>2, <1>3 DEF ProvNext

LEMMA RequestingKinds == EnvInv /\ BoundAreRegistered /\ (LoggingIn \/ Visiting) => Quiet
<1> SUFFICES ASSUME EnvInv, BoundAreRegistered, LoggingIn \/ Visiting PROVE Quiet OBVIOUS
<1>1. ASSUME NEW r \in Requests, Act(r) PROVE Quiet
  <2>1. ASSUME NEW on \in BOOLEAN, ActOnSlowStart(r, on) PROVE Quiet
    <3>1. PICK t \in Tasks : task[t] = Idle /\ Bump(t) BY <2>1 DEF ActOnSlowStart
    <3> QED BY <2>1, <3>1, QuietBump DEF ActOnSlowStart
  <2>2. CASE ActOnOffboard(r) BY <2>2, QuietTables DEF ActOnOffboard
  <2>3. ASSUME NEW m \in Modes, ActOnMode(r, m) PROVE Quiet BY <2>3, QuietTables DEF ActOnMode
  <2> QED BY <1>1, <2>1, <2>2, <2>3, QuietStays DEF Act, ActMissing, ActRead, ActOnAccount, NotOwner, ActOnSetting
<1> QED BY <1>1, QuietStays DEF LoggingIn, Visiting

(* Each step of the history.                                                   *)
LEMMA WitnessTyped ==
  ASSUME EnvInv, HistoryTyped, Witness
  PROVE  /\ HistoryTyped'
         /\ past'.asOf = AsOf /\ past'.copyOf = CopiedAt /\ past'.newest = Newer(past.newest, CopiedAt)
         /\ past'.overtaken = Overtaken /\ past'.unvouched = Unvouched
<1>1. version \in Nat BY NoneIsNobody DEF EnvInv, TasksFit
<1>2. /\ past.asOf \in [Tasks -> Nat] /\ past.copyOf \in Nat /\ past.newest \in Nat BY DEF HistoryTyped
<1>3. AsOf \in [Tasks -> Nat] BY <1>1, <1>2 DEF AsOf
<1>4. CopiedAt \in Nat BY <1>2 DEF CopiedAt
<1>5. Newer(past.newest, CopiedAt) \in Nat BY <1>2, <1>4 DEF Newer
<1>6. Overtaken \in SUBSET Tasks /\ Unvouched \in SUBSET Envs BY DEF Overtaken, Unvouched
<1>7. past' = [asOf |-> AsOf, copyOf |-> CopiedAt, newest |-> Newer(past.newest, CopiedAt),
               overtaken |-> Overtaken, unvouched |-> Unvouched]
  BY DEF Witness
<1> QED BY <1>3, <1>4, <1>5, <1>6, <1>7 DEF HistoryTyped

LEMMA NothingCopied ==
  ASSUME EnvInv, HistoryTyped, CopiesFit, Witness, \A t \in Tasks : ~Queries(t) /\ ~Assigns(t)
  PROVE  past'.asOf = past.asOf /\ past'.copyOf = past.copyOf /\ past'.newest = past.newest
<1>1. /\ past.asOf \in [Tasks -> Nat] /\ past.copyOf \in Nat /\ past.newest \in Nat /\ past.copyOf <= past.newest
  BY DEF HistoryTyped, CopiesFit
<1>2. AsOf = past.asOf BY <1>1 DEF AsOf
<1>3. CopiedAt = past.copyOf BY DEF CopiedAt
<1>4. Newer(past.newest, CopiedAt) = past.newest BY <1>1, <1>3 DEF Newer
<1> QED BY <1>2, <1>3, <1>4, WitnessTyped

LEMMA CopiesStay ==
  ASSUME EnvInv, TablesFit', registered \subseteq registered', HistoryTyped, BoundAreRegistered, CopiesFit, Witness,
         \A t \in Tasks : ~Queries(t) /\ ~Assigns(t),
         \A t \in Tasks : task'[t].at = "assign" => task'[t] = task[t],
         UNCHANGED <<copy, recorded>>, version' \in Nat, version <= version',
         version' = version => account' = account /\ TablesKept
  PROVE  CopiesFit'
<1>0. TablesFit BY DEF EnvInv
<1>1. past'.asOf = past.asOf /\ past'.copyOf = past.copyOf /\ past'.newest = past.newest BY NothingCopied
<1>2. /\ past.asOf \in [Tasks -> Nat] /\ past.copyOf \in Nat /\ past.newest \in Nat /\ version \in Nat /\ recorded \in Nat
      /\ past.copyOf <= past.newest /\ past.newest <= version /\ recorded <= past.newest
  BY NoneIsNobody DEF EnvInv, TasksFit, HistoryTyped, CopiesFit
<1>3. ASSUME NEW c, Current(c), version' = version PROVE Current(c)' BY <1>0, <1>3, CurrentStays
<1>4. past'.copyOf = version' => Current(copy)'
  <2> SUFFICES ASSUME past'.copyOf = version' PROVE Current(copy)' OBVIOUS
  <2>1. version' = version /\ past.copyOf = version BY <1>1, <1>2
  <2>2. PICK c : c = copy OBVIOUS
  <2>3. Current(c) BY <2>1, <2>2 DEF CopiesFit
  <2>4. Current(c)' BY <1>3, <2>1, <2>3
  <2>5. copy' = c BY <2>2
  <2> QED BY <2>4, <2>5 DEF Current
<1>5. ASSUME NEW t \in Tasks, task'[t].at = "assign"
      PROVE  /\ past'.asOf[t] <= version' /\ task'[t].seen <= past'.asOf[t]
             /\ past'.asOf[t] = version' => Current(task[t].copy)'
  <2>1. task'[t] = task[t] /\ task[t].at = "assign" BY <1>5
  <2>2. past.asOf[t] \in Nat /\ past.asOf[t] <= version /\ task[t].seen <= past.asOf[t] BY <1>2, <2>1 DEF CopiesFit
  <2>3. ASSUME past'.asOf[t] = version' PROVE Current(task[t].copy)'
    <3>1. version' = version /\ past.asOf[t] = version BY <1>1, <1>2, <2>2, <2>3
    <3>2. PICK c : c = task[t].copy OBVIOUS
    <3>3. Current(c) BY <2>1, <3>1, <3>2 DEF CopiesFit
    <3>4. Current(c)' BY <1>3, <3>1, <3>3
    <3>5. task'[t].copy = c BY <2>1, <3>2
    <3> QED BY <3>4, <3>5 DEF Current
  <2>4. past.asOf[t] <= version' BY <1>2, <2>2
  <2> QED BY <1>1, <2>1, <2>2, <2>3, <2>4
<1>6. past'.copyOf <= past'.newest /\ past'.newest <= version' /\ recorded' <= past'.newest BY <1>1, <1>2
<1> QED BY <1>4, <1>5, <1>6 DEF CopiesFit

(* A report that nothing overtakes still conflicts with nothing.               *)
LEMMA ReportStays ==
  ASSUME TablesFit, TablesFit', registered \subseteq registered', BoundAreRegistered, ReportsFit,
         NEW t \in Tasks, task[t] \in TaskStates, task[t].at = "upsert", task'[t] = task[t], task[t].account # None,
         t \notin Overtaken
  PROVE  ~BindingConflicts(task[t].env, task[t].account)'
<1> DEFINE e == task[t].env
           a == task[t].account
<1>1. t \notin past.overtaken /\ owner' = owner /\ account' = account BY DEF Overtaken
<1>2. ~BindingConflicts(e, a) BY <1>1 DEF ReportsFit
<1>3. a \in Accounts BY DEF TaskStates, Idle
<1>4. BoundTo(a)' \subseteq BoundTo(a) BY <1>1, <1>3, NoneIsNobody DEF BoundTo, BoundAreRegistered, TablesFit
<1>5. task'[t].env = e /\ task'[t].account = a OBVIOUS
<1> QED BY <1>1, <1>2, <1>4, <1>5 DEF BindingConflicts

LEMMA ContestedStays ==
  ASSUME EnvInv, HistoryTyped, ContestedWhenOvertaken, Witness, account' = account,
         \A t \in Tasks : \A e \in Envs : ~Binds(t, e)
  PROVE  ContestedWhenOvertaken'
<1> SUFFICES ASSUME NEW e \in Envs, NEW f \in Envs, e # f, account[e] # None, account[e] = account[f], owner'[e] # owner'[f]
             PROVE  e \in past'.unvouched \/ f \in past'.unvouched
  BY DEF ContestedWhenOvertaken
<1>1. past'.unvouched = Unvouched BY WitnessTyped
<1>2. \A x \in {e, f} : owner'[x] # owner[x] \/ x \in past.unvouched => x \in Unvouched BY DEF Unvouched
<1>3. CASE owner[e] # owner[f] BY <1>1, <1>2, <1>3 DEF ContestedWhenOvertaken
<1>4. CASE owner[e] = owner[f] BY <1>1, <1>2, <1>4
<1> QED BY <1>3, <1>4

LEMMA QuietHistory ==
  ASSUME EnvInv, EnvInv', registered \subseteq registered', HistoryFits, Witness, Quiet
  PROVE  HistoryFits'
<1>0. TablesFit /\ TablesFit' /\ HistoryTyped /\ BoundAreRegistered /\ CopiesFit /\ ReportsFit /\ ContestedWhenOvertaken
  BY DEF EnvInv, HistoryFits
<1>1. \A t \in Tasks : ~Queries(t) /\ ~Assigns(t) BY DEF Quiet, Queries, Assigns
<1>2. \A t \in Tasks : \A e \in Envs : ~Binds(t, e) BY DEF Quiet, Binds
<1>3. HistoryTyped' /\ past'.overtaken = Overtaken BY <1>0, WitnessTyped
<1>4. CopiesFit' BY <1>0, <1>1, CopiesStay DEF Quiet
<1>5. BoundAreRegistered' BY <1>0 DEF Quiet, BoundAreRegistered
<1>6. ReportsFit'
  <2> SUFFICES ASSUME NEW t \in Tasks, task'[t].at = "upsert", task'[t].account # None, t \notin Overtaken
               PROVE  ~BindingConflicts(task[t].env, task[t].account)'
    BY <1>3 DEF ReportsFit
  <2>1. task'[t] = task[t] BY DEF Quiet
  <2>2. task[t] \in TaskStates BY TaskNow
  <2> QED BY <1>0, <2>1, <2>2, ReportStays
<1>7. ContestedWhenOvertaken' BY <1>0, <1>2, ContestedStays DEF Quiet
<1> QED BY <1>3, <1>4, <1>5, <1>6, <1>7 DEF HistoryFits

LEMMA CopyIsCurrent == ASSUME EnvInv PROVE Current(CopyNow)
<1> SUFFICES ASSUME NEW a \in Accounts
             PROVE  /\ CopyNow[a].env # None => /\ BoundTo(a) \cap active \subseteq {CopyNow[a].env}
                                                /\ \A e \in BoundTo(a) \cap active : CopyNow[a].since = slowStart[e].since
                    /\ CopyNow[a].env = None /\ ~CopyNow[a].clash => BoundTo(a) \cap active = {}
  BY DEF Current
<1>1. CopyNow[a] = CopyOf(a) BY DEF CopyNow
<1>2. PICK on : on = BoundTo(a) \cap active OBVIOUS
<1>3. CASE on = {} BY <1>1, <1>2, <1>3 DEF CopyOf, Unbound
<1>4. CASE on # {} /\ Cardinality(on) > 1 BY <1>1, <1>2, <1>4 DEF CopyOf, Ambiguous
<1>5. CASE on # {} /\ ~(Cardinality(on) > 1)
  <2>1. on \subseteq Envs BY <1>2 DEF EnvInv, TablesFit, BoundTo
  <2>2. IsFiniteSet(on) BY <2>1, EnvironmentsAssumption, FS_Subset
  <2>3. Cardinality(on) \in Nat /\ Cardinality(on) # 0 BY <1>5, <2>2, FS_CardinalityType, FS_EmptySet
  <2>4. Cardinality(on) = 1 BY <1>5, <2>3
  <2>5. PICK x : on = {x} BY <2>2, <2>4, FS_Singleton
  <2>6. (CHOOSE y \in on : TRUE) = x BY <2>5
  <2>7. CopyOf(a) = [env |-> x, since |-> slowStart[x].since, clash |-> FALSE] BY <1>2, <1>5, <2>6 DEF CopyOf
  <2>8. x # None BY <2>1, <2>5, NoneIsNobody
  <2> QED BY <1>1, <1>2, <2>5, <2>7, <2>8
<1> QED BY <1>3, <1>4, <1>5

LEMMA QueryFits ==
  ASSUME EnvInv, EnvInv', registered \subseteq registered', HistoryFits, Witness, NEW t \in Tasks, QueryCopy(t)
  PROVE  HistoryFits'
<1>0. TablesFit /\ TablesFit' /\ HistoryTyped /\ BoundAreRegistered /\ CopiesFit /\ ReportsFit /\ ContestedWhenOvertaken
  BY DEF EnvInv, HistoryFits
<1>1. /\ task[t].at = "query" /\ task' = [task EXCEPT ![t] = [at |-> "assign", copy |-> CopyNow, seen |-> task[t].seen]]
      /\ UNCHANGED <<owner, registered, account, active, slowStart, version, copy, recorded>>
  BY DEF QueryCopy
<1>2. task \in [Tasks -> TaskStates] /\ task[t].seen \in 0..version /\ version \in Nat /\ recorded \in Nat
  BY <1>1, TaskNow, NoneIsNobody DEF EnvInv, TasksFit
<1>3. /\ past.asOf \in [Tasks -> Nat] /\ past.copyOf \in Nat /\ past.newest \in Nat
      /\ past.copyOf <= past.newest /\ past.newest <= version /\ recorded <= past.newest
  BY <1>0 DEF HistoryTyped, CopiesFit
<1>4. /\ task'[t].at = "assign" /\ task'[t].copy = CopyNow /\ task'[t].seen = task[t].seen
      /\ \A s \in Tasks : s # t => task'[s] = task[s]
  BY <1>1, <1>2
<1>5. \A s \in Tasks : ~Assigns(s) /\ (Queries(s) <=> s = t) BY <1>1, <1>4 DEF Assigns, Queries
<1>6. \A s \in Tasks : \A e \in Envs : ~Binds(s, e) BY <1>1, <1>4 DEF Binds
<1>7. HistoryTyped' /\ past'.overtaken = Overtaken BY <1>0, WitnessTyped
<1>8. past'.asOf[t] = version /\ \A s \in Tasks : s # t => past'.asOf[s] = past.asOf[s]
  BY <1>0, <1>3, <1>5, WitnessTyped DEF AsOf
<1>9. past'.copyOf = past.copyOf /\ past'.newest = past.newest
  <2>1. CopiedAt = past.copyOf BY <1>5 DEF CopiedAt
  <2>2. Newer(past.newest, CopiedAt) = past.newest BY <1>3, <2>1 DEF Newer
  <2> QED BY <1>0, <2>1, <2>2, WitnessTyped
<1>10. ASSUME NEW c, Current(c) PROVE Current(c)'
  <2>1. TablesKept BY <1>1 DEF TablesKept
  <2> QED BY <1>0, <1>1, <1>10, <2>1, CurrentStays
<1>11. CopiesFit'
  <2>1. past'.copyOf = version' => Current(copy)'
    <3> SUFFICES ASSUME past'.copyOf = version' PROVE Current(copy)' OBVIOUS
    <3>1. PICK c : c = copy OBVIOUS
    <3>2. Current(c) BY <1>0, <1>1, <1>9, <3>1 DEF CopiesFit
    <3>3. Current(c)' /\ copy' = c BY <1>1, <1>10, <3>1, <3>2
    <3> QED BY <3>3 DEF Current
  <2>2. ASSUME NEW s \in Tasks, task'[s].at = "assign"
        PROVE  /\ past'.asOf[s] <= version' /\ task'[s].seen <= past'.asOf[s]
               /\ past'.asOf[s] = version' => Current(task[s].copy)'
    <3>1. CASE s = t
      <4>1. PICK c : c = CopyNow OBVIOUS
      <4>2. Current(c)' BY <1>10, <4>1, CopyIsCurrent
      <4>3. task'[s].copy = c BY <1>4, <3>1, <4>1
      <4>4. Current(task[s].copy)' BY <4>2, <4>3 DEF Current
      <4> QED BY <1>1, <1>2, <1>4, <1>8, <3>1, <4>4
    <3>2. CASE s # t
      <4>1. task'[s] = task[s] /\ past'.asOf[s] = past.asOf[s] BY <1>4, <1>8, <3>2
      <4>2. /\ past.asOf[s] <= version /\ task[s].seen <= past.asOf[s]
            /\ past.asOf[s] = version => Current(task[s].copy)
        BY <1>0, <2>2, <4>1 DEF CopiesFit
      <4>3. ASSUME past.asOf[s] = version PROVE Current(task[s].copy)'
        <5>1. PICK c : c = task[s].copy OBVIOUS
        <5>2. Current(c)' BY <1>10, <4>2, <4>3, <5>1
        <5>3. task'[s].copy = c BY <4>1, <5>1
        <5> QED BY <5>2, <5>3 DEF Current
      <4> QED BY <1>1, <4>1, <4>2, <4>3
    <3> QED BY <3>1, <3>2
  <2> QED BY <1>1, <1>3, <1>9, <2>1, <2>2 DEF CopiesFit
<1>12. ReportsFit'
  <2> SUFFICES ASSUME NEW s \in Tasks, task'[s].at = "upsert", task'[s].account # None, s \notin Overtaken
               PROVE  ~BindingConflicts(task[s].env, task[s].account)'
    BY <1>7 DEF ReportsFit
  <2>1. task'[s] = task[s] /\ task[s] \in TaskStates BY <1>2, <1>4
  <2> QED BY <1>0, <2>1, ReportStays
<1>13. ContestedWhenOvertaken' BY <1>0, <1>1, <1>6, ContestedStays
<1>14. BoundAreRegistered' BY <1>0, <1>1 DEF BoundAreRegistered
<1> QED BY <1>7, <1>11, <1>12, <1>13, <1>14 DEF HistoryFits

LEMMA AssignFits ==
  ASSUME EnvInv, EnvInv', registered \subseteq registered', HistoryFits, Witness, NEW t \in Tasks, AssignCopy(t)
  PROVE  HistoryFits'
<1>0. TablesFit /\ TablesFit' /\ HistoryTyped /\ BoundAreRegistered /\ CopiesFit /\ ReportsFit /\ ContestedWhenOvertaken
  BY DEF EnvInv, HistoryFits
<1>1. /\ task[t].at = "assign" /\ task' = [task EXCEPT ![t] = Idle] /\ copy' = task[t].copy
      /\ recorded' \in {recorded, task[t].seen}
      /\ UNCHANGED <<owner, registered, account, active, slowStart, version>>
  BY DEF AssignCopy, Seen
<1>2. task \in [Tasks -> TaskStates] /\ task[t].seen \in Nat /\ version \in Nat /\ recorded \in Nat
  BY <1>1, TaskNow, NoneIsNobody DEF EnvInv, TasksFit
<1>3. /\ past.asOf \in [Tasks -> Nat] /\ past.copyOf \in Nat /\ past.newest \in Nat
      /\ past.copyOf <= past.newest /\ past.newest <= version /\ recorded <= past.newest
      /\ past.asOf[t] <= version /\ task[t].seen <= past.asOf[t] /\ (past.asOf[t] = version => Current(task[t].copy))
  BY <1>0, <1>1 DEF HistoryTyped, CopiesFit
<1>4. task'[t].at = "idle" /\ \A s \in Tasks : s # t => task'[s] = task[s] BY <1>1, <1>2 DEF Idle
<1>5. \A s \in Tasks : ~Queries(s) /\ (Assigns(s) <=> s = t) BY <1>1, <1>4 DEF Assigns, Queries
<1>6. \A s \in Tasks : \A e \in Envs : ~Binds(s, e) BY <1>1, <1>4 DEF Binds
<1>7. HistoryTyped' /\ past'.overtaken = Overtaken BY <1>0, WitnessTyped
<1>8. \A s \in Tasks : s # t => past'.asOf[s] = past.asOf[s] BY <1>0, <1>3, <1>5, WitnessTyped DEF AsOf
<1>9. past'.copyOf = past.asOf[t] /\ past'.newest = Newer(past.newest, past.asOf[t])
  <2>1. (CHOOSE s \in Tasks : Assigns(s)) = t BY <1>5
  <2>2. CopiedAt = past.asOf[t] BY <1>5, <2>1 DEF CopiedAt
  <2> QED BY <1>0, <2>2, WitnessTyped
<1>10. past'.copyOf <= past'.newest /\ past'.newest <= version /\ recorded' <= past'.newest
  BY <1>1, <1>2, <1>3, <1>9 DEF Newer
<1>11. ASSUME NEW c, Current(c) PROVE Current(c)'
  <2>1. TablesKept BY <1>1 DEF TablesKept
  <2> QED BY <1>0, <1>1, <1>11, <2>1, CurrentStays
<1>12. CopiesFit'
  <2>1. past'.copyOf = version' => Current(copy)'
    <3> SUFFICES ASSUME past'.copyOf = version' PROVE Current(copy)' OBVIOUS
    <3>1. PICK c : c = task[t].copy OBVIOUS
    <3>2. Current(c) BY <1>1, <1>3, <1>9, <3>1
    <3>3. Current(c)' /\ copy' = c BY <1>1, <1>11, <3>1, <3>2
    <3> QED BY <3>3 DEF Current
  <2>2. ASSUME NEW s \in Tasks, task'[s].at = "assign"
        PROVE  /\ past'.asOf[s] <= version' /\ task'[s].seen <= past'.asOf[s]
               /\ past'.asOf[s] = version' => Current(task[s].copy)'
    <3>1. s # t BY <1>4, <2>2
    <3>2. task'[s] = task[s] /\ past'.asOf[s] = past.asOf[s] BY <1>4, <1>8, <3>1
    <3>3. /\ past.asOf[s] <= version /\ task[s].seen <= past.asOf[s]
          /\ past.asOf[s] = version => Current(task[s].copy)
      BY <1>0, <2>2, <3>2 DEF CopiesFit
    <3>4. ASSUME past.asOf[s] = version PROVE Current(task[s].copy)'
      <4>1. PICK c : c = task[s].copy OBVIOUS
      <4>2. Current(c)' BY <1>11, <3>3, <3>4, <4>1
      <4>3. task'[s].copy = c BY <3>2, <4>1
      <4> QED BY <4>2, <4>3 DEF Current
    <3> QED BY <1>1, <3>2, <3>3, <3>4
  <2> QED BY <1>1, <1>10, <2>1, <2>2 DEF CopiesFit
<1>13. ReportsFit'
  <2> SUFFICES ASSUME NEW s \in Tasks, task'[s].at = "upsert", task'[s].account # None, s \notin Overtaken
               PROVE  ~BindingConflicts(task[s].env, task[s].account)'
    BY <1>7 DEF ReportsFit
  <2>1. task'[s] = task[s] /\ task[s] \in TaskStates BY <1>2, <1>4
  <2> QED BY <1>0, <2>1, ReportStays
<1>14. ContestedWhenOvertaken' BY <1>0, <1>1, <1>6, ContestedStays
<1>15. BoundAreRegistered' BY <1>0, <1>1 DEF BoundAreRegistered
<1> QED BY <1>7, <1>12, <1>13, <1>14, <1>15 DEF HistoryFits

(* The gate of a report finds no other customer, or binds nothing.             *)
LEMMA GateKeeps ==
  ASSUME EnvInv, EnvInv', registered \subseteq registered', HistoryFits, Witness, NEW t \in Tasks, GateBinding(t)
  PROVE  HistoryFits'
<1>0. TablesFit /\ TablesFit' /\ HistoryTyped /\ BoundAreRegistered /\ CopiesFit /\ ReportsFit /\ ContestedWhenOvertaken
  BY DEF EnvInv, HistoryFits
<1> DEFINE e == task[t].env
           a == task[t].account
           b == IF BindingConflicts(e, a) THEN None ELSE a
<1>1. /\ task[t].at = "gate" /\ task' = [task EXCEPT ![t] = [at |-> "upsert", env |-> e, account |-> b]]
      /\ UNCHANGED <<owner, registered, account, active, slowStart, version, copy, recorded>>
  BY DEF GateBinding
<1>2. task \in [Tasks -> TaskStates] /\ version \in Nat BY NoneIsNobody DEF EnvInv, TasksFit
<1> HIDE DEF b
<1>3. /\ task'[t].at = "upsert" /\ task'[t].env = e /\ task'[t].account = b
      /\ \A s \in Tasks : s # t => task'[s] = task[s]
  BY <1>1, <1>2
<1>4. \A s \in Tasks : ~Queries(s) /\ ~Assigns(s) BY <1>1, <1>3 DEF Assigns, Queries
<1>5. \A s \in Tasks : \A x \in Envs : ~Binds(s, x) BY <1>1, <1>3 DEF Binds
<1>6. HistoryTyped' /\ past'.overtaken = Overtaken BY <1>0, WitnessTyped
<1>7. \A s \in Tasks : task'[s].at = "assign" => task'[s] = task[s] BY <1>3
<1>8. CopiesFit' BY <1>0, <1>1, <1>2, <1>4, <1>7, CopiesStay DEF TablesKept
<1>9. ReportsFit'
  <2> SUFFICES ASSUME NEW s \in Tasks, task'[s].at = "upsert", task'[s].account # None, s \notin Overtaken
               PROVE  ~BindingConflicts(task[s].env, task[s].account)'
    BY <1>6 DEF ReportsFit
  <2>1. CASE s = t
    <3>1. b = a /\ ~BindingConflicts(e, a) BY <1>3, <2>1 DEF b
    <3>2. task'[s].env = e /\ task'[s].account = a BY <1>3, <2>1, <3>1
    <3> QED BY <1>1, <3>1, <3>2 DEF BindingConflicts, BoundTo
  <2>2. CASE s # t
    <3>1. task'[s] = task[s] /\ task[s] \in TaskStates BY <1>2, <1>3, <2>2
    <3> QED BY <1>0, <3>1, ReportStays
  <2> QED BY <2>1, <2>2
<1>10. ContestedWhenOvertaken' BY <1>0, <1>1, <1>5, ContestedStays
<1>11. BoundAreRegistered' BY <1>0, <1>1 DEF BoundAreRegistered
<1> QED BY <1>6, <1>8, <1>9, <1>10, <1>11 DEF HistoryFits

LEMMA UpsertKeeps ==
  ASSUME EnvInv, EnvInv', registered \subseteq registered', HistoryFits, Witness, NEW t \in Tasks, UpsertEnvironment(t)
  PROVE  HistoryFits'
<1>0. TablesFit /\ TablesFit' /\ HistoryTyped /\ BoundAreRegistered /\ CopiesFit /\ ReportsFit /\ ContestedWhenOvertaken
  BY DEF EnvInv, HistoryFits
<1> DEFINE e == task[t].env
           a == task[t].account
<1>1. /\ task[t].at = "upsert" /\ Bump(t) /\ FirstRow(e) /\ UNCHANGED <<owner, slowStart, copy, recorded>>
      /\ account' = IF a = None THEN account ELSE [account EXCEPT ![e] = a]
  BY DEF UpsertEnvironment
<1>2. /\ task \in [Tasks -> TaskStates] /\ task[t] \in TaskStates /\ version \in Nat /\ version' = version + 1
      /\ e \in Envs /\ a \in Accounts \cup {None} /\ account \in [Envs -> Accounts \cup {None}]
  BY <1>0, <1>1, TaskNow, NoneIsNobody DEF EnvInv, TasksFit, TablesFit, Bump
<1>3. task'[t].at = "query" /\ \A s \in Tasks : s # t => task'[s] = task[s] BY <1>1, <1>2 DEF Bump
<1>4. \A s \in Tasks : ~Queries(s) /\ ~Assigns(s) BY <1>1, <1>3 DEF Assigns, Queries
<1>5. \A s \in Tasks : \A x \in Envs : Binds(s, x) <=> s = t /\ x = e /\ a # None BY <1>1, <1>3 DEF Binds
<1>6. HistoryTyped' /\ past'.overtaken = Overtaken /\ past'.unvouched = Unvouched BY <1>0, WitnessTyped
<1>7. \A s \in Tasks : task'[s].at = "assign" => task'[s] = task[s] BY <1>3
<1>8. version' \in Nat /\ version <= version' /\ version' # version BY <1>2
<1>9. CopiesFit' BY <1>0, <1>1, <1>4, <1>7, <1>8, CopiesStay
<1>10. BoundAreRegistered' BY <1>0, <1>1, <1>2 DEF BoundAreRegistered, FirstRow
<1>11. ReportsFit'
  <2> SUFFICES ASSUME NEW s \in Tasks, task'[s].at = "upsert", task'[s].account # None, s \notin Overtaken
               PROVE  ~BindingConflicts(task[s].env, task[s].account)'
    BY <1>6 DEF ReportsFit
  <2>1. task'[s] = task[s] /\ task[s] \in TaskStates BY <1>2, <1>3
  <2> QED BY <1>0, <2>1, ReportStays
<1>12. CASE a = None BY <1>0, <1>1, <1>5, <1>6, <1>9, <1>10, <1>11, <1>12, ContestedStays DEF HistoryFits
<1>13. CASE a # None
  <2>1. ASSUME NEW f \in Envs, f # e, account'[f] = a, owner[f] # owner[e] PROVE e \in Unvouched
    <3>1. account[f] = a BY <1>1, <1>2, <2>1
    <3>2. f \in BoundTo(a) BY <1>0, <1>13, <3>1 DEF BoundAreRegistered, BoundTo
    <3>3. BindingConflicts(e, a) BY <2>1, <3>2 DEF BindingConflicts
    <3>4. t \in past.overtaken BY <1>0, <1>1, <1>13, <3>3 DEF ReportsFit
    <3>5. account'[e] # None BY <1>1, <1>2, <1>13
    <3> QED BY <1>2, <1>5, <1>13, <3>4, <3>5 DEF Unvouched
  <2>2. ASSUME NEW x \in Envs, x # e, x \in past.unvouched, account[x] # None PROVE x \in Unvouched
    <3>1. account'[x] = account[x] BY <1>1, <1>2, <2>2
    <3> QED BY <1>5, <2>2, <3>1 DEF Unvouched
  <2>3. ContestedWhenOvertaken'
    <3> SUFFICES ASSUME NEW x \in Envs, NEW y \in Envs, x # y, account'[x] # None, account'[x] = account'[y],
                        owner'[x] # owner'[y]
                 PROVE  x \in Unvouched \/ y \in Unvouched
      BY <1>6 DEF ContestedWhenOvertaken
    <3>1. owner' = owner /\ account'[e] = a BY <1>1, <1>2, <1>13
    <3>2. CASE x = e BY <2>1, <3>1, <3>2
    <3>3. CASE y = e BY <2>1, <3>1, <3>3
    <3>4. CASE x # e /\ y # e
      <4>1. account'[x] = account[x] /\ account'[y] = account[y] BY <1>1, <1>2, <3>4
      <4> QED BY <1>0, <2>2, <3>1, <3>4, <4>1 DEF ContestedWhenOvertaken
    <3> QED BY <3>2, <3>3, <3>4
  <2> QED BY <1>6, <1>9, <1>10, <1>11, <2>3 DEF HistoryFits
<1> QED BY <1>12, <1>13

LEMMA HistoryStep == CustomersInv /\ CustomersInv' /\ HistoryFits /\ [CustomersNext]_customersVars => HistoryFits'
<1> SUFFICES ASSUME CustomersInv, CustomersInv', HistoryFits, [CustomersNext]_customersVars PROVE HistoryFits' OBVIOUS
<1>0. EnvInv /\ EnvInv' /\ ProvInv /\ ApiInv /\ BoundAreRegistered BY DEF CustomersInv, HistoryFits
<1>1. ASSUME UNCHANGED <<envVars, past>> PROVE HistoryFits'
  <2>1. UNCHANGED <<owner, registered, account, active, slowStart, version, task, copy, recorded, past>>
    BY <1>1 DEF envVars
  <2> QED BY <2>1 DEF HistoryFits, HistoryTyped, BoundAreRegistered, CopiesFit, Current, ReportsFit, BindingConflicts,
                      BoundTo, ContestedWhenOvertaken
<1>2. ASSUME BesideRequests \/ Requesting, Remember, Witness PROVE HistoryFits'
  <2>1. Keeps BY <1>0, <1>2, EnvironmentStep, ProvisioningStep, RequestingStep DEF BesideRequests, Requesting
  <2>2. registered \subseteq registered' BY <2>1 DEF Keeps
  <2>3. Quiet \/ \E t \in Tasks : Loud(t)
    BY <1>0, <1>2, EnvironmentKinds, ProvisioningKinds, RequestingKinds DEF BesideRequests, Requesting
  <2>4. ASSUME Quiet PROVE HistoryFits' BY <1>0, <1>2, <2>2, <2>4, QuietHistory
  <2>5. ASSUME NEW t \in Tasks, Loud(t) PROVE HistoryFits'
    BY <1>0, <1>2, <2>2, <2>5, QueryFits, AssignFits, GateKeeps, UpsertKeeps DEF Loud
  <2> QED BY <2>3, <2>4, <2>5
<1> QED BY <1>1, <1>2 DEF CustomersNext, customersVars

(* Each part keeps its shape: an environment with an owner is registered, a    *)
(* completed intent has one environment, a request at its act has an account   *)
(* exactly when its gate resolves one, and defaults are seeded by a request.   *)
THEOREM CustomersTypes == CustomersSpec => []CustomersTypeOK
<1>1. CustomersInv => CustomersTypeOK
  BY EnvTypes, ProvTypes, ApiTypes, AccTypes DEF CustomersInv, CustomersTypeOK
<1> QED BY <1>1, CustomersAlways, PTL

(* However reports, switches, failed queries and reloads overlap, a copy that  *)
(* has seen the newest version, or that the refresher takes for the newest, is *)
(* true of the tables unless an older answer was assigned last; and an account *)
(* is on environments of two owners only where a report was overtaken between  *)
(* its gate and its write, or an owner has changed since                       *)
(* (client-user-store.ts).                                                     *)
THEOREM BindingsAreHeld == CustomersSpec => []BindingsHold
<1>1. CustomersInit => HistoryFits BY HistoryStarts
<1>2. CustomersInv /\ CustomersInv' /\ HistoryFits /\ [CustomersNext]_customersVars => HistoryFits' BY HistoryStep
<1>3. CustomersInv /\ HistoryFits => BindingsHold BY HistoryParts
<1> QED BY <1>1, <1>2, <1>3, CustomersAlways, PTL DEF CustomersSpec

(* However often a completion is repeated and wherever its answer is lost, an  *)
(* intent makes one environment, the customer that asks again is recognised,   *)
(* and "done" means that the process has the policy in its copy.               *)
THEOREM IntentsProvisionOnce == CustomersSpec => []ProvisionedOnce
<1>1. CustomersInv => ProvisionedOnce BY ProvisionParts DEF CustomersInv
<1> QED BY <1>1, CustomersAlways, PTL

(* However owners and reports change between the awaits of a request, its door *)
(* acts for an account its customer could reach since it arrived, a denied     *)
(* request has written nothing but a slow start it asked about again, and no   *)
(* name or address fails oftener than the limit and the attempts under way     *)
(* (client-auth-server.ts, rate-limiter.ts).                                   *)
THEOREM DoorsAreKept == CustomersSpec => []DoorsHold
<1>1. CustomersInv => DoorsHold BY DoorParts DEF CustomersInv
<1> QED BY <1>1, CustomersAlways, PTL

(* Whichever process made a row, and however many handshakes meet there, every *)
(* process has the platform of the row, defaults are seeded once and for that  *)
(* platform, and two rosters with one cursor are one roster                    *)
(* (account-store.ts, api-sync-read-source.ts).                                *)
THEOREM RostersAreTrue == CustomersSpec => []RosterHolds
<1>1. CustomersInv => RosterHolds BY DEF CustomersInv, AccInv, RosterHolds
<1> QED BY <1>1, CustomersAlways, PTL

-----------------------------------------------------------------------------
(* What no step does.                                                          *)

SlowStartsKept ==
  \A e \in Envs : slowStart[e].initialized /\ slowStart[e].since # "legacy" => slowStart'[e].since # "legacy"

LEMMA Resumed == ASSUME NEW e, NEW on, slowStart[e].since # "legacy" PROVE Switched(e, on).since # "legacy"
BY NoneIsNobody DEF Switched

LEMMA SlowStartsStay == ASSUME MarksFit, UNCHANGED slowStart PROVE SlowStartsKept
BY DEF SlowStartsKept

LEMMA LegacyStep == CustomersInv /\ CustomersNext => SlowStartsKept
<1> SUFFICES ASSUME CustomersInv, CustomersNext PROVE SlowStartsKept OBVIOUS
<1>0. MarksFit BY DEF CustomersInv, EnvInv
<1>1. ASSUME UNCHANGED envVars PROVE SlowStartsKept BY <1>0, <1>1, SlowStartsStay DEF envVars
<1>2. CASE EnvNext
  <2>1. CASE Reporting
    BY <1>0, <2>1, SlowStartsStay
    DEF Reporting, RegisterUnbound, LeaveActive, Report, GateBinding, UpsertEnvironment, AccountAppears
  <2>2. CASE Copying BY <1>0, <2>2, SlowStartsStay DEF Copying, Poll, QueryCopy, QueryFails, AssignCopy
  <2>3. CASE Assigning BY <1>0, <2>3, SlowStartsStay DEF Assigning, SetScope, DisableUser, EnableUser
  <2>4. CASE Moding
    BY <1>0, <2>4, SlowStartsStay DEF Moding, SetModeAsCustomer, SetModeAsConsole, ReadModeTarget, WriteModeTarget
  <2>5. ASSUME NEW t \in Tasks, NEW e \in Envs, NEW u \in Users \cup {None}, NEW on \in BOOLEAN, SetSlowStart(t, e, u, on)
        PROVE  SlowStartsKept
    <3>1. slowStart' = [slowStart EXCEPT ![e] = Switched(e, on)] BY <2>5 DEF SetSlowStart
    <3> QED BY <1>0, <3>1, Resumed DEF SlowStartsKept, MarksFit
  <2>6. ASSUME NEW t \in Tasks, Migrate(t) PROVE SlowStartsKept
    <3> SUFFICES ASSUME NEW e \in Envs, slowStart[e].initialized, slowStart[e].since # "legacy"
                 PROVE  slowStart'[e].since # "legacy"
      BY DEF SlowStartsKept
    <3>1. slowStart'[e] = slowStart[e] BY <2>6 DEF Migrate, ToMigrate
    <3> QED BY <3>1
  <2> QED BY <1>2, <2>1, <2>2, <2>3, <2>4, <2>5, <2>6 DEF EnvNext, Switching
<1>3. CASE Completing
  <2>1. ASSUME NEW i \in Intents, NEW u \in Users, NEW e \in Envs, NEW q \in Questions, Provision(i, u, e, q)
        PROVE  SlowStartsKept
    <3>1. slowStart' = [slowStart EXCEPT ![e] = [initialized |-> TRUE, since |-> IF q.mode = "slow_start" THEN "set" ELSE None]]
      BY <2>1 DEF Provision, PolicyRows
    <3> QED BY <1>0, <3>1, NoneIsNobody DEF SlowStartsKept, MarksFit
  <2> QED BY <1>1, <1>3, <2>1
    DEF Completing, CreateIntent, TimePasses, CompleteIntent, RefreshAndAnswer, RefreshOrFail, RefreshFails, AnswerLost
<1>4. CASE Editing BY <1>1, <1>4 DEF Editing, OpenProxy, RefuseProxy, WriteProxy
<1>5. CASE Owning
  BY <1>0, <1>5, SlowStartsStay
  DEF Owning, SetScopeLocked, SetScope, DisableUserLocked, DisableUser, HandshakeFirst, RegisterUnbound
<1>6. CASE LoggingIn \/ Visiting
  <2>1. ASSUME NEW r \in Requests, Act(r) PROVE SlowStartsKept
    <3>1. ASSUME NEW on \in BOOLEAN, ActOnSlowStart(r, on) PROVE SlowStartsKept
      <4>1. slowStart' = [slowStart EXCEPT ![request[r].env] = Switched(request[r].env, on)] BY <3>1 DEF ActOnSlowStart
      <4> QED BY <1>0, <4>1, Resumed DEF SlowStartsKept, MarksFit
    <3> QED BY <1>0, <1>1, <2>1, <3>1, SlowStartsStay
      DEF Act, ActMissing, ActRead, ActOnAccount, NotOwner, ActOnSetting, ActOnOffboard, ActOnMode
  <2> QED BY <1>1, <1>6, <2>1 DEF LoggingIn, Visiting
<1> QED BY <1>1, <1>2, <1>3, <1>4, <1>5, <1>6 DEF CustomersNext, BesideRequests, Requesting, ProvNext

ProxiesKept ==
  \A e \in Envs : proxy[e] # None /\ proxy'[e] # proxy[e] =>
    /\ proxy'[e].revision = proxy[e].revision + 1
    /\ \E c \in Calls : /\ call[c].at = "write" /\ call'[c].at = "done" /\ call[c].env = e
                        /\ owner[e] = call[c].user
                        /\ call[c].expected = proxy[e].revision

LEMMA ProxyStep == CustomersInv /\ CustomersNext => ProxiesKept
<1> SUFFICES ASSUME CustomersInv, CustomersNext PROVE ProxiesKept OBVIOUS
<1>0. IntentsTyped /\ IntentsFit /\ CallsFit BY DEF CustomersInv, ProvInv
<1>1. ASSUME UNCHANGED proxy PROVE ProxiesKept BY <1>1 DEF ProxiesKept
<1>2. ASSUME NEW c \in Calls, WriteProxy(c) PROVE ProxiesKept
  <2> SUFFICES ASSUME NEW e \in Envs, proxy[e] # None, proxy'[e] # proxy[e]
               PROVE  /\ proxy'[e].revision = proxy[e].revision + 1
                      /\ call[c].at = "write" /\ call'[c].at = "done" /\ call[c].env = e
                      /\ owner[e] = call[c].user /\ call[c].expected = proxy[e].revision
    BY DEF ProxiesKept
  <2> DEFINE x == call[c].env
  <2>1. /\ call[c].at = "write" /\ Accepts(c) /\ call' = [call EXCEPT ![c] = Done("ok")]
        /\ proxy' = [proxy EXCEPT ![x] = [revision |-> Expected(x) + 1, value |-> call[c].value]]
    BY <1>2 DEF WriteProxy, Finish
  <2>2. x = e BY <1>0, <2>1 DEF IntentsTyped
  <2>3. Expected(x) = proxy[e].revision BY <1>0, <2>2, Revisions
  <2>4. proxy'[e].revision = proxy[e].revision + 1 BY <1>0, <2>1, <2>2, <2>3 DEF IntentsTyped
  <2>5. call'[c].at = "done" BY <1>0, <2>1 DEF IntentsTyped, Done
  <2>6. owner[e] = call[c].user BY <1>0, <2>1, <2>2 DEF CallsFit, CallFits
  <2>7. call[c].expected = proxy[e].revision BY <2>1, <2>3 DEF Accepts
  <2> QED BY <2>1, <2>2, <2>4, <2>5, <2>6, <2>7
<1>3. CASE Completing
  <2>1. ASSUME NEW c \in Calls, NEW i \in Intents, NEW u \in Users, NEW e \in Envs, NEW q \in Questions,
               CompleteIntent(c, i, u, e, q)
        PROVE  ProxiesKept
    <3>1. CASE Outcome(i, u, e, q) = "new" /\ Provision(i, u, e, q)
      <4>1. e \notin registered BY <3>1, Outcomes
      <4>2. proxy[e] = None BY <1>0, <4>1 DEF IntentsFit
      <4>3. proxy' = [proxy EXCEPT ![e] = [revision |-> 1, value |-> q.proxy]] BY <3>1 DEF Provision, EnvironmentRows
      <4> QED BY <1>0, <4>2, <4>3 DEF ProxiesKept, IntentsTyped
    <3> QED BY <1>1, <2>1, <3>1 DEF CompleteIntent
  <2> QED BY <1>1, <1>3, <2>1 DEF Completing, CreateIntent, TimePasses, RefreshAndAnswer, RefreshOrFail, RefreshFails, AnswerLost
<1>4. CASE Editing BY <1>1, <1>2, <1>4 DEF Editing, OpenProxy, RefuseProxy
<1>5. CASE Owning BY <1>1, <1>5 DEF Owning, SetScopeLocked, DisableUserLocked, HandshakeFirst, provVars
<1>6. ASSUME UNCHANGED provVars PROVE ProxiesKept BY <1>1, <1>6 DEF provVars
<1> QED BY <1>3, <1>4, <1>5, <1>6 DEF CustomersNext, BesideRequests, Requesting, ProvNext

SettingsKept ==
  \A r \in Requests : request[r].at = "act" /\ request'[r].wrote /\ request[r].door.writes \notin {"account", "nothing"} =>
    owner[request[r].env] = request[r].user

(* A request at its act has not written: only its own act writes for it.       *)
LEMMA WritesAlone ==
  ASSUME RequestsFit, NEW r \in Requests, request[r].at = "act", request'[r].wrote,
         request[r].door.writes \notin {"account", "nothing"},
         (\E s \in Requests : IsEnabled(s) \/ Logout(s) \/ Gate(s) \/ AfterWrite(s) \/ Act(s))
         \/ (\E s \in Requests, k \in Tokens : Refresh(s, k))
         \/ (\E s \in Requests, k \in Tokens, d \in Doors, e \in Envs \cup {None}, a \in Accounts \cup {None} : Arrive(s, k, d, e, a))
         \/ Restart \/ UNCHANGED request
  PROVE  owner[request[r].env] = request[r].user
<1>1. request \in [Requests -> RequestStates] BY DEF RequestsFit
<1>2. request[r] # Idle BY DEF Idle
<1>3. ~request[r].wrote BY <1>2, RequestNow
<1>4. request'[r] # request[r] BY <1>3
<1>5. ~\E why : Refused(r, why) BY <1>1, <1>3 DEF Refused, Over
<1>6. ~Answered(r) BY <1>5 DEF Answered
<1>7. ASSUME Act(r) PROVE owner[request[r].env] = request[r].user
  BY <1>5, <1>6, <1>7
  DEF Act, ActMissing, ActRead, ActOnAccount, NotOwner, ActOnSetting, ActOnOffboard, ActOnMode, ActOnSlowStart,
      OwnsAtWrite, Owns
<1>8. ~Restart BY <1>2, <1>3 DEF Restart, Over
<1>9. ASSUME NEW s \in Requests, NEW q, request' = [request EXCEPT ![s] = q] PROVE s = r BY <1>1, <1>4, <1>9
<1>10. ASSUME NEW s \in Requests, IsEnabled(s) \/ Logout(s) \/ Gate(s) \/ AfterWrite(s) \/ (\E k \in Tokens : Refresh(s, k))
       PROVE  FALSE
  <2>1. request[s].at # "act"
    BY <1>10 DEF IsEnabled, Logout, Gate, GateBound, GateAlias, GateOwned, GateTask, GateStatement, AfterWrite, Refresh
  <2>2. (\E q : request' = [request EXCEPT ![s] = q])
    BY <1>10 DEF IsEnabled, Doing, Logout, Gate, GateBound, GateAlias, GateOwned, GateTask, GateStatement, AfterWrite,
                 Refresh, Refused, Answered, Pass
  <2> QED BY <1>9, <2>1, <2>2
<1>11. ASSUME NEW s \in Requests, Act(s) PROVE s = r
  <2>1. (\E q : request' = [request EXCEPT ![s] = q])
    BY <1>11 DEF Act, ActMissing, ActRead, ActOnAccount, NotOwner, ActOnSetting, ActOnOffboard, ActOnMode, ActOnSlowStart,
                 Refused, Answered, Wrote
  <2> QED BY <1>9, <2>1
<1>12. ASSUME NEW s \in Requests, NEW k \in Tokens, NEW d \in Doors, NEW e \in Envs \cup {None},
              NEW a \in Accounts \cup {None}, Arrive(s, k, d, e, a)
       PROVE  FALSE
  <2>1. request[s] = Idle /\ \E q : request' = [request EXCEPT ![s] = q] BY <1>12 DEF Arrive
  <2> QED BY <1>2, <1>9, <2>1
<1> QED BY <1>4, <1>7, <1>8, <1>10, <1>11, <1>12

LEMMA SettingStep == CustomersInv /\ CustomersNext => SettingsKept
<1> SUFFICES ASSUME CustomersInv, CustomersNext, NEW r \in Requests, request[r].at = "act", request'[r].wrote,
                    request[r].door.writes \notin {"account", "nothing"}
             PROVE  owner[request[r].env] = request[r].user
  BY DEF SettingsKept
<1>0. RequestsFit BY DEF CustomersInv, ApiInv
<1>1. ASSUME UNCHANGED request PROVE owner[request[r].env] = request[r].user BY <1>0, <1>1, WritesAlone
<1>2. CASE LoggingIn
  <2>1. MyEnvironments \in Doors BY DEF Doors
  <2> QED BY <1>0, <1>1, <1>2, <2>1, WritesAlone
    DEF LoggingIn, LoginStart, LoginFails, LoginSucceeds, WindowEnds, Expire
<1>3. CASE Visiting BY <1>0, <1>3, WritesAlone DEF Visiting
<1> QED BY <1>1, <1>2, <1>3 DEF CustomersNext, BesideRequests, Requesting, apiVars

(* No step brings an old slow start back, changes a proxy but by one revision  *)
(* and for the customer that owns the environment and saw the revision before, *)
(* or writes a setting for a customer that does not own the environment then   *)
(* (client-user-store.ts, facebook-operation-policy-store.ts).                 *)
THEOREM CustomersStepsAreKept == CustomersSpec => CustomerSteps
<1>1. CustomersInv /\ [CustomersNext]_customersVars =>
        [\A e \in Envs : slowStart[e].initialized /\ slowStart[e].since # "legacy" =>
           slowStart'[e].since # "legacy"]_slowStart
  BY LegacyStep DEF SlowStartsKept, customersVars, envVars
<1>2. CustomersInv /\ [CustomersNext]_customersVars =>
        [\A e \in Envs : proxy[e] # None /\ proxy'[e] # proxy[e] =>
           /\ proxy'[e].revision = proxy[e].revision + 1
           /\ \E c \in Calls : /\ call[c].at = "write" /\ call'[c].at = "done" /\ call[c].env = e
                               /\ owner[e] = call[c].user
                               /\ call[c].expected = proxy[e].revision]_<<proxy, call>>
  BY ProxyStep DEF ProxiesKept, customersVars, provVars
<1>3. CustomersInv /\ [CustomersNext]_customersVars =>
        [\A r \in Requests : request[r].at = "act" /\ request'[r].wrote
                             /\ request[r].door.writes \notin {"account", "nothing"} =>
           owner[request[r].env] = request[r].user]_<<request, owner>>
  BY SettingStep DEF SettingsKept, customersVars, envVars, apiVars
<1> QED BY <1>1, <1>2, <1>3, CustomersAlways, PTL
  DEF CustomersSpec, CustomerSteps, LegacyOnce, ProxyByOwner, SettingsByOwner
=============================================================================
