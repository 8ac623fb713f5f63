------------------------------- MODULE ClientApi -------------------------------
(***************************************************************************)
(* The customers' HTTP server (client-auth-server.ts): the log-in with its *)
(* limiter (rate-limiter.ts), the tokens and their withdrawal, and the     *)
(* doors to a customer's own environments.                                 *)
(*                                                                         *)
(* A request passes its token's check, a read of the customer's status,    *)
(* the gate of its door, and then acts; each of these is an await, and the *)
(* ownership and the bindings of ClientEnvironments change in between.     *)
(* Doors that write what belongs to an environment leave the question of   *)
(* ownership to the write; doors that write what belongs to an account     *)
(* carry the account their gate resolved.  Two doors ask once more after   *)
(* they have written.                                                      *)
(*                                                                         *)
(* A door is a record, so that doors of one form are one door here.  The   *)
(* shape of requests and answers is left out, and so is what a door        *)
(* reads; every door that depends on a service may find it missing.        *)
(***************************************************************************)
EXTENDS ClientEnvironments

CONSTANTS
  Requests,      \* HTTP requests, each once
  Logins,        \* log-in attempts under way together
  Names, Places, \* names and addresses the limiter counts by
  Tokens,
  Facebook,      \* the accounts and the environments of that platform
  MaxFailures    \* LoginRateLimiter: max

ASSUME LimiterAssumption == IsFiniteSet(Logins) /\ MaxFailures \in Nat \ {0}

VARIABLES
  request,       \* what each request is doing
  login,         \* what each attempt is doing
  failures,      \* LoginRateLimiter.buckets
  token,         \* whose each token is
  withdrawn,     \* tokens revoked, in memory
  reached        \* accounts each request's customer reached since it arrived (history)

apiVars == <<request, login, failures, token, withdrawn, reached>>

-----------------------------------------------------------------------------
(* The doors: how the gate resolves the environment, the platform it asks
   for, whether the record the client names is compared with the account,
   what is written, and whether the ownership is read again after that. *)

Reads(platform) == [gate |-> "bound", platform |-> platform, compares |-> FALSE, writes |-> "nothing", again |-> "no"]
ReadsRecord == [Reads("any") EXCEPT !.compares = TRUE]
WritesAccount(platform) == [Reads(platform) EXCEPT !.writes = "account"]
WritesRecord(platform) == [WritesAccount(platform) EXCEPT !.compares = TRUE]
InStatement(what) == [Reads("any") EXCEPT !.gate = "statement", !.writes = what]
Setting(gate) == [gate |-> gate, platform |-> "facebook", compares |-> FALSE, writes |-> "setting", again |-> "no"]

MyEnvironments == InStatement("nothing")
ProxyRead == InStatement("nothing")
ProxyWrite == InStatement("setting")
OperatorAlias == [WritesAccount("any") EXCEPT !.gate = "alias"]
PersonaRead == Reads("any")
PersonaDraft == Reads("any")
PersonaWrite == WritesAccount("any")
DraftEdit == WritesRecord("any")
RefinementCreate == WritesRecord("any")
RefinementRead == ReadsRecord
DraftApprove == WritesRecord("any")
DraftImageRemove == WritesRecord("any")
RiskRead == Reads("facebook")
RecoveryOutcome == Reads("facebook")
Recover == WritesAccount("facebook")
AutoFill == InStatement("nothing")
ControlBootstrap == Reads("any")
Overview == Reads("any")
ScheduleRead == Reads("xiaohongshu")
PolicyRead == [Setting("settled") EXCEPT !.writes = "nothing"]
PolicyWrite == Setting("settled")
ProgressRead == [Setting("settled") EXCEPT !.writes = "nothing"]
ProgressWrite == Setting("settled")
SurfaceRead == [Setting("settled") EXCEPT !.writes = "nothing"]
SurfaceWrite == Setting("settled")
RuleModeRead == [Setting("owned") EXCEPT !.writes = "nothing"]
RuleModeWrite == Setting("owned")
CommentApprovalReread == [InStatement("comment_mode") EXCEPT !.again = "ownership"]  \* faulty variant
CommentApproval == InStatement("comment_mode")
SlowStartWrite == [InStatement("slow_start") EXCEPT !.again = "ownership"]
SlowStartRead == InStatement("nothing")
DraftsRead == Reads("any")
OccupiedHours == Reads("any")
DraftDetail == ReadsRecord
CuratedRead == Reads("any")
CuratedCreate == WritesRecord("any")
CuratedDetail == ReadsRecord
OffboardBegin == [InStatement("offboard") EXCEPT !.again = "grant"]
QueueRead == Reads("xiaohongshu")
QueueCancel == WritesRecord("xiaohongshu")
DelegatedRead == Reads("any")
DelegatedDraft == WritesAccount("any")
TaskAction == [WritesAccount("any") EXCEPT !.gate = "task"]

Doors ==
  {MyEnvironments, ProxyRead, ProxyWrite, OperatorAlias, PersonaRead, PersonaDraft, PersonaWrite, DraftEdit,
   RefinementCreate, RefinementRead, DraftApprove, DraftImageRemove, RiskRead, RecoveryOutcome, Recover, AutoFill,
   ControlBootstrap, Overview, ScheduleRead, PolicyRead, PolicyWrite, ProgressRead, ProgressWrite, SurfaceRead,
   SurfaceWrite, RuleModeRead, RuleModeWrite, CommentApproval, SlowStartWrite, SlowStartRead, DraftsRead,
   OccupiedHours, DraftDetail, CuratedRead, CuratedCreate, CuratedDetail, OffboardBegin, QueueRead, QueueCancel,
   DelegatedRead, DelegatedDraft, TaskAction}

-----------------------------------------------------------------------------
(* Log-in. *)

Keys(n, p) == {n, p}
LimitPassed(n, p) == \E k \in Keys(n, p) : failures[k] > MaxFailures     \* faulty variant: one too many
Limited(n, p) == \E k \in Keys(n, p) : failures[k] >= MaxFailures

LoginStart(l, n, p) ==
  /\ login[l] = Idle
  /\ login' = [login EXCEPT ![l] = IF Limited(n, p) THEN Idle ELSE [at |-> "verify", keys |-> Keys(n, p)]]
  /\ UNCHANGED <<request, failures, token, withdrawn>>

RecordFailure(l) == failures' = [k \in DOMAIN failures |-> IF k \in login[l].keys THEN failures[k] + 1 ELSE failures[k]]

LoginFails(l) ==
  /\ login[l].at = "verify" /\ RecordFailure(l)
  /\ login' = [login EXCEPT ![l] = Idle]
  /\ UNCHANGED <<request, token, withdrawn>>

Issue(k, u) == token[k] = None /\ token' = [token EXCEPT ![k] = u]

LoginSucceeds(l, k, u) ==
  /\ login[l].at = "verify" /\ u \in enabled /\ Issue(k, u)
  /\ failures' = [x \in DOMAIN failures |-> IF x \in login[l].keys THEN 0 ELSE failures[x]]
  /\ login' = [login EXCEPT ![l] = Idle]
  /\ UNCHANGED <<request, withdrawn>>

WindowEnds(k) ==
  /\ failures[k] > 0 /\ failures' = [failures EXCEPT ![k] = 0]
  /\ UNCHANGED <<request, login, token, withdrawn>>

-----------------------------------------------------------------------------
(* A request up to its gate.  An expired token is an unknown one. *)

Doing(r, at) == request' = [request EXCEPT ![r].at = at]
Over(r, why) == [at |-> "done", door |-> request[r].door, wrote |-> request[r].wrote, why |-> why]
Refused(r, why) == request' = [request EXCEPT ![r] = Over(r, why)]
Answered(r) == Refused(r, "ok")
Pass(r, a) == request' = [request EXCEPT ![r] = [request[r] EXCEPT !.at = "act", !.account = a]]
Others == UNCHANGED <<login, failures, withdrawn>>

Arrive(r, k, d, e, a) ==                                 \* a: the account of the record the client names
  /\ request[r] = Idle /\ token[k] # None /\ k \notin withdrawn
  /\ request' = [request EXCEPT ![r] =
       [at |-> "status", door |-> d, user |-> token[k], token |-> k, env |-> e, named |-> a,
        account |-> None, wrote |-> FALSE]]
  /\ UNCHANGED token /\ Others

Expire(k) == token[k] # None /\ token' = [token EXCEPT ![k] = None] /\ UNCHANGED request /\ Others

IsEnabled(r) ==
  /\ request[r].at = "status"
  /\ IF request[r].user \in enabled THEN Doing(r, "gate") ELSE Refused(r, "disabled")
  /\ UNCHANGED token /\ Others

Refresh(r, k) ==
  /\ request[r].at = "gate" /\ Issue(k, request[r].user)
  /\ Answered(r) /\ Others

Logout(r) ==
  /\ request[r].at = "gate" /\ withdrawn' = withdrawn \cup {request[r].token}
  /\ Answered(r) /\ UNCHANGED <<login, failures, token>>

Restart ==                                               \* the process: requests and its memory are gone
  /\ withdrawn' = {} /\ failures' = [k \in DOMAIN failures |-> 0]
  /\ request' = [r \in Requests |-> IF request[r] = Idle THEN Idle ELSE Over(r, "lost")]
  /\ login' = [l \in Logins |-> Idle]
  /\ UNCHANGED token

-----------------------------------------------------------------------------
(* The gates. *)

OnPlatform(x, platform) == platform = "any" \/ (x \in Facebook) = (platform = "facebook")

GateBound(r) ==
  LET q == request[r]  b == ResolveBoundAccount(q.user, q.env) IN
  /\ q.at = "gate" /\ q.door.gate = "bound"
  /\ CASE ~b.ok -> Refused(r, b.why)
       [] b.ok /\ ~OnPlatform(b.account, q.door.platform) -> Refused(r, "unsupported_platform")
       [] OTHER -> Pass(r, b.account)

GateAlias(r) ==
  LET q == request[r]  b == ResolveAliasAccount(q.user, q.env) IN
  /\ q.at = "gate" /\ q.door.gate = "alias"
  /\ IF b.ok THEN Pass(r, b.account) ELSE Refused(r, b.why)

GateOwned(r) ==                                          \* "settled": a conflicting binding is refused too
  LET q == request[r]  b == OwnedBinding(q.user, q.env) IN
  /\ q.at = "gate" /\ q.door.gate \in {"owned", "settled"}
  /\ CASE b = "environment_not_owned" -> Refused(r, b)
       [] b # "environment_not_owned" /\ ~OnPlatform(q.env, q.door.platform) -> Refused(r, "unsupported_platform")
       [] OTHER -> IF b = "binding_conflict" /\ q.door.gate = "settled" THEN Refused(r, b) ELSE Pass(r, None)

GateTask(r) ==                                           \* the task was read: named is its account
  LET q == request[r] IN
  /\ q.at = "gate" /\ q.door.gate = "task"
  /\ IF Reachable(q.user, q.named) THEN Pass(r, q.named) ELSE Refused(r, "not_reachable")

GateStatement(r) == request[r].at = "gate" /\ request[r].door.gate = "statement" /\ Pass(r, None)

Gate(r) ==
  /\ GateBound(r) \/ GateAlias(r) \/ GateOwned(r) \/ GateTask(r) \/ GateStatement(r)
  /\ UNCHANGED token /\ Others

-----------------------------------------------------------------------------
(* The act. *)

BelongsUnread(r) == TRUE                                 \* faulty variant: the named record is not compared
Belongs(r) == ~request[r].door.compares \/ request[r].named = request[r].account

Target(r) ==                                             \* the account an act is for
  IF request[r].door.compares THEN request[r].named ELSE request[r].account

OwnsAtGate(r) == TRUE                                    \* faulty variant: the write trusts the gate
OwnsAtWrite(r) == Owns(request[r].user, request[r].env)

Wrote(r) ==
  request' = [request EXCEPT ![r] =
    IF request[r].door.again = "no" THEN [Over(r, "ok") EXCEPT !.wrote = TRUE]
    ELSE [request[r] EXCEPT !.at = "again", !.wrote = TRUE]]

ActMissing(r) ==                                         \* the service behind the door is not there
  /\ request[r].at = "act" /\ Refused(r, "unavailable") /\ UNCHANGED <<envVars, token>> /\ Others

ActRead(r) ==
  /\ request[r].at = "act" /\ request[r].door.writes = "nothing"
  /\ IF Belongs(r) THEN Answered(r) ELSE Refused(r, "not_found")
  /\ UNCHANGED <<envVars, token>> /\ Others

ActOnAccount(r) ==
  /\ request[r].at = "act" /\ request[r].door.writes = "account"
  /\ IF Belongs(r) THEN Wrote(r) ELSE Refused(r, "not_found")
  /\ UNCHANGED <<envVars, token>> /\ Others

NotOwner(r) ==
  /\ request[r].at = "act" /\ request[r].door.writes \notin {"nothing", "account"} /\ ~OwnsAtWrite(r)
  /\ Refused(r, "environment_not_owned")
  /\ UNCHANGED <<envVars, token>> /\ Others

ActOnSetting(r) ==
  /\ request[r].at = "act" /\ request[r].door.writes = "setting" /\ OwnsAtWrite(r)
  /\ Wrote(r) /\ UNCHANGED <<envVars, token>> /\ Others

ActOnMode(r, m) ==
  /\ request[r].at = "act" /\ request[r].door.writes = "comment_mode"
  /\ OwnsAtWrite(r) /\ request[r].env \in registered /\ WriteMode(request[r].env, m)
  /\ Wrote(r)
  /\ UNCHANGED <<enabled, owner, registered, account, active, known, slowStart, version, task, copy, recorded, token>>
  /\ Others

ActOnSlowStart(r, on) ==
  /\ request[r].at = "act" /\ request[r].door.writes = "slow_start" /\ OwnsAtWrite(r)
  /\ slowStart' = [slowStart EXCEPT ![request[r].env] = Switched(request[r].env, on)]
  /\ \E t \in Tasks \ {Poller} : task[t] = Idle /\ Bump(t)
  /\ Wrote(r)
  /\ UNCHANGED <<enabled, owner, registered, account, active, known, commentMode, copy, recorded, token>>
  /\ Others

ActOnOffboard(r) ==                                      \* the ownership ends here
  /\ request[r].at = "act" /\ request[r].door.writes = "offboard" /\ OwnsAtWrite(r)
  /\ owner' = [owner EXCEPT ![request[r].env] = None]
  /\ Wrote(r)
  /\ UNCHANGED <<enabled, registered, account, active, known, commentMode, slowStart, version, task, copy, recorded, token>>
  /\ Others

Act(r) ==
  \/ ActMissing(r) \/ ActRead(r) \/ ActOnAccount(r) \/ NotOwner(r) \/ ActOnSetting(r) \/ ActOnOffboard(r)
  \/ \E m \in Modes : ActOnMode(r, m)
  \/ \E on \in BOOLEAN : ActOnSlowStart(r, on)

(* After the write: the slow start is read again for its owner, and the
   grant of a clean-up is registered. *)
AfterWrite(r) ==
  /\ request[r].at = "again"
  /\ \/ Answered(r)
     \/ Refused(r, "unavailable")
     \/ /\ request[r].door.again = "ownership" /\ ~Owns(request[r].user, request[r].env)
        /\ Refused(r, "environment_not_owned")
     \/ request[r].door.again = "grant" /\ Refused(r, "cleanup_grant_unavailable")
  /\ UNCHANGED token /\ Others

-----------------------------------------------------------------------------
ApiInit ==
  /\ request = [r \in Requests |-> Idle] /\ login = [l \in Logins |-> Idle]
  /\ failures = [k \in Names \cup Places |-> 0]
  /\ withdrawn = {}
  /\ reached = [r \in Requests |-> {}]

LoggingIn ==
  /\ \/ \E l \in Logins, n \in Names, p \in Places : LoginStart(l, n, p)
     \/ \E l \in Logins : LoginFails(l) \/ \E k \in Tokens, u \in Users : LoginSucceeds(l, k, u)
     \/ \E k \in Names \cup Places : WindowEnds(k)
     \/ \E r \in Requests, k \in Tokens : Arrive(r, k, MyEnvironments, None, None) \/ Refresh(r, k)
     \/ \E r \in Requests : IsEnabled(r) \/ Logout(r)
     \/ \E k \in Tokens : Expire(k)
     \/ Restart
  /\ UNCHANGED envVars

Visiting ==
  \/ /\ \/ \E r \in Requests, k \in Tokens, d \in Doors, e \in Envs, a \in Accounts :
             (~d.compares /\ d.gate # "task" => a = CHOOSE x \in Accounts : TRUE) /\ Arrive(r, k, d, e, a)
        \/ \E r \in Requests : IsEnabled(r) \/ Gate(r) \/ AfterWrite(r)
     /\ UNCHANGED envVars
  \/ \E r \in Requests : Act(r)

(* History: what the customer of a request under way can reach. *)
UnderWay(r) == request'[r] # Idle /\ request'[r].at # "done"
Remember ==
  reached' = [r \in Requests |->
    IF UnderWay(r) THEN reached[r] \cup {a \in Accounts : \E u \in Users : u = request'[r].user /\ Reachable(u, a)'} ELSE {}]

-----------------------------------------------------------------------------
(* Requests and attempts keep their shape. *)
ApiTypeOK ==
  /\ \A r \in Requests : request[r].at \in {"idle", "status", "gate", "act", "again", "done"}
  /\ \A r \in Requests : request[r].at \notin {"idle", "done"} =>
       /\ request[r].door \in Doors /\ request[r].user \in Users
       /\ request[r].account \in Accounts \cup {None}
       /\ request[r].at = "act" => (request[r].account = None) = (request[r].door.gate \in {"statement", "owned", "settled"})
  /\ token \in [Tokens -> Users \cup {None}] /\ withdrawn \subseteq Tokens

(* A log-in is counted when it has failed, so attempts that are under way
   together pass the limit together: never more of them than that. *)
AttemptsBounded == \A k \in Names \cup Places : failures[k] < MaxFailures + Cardinality(Logins)

(* A request never acts for an account that its customer could not reach at
   any time since the request arrived, whatever record the client names and
   whoever owned or reported what meanwhile. *)
ActsWithinReach ==
  \A r \in Requests : request[r].at = "act" /\ request[r].account # None /\ Belongs(r) =>
    Target(r) \in reached[r]

(* A customer told that the environment is not its own has changed nothing,
   unless the door asked once more after its write. *)
RefusedLeavesNothing ==
  \A r \in Requests : request[r].at = "done" /\ request[r].why \in {"environment_not_owned", "binding_conflict", "disabled"} /\ request[r].wrote =>
    request[r].door = SlowStartWrite

(* What belongs to an environment is written by a customer that owns it at
   that moment, not at the moment of the gate. *)
SettingsByOwner ==
  [][\A r \in Requests : request[r].at = "act" /\ request'[r].wrote
                         /\ request[r].door.writes \notin {"account", "nothing"} =>
       owner[request[r].env] = request[r].user]_<<request, owner>>
=============================================================================
