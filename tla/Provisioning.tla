---------------------------- MODULE Provisioning ----------------------------
(***************************************************************************)
(* How a customer's client makes an environment of its own                 *)
(* (client-user-store.ts): it asks for an intent, creates the environment  *)
(* on its machine, and completes the intent with the environment's key,    *)
(* its proxy and its operation mode.  One transaction writes the           *)
(* environment, the proxy authority, the operation policy, the ownership   *)
(* and the end of the intent; the process then reloads its copy of the     *)
(* operation policies, and only an answer after that reload says "done".   *)
(* An answer may be lost, so a completed intent is recognised again when   *)
(* the client repeats its question, and refused when the question changed. *)
(*                                                                         *)
(* The proxy authority is edited later under a revision; the ownership is  *)
(* checked with a lock on the row of the environment, which the writers of *)
(* the ownership take too.                                                 *)
(*                                                                         *)
(* Left out: the proof of an intent (a call has it or names no intent),    *)
(* labels, and the primary surface and the comment mode, which are handled *)
(* as the operation mode is.                                               *)
(***************************************************************************)
EXTENDS ClientEnvironments

CONSTANTS
  Intents,       \* intents that may be asked for
  Calls,         \* calls a client makes, each once
  Questions,     \* what a completion asks: [mode, proxy]
  Proxies,       \* proxy authorities
  MaxRevision    \* bound on the revisions of a proxy authority

VARIABLES
  intent,        \* client_env_provisioning_intents
  late,          \* intents whose time to live has passed
  proxy,         \* client_environment_proxy_authorities
  policy,        \* facebook_operation_policy: the base mode
  cached,        \* environments in this process's copy of the policies
  rowLock,       \* who holds the row of client_environments
  call,          \* what each call is doing
  told           \* what completions were told (history)

provVars == <<intent, late, proxy, policy, cached, rowLock, call, told>>

BaseModes == {"persona", "rule", "consumption"}
NoIntent == [state |-> "none", user |-> None, env |-> None]

ASSUME ProvisioningAssumption ==
  /\ None \notin Calls \cup BaseModes \cup [revision : Nat, value : Proxies]
  /\ Questions \subseteq [mode : BaseModes \cup {"slow_start"}, proxy : Proxies]
  /\ MaxRevision \in Nat \ {0}

Done(why) == [at |-> "done", why |-> why]
Finish(c, why) == call' = [call EXCEPT ![c] = Done(why)]

-----------------------------------------------------------------------------
(* Intents. *)

CreateIntent(i, u) ==
  /\ intent[i] = NoIntent /\ u \in enabled
  /\ intent' = [j \in Intents |->
       IF j = i THEN [state |-> "pending", user |-> u, env |-> None]
       ELSE IF intent[j].state = "pending" /\ j \in late THEN [intent[j] EXCEPT !.state = "expired"]
       ELSE intent[j]]
  /\ UNCHANGED <<envVars, late, proxy, policy, cached, rowLock, call, told>>

TimePasses(i) ==
  /\ intent[i].state # "none" /\ i \notin late /\ late' = late \cup {i}
  /\ UNCHANGED <<envVars, intent, proxy, policy, cached, rowLock, call, told>>

-----------------------------------------------------------------------------
(* What a completed intent answers to the question put again. *)

CurrentMode(e) == IF slowStart[e].since # None THEN "slow_start" ELSE policy[e]

Again(i, u, e, q) ==
  CASE intent[i].env # e -> "intent_target_mismatch"
    [] intent[i].env = e /\ (proxy[e] = None \/ proxy[e].value # q.proxy) -> "proxy_authority_mismatch"
    [] intent[i].env = e /\ proxy[e].value = q.proxy /\ owner[e] # u -> "env_already_assigned"
    [] OTHER -> IF CurrentMode(e) # q.mode THEN "intent_operation_mode_mismatch" ELSE "again"

OutcomeForgetful(i, u, e, q) ==                          \* faulty variant: a completed intent is not recognised
  CASE u \notin enabled -> "disabled"
    [] u \in enabled /\ intent[i].user # u -> "invalid_intent"
    [] u \in enabled /\ intent[i].user = u /\ (intent[i].state = "expired" \/ i \in late) -> "intent_expired"
    [] OTHER -> IF e \in registered THEN "environment_already_registered" ELSE "new"
OutcomeAdopting(i, u, e, q) ==                           \* faulty variant: an environment that exists is taken over
  CASE u \notin enabled -> "disabled"
    [] u \in enabled /\ intent[i].user # u -> "invalid_intent"
    [] u \in enabled /\ intent[i].user = u /\ intent[i].state = "completed" -> Again(i, u, e, q)
    [] OTHER -> IF intent[i].state = "expired" \/ i \in late THEN "intent_expired" ELSE "new"
OutcomeByTime(i, u, e, q) ==                             \* faulty variant: the time is asked before the state
  CASE u \notin enabled -> "disabled"
    [] u \in enabled /\ intent[i].user # u -> "invalid_intent"
    [] u \in enabled /\ intent[i].user = u /\ i \in late -> "intent_expired"
    [] OTHER -> IF intent[i].state = "completed" THEN Again(i, u, e, q)
                ELSE IF e \in registered THEN "environment_already_registered" ELSE "new"
Outcome(i, u, e, q) ==
  CASE u \notin enabled -> "disabled"
    [] u \in enabled /\ intent[i].user # u -> "invalid_intent"
    [] u \in enabled /\ intent[i].user = u /\ intent[i].state = "completed" -> Again(i, u, e, q)
    [] u \in enabled /\ intent[i].user = u /\ intent[i].state # "completed"
         /\ (intent[i].state = "expired" \/ i \in late) -> "intent_expired"
    [] OTHER -> IF e \in registered THEN "environment_already_registered" ELSE "new"

(* The rows a completion writes: the environment and its proxy, its policy
   and its slow start, its owner and the end of the intent. *)
EnvironmentRows(e, q) == FirstRow(e) /\ proxy' = [proxy EXCEPT ![e] = [revision |-> 1, value |-> q.proxy]]
PolicyRows(e, q) ==
  /\ policy' = [policy EXCEPT ![e] = IF q.mode = "slow_start" THEN "consumption" ELSE q.mode]
  /\ slowStart' = [slowStart EXCEPT ![e] = [initialized |-> TRUE, since |-> IF q.mode = "slow_start" THEN "set" ELSE None]]
OwnershipRows(i, u, e) ==
  /\ owner' = [owner EXCEPT ![e] = u]
  /\ intent' = [intent EXCEPT ![i] = [state |-> "completed", user |-> u, env |-> e]]
  /\ version < MaxVersion /\ version' = version + 1
Provision(i, u, e, q) ==
  /\ EnvironmentRows(e, q) /\ PolicyRows(e, q) /\ OwnershipRows(i, u, e)
  /\ UNCHANGED <<enabled, account, known, commentMode, task, copy, recorded, late, cached, rowLock>>

CompleteIntent(c, i, u, e, q) ==
  /\ call[c] = Idle /\ rowLock[e] = None
  /\ LET o == Outcome(i, u, e, q) IN
     \/ /\ o = "new" /\ Provision(i, u, e, q)
        /\ call' = [call EXCEPT ![c] = [at |-> "refresh", intent |-> i, env |-> e, again |-> FALSE]]
     \/ /\ o = "again"
        /\ call' = [call EXCEPT ![c] = [at |-> "refresh", intent |-> i, env |-> e, again |-> TRUE]]
        /\ UNCHANGED <<envVars, intent, late, proxy, policy, cached, rowLock>>
     \/ /\ o \notin {"new", "again"}
        /\ call' = [call EXCEPT ![c] = [at |-> "done", why |-> o, intent |-> i, env |-> e]]
        /\ intent' = IF o = "intent_expired" THEN [intent EXCEPT ![i].state = "expired"] ELSE intent
        /\ UNCHANGED <<envVars, late, proxy, policy, cached, rowLock>>
  /\ UNCHANGED told

Tell(c) == told' = told \cup {[intent |-> call[c].intent, env |-> call[c].env, again |-> call[c].again]}

RefreshFails(c) ==
  /\ call[c].at = "refresh"
  /\ Finish(c, "operation_policy_refresh_unavailable")
  /\ UNCHANGED <<envVars, intent, late, proxy, policy, cached, rowLock, told>>

RefreshFailsUnnoticed(c) ==                              \* faulty variant: answers although the reload failed
  /\ call[c].at = "refresh" /\ Finish(c, "ok") /\ Tell(c)
  /\ UNCHANGED <<envVars, intent, late, proxy, policy, cached, rowLock>>
RefreshOrFail(c) == RefreshFails(c)

RefreshAndAnswer(c) ==
  /\ call[c].at = "refresh"
  /\ cached' = {e \in Envs : policy[e] # None}
  /\ Finish(c, "ok") /\ Tell(c)
  /\ UNCHANGED <<envVars, intent, late, proxy, policy, rowLock>>

AnswerLost(c) ==                                         \* the process or the client goes away after the commit
  /\ call[c].at = "refresh" /\ Finish(c, "lost")
  /\ UNCHANGED <<envVars, intent, late, proxy, policy, cached, rowLock, told>>

-----------------------------------------------------------------------------
(* The edit of a proxy authority. *)

Expected(e) == IF proxy[e] = None THEN 0 ELSE proxy[e].revision

OpenUnlocked(c, u, e, v, r) ==                           \* faulty variant: the row is not locked
  /\ OwnsActive(u, e)
  /\ call' = [call EXCEPT ![c] = [at |-> "write", user |-> u, env |-> e, value |-> v, expected |-> r]]
  /\ UNCHANGED rowLock
OpenLocked(c, u, e, v, r) ==
  /\ OwnsActive(u, e) /\ rowLock[e] = None
  /\ call' = [call EXCEPT ![c] = [at |-> "write", user |-> u, env |-> e, value |-> v, expected |-> r]]
  /\ rowLock' = [rowLock EXCEPT ![e] = c]

OpenProxy(c, u, e, v, r) ==
  /\ call[c] = Idle /\ OpenLocked(c, u, e, v, r)
  /\ UNCHANGED <<envVars, intent, late, proxy, policy, cached, told>>

RefuseProxy(c, u, e) ==
  /\ call[c] = Idle /\ ~OwnsActive(u, e) /\ Finish(c, "environment_not_owned")
  /\ UNCHANGED <<envVars, intent, late, proxy, policy, cached, rowLock, told>>

AcceptsAny(c) == TRUE                                    \* faulty variant: the revision is not compared
Accepts(c) == call[c].expected = Expected(call[c].env)

WriteProxy(c) ==
  /\ call[c].at = "write"
  /\ IF Accepts(c)
     THEN /\ Expected(call[c].env) < MaxRevision
          /\ proxy' = [proxy EXCEPT ![call[c].env] = [revision |-> Expected(call[c].env) + 1, value |-> call[c].value]]
          /\ Finish(c, "ok")
     ELSE /\ Finish(c, "proxy_authority_conflict") /\ UNCHANGED proxy
  /\ rowLock' = [e \in Envs |-> IF rowLock[e] = c THEN None ELSE rowLock[e]]
  /\ UNCHANGED <<envVars, intent, late, policy, cached, told>>

-----------------------------------------------------------------------------
(* The writers of the ownership lock the rows they touch. *)

Unlocked(rows) == \A e \in rows : rowLock[e] = None
SetScopeLocked(u, keep) ==
  /\ Unlocked(keep \cup {e \in Envs : owner[e] = u}) /\ SetScope(u, keep) /\ UNCHANGED provVars
DisableUserLocked(u) ==
  /\ Unlocked({e \in Envs : owner[e] = u}) /\ DisableUser(u) /\ UNCHANGED provVars
HandshakeFirst(e) == RegisterUnbound(e) /\ UNCHANGED provVars

-----------------------------------------------------------------------------
ProvInit ==
  /\ EnvInit
  /\ intent = [i \in Intents |-> NoIntent] /\ late = {}
  /\ proxy = [e \in Envs |-> None] /\ policy = [e \in Envs |-> None] /\ cached = {}
  /\ rowLock = [e \in Envs |-> None]
  /\ call = [c \in Calls |-> Idle] /\ told = {}

Completing ==
  \/ \E i \in Intents, u \in Users : CreateIntent(i, u)
  \/ \E i \in Intents : TimePasses(i)
  \/ \E c \in Calls, i \in Intents, u \in Users, e \in Envs, q \in Questions : CompleteIntent(c, i, u, e, q)
  \/ \E c \in Calls : RefreshAndAnswer(c) \/ RefreshOrFail(c) \/ AnswerLost(c)

Editing ==
  \/ \E c \in Calls, u \in Users, e \in Envs, v \in Proxies, r \in 0..MaxRevision : OpenProxy(c, u, e, v, r)
  \/ \E c \in Calls, u \in Users, e \in Envs : RefuseProxy(c, u, e)
  \/ \E c \in Calls : WriteProxy(c)

Owning ==
  \/ \E u \in Users, keep \in SUBSET Envs : SetScopeLocked(u, keep)
  \/ \E u \in Users : DisableUserLocked(u)
  \/ \E e \in Envs : HandshakeFirst(e)

ProvNext == Completing \/ Editing \/ Owning

-----------------------------------------------------------------------------
(* The tables keep their shape. *)
ProvTypeOK ==
  /\ \A i \in Intents :
       /\ intent[i].state \in {"none", "pending", "completed", "expired"}
       /\ intent[i].user \in Users \cup {None} /\ intent[i].env \in Envs \cup {None}
       /\ (intent[i].state = "completed") = (intent[i].env # None)
  /\ \A e \in Envs : proxy[e] = None \/ proxy[e] \in [revision : 1..MaxRevision, value : Proxies]
  /\ \A e \in Envs : policy[e] \in BaseModes \cup {None}
  /\ cached \subseteq {e \in Envs : policy[e] # None}

(* Two intents never make the same environment, an environment somebody else
   registered is nobody's intent, and an intent tells one environment, as
   new at most once. *)
OneEnvironmentPerIntent ==
  /\ \A i, j \in Intents : intent[i].env # None /\ intent[i].env = intent[j].env => i = j
  /\ \A s, t \in told : s.intent = t.intent => s.env = t.env
  /\ \A s \in told : intent[s.intent].state = "completed" /\ intent[s.intent].env = s.env
  /\ \A e \in Envs : (\E i \in Intents : intent[i].env = e) = (policy[e] # None)

(* A client that repeats its question after a lost answer is never told that
   its own environment is somebody's, or that its time is up. *)
RetryRecognised ==
  \A c \in Calls : call[c].at = "done" /\ call[c].why \in {"environment_already_registered", "intent_expired"} =>
    intent[call[c].intent].env # call[c].env

(* "Done" for a new environment means that the process which says it has the
   environment's policy in its copy. *)
ToldIsLoaded == \A s \in told : s.env \in cached

(* The proxy authority changes by one revision at a time, by the customer who
   owns the environment at that moment, and only over the revision that
   customer had seen. *)
ProxyByOwner ==
  [][\A e \in Envs : proxy[e] # None /\ proxy'[e] # proxy[e] =>
       /\ proxy'[e].revision = proxy[e].revision + 1
       /\ \E c \in Calls : /\ call[c].at = "write" /\ call'[c].at = "done" /\ call[c].env = e
                           /\ owner[e] = call[c].user
                           /\ call[c].expected = proxy[e].revision]_<<proxy, call>>
=============================================================================
