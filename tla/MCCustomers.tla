----------------------------- MODULE MCCustomers -----------------------------
(* The customers' environments and accounts, in parts of one run: bindings and *)
(* owners, switches and comment modes, the completion of intents, the edits of *)
(* a proxy, log-ins and tokens, the doors, and the accounts table.  A          *)
(* behaviour is about one part.                                                *)
EXTENDS Customers, TLC

CONSTANTS u1, u2, a1, a2, t1, t2, c1, c2, i1, i2, r1, k1, h1, h2, px, py

VARIABLE part
mcVars == <<envVars, past, provVars, apiVars, accountVars, part>>

SomeQuestions == {[mode |-> "slow_start", proxy |-> px], [mode |-> "rule", proxy |-> py]}
Symmetry == Permutations(Users) \cup Permutations(Envs)

-----------------------------------------------------------------------------
(* A second task, intent, call or request of a kind begins only after the      *)
(* first: they are alike; the time of the first intent is up at any moment.    *)
(* Switches of slow starts and of comment modes share nothing: one or the other. *)
OnEnvironments(step) ==
  /\ part \in {"bindings", "switches"} /\ step /\ Witness
  /\ a2 \notin known' /\ \A t \in {t1, t2} : task'[t].at = "gate" => task'[t].account = a1
  /\ task[t2] = Idle /\ task'[t2] # Idle => task[t1] # Idle
  /\ enabled' = Users
  /\ task'[Poller] # Idle => task'[t2] = Idle
  /\ part = "bindings" => version' < 3
  /\ part = "switches" => /\ a1 \in known' /\ (active' = registered')
                          /\ task'[t2] = Idle /\ task'[Poller] = Idle
                         /\ \/ \A e \in Envs : commentMode'[e] = None
                            \/ \A e \in Envs : ~slowStart'[e].initialized
  /\ UNCHANGED <<provVars, apiVars, accountVars, part>>

OnProvisioning(p1, step) ==
  /\ part = p1 /\ step /\ Witness /\ version' < 3
  /\ intent[i1] = NoIntent => intent'[i2] = NoIntent
  /\ call[c1] = Idle => call'[c2] = Idle
  /\ i2 \notin late'
  /\ UNCHANGED <<apiVars, accountVars, part>>

OnLogins(step) == part = "logins" /\ step /\ Remember /\ UNCHANGED <<past, provVars, accountVars, part>>

\* What changes beside a request: reports of a1 and owners. No door reads the
\* copy, and no reload of it succeeds here.
Beside ==
  /\ request[r1].at # "done"
  /\ \/ \E e \in Envs : RegisterUnbound(e) \/ Report(t1, e, a1)
     \/ GateBinding(t1) \/ UpsertEnvironment(t1) \/ QueryFails(t1)
     \/ Assigning \/ AccountAppears(a1)
  /\ UNCHANGED <<request, login, failures, token, withdrawn>>
OnDoors(step) ==
  /\ part = "doors" /\ step /\ Remember /\ Witness
  /\ a1 \in known' /\ version' < 3 /\ task'[t2] = Idle /\ Users \ enabled' \subseteq {token[k1]}
  /\ UNCHANGED <<provVars, accountVars, part>>

OnAccounts(step) ==
  /\ part = "accounts" /\ step /\ Cardinality(rosters') <= 2
  /\ errand[h1] = Waiting /\ errand'[h2] # errand[h2] => errand[h2] # Waiting
  /\ UNCHANGED <<envVars, past, provVars, apiVars, part>>

MCInit ==
  /\ EnvInit /\ ProvInit /\ ApiInit /\ AccountsInit
  /\ part \in {"bindings", "switches", "completing", "editing", "logins", "doors", "accounts"}
  /\ \E u \in Users : token = [k \in Tokens |-> IF part = "doors" /\ k = k1 THEN u ELSE None]
MCNext ==
  \/ OnEnvironments(Reporting \/ Assigning \/ Copying)
  \/ part = "switches" /\ OnEnvironments(Switching \/ Moding)
  \/ OnProvisioning("completing", Completing \/ Owning)
  \/ OnProvisioning("editing", Editing \/ Owning)
  \/ OnLogins(LoggingIn)
  \/ OnDoors(Visiting \/ Beside)
  \/ OnAccounts(AccountsNext)
MCSpec == MCInit /\ [][MCNext]_mcVars
=============================================================================
