------------------------------ MODULE MCConsole ------------------------------
(* What people and services change through the console, in parts that share no *)
(* state of the model: the operation policy, the answers to the services that  *)
(* read configuration, the reply configuration, the doors of the console, and  *)
(* the environments taken away from customers.  A behaviour is about one part. *)
EXTENDS Console

CONSTANTS slow, fast, e1, p1, p2, r1, r2, u1, dev

VARIABLE part
mcVars == <<polVars, syncVars, replyVars, consoleVars, vars, part>>

-----------------------------------------------------------------------------
(* Requests that two processes serve; they are alike, so the second begins     *)
(* only after the first.                                                       *)
AskOf(kind, user, mode, source, cadence, day, on) ==
  [kind |-> kind, env |-> e1, user |-> user, mode |-> mode, source |-> source,
   cadence |-> cadence, day |-> day, on |-> on]
SomeAsks ==
  {AskOf("global", None, "rule", "kept", fast, 3, FALSE),
   AskOf("global", None, "rule", "kept", fast, 1, FALSE),
   AskOf("mode", u1, "rule", "global", None, 1, FALSE),
   AskOf("mode", None, "slow_start", "kept", None, 1, FALSE),
   AskOf("progress", u1, "rule", "kept", None, 2, FALSE),
   AskOf("surface", u1, "rule", "kept", None, 1, TRUE),
   AskOf("rule", None, "rule", "kept", None, 1, TRUE),
   AskOf("slow", None, "rule", "kept", None, 1, TRUE)}
ServedBy == [r \in Requests |-> IF r = r1 THEN p1 ELSE p2]

-----------------------------------------------------------------------------
(* The parts of each module, and what each leaves out.                         *)
OnPolicy(step) ==
  /\ part = "policy" /\ step
  /\ request[r1].at = "idle" => request'[r2] = request[r2]
  /\ UNCHANGED <<syncVars, replyVars, consoleVars, vars, part>>

OnSync(p, step) ==
  /\ part = p /\ step /\ Cardinality(sent') <= 2
  /\ UNCHANGED <<polVars, replyVars, consoleVars, vars, part>>

\* Edits of one scope by several editors; several scopes read while one edits.
OnReplies(step) ==
  /\ part \in {"edits", "resolve"} /\ step
  /\ part = "edits" => reading' = reading /\ label' = label
  /\ part = "edits" => \A s \in Sources \ {Default} : scopes'[s] = Nothing
  /\ part = "resolve" => /\ Cardinality({r \in Editors : edit'[r] # NoEdit}) <= 1
                         /\ \A s \in Sources : scopes'[s] # Nothing => scopes'[s].current <= 2
  /\ UNCHANGED <<polVars, syncVars, consoleVars, vars, part>>

OnDoors(step) ==
  part = "doors" /\ step /\ UNCHANGED <<polVars, syncVars, replyVars, vars, part>>

\* Admissions of two deployments, the first of dev; late snapshots of one; claims of workers.
OfDevOnly ==
  /\ \A e \in Environments : hold'[e] # Nobody => hold'[e].target = dev
  /\ \A c \in DOMAIN cleanups' \cup snapshots' : c.target = dev
OnHolds(step) ==
  /\ part \in {"release", "late", "claims"} /\ step
  /\ part # "claims" => claims' = {}
  /\ part = "release" => clock' <= 5 /\ (admitted = 0 => \A e \in Environments : hold'[e] # Nobody => hold'[e].target = dev)
  /\ part = "claims" => admitted' <= 1 /\ clock' <= 4
  /\ part # "release" => OfDevOnly
  /\ UNCHANGED <<polVars, syncVars, replyVars, consoleVars, part>>

MCInit ==
  /\ PolicyInit /\ SyncInit /\ ReplyInit /\ ConsoleInit /\ Init
  /\ part \in {"policy", "rows", "policy_read", "schedule_read", "consume",
               "edits", "resolve", "doors", "release", "late", "claims"}
  /\ part \in {"release", "late", "claims"} \/ DOMAIN cleanups = {}
  /\ part = "policy" \/ (audits = {} /\ \A e \in Envs : anchor[e] = None)
  /\ part = "resolve" \/ \A m \in Members : label[m] = Nothing
MCNext ==
  \/ OnPolicy(PolicyNext)
  \/ \E k \in {"plain", "gate", "slow_start"} : OnSync("rows", Write(k))
  \/ \E s \in RowStreams : OnSync("rows", PullRows(s))
  \/ OnSync("policy_read", Write("policy"))
  \/ \E p \in Pulls : OnSync("policy_read", PullPolicy(p))
  \/ \E k \in {"schedule", "group"} : OnSync("schedule_read", Write(k))
  \/ \E h \in Hosts : OnSync("schedule_read", TakeGroupPolicy(h) \/ \E p \in Pulls : PullSchedule(p, h))
  \/ OnSync("consume", Consuming)
  \/ OnReplies(ReplyNext)
  \/ OnDoors(ConsoleNext)
  \/ OnHolds(Next)
MCSpec == MCInit /\ [][MCNext]_mcVars

=============================================================================
