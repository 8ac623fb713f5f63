--------------------------- MODULE PersonaAutoFill ---------------------------
(***************************************************************************)
(* The filling in of missing personas (persona-auto-fill.ts over           *)
(* persona-auto-fill-store.ts).  A customer submits a persona once; the    *)
(* run takes in the environments it owns at that moment, its targets, and  *)
(* gives the account of each the persona if it has none.  An environment   *)
(* that is not bound to an account yet waits for a handshake.              *)
(*                                                                         *)
(* Two maps in memory keep a run and a target from being processed twice   *)
(* at once; what remains of them after a restart is the rows.  resume(),   *)
(* which would take the rows up again, is called by no line of the source, *)
(* and is no action here.                                                  *)
(*                                                                         *)
(* An environment stands for the account it is bound to.                   *)
(***************************************************************************)
EXTENDS FiniteSets, Naturals

CONSTANTS
  Runs,          \* intents: a customer and an idempotency key
  FillEnvs,      \* environments that become targets
  Nothing,
  BatchLimit,    \* listPendingForRun: limit
  Faults         \* what may go wrong, once each: "restart", "throw"

VARIABLES
  fillRun,       \* persona_auto_fill_runs.state
  target,        \* persona_auto_fill_targets.state
  bound,         \* how resolveBoundAccountForEnv answers for an environment
  persona,       \* persona_config: who wrote the row
  known,         \* accounts whose persona is in the process's copy
  runner,        \* inflightRuns
  worker,        \* inflightTargets
  notice,        \* what notifyEnvironmentBound is doing
  filled,        \* targets whose run wrote the persona (history)
  faults         \* those that happened

rowVars == <<fillRun, target, bound, persona, known, filled>>
fillVars == <<rowVars, runner, worker, notice, faults>>

Open == {"pending", "waiting_binding", "running"}
Ended == {"succeeded", "skipped_existing", "failed"}
RunStates == {"running", "completed", "completed_with_failures"}

ASSUME FillAssumption ==
  /\ BatchLimit \in Nat \ {0} /\ Faults \subseteq {"restart", "throw"}
  /\ Nothing \notin Open \cup Ended \cup RunStates

At(stage) == [at |-> stage]
Quiet == At("quiet")

(* The state a run has when its targets are these. *)
Summary(targets) ==
  CASE \E e \in FillEnvs : targets[e] \in Open -> "running"
    [] \A e \in FillEnvs : targets[e] \notin Open \cup {"failed"} -> "completed"
    [] OTHER -> "completed_with_failures"

-----------------------------------------------------------------------------
FillInit ==
  /\ fillRun = [r \in Runs |-> Nothing] /\ target = [r \in Runs |-> [e \in FillEnvs |-> Nothing]]
  /\ bound \in [FillEnvs -> {"binding_unknown", "binding_conflict", "bound"}]
  /\ persona = [e \in FillEnvs |-> Nothing] /\ known = {}
  /\ runner = [r \in Runs |-> Quiet] /\ worker = [r \in Runs |-> [e \in FillEnvs |-> Quiet]]
  /\ notice = [e \in FillEnvs |-> Quiet] /\ filled = {}
  /\ faults = {}

(* A target that is in the map is left to the work that put it there. *)
Scheduled(w) == IF w = Quiet THEN At("resolve") ELSE w

(* A further request with the key finds the run, and takes it up again. *)
CreateRun(r) ==
  /\ \/ /\ fillRun[r] = Nothing
        /\ \E owned \in SUBSET FillEnvs :
             LET rows == [e \in FillEnvs |-> IF e \in owned THEN "pending" ELSE Nothing]
             IN  target' = [target EXCEPT ![r] = rows] /\ fillRun' = [fillRun EXCEPT ![r] = Summary(rows)]
     \/ fillRun[r] = "running" /\ runner[r] = Quiet /\ UNCHANGED <<fillRun, target>>
  /\ runner' = [runner EXCEPT ![r] = IF fillRun'[r] = "running" /\ @ = Quiet THEN At("list") ELSE @]
  /\ UNCHANGED <<bound, persona, known, worker, notice, filled, faults>>

PendingOf(r) == {e \in FillEnvs : fillRun[r] = "running" /\ target[r][e] = "pending"}

RunnerLists(r) ==
  /\ runner[r] = At("list")
  /\ IF PendingOf(r) = {}
     THEN runner' = [runner EXCEPT ![r] = At("refresh")] /\ worker' = worker
     ELSE \E batch \in SUBSET PendingOf(r) :
            /\ batch # {} /\ Cardinality(batch) <= BatchLimit
            /\ Cardinality(batch) = BatchLimit \/ batch = PendingOf(r)
            /\ runner' = [runner EXCEPT ![r] = [at |-> "work", batch |-> batch]]
            /\ worker' = [worker EXCEPT ![r] = [e \in FillEnvs |-> IF e \in batch THEN Scheduled(@[e]) ELSE @[e]]]
  /\ UNCHANGED <<rowVars, notice, faults>>

AfterBatchDone == At("refresh")                          \* faulty variant: one batch is taken for all
AfterBatch == At("list")
RunnerWaits(r) ==
  /\ runner[r].at = "work" /\ \A e \in runner[r].batch : worker[r][e] = Quiet
  /\ runner' = [runner EXCEPT ![r] = AfterBatch]
  /\ UNCHANGED <<rowVars, worker, notice, faults>>

RunnerEnds(r) ==
  /\ runner[r] = At("refresh")
  /\ fillRun' = [fillRun EXCEPT ![r] = Summary(target[r])]
  /\ runner' = [runner EXCEPT ![r] = Quiet]
  /\ UNCHANGED <<target, bound, persona, known, worker, notice, filled, faults>>

-----------------------------------------------------------------------------
(* One target. *)

Works(r, e, next) == worker' = [worker EXCEPT ![r][e] = next]
Marks(as) == [at |-> "mark", as |-> as]

Resolve(r, e) ==
  /\ worker[r][e] = At("resolve")
  /\ \/ Works(r, e, Marks("failed"))                     \* the look-up fails
     \/ bound[e] = "binding_unknown" /\ Works(r, e, Marks("waiting_binding"))
     \/ bound[e] = "binding_conflict" /\ Works(r, e, Marks("failed"))
     \/ bound[e] = "bound" /\ e \in known /\ Works(r, e, Marks("skipped_existing"))
     \/ bound[e] = "bound" /\ e \notin known /\ Works(r, e, At("claim"))
  /\ UNCHANGED <<rowVars, runner, notice, faults>>

ClaimTarget(r, e) ==
  /\ worker[r][e] = At("claim")
  /\ IF target[r][e] \in {"pending", "waiting_binding"}
     THEN target' = [target EXCEPT ![r][e] = "running"] /\ Works(r, e, At("store"))
     ELSE target' = target /\ Works(r, e, Quiet)
  /\ UNCHANGED <<fillRun, bound, persona, known, filled, runner, notice, faults>>

OutcomeAlways(e) == "succeeded"                          \* faulty variant: a lost race is told as success
OutcomeOf(e) == IF persona[e] = Nothing THEN "succeeded" ELSE "skipped_existing"
SetPersonaIfMissing(r, e) ==
  /\ worker[r][e] = At("store")
  /\ persona' = [persona EXCEPT ![e] = IF @ = Nothing THEN r ELSE @]
  /\ filled' = IF persona[e] = Nothing THEN filled \cup {<<r, e>>} ELSE filled
  /\ Works(r, e, Marks(OutcomeOf(e)))
  /\ UNCHANGED <<fillRun, target, bound, known, runner, notice, faults>>

(* The account is gone, or the text does not load. *)
PersonaRefused(r, e) ==
  /\ worker[r][e] = At("store") /\ Works(r, e, Marks("failed"))
  /\ UNCHANGED <<rowVars, runner, notice, faults>>

MarkTarget(r, e) ==
  /\ worker[r][e].at = "mark"
  /\ target' = [target EXCEPT ![r][e] = worker[r][e].as] /\ Works(r, e, At("refresh"))
  /\ UNCHANGED <<fillRun, bound, persona, known, filled, runner, notice, faults>>
RefreshRunState(r, e) ==
  /\ worker[r][e] = At("refresh")
  /\ fillRun' = [fillRun EXCEPT ![r] = Summary(target[r])] /\ Works(r, e, Quiet)
  /\ UNCHANGED <<target, bound, persona, known, filled, runner, notice, faults>>

(* A statement of a target fails: its work ends with a line in the log. *)
Throws(r, e) ==
  /\ "throw" \in Faults \ faults /\ worker[r][e] # Quiet
  /\ Works(r, e, Quiet) /\ faults' = faults \cup {"throw"}
  /\ UNCHANGED <<rowVars, runner, notice>>

ProcessTarget(r, e) ==
  \/ Resolve(r, e) \/ ClaimTarget(r, e) \/ SetPersonaIfMissing(r, e) \/ PersonaRefused(r, e)
  \/ MarkTarget(r, e) \/ RefreshRunState(r, e)
ProcessRun(r) == RunnerLists(r) \/ RunnerWaits(r) \/ RunnerEnds(r)

-----------------------------------------------------------------------------
(* Handshakes; one environment's are told one after the other. *)

Handshake(e) ==
  /\ notice[e] = Quiet
  /\ bound' = [bound EXCEPT ![e] = IF @ = "binding_unknown" THEN "bound" ELSE @] /\ notice' = [notice EXCEPT ![e] = At("list")]
  /\ UNCHANGED <<fillRun, target, persona, known, filled, runner, worker, faults>>
ListWaitingForEnvironment(e) ==
  /\ notice[e] = At("list")
  /\ notice' = [notice EXCEPT ![e] = [at |-> "schedule",
       runs |-> {r \in Runs : fillRun[r] = "running" /\ target[r][e] \in {"waiting_binding", "pending"}}]]
  /\ UNCHANGED <<rowVars, runner, worker, faults>>
NotifyEnvironmentBound(e) ==
  /\ notice[e].at = "schedule"
  /\ worker' = [r \in Runs |->
       IF r \in notice[e].runs THEN [worker[r] EXCEPT ![e] = Scheduled(@)] ELSE worker[r]]
  /\ notice' = [notice EXCEPT ![e] = Quiet]
  /\ UNCHANGED <<rowVars, runner, faults>>

(* People write personas and take them away; the copy follows.             *)
PersonWrites(e) ==
  /\ persona[e] = Nothing /\ persona' = [persona EXCEPT ![e] = "person"]
  /\ UNCHANGED <<fillRun, target, bound, known, filled, runner, worker, notice, faults>>
PersonClears(e) ==
  /\ persona[e] # Nothing /\ persona' = [persona EXCEPT ![e] = Nothing] /\ known' = known \ {e}
  /\ UNCHANGED <<fillRun, target, bound, filled, runner, worker, notice, faults>>
CopyFollows(e) ==
  /\ e \notin known /\ persona[e] # Nothing /\ known' = known \cup {e}
  /\ UNCHANGED <<fillRun, target, bound, persona, filled, runner, worker, notice, faults>>

RestartFill ==
  /\ "restart" \in Faults \ faults /\ faults' = faults \cup {"restart"}
  /\ runner' = [r \in Runs |-> Quiet] /\ worker' = [r \in Runs |-> [e \in FillEnvs |-> Quiet]]
  /\ notice' = [e \in FillEnvs |-> Quiet] /\ known' = {e \in FillEnvs : persona[e] # Nothing}
  /\ UNCHANGED <<fillRun, target, bound, persona, filled>>

FillNext ==
  \/ \E r \in Runs : CreateRun(r) \/ ProcessRun(r) \/ \E e \in FillEnvs : ProcessTarget(r, e) \/ Throws(r, e)
  \/ \E e \in FillEnvs :
       \/ Handshake(e) \/ ListWaitingForEnvironment(e) \/ NotifyEnvironmentBound(e)
       \/ PersonWrites(e) \/ PersonClears(e) \/ CopyFollows(e)
  \/ RestartFill

(* Fairness: what was begun goes on, and edges shake hands again and again.  *)
FillSpec ==
  /\ FillInit /\ [][FillNext]_fillVars
  /\ \A r \in Runs : WF_fillVars(ProcessRun(r)) /\ \A e \in FillEnvs : WF_fillVars(ProcessTarget(r, e))
  /\ \A e \in FillEnvs : /\ WF_fillVars(Handshake(e))
                         /\ WF_fillVars(ListWaitingForEnvironment(e) \/ NotifyEnvironmentBound(e))

-----------------------------------------------------------------------------
(* Runs, targets and the work on them keep their shape.                      *)
FillTypeOK ==
  /\ fillRun \in [Runs -> RunStates \cup {Nothing}]
  /\ target \in [Runs -> [FillEnvs -> Open \cup Ended \cup {Nothing}]]
  /\ bound \in [FillEnvs -> {"binding_unknown", "binding_conflict", "bound"}]
  /\ persona \in [FillEnvs -> Runs \cup {Nothing, "person"}]
  /\ \A r \in Runs, e \in FillEnvs : worker[r][e] # Quiet => target[r][e] # Nothing
  /\ \A r \in Runs : runner[r].at = "work" => \A e \in runner[r].batch : target[r][e] # Nothing

(* Who is told that the persona was filled in had it filled in by its run,   *)
(* however many runs, people and copies there are.                           *)
SucceededWroteIt == \A r \in Runs, e \in FillEnvs : target[r][e] = "succeeded" => <<r, e>> \in filled

(* While the process lives and no statement fails, it does not come to rest  *)
(* on a target that nobody works on and no handshake would wake.             *)
NothingLeftBehind ==
  faults = {} =>
    \A r \in Runs, e \in FillEnvs :
      runner[r] = Quiet /\ worker[r][e] = Quiet => target[r][e] \notin {"pending", "running"}

(* A persona is filled in by one run, which is the one that says so, and no  *)
(* target is left behind by a process that lives.                            *)
FillsHold == SucceededWroteIt /\ NothingLeftBehind

(* persona-auto-fill.ts:44 takes up at the start what a process that ended   *)
(* had begun.                                                                *)
RestartResumes ==
  \A r \in Runs, e \in FillEnvs : "restart" \in faults /\ target[r][e] = "running" ~> target[r][e] # "running"
=============================================================================
