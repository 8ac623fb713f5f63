------------------------------- MODULE MCDrafts -------------------------------
(* Small instances of DraftApproval, in three parts of one run: one decider,   *)
(* who may move the publish plan, beside an editor with two edits; two         *)
(* deciders beside an editor with one edit, where nobody moves the plan; and   *)
(* two deciders who may move the plan, in one round that nobody edits in.      *)
(* The deciders are alike, so the second begins only after the first; the      *)
(* texts are alike, so the draft begins with "a".                              *)
EXTENDS DraftApproval
CONSTANTS p1, p2, e1

VARIABLE part
mcVars == <<vars, part>>

In(step) ==
  /\ step /\ UNCHANGED part
  /\ decider[p2] = Idle /\ decider'[p2] # Idle => decider[p1] # Idle
  /\ part = "content" => decider'[p2] = Idle
  /\ part = "plans" => draft'.version <= 1 /\ Len(rounds') <= 1 /\ editor'[e1] = Idle
  /\ part = "rounds" =>
       draft'.version <= 1 /\ \A p \in Deciders : decider'[p].pc = "loaded" => decider'[p].plan = draft.plan

MCInit ==
  /\ Init /\ part \in {"content", "rounds", "plans"}
  /\ draft.text = "a" /\ (part = "rounds" => draft.plan = "now")

(* Fairness: the executor sweeps, and ends what it began (DraftApproval).      *)
MCSpec ==
  /\ MCInit /\ [][In(Next)]_mcVars
  /\ WF_mcVars(In(ExecutorClaim)) /\ WF_mcVars(In(ExecutorLoad)) /\ WF_mcVars(In(ExecutorVoid))
  /\ WF_mcVars(In(ExecutorPublish \/ ExecutorRelease)) /\ WF_mcVars(In(ExecutorConsume))
=============================================================================
