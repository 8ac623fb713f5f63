---------------------- MODULE PublishApprovalRefinement ----------------------
(* The decision table implements the decision register: a row is a round, an   *)
(* active row an open round, a void a close.                                   *)
EXTENDS PublishApproval

RoundOf(req, rev) ==
  [req |-> req, rev |-> rev, approved |-> decision[req][rev].approved,
   target |-> decision[req][rev].target]

RoundKeys == Requests \X Revisions
RowRounds == {RoundOf(k[1], k[2]) : k \in {k \in RoundKeys : Exists(k[1], k[2])}}
OpenRounds == {RoundOf(k[1], k[2]) : k \in {k \in RoundKeys : Active(k[1], k[2])}}

Register == INSTANCE DecisionRegister WITH
  rounds <- RowRounds, open <- OpenRounds, told <- told

(* Whatever the interleaving of calls, snapshots, read-backs, lost             *)
(* acknowledgements and voids, callers cannot tell record() from a register    *)
(* that decides every round in one step.                                       *)
ImplementsRegister == Register!Spec
=============================================================================
