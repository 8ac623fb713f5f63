--------------------------- MODULE DecisionRegister ---------------------------
(* What the publish approval authority promises: per request, rounds that are  *)
(* decided one at a time.  A decision opens a new round only when none is      *)
(* open; the first writer's verdict is what everybody under the same target is *)
(* told until the round is closed; closed rounds stay on record.               *)
EXTENDS Integers

CONSTANTS Requests, Revisions, Targets

VARIABLES
  rounds,   \* every round ever decided
  open,     \* those that are in force
  told      \* what callers were told

vars == <<rounds, open, told>>

Round == [req: Requests, rev: Revisions, approved: BOOLEAN, target: Targets]
Answer == [req: Requests, rev: Revisions, approved: BOOLEAN, target: Targets, written: BOOLEAN]

AnswerFor(r, written) ==
  [req |-> r.req, rev |-> r.rev, approved |-> r.approved, target |-> r.target, written |-> written]

Init == rounds = {} /\ open = {} /\ told = {}

InitLegacy == \E r \in Round : rounds = {r} /\ open = {r} /\ told = {}

(* The first writer; its caller may never hear of it.                          *)
Decide(r) ==
  /\ \A o \in open : o.req # r.req
  /\ \A o \in rounds : o.req = r.req => o.rev < r.rev
  /\ rounds' = rounds \cup {r}
  /\ open' = open \cup {r}
  /\ told' \in {told, told \cup {AnswerFor(r, TRUE)}}

(* A later writer is told the verdict in force.                                *)
Tell(r) ==
  /\ r \in open
  /\ told' = told \cup {AnswerFor(r, FALSE)}
  /\ UNCHANGED <<rounds, open>>

(* The round is voided.                                                        *)
Close(r) ==
  /\ r \in open
  /\ open' = open \ {r}
  /\ UNCHANGED <<rounds, told>>

Next == \E r \in Round : Decide(r) \/ Tell(r) \/ Close(r)

Spec == (Init \/ InitLegacy) /\ [][Next]_vars
=============================================================================
