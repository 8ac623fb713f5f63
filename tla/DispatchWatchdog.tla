-------------------------- MODULE DispatchWatchdog --------------------------
(* The watchdog of approvals that wait to be sent                              *)
(* (pending-dispatch-watchdog.ts).  A sweep lists the approvals that have      *)
(* waited beyond the threshold and have no reason recorded, forgets those it   *)
(* had reported that are no longer listed, and reports the others, one after   *)
(* another.  The timer starts a sweep every interval whether or not the last   *)
(* one has ended, and a listing may be answered late.                          *)
EXTENDS Naturals, FiniteSets

CONSTANTS
  Approvals,      \* approvals
  Sweeps,       \* sweeps under way at once
  CandidateLimit \* LIMIT of listStalePendingDispatch

ASSUME WatchdogAssumption == CandidateLimit \in Nat \ {0}

VARIABLES
  stall,      \* external: how each approval waits
  sweep,      \* sweeps in flight
  alerted,    \* the alerted set
  everStalled,\* history: approvals that were once overdue without a reason
  raised,     \* history: approvals an alert was attempted for
  delivered   \* history: approvals for which somebody was told

dogVars == <<stall, sweep, alerted, everStalled, raised, delivered>>

NoSweep == [pc |-> "idle", rows |-> {}]
Sweep == [pc: {"idle", "listed", "alerting"}, rows: SUBSET Approvals]

DogTypeOK ==
  /\ stall \in [Approvals -> {"fine", "overdue", "explained", "gone"}]
  /\ sweep \in [Sweeps -> Sweep]
  /\ \A s \in Sweeps : sweep[s].pc = "idle" => sweep[s].rows = {}
  /\ {alerted, everStalled, raised, delivered} \subseteq SUBSET Approvals

DogInit ==
  /\ stall = [q \in Approvals |-> "fine"]
  /\ sweep = [s \in Sweeps |-> NoSweep]
  /\ alerted = {} /\ everStalled = {} /\ raised = {} /\ delivered = {}

(* External: an approval is overdue, gets a reason, loses it, is sent.         *)
StallChanges(q, how) ==
  /\ <<stall[q], how>> \in {<<"fine", "overdue">>, <<"fine", "explained">>, <<"overdue", "explained">>,
                            <<"explained", "overdue">>, <<"overdue", "gone">>, <<"fine", "gone">>,
                            <<"explained", "gone">>}
  /\ stall' = [stall EXCEPT ![q] = how]
  /\ everStalled' = IF how = "overdue" THEN everStalled \cup {q} ELSE everStalled
  /\ UNCHANGED <<sweep, alerted, raised, delivered>>

(* listStalePendingDispatch: approved, waiting, no reason, over the threshold. *)
\* Faulty variant: the condition on dispatch_blocked_reason is missing.
StaleOrExplained == {q \in Approvals : stall[q] \in {"overdue", "explained"}}
Stale == {q \in Approvals : stall[q] = "overdue"}

Window(rows) == {w \in SUBSET rows : Cardinality(w) =
                   (IF Cardinality(rows) < CandidateLimit THEN Cardinality(rows) ELSE CandidateLimit)}

SweepLists(s) ==
  /\ sweep[s].pc = "idle"
  /\ \E w \in Window(Stale) : sweep' = [sweep EXCEPT ![s] = [pc |-> "listed", rows |-> w]]
  /\ UNCHANGED <<stall, alerted, everStalled, raised, delivered>>

(* A listing that fails decides nothing.                                       *)
ListingFails(s) ==
  /\ sweep[s].pc = "listed"
  /\ sweep' = [sweep EXCEPT ![s] = NoSweep]
  /\ UNCHANGED <<stall, alerted, everStalled, raised, delivered>>

(* What is no longer listed may be reported again.                             *)
\* Faulty variant: the listed approvals become the set of those reported.
RememberedAhead(rows) == rows
Remembered(rows) == alerted \cap rows

SweepPrunes(s) ==
  /\ sweep[s].pc = "listed"
  /\ alerted' = Remembered(sweep[s].rows)
  /\ sweep' = [sweep EXCEPT ![s].pc = "alerting"]
  /\ UNCHANGED <<stall, everStalled, raised, delivered>>

(* One row of the loop: remembered first, then recorded and sent; either of    *)
(* the two receivers may fail.                                                 *)
SweepAlerts(s) ==
  \E q \in sweep[s].rows, told \in BOOLEAN :
    /\ sweep[s].pc = "alerting"
    /\ sweep' = [sweep EXCEPT ![s].rows = @ \ {q}]
    /\ alerted' = alerted \cup {q}
    /\ IF q \in alerted
         THEN UNCHANGED <<raised, delivered>>
         ELSE /\ raised' = raised \cup {q}
              /\ delivered' = IF told THEN delivered \cup {q} ELSE delivered
    /\ UNCHANGED <<stall, everStalled>>

\* Faulty variant: the loop is left at a row that was reported before.
SweepEndsEarly(s) ==
  /\ sweep[s].pc = "alerting"
  /\ sweep' = [sweep EXCEPT ![s].pc = "idle"]
  /\ UNCHANGED <<stall, alerted, everStalled, raised, delivered>>

SweepEnds(s) ==
  /\ sweep[s].pc = "alerting" /\ sweep[s].rows = {}
  /\ sweep' = [sweep EXCEPT ![s] = NoSweep]
  /\ UNCHANGED <<stall, alerted, everStalled, raised, delivered>>

DogNext ==
  \/ \E q \in Approvals, how \in {"overdue", "explained", "gone"} : StallChanges(q, how)
  \/ \E s \in Sweeps :
       \/ SweepLists(s)
       \/ ListingFails(s)
       \/ SweepPrunes(s)
       \/ SweepAlerts(s)
       \/ SweepEnds(s)

DogSpec == DogInit /\ [][DogNext]_dogVars
-----------------------------------------------------------------------------
(* Nobody is alarmed about an approval that never waited without a reason, and *)
(* nobody is said to be told whose alert was not attempted.                    *)
AlertedWasStalled == raised \subseteq everStalled /\ delivered \subseteq raised

(* Fairness: the timer starts sweeps, sweeps go on, and now and then a listing *)
(* succeeds.                                                                   *)
DogProgress(s) == SweepLists(s) \/ SweepAlerts(s) \/ SweepEnds(s)

(* An approval that stays overdue without a reason is reported, provided all   *)
(* that wait fit into the candidate window.                                    *)
StallIsRaised == \A q \in Approvals : (stall[q] = "overdue") ~> (q \in raised \/ stall[q] # "overdue")
=============================================================================
