----------------------------- MODULE MCPublishing -----------------------------
(* From an approval to the post, in four parts: the relay of the approvals'    *)
(* commands, the record of a post whatever run wrote it, a run and its record  *)
(* with a page that people read of them, and the watchdog of approvals that    *)
(* wait.  A behaviour is about one of them.                                    *)
EXTENDS PublishApproval, Publishing

VARIABLE part
mcVars == <<vars, lifeVars, dogVars, part>>

OnRelay(step) == part = "relay" /\ step /\ UNCHANGED <<lifeVars, dogVars, part>>
OnLog(step) == part = "log" /\ step /\ UNCHANGED <<vars, dogVars, run, page, part>>
OnPage(step) == part = "page" /\ step /\ UNCHANGED <<vars, dogVars, part>>
OnDog(step) == part = "watchdog" /\ step /\ UNCHANGED <<vars, lifeVars, part>>

OneTarget == [p \in Writers \cup Callers \cup Relays |-> "dev"]

MCInit ==
  /\ Init /\ LifeInit /\ DogInit
  /\ part \in {"relay", "log", "page", "watchdog"}
  /\ part # "relay" => Fresh
  /\ mirrorUp = (part # "page")   \* a page reads no shadow table

(* Of the compare-and-set calls only a void matters to the relay: it lets a    *)
(* further round be decided, while commands of the old one are on their way.   *)
Voids(c) ==
  \E req \in Requests, rev \in Revisions : VoidActive(c, req, rev) /\ cas'[c].pc = "answered"

(* No comment is decided but those of the days when they had commands.         *)
Decides(w) == Record(w) /\ (call'[w].pc = "insert" => call'[w].req \notin Comments)

(* A page tells a post that is scheduled from one that is sent in its wording   *)
(* only, and of a run's work only whether it knows its record: it is read      *)
(* while runs start, are packaged, end or give up.                             *)
WhilePaged(s) ==
  /\ s.keys \subseteq {"scoutDecision"} \/ Needs("publishResult") \subseteq s.keys
  /\ s.abort \in {"none", "unknown"} /\ ~s.retry
PageStep ==
  /\ LifeNext
  /\ \A r \in Records : log'[r].status # "scheduled" /\ (page'.open => WhilePaged(run'[r]))

MCNext ==
  \/ \E w \in Writers : OnRelay(Decides(w))
  \/ \E c \in Callers : OnRelay(Voids(c))
  \/ \E p \in Relays : OnRelay(RelayPass(p))
  \/ OnLog(LogNext)
  \/ OnPage(PageStep)
  \/ OnDog(DogNext)

(* Fairness, over processes that name relays, calls and sweeps alike: since a  *)
(* behaviour is about one part, one condition states the fairness of all.      *)
(* Passes start and run on, the reconciler's timer falls due, calls that were  *)
(* made end, sweeps start and run on; again and again the automation service   *)
(* answers, the process outlives the confirmation, a pass of the reconciler    *)
(* gets an answer and is applied, a listing succeeds.                          *)
MCSpec ==
  /\ MCInit /\ [][MCNext]_mcVars
  /\ \A p \in Relays :
       /\ WF_mcVars(OnRelay(RelayList(p)) \/ OnLog(Settling(p)) \/ OnDog(DogProgress(p)))
       /\ WF_mcVars(OnRelay(RelayStep(p)))
       /\ SF_mcVars(OnRelay(Delivers(p)) \/ OnLog(Answered(p)) \/ OnDog(SweepPrunes(p)))
       /\ SF_mcVars(OnRelay(RelayConfirm(p)))
  /\ \A r \in Records : /\ WF_mcVars(OnLog(FallsDue(r)))
                        /\ SF_mcVars(OnLog(Reconciling(r)))
=============================================================================
