--------------------------- MODULE MCConfiguration ---------------------------
(* Three parts in one run that share no state of the model: the versions and   *)
(* the clock of the refresher, the rows and copies of one table, and the calls *)
(* of customers that act while they hold a connection.  A behaviour is about   *)
(* one of them; rounds are about versions or about refusals, calls are of      *)
(* keyed commands, of replies, or of the pool.                                 *)
EXTENDS Configuration

CONSTANTS va, vb   \* members of Values

VARIABLE part
mcVars == <<mirVars, storeVars, interVars, part>>

Rounds == {"versions", "refusals"}
OnMirror(step) == part \in Rounds /\ step /\ UNCHANGED <<storeVars, interVars, part>>
OfRounds ==
  /\ MirNext
  /\ IF part = "refusals" THEN UNCHANGED <<mirVersion, mirOutbox>> ELSE UNCHANGED mirRefusal
OnStore(step) == part = "store" /\ step /\ UNCHANGED <<mirVars, interVars, part>>
CallsOf == [keys |-> {"command", "reset"}, reply |-> {"send", "edit"}, pool |-> {"inbox", "controls"}]
OnCalls(step) ==
  part \in DOMAIN CallsOf /\ step /\ UNCHANGED <<mirVars, storeVars, part>>
OfPart(r) == Arrive(r) /\ call'[r].kind \in CallsOf[part] /\ (part = "pool" => calls < 2)
Outside ==
  \/ \E u \in Customers : Revoke(u) \/ Grant(u)
  \/ part = "pool" /\ ((\E o \in Others : Borrow(o) \/ Return(o)) \/ OperatorWrites)
  \/ part = "reply" /\ (JobEnds \/ \E v \in dispatching : Dispatch(v))

MCInit ==
  /\ MirInit /\ StoreInit /\ InteractionsInit
  /\ part \in Rounds \cup {"store"} \cup DOMAIN CallsOf
  /\ part = "store" \/ store = "schedule"
  /\ part \in DOMAIN CallsOf \/ reach = {}
MCNext ==
  \/ OnMirror(OfRounds) \/ OnStore(StoreNext)
  \/ \E r \in Requests : OnCalls(OfPart(r) \/ Entering(r) \/ Acting(r))
  \/ OnCalls(Outside)

(* Fairness: the timer starts rounds, which need not end; each call goes on,   *)
(* and is handed the connection that comes back often enough; what else holds  *)
(* a connection gives it back.  A behaviour is about one part, so conditions   *)
(* of different parts are stated as one.                                       *)
Served(r) == OnCalls(Entering(r) \/ Acting(r))
MCSpec ==
  /\ MCInit /\ [][MCNext]_mcVars
  /\ WF_mcVars(OnMirror(BeginRound) \/ OnCalls(\E o \in Others : Return(o)))
  /\ \A r \in Requests : SF_mcVars(Served(r))

WriterProcess == CHOOSE p \in Processes : TRUE
AtOneProcess == [w \in Writers |-> WriterProcess]
OnePatch(carries, value, provider, flag, expected) ==
  [carries |-> carries, value |-> value, provider |-> provider, flag |-> flag, expected |-> expected]
SomePatches ==
  {OnePatch({"value"}, va, NoValue, va, 0), OnePatch({"value", "flag"}, vb, va, vb, 1),
   OnePatch({"flag"}, NoValue, vb, NoValue, 0)}
=============================================================================
