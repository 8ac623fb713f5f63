---------------------------- MODULE Configuration ----------------------------
(* How configuration reaches those who act on it: the versions and the clock   *)
(* of the refresher, the rows and copies of one table, and the calls of        *)
(* customers that act while they hold a connection.  The parts share no state  *)
(* of the model.                                                               *)
EXTENDS ConfigMirror, ConfigStores, Interactions

ConfigurationSpec == MirSpec /\ StoreSpec /\ InteractionsSpec

-----------------------------------------------------------------------------
(* Each part keeps its shape.                                                  *)
ConfigTypesOK == MirTypeOK /\ StoreTypeOK /\ InteractionsTypeOK

(* A copy in memory holds what was committed, what its refresher recorded as   *)
(* loaded is in it, and a gate does not go on calling it fresh once it was     *)
(* found to be behind; signals, refusals and revisions are counted once each.  *)
CopiesHold ==
  /\ SignalMovesOnce /\ RecordedIsLoaded /\ KnownBehindTurnsStale /\ RefusalsAccounted
  /\ CopyWasCommitted /\ ProviderBesideItsModel /\ RevisionsInARow /\ PersonaNotReplaced
  /\ ReaderHoldsRecorded

(* A key's command is carried out once, and by customers in reach only.        *)
CallsHold == OncePerKey /\ ActsWhileAllowed

(* What no write may do: change a field its request does not carry, or write   *)
(* over a job or a pause its customer did not see.                             *)
ConfigurationSteps == JoinPatchIsPartial /\ WritesAsSeen

(* A copy that has become too old is reported while rounds end, and each call  *)
(* ends unless the calls themselves hold every connection.                     *)
ConfigurationProgress == StaleIsReported /\ EachCallEnds
=============================================================================
