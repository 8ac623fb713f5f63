-------------------------------- MODULE Console --------------------------------
(* What people and services change through the console: the operation policy,  *)
(* the answers to the services that read configuration, the reply              *)
(* configuration, the doors of the console, and the environments taken away    *)
(* from customers.  The parts share no state of the model.                     *)
EXTENDS FacebookOperationPolicy, SyncRead, ReplyConfig, ConsoleApi, OffboardAdmission

ConsolePartsSpec == PolicySpec /\ SyncSpec /\ ReplySpec /\ ConsoleSpec /\ Spec

-----------------------------------------------------------------------------
(* Each part keeps its shape.                                                  *)
ConsoleTypesOK == PolicyTypeOK /\ SyncTypeOK /\ ReplyTypeOK /\ ConsoleTypeOK /\ TypeOK

(* What was sent under one cursor was one content, of no older policy than the *)
(* cursor, and what a consumer refused was older than what it has.             *)
SnapshotsAgree == CursorNamesOneValue /\ PolicyNotOlder /\ RefusedByYounger

(* Edits of several people add up: the audits tell every change in order, a    *)
(* version holds all it was made from, and what answers use was checked.       *)
EditsHold == AuditsInARow /\ EditsAddUp /\ ResolvedWasChecked

(* A door of the console writes no row for what does not exist, and what it    *)
(* answered is what was done.                                                  *)
DoorsAnswer == NoGhostRows /\ AnswersHold

(* What no step may do: write for a customer who does not own, take back a     *)
(* graduation, change a policy unnoticed, replace a younger checkpoint, change *)
(* a published version, overwrite what somebody else entered, release a hold   *)
(* whose clean-up is not over.                                                 *)
ConsoleSteps ==
  /\ OwnedWhenWritten /\ GraduationStays /\ ContentMovesVersion
  /\ CheckpointAdvances /\ VersionsStay /\ OthersStay /\ ReleasedWhenPurged
=============================================================================
