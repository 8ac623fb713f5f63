----------------------------- MODULE FirstWriters -----------------------------
(* The scheduler of automatic actions and the filling in of personas: two      *)
(* places where the first of several racing writers must win.  They share no   *)
(* state.                                                                      *)
EXTENDS ContentScheduler, PersonaAutoFill

FirstWritersSpec == ScheduleSpec /\ FillSpec

-----------------------------------------------------------------------------
(* Ticks, triggers and tasks, and runs, targets and the work on them keep      *)
(* their shape.                                                                *)
PartTypesOK == ScheduleTypeOK /\ FillTypeOK
=============================================================================
