------------------------------ MODULE Publishing ------------------------------
(* The record of a post with what people are shown of it, and beside it the    *)
(* watchdog of approvals that wait: they share no state, the record's rulings  *)
(* stand for the decisions that the watchdog lists.                            *)
EXTENDS PublishLifecycle, DispatchWatchdog

PublishingSpec == LifeSpec /\ DogSpec

-----------------------------------------------------------------------------
(* The types of the record of a post, its run and the watchdog.                *)
PublishingTypeOK == LifeTypeOK /\ DogTypeOK

(* What people are shown of a post, from reads at different moments, is what   *)
(* was known of it, and nobody is alarmed without a reason.                    *)
PeopleAreTold ==
  ApprovedIsShown /\ AskedWhenKnown /\ NothingMissing /\ FailureEndsRun /\ AlertedWasStalled

(* A post held by the platform is settled, and an approval that stays overdue  *)
(* is reported.                                                                *)
PublishingProgress == ScheduledResolves /\ StallIsRaised
=============================================================================
