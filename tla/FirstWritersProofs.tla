-------------------------- MODULE FirstWritersProofs --------------------------
(* Theorems about the writers that act unasked.  About the scheduler of        *)
(* automatic actions, for any accounts, actions, minutes, hours, retries and   *)
(* crashes: the shape of its state, and that an hour's action runs once, with  *)
(* a bounded number of tries, one at a time.  About the filling in of          *)
(* personas, for any runs, environments, batch and faults: the shape of its    *)
(* state, that who is told of a persona had it written by its run, and that    *)
(* nothing is left behind.                                                     *)
EXTENDS FirstWriters, TLAPS

-----------------------------------------------------------------------------
(* The scheduler.  Its invariant has three strands.  Time: what the memory     *)
(* holds is never later than the tick under way, and a first try is made only  *)
(* at the action's own minute.  The budget: while an hour is given back, what  *)
(* is left of it and what was fired add up to what an hour has.  And what is   *)
(* outstanding: a try is in at most one place, between the call that carries   *)
(* it and what it ends in, and in no place once its hour is given back.        *)

Carried == {c \in calls : c.answer \in {"sent", "notStarted"}}
Of(set, k, h) == {x \in set : x.key = k /\ x.cell = h}

(* Nothing of an hour's action is under way, and nothing has come of it.       *)
Still(k, h) ==
  /\ Of(Carried, k, h) = {} /\ Of(tasks, k, h) = {} /\ Of(reports, k, h) = {}
  /\ acted[k][h] = 0 /\ cards[k][h] = 0

(* Or it is in one place.                                                      *)
InCall(k, h) ==
  /\ \E c \in Of(Carried, k, h) : Of(Carried, k, h) = {c}
  /\ Of(tasks, k, h) = {} /\ Of(reports, k, h) = {} /\ acted[k][h] = 0 /\ cards[k][h] = 0
InTask(k, h) ==
  /\ \E r \in Of(tasks, k, h) : Of(tasks, k, h) = {r}
  /\ Of(Carried, k, h) = {} /\ Of(reports, k, h) = {} /\ acted[k][h] = 0 /\ cards[k][h] = 0
InReport(k, h) ==
  /\ \E r \in Of(reports, k, h) : Of(reports, k, h) = {r}
  /\ Of(Carried, k, h) = {} /\ Of(tasks, k, h) = {} /\ acted[k][h] = 0 /\ cards[k][h] = 0
InEffect(k, h) ==
  /\ Of(Carried, k, h) = {} /\ Of(tasks, k, h) = {} /\ Of(reports, k, h) = {}
  /\ acted[k][h] + cards[k][h] = 1

Placed(k, h) == Still(k, h) \/ InCall(k, h) \/ InTask(k, h) \/ InReport(k, h) \/ InEffect(k, h)

OnePlace == ~strayed => \A k \in Keys : \A h \in Hours : Placed(k, h)

(* What was never fired has left nothing, and neither has an hour given back.  *)
NothingUnfired ==
  \A k \in Keys : \A h \in Hours : fired[k][h] = 0 => Still(k, h)

NothingReleased ==
  ~strayed => \A k \in Keys : retry[k].cell # None /\ lastFired[k] = None => Still(k, retry[k].cell)

(* The tick under way: there is one, it is not ahead of the clock, and what it *)
(* asks about is neither under way nor taken.                                  *)
TickInTime ==
  /\ \A t, u \in ticks : t = u
  /\ \A t \in ticks : t.cell < time.hour \/ (t.cell = time.hour /\ t.minute <= time.minute)

MayFire(t, k) ==
  /\ k[1] \notin inFlight /\ (k[2] = "post" => ~postFiring)
  /\ lastFired[k] # t.cell
  /\ retry[k].cell = t.cell \/ (t.minute = Offset[k] /\ fired[k][t.cell] = 0)

Asks(t) ==
  /\ t.at.pc # "next" => t.at.key \in Keys /\ MayFire(t, t.at.key)
  /\ t.at.pc = "count" => t.at.key[2] = "post"
  /\ t.at.pc = "ready" => t.at.key[2] # "post"
  /\ t.at.pc = "claimed" => /\ t.at.key[2] = "post"
                            /\ claims[t.at.key[1]] = t.cell /\ fired[t.at.key][t.cell] = 0

TickAsks == \A t \in ticks : Asks(t)

(* The memory is not ahead of the tick, and the hour given back is not behind  *)
(* the one taken.                                                              *)
MemoryInTime ==
  \A k \in Keys :
    /\ lastFired[k] # None => lastFired[k] <= time.hour /\ \A t \in ticks : lastFired[k] <= t.cell
    /\ retry[k].cell # None => retry[k].cell <= time.hour /\ \A t \in ticks : retry[k].cell <= t.cell
    /\ lastFired[k] # None /\ retry[k].cell # None => retry[k].cell <= lastFired[k]

(* The first try of an hour is made at the action's own minute.                *)
FirstInItsMinute ==
  \A k \in Keys :
    /\ \A h \in Hours :
         fired[k][h] > 0 => h < time.hour \/ (h = time.hour /\ Offset[k] <= time.minute)
    /\ \A t \in ticks : k \in t.todo /\ t.minute = Offset[k] => fired[k][t.cell] = 0

(* The claim of a post's hour stands at least where it was fired.              *)
PostClaimed ==
  \A a \in Accounts :
    /\ claims[a] # None => claims[a] <= time.hour /\ \A t \in ticks : claims[a] <= t.cell
    /\ \A k \in Keys : k = <<a, "post">> =>
         \A h \in Hours : fired[k][h] > 0 => claims[a] # None /\ h <= claims[a]

(* The budget of an hour.                                                      *)
BudgetHolds ==
  \A k \in Keys :
    /\ \A h \in Hours : fired[k][h] <= MaxRetries + 1
    /\ lastFired[k] # None =>
         /\ fired[k][lastFired[k]] > 0
         /\ retry[k].cell = lastFired[k] => fired[k][lastFired[k]] + retry[k].left <= MaxRetries + 1
         /\ retry[k].cell # lastFired[k] => fired[k][lastFired[k]] = 1
    /\ retry[k].cell # None =>
         /\ fired[k][retry[k].cell] > 0
         /\ lastFired[k] = None => fired[k][retry[k].cell] + retry[k].left <= MaxRetries

(* A call under way holds its account, and its hour is taken or given back.    *)
CallsHeld ==
  \A c \in calls :
    /\ c.answer # "sent" => c.live
    /\ c.live => c.key[1] \in inFlight /\ (c.key[2] = "post" => postFiring)
    /\ c.live => lastFired[c.key] = c.cell \/ (lastFired[c.key] = None /\ retry[c.key].cell = c.cell)

OnceAnHour ==
  \A k \in Keys : \A h \in Hours : k[2] = "post" => fired[k][h] <= 1

Kept ==
  /\ ScheduleTypeOK /\ TickInTime /\ TickAsks /\ MemoryInTime /\ FirstInItsMinute
  /\ PostClaimed /\ BudgetHolds /\ OneAtATime /\ CallsHeld
  /\ OnceAnHour /\ NothingUnfired /\ NothingReleased /\ OnePlace
-----------------------------------------------------------------------------
(* The shape of the state.                                                     *)
TickState == [cell: Hours, minute: 0..(Minutes - 1), todo: SUBSET Keys, at: Step]
CallState == [key: Keys, cell: Hours, n: Attempts,
              answer: {"sent", "accepted", "notStarted", "failed"}, live: BOOLEAN]
RetryState == [cell: Cells, left: 0..MaxRetries]
DraftState == [pending: Counts, scheduled: Counts, posted: Counts]
Tallies == [Keys -> [Hours -> Counts]]

LEMMA KeyParts ==
  ASSUME NEW k \in Keys
  PROVE  k[1] \in Accounts /\ k = <<k[1], k[2]>>
BY SchedulerAssumption

LEMMA TickAt ==
  ASSUME NEW t \in TickState, NEW s \in Step
  PROVE  /\ [t EXCEPT !.at = s] \in TickState
         /\ [t EXCEPT !.at = s].at = s
         /\ \A S \in SUBSET Keys : [t EXCEPT !.todo = S, !.at = s] \in TickState
BY DEF TickState

LEMMA NoStepShape ==
  /\ NoStep \in Step /\ NoStep.pc = "next"
  /\ \A k \in Keys : \A pc \in {"ask", "claimed"} : [NoStep EXCEPT !.pc = pc, !.key = k] \in Step
BY DEF NoStep, Step

LEMMA OneTick ==
  ASSUME TickInTime, NEW t \in ticks, NEW u, Advance(t, u)
  PROVE  ticks = {t} /\ ticks' = {u}
BY DEF TickInTime, Advance

LEMMA Bumped ==
  ASSUME NEW f \in Tallies, NEW k \in Keys, NEW h \in Hours
  PROVE  /\ Bump(f, k, h) \in Tallies
         /\ Bump(f, k, h)[k][h] = f[k][h] + 1
         /\ \A j \in Keys : \A i \in Hours : <<j, i>> # <<k, h>> => Bump(f, k, h)[j][i] = f[j][i]
<1> DEFINE g == [f[k] EXCEPT ![h] = @ + 1]
<1>1. f[k] \in [Hours -> Nat] /\ f[k][h] \in Nat
  BY DEF Tallies, Counts
<1>2. /\ g \in [Hours -> Nat] /\ g[h] = f[k][h] + 1
      /\ \A i \in Hours : i # h => g[i] = f[k][i]
  BY <1>1
<1>3. Bump(f, k, h) = [f EXCEPT ![k] = g]
  BY DEF Bump
<1> HIDE DEF g
<1>4. /\ [f EXCEPT ![k] = g] \in [Keys -> [Hours -> Nat]]
      /\ [f EXCEPT ![k] = g][k] = g
      /\ \A j \in Keys : j # k => [f EXCEPT ![k] = g][j] = f[j]
  BY <1>2 DEF Tallies, Counts
<1>5. \A j \in Keys : \A i \in Hours : <<j, i>> # <<k, h>> => Bump(f, k, h)[j][i] = f[j][i]
  BY <1>2, <1>3, <1>4
<1> QED BY <1>2, <1>3, <1>4, <1>5 DEF Tallies, Counts

LEMMA Typed ==
  ASSUME ScheduleTypeOK
  PROVE  /\ time.hour \in Hours /\ time.minute \in 0..(Minutes - 1)
         /\ ticks \subseteq TickState /\ lastFired \in [Keys -> Cells] /\ retry \in [Keys -> RetryState]
         /\ claims \in [Accounts -> Cells] /\ calls \subseteq CallState
         /\ tasks \subseteq Task /\ reports \subseteq Task
         /\ fired \in Tallies /\ acted \in Tallies /\ cards \in Tallies
BY DEF ScheduleTypeOK, TickState, RetryState, CallState, Tallies

LEMMA TickMoves ==
  ASSUME Kept, NEW t \in ticks, NEW u \in TickState, ticks' = {u}, Asks(u),
         u.cell = t.cell, u.minute = t.minute, u.todo \subseteq t.todo, TickOnly, UNCHANGED claims
  PROVE  Kept'
<1> USE DEF TickOnly
<1>1. ScheduleTypeOK'
  BY DEF Kept, ScheduleTypeOK, TickState, outside
<1>2. TickInTime' /\ MemoryInTime' /\ FirstInItsMinute' /\ PostClaimed'
  <2>1. TickInTime'
    BY DEF Kept, TickInTime
  <2>2. MemoryInTime'
    BY DEF Kept, MemoryInTime
  <2>3. FirstInItsMinute'
    BY DEF Kept, FirstInItsMinute
  <2>4. PostClaimed'
    BY DEF Kept, PostClaimed
  <2> QED BY <2>1, <2>2, <2>3, <2>4
<1>3. TickAsks'
  BY DEF TickAsks, Asks, MayFire
<1>4. BudgetHolds' /\ OneAtATime' /\ CallsHeld' /\ OnceAnHour'
  BY DEF Kept, BudgetHolds, OneAtATime, CallsHeld, OnceAnHour
<1>5. NothingUnfired' /\ NothingReleased' /\ OnePlace'
  BY DEF Kept, NothingUnfired, NothingReleased, OnePlace, Placed, Still, InCall, InTask, InReport, InEffect,
         Carried, Of, outside
<1> QED BY <1>1, <1>2, <1>3, <1>4, <1>5 DEF Kept

(* What a tick asks: each step but the claim and the trigger changes the tick  *)
(* alone, and leaves it with a question about an action that may fire.         *)
LEMMA TickIdles ==
  ASSUME Kept, NEW t \in ticks, Advance(t, [t EXCEPT !.at = NoStep]), TickOnly, UNCHANGED claims
  PROVE  Kept'
<1> DEFINE u == [t EXCEPT !.at = NoStep]
<1>1. t \in TickState
  BY Typed DEF Kept
<1>2. /\ u \in TickState /\ u.at = NoStep
      /\ u.cell = t.cell /\ u.minute = t.minute /\ u.todo = t.todo
  BY <1>1, NoStepShape DEF TickState
<1>3. ticks' = {u}
  BY OneTick DEF Kept
<1> HIDE DEF u
<1>4. Asks(u)
  BY <1>2, NoStepShape DEF Asks
<1> QED BY <1>2, <1>3, <1>4, TickMoves

LEMMA TickAsksOn ==
  ASSUME Kept, NEW t \in ticks, t.at.pc # "next", NEW s \in Step, s.key = t.at.key,
         s.pc \in {"ask", "count", "ready"},
         s.pc = "count" => s.key[2] = "post", s.pc = "ready" => s.key[2] # "post",
         Advance(t, [t EXCEPT !.at = s]), TickOnly, UNCHANGED claims
  PROVE  Kept'
<1> DEFINE u == [t EXCEPT !.at = s]
<1>1. t \in TickState
  BY Typed DEF Kept
<1>2. /\ u \in TickState /\ u.at = s
      /\ u.cell = t.cell /\ u.minute = t.minute /\ u.todo = t.todo
  BY <1>1, TickAt DEF TickState
<1>3. ticks' = {u}
  BY OneTick DEF Kept
<1>4. Asks(t)
  BY DEF Kept, TickAsks
<1> HIDE DEF u
<1>5. Asks(u)
  BY <1>2, <1>4 DEF Asks, MayFire
<1> QED BY <1>2, <1>3, <1>5, TickMoves

LEMMA TickEndsKeeps ==
  ASSUME Kept, NEW t \in ticks, TickEnds(t)
  PROVE  Kept'
<1> USE DEF TickEnds
<1>1. ticks' = {}
  BY DEF Kept, TickInTime
<1>2. ScheduleTypeOK'
  BY <1>1 DEF Kept, ScheduleTypeOK, outside
<1>3. TickInTime' /\ TickAsks'
  BY <1>1 DEF TickInTime, TickAsks
<1>4. MemoryInTime' /\ FirstInItsMinute' /\ PostClaimed'
  BY <1>1 DEF Kept, MemoryInTime, FirstInItsMinute, PostClaimed
<1>5. BudgetHolds' /\ OneAtATime' /\ CallsHeld' /\ OnceAnHour'
  BY DEF Kept, BudgetHolds, OneAtATime, CallsHeld, OnceAnHour
<1>6. NothingUnfired' /\ NothingReleased' /\ OnePlace'
  BY DEF Kept, NothingUnfired, NothingReleased, OnePlace, Placed, Still, InCall, InTask, InReport, InEffect,
         Carried, Of, outside
<1> QED BY <1>2, <1>3, <1>4, <1>5, <1>6 DEF Kept

LEMMA GateKeeps ==
  ASSUME Kept, NEW t \in ticks, NEW k \in Keys, Gate(t, k)
  PROVE  Kept'
<1> DEFINE s == [NoStep EXCEPT !.pc = "ask", !.key = k]
           u == [t EXCEPT !.todo = Remaining(t, k), !.at = s]
<1>1. t \in TickState /\ s \in Step /\ s.pc = "ask" /\ s.key = k /\ Remaining(t, k) \subseteq t.todo
  BY Typed, NoStepShape DEF Kept, NoStep, Remaining
<1>2. /\ u \in TickState /\ u.at = s
      /\ u.cell = t.cell /\ u.minute = t.minute /\ u.todo = Remaining(t, k)
  <2> HIDE DEF s
  <2> QED BY <1>1 DEF TickState
<1>3. ticks' = {u}
  BY OneTick DEF Kept, Gate
<1> HIDE DEF u, s
<1>4. MayFire(t, k)
  <2>1. t.minute = Offset[k] => fired[k][t.cell] = 0
    BY DEF Kept, FirstInItsMinute, Gate
  <2> QED BY <2>1 DEF Gate, ShouldFireNow, Taken, MayFire
<1>5. Asks(u)
  BY <1>1, <1>2, <1>4 DEF Asks, MayFire
<1> QED BY <1>1, <1>2, <1>3, <1>5, TickMoves DEF Gate

LEMMA AskingKeeps ==
  ASSUME Kept, NEW t \in ticks, GiveUp(t) \/ AskIdle(t) \/ CountPosted(t) \/ CountPending(t)
  PROVE  Kept'
<1>1. CASE GiveUp(t)
  BY <1>1, TickIdles DEF GiveUp
<1>2. t \in TickState /\ t.at \in Step /\ Asks(t)
  BY Typed DEF Kept, TickState, TickAsks
<1>3. CASE AskIdle(t)
  <2> DEFINE s == [t.at EXCEPT !.pc = IF t.at.key[2] = "post" THEN "count" ELSE "ready"]
  <2>1. /\ s \in Step /\ s.key = t.at.key
        /\ s.pc = IF t.at.key[2] = "post" THEN "count" ELSE "ready"
    BY <1>2 DEF Step
  <2>2. Advance(t, [t EXCEPT !.at = s]) /\ t.at.pc = "ask" /\ TickOnly /\ UNCHANGED claims
    BY <1>3 DEF AskIdle
  <2> HIDE DEF s
  <2> QED BY <2>1, <2>2, TickAsksOn
<1>4. CASE CountPosted(t) \/ CountPending(t)
  <2>1. t.at.key[1] \in Accounts /\ t.at.pc = "count" /\ t.at.key[2] = "post"
    BY <1>2, <1>4, KeyParts DEF Asks, CountPosted, CountPending
  <2>2. PICK d \in DraftState : d = drafts[t.at.key[1]]
    BY <2>1 DEF Kept, ScheduleTypeOK, DraftState
  <2>3. /\ [t.at EXCEPT !.posted = d.posted] \in Step /\ [t.at EXCEPT !.posted = d.posted].key = t.at.key
        /\ [t.at EXCEPT !.posted = d.posted].pc = t.at.pc
        /\ [t.at EXCEPT !.pending = d.pending] \in Step /\ [t.at EXCEPT !.pending = d.pending].key = t.at.key
        /\ [t.at EXCEPT !.pending = d.pending].pc = t.at.pc
    BY <1>2, <2>2 DEF Step, DraftState
  <2>4. PICK s \in Step : s.key = t.at.key /\ s.pc = "count" /\ Advance(t, [t EXCEPT !.at = s])
    BY <1>4, <2>1, <2>2, <2>3 DEF CountPosted, CountPending
  <2>5. TickOnly /\ UNCHANGED claims
    BY <1>4 DEF CountPosted, CountPending
  <2> QED BY <2>1, <2>4, <2>5, TickAsksOn
<1> QED BY <1>1, <1>3, <1>4

(* An hour whose calls, tasks, reports, effects and cards stay, stays as it is. *)
LEMMA Frame ==
  ASSUME NEW k, NEW h,
         Of(Carried, k, h)' = Of(Carried, k, h), Of(tasks, k, h)' = Of(tasks, k, h),
         Of(reports, k, h)' = Of(reports, k, h),
         acted'[k][h] = acted[k][h], cards'[k][h] = cards[k][h]
  PROVE  (Still(k, h)' <=> Still(k, h)) /\ (Placed(k, h)' <=> Placed(k, h))
BY DEF Placed, Still, InCall, InTask, InReport, InEffect

(* The claim of a post's hour: it never goes back, and it is taken only where  *)
(* nothing was fired.                                                          *)
LEMMA ClaimKeeps ==
  ASSUME Kept, NEW t \in ticks, ClaimPostHourCell(t)
  PROVE  Kept'
<1> DEFINE k == t.at.key
           a == k[1]
           s == [NoStep EXCEPT !.pc = "claimed", !.key = k]
           u == [t EXCEPT !.at = s]
<1>1. /\ t \in TickState /\ t.cell \in Hours /\ k \in Keys /\ a \in Accounts /\ k = <<a, "post">>
      /\ k[2] = "post" /\ MayFire(t, k)
  BY Typed, KeyParts DEF Kept, TickState, TickAsks, Asks, ClaimPostHourCell
<1>2. CASE ~Claimable(a, t.cell)
  BY <1>2, TickIdles DEF ClaimPostHourCell
<1>3. CASE Claimable(a, t.cell)
  <2>1. s \in Step /\ s.pc = "claimed" /\ s.key = k
    BY <1>1, NoStepShape DEF NoStep
  <2>2. /\ u \in TickState /\ u.at = s /\ u.cell = t.cell /\ u.minute = t.minute /\ u.todo = t.todo
    <3> HIDE DEF s, k
    <3> QED BY <1>1, <2>1, TickAt DEF TickState
  <2>3. ticks' = {u} /\ claims' = [claims EXCEPT ![a] = t.cell] /\ TickOnly
    BY <1>3, OneTick DEF ClaimPostHourCell, Kept
  <2>4. fired[k][t.cell] = 0
    <3>1. fired[k][t.cell] \in Nat
      BY <1>1, Typed DEF Kept, Tallies, Counts
    <3>2. fired[k][t.cell] > 0 => claims[a] # None /\ t.cell <= claims[a] /\ claims[a] <= t.cell
      BY <1>1 DEF Kept, PostClaimed
    <3>3. claims[a] # None => claims[a] \in Int
      BY <1>1, Typed DEF Kept, Cells, Hours
    <3>4. t.cell \in Int
      BY <1>1 DEF Hours
    <3> QED BY <1>3, <3>1, <3>2, <3>3, <3>4 DEF Claimable
  <2> HIDE DEF u, s, k, a
  <2>5. /\ claims' \in [Accounts -> Cells] /\ claims'[a] = t.cell
        /\ \A b \in Accounts : b # a => claims'[b] = claims[b]
    BY <1>1, <2>3, Typed DEF Kept, Cells
  <2>6. ScheduleTypeOK'
    BY <2>2, <2>3, <2>5 DEF Kept, ScheduleTypeOK, TickState, TickOnly, outside
  <2>7. TickInTime' /\ MemoryInTime' /\ FirstInItsMinute'
    <3>1. TickInTime'
      BY <2>2, <2>3 DEF Kept, TickInTime, TickOnly
    <3>2. MemoryInTime'
      BY <2>2, <2>3 DEF Kept, MemoryInTime, TickOnly
    <3>3. FirstInItsMinute'
      BY <2>2, <2>3 DEF Kept, FirstInItsMinute, TickOnly
    <3> QED BY <3>1, <3>2, <3>3
  <2>8. PostClaimed'
    <3> SUFFICES ASSUME NEW b \in Accounts
                 PROVE  /\ claims'[b] # None
                             => claims'[b] <= time'.hour /\ \A v \in ticks' : claims'[b] <= v.cell
                        /\ \A j \in Keys : j = <<b, "post">> =>
                             \A h \in Hours : fired'[j][h] > 0 => claims'[b] # None /\ h <= claims'[b]
      BY DEF PostClaimed
    <3>1. CASE b # a
      BY <2>2, <2>3, <2>5, <3>1 DEF Kept, PostClaimed, TickOnly
    <3>2. CASE b = a
      <4>1. t.cell <= time.hour /\ t.cell # None
        BY <1>1, Typed, SchedulerAssumption DEF Kept, TickInTime, Hours
      <4>2. \A h \in Hours : fired[k][h] > 0 => h <= t.cell
        <5>1. SUFFICES ASSUME NEW h \in Hours, fired[k][h] > 0
                       PROVE  h <= t.cell
          OBVIOUS
        <5>2. claims[a] # None /\ h <= claims[a] /\ claims[a] <= t.cell
          BY <1>1, <5>1 DEF Kept, PostClaimed
        <5>3. claims[a] \in Int /\ h \in Int /\ t.cell \in Int
          BY <1>1, <5>2, Typed DEF Kept, Cells, Hours
        <5> QED BY <5>2, <5>3
      <4>3. t.cell <= t.cell
        BY <1>1 DEF Hours
      <4>4. \A j \in Keys : j = <<b, "post">> => j = k
        BY <1>1, <3>2
      <4>5. claims'[b] = t.cell /\ ticks' = {u} /\ u.cell = t.cell
        BY <2>2, <2>3, <2>5, <3>2
      <4>6. time' = time /\ fired' = fired
        BY <2>3 DEF TickOnly
      <4> QED BY <4>1, <4>2, <4>3, <4>4, <4>5, <4>6
    <3> QED BY <3>1, <3>2
  <2>9. TickAsks'
    <3>1. /\ t.cell \in Hours /\ u.at.pc = "claimed" /\ u.at.key = k /\ k[2] = "post" /\ k[1] = a
          /\ MayFire(u, k)
      BY <1>1, <2>1, <2>2 DEF MayFire, a
    <3>2. MayFire(u, k)'
      BY <2>3, <3>1 DEF MayFire, TickOnly
    <3>3. claims'[k[1]] = u.cell /\ fired'[k][u.cell] = 0
      BY <2>2, <2>3, <2>4, <2>5, <3>1 DEF TickOnly
    <3>4. Asks(u)'
      BY <1>1, <3>1, <3>2, <3>3 DEF Asks
    <3> QED BY <2>3, <3>4 DEF TickAsks
  <2>10. BudgetHolds' /\ OneAtATime' /\ CallsHeld' /\ OnceAnHour'
    BY <2>3 DEF Kept, BudgetHolds, OneAtATime, CallsHeld, OnceAnHour, TickOnly
  <2>11. NothingUnfired' /\ NothingReleased' /\ OnePlace'
    BY <2>3 DEF Kept, NothingUnfired, NothingReleased, OnePlace, Placed, Still, InCall, InTask, InReport,
                InEffect, Carried, Of, outside, TickOnly
  <2> QED BY <2>6, <2>7, <2>8, <2>9, <2>10, <2>11 DEF Kept
<1> QED BY <1>2, <1>3

(* The trigger: an action that may fire has a try left, and nothing of it is   *)
(* anywhere.                                                                   *)
LEMMA FireKeeps ==
  ASSUME Kept, NEW t \in ticks, Fire(t)
  PROVE  Kept'
<1> DEFINE k == t.at.key
           h == t.cell
           u == [t EXCEPT !.todo = {j \in Remaining(t, k) : j[1] # k[1]}, !.at = NoStep]
           n == fired'[k][h]
           call == [key |-> k, cell |-> h, n |-> n, answer |-> "sent", live |-> TRUE]
<1>1. /\ t \in TickState /\ h \in Hours /\ h \in Int /\ k \in Keys /\ k[1] \in Accounts /\ k = <<k[1], k[2]>>
      /\ MayFire(t, k) /\ h <= time.hour /\ h # None
      /\ k[2] = "post" => claims[k[1]] = h /\ fired[k][h] = 0
  <2>1. t \in TickState /\ h \in Hours /\ Asks(t) /\ h <= time.hour
    BY Typed DEF Kept, TickState, TickAsks, TickInTime, Hours
  <2>2. k \in Keys /\ MayFire(t, k) /\ (k[2] = "post" => claims[k[1]] = h /\ fired[k][h] = 0)
    BY <2>1 DEF Asks, Fire
  <2> QED BY <2>1, <2>2, KeyParts, SchedulerAssumption DEF Hours
<1>2. /\ ticks' = {u} /\ lastFired' = [lastFired EXCEPT ![k] = h] /\ inFlight' = inFlight \cup {k[1]}
      /\ postFiring' = (postFiring \/ k[2] = "post") /\ fired' = Bump(fired, k, h)
      /\ calls' = calls \cup {call}
      /\ UNCHANGED <<time, retry, claims, outside, cards, strayed, crashes>>
  BY OneTick DEF Fire, Kept
<1>3. u \in TickState /\ u.at = NoStep /\ u.cell = h /\ u.minute = t.minute /\ u.todo \subseteq t.todo \ {k}
  <2>1. {j \in Remaining(t, k) : j[1] # k[1]} \subseteq t.todo \ {k}
    BY DEF Remaining
  <2> QED BY <1>1, <2>1, NoStepShape DEF TickState
<1>4. /\ fired' \in Tallies /\ n = fired[k][h] + 1 /\ fired[k][h] \in Nat
      /\ \A j \in Keys : \A i \in Hours : <<j, i>> # <<k, h>> => fired'[j][i] = fired[j][i]
  <2> HIDE DEF k, h
  <2>1. fired \in Tallies
    BY Typed DEF Kept
  <2>2. fired[k][h] \in Nat
    BY <1>1, <2>1 DEF Tallies, Counts
  <2>3. /\ fired' \in Tallies /\ fired'[k][h] = fired[k][h] + 1
        /\ \A j \in Keys : \A i \in Hours : <<j, i>> # <<k, h>> => fired'[j][i] = fired[j][i]
    <3>1. k \in Keys /\ h \in Hours /\ fired' = Bump(fired, k, h)
      BY <1>1, <1>2
    <3> HIDE DEF n
    <3>2. /\ Bump(fired, k, h) \in Tallies /\ Bump(fired, k, h)[k][h] = fired[k][h] + 1
          /\ \A j \in Keys : \A i \in Hours : <<j, i>> # <<k, h>> => Bump(fired, k, h)[j][i] = fired[j][i]
      BY <2>1, <3>1, Bumped
    <3> QED BY <3>1, <3>2
  <2> QED BY <2>2, <2>3
<1>5. /\ lastFired' \in [Keys -> Cells] /\ lastFired'[k] = h
      /\ \A j \in Keys : j # k => lastFired'[j] = lastFired[j]
  BY <1>1, <1>2, Typed DEF Kept, Cells
<1>6. /\ retry[k].cell \in Cells /\ retry[k].left \in 0..MaxRetries /\ MaxRetries \in Nat
      /\ lastFired[k] \in Cells
  BY <1>1, Typed, SchedulerAssumption DEF Kept, RetryState
<1>7. /\ retry[k].cell = h => lastFired[k] = None
      /\ retry[k].cell # None => retry[k].cell <= h
  <2>1. /\ lastFired[k] # None => lastFired[k] <= h
        /\ retry[k].cell # None => retry[k].cell <= h
        /\ lastFired[k] # None /\ retry[k].cell # None => retry[k].cell <= lastFired[k]
    BY <1>1 DEF Kept, MemoryInTime
  <2>2. lastFired[k] # h
    BY <1>1 DEF MayFire
  <2>3. lastFired[k] # None => lastFired[k] \in Int
    BY <1>6 DEF Cells, Hours
  <2> QED BY <1>1, <2>1, <2>2, <2>3
<1>8. IF retry[k].cell = h THEN fired[k][h] + retry[k].left <= MaxRetries /\ fired[k][h] > 0
      ELSE fired[k][h] = 0 /\ t.minute = Offset[k]
  <2>1. retry[k].cell = h => fired[k][h] + retry[k].left <= MaxRetries /\ fired[k][h] > 0
    BY <1>1, <1>7 DEF Kept, BudgetHolds
  <2> QED BY <1>1, <2>1 DEF MayFire
<1>9. n \in Attempts /\ n <= MaxRetries + 1 /\ n > 0
  BY <1>4, <1>6, <1>8 DEF Attempts
<1>10. ~strayed \/ fired[k][h] = 0 => Still(k, h)
  BY <1>1, <1>7, <1>8 DEF Kept, NothingUnfired, NothingReleased
<1>11. call \in CallState
  BY <1>1, <1>9 DEF CallState
<1>12. call.key = k /\ call.cell = h /\ call.answer = "sent" /\ call.live
  OBVIOUS
<1> HIDE DEF u, n, call, k, h
<1>21. ScheduleTypeOK'
  <2>1. inFlight' \subseteq Accounts /\ postFiring' \in BOOLEAN
    BY <1>1, <1>2 DEF Kept, ScheduleTypeOK
  <2>2. calls' \subseteq CallState /\ ticks' \subseteq TickState
    BY <1>2, <1>3, <1>11, Typed DEF Kept
  <2>3. fired' \in Tallies /\ lastFired' \in [Keys -> Cells]
    BY <1>4, <1>5
  <2> QED BY <1>2, <2>1, <2>2, <2>3 DEF Kept, ScheduleTypeOK, CallState, TickState, Tallies, outside
<1>22. TickInTime' /\ TickAsks'
  <2>1. TickInTime'
    BY <1>2, <1>3 DEF Kept, TickInTime, h
  <2>2. TickAsks'
    BY <1>2, <1>3, NoStepShape DEF TickAsks, Asks
  <2> QED BY <2>1, <2>2
<1>23. MemoryInTime'
  <2> SUFFICES ASSUME NEW j \in Keys
               PROVE  /\ lastFired'[j] # None
                           => lastFired'[j] <= time'.hour /\ \A v \in ticks' : lastFired'[j] <= v.cell
                      /\ retry'[j].cell # None
                           => retry'[j].cell <= time'.hour /\ \A v \in ticks' : retry'[j].cell <= v.cell
                      /\ lastFired'[j] # None /\ retry'[j].cell # None => retry'[j].cell <= lastFired'[j]
    BY DEF MemoryInTime
  <2>1. CASE j = k
    BY <1>1, <1>2, <1>3, <1>5, <1>7, <2>1 DEF Kept, MemoryInTime
  <2>2. CASE j # k
    BY <1>2, <1>3, <1>5, <2>2 DEF Kept, MemoryInTime, h
  <2> QED BY <2>1, <2>2
<1>24. FirstInItsMinute'
  <2>1. ASSUME NEW j \in Keys, NEW i \in Hours, fired'[j][i] > 0
        PROVE  i < time.hour \/ (i = time.hour /\ Offset[j] <= time.minute)
    <3>1. CASE <<j, i>> = <<k, h>>
      <4>1. CASE retry[k].cell = h
        BY <1>1, <1>8, <3>1, <4>1 DEF Kept, FirstInItsMinute
      <4>2. CASE retry[k].cell # h
        BY <1>1, <1>8, <3>1, <4>2 DEF Kept, TickInTime, h
      <4> QED BY <4>1, <4>2
    <3>2. CASE <<j, i>> # <<k, h>>
      BY <1>4, <2>1, <3>2 DEF Kept, FirstInItsMinute
    <3> QED BY <3>1, <3>2
  <2>2. ASSUME NEW j \in Keys, j \in u.todo, u.minute = Offset[j]
        PROVE  fired'[j][u.cell] = 0
    BY <1>1, <1>3, <1>4, <2>2 DEF Kept, FirstInItsMinute, h
  <2> QED BY <1>2, <2>1, <2>2 DEF FirstInItsMinute
<1>25. PostClaimed'
  <2> SUFFICES ASSUME NEW b \in Accounts
               PROVE  /\ claims'[b] # None
                           => claims'[b] <= time'.hour /\ \A v \in ticks' : claims'[b] <= v.cell
                      /\ \A j \in Keys : j = <<b, "post">> =>
                           \A i \in Hours : fired'[j][i] > 0 => claims'[b] # None /\ i <= claims'[b]
    BY DEF PostClaimed
  <2>1. claims'[b] # None
          => claims'[b] <= time'.hour /\ \A v \in ticks' : claims'[b] <= v.cell
    BY <1>2, <1>3 DEF Kept, PostClaimed, h
  <2>2. ASSUME NEW j \in Keys, j = <<b, "post">>, NEW i \in Hours, fired'[j][i] > 0
        PROVE  claims[b] # None /\ i <= claims[b]
    <3>1. CASE <<j, i>> = <<k, h>>
      BY <1>1, <2>2, <3>1
    <3>2. CASE <<j, i>> # <<k, h>>
      BY <1>4, <2>2, <3>2 DEF Kept, PostClaimed
    <3> QED BY <3>1, <3>2
  <2> QED BY <1>2, <2>1, <2>2
<1>26. BudgetHolds'
  <2> SUFFICES ASSUME NEW j \in Keys
               PROVE  /\ \A i \in Hours : fired'[j][i] <= MaxRetries + 1
                      /\ lastFired'[j] # None =>
                           /\ fired'[j][lastFired'[j]] > 0
                           /\ retry'[j].cell = lastFired'[j]
                                => fired'[j][lastFired'[j]] + retry'[j].left <= MaxRetries + 1
                           /\ retry'[j].cell # lastFired'[j] => fired'[j][lastFired'[j]] = 1
                      /\ retry'[j].cell # None =>
                           /\ fired'[j][retry'[j].cell] > 0
                           /\ lastFired'[j] = None => fired'[j][retry'[j].cell] + retry'[j].left <= MaxRetries
    BY DEF BudgetHolds
  <2>0. \A i \in Hours : fired'[j][i] <= MaxRetries + 1
    <3>1. \A i \in Hours : fired[j][i] <= MaxRetries + 1
      BY DEF Kept, BudgetHolds
    <3> QED BY <1>4, <1>9, <3>1 DEF n
  <2>1. CASE j = k
    <3>1. fired'[k][h] = n /\ lastFired'[k] = h /\ retry' = retry
      BY <1>2, <1>5 DEF n
    <3>2. retry[k].cell = h => n + retry[k].left <= MaxRetries + 1
      BY <1>4, <1>6, <1>8
    <3>3. retry[k].cell # h => n = 1
      BY <1>4, <1>8
    <3>4. retry[k].cell # None => fired'[k][retry[k].cell] > 0
      <4>1. CASE retry[k].cell = h
        BY <1>9, <3>1, <4>1
      <4>2. CASE retry[k].cell # h /\ retry[k].cell # None
        <5>1. retry[k].cell \in Hours
          BY <1>6, <4>2 DEF Cells
        <5> QED BY <1>1, <1>4, <4>2, <5>1 DEF Kept, BudgetHolds
      <4> QED BY <4>1, <4>2
    <3> QED BY <1>1, <1>9, <2>0, <2>1, <3>1, <3>2, <3>3, <3>4
  <2>2. CASE j # k
    <3>1. lastFired'[j] = lastFired[j] /\ retry'[j] = retry[j]
      BY <1>2, <1>5, <2>2
    <3>2. /\ lastFired[j] # None => fired'[j][lastFired[j]] = fired[j][lastFired[j]]
          /\ retry[j].cell # None => fired'[j][retry[j].cell] = fired[j][retry[j].cell]
      BY <1>4, <2>2, Typed DEF Kept, Cells, RetryState
    <3> QED BY <2>0, <3>1, <3>2 DEF Kept, BudgetHolds
  <2> QED BY <2>1, <2>2
<1>27. OneAtATime'
  <2>1. ASSUME NEW c \in calls, c.live
        PROVE  c.key[1] # k[1] /\ ~(c.key[2] = "post" /\ k[2] = "post")
    BY <1>1, <2>1 DEF Kept, CallsHeld, MayFire
  <2> QED BY <1>2, <1>12, <2>1 DEF Kept, OneAtATime
<1>28. CallsHeld'
  <2> SUFFICES ASSUME NEW c \in calls'
               PROVE  /\ c.answer # "sent" => c.live
                      /\ c.live => c.key[1] \in inFlight' /\ (c.key[2] = "post" => postFiring')
                      /\ c.live => \/ lastFired'[c.key] = c.cell
                                   \/ lastFired'[c.key] = None /\ retry'[c.key].cell = c.cell
    BY DEF CallsHeld
  <2>1. CASE c = call
    BY <1>2, <1>5, <1>12, <2>1
  <2>2. CASE c \in calls
    <3>1. c \in CallState
      BY <2>2, Typed DEF Kept
    <3>2. c.live => c.key # k /\ lastFired'[c.key] = lastFired[c.key]
      BY <1>1, <1>5, <2>2, <3>1 DEF Kept, CallsHeld, MayFire, CallState
    <3> QED BY <1>2, <2>2, <3>2 DEF Kept, CallsHeld
  <2> QED BY <1>2, <2>1, <2>2
<1>29. OnceAnHour'
  <2> SUFFICES ASSUME NEW j \in Keys, NEW i \in Hours, j[2] = "post"
               PROVE  fired'[j][i] <= 1
    BY DEF OnceAnHour
  <2>1. CASE <<j, i>> = <<k, h>>
    BY <1>1, <1>4, <2>1 DEF n
  <2>2. CASE <<j, i>> # <<k, h>>
    BY <1>4, <2>2 DEF Kept, OnceAnHour
  <2> QED BY <2>1, <2>2
<1>30. /\ \A j \in Keys : \A i \in Hours : <<j, i>> # <<k, h>> =>
            (Still(j, i)' <=> Still(j, i)) /\ (Placed(j, i)' <=> Placed(j, i))
       /\ Still(k, h) => InCall(k, h)'
  <2>1. Carried' = Carried \cup {call}
    BY <1>2, <1>12 DEF Carried
  <2>2. ASSUME NEW j \in Keys, NEW i \in Hours, <<j, i>> # <<k, h>>
        PROVE  (Still(j, i)' <=> Still(j, i)) /\ (Placed(j, i)' <=> Placed(j, i))
    <3>1. Of(Carried, j, i)' = Of(Carried, j, i)
      BY <1>12, <2>1, <2>2 DEF Of
    <3>2. /\ Of(tasks, j, i)' = Of(tasks, j, i) /\ Of(reports, j, i)' = Of(reports, j, i)
          /\ acted'[j][i] = acted[j][i] /\ cards'[j][i] = cards[j][i]
      BY <1>2 DEF Of, outside
    <3> QED BY <3>1, <3>2, Frame
  <2>3. ASSUME Still(k, h)
        PROVE  InCall(k, h)'
    <3>1. Of(Carried, k, h)' = {call}
      BY <1>12, <2>1, <2>3 DEF Of, Still
    <3>2. /\ Of(tasks, k, h)' = {} /\ Of(reports, k, h)' = {}
          /\ acted'[k][h] = 0 /\ cards'[k][h] = 0
      BY <1>2, <2>3 DEF Of, outside, Still
    <3> QED BY <3>1, <3>2 DEF InCall
  <2> QED BY <2>2, <2>3
<1>31. NothingUnfired' /\ NothingReleased' /\ OnePlace'
  <2>1. NothingUnfired'
    BY <1>4, <1>9, <1>30 DEF Kept, NothingUnfired, n
  <2>2. NothingReleased'
    <3> SUFFICES ASSUME ~strayed', NEW j \in Keys, retry'[j].cell # None, lastFired'[j] = None
                 PROVE  Still(j, retry[j].cell)'
      BY <1>2 DEF NothingReleased
    <3>1. j # k /\ lastFired[j] = None /\ retry' = retry /\ ~strayed
      BY <1>1, <1>2, <1>5
    <3>2. Still(j, retry[j].cell) /\ retry[j].cell \in Hours
      BY <1>2, <3>1, Typed DEF Kept, NothingReleased, RetryState, Cells
    <3>3. Still(j, retry[j].cell)' <=> Still(j, retry[j].cell)
      <4>1. PICK i \in Hours : i = retry[j].cell
        BY <3>2
      <4>2. Still(j, i)' <=> Still(j, i)
        BY <1>30, <3>1
      <4> QED BY <3>1, <4>1, <4>2 DEF Still
    <3> QED BY <3>2, <3>3
  <2>3. OnePlace'
    BY <1>2, <1>10, <1>30 DEF Kept, OnePlace, Placed
  <2> QED BY <2>1, <2>2, <2>3
<1> QED BY <1>21, <1>22, <1>23, <1>24, <1>25, <1>26, <1>27, <1>28, <1>29, <1>31 DEF Kept

(* An hour given back: by whoever gives it back, the memory and the budget     *)
(* stay in order.                                                              *)
LEMMA ReleaseCases ==
  ASSUME Kept, NEW k \in Keys, NEW cell \in Hours, ReleaseHourCell(k, cell),
         UNCHANGED <<time, ticks, claims, fired>>
  PROVE  /\ MemoryInTime' /\ BudgetHolds'
         /\ lastFired' \in [Keys -> Cells] /\ retry' \in [Keys -> RetryState] /\ cards' \in Tallies
         /\ \A j \in Keys : j # k => lastFired'[j] = lastFired[j] /\ retry'[j] = retry[j]
         /\ \/ UNCHANGED <<lastFired, retry, cards>>
            \/ lastFired[k] = cell /\ UNCHANGED <<lastFired, retry>> /\ cards' = Bump(cards, k, cell)
            \/ /\ lastFired[k] = cell /\ lastFired'[k] = None /\ retry'[k].cell = cell
               /\ UNCHANGED cards
<1>1. /\ lastFired \in [Keys -> Cells] /\ retry \in [Keys -> RetryState] /\ cards \in Tallies
      /\ fired \in Tallies
  BY Typed DEF Kept
<1>2. ASSUME lastFired' = lastFired, retry' = retry
      PROVE  /\ MemoryInTime' /\ BudgetHolds'
             /\ lastFired' \in [Keys -> Cells] /\ retry' \in [Keys -> RetryState]
             /\ \A j \in Keys : j # k => lastFired'[j] = lastFired[j] /\ retry'[j] = retry[j]
  <2>1. MemoryInTime'
    BY <1>2 DEF Kept, MemoryInTime
  <2>2. BudgetHolds'
    BY <1>2 DEF Kept, BudgetHolds
  <2> QED BY <1>1, <1>2, <2>1, <2>2
<1>3. CASE /\ lastFired[k] = cell /\ ~Spent(k, cell) /\ UNCHANGED cards
           /\ retry' = [retry EXCEPT ![k] = [cell |-> cell, left |-> Left(k, cell) - 1]]
           /\ lastFired' = [lastFired EXCEPT ![k] = None]
  <2> DEFINE left == Left(k, cell) - 1
             back == [cell |-> cell, left |-> left]
  <2>0. retry[k].left \in 0..MaxRetries /\ MaxRetries \in Nat
    BY <1>1, SchedulerAssumption DEF RetryState
  <2>1. left \in 0..MaxRetries
    BY <1>3, <2>0 DEF Left, Spent
  <2>2. back \in RetryState /\ back.cell = cell /\ back.left = left
    BY <2>1 DEF RetryState, Cells
  <2>3. fired[k][cell] \in Nat /\ fired[k][cell] > 0 /\ cell # None
    BY <1>1, <1>3, SchedulerAssumption DEF Tallies, Counts, Kept, BudgetHolds
  <2>4. fired[k][cell] + left <= MaxRetries
    <3>1. CASE retry[k].cell = cell
      <4>1. fired[k][cell] + retry[k].left <= MaxRetries + 1
        BY <1>3, <2>3, <3>1 DEF Kept, BudgetHolds
      <4> QED BY <2>0, <2>3, <3>1, <4>1 DEF Left
    <3>2. CASE retry[k].cell # cell
      <4>1. fired[k][cell] = 1
        BY <1>3, <2>3, <3>2 DEF Kept, BudgetHolds
      <4> QED BY <2>0, <3>2, <4>1 DEF Left
    <3> QED BY <3>1, <3>2
  <2> HIDE DEF left, back
  <2>5. /\ lastFired' \in [Keys -> Cells] /\ retry' \in [Keys -> RetryState]
        /\ lastFired'[k] = None /\ retry'[k] = back
        /\ \A j \in Keys : j # k => lastFired'[j] = lastFired[j] /\ retry'[j] = retry[j]
    BY <1>1, <1>3, <2>2 DEF Cells, back, left
  <2>6. MemoryInTime'
    <3>1. cell <= time.hour /\ \A t \in ticks : cell <= t.cell
      BY <1>3, <2>3 DEF Kept, MemoryInTime
    <3> QED BY <2>2, <2>5, <3>1 DEF Kept, MemoryInTime
  <2>7. BudgetHolds'
    BY <2>2, <2>3, <2>4, <2>5 DEF Kept, BudgetHolds
  <2> QED BY <1>1, <1>3, <2>2, <2>5, <2>6, <2>7
<1>4. CASE lastFired[k] # cell
  <2>1. lastFired' = lastFired /\ retry' = retry /\ cards' = cards
    BY <1>4 DEF ReleaseHourCell
  <2> QED BY <1>1, <1>2, <2>1
<1>5. CASE lastFired[k] = cell /\ Spent(k, cell)
  <2>1. lastFired' = lastFired /\ retry' = retry /\ cards' = Bump(cards, k, cell)
    BY <1>5 DEF ReleaseHourCell
  <2>2. cards' \in Tallies
    BY <1>1, <2>1, Bumped
  <2> QED BY <1>2, <1>5, <2>1, <2>2
<1>6. CASE lastFired[k] = cell /\ ~Spent(k, cell)
  BY <1>3, <1>6 DEF ReleaseHourCell
<1> QED BY <1>4, <1>5, <1>6

(* The tick does not notice: what it asks about is not what is given back.     *)
LEMMA ReleaseUnasked ==
  ASSUME Kept, NEW k \in Keys,
         \A j \in Keys : j # k => lastFired'[j] = lastFired[j] /\ retry'[j] = retry[j],
         \A t \in ticks : t.at.pc # "next" => t.at.key # k,
         inFlight' \subseteq inFlight, postFiring' => postFiring, UNCHANGED <<ticks, claims, fired>>
  PROVE  TickAsks'
<1> SUFFICES ASSUME NEW t \in ticks
             PROVE  Asks(t)'
  BY DEF TickAsks
<1>1. Asks(t)
  BY DEF Kept, TickAsks
<1> QED BY <1>1 DEF Asks, MayFire

(* The answer to a trigger: the try ends there, unless a task has begun.       *)
LEMMA SettleKeeps ==
  ASSUME Kept, NEW c \in calls, Settle(c)
  PROVE  Kept'
<1> DEFINE k == c.key
           h == c.cell
<1>1. /\ c \in CallState /\ k \in Keys /\ h \in Hours /\ k[1] \in Accounts /\ c.live
      /\ k[1] \in inFlight /\ (k[2] = "post" => postFiring)
      /\ lastFired[k] = h \/ (lastFired[k] = None /\ retry[k].cell = h)
  BY Typed, KeyParts DEF Kept, CallState, CallsHeld, Settle
<1>2. /\ calls' = calls \ {c} /\ inFlight' = inFlight \ {k[1]}
      /\ postFiring' = (postFiring /\ k[2] # "post") /\ c.answer # "sent"
      /\ UNCHANGED <<time, ticks, claims, outside, fired, strayed, crashes>>
  BY DEF Settle
<1>3. IF Returns(c) THEN ReleaseHourCell(k, h)
      ELSE /\ retry' = IF c.answer = "accepted" THEN [retry EXCEPT ![k] = RetryAfter(c)] ELSE retry
           /\ UNCHANGED <<lastFired, cards>>
  BY DEF Settle
<1>4. h # None
  BY <1>1, SchedulerAssumption
<1>t. /\ lastFired \in [Keys -> Cells] /\ retry \in [Keys -> RetryState] /\ cards \in Tallies
      /\ MaxRetries \in Nat /\ calls \subseteq CallState
  BY Typed, SchedulerAssumption DEF Kept
<1> HIDE DEF k, h
<1>5. ASSUME ~Returns(c)
      PROVE  /\ MemoryInTime' /\ BudgetHolds'
             /\ lastFired' \in [Keys -> Cells] /\ retry' \in [Keys -> RetryState] /\ cards' \in Tallies
             /\ \A j \in Keys : j # k => lastFired'[j] = lastFired[j] /\ retry'[j] = retry[j]
             /\ lastFired' = lastFired /\ cards' = cards
             /\ retry'[k] = retry[k] \/ retry'[k] = NoRetry
  <2>1. lastFired' = lastFired /\ cards' = cards
    BY <1>3, <1>5
  <2>2. NoRetry \in RetryState /\ NoRetry.cell = None
    BY <1>t DEF NoRetry, RetryState, Cells
  <2>3. \/ retry' = retry
        \/ retry' = [retry EXCEPT ![k] = retry[k]]
        \/ retry' = [retry EXCEPT ![k] = NoRetry] /\ retry[k].cell # h
    BY <1>3, <1>5 DEF RetryAfter, k, h
  <2>4. CASE retry' = retry
    <3>1. MemoryInTime'
      BY <1>2, <2>1, <2>4 DEF Kept, MemoryInTime
    <3>2. BudgetHolds'
      BY <1>2, <2>1, <2>4 DEF Kept, BudgetHolds
    <3> QED BY <1>t, <2>1, <2>4, <3>1, <3>2
  <2>5. CASE retry' = [retry EXCEPT ![k] = NoRetry] /\ retry[k].cell # h
    <3>1. /\ retry' \in [Keys -> RetryState] /\ retry'[k] = NoRetry
          /\ \A j \in Keys : j # k => retry'[j] = retry[j]
      BY <1>1, <1>t, <2>2, <2>5
    <3>2. lastFired[k] = h
      BY <1>1, <2>5
    <3>3. MemoryInTime'
      BY <1>2, <2>1, <2>2, <3>1 DEF Kept, MemoryInTime
    <3>4. BudgetHolds'
      <4>1. fired[k][h] > 0 /\ fired[k][h] = 1
        BY <1>1, <1>4, <2>5, <3>2 DEF Kept, BudgetHolds
      <4> QED BY <1>2, <1>4, <2>1, <2>2, <3>1, <3>2, <4>1 DEF Kept, BudgetHolds
    <3> QED BY <1>t, <2>1, <3>1, <3>3, <3>4
  <2> QED BY <1>1, <1>t, <2>3, <2>4, <2>5
<1>6. /\ MemoryInTime' /\ BudgetHolds'
      /\ lastFired' \in [Keys -> Cells] /\ retry' \in [Keys -> RetryState] /\ cards' \in Tallies
      /\ \A j \in Keys : j # k => lastFired'[j] = lastFired[j] /\ retry'[j] = retry[j]
  BY <1>1, <1>2, <1>3, <1>5, ReleaseCases
<1>7. ScheduleTypeOK'
  <2>1. inFlight' \subseteq Accounts /\ postFiring' \in BOOLEAN
    BY <1>2 DEF Kept, ScheduleTypeOK
  <2>2. calls' \subseteq CallState
    BY <1>2, <1>t
  <2> QED BY <1>2, <1>6, <2>1, <2>2 DEF Kept, ScheduleTypeOK, CallState, RetryState, Tallies, outside
<1>8. TickInTime' /\ FirstInItsMinute' /\ PostClaimed' /\ OnceAnHour'
  <2>1. TickInTime' /\ FirstInItsMinute'
    BY <1>2 DEF Kept, TickInTime, FirstInItsMinute
  <2>2. PostClaimed' /\ OnceAnHour'
    BY <1>2 DEF Kept, PostClaimed, OnceAnHour
  <2> QED BY <2>1, <2>2
<1>9. TickAsks'
  <2>1. \A t \in ticks : t.at.pc # "next" => t.at.key # k
    BY <1>1 DEF Kept, TickAsks, Asks, MayFire
  <2>2. inFlight' \subseteq inFlight /\ (postFiring' => postFiring) /\ UNCHANGED <<ticks, claims, fired>>
    BY <1>2
  <2> QED BY <1>1, <1>6, <2>1, <2>2, ReleaseUnasked
<1>10. OneAtATime'
  BY <1>2 DEF Kept, OneAtATime
<1>11. CallsHeld'
  <2> SUFFICES ASSUME NEW d \in calls'
               PROVE  /\ d.answer # "sent" => d.live
                      /\ d.live => d.key[1] \in inFlight' /\ (d.key[2] = "post" => postFiring')
                      /\ d.live => \/ lastFired'[d.key] = d.cell
                                   \/ lastFired'[d.key] = None /\ retry'[d.key].cell = d.cell
    BY DEF CallsHeld
  <2>1. d \in calls /\ d # c /\ d.key \in Keys
    BY <1>2, <1>t DEF CallState
  <2>2. d.live => d.key[1] # k[1] /\ ~(d.key[2] = "post" /\ k[2] = "post")
    BY <1>1, <2>1 DEF Kept, OneAtATime, k
  <2>3. /\ d.answer # "sent" => d.live
        /\ d.live => d.key[1] \in inFlight /\ (d.key[2] = "post" => postFiring)
        /\ d.live => \/ lastFired[d.key] = d.cell
                     \/ lastFired[d.key] = None /\ retry[d.key].cell = d.cell
    BY <2>1 DEF Kept, CallsHeld
  <2>4. d.key # k => lastFired'[d.key] = lastFired[d.key] /\ retry'[d.key] = retry[d.key]
    BY <1>6, <2>1
  <2>5. d.live => d.key[1] \in inFlight' /\ (d.key[2] = "post" => postFiring')
    BY <1>2, <2>2, <2>3
  <2> QED BY <2>2, <2>3, <2>4, <2>5
<1>12. Of(tasks, k, h)' = Of(tasks, k, h) /\ Of(reports, k, h)' = Of(reports, k, h) /\ acted' = acted
  BY <1>2 DEF Of, outside
<1>13. CASE ~Returns(c)
  <2>1. Carried' = Carried
    BY <1>2, <1>13 DEF Carried, Returns
  <2>2. \A j \in Keys : \A i \in Hours : (Still(j, i)' <=> Still(j, i)) /\ (Placed(j, i)' <=> Placed(j, i))
    BY <1>2, <1>5, <1>13, <2>1, Frame DEF Of, outside
  <2>3. NothingUnfired' /\ OnePlace'
    BY <1>2, <2>2 DEF Kept, NothingUnfired, OnePlace
  <2>4. NothingReleased'
    <3> SUFFICES ASSUME ~strayed', NEW j \in Keys, retry'[j].cell # None, lastFired'[j] = None
                 PROVE  Still(j, retry[j].cell)'
      BY DEF NothingReleased
    <3>1. retry'[j] = retry[j] /\ lastFired[j] = None /\ ~strayed
      BY <1>2, <1>5, <1>13 DEF NoRetry
    <3>2. PICK i \in Hours : i = retry[j].cell
      BY <1>t, <3>1 DEF RetryState, Cells
    <3>3. Still(j, i)
      BY <3>1, <3>2 DEF Kept, NothingReleased
    <3>4. Still(j, i)'
      BY <2>2, <3>3
    <3> QED BY <3>1, <3>2, <3>4 DEF Still
  <2> QED BY <1>6, <1>7, <1>8, <1>9, <1>10, <1>11, <2>3, <2>4 DEF Kept
<1>14. CASE Returns(c)
  <2>1. c \in Carried /\ Carried' = Carried \ {c} /\ c \in Of(Carried, k, h)
    BY <1>2, <1>14 DEF Carried, Returns, Of, k, h
  <2>2. \/ UNCHANGED <<lastFired, retry, cards>>
        \/ lastFired[k] = h /\ UNCHANGED <<lastFired, retry>> /\ cards' = Bump(cards, k, h)
        \/ /\ lastFired[k] = h /\ lastFired'[k] = None /\ retry'[k].cell = h
           /\ UNCHANGED cards
    BY <1>1, <1>2, <1>3, <1>14, ReleaseCases
  <2>3. \A j \in Keys : \A i \in Hours : <<j, i>> # <<k, h>> => cards'[j][i] = cards[j][i]
    <3>1. CASE cards' = cards
      BY <3>1
    <3>2. CASE cards' = Bump(cards, k, h)
      <4>1. \A j \in Keys : \A i \in Hours : <<j, i>> # <<k, h>> => Bump(cards, k, h)[j][i] = cards[j][i]
        BY <1>1, <1>t, Bumped
      <4> QED BY <3>2, <4>1
    <3> QED BY <2>2, <3>1, <3>2
  <2>4. ASSUME NEW j \in Keys, NEW i \in Hours, <<j, i>> # <<k, h>>
        PROVE  (Still(j, i)' <=> Still(j, i)) /\ (Placed(j, i)' <=> Placed(j, i))
    <3>1. Of(Carried, j, i)' = Of(Carried, j, i)
      BY <2>1, <2>4 DEF Of, k, h
    <3>2. /\ Of(tasks, j, i)' = Of(tasks, j, i) /\ Of(reports, j, i)' = Of(reports, j, i)
          /\ acted'[j][i] = acted[j][i] /\ cards'[j][i] = cards[j][i]
      BY <1>2, <2>3, <2>4 DEF Of, outside
    <3> QED BY <3>1, <3>2, Frame
  <2>5. ASSUME ~strayed
        PROVE  /\ Of(Carried, k, h)' = {} /\ Of(tasks, k, h)' = {} /\ Of(reports, k, h)' = {}
               /\ acted'[k][h] = 0 /\ cards[k][h] = 0
    <3>1. Placed(k, h)
      BY <1>1, <2>5 DEF Kept, OnePlace
    <3>2. InCall(k, h)
      BY <2>1, <3>1 DEF Placed, Still, InTask, InReport, InEffect
    <3>3. Of(Carried, k, h) = {c}
      BY <2>1, <3>2 DEF InCall
    <3>4. Of(Carried, k, h)' = {}
      BY <2>1, <3>3 DEF Of
    <3> QED BY <1>12, <3>2, <3>4 DEF InCall
  <2>6. fired[k][h] # 0
    BY <1>1, <2>1 DEF Kept, NothingUnfired, Still
  <2>7. NothingUnfired'
    BY <1>2, <2>4, <2>6 DEF Kept, NothingUnfired
  <2>8. ~strayed /\ cards' = cards => Still(k, h)'
    BY <2>5 DEF Still
  <2>9. OnePlace'
    <3>1. ASSUME ~strayed
          PROVE  Placed(k, h)'
      <4>1. CASE cards' = cards
        BY <2>8, <3>1, <4>1 DEF Placed
      <4>2. CASE cards' = Bump(cards, k, h)
        <5>1. cards'[k][h] = 1 /\ acted'[k][h] = 0
          BY <1>1, <1>t, <2>5, <3>1, <4>2, Bumped
        <5>2. InEffect(k, h)'
          BY <2>5, <3>1, <5>1 DEF InEffect
        <5> QED BY <5>2 DEF Placed
      <4> QED BY <2>2, <4>1, <4>2
    <3> QED BY <1>2, <2>4, <3>1 DEF Kept, OnePlace
  <2>10. NothingReleased'
    <3> SUFFICES ASSUME ~strayed', NEW j \in Keys, retry'[j].cell # None, lastFired'[j] = None
                 PROVE  Still(j, retry[j].cell)'
      BY DEF NothingReleased
    <3>1. ~strayed
      BY <1>2
    <3>2. PICK i \in Hours : i = retry'[j].cell
      BY <1>6 DEF RetryState, Cells
    <3>3. CASE j # k \/ lastFired' = lastFired
      <4>1. retry'[j] = retry[j] /\ lastFired[j] = None
        <5>1. CASE j # k
          BY <1>6, <5>1
        <5>2. CASE j = k /\ lastFired' = lastFired
          BY <1>4, <2>2, <5>2
        <5> QED BY <3>3, <5>1, <5>2
      <4>2. Still(j, i)
        BY <3>1, <3>2, <4>1 DEF Kept, NothingReleased
      <4>3. <<j, i>> # <<k, h>>
        BY <2>1, <4>2 DEF Still
      <4>4. Still(j, i)'
        BY <2>4, <4>2, <4>3
      <4> QED BY <3>2, <4>4 DEF Still
    <3>4. CASE j = k /\ lastFired' # lastFired
      <4>1. i = h /\ cards' = cards
        BY <2>2, <3>2, <3>4
      <4>2. Still(k, i)'
        BY <2>8, <3>1, <4>1
      <4> QED BY <3>2, <3>4, <4>2 DEF Still
    <3> QED BY <3>3, <3>4
  <2> QED BY <1>6, <1>7, <1>8, <1>9, <1>10, <1>11, <2>7, <2>9, <2>10 DEF Kept
<1> QED BY <1>13, <1>14

(* Where one hour of one action changes, the others stay.                      *)
LEMMA PlacesStep ==
  ASSUME Kept, NEW k \in Keys, NEW h \in Hours, ~Still(k, h), UNCHANGED <<fired, retry, lastFired, strayed>>,
         \A j \in Keys : \A i \in Hours : <<j, i>> # <<k, h>> =>
           (Still(j, i)' <=> Still(j, i)) /\ (Placed(j, i)' <=> Placed(j, i)),
         ~strayed => Placed(k, h)'
  PROVE  NothingUnfired' /\ NothingReleased' /\ OnePlace'
<1>1. NothingUnfired'
  BY DEF Kept, NothingUnfired
<1>2. OnePlace'
  BY DEF Kept, OnePlace
<1>3. NothingReleased'
  <2> SUFFICES ASSUME ~strayed', NEW j \in Keys, retry'[j].cell # None, lastFired'[j] = None
               PROVE  Still(j, retry[j].cell)'
    BY DEF NothingReleased
  <2>1. PICK i \in Hours : i = retry[j].cell
    BY Typed DEF Kept, RetryState, Cells
  <2>2. Still(j, i)
    BY <2>1 DEF Kept, NothingReleased
  <2>3. Still(j, i)'
    BY <2>2
  <2> QED BY <2>1, <2>3 DEF Still
<1> QED BY <1>1, <1>2, <1>3

(* What the automation service does changes nothing the scheduler remembers.   *)
LEMMA OutsideSteps ==
  ASSUME Kept, UNCHANGED <<time, memory, claims, fired>>
  PROVE  /\ TickInTime' /\ TickAsks' /\ MemoryInTime' /\ FirstInItsMinute' /\ PostClaimed'
         /\ BudgetHolds' /\ OnceAnHour'
<1> USE DEF memory
<1>1. TickInTime' /\ FirstInItsMinute'
  BY DEF Kept, TickInTime, FirstInItsMinute
<1>2. TickAsks'
  BY DEF Kept, TickAsks, Asks, MayFire
<1>3. MemoryInTime'
  BY DEF Kept, MemoryInTime
<1>4. PostClaimed' /\ OnceAnHour'
  BY DEF Kept, PostClaimed, OnceAnHour
<1>5. BudgetHolds'
  BY DEF Kept, BudgetHolds
<1> QED BY <1>1, <1>2, <1>3, <1>4, <1>5

LEMMA AnswerKeeps ==
  ASSUME Kept, NEW c \in calls, NEW answer \in {"accepted", "notStarted", "failed"}, NEW begins \in BOOLEAN,
         Answer(c, answer, begins)
  PROVE  Kept'
<1> DEFINE k == c.key
           h == c.cell
           d == [c EXCEPT !.answer = answer]
           r == [key |-> k, cell |-> h, n |-> c.n]
<1>1. /\ c \in CallState /\ k \in Keys /\ h \in Hours /\ c.answer = "sent"
      /\ d \in CallState /\ d.key = k /\ d.cell = h /\ d.live = c.live /\ d.answer = answer
      /\ r \in Task /\ r.key = k /\ r.cell = h
  BY Typed DEF Kept, CallState, Task, Answer
<1>2. /\ calls' = (calls \ {c}) \cup (IF c.live THEN {d} ELSE {})
      /\ tasks' = IF begins THEN tasks \cup {r} ELSE tasks
      /\ answer = "notStarted" => ~begins
      /\ UNCHANGED <<time, memory, claims, reports, drafts, acted, fired, cards, strayed, crashes>>
  BY DEF Answer
<1> HIDE DEF d, r, k, h
<1>3. ScheduleTypeOK'
  <2>1. calls' \subseteq CallState /\ tasks' \subseteq Task
    BY <1>1, <1>2, Typed DEF Kept
  <2> QED BY <1>2, <2>1 DEF Kept, ScheduleTypeOK, CallState, memory
<1>4. OneAtATime'
  <2> SUFFICES ASSUME NEW x \in calls', NEW y \in calls', x.live, y.live, x # y
               PROVE  x.key[1] # y.key[1] /\ ~(x.key[2] = "post" /\ y.key[2] = "post")
    BY DEF OneAtATime
  <2>1. CASE x \in calls \ {c} /\ y \in calls \ {c}
    BY <2>1 DEF Kept, OneAtATime
  <2>2. CASE x = d /\ y \in calls \ {c}
    BY <1>1, <2>2 DEF Kept, OneAtATime, k
  <2>3. CASE y = d /\ x \in calls \ {c}
    BY <1>1, <2>3 DEF Kept, OneAtATime, k
  <2> QED BY <1>2, <2>1, <2>2, <2>3
<1>5. CallsHeld'
  <2> SUFFICES ASSUME NEW x \in calls'
               PROVE  /\ x.answer # "sent" => x.live
                      /\ x.live => x.key[1] \in inFlight' /\ (x.key[2] = "post" => postFiring')
                      /\ x.live => \/ lastFired'[x.key] = x.cell
                                   \/ lastFired'[x.key] = None /\ retry'[x.key].cell = x.cell
    BY DEF CallsHeld
  <2>1. CASE x \in calls
    BY <1>2, <2>1 DEF Kept, CallsHeld, memory
  <2>2. CASE x = d /\ c.live
    BY <1>1, <1>2, <2>2 DEF Kept, CallsHeld, memory, k, h
  <2> QED BY <1>2, <2>1, <2>2
<1>6. /\ c \in Of(Carried, k, h) /\ ~Still(k, h)
      /\ Carried' = (Carried \ {c}) \cup (IF c.live /\ answer = "notStarted" THEN {d} ELSE {})
  <2>1. c \in Of(Carried, k, h)
    BY <1>1 DEF Carried, Of, k, h
  <2>2. Carried' = (Carried \ {c}) \cup (IF c.live /\ answer = "notStarted" THEN {d} ELSE {})
    BY <1>1, <1>2 DEF Carried
  <2> QED BY <2>1, <2>2 DEF Still
<1>7. ASSUME NEW j \in Keys, NEW i \in Hours, <<j, i>> # <<k, h>>
      PROVE  (Still(j, i)' <=> Still(j, i)) /\ (Placed(j, i)' <=> Placed(j, i))
  <2>1. Of(Carried, j, i)' = Of(Carried, j, i)
    BY <1>1, <1>6, <1>7 DEF Of, k, h
  <2>2. Of(tasks, j, i)' = Of(tasks, j, i)
    BY <1>1, <1>2, <1>7 DEF Of
  <2>3. /\ Of(reports, j, i)' = Of(reports, j, i)
        /\ acted'[j][i] = acted[j][i] /\ cards'[j][i] = cards[j][i]
    BY <1>2 DEF Of
  <2> QED BY <2>1, <2>2, <2>3, Frame
<1>8. ASSUME ~strayed
      PROVE  Placed(k, h)'
  <2>1. Placed(k, h)
    BY <1>1, <1>8 DEF Kept, OnePlace
  <2>2. InCall(k, h)
    BY <1>6, <2>1 DEF Placed, Still, InTask, InReport, InEffect
  <2>3. Of(Carried, k, h) = {c}
    BY <1>6, <2>2 DEF InCall
  <2>4. /\ Of(reports, k, h)' = {} /\ acted'[k][h] = 0 /\ cards'[k][h] = 0
    BY <1>2, <2>2 DEF Of, InCall
  <2>5. CASE c.live /\ answer = "notStarted"
    <3>1. Of(Carried, k, h)' = {d} /\ Of(tasks, k, h)' = {}
      BY <1>1, <1>2, <1>6, <2>2, <2>3, <2>5 DEF Of, InCall
    <3> QED BY <2>4, <3>1 DEF Placed, InCall
  <2>6. CASE ~(c.live /\ answer = "notStarted")
    <3>1. Of(Carried, k, h)' = {}
      BY <1>6, <2>3, <2>6 DEF Of
    <3>2. CASE begins
      <4>1. Of(tasks, k, h)' = {r}
        BY <1>1, <1>2, <2>2, <3>2 DEF Of, InCall
      <4> QED BY <2>4, <3>1, <4>1 DEF Placed, InTask
    <3>3. CASE ~begins
      <4>1. Of(tasks, k, h)' = {}
        BY <1>2, <2>2, <3>3 DEF Of, InCall
      <4> QED BY <2>4, <3>1, <4>1 DEF Placed, Still
    <3> QED BY <3>2, <3>3
  <2> QED BY <2>5, <2>6
<1>9. NothingUnfired' /\ NothingReleased' /\ OnePlace'
  BY <1>1, <1>2, <1>6, <1>7, <1>8, PlacesStep DEF memory
<1>10. UNCHANGED <<time, memory, claims, fired>>
  BY <1>2
<1> QED BY <1>3, <1>4, <1>5, <1>9, <1>10, OutsideSteps DEF Kept

LEMMA TaskKeeps ==
  ASSUME Kept, NEW r \in tasks, TaskActs(r) \/ TaskNotStarted(r)
  PROVE  Kept'
<1> DEFINE k == r.key
           h == r.cell
<1>1. r \in Task /\ k \in Keys /\ h \in Hours /\ k[1] \in Accounts
  BY Typed, KeyParts DEF Kept, Task
<1>2. /\ tasks' = tasks \ {r}
      /\ UNCHANGED <<time, memory, claims, calls, fired, cards, strayed, crashes>>
      /\ \/ acted' = Bump(acted, k, h) /\ reports' = reports
         \/ acted' = acted /\ (reports' = reports \/ reports' = reports \cup {r})
  BY DEF TaskActs, TaskNotStarted
<1>t. acted \in Tallies /\ acted[k][h] \in Nat
  BY <1>1, Typed DEF Kept, Tallies, Counts
<1> HIDE DEF k, h
<1>3. /\ acted' \in Tallies
      /\ \A j \in Keys : \A i \in Hours : <<j, i>> # <<k, h>> => acted'[j][i] = acted[j][i]
  <2>1. CASE acted' = Bump(acted, k, h)
    <3>1. /\ Bump(acted, k, h) \in Tallies
          /\ \A j \in Keys : \A i \in Hours : <<j, i>> # <<k, h>> => Bump(acted, k, h)[j][i] = acted[j][i]
      BY <1>1, <1>t, Bumped
    <3> QED BY <2>1, <3>1
  <2>2. CASE acted' = acted
    BY <1>t, <2>2
  <2> QED BY <1>2, <2>1, <2>2
<1>4. drafts' \in [Accounts -> DraftState]
  <2>1. drafts \in [Accounts -> DraftState]
    BY DEF Kept, ScheduleTypeOK, DraftState
  <2>2. \A s \in DraftState : [s EXCEPT !.pending = s.pending + 1] \in DraftState
    BY DEF DraftState, Counts
  <2>3. \/ drafts' = drafts
        \/ drafts' = [drafts EXCEPT ![k[1]] = [drafts[k[1]] EXCEPT !.pending = drafts[k[1]].pending + 1]]
    BY DEF TaskActs, TaskNotStarted, k
  <2> QED BY <1>1, <2>1, <2>2, <2>3
<1>5. ScheduleTypeOK'
  <2>1. tasks' \subseteq Task /\ reports' \subseteq Task
    BY <1>1, <1>2, Typed DEF Kept
  <2> QED BY <1>2, <1>3, <1>4, <2>1 DEF Kept, ScheduleTypeOK, Tallies, memory, DraftState
<1>6. OneAtATime' /\ CallsHeld'
  BY <1>2 DEF Kept, OneAtATime, CallsHeld, memory
<1>7. r \in Of(tasks, k, h) /\ ~Still(k, h)
  BY DEF Of, Still, k, h
<1>8. ASSUME NEW j \in Keys, NEW i \in Hours, <<j, i>> # <<k, h>>
      PROVE  (Still(j, i)' <=> Still(j, i)) /\ (Placed(j, i)' <=> Placed(j, i))
  <2>1. Of(tasks, j, i)' = Of(tasks, j, i) /\ Of(reports, j, i)' = Of(reports, j, i)
    BY <1>2, <1>8 DEF Of, k, h
  <2>2. Of(Carried, j, i)' = Of(Carried, j, i)
    BY <1>2 DEF Of, Carried
  <2>3. acted'[j][i] = acted[j][i] /\ cards'[j][i] = cards[j][i]
    BY <1>2, <1>3, <1>8
  <2> QED BY <2>1, <2>2, <2>3, Frame
<1>9. ASSUME ~strayed
      PROVE  Placed(k, h)'
  <2>1. Placed(k, h)
    BY <1>1, <1>9 DEF Kept, OnePlace
  <2>2. InTask(k, h)
    BY <1>7, <2>1 DEF Placed, Still, InCall, InReport, InEffect
  <2>3. Of(tasks, k, h) = {r}
    BY <1>7, <2>2 DEF InTask
  <2>4. Of(tasks, k, h)' = {} /\ Of(Carried, k, h)' = {} /\ cards'[k][h] = 0
    BY <1>2, <2>2, <2>3 DEF Of, Carried, InTask
  <2>5. CASE acted' = Bump(acted, k, h) /\ reports' = reports
    <3>1. acted'[k][h] = 1
      BY <1>1, <1>t, <2>2, <2>5, Bumped DEF InTask
    <3>2. Of(reports, k, h)' = {}
      BY <2>2, <2>5 DEF Of, InTask
    <3> QED BY <2>4, <3>1, <3>2 DEF Placed, InEffect
  <2>6. CASE acted' = acted /\ reports' = reports
    BY <2>2, <2>4, <2>6 DEF Placed, Still, InTask, Of
  <2>7. CASE acted' = acted /\ reports' = reports \cup {r}
    <3>1. Of(reports, k, h)' = {r}
      BY <2>2, <2>7 DEF Of, InTask, k, h
    <3>2. acted'[k][h] = 0
      BY <2>2, <2>7 DEF InTask
    <3> QED BY <2>4, <3>1, <3>2 DEF Placed, InReport
  <2> QED BY <1>2, <2>5, <2>6, <2>7
<1>10. NothingUnfired' /\ NothingReleased' /\ OnePlace'
  BY <1>1, <1>2, <1>7, <1>8, <1>9, PlacesStep DEF memory
<1>11. UNCHANGED <<time, memory, claims, fired>>
  BY <1>2
<1> QED BY <1>5, <1>6, <1>10, <1>11, OutsideSteps DEF Kept

LEMMA DraftKeeps ==
  ASSUME Kept, DraftMovesOn
  PROVE  Kept'
<1>1. PICK a \in Accounts, from \in {"pending", "scheduled"}, to \in {"posted", "scheduled", "dropped"} :
        from # to /\ DraftMoves(a, from, to)
  BY DEF DraftMovesOn
<1>2. drafts \in [Accounts -> DraftState] /\ drafts[a] \in DraftState
  BY DEF Kept, ScheduleTypeOK, DraftState
<1>3. drafts[a][from] \in Nat /\ drafts[a][from] - 1 \in Nat
  BY <1>1, <1>2 DEF DraftMoves, DraftState, Counts
<1> DEFINE left == [drafts[a] EXCEPT ![from] = @ - 1]
<1>4. left \in DraftState
  BY <1>2, <1>3 DEF DraftState, Counts
<1>5. drafts' \in [Accounts -> DraftState]
  <2>1. CASE to = "dropped"
    BY <1>1, <1>2, <1>4, <2>1 DEF DraftMoves
  <2>2. CASE to # "dropped"
    <3> DEFINE taken == [drafts EXCEPT ![a] = left]
               moved == [left EXCEPT ![to] = drafts[a][to] + 1]
    <3>1. drafts' = [taken EXCEPT ![a][to] = drafts[a][to] + 1]
      BY <1>1, <2>2 DEF DraftMoves
    <3> HIDE DEF left
    <3>2. taken \in [Accounts -> DraftState] /\ taken[a] = left
      BY <1>2, <1>4
    <3>3. moved \in DraftState
      BY <1>2, <1>4, <2>2 DEF DraftState, Counts
    <3> HIDE DEF taken
    <3>4. drafts' = [taken EXCEPT ![a] = moved]
      BY <3>1, <3>2
    <3> HIDE DEF moved
    <3> QED BY <3>2, <3>3, <3>4
  <2> QED BY <2>1, <2>2
<1> HIDE DEF left
<1>6. UNCHANGED <<time, memory, claims, calls, tasks, reports, acted, fired, cards, strayed, crashes>>
  BY <1>1 DEF DraftMoves
<1>7. ScheduleTypeOK'
  BY <1>5, <1>6 DEF Kept, ScheduleTypeOK, DraftState, memory
<1>8. OneAtATime' /\ CallsHeld'
  BY <1>6 DEF Kept, OneAtATime, CallsHeld, memory
<1>9. NothingUnfired' /\ NothingReleased' /\ OnePlace'
  BY <1>6 DEF Kept, NothingUnfired, NothingReleased, OnePlace, Placed, Still, InCall, InTask, InReport,
              InEffect, Carried, Of, memory
<1> QED BY <1>6, <1>7, <1>8, <1>9, OutsideSteps DEF Kept

(* A report that a task did not start: it gives back the hour it is now.  That *)
(* is its own hour, or none, or the behaviour has strayed.                     *)
LEMMA ReportKeeps ==
  ASSUME Kept, NEW r \in reports, ReportNotStarted(r)
  PROVE  Kept'
<1> DEFINE k == r.key
           h == r.cell
           now == time.hour
<1>1. r \in Task /\ k \in Keys /\ h \in Hours /\ now \in Hours /\ now # None
  BY Typed, SchedulerAssumption DEF Kept, Task
<1>2. /\ reports' = reports \ {r} /\ ReleaseHourCell(k, now)
      /\ strayed' = (strayed \/ (h # now /\ lastFired[k] = now))
      /\ UNCHANGED <<time, ticks, inFlight, postFiring, claims, calls, tasks, drafts, acted, fired, crashes>>
  BY DEF ReportNotStarted
<1>t. /\ lastFired \in [Keys -> Cells] /\ retry \in [Keys -> RetryState] /\ cards \in Tallies
      /\ calls \subseteq CallState
  BY Typed DEF Kept
<1> HIDE DEF k, h, now
<1>3. /\ MemoryInTime' /\ BudgetHolds'
      /\ lastFired' \in [Keys -> Cells] /\ retry' \in [Keys -> RetryState] /\ cards' \in Tallies
      /\ \A j \in Keys : j # k => lastFired'[j] = lastFired[j] /\ retry'[j] = retry[j]
      /\ \/ UNCHANGED <<lastFired, retry, cards>>
         \/ lastFired[k] = now /\ UNCHANGED <<lastFired, retry>> /\ cards' = Bump(cards, k, now)
         \/ /\ lastFired[k] = now /\ lastFired'[k] = None /\ retry'[k].cell = now
            /\ UNCHANGED cards
  BY <1>1, <1>2, ReleaseCases
<1>4. ScheduleTypeOK'
  <2>1. strayed' \in BOOLEAN /\ reports' \subseteq Task
    BY <1>2, Typed DEF Kept, ScheduleTypeOK
  <2> QED BY <1>2, <1>3, <2>1 DEF Kept, ScheduleTypeOK, RetryState, Tallies
<1>5. TickInTime' /\ FirstInItsMinute' /\ PostClaimed' /\ OnceAnHour'
  <2>1. TickInTime' /\ FirstInItsMinute'
    BY <1>2 DEF Kept, TickInTime, FirstInItsMinute
  <2>2. PostClaimed' /\ OnceAnHour'
    BY <1>2 DEF Kept, PostClaimed, OnceAnHour
  <2> QED BY <2>1, <2>2
<1>6. TickAsks'
  <2>1. CASE lastFired' = lastFired /\ retry' = retry
    BY <1>2, <2>1 DEF Kept, TickAsks, Asks, MayFire
  <2>2. CASE lastFired[k] = now
    <3>1. \A t \in ticks : t.at.pc # "next" => t.at.key # k
      <4>1. SUFFICES ASSUME NEW t \in ticks, t.at.pc # "next", t.at.key = k
                     PROVE  FALSE
        OBVIOUS
      <4>2. lastFired[k] # t.cell
        BY <4>1 DEF Kept, TickAsks, Asks, MayFire
      <4>3. now <= t.cell /\ t.cell <= now
        <5>1. t.cell \in Int /\ now \in Int /\ (t.cell < now \/ t.cell = now)
          BY <1>1, <4>1, Typed DEF Kept, TickInTime, TickState, Hours, now
        <5> QED BY <1>1, <2>2, <5>1 DEF Kept, MemoryInTime
      <4>4. t.cell \in Int /\ now \in Int
        BY <1>1, <4>1, Typed DEF Kept, TickState, Hours
      <4> QED BY <2>2, <4>2, <4>3, <4>4
    <3>2. inFlight' \subseteq inFlight /\ (postFiring' => postFiring) /\ UNCHANGED <<ticks, claims, fired>>
      BY <1>2
    <3> QED BY <1>1, <1>3, <3>1, <3>2, ReleaseUnasked
  <2> QED BY <1>3, <2>1, <2>2
<1>7. OneAtATime'
  BY <1>2 DEF Kept, OneAtATime
<1>8. CallsHeld'
  <2> SUFFICES ASSUME NEW d \in calls
               PROVE  /\ d.answer # "sent" => d.live
                      /\ d.live => d.key[1] \in inFlight' /\ (d.key[2] = "post" => postFiring')
                      /\ d.live => \/ lastFired'[d.key] = d.cell
                                   \/ lastFired'[d.key] = None /\ retry'[d.key].cell = d.cell
    BY <1>2 DEF CallsHeld
  <2>1. /\ d.answer # "sent" => d.live
        /\ d.live => d.key[1] \in inFlight /\ (d.key[2] = "post" => postFiring)
        /\ d.live => \/ lastFired[d.key] = d.cell
                     \/ lastFired[d.key] = None /\ retry[d.key].cell = d.cell
    BY DEF Kept, CallsHeld
  <2>2. d.key \in Keys
    BY <1>t DEF CallState
  <2>3. inFlight' = inFlight /\ postFiring' = postFiring
    BY <1>2
  <2>4. d.live => \/ lastFired'[d.key] = d.cell
                  \/ lastFired'[d.key] = None /\ retry'[d.key].cell = d.cell
    <3>1. CASE d.key # k
      BY <1>3, <2>1, <2>2, <3>1
    <3>2. CASE d.key = k
      BY <1>1, <1>3, <2>1, <3>2
    <3> QED BY <3>1, <3>2
  <2> QED BY <2>1, <2>3, <2>4
<1>9. r \in Of(reports, k, h) /\ ~Still(k, h)
  BY DEF Of, Still, k, h
<1>10. ~strayed' => ~strayed /\ (h = now \/ lastFired[k] # now)
  BY <1>2
<1>11. \A j \in Keys : \A i \in Hours : <<j, i>> # <<k, now>> => cards'[j][i] = cards[j][i]
  <2>1. CASE cards' = cards
    BY <2>1
  <2>2. CASE cards' = Bump(cards, k, now)
    <3>1. \A j \in Keys : \A i \in Hours : <<j, i>> # <<k, now>> => Bump(cards, k, now)[j][i] = cards[j][i]
      BY <1>1, <1>t, Bumped
    <3> QED BY <2>2, <3>1
  <2> QED BY <1>3, <2>1, <2>2
<1>12. ASSUME NEW j \in Keys, NEW i \in Hours, <<j, i>> # <<k, h>>, cards'[j][i] = cards[j][i]
       PROVE  (Still(j, i)' <=> Still(j, i)) /\ (Placed(j, i)' <=> Placed(j, i))
  <2>1. Of(reports, j, i)' = Of(reports, j, i)
    BY <1>2, <1>12 DEF Of, k, h
  <2>2. /\ Of(Carried, j, i)' = Of(Carried, j, i) /\ Of(tasks, j, i)' = Of(tasks, j, i)
        /\ acted'[j][i] = acted[j][i]
    BY <1>2 DEF Of, Carried
  <2> QED BY <1>12, <2>1, <2>2, Frame
<1>13. NothingUnfired'
  <2> SUFFICES ASSUME NEW j \in Keys, NEW i \in Hours, fired[j][i] = 0
               PROVE  Still(j, i)'
    BY <1>2 DEF NothingUnfired
  <2>1. Still(j, i) /\ <<j, i>> # <<k, h>>
    BY <1>9 DEF Kept, NothingUnfired
  <2>2. cards'[j][i] = cards[j][i]
    <3>1. lastFired[k] = now => fired[k][now] > 0
      BY <1>1 DEF Kept, BudgetHolds
    <3>2. lastFired[k] = now => <<j, i>> # <<k, now>>
      BY <3>1
    <3>3. cards' = cards \/ lastFired[k] = now
      BY <1>3
    <3> QED BY <1>11, <3>2, <3>3
  <2> QED BY <1>12, <2>1, <2>2
<1>14. ASSUME ~strayed'
       PROVE  /\ Of(reports, k, h)' = {} /\ Of(Carried, k, h)' = {} /\ Of(tasks, k, h)' = {}
              /\ acted'[k][h] = 0 /\ cards[k][h] = 0
  <2>1. Placed(k, h)
    BY <1>1, <1>10, <1>14 DEF Kept, OnePlace
  <2>2. InReport(k, h)
    BY <1>9, <2>1 DEF Placed, Still, InCall, InTask, InEffect
  <2>3. Of(reports, k, h) = {r}
    BY <1>9, <2>2 DEF InReport
  <2>4. Of(reports, k, h)' = {}
    BY <1>2, <2>3 DEF Of
  <2> QED BY <1>2, <2>2, <2>4 DEF InReport, Of, Carried
<1>15. ~strayed' => \A j \in Keys : \A i \in Hours : <<j, i>> # <<k, h>> => cards'[j][i] = cards[j][i]
  BY <1>3, <1>10, <1>11
<1>16. OnePlace'
  <2> SUFFICES ASSUME ~strayed', NEW j \in Keys, NEW i \in Hours
               PROVE  Placed(j, i)'
    BY DEF OnePlace
  <2>1. CASE <<j, i>> # <<k, h>>
    <3>1. Placed(j, i)
      BY <1>10 DEF Kept, OnePlace
    <3> QED BY <1>12, <1>15, <2>1, <3>1
  <2>2. CASE <<j, i>> = <<k, h>>
    <3>1. CASE cards' = cards
      <4>1. Still(k, h)'
        BY <1>14, <3>1 DEF Still
      <4> QED BY <2>2, <4>1 DEF Placed
    <3>2. CASE lastFired[k] = now /\ cards' = Bump(cards, k, now)
      <4>1. h = now
        BY <1>10, <3>2
      <4>2. cards'[k][h] = 1 /\ acted'[k][h] = 0
        BY <1>1, <1>t, <1>14, <3>2, <4>1, Bumped
      <4>3. InEffect(k, h)'
        BY <1>14, <4>2 DEF InEffect
      <4> QED BY <2>2, <4>3 DEF Placed
    <3> QED BY <1>3, <3>1, <3>2
  <2> QED BY <2>1, <2>2
<1>17. NothingReleased'
  <2> SUFFICES ASSUME ~strayed', NEW j \in Keys, retry'[j].cell # None, lastFired'[j] = None
               PROVE  Still(j, retry[j].cell)'
    BY DEF NothingReleased
  <2>1. PICK i \in Hours : i = retry'[j].cell
    BY <1>3 DEF RetryState, Cells
  <2>2. CASE lastFired'[j] = lastFired[j] /\ retry'[j] = retry[j]
    <3>1. Still(j, i)
      BY <1>10, <2>1, <2>2 DEF Kept, NothingReleased
    <3>2. Still(j, i)'
      BY <1>9, <1>12, <1>15, <3>1
    <3> QED BY <2>1, <3>2 DEF Still
  <2>3. CASE ~(lastFired'[j] = lastFired[j] /\ retry'[j] = retry[j])
    <3>1. j = k /\ i = now /\ lastFired[k] = now /\ cards' = cards
      BY <1>3, <2>1, <2>3
    <3>2. h = now
      BY <1>10, <3>1
    <3>3. Still(k, h)'
      BY <1>14, <3>1 DEF Still
    <3> QED BY <2>1, <3>1, <3>2, <3>3 DEF Still
  <2> QED BY <2>2, <2>3
<1> QED BY <1>3, <1>4, <1>5, <1>6, <1>7, <1>8, <1>13, <1>16, <1>17 DEF Kept

(* The minute passes: no tick is ahead of the clock, and none comes twice.     *)
LEMMA MinuteKeeps ==
  ASSUME Kept, MinutePasses
  PROVE  Kept'
<1>1. /\ time.hour \in Hours /\ time.minute \in 0..(Minutes - 1) /\ time.hour \in Int /\ time.minute \in Int
      /\ Minutes \in Nat \ {0} /\ MaxHour \in Nat /\ ticks \subseteq TickState /\ fired \in Tallies
  BY Typed, SchedulerAssumption DEF Kept, Hours
<1>2. UNCHANGED <<lastFired, retry, inFlight, postFiring, claims, calls, outside, fired, cards, strayed, crashes>>
  BY DEF MinutePasses
<1>3. /\ time' \in [hour: Hours, minute: 0..(Minutes - 1)]
      /\ \/ time'.hour = time.hour /\ time'.minute = time.minute + 1
         \/ time'.hour = time.hour + 1 /\ time'.minute = 0
  <2>0. time \in [hour: Hours, minute: 0..(Minutes - 1)]
    BY DEF Kept, ScheduleTypeOK
  <2>1. CASE time.minute + 1 < Minutes /\ time' = [time EXCEPT !.minute = @ + 1]
    <3>1. time.minute + 1 \in 0..(Minutes - 1)
      BY <1>1, <2>1
    <3> QED BY <2>0, <2>1, <3>1
  <2>2. CASE time.hour < MaxHour /\ time' = [hour |-> time.hour + 1, minute |-> 0]
    <3>1. time.hour + 1 \in Hours /\ 0 \in 0..(Minutes - 1)
      BY <1>1, <2>2 DEF Hours
    <3> QED BY <2>2, <3>1
  <2> QED BY <2>1, <2>2 DEF MinutePasses
<1>4. \/ ticks' = ticks
      \/ /\ ticks = {}
         /\ ticks' = {[cell |-> time'.hour, minute |-> time'.minute, todo |-> Keys, at |-> NoStep]}
  BY DEF MinutePasses, MayTick, Tick
<1> DEFINE new == [cell |-> time'.hour, minute |-> time'.minute, todo |-> Keys, at |-> NoStep]
<1>5. /\ new \in TickState /\ new.at.pc = "next" /\ new.cell = time'.hour /\ new.minute = time'.minute
      /\ time'.hour \in Int /\ time'.minute \in Int
  <2>1. time'.hour \in Hours /\ time'.minute \in 0..(Minutes - 1) /\ time'.hour \in Int /\ time'.minute \in Int
    BY <1>3, <1>1 DEF Hours
  <2>2. new \in TickState
    BY <2>1, NoStepShape DEF TickState
  <2> QED BY <2>1, <2>2, NoStepShape
<1> HIDE DEF new
<1>6. ScheduleTypeOK'
  BY <1>1, <1>2, <1>3, <1>4, <1>5 DEF Kept, ScheduleTypeOK, TickState, outside, new
<1>7. TickInTime'
  <2>1. CASE ticks' = ticks
    BY <1>1, <1>3, <1>5, <2>1 DEF Kept, TickInTime, TickState, Hours
  <2>2. CASE ticks' = {new}
    BY <1>5, <2>2 DEF TickInTime
  <2> QED BY <1>4, <2>1, <2>2 DEF new
<1>8. TickAsks'
  <2>1. CASE ticks' = ticks
    BY <1>2, <2>1 DEF Kept, TickAsks, Asks, MayFire
  <2>2. CASE ticks' = {new}
    BY <1>5, <2>2 DEF TickAsks, Asks
  <2> QED BY <1>4, <2>1, <2>2 DEF new
<1>9. time.hour <= time'.hour
  BY <1>1, <1>3
<1>10. \A x \in Hours : x <= time.hour => x <= time'.hour
  BY <1>1, <1>5, <1>9 DEF Hours
<1>11. MemoryInTime'
  <2> SUFFICES ASSUME NEW k \in Keys
               PROVE  /\ lastFired[k] # None
                           => lastFired[k] <= time'.hour /\ \A t \in ticks' : lastFired[k] <= t.cell
                      /\ retry[k].cell # None
                           => retry[k].cell <= time'.hour /\ \A t \in ticks' : retry[k].cell <= t.cell
                      /\ lastFired[k] # None /\ retry[k].cell # None => retry[k].cell <= lastFired[k]
    BY <1>2 DEF MemoryInTime
  <2>1. /\ lastFired[k] # None => lastFired[k] \in Hours
        /\ retry[k].cell # None => retry[k].cell \in Hours
    BY Typed DEF Kept, Cells, RetryState
  <2>2. /\ lastFired[k] # None => lastFired[k] <= time'.hour
        /\ retry[k].cell # None => retry[k].cell <= time'.hour
    BY <1>10, <2>1 DEF Kept, MemoryInTime
  <2> QED BY <1>4, <1>5, <2>2 DEF Kept, MemoryInTime, new
<1>12. FirstInItsMinute'
  <2>1. ASSUME NEW k \in Keys, NEW h \in Hours, fired[k][h] > 0
        PROVE  h < time'.hour \/ (h = time'.hour /\ Offset[k] <= time'.minute)
    <3>1. Offset[k] \in Int /\ h \in Int /\ 0 <= time'.minute
      BY <1>1, <1>3, SchedulerAssumption DEF Hours
    <3>2. h < time.hour \/ (h = time.hour /\ Offset[k] <= time.minute)
      BY <2>1 DEF Kept, FirstInItsMinute
    <3> QED BY <1>1, <1>3, <1>5, <3>1, <3>2
  <2>2. ASSUME NEW k \in Keys, new.minute = Offset[k]
        PROVE  fired[k][new.cell] = 0
    <3>1. fired[k][new.cell] \in Nat /\ new.cell \in Hours
      BY <1>1, <1>5 DEF Tallies, Counts, TickState
    <3>2. fired[k][new.cell] > 0 =>
            new.cell < time.hour \/ (new.cell = time.hour /\ Offset[k] <= time.minute)
      BY <3>1 DEF Kept, FirstInItsMinute
    <3> QED BY <1>1, <1>3, <1>5, <2>2, <3>1, <3>2
  <2>3. \A k \in Keys : \A t \in ticks : k \in t.todo /\ t.minute = Offset[k] => fired[k][t.cell] = 0
    BY DEF Kept, FirstInItsMinute
  <2> QED BY <1>2, <1>4, <2>1, <2>2, <2>3 DEF FirstInItsMinute, new
<1>13. PostClaimed'
  <2> SUFFICES ASSUME NEW a \in Accounts
               PROVE  /\ claims[a] # None
                           => claims[a] <= time'.hour /\ \A t \in ticks' : claims[a] <= t.cell
                      /\ \A k \in Keys : k = <<a, "post">> =>
                           \A h \in Hours : fired[k][h] > 0 => claims[a] # None /\ h <= claims[a]
    BY <1>2 DEF PostClaimed
  <2>1. claims[a] # None => claims[a] \in Hours
    BY Typed DEF Kept, Cells
  <2>2. claims[a] # None => claims[a] <= time'.hour
    BY <1>10, <2>1 DEF Kept, PostClaimed
  <2> QED BY <1>4, <1>5, <2>2 DEF Kept, PostClaimed, new
<1>14. BudgetHolds' /\ OneAtATime' /\ CallsHeld' /\ OnceAnHour'
  BY <1>2 DEF Kept, BudgetHolds, OneAtATime, CallsHeld, OnceAnHour
<1>15. NothingUnfired' /\ NothingReleased' /\ OnePlace'
  BY <1>2 DEF Kept, NothingUnfired, NothingReleased, OnePlace, Placed, Still, InCall, InTask, InReport,
              InEffect, Carried, Of, outside
<1> QED BY <1>6, <1>7, <1>8, <1>11, <1>12, <1>13, <1>14, <1>15 DEF Kept

(* A crash: memory starts again, and what is in the database or on its way to  *)
(* the automation service stays.                                               *)
LEMMA CrashKeeps ==
  ASSUME Kept, Crash
  PROVE  Kept'
<1>1. /\ ticks' = {} /\ inFlight' = {} /\ postFiring' = FALSE
      /\ lastFired' = [k \in Keys |-> None] /\ retry' = [k \in Keys |-> NoRetry]
      /\ calls' = {[c EXCEPT !.live = FALSE] : c \in {d \in calls : d.answer = "sent"}}
      /\ UNCHANGED <<time, claims, outside, fired, cards, strayed>>
      /\ crashes < MaxCrash /\ crashes' = crashes + 1
  BY DEF Crash
<1>2. NoRetry \in RetryState /\ NoRetry.cell = None
  BY SchedulerAssumption DEF NoRetry, RetryState, Cells
<1>3. calls \subseteq CallState
  BY Typed DEF Kept
<1>4. \A c \in calls' : /\ c \in CallState /\ c.answer = "sent" /\ ~c.live
                        /\ \E d \in calls : d.answer = "sent" /\ c = [d EXCEPT !.live = FALSE]
  BY <1>1, <1>3 DEF CallState
<1>5. ScheduleTypeOK'
  <2>1. crashes' \in 0..MaxCrash
    BY <1>1, SchedulerAssumption DEF Kept, ScheduleTypeOK
  <2>2. calls' \subseteq CallState /\ lastFired' \in [Keys -> Cells] /\ retry' \in [Keys -> RetryState]
    BY <1>1, <1>2, <1>4 DEF Cells
  <2> QED BY <1>1, <2>1, <2>2 DEF Kept, ScheduleTypeOK, CallState, RetryState, outside
<1>6. TickInTime' /\ TickAsks' /\ OneAtATime' /\ CallsHeld'
  BY <1>1, <1>4 DEF TickInTime, TickAsks, OneAtATime, CallsHeld
<1>7. MemoryInTime' /\ NothingReleased'
  BY <1>1, <1>2 DEF MemoryInTime, NothingReleased
<1>8. FirstInItsMinute' /\ PostClaimed' /\ OnceAnHour'
  BY <1>1 DEF Kept, FirstInItsMinute, PostClaimed, OnceAnHour
<1>9. BudgetHolds'
  BY <1>1, <1>2 DEF Kept, BudgetHolds
<1>10. \A k \in Keys : \A h \in Hours :
         Of(Carried, k, h)' = {[c EXCEPT !.live = FALSE] : c \in {d \in Of(Carried, k, h) : d.answer = "sent"}}
  <2> SUFFICES ASSUME NEW k \in Keys, NEW h \in Hours
               PROVE  Of(Carried, k, h)'
                        = {[c EXCEPT !.live = FALSE] : c \in {d \in Of(Carried, k, h) : d.answer = "sent"}}
    OBVIOUS
  <2>1. \A c \in calls : /\ [c EXCEPT !.live = FALSE].key = c.key /\ [c EXCEPT !.live = FALSE].cell = c.cell
                         /\ [c EXCEPT !.live = FALSE].answer = c.answer
    BY <1>3 DEF CallState
  <2>2. \A x : x \in Of(Carried, k, h)' <=>
              \E c \in calls : /\ x = [c EXCEPT !.live = FALSE] /\ c.answer = "sent"
                             /\ x.answer \in {"sent", "notStarted"} /\ x.key = k /\ x.cell = h
    BY <1>1 DEF Of, Carried
  <2>3. \A c \in calls : c \in Of(Carried, k, h) /\ c.answer = "sent" <=>
                           c.answer = "sent" /\ c.key = k /\ c.cell = h
    BY DEF Of, Carried
  <2>4. Of(Carried, k, h) \subseteq calls
    BY DEF Of, Carried
  <2> SUFFICES ASSUME NEW x
               PROVE  x \in Of(Carried, k, h)' <=>
                      \E c \in {d \in Of(Carried, k, h) : d.answer = "sent"} : x = [c EXCEPT !.live = FALSE]
    OBVIOUS
  <2>5. ASSUME x \in Of(Carried, k, h)'
        PROVE  \E c \in {d \in Of(Carried, k, h) : d.answer = "sent"} : x = [c EXCEPT !.live = FALSE]
    <3>1. PICK c \in calls : /\ x = [c EXCEPT !.live = FALSE] /\ c.answer = "sent" /\ x.key = k /\ x.cell = h
      BY <2>2, <2>5
    <3>2. c \in Of(Carried, k, h)
      BY <2>1, <2>3, <3>1
    <3> QED BY <3>1, <3>2
  <2>6. ASSUME NEW c \in Of(Carried, k, h), c.answer = "sent", x = [c EXCEPT !.live = FALSE]
        PROVE  x \in Of(Carried, k, h)'
    <3>1. c \in calls /\ c.key = k /\ c.cell = h
      BY <2>3, <2>4, <2>6
    <3>2. x.key = k /\ x.cell = h /\ x.answer = "sent"
      BY <2>1, <2>6, <3>1
    <3>3. \E d \in calls : /\ x = [d EXCEPT !.live = FALSE] /\ d.answer = "sent"
                           /\ x.answer \in {"sent", "notStarted"} /\ x.key = k /\ x.cell = h
      <4>1. x.answer \in {"sent", "notStarted"}
        BY <3>2
      <4> QED BY <2>6, <3>1, <3>2, <4>1
    <3> QED BY <2>2, <3>3
  <2> QED BY <2>5, <2>6
<1>11. /\ UNCHANGED <<tasks, reports, acted, cards, fired, strayed>>
       /\ \A k \in Keys : \A h \in Hours : /\ Of(tasks, k, h)' = Of(tasks, k, h)
                                           /\ Of(reports, k, h)' = Of(reports, k, h)
  BY <1>1 DEF outside, Of
<1>12. ASSUME NEW k \in Keys, NEW h \in Hours
       PROVE  (Still(k, h) => Still(k, h)') /\ (Placed(k, h) => Placed(k, h)')
  <2>1. Still(k, h) => Still(k, h)'
    BY <1>10, <1>11 DEF Still
  <2>2. InTask(k, h) => InTask(k, h)'
    BY <1>10, <1>11 DEF InTask
  <2>3. InReport(k, h) => InReport(k, h)'
    BY <1>10, <1>11 DEF InReport
  <2>4. InEffect(k, h) => InEffect(k, h)'
    BY <1>10, <1>11 DEF InEffect
  <2>5. InCall(k, h) => InCall(k, h)' \/ Still(k, h)'
    <3>1. SUFFICES ASSUME InCall(k, h)
                   PROVE  InCall(k, h)' \/ Still(k, h)'
      OBVIOUS
    <3>2. PICK c \in Of(Carried, k, h) : Of(Carried, k, h) = {c}
      BY <3>1 DEF InCall
    <3>3. CASE c.answer = "sent"
      <4>1. Of(Carried, k, h)' = {[c EXCEPT !.live = FALSE]}
        BY <1>10, <3>2, <3>3
      <4> QED BY <1>11, <3>1, <4>1 DEF InCall
    <3>4. CASE c.answer # "sent"
      <4>1. Of(Carried, k, h)' = {}
        BY <1>10, <3>2, <3>4
      <4> QED BY <1>11, <3>1, <4>1 DEF InCall, Still
    <3> QED BY <3>3, <3>4
  <2> QED BY <2>1, <2>2, <2>3, <2>4, <2>5 DEF Placed
<1>13. NothingUnfired' /\ OnePlace'
  BY <1>11, <1>12 DEF Kept, NothingUnfired, OnePlace
<1> QED BY <1>5, <1>6, <1>7, <1>8, <1>9, <1>13 DEF Kept

LEMMA KeptInit ==
  ASSUME ScheduleInit
  PROVE  Kept
<1> USE DEF ScheduleInit
<1>1. 0 \in Hours /\ 0 \in 0..(Minutes - 1) /\ MaxCrash \in Nat /\ MaxRetries \in Nat
  BY SchedulerAssumption DEF Hours
<1>2. NoRetry \in RetryState /\ NoRetry.cell = None
  BY <1>1 DEF NoRetry, RetryState, Cells
<1>3. Tick(time) = [cell |-> 0, minute |-> 0, todo |-> Keys, at |-> NoStep]
  BY DEF Tick
<1>4. Tick(time) \in TickState /\ Tick(time).at.pc = "next" /\ Tick(time).cell = 0 /\ Tick(time).minute = 0
  <2> DEFINE new == [cell |-> 0, minute |-> 0, todo |-> Keys, at |-> NoStep]
  <2>1. new \in TickState
    BY <1>1, NoStepShape DEF TickState
  <2>2. new.at.pc = "next" /\ new.cell = 0 /\ new.minute = 0
    BY NoStepShape
  <2>3. Tick(time) = new
    BY <1>3
  <2> HIDE DEF new
  <2> QED BY <2>1, <2>2, <2>3
<1>5. fired \in Tallies /\ \A k \in Keys : \A h \in Hours : fired[k][h] = 0
  BY DEF Tallies, Counts
<1>6. ScheduleTypeOK
  <2>1. time \in [hour: Hours, minute: 0..(Minutes - 1)]
    BY <1>1
  <2>2. lastFired \in [Keys -> Cells] /\ retry \in [Keys -> RetryState] /\ claims \in [Accounts -> Cells]
    BY <1>2 DEF Cells
  <2>3. drafts \in [Accounts -> DraftState]
    BY DEF DraftState, Counts
  <2>4. ticks \subseteq TickState
    BY <1>4
  <2>5. fired \in Tallies /\ acted \in Tallies /\ cards \in Tallies
    BY <1>5
  <2>6. /\ inFlight \subseteq Accounts /\ postFiring \in BOOLEAN /\ strayed \in BOOLEAN
        /\ crashes \in 0..MaxCrash
    <3>1. inFlight = {} /\ crashes = 0
      OBVIOUS
    <3>2. postFiring \in BOOLEAN /\ strayed \in BOOLEAN
      OBVIOUS
    <3> QED BY <1>1, <3>1, <3>2
  <2>7. calls \subseteq CallState /\ tasks \subseteq Task /\ reports \subseteq Task
    OBVIOUS
  <2> HIDE DEF ScheduleInit
  <2> QED BY <2>1, <2>2, <2>3, <2>4, <2>5, <2>6, <2>7
        DEF ScheduleTypeOK, TickState, CallState, RetryState, DraftState, Tallies
<1>7. TickInTime /\ TickAsks
  BY <1>4 DEF TickInTime, TickAsks, Asks
<1>8. MemoryInTime /\ FirstInItsMinute /\ PostClaimed /\ BudgetHolds /\ OnceAnHour
  BY <1>1, <1>2, <1>4, <1>5 DEF MemoryInTime, FirstInItsMinute, PostClaimed, BudgetHolds, OnceAnHour
<1>9. OneAtATime /\ CallsHeld
  BY DEF OneAtATime, CallsHeld
<1>10. \A k \in Keys : \A h \in Hours : Still(k, h)
  BY <1>5 DEF Still, Carried, Of
<1>11. NothingUnfired /\ NothingReleased /\ OnePlace
  BY <1>2, <1>10 DEF NothingUnfired, NothingReleased, OnePlace, Placed
<1> QED BY <1>6, <1>7, <1>8, <1>9, <1>11 DEF Kept

LEMMA KeptNext ==
  ASSUME Kept, [ScheduleNext]_scheduleVars
  PROVE  Kept'
<1>1. CASE UNCHANGED scheduleVars
  <2> USE <1>1 DEF scheduleVars, memory, outside
  <2>1. ScheduleTypeOK' /\ TickInTime' /\ TickAsks'
    BY DEF Kept, ScheduleTypeOK, TickInTime, TickAsks, Asks, MayFire
  <2>2. MemoryInTime' /\ FirstInItsMinute' /\ PostClaimed' /\ BudgetHolds'
    BY DEF Kept, MemoryInTime, FirstInItsMinute, PostClaimed, BudgetHolds
  <2>3. OneAtATime' /\ CallsHeld' /\ OnceAnHour'
    BY DEF Kept, OneAtATime, CallsHeld, OnceAnHour
  <2>4. NothingUnfired' /\ NothingReleased' /\ OnePlace'
    BY DEF Kept, NothingUnfired, NothingReleased, OnePlace, Placed, Still, InCall, InTask, InReport,
           InEffect, Carried, Of
  <2> QED BY <2>1, <2>2, <2>3, <2>4 DEF Kept
<1>2. CASE MinutePasses
  BY <1>2, MinuteKeeps
<1>3. CASE Crash
  BY <1>3, CrashKeeps
<1>4. CASE Automation
  BY <1>4, AnswerKeeps, TaskKeeps, DraftKeeps DEF Automation
<1>5. ASSUME NEW t \in ticks, Ticking(t)
      PROVE  Kept'
  BY <1>5, TickEndsKeeps, AskingKeeps, ClaimKeeps, FireKeeps, GateKeeps DEF Ticking
<1>6. CASE \E c \in calls : Settle(c)
  BY <1>6, SettleKeeps
<1>7. CASE \E r \in reports : ReportNotStarted(r)
  BY <1>7, ReportKeeps
<1> QED BY <1>1, <1>2, <1>3, <1>4, <1>5, <1>6, <1>7 DEF ScheduleNext

LEMMA AlwaysKept == ScheduleSpec => []Kept
<1>1. ScheduleInit => Kept
  BY KeptInit
<1>2. Kept /\ [ScheduleNext]_scheduleVars => Kept'
  BY KeptNext
<1> QED BY <1>1, <1>2, PTL DEF ScheduleSpec
-----------------------------------------------------------------------------
(* The scheduler's state keeps its shape: among it, that the attempts of an    *)
(* hour stay within their number and the hours left to retry above zero.       *)
THEOREM ScheduleTypes == ScheduleSpec => []ScheduleTypeOK
<1>1. Kept => ScheduleTypeOK
  BY DEF Kept
<1> QED BY <1>1, AlwaysKept, PTL

(* What may happen once in an hour happens once: a post is triggered once      *)
(* whatever crashes or is refused; and but for a report that is taken for one  *)
(* of another hour, one task takes effect or one card is sent.                 *)
LEMMA PlacedOnce ==
  ASSUME Kept, ~strayed, NEW k \in Keys, NEW h \in Hours
  PROVE  acted[k][h] + cards[k][h] <= 1 /\ acted[k][h] \in Nat /\ cards[k][h] \in Nat
<1>1. acted[k][h] \in Nat /\ cards[k][h] \in Nat
  BY Typed DEF Kept, Tallies, Counts
<1>2. Placed(k, h)
  BY DEF Kept, OnePlace
<1> QED BY <1>1, <1>2 DEF Placed, Still, InCall, InTask, InReport, InEffect

(* An hour's action runs once, with a bounded number of tries, one at a time.  *)
THEOREM HoursAreKept == ScheduleSpec => []HoursHold
<1>1. Kept => HoursHold
  <2> SUFFICES ASSUME Kept
               PROVE  HoursHold
    OBVIOUS
  <2>1. PostOncePerCell
    BY DEF Kept, OnceAnHour, PostOncePerCell
  <2>2. ActedOnce /\ OneCardPerCell
    BY PlacedOnce DEF ActedOnce, OneCardPerCell
  <2>3. TriggersBounded /\ OneAtATime
    BY DEF Kept, BudgetHolds, TriggersBounded
  <2> QED BY <2>1, <2>2, <2>3 DEF HoursHold, OncePerCell, BoundedTries
<1> QED BY <1>1, AlwaysKept, PTL

(* Of a task that takes effect and a card that gives an hour up, one hour of   *)
(* an action has at most one: nobody is told that an action was given up which *)
(* was carried out.                                                            *)
THEOREM ActedOrGivenUp ==
  ScheduleSpec => [](~strayed => \A k \in Keys : \A h \in Hours : acted[k][h] + cards[k][h] <= 1)
<1>1. Kept => (~strayed => \A k \in Keys : \A h \in Hours : acted[k][h] + cards[k][h] <= 1)
  BY PlacedOnce
<1> QED BY <1>1, AlwaysKept, PTL

-----------------------------------------------------------------------------
(* The filling in of personas.  Its invariant says who owns a target: what its *)
(* worker is about to do tells what state its row is in, and a row that waits  *)
(* has a run, a worker or a handshake that will see to it.                     *)

Marked == {"waiting_binding"} \cup Ended
WorkerState == {At("quiet"), At("resolve"), At("claim"), At("store"), At("refresh")} \cup {Marks(as) : as \in Marked}
RunnerState == {At("quiet"), At("list"), At("refresh")} \cup [at: {"work"}, batch: SUBSET FillEnvs]
NoticeState == {At("quiet"), At("list")} \cup [at: {"schedule"}, runs: SUBSET Runs]

FillTyped ==
  /\ fillRun \in [Runs -> RunStates \cup {Nothing}]
  /\ target \in [Runs -> [FillEnvs -> Open \cup Ended \cup {Nothing}]]
  /\ bound \in [FillEnvs -> {"binding_unknown", "binding_conflict", "bound"}]
  /\ persona \in [FillEnvs -> Runs \cup {Nothing, "person"}]
  /\ worker \in [Runs -> [FillEnvs -> WorkerState]]
  /\ runner \in [Runs -> RunnerState] /\ notice \in [FillEnvs -> NoticeState]

(* What a worker is at tells the state of its row.                             *)
WorkerFits ==
  \A r \in Runs : \A e \in FillEnvs :
    /\ worker[r][e] # At("quiet") => target[r][e] # Nothing
    /\ worker[r][e] = At("resolve") => bound[e] # "binding_unknown" \/ target[r][e] = "pending"
    /\ worker[r][e] = Marks("waiting_binding") => target[r][e] = "pending"
    /\ worker[r][e] = Marks("succeeded") => <<r, e>> \in filled
    /\ worker[r][e] = At("store") => target[r][e] = "running"
    /\ worker[r][e] = At("refresh") => target[r][e] \notin {"pending", "running"}
    /\ target[r][e] = "succeeded" => <<r, e>> \in filled

(* A run is open while a target of it is, and its batch is of its targets.     *)
RunFits ==
  \A r \in Runs :
    /\ \A e \in FillEnvs : target[r][e] \in Open => fillRun[r] = "running"
    /\ fillRun[r] = Nothing => runner[r] = At("quiet") /\ \A e \in FillEnvs : target[r][e] = Nothing
    /\ runner[r].at = "work" => \A e \in runner[r].batch : target[r][e] # Nothing

(* A handshake is told only of an environment that is bound, or in conflict.   *)
NoticeFits ==
  \A e \in FillEnvs :
    /\ notice[e] # At("quiet") => bound[e] # "binding_unknown"
    /\ notice[e].at = "schedule" => \A r \in notice[e].runs : target[r][e] # Nothing

(* While nothing fails, a row that waits or runs is seen to.                   *)
SeenTo ==
  faults = {} =>
    \A r \in Runs : \A e \in FillEnvs :
      /\ target[r][e] = "running" => worker[r][e] \notin {At("quiet"), At("resolve"), At("claim")}
      /\ target[r][e] = "pending" => runner[r] = At("list") \/ runner[r].at = "work" \/ worker[r][e] # At("quiet")

Filling == FillTyped /\ WorkerFits /\ RunFits /\ NoticeFits /\ SeenTo
-----------------------------------------------------------------------------
Rows == [FillEnvs -> Open \cup Ended \cup {Nothing}]

LEMMA Stages ==
  /\ \A s : At(s).at = s
  /\ \A as : Marks(as).at = "mark" /\ Marks(as).as = as
BY DEF At, Marks

LEMMA Apart ==
  /\ \A as : /\ Marks(as) # At("quiet") /\ Marks(as) # At("resolve") /\ Marks(as) # At("claim")
            /\ Marks(as) # At("store") /\ Marks(as) # At("refresh")
  /\ \A as, bs : Marks(as) = Marks(bs) => as = bs
  /\ \A s, u : At(s) = At(u) => s = u
BY Stages

LEMMA WorkerStages ==
  /\ At("quiet") \in WorkerState /\ At("resolve") \in WorkerState /\ At("claim") \in WorkerState
  /\ At("store") \in WorkerState /\ At("refresh") \in WorkerState
  /\ \A as \in Marked : Marks(as) \in WorkerState
  /\ \A w \in WorkerState : w.at = "mark" => w.as \in Marked /\ w = Marks(w.as)
<1>1. \A w \in WorkerState : w.at = "mark" => w.as \in Marked /\ w = Marks(w.as)
  BY Stages DEF WorkerState
<1> QED BY <1>1 DEF WorkerState

LEMMA RunnerStages ==
  /\ At("quiet") \in RunnerState /\ At("list") \in RunnerState /\ At("refresh") \in RunnerState
  /\ \A S \in SUBSET FillEnvs : [at |-> "work", batch |-> S] \in RunnerState
  /\ \A x \in RunnerState : x.at = "work" => x.batch \in SUBSET FillEnvs
  /\ \A x \in RunnerState : x = At("quiet") \/ x = At("list") \/ x = At("refresh") \/ x.at = "work"
BY Stages DEF RunnerState

LEMMA NoticeStages ==
  /\ At("quiet") \in NoticeState /\ At("list") \in NoticeState
  /\ \A S \in SUBSET Runs : [at |-> "schedule", runs |-> S] \in NoticeState
  /\ \A x \in NoticeState : x.at = "schedule" => x.runs \in SUBSET Runs
BY Stages DEF NoticeState

(* A run is open as long as a target of it is.                                 *)
LEMMA SummaryOf ==
  ASSUME NEW targets \in Rows
  PROVE  /\ Summary(targets) \in RunStates
         /\ Summary(targets) = "running" <=> \E e \in FillEnvs : targets[e] \in Open
         /\ Summary(targets) # Nothing
<1>1. CASE \E e \in FillEnvs : targets[e] \in Open
  <2>1. ~(\A e \in FillEnvs : targets[e] \notin Open \cup {"failed"})
    BY <1>1
  <2>2. Summary(targets) = "running"
    BY <1>1, <2>1 DEF Summary
  <2> QED BY <1>1, <2>2, FillAssumption DEF RunStates
<1>2. CASE ~(\E e \in FillEnvs : targets[e] \in Open)
  <2>1. CASE \A e \in FillEnvs : targets[e] \notin Open \cup {"failed"}
    <3>1. Summary(targets) = "completed"
      BY <1>2, <2>1 DEF Summary
    <3> QED BY <1>2, <3>1, FillAssumption DEF RunStates
  <2>2. CASE ~(\A e \in FillEnvs : targets[e] \notin Open \cup {"failed"})
    <3>1. Summary(targets) = "completed_with_failures"
      BY <1>2, <2>2 DEF Summary
    <3> QED BY <1>2, <3>1, FillAssumption DEF RunStates
  <2> QED BY <2>1, <2>2
<1> QED BY <1>1, <1>2

LEMMA OneWorker ==
  ASSUME worker \in [Runs -> [FillEnvs -> WorkerState]], NEW r \in Runs, NEW e \in FillEnvs,
         NEW next \in WorkerState, Works(r, e, next)
  PROVE  /\ worker' \in [Runs -> [FillEnvs -> WorkerState]] /\ worker'[r][e] = next
         /\ \A s \in Runs : \A x \in FillEnvs : <<s, x>> # <<r, e>> => worker'[s][x] = worker[s][x]
BY DEF Works

LEMMA OneRun ==
  ASSUME fillRun \in [Runs -> RunStates \cup {Nothing}], NEW r \in Runs, NEW v \in RunStates,
         fillRun' = [fillRun EXCEPT ![r] = v]
  PROVE  /\ fillRun' \in [Runs -> RunStates \cup {Nothing}] /\ fillRun'[r] = v
         /\ \A s \in Runs : s # r => fillRun'[s] = fillRun[s]
OBVIOUS

(* A step of one worker that leaves the rows alone.                            *)
LEMMA WorkerMoves ==
  ASSUME Filling, NEW r \in Runs, NEW e \in FillEnvs, NEW next \in WorkerState, Works(r, e, next),
         UNCHANGED <<fillRun, target, bound, known, runner, notice>>, persona' \in [FillEnvs -> Runs \cup {Nothing, "person"}],
         filled \subseteq filled', faults \subseteq faults',
         target[r][e] # Nothing,
         next = At("resolve") => bound[e] # "binding_unknown" \/ target[r][e] = "pending",
         next = Marks("waiting_binding") => target[r][e] = "pending",
         next = Marks("succeeded") => <<r, e>> \in filled',
         next = At("store") => target[r][e] = "running",
         next = At("refresh") => target[r][e] \notin {"pending", "running"},
         faults' = {} => /\ target[r][e] = "running" => next \notin {At("quiet"), At("resolve"), At("claim")}
                         /\ target[r][e] = "pending" => next # At("quiet")
  PROVE  Filling'
<1>1. /\ worker' \in [Runs -> [FillEnvs -> WorkerState]] /\ worker'[r][e] = next
      /\ \A s \in Runs : \A x \in FillEnvs : <<s, x>> # <<r, e>> => worker'[s][x] = worker[s][x]
  BY OneWorker DEF Filling, FillTyped
<1>2. FillTyped'
  BY <1>1 DEF Filling, FillTyped
<1>3. WorkerFits'
  <2> SUFFICES ASSUME NEW s \in Runs, NEW x \in FillEnvs
               PROVE  /\ worker'[s][x] # At("quiet") => target'[s][x] # Nothing
                      /\ worker'[s][x] = At("resolve") => bound'[x] # "binding_unknown" \/ target'[s][x] = "pending"
                      /\ worker'[s][x] = Marks("waiting_binding") => target'[s][x] = "pending"
                      /\ worker'[s][x] = Marks("succeeded") => <<s, x>> \in filled'
                      /\ worker'[s][x] = At("store") => target'[s][x] = "running"
                      /\ worker'[s][x] = At("refresh") => target'[s][x] \notin {"pending", "running"}
                      /\ target'[s][x] = "succeeded" => <<s, x>> \in filled'
    BY DEF WorkerFits
  <2>1. CASE <<s, x>> = <<r, e>>
    <3>1. target[r][e] = "succeeded" => <<r, e>> \in filled'
      BY DEF Filling, WorkerFits
    <3>2. s = r /\ x = e
      BY <2>1
    <3> QED BY <1>1, <3>1, <3>2
  <2>2. CASE <<s, x>> # <<r, e>>
    <3>1. worker'[s][x] = worker[s][x]
      BY <1>1, <2>2
    <3> QED BY <3>1 DEF Filling, WorkerFits
  <2> QED BY <2>1, <2>2
<1>4. RunFits' /\ NoticeFits'
  BY DEF Filling, RunFits, NoticeFits
<1>5. SeenTo'
  <2> SUFFICES ASSUME faults' = {}, NEW s \in Runs, NEW x \in FillEnvs
               PROVE  /\ target[s][x] = "running" => worker'[s][x] \notin {At("quiet"), At("resolve"), At("claim")}
                      /\ target[s][x] = "pending"
                           => runner[s] = At("list") \/ runner[s].at = "work" \/ worker'[s][x] # At("quiet")
    BY DEF SeenTo
  <2>1. CASE <<s, x>> = <<r, e>>
    BY <1>1, <2>1
  <2>2. CASE <<s, x>> # <<r, e>>
    <3>1. faults = {} /\ worker'[s][x] = worker[s][x]
      BY <1>1, <2>2
    <3> QED BY <3>1 DEF Filling, SeenTo
  <2> QED BY <2>1, <2>2
<1> QED BY <1>2, <1>3, <1>4, <1>5 DEF Filling

(* One that changes nothing beside the worker.                                 *)
LEMMA WorkerAlone ==
  ASSUME Filling, NEW r \in Runs, NEW e \in FillEnvs, NEW next \in WorkerState, Works(r, e, next),
         UNCHANGED <<rowVars, runner, notice>>, faults \subseteq faults',
         target[r][e] # Nothing, next # At("resolve"), next # At("store"), next # At("refresh"),
         next = Marks("waiting_binding") => target[r][e] = "pending",
         next # Marks("succeeded"),
         faults' = {} => /\ target[r][e] = "running" => next # At("quiet") /\ next # At("claim")
                         /\ target[r][e] = "pending" => next # At("quiet")
  PROVE  Filling'
<1>1. /\ persona' \in [FillEnvs -> Runs \cup {Nothing, "person"}] /\ filled \subseteq filled'
      /\ UNCHANGED <<fillRun, target, bound, known, runner, notice>>
  BY DEF Filling, FillTyped, rowVars
<1>2. faults' = {} => /\ target[r][e] = "running" => next \notin {At("quiet"), At("resolve"), At("claim")}
                      /\ target[r][e] = "pending" => next # At("quiet")
  OBVIOUS
<1> QED BY <1>1, <1>2, WorkerMoves

(* A step of one worker that writes its row.                                   *)
LEMMA TargetMoves ==
  ASSUME Filling, NEW r \in Runs, NEW e \in FillEnvs, NEW v \in Open \cup Ended, v # "pending",
         NEW next \in WorkerState, Works(r, e, next), target' = [target EXCEPT ![r][e] = v],
         UNCHANGED <<fillRun, bound, persona, known, filled, runner, notice, faults>>,
         target[r][e] # Nothing, v \in Open => target[r][e] \in Open,
         v = "succeeded" => <<r, e>> \in filled,
         IF v = "running" THEN next = At("store") ELSE next = At("refresh")
  PROVE  Filling'
<1>1. /\ worker' \in [Runs -> [FillEnvs -> WorkerState]] /\ worker'[r][e] = next
      /\ \A s \in Runs : \A x \in FillEnvs : <<s, x>> # <<r, e>> => worker'[s][x] = worker[s][x]
  BY OneWorker DEF Filling, FillTyped
<1>2. /\ target' \in [Runs -> Rows] /\ target'[r][e] = v
      /\ \A s \in Runs : \A x \in FillEnvs : <<s, x>> # <<r, e>> => target'[s][x] = target[s][x]
  <2> DEFINE row == [target[r] EXCEPT ![e] = v]
  <2>1. target \in [Runs -> Rows]
    BY DEF Filling, FillTyped, Rows
  <2>2. row \in Rows /\ row[e] = v /\ \A x \in FillEnvs : x # e => row[x] = target[r][x]
    BY <2>1 DEF Rows
  <2>3. target' = [target EXCEPT ![r] = row]
    OBVIOUS
  <2> HIDE DEF row
  <2> QED BY <2>1, <2>2, <2>3
<1>n. v # Nothing
  BY FillAssumption
<1>3. FillTyped'
  BY <1>1, <1>2 DEF Filling, FillTyped, Rows
<1>4. WorkerFits'
  <2> SUFFICES ASSUME NEW s \in Runs, NEW x \in FillEnvs
               PROVE  /\ worker'[s][x] # At("quiet") => target'[s][x] # Nothing
                      /\ worker'[s][x] = At("resolve") => bound'[x] # "binding_unknown" \/ target'[s][x] = "pending"
                      /\ worker'[s][x] = Marks("waiting_binding") => target'[s][x] = "pending"
                      /\ worker'[s][x] = Marks("succeeded") => <<s, x>> \in filled'
                      /\ worker'[s][x] = At("store") => target'[s][x] = "running"
                      /\ worker'[s][x] = At("refresh") => target'[s][x] \notin {"pending", "running"}
                      /\ target'[s][x] = "succeeded" => <<s, x>> \in filled'
    BY DEF WorkerFits
  <2>1. CASE <<s, x>> = <<r, e>>
    <3>1. s = r /\ x = e
      BY <2>1
    <3> QED BY <1>1, <1>2, <1>n, <3>1, Stages
  <2>2. CASE <<s, x>> # <<r, e>>
    <3>1. worker'[s][x] = worker[s][x] /\ target'[s][x] = target[s][x]
      BY <1>1, <1>2, <2>2
    <3> QED BY <3>1 DEF Filling, WorkerFits
  <2> QED BY <2>1, <2>2
<1>5. RunFits'
  <2> SUFFICES ASSUME NEW s \in Runs
               PROVE  /\ \A x \in FillEnvs : target'[s][x] \in Open => fillRun[s] = "running"
                      /\ fillRun[s] = Nothing => runner[s] = At("quiet") /\ \A x \in FillEnvs : target'[s][x] = Nothing
                      /\ runner[s].at = "work" => \A x \in runner[s].batch : target'[s][x] # Nothing
    BY DEF RunFits
  <2>1. CASE s = r
    <3>1. fillRun[r] # Nothing
      BY DEF Filling, RunFits
    <3>2. \A x \in FillEnvs : target'[r][x] \in Open => fillRun[r] = "running"
      BY <1>2 DEF Filling, RunFits
    <3>3. runner[r].at = "work" => runner[r].batch \subseteq FillEnvs /\ \A x \in runner[r].batch : target'[r][x] # Nothing
      BY <1>2, <1>n, RunnerStages DEF Filling, FillTyped, RunFits
    <3> QED BY <2>1, <3>1, <3>2, <3>3
  <2>2. CASE s # r
    <3>1. \A x \in FillEnvs : target'[s][x] = target[s][x]
      BY <1>2, <2>2
    <3>2. runner[s].at = "work" => runner[s].batch \subseteq FillEnvs
      BY RunnerStages DEF Filling, FillTyped
    <3> QED BY <3>1, <3>2 DEF Filling, RunFits
  <2> QED BY <2>1, <2>2
<1>6. NoticeFits'
  <2>1. \A x \in FillEnvs : notice[x].at = "schedule" => notice[x].runs \subseteq Runs
    BY NoticeStages DEF Filling, FillTyped
  <2>2. \A s \in Runs : \A x \in FillEnvs : target[s][x] # Nothing => target'[s][x] # Nothing
    BY <1>2, <1>n
  <2> QED BY <2>1, <2>2 DEF Filling, NoticeFits
<1>7. SeenTo'
  <2> SUFFICES ASSUME faults = {}, NEW s \in Runs, NEW x \in FillEnvs
               PROVE  /\ target'[s][x] = "running" => worker'[s][x] \notin {At("quiet"), At("resolve"), At("claim")}
                      /\ target'[s][x] = "pending"
                           => runner[s] = At("list") \/ runner[s].at = "work" \/ worker'[s][x] # At("quiet")
    BY DEF SeenTo
  <2>1. CASE <<s, x>> = <<r, e>>
    <3>1. s = r /\ x = e
      BY <2>1
    <3> QED BY <1>1, <1>2, <3>1, Stages
  <2>2. CASE <<s, x>> # <<r, e>>
    <3>1. worker'[s][x] = worker[s][x] /\ target'[s][x] = target[s][x]
      BY <1>1, <1>2, <2>2
    <3> QED BY <3>1 DEF Filling, SeenTo
  <2> QED BY <2>1, <2>2
<1> QED BY <1>3, <1>4, <1>5, <1>6, <1>7 DEF Filling

LEMMA ProcessTargetKeeps ==
  ASSUME Filling, NEW r \in Runs, NEW e \in FillEnvs, ProcessTarget(r, e) \/ Throws(r, e)
  PROVE  Filling'
<1>0. /\ persona \in [FillEnvs -> Runs \cup {Nothing, "person"}] /\ worker[r][e] \in WorkerState
      /\ worker[r][e] # At("quiet") => target[r][e] # Nothing
      /\ target[r][e] \in Open \cup Ended \cup {Nothing}
      /\ fillRun \in [Runs -> RunStates \cup {Nothing}]
  BY DEF Filling, FillTyped, WorkerFits
<1>1. CASE Resolve(r, e)
  <2>1. \/ Works(r, e, Marks("failed"))
        \/ bound[e] = "binding_unknown" /\ Works(r, e, Marks("waiting_binding"))
        \/ Works(r, e, Marks("skipped_existing"))
        \/ Works(r, e, At("claim"))
    BY <1>1 DEF Resolve
  <2>2. worker[r][e] = At("resolve") /\ UNCHANGED <<rowVars, runner, notice, faults>>
    BY <1>1 DEF Resolve
  <2>3. target[r][e] # Nothing /\ (faults = {} => target[r][e] # "running")
    BY <1>0, <2>2, Apart DEF Filling, SeenTo
  <2>4. bound[e] = "binding_unknown" => target[r][e] = "pending"
    BY <2>2 DEF Filling, WorkerFits
  <2>5. PICK next \in WorkerState :
          /\ Works(r, e, next)
          /\ next \in {Marks("failed"), Marks("skipped_existing"), At("claim")}
             \/ (next = Marks("waiting_binding") /\ bound[e] = "binding_unknown")
    BY <2>1, WorkerStages DEF Marked, Ended
  <2>6. /\ next # At("resolve") /\ next # At("store") /\ next # At("refresh") /\ next # At("quiet")
        /\ next # Marks("succeeded")
        /\ next = Marks("waiting_binding") => bound[e] = "binding_unknown"
    BY <2>5, Apart
  <2> QED BY <2>2, <2>3, <2>4, <2>5, <2>6, WorkerAlone
<1>2. CASE ClaimTarget(r, e)
  <2>1. worker[r][e] = At("claim") /\ UNCHANGED <<fillRun, bound, persona, known, filled, runner, notice, faults>>
    BY <1>2 DEF ClaimTarget
  <2>2. target[r][e] # Nothing /\ (faults = {} => target[r][e] # "running")
    BY <1>0, <2>1, Stages DEF Filling, SeenTo
  <2>3. CASE target[r][e] \in {"pending", "waiting_binding"}
    <3>1. target' = [target EXCEPT ![r][e] = "running"] /\ Works(r, e, At("store"))
      BY <1>2, <2>3 DEF ClaimTarget
    <3>2. "running" \in (Open \cup Ended) \ {"pending"} /\ target[r][e] \in Open /\ At("store") \in WorkerState
      BY <2>3, WorkerStages DEF Open
    <3> QED BY <2>1, <2>2, <3>1, <3>2, TargetMoves
  <2>4. CASE target[r][e] \notin {"pending", "waiting_binding"}
    <3>1. target' = target /\ Works(r, e, At("quiet"))
      BY <1>2, <2>4 DEF ClaimTarget, Quiet
    <3>2. /\ At("quiet") \in WorkerState /\ At("quiet") # At("resolve") /\ At("quiet") # At("store")
          /\ At("quiet") # At("refresh") /\ At("quiet") # At("claim")
          /\ At("quiet") # Marks("succeeded") /\ At("quiet") # Marks("waiting_binding")
      BY WorkerStages, Apart
    <3>3. UNCHANGED <<rowVars, runner, notice>>
      BY <2>1, <3>1 DEF rowVars
    <3> QED BY <2>1, <2>2, <2>4, <3>1, <3>2, <3>3, WorkerAlone
  <2> QED BY <2>3, <2>4
<1>3. CASE SetPersonaIfMissing(r, e)
  <2>1. /\ worker[r][e] = At("store") /\ Works(r, e, Marks(OutcomeOf(e)))
        /\ persona' = [persona EXCEPT ![e] = IF @ = Nothing THEN r ELSE @]
        /\ filled' = IF persona[e] = Nothing THEN filled \cup {<<r, e>>} ELSE filled
        /\ UNCHANGED <<fillRun, target, bound, known, runner, notice, faults>>
    BY <1>3 DEF SetPersonaIfMissing
  <2>2. persona' \in [FillEnvs -> Runs \cup {Nothing, "person"}]
    BY <1>0, <2>1
  <2>3. OutcomeOf(e) \in {"succeeded", "skipped_existing"} /\ (OutcomeOf(e) = "succeeded" => <<r, e>> \in filled')
    BY <2>1 DEF OutcomeOf
  <2>4. target[r][e] = "running" /\ target[r][e] # Nothing
    BY <1>0, <2>1, Apart DEF Filling, WorkerFits
  <2>5. PICK next \in WorkerState : next = Marks(OutcomeOf(e))
    BY <2>3, WorkerStages DEF Marked, Ended
  <2>6. /\ next = Marks("succeeded") => <<r, e>> \in filled'
        /\ next # Marks("waiting_binding") /\ next.at = "mark"
    BY <2>3, <2>5, Stages
  <2>7. filled \subseteq filled' /\ faults \subseteq faults' /\ Works(r, e, next)
    BY <2>1, <2>5
  <2> QED BY <2>1, <2>2, <2>4, <2>6, <2>7, WorkerMoves, Stages
<1>4. CASE PersonaRefused(r, e)
  <2>1. worker[r][e] = At("store") /\ Works(r, e, Marks("failed")) /\ UNCHANGED <<rowVars, runner, notice, faults>>
    BY <1>4 DEF PersonaRefused
  <2>2. target[r][e] # Nothing /\ Marks("failed") \in WorkerState
    BY <1>0, <2>1, Apart, WorkerStages DEF Marked, Ended
  <2>3. UNCHANGED <<rowVars, runner, notice>> /\ faults \subseteq faults'
    BY <2>1
  <2>4. /\ Marks("failed") # At("resolve") /\ Marks("failed") # At("store") /\ Marks("failed") # At("refresh")
        /\ Marks("failed") # At("quiet") /\ Marks("failed") # At("claim")
        /\ Marks("failed") # Marks("succeeded") /\ Marks("failed") # Marks("waiting_binding")
    BY Apart
  <2> QED BY <2>1, <2>2, <2>3, <2>4, WorkerAlone
<1>5. CASE MarkTarget(r, e)
  <2>1. /\ worker[r][e].at = "mark" /\ target' = [target EXCEPT ![r][e] = worker[r][e].as]
        /\ Works(r, e, At("refresh"))
        /\ UNCHANGED <<fillRun, bound, persona, known, filled, runner, notice, faults>>
    BY <1>5 DEF MarkTarget
  <2>2. PICK v \in Marked : v = worker[r][e].as /\ worker[r][e] = Marks(v)
    BY <1>0, <2>1, WorkerStages
  <2>3. target[r][e] # Nothing
    BY <1>0, <2>1, Stages
  <2>4. v = "waiting_binding" => target[r][e] = "pending"
    BY <2>2 DEF Filling, WorkerFits
  <2>5. v = "succeeded" => <<r, e>> \in filled
    BY <2>2 DEF Filling, WorkerFits
  <2>6. v \in (Open \cup Ended) \ {"pending"} /\ v # "running" /\ (v \in Open => target[r][e] \in Open)
    BY <2>4 DEF Marked, Open, Ended
  <2>7. target' = [target EXCEPT ![r][e] = v]
    BY <2>1, <2>2
  <2> QED BY <2>1, <2>3, <2>5, <2>6, <2>7, TargetMoves, WorkerStages
<1>6. CASE RefreshRunState(r, e)
  <2>1. /\ worker[r][e] = At("refresh") /\ Works(r, e, At("quiet"))
        /\ fillRun' = [fillRun EXCEPT ![r] = Summary(target[r])]
        /\ UNCHANGED <<target, bound, persona, known, filled, runner, notice, faults>>
    BY <1>6 DEF RefreshRunState, Quiet
  <2>2. target[r] \in Rows /\ target[r][e] # Nothing /\ target[r][e] \notin {"pending", "running"}
    <3>1. target[r] \in Rows
      BY DEF Filling, FillTyped, Rows
    <3>2. target[r][e] # Nothing
      BY <1>0, <2>1, Apart
    <3> QED BY <2>1, <3>1, <3>2 DEF Filling, WorkerFits
  <2>3. /\ Summary(target[r]) \in RunStates /\ Summary(target[r]) # Nothing
        /\ \A x \in FillEnvs : target[r][x] \in Open => Summary(target[r]) = "running"
    BY <2>2, SummaryOf
  <2>4. /\ fillRun' \in [Runs -> RunStates \cup {Nothing}] /\ fillRun'[r] = Summary(target[r])
        /\ \A s \in Runs : s # r => fillRun'[s] = fillRun[s]
    BY <1>0, <2>1, <2>3, OneRun
  <2>5. /\ worker' \in [Runs -> [FillEnvs -> WorkerState]] /\ worker'[r][e] = At("quiet")
        /\ \A s \in Runs : \A x \in FillEnvs : <<s, x>> # <<r, e>> => worker'[s][x] = worker[s][x]
    BY <2>1, OneWorker, WorkerStages DEF Filling, FillTyped
  <2>6. FillTyped'
    BY <2>1, <2>4, <2>5 DEF Filling, FillTyped
  <2>7. RunFits'
    BY <2>1, <2>3, <2>4 DEF Filling, RunFits
  <2>8. NoticeFits'
    BY <2>1 DEF Filling, NoticeFits
  <2>9. WorkerFits'
    <3> SUFFICES ASSUME NEW s \in Runs, NEW x \in FillEnvs
                 PROVE  /\ worker'[s][x] # At("quiet") => target[s][x] # Nothing
                        /\ worker'[s][x] = At("resolve") => bound[x] # "binding_unknown" \/ target[s][x] = "pending"
                        /\ worker'[s][x] = Marks("waiting_binding") => target[s][x] = "pending"
                        /\ worker'[s][x] = Marks("succeeded") => <<s, x>> \in filled
                        /\ worker'[s][x] = At("store") => target[s][x] = "running"
                        /\ worker'[s][x] = At("refresh") => target[s][x] \notin {"pending", "running"}
                        /\ target[s][x] = "succeeded" => <<s, x>> \in filled
      BY <2>1 DEF WorkerFits
    <3>1. CASE <<s, x>> = <<r, e>>
      <4>1. s = r /\ x = e
        BY <3>1
      <4> QED BY <2>5, <4>1, Apart DEF Filling, WorkerFits
    <3>2. CASE <<s, x>> # <<r, e>>
      <4>1. worker'[s][x] = worker[s][x]
        BY <2>5, <3>2
      <4> QED BY <4>1 DEF Filling, WorkerFits
    <3> QED BY <3>1, <3>2
  <2>10. SeenTo'
    BY <2>1, <2>2, <2>5 DEF Filling, SeenTo
  <2> QED BY <2>6, <2>7, <2>8, <2>9, <2>10 DEF Filling
<1>7. CASE Throws(r, e)
  <2>1. /\ worker[r][e] # At("quiet") /\ Works(r, e, At("quiet")) /\ faults' = faults \cup {"throw"}
        /\ UNCHANGED <<rowVars, runner, notice>>
    BY <1>7 DEF Throws, Quiet
  <2>2. /\ At("quiet") \in WorkerState /\ At("quiet") # At("resolve") /\ At("quiet") # At("store")
        /\ At("quiet") # At("refresh")
        /\ At("quiet") # Marks("succeeded") /\ At("quiet") # Marks("waiting_binding")
    BY WorkerStages, Apart
  <2>3. faults \subseteq faults' /\ faults' # {} /\ target[r][e] # Nothing
    BY <1>0, <2>1
  <2> QED BY <2>1, <2>2, <2>3, WorkerAlone
<1> QED BY <1>1, <1>2, <1>3, <1>4, <1>5, <1>6, <1>7 DEF ProcessTarget

(* The run: it lists, works off a batch, and ends on a list that was empty.    *)
LEMMA ProcessRunKeeps ==
  ASSUME Filling, NEW r \in Runs, ProcessRun(r)
  PROVE  Filling'
<1>0. /\ runner \in [Runs -> RunnerState] /\ worker \in [Runs -> [FillEnvs -> WorkerState]]
      /\ target[r] \in Rows /\ fillRun \in [Runs -> RunStates \cup {Nothing}]
  BY DEF Filling, FillTyped, Rows
<1>a. /\ At("list") # At("quiet") /\ At("refresh") # At("quiet") /\ At("refresh") # At("list")
      /\ At("list").at = "list" /\ At("refresh").at = "refresh" /\ At("quiet").at = "quiet"
  BY Stages
<1>1. ASSUME NEW x \in RunnerState, runner' = [runner EXCEPT ![r] = x], fillRun[r] # Nothing,
             x.at = "work" => \A e \in x.batch : target[r][e] # Nothing,
             UNCHANGED <<rowVars, worker, notice, faults>>,
             x = At("list") \/ x.at = "work" \/ \A e \in FillEnvs : target[r][e] # "pending"
      PROVE  Filling'
  <2>1. runner' \in [Runs -> RunnerState] /\ runner'[r] = x /\ \A s \in Runs : s # r => runner'[s] = runner[s]
    BY <1>0, <1>1
  <2>2. UNCHANGED <<fillRun, target, bound, persona, known, filled, worker, notice, faults>>
    BY <1>1 DEF rowVars
  <2>3. FillTyped'
    BY <2>1, <2>2 DEF Filling, FillTyped
  <2>4. WorkerFits' /\ NoticeFits'
    BY <2>2 DEF Filling, WorkerFits, NoticeFits
  <2>5. RunFits'
    BY <1>1, <2>1, <2>2 DEF Filling, RunFits
  <2>6. SeenTo'
    BY <1>1, <2>1, <2>2 DEF Filling, SeenTo
  <2> QED BY <2>3, <2>4, <2>5, <2>6 DEF Filling
<1>2. CASE RunnerLists(r) /\ PendingOf(r) = {}
  <2>1. runner' = [runner EXCEPT ![r] = At("refresh")] /\ UNCHANGED <<rowVars, worker, notice, faults>>
    BY <1>2 DEF RunnerLists
  <2>2. fillRun[r] # Nothing
    BY <1>2, <1>a DEF Filling, RunFits, RunnerLists
  <2>3. \A e \in FillEnvs : target[r][e] # "pending"
    BY <1>2 DEF PendingOf, Filling, RunFits, Open
  <2>4. At("refresh") \in RunnerState /\ At("refresh").at # "work"
    BY RunnerStages, <1>a
  <2> QED BY <1>1, <2>1, <2>2, <2>3, <2>4
<1>3. CASE RunnerLists(r) /\ PendingOf(r) # {}
  <2>1. PICK batch \in SUBSET PendingOf(r) :
          /\ runner' = [runner EXCEPT ![r] = [at |-> "work", batch |-> batch]]
          /\ worker' = [worker EXCEPT ![r] =
                          [e \in FillEnvs |-> IF e \in batch THEN Scheduled(worker[r][e]) ELSE worker[r][e]]]
    BY <1>3 DEF RunnerLists
  <2>2. /\ batch \in SUBSET FillEnvs /\ \A e \in batch : target[r][e] = "pending" /\ target[r][e] # Nothing
        /\ fillRun[r] # Nothing
        /\ UNCHANGED <<fillRun, target, bound, persona, known, filled, notice, faults>>
    BY <1>3, <1>a, FillAssumption DEF PendingOf, RunnerLists, rowVars, Filling, RunFits, Open
  <2>3. PICK x \in RunnerState : x = [at |-> "work", batch |-> batch] /\ x.at = "work" /\ x.batch = batch
    BY <2>2, RunnerStages
  <2>4. runner' \in [Runs -> RunnerState] /\ runner'[r] = x /\ \A s \in Runs : s # r => runner'[s] = runner[s]
    BY <1>0, <2>1, <2>3
  <2>5. \A w \in WorkerState : Scheduled(w) = IF w = At("quiet") THEN At("resolve") ELSE w
    BY DEF Scheduled, Quiet
  <2>6. /\ worker' \in [Runs -> [FillEnvs -> WorkerState]]
        /\ \A s \in Runs : \A e \in FillEnvs :
             \/ worker'[s][e] = worker[s][e]
             \/ worker[s][e] = At("quiet") /\ worker'[s][e] = At("resolve") /\ target[s][e] = "pending"
    <3> DEFINE row == [e \in FillEnvs |-> IF e \in batch THEN Scheduled(worker[r][e]) ELSE worker[r][e]]
    <3>1. \A e \in FillEnvs : worker[r][e] \in WorkerState
      BY <1>0
    <3>2. /\ row \in [FillEnvs -> WorkerState]
          /\ \A e \in FillEnvs : \/ row[e] = worker[r][e]
                                 \/ worker[r][e] = At("quiet") /\ row[e] = At("resolve") /\ target[r][e] = "pending"
      BY <2>2, <2>5, <3>1, WorkerStages
    <3>3. worker' = [worker EXCEPT ![r] = row]
      BY <2>1
    <3> HIDE DEF row
    <3> QED BY <1>0, <3>2, <3>3
  <2>7. FillTyped'
    BY <2>2, <2>4, <2>6 DEF Filling, FillTyped
  <2>8. WorkerFits'
    <3> SUFFICES ASSUME NEW s \in Runs, NEW e \in FillEnvs
                 PROVE  /\ worker'[s][e] # At("quiet") => target[s][e] # Nothing
                        /\ worker'[s][e] = At("resolve") => bound[e] # "binding_unknown" \/ target[s][e] = "pending"
                        /\ worker'[s][e] = Marks("waiting_binding") => target[s][e] = "pending"
                        /\ worker'[s][e] = Marks("succeeded") => <<s, e>> \in filled
                        /\ worker'[s][e] = At("store") => target[s][e] = "running"
                        /\ worker'[s][e] = At("refresh") => target[s][e] \notin {"pending", "running"}
                        /\ target[s][e] = "succeeded" => <<s, e>> \in filled
      BY <2>2 DEF WorkerFits
    <3>1. CASE worker'[s][e] = worker[s][e]
      BY <3>1 DEF Filling, WorkerFits
    <3>2. CASE worker'[s][e] = At("resolve") /\ target[s][e] = "pending"
      BY <3>2, Apart, FillAssumption DEF Open
    <3> QED BY <2>6, <3>1, <3>2
  <2>9. RunFits'
    BY <2>2, <2>3, <2>4 DEF Filling, RunFits
  <2>10. NoticeFits'
    BY <2>2 DEF Filling, NoticeFits
  <2>11. SeenTo'
    <3> SUFFICES ASSUME faults = {}, NEW s \in Runs, NEW e \in FillEnvs
                 PROVE  /\ target[s][e] = "running" => worker'[s][e] \notin {At("quiet"), At("resolve"), At("claim")}
                        /\ target[s][e] = "pending"
                             => runner'[s] = At("list") \/ runner'[s].at = "work" \/ worker'[s][e] # At("quiet")
      BY <2>2 DEF SeenTo
    <3>1. /\ target[s][e] = "running" => worker[s][e] \notin {At("quiet"), At("resolve"), At("claim")}
          /\ target[s][e] = "pending"
               => runner[s] = At("list") \/ runner[s].at = "work" \/ worker[s][e] # At("quiet")
      BY DEF Filling, SeenTo
    <3>2. runner'[s].at = "work" \/ runner'[s] = runner[s]
      BY <2>3, <2>4
    <3>3. CASE worker'[s][e] = worker[s][e]
      BY <3>1, <3>2, <3>3
    <3>4. CASE worker'[s][e] = At("resolve") /\ target[s][e] = "pending"
      BY <3>4, Apart
    <3> QED BY <2>6, <3>3, <3>4
  <2> QED BY <2>7, <2>8, <2>9, <2>10, <2>11 DEF Filling
<1>4. CASE RunnerWaits(r)
  <2>1. /\ runner[r].at = "work" /\ runner' = [runner EXCEPT ![r] = At("list")]
        /\ UNCHANGED <<rowVars, worker, notice, faults>>
    BY <1>4 DEF RunnerWaits, AfterBatch
  <2>2. fillRun[r] # Nothing
    BY <1>a, <2>1 DEF Filling, RunFits
  <2>3. At("list") \in RunnerState /\ At("list").at # "work"
    BY RunnerStages, <1>a
  <2> QED BY <1>1, <2>1, <2>2, <2>3
<1>5. CASE RunnerEnds(r)
  <2>1. /\ runner[r] = At("refresh") /\ runner' = [runner EXCEPT ![r] = At("quiet")]
        /\ fillRun' = [fillRun EXCEPT ![r] = Summary(target[r])]
        /\ UNCHANGED <<target, bound, persona, known, worker, notice, filled, faults>>
    BY <1>5 DEF RunnerEnds, Quiet
  <2>2. /\ Summary(target[r]) \in RunStates /\ Summary(target[r]) # Nothing
        /\ \A x \in FillEnvs : target[r][x] \in Open => Summary(target[r]) = "running"
    BY <1>0, SummaryOf
  <2>3. /\ fillRun' \in [Runs -> RunStates \cup {Nothing}] /\ fillRun'[r] = Summary(target[r])
        /\ \A s \in Runs : s # r => fillRun'[s] = fillRun[s]
    BY <1>0, <2>1, <2>2, OneRun
  <2>4. /\ runner' \in [Runs -> RunnerState] /\ runner'[r] = At("quiet")
        /\ \A s \in Runs : s # r => runner'[s] = runner[s]
    BY <1>0, <2>1, RunnerStages
  <2>5. FillTyped'
    BY <2>1, <2>3, <2>4 DEF Filling, FillTyped
  <2>6. WorkerFits' /\ NoticeFits'
    BY <2>1 DEF Filling, WorkerFits, NoticeFits
  <2>7. RunFits'
    BY <1>a, <2>1, <2>2, <2>3, <2>4 DEF Filling, RunFits
  <2>8. SeenTo'
    BY <1>a, <2>1, <2>4 DEF Filling, SeenTo
  <2> QED BY <2>5, <2>6, <2>7, <2>8 DEF Filling
<1> QED BY <1>2, <1>3, <1>4, <1>5 DEF ProcessRun

(* A request: a new run takes in the environments its customer owns, and is    *)
(* listed; one that is still open is taken up again.                           *)
LEMMA CreateRunKeeps ==
  ASSUME Filling, NEW r \in Runs, CreateRun(r)
  PROVE  Filling'
<1>0. /\ runner \in [Runs -> RunnerState] /\ worker \in [Runs -> [FillEnvs -> WorkerState]]
      /\ target \in [Runs -> Rows] /\ fillRun \in [Runs -> RunStates \cup {Nothing}]
  BY DEF Filling, FillTyped, Rows
<1>a. At("list") # At("quiet") /\ At("list").at = "list" /\ At("quiet").at = "quiet" /\ At("list") \in RunnerState
  BY Stages, RunnerStages
<1>1. /\ UNCHANGED <<bound, persona, known, worker, notice, filled, faults>>
      /\ runner' = [runner EXCEPT ![r] = IF fillRun'[r] = "running" /\ runner[r] = At("quiet")
                                         THEN At("list") ELSE runner[r]]
  BY DEF CreateRun, Quiet
<1>2. PICK x \in RunnerState : x = IF fillRun'[r] = "running" /\ runner[r] = At("quiet") THEN At("list") ELSE runner[r]
  BY <1>0, <1>a
<1>3. runner' \in [Runs -> RunnerState] /\ runner'[r] = x /\ \A s \in Runs : s # r => runner'[s] = runner[s]
  BY <1>0, <1>1, <1>2
<1>4. CASE fillRun[r] = Nothing
  <2>1. fillRun[r] # "running" /\ "pending" # Nothing /\ "running" # Nothing /\ "succeeded" # Nothing
    BY <1>4, FillAssumption DEF RunStates, Open, Ended
  <2>2. PICK owned \in SUBSET FillEnvs :
          /\ target' = [target EXCEPT ![r] = [e \in FillEnvs |-> IF e \in owned THEN "pending" ELSE Nothing]]
          /\ fillRun' = [fillRun EXCEPT ![r] = Summary([e \in FillEnvs |-> IF e \in owned THEN "pending" ELSE Nothing])]
    BY <2>1 DEF CreateRun
  <2>3. PICK rows \in Rows : /\ rows = [e \in FillEnvs |-> IF e \in owned THEN "pending" ELSE Nothing]
                             /\ \A e \in FillEnvs : rows[e] \in {"pending", Nothing}
    <3> DEFINE taken == [e \in FillEnvs |-> IF e \in owned THEN "pending" ELSE Nothing]
    <3>1. \A e \in FillEnvs : taken[e] \in {"pending", Nothing}
      OBVIOUS
    <3>2. taken \in Rows
      BY DEF Rows, Open
    <3> QED BY <3>1, <3>2
  <2>4. /\ Summary(rows) \in RunStates /\ Summary(rows) # Nothing
        /\ \A e \in FillEnvs : rows[e] \in Open => Summary(rows) = "running"
    BY SummaryOf
  <2>5. /\ fillRun' \in [Runs -> RunStates \cup {Nothing}] /\ fillRun'[r] = Summary(rows)
        /\ \A s \in Runs : s # r => fillRun'[s] = fillRun[s]
    BY <1>0, <2>2, <2>3, <2>4
  <2>6. /\ target' \in [Runs -> Rows] /\ target'[r] = rows
        /\ \A s \in Runs : s # r => target'[s] = target[s]
    BY <1>0, <2>2, <2>3
  <2>7. runner[r] = At("quiet") /\ \A e \in FillEnvs : target[r][e] = Nothing /\ worker[r][e] = At("quiet")
    BY <1>4 DEF Filling, RunFits, WorkerFits
  <2>8. FillTyped'
    BY <1>1, <1>3, <2>5, <2>6 DEF Filling, FillTyped, Rows
  <2>9. WorkerFits'
    <3> SUFFICES ASSUME NEW s \in Runs, NEW e \in FillEnvs
                 PROVE  /\ worker[s][e] # At("quiet") => target'[s][e] # Nothing
                        /\ worker[s][e] = At("resolve") => bound[e] # "binding_unknown" \/ target'[s][e] = "pending"
                        /\ worker[s][e] = Marks("waiting_binding") => target'[s][e] = "pending"
                        /\ worker[s][e] = Marks("succeeded") => <<s, e>> \in filled
                        /\ worker[s][e] = At("store") => target'[s][e] = "running"
                        /\ worker[s][e] = At("refresh") => target'[s][e] \notin {"pending", "running"}
                        /\ target'[s][e] = "succeeded" => <<s, e>> \in filled
      BY <1>1 DEF WorkerFits
    <3>1. CASE s # r
      BY <2>6, <3>1 DEF Filling, WorkerFits
    <3>2. CASE s = r
      BY <2>1, <2>3, <2>6, <2>7, <3>2, Apart
    <3> QED BY <3>1, <3>2
  <2>10. x.at # "work"
    BY <1>2, <1>a, <2>7
  <2>11. RunFits'
    BY <1>3, <2>4, <2>5, <2>6, <2>10 DEF Filling, RunFits
  <2>12. NoticeFits'
    <3>1. \A e \in FillEnvs : notice[e].at = "schedule" => notice[e].runs \subseteq Runs
      BY NoticeStages DEF Filling, FillTyped
    <3>2. \A s \in Runs : \A e \in FillEnvs : target[s][e] # Nothing => target'[s][e] # Nothing
      BY <2>6, <2>7
    <3> QED BY <1>1, <3>1, <3>2 DEF Filling, NoticeFits
  <2>13. SeenTo'
    <3> SUFFICES ASSUME faults = {}, NEW s \in Runs, NEW e \in FillEnvs
                 PROVE  /\ target'[s][e] = "running" => worker[s][e] \notin {At("quiet"), At("resolve"), At("claim")}
                        /\ target'[s][e] = "pending"
                             => runner'[s] = At("list") \/ runner'[s].at = "work" \/ worker[s][e] # At("quiet")
      BY <1>1 DEF SeenTo
    <3>1. CASE s # r
      BY <1>3, <2>6, <3>1 DEF Filling, SeenTo
    <3>2. CASE s = r
      <4>1. target'[s][e] # "running"
        BY <2>1, <2>3, <2>6, <3>2
      <4>2. target'[s][e] = "pending" => runner'[s] = At("list")
        BY <1>2, <1>3, <2>4, <2>5, <2>6, <2>7, <3>2 DEF Open
      <4> QED BY <4>1, <4>2
    <3> QED BY <3>1, <3>2
  <2> QED BY <2>8, <2>9, <2>11, <2>12, <2>13 DEF Filling
<1>5. CASE fillRun[r] # Nothing
  <2>1. UNCHANGED <<fillRun, target>> /\ fillRun[r] = "running" /\ runner[r] = At("quiet") /\ x = At("list")
    BY <1>2, <1>5 DEF CreateRun, Quiet
  <2>2. FillTyped'
    BY <1>1, <1>3, <2>1 DEF Filling, FillTyped
  <2>3. WorkerFits' /\ NoticeFits'
    BY <1>1, <2>1 DEF Filling, WorkerFits, NoticeFits
  <2>4. RunFits'
    BY <1>3, <1>5, <1>a, <2>1 DEF Filling, RunFits
  <2>5. SeenTo'
    BY <1>1, <1>3, <2>1 DEF Filling, SeenTo
  <2> QED BY <2>2, <2>3, <2>4, <2>5 DEF Filling
<1> QED BY <1>4, <1>5

-----------------------------------------------------------------------------
(* Handshakes.                                                                 *)

(* An environment once bound or in conflict stays so, and nothing else moves.  *)
LEMMA HandshakeKeeps ==
  ASSUME Filling, NEW e \in FillEnvs, Handshake(e)
  PROVE  Filling'
<1>0. /\ bound \in [FillEnvs -> {"binding_unknown", "binding_conflict", "bound"}]
      /\ notice \in [FillEnvs -> NoticeState] /\ At("list") \in NoticeState
  BY NoticeStages DEF Filling, FillTyped
<1>1. /\ bound' = [bound EXCEPT ![e] = IF bound[e] = "binding_unknown" THEN "bound" ELSE bound[e]]
      /\ notice' = [notice EXCEPT ![e] = At("list")]
      /\ UNCHANGED <<fillRun, target, persona, known, filled, runner, worker, faults>>
  BY DEF Handshake
<1>2. /\ bound' \in [FillEnvs -> {"binding_unknown", "binding_conflict", "bound"}]
      /\ bound'[e] # "binding_unknown"
      /\ \A d \in FillEnvs : d # e => bound'[d] = bound[d]
  BY <1>0, <1>1
<1>3. /\ notice' \in [FillEnvs -> NoticeState] /\ notice'[e].at = "list"
      /\ \A d \in FillEnvs : d # e => notice'[d] = notice[d]
  BY <1>0, <1>1, Stages
<1>4. FillTyped'
  BY <1>1, <1>2, <1>3 DEF Filling, FillTyped
<1>5. WorkerFits'
  <2>1. \A d \in FillEnvs : bound[d] # "binding_unknown" => bound'[d] # "binding_unknown"
    BY <1>2
  <2> QED BY <1>1, <2>1 DEF Filling, WorkerFits
<1>6. RunFits' /\ SeenTo'
  BY <1>1 DEF Filling, RunFits, SeenTo
<1>7. NoticeFits'
  BY <1>1, <1>2, <1>3 DEF Filling, NoticeFits
<1> QED BY <1>4, <1>5, <1>6, <1>7 DEF Filling

LEMMA ListWaitingKeeps ==
  ASSUME Filling, NEW e \in FillEnvs, ListWaitingForEnvironment(e)
  PROVE  Filling'
<1>1. PICK told \in SUBSET Runs :
        /\ notice' = [notice EXCEPT ![e] = [at |-> "schedule", runs |-> told]]
        /\ \A r \in told : target[r][e] \in {"waiting_binding", "pending"}
  <2> DEFINE waiting == {r \in Runs : fillRun[r] = "running" /\ target[r][e] \in {"waiting_binding", "pending"}}
  <2>1. notice' = [notice EXCEPT ![e] = [at |-> "schedule", runs |-> waiting]]
    BY DEF ListWaitingForEnvironment
  <2>2. waiting \in SUBSET Runs /\ \A r \in waiting : target[r][e] \in {"waiting_binding", "pending"}
    OBVIOUS
  <2> HIDE DEF waiting
  <2> QED BY <2>1, <2>2
<1>2. PICK x \in NoticeState : x = [at |-> "schedule", runs |-> told] /\ x.runs = told
  BY NoticeStages
<1>3. UNCHANGED <<fillRun, target, bound, persona, known, filled, runner, worker, faults>>
  BY DEF ListWaitingForEnvironment, rowVars
<1>4. notice' \in [FillEnvs -> NoticeState] /\ notice'[e] = x /\ \A d \in FillEnvs : d # e => notice'[d] = notice[d]
  BY <1>1, <1>2 DEF Filling, FillTyped
<1>5. FillTyped'
  BY <1>3, <1>4 DEF Filling, FillTyped
<1>6. WorkerFits' /\ RunFits' /\ SeenTo'
  BY <1>3 DEF Filling, WorkerFits, RunFits, SeenTo
<1>7. NoticeFits'
  <2>1. bound[e] # "binding_unknown"
    BY Apart DEF Filling, NoticeFits, ListWaitingForEnvironment
  <2>2. \A r \in told : target[r][e] # Nothing
    BY <1>1, FillAssumption DEF Open
  <2> QED BY <1>2, <1>3, <1>4, <2>1, <2>2 DEF Filling, NoticeFits
<1> QED BY <1>5, <1>6, <1>7 DEF Filling

(* A handshake sets workers to rows that waited, of an environment that is     *)
(* bound by then.                                                              *)
LEMMA NotifyKeeps ==
  ASSUME Filling, NEW e \in FillEnvs, NotifyEnvironmentBound(e)
  PROVE  Filling'
<1>0. /\ worker \in [Runs -> [FillEnvs -> WorkerState]] /\ notice \in [FillEnvs -> NoticeState]
      /\ At("quiet") \in NoticeState
  BY NoticeStages DEF Filling, FillTyped
<1>1. /\ notice[e].at = "schedule" /\ notice' = [notice EXCEPT ![e] = At("quiet")]
      /\ worker' = [r \in Runs |->
           IF r \in notice[e].runs THEN [worker[r] EXCEPT ![e] = Scheduled(worker[r][e])] ELSE worker[r]]
      /\ UNCHANGED <<fillRun, target, bound, persona, known, filled, runner, faults>>
  BY DEF NotifyEnvironmentBound, Quiet, rowVars
<1>2. /\ bound[e] # "binding_unknown" /\ notice[e].runs \subseteq Runs
      /\ \A r \in notice[e].runs : target[r][e] # Nothing
  <2>1. notice[e].runs \subseteq Runs
    BY <1>0, <1>1, NoticeStages
  <2>2. notice[e] # At("quiet")
    BY <1>1, Stages
  <2> QED BY <1>1, <2>1, <2>2 DEF Filling, NoticeFits
<1>3. \A w \in WorkerState : /\ Scheduled(w) \in WorkerState
                             /\ Scheduled(w) = w \/ (w = At("quiet") /\ Scheduled(w) = At("resolve"))
  BY WorkerStages DEF Scheduled, Quiet
<1>4. /\ worker' \in [Runs -> [FillEnvs -> WorkerState]]
      /\ \A r \in Runs : \A d \in FillEnvs :
           \/ worker'[r][d] = worker[r][d]
           \/ /\ d = e /\ r \in notice[e].runs
              /\ worker[r][d] = At("quiet") /\ worker'[r][d] = At("resolve")
  <2> SUFFICES ASSUME NEW r \in Runs
               PROVE  /\ worker'[r] \in [FillEnvs -> WorkerState]
                      /\ \A d \in FillEnvs :
                           \/ worker'[r][d] = worker[r][d]
                           \/ /\ d = e /\ r \in notice[e].runs
                              /\ worker[r][d] = At("quiet") /\ worker'[r][d] = At("resolve")
    BY <1>1
  <2>1. worker[r] \in [FillEnvs -> WorkerState] /\ worker[r][e] \in WorkerState
    BY <1>0
  <2>2. CASE r \in notice[e].runs
    <3>1. worker'[r] = [worker[r] EXCEPT ![e] = Scheduled(worker[r][e])]
      BY <1>1, <2>2
    <3>2. PICK w \in WorkerState :
            /\ w = Scheduled(worker[r][e])
            /\ w = worker[r][e] \/ (worker[r][e] = At("quiet") /\ w = At("resolve"))
      BY <1>3, <2>1
    <3>3. worker'[r] = [worker[r] EXCEPT ![e] = w]
      BY <3>1, <3>2
    <3> QED BY <2>1, <2>2, <3>2, <3>3
  <2>3. CASE r \notin notice[e].runs
    <3>1. worker'[r] = worker[r]
      BY <1>1, <2>3
    <3> QED BY <2>1, <3>1
  <2> QED BY <2>2, <2>3
<1>5. notice' \in [FillEnvs -> NoticeState] /\ notice'[e] = At("quiet") /\ \A d \in FillEnvs : d # e => notice'[d] = notice[d]
  BY <1>0, <1>1
<1>6. FillTyped'
  BY <1>1, <1>4, <1>5 DEF Filling, FillTyped
<1>7. WorkerFits'
  <2> SUFFICES ASSUME NEW r \in Runs, NEW d \in FillEnvs
               PROVE  /\ worker'[r][d] # At("quiet") => target[r][d] # Nothing
                      /\ worker'[r][d] = At("resolve") => bound[d] # "binding_unknown" \/ target[r][d] = "pending"
                      /\ worker'[r][d] = Marks("waiting_binding") => target[r][d] = "pending"
                      /\ worker'[r][d] = Marks("succeeded") => <<r, d>> \in filled
                      /\ worker'[r][d] = At("store") => target[r][d] = "running"
                      /\ worker'[r][d] = At("refresh") => target[r][d] \notin {"pending", "running"}
                      /\ target[r][d] = "succeeded" => <<r, d>> \in filled
    BY <1>1 DEF WorkerFits
  <2>1. CASE worker'[r][d] = worker[r][d]
    BY <2>1 DEF Filling, WorkerFits
  <2>2. CASE d = e /\ r \in notice[e].runs /\ worker'[r][d] = At("resolve")
    <3>1. target[r][d] = "succeeded" => <<r, d>> \in filled
      BY DEF Filling, WorkerFits
    <3> QED BY <1>2, <2>2, <3>1, Apart
  <2> QED BY <1>4, <2>1, <2>2
<1>8. RunFits'
  BY <1>1 DEF Filling, RunFits
<1>9. NoticeFits'
  BY <1>1, <1>5, Stages DEF Filling, NoticeFits
<1>10. SeenTo'
  <2> SUFFICES ASSUME faults = {}, NEW r \in Runs, NEW d \in FillEnvs
               PROVE  /\ target[r][d] = "running" => worker'[r][d] \notin {At("quiet"), At("resolve"), At("claim")}
                      /\ target[r][d] = "pending"
                           => runner[r] = At("list") \/ runner[r].at = "work" \/ worker'[r][d] # At("quiet")
    BY <1>1 DEF SeenTo
  <2>1. /\ target[r][d] = "running" => worker[r][d] \notin {At("quiet"), At("resolve"), At("claim")}
        /\ target[r][d] = "pending"
             => runner[r] = At("list") \/ runner[r].at = "work" \/ worker[r][d] # At("quiet")
    BY DEF Filling, SeenTo
  <2>2. CASE worker'[r][d] = worker[r][d]
    BY <2>1, <2>2
  <2>3. CASE worker[r][d] = At("quiet") /\ worker'[r][d] = At("resolve")
    BY <2>1, <2>3, Apart
  <2> QED BY <1>4, <2>2, <2>3
<1> QED BY <1>6, <1>7, <1>8, <1>9, <1>10 DEF Filling

(* People and the copy of what they wrote move nothing else.                   *)
LEMMA PeopleKeep ==
  ASSUME Filling, NEW e \in FillEnvs, PersonWrites(e) \/ PersonClears(e) \/ CopyFollows(e)
  PROVE  Filling'
<1>1. /\ UNCHANGED <<fillRun, target, bound, filled, runner, worker, notice, faults>>
      /\ persona' \in [FillEnvs -> Runs \cup {Nothing, "person"}]
  BY DEF PersonWrites, PersonClears, CopyFollows, Filling, FillTyped
<1>2. FillTyped'
  BY <1>1 DEF Filling, FillTyped
<1>3. WorkerFits' /\ RunFits' /\ NoticeFits' /\ SeenTo'
  BY <1>1 DEF Filling, WorkerFits, RunFits, NoticeFits, SeenTo
<1> QED BY <1>2, <1>3 DEF Filling

(* A restart leaves the rows and forgets who worked on them.                   *)
LEMMA RestartKeeps ==
  ASSUME Filling, RestartFill
  PROVE  Filling'
<1>1. /\ UNCHANGED <<fillRun, target, bound, persona, filled>> /\ faults' # {}
      /\ runner' = [r \in Runs |-> At("quiet")] /\ worker' = [r \in Runs |-> [e \in FillEnvs |-> At("quiet")]]
      /\ notice' = [e \in FillEnvs |-> At("quiet")]
  BY DEF RestartFill, Quiet
<1>2. /\ runner' \in [Runs -> RunnerState] /\ worker' \in [Runs -> [FillEnvs -> WorkerState]]
      /\ notice' \in [FillEnvs -> NoticeState]
  BY <1>1, RunnerStages, WorkerStages, NoticeStages
<1>3. FillTyped'
  BY <1>1, <1>2 DEF Filling, FillTyped
<1>4. WorkerFits'
  <2> SUFFICES ASSUME NEW r \in Runs, NEW e \in FillEnvs
               PROVE  worker'[r][e] = At("quiet") /\ (target[r][e] = "succeeded" => <<r, e>> \in filled)
    BY <1>1, Apart DEF WorkerFits
  <2> QED BY <1>1 DEF Filling, WorkerFits
<1>5. RunFits' /\ NoticeFits' /\ SeenTo'
  BY <1>1, Stages DEF Filling, RunFits, NoticeFits, SeenTo
<1> QED BY <1>3, <1>4, <1>5 DEF Filling

-----------------------------------------------------------------------------
LEMMA FillingInit == FillInit => Filling
<1> SUFFICES ASSUME FillInit PROVE Filling
  OBVIOUS
<1>1. /\ fillRun = [r \in Runs |-> Nothing] /\ target = [r \in Runs |-> [e \in FillEnvs |-> Nothing]]
      /\ bound \in [FillEnvs -> {"binding_unknown", "binding_conflict", "bound"}]
      /\ persona = [e \in FillEnvs |-> Nothing] /\ runner = [r \in Runs |-> At("quiet")]
      /\ worker = [r \in Runs |-> [e \in FillEnvs |-> At("quiet")]]
      /\ notice = [e \in FillEnvs |-> At("quiet")]
  BY DEF FillInit, Quiet
<1>2. /\ runner \in [Runs -> RunnerState] /\ worker \in [Runs -> [FillEnvs -> WorkerState]]
      /\ notice \in [FillEnvs -> NoticeState]
  BY <1>1, RunnerStages, WorkerStages, NoticeStages
<1>3. FillTyped
  <2>1. fillRun \in [Runs -> RunStates \cup {Nothing}]
    BY <1>1
  <2>2. target \in [Runs -> [FillEnvs -> Open \cup Ended \cup {Nothing}]]
    BY <1>1
  <2>3. persona \in [FillEnvs -> Runs \cup {Nothing, "person"}]
    BY <1>1
  <2> QED BY <1>1, <1>2, <2>1, <2>2, <2>3 DEF FillTyped
<1>4. \A r \in Runs :
        /\ fillRun[r] = Nothing /\ runner[r] = At("quiet")
        /\ \A e \in FillEnvs : target[r][e] = Nothing /\ worker[r][e] = At("quiet")
  BY <1>1
<1>5. Nothing \notin Open /\ Nothing # "succeeded" /\ Nothing # "pending" /\ Nothing # "running"
  BY FillAssumption DEF Open, Ended
<1>6. WorkerFits /\ RunFits /\ SeenTo
  <2>1. WorkerFits
    BY <1>4, <1>5, Apart DEF WorkerFits
  <2>2. RunFits
    BY <1>4, <1>5, Stages DEF RunFits
  <2>3. SeenTo
    BY <1>4, <1>5 DEF SeenTo
  <2> QED BY <2>1, <2>2, <2>3
<1>7. NoticeFits
  BY <1>1, Stages DEF NoticeFits
<1> QED BY <1>3, <1>6, <1>7 DEF Filling

LEMMA FillingNext == Filling /\ [FillNext]_fillVars => Filling'
<1> SUFFICES ASSUME Filling, [FillNext]_fillVars PROVE Filling'
  OBVIOUS
<1>1. CASE \E r \in Runs : CreateRun(r) \/ ProcessRun(r)
  BY <1>1, CreateRunKeeps, ProcessRunKeeps
<1>2. CASE \E r \in Runs : \E e \in FillEnvs : ProcessTarget(r, e) \/ Throws(r, e)
  BY <1>2, ProcessTargetKeeps
<1>3. CASE \E e \in FillEnvs : Handshake(e) \/ ListWaitingForEnvironment(e) \/ NotifyEnvironmentBound(e)
  BY <1>3, HandshakeKeeps, ListWaitingKeeps, NotifyKeeps
<1>4. CASE \E e \in FillEnvs : PersonWrites(e) \/ PersonClears(e) \/ CopyFollows(e)
  BY <1>4, PeopleKeep
<1>5. CASE RestartFill
  BY <1>5, RestartKeeps
<1>6. CASE UNCHANGED fillVars
  <2>1. UNCHANGED <<fillRun, target, bound, persona, filled, runner, worker, notice, faults>>
    BY <1>6 DEF fillVars, rowVars
  <2>2. FillTyped'
    BY <2>1 DEF Filling, FillTyped
  <2>3. WorkerFits' /\ RunFits' /\ NoticeFits' /\ SeenTo'
    BY <2>1 DEF Filling, WorkerFits, RunFits, NoticeFits, SeenTo
  <2> QED BY <2>2, <2>3 DEF Filling
<1> QED BY <1>1, <1>2, <1>3, <1>4, <1>5, <1>6 DEF FillNext

LEMMA FillingAlways == FillSpec => []Filling
BY FillingInit, FillingNext, PTL DEF FillSpec

-----------------------------------------------------------------------------
(* Runs, targets and the work on them keep their shape, for any number of      *)
(* runs, environments and batch size (persona-auto-fill.ts).                   *)
THEOREM FillTypes == FillSpec => []FillTypeOK
<1>1. Filling => FillTypeOK
  BY DEF Filling, FillTyped, WorkerFits, RunFits, FillTypeOK, Quiet
<1> QED BY <1>1, FillingAlways, PTL

(* Who is told that the persona was filled in had it written by its run        *)
(* (setPersonaIfMissing), and a process that lives leaves no target behind:    *)
(* one that waits for a worker has one, a runner that will list it, or a       *)
(* binding to wait for.                                                        *)
THEOREM FillsAreKept == FillSpec => []FillsHold
<1>1. Filling => FillsHold
  <2> SUFFICES ASSUME Filling PROVE FillsHold
    OBVIOUS
  <2>1. SucceededWroteIt
    BY DEF Filling, WorkerFits, SucceededWroteIt
  <2>2. NothingLeftBehind
    BY Apart, Stages DEF Filling, SeenTo, NothingLeftBehind, Quiet
  <2> QED BY <2>1, <2>2 DEF FillsHold
<1> QED BY <1>1, FillingAlways, PTL

(* The scheduler and the filling in side by side: the state of both keeps its  *)
(* shape.                                                                      *)
THEOREM PartTypes == FirstWritersSpec => []PartTypesOK
<1>1. ScheduleTypeOK /\ FillTypeOK => PartTypesOK
  BY DEF PartTypesOK
<1> QED BY <1>1, ScheduleTypes, FillTypes, PTL DEF FirstWritersSpec
=============================================================================
