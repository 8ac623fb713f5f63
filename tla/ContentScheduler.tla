---------------------------- MODULE ContentScheduler ----------------------------
(* The scheduler of automatic posts and comments.  A timer fires every minute; *)
(* a tick goes through the accounts that are online and asks, one await after  *)
(* another, whether one of their actions is due: in its own minute of the hour *)
(* or, after an attempt that could not start, in any later minute.  What it    *)
(* fires is not awaited: the answer of the automation service comes later, and *)
(* a comment found later not to have started is reported back.  Every question *)
(* a tick asks may be answered "no" or fail: that is GiveUp.                    *)
(*                                                                             *)
(* Memory (ticks to retry) is lost in a crash; the claim of a post's hour and  *)
(* the drafts are in the database.                                             *)
EXTENDS Integers, Sequences, FiniteSets

CONSTANTS
  Accounts,
  Keys,         \* <<account, action>>: the actions that are switched on
  Offset,       \* the minute of an account's action
  None,
  Minutes,      \* minutes of an hour
  MaxHour,      \* bound: hours of the day
  MaxRetries,   \* MAX_RETRIES_PER_CELL
  Cap,          \* postDailyCap
  MaxCrash      \* bound: crashes

Order == <<"post", "join", "comment", "contact_comment">>
Hours == 0..MaxHour

ASSUME SchedulerAssumption ==
  /\ Keys \subseteq Accounts \X {Order[i] : i \in 1..4}
  /\ Minutes \in Nat \ {0} /\ MaxHour \in Nat /\ MaxRetries \in Nat /\ Cap \in Nat /\ MaxCrash \in Nat
  /\ Offset \in [Keys -> 0..(Minutes - 1)]
  /\ None \notin Hours

VARIABLES
  time,         \* [hour, minute]
  ticks,        \* ticks under way (tickRunning: at most one)
  lastFired, retry, inFlight, postFiring,
  claims,       \* content_schedule_hour_claims: the hour an account last posted in
  calls,        \* triggers that are not yet answered, or the answer not yet handled
  tasks,        \* what runs at the automation service (external)
  reports,      \* reports on their way that a comment could not start (external)
  drafts,       \* publish_log: today's drafts of an account by status
  fired, acted, cards,  \* history: triggers, tasks that did something, give-up cards of an hour
  strayed,      \* history: a report has been taken for one of another hour
  crashes

memory == <<ticks, lastFired, retry, inFlight, postFiring>>
outside == <<tasks, reports, drafts, acted>>
scheduleVars == <<time, memory, claims, calls, outside, fired, cards, strayed, crashes>>

Rank(x) == CHOOSE i \in 1..4 : Order[i] = x
NoRetry == [cell |-> None, left |-> 0]
NoStep == [pc |-> "next", key |-> None, posted |-> None, pending |-> None]
Bump(f, k, h) == [f EXCEPT ![k][h] = @ + 1]
-----------------------------------------------------------------------------
(* The timer fires.  onTick is skipped while another one runs; the hour and    *)
(* the minute are read once, before the first await.                           *)
MayTickAlways == TRUE                                    \* faulty variant: no tickRunning
MayTick == ticks = {}
Tick(now) == [cell |-> now.hour, minute |-> now.minute, todo |-> Keys, at |-> NoStep]

MinutePasses ==
  /\ \/ time.minute + 1 < Minutes /\ time' = [time EXCEPT !.minute = @ + 1]
     \/ /\ time.minute + 1 = Minutes /\ time.hour < MaxHour
        /\ time' = [hour |-> time.hour + 1, minute |-> 0]
  /\ ticks' = IF MayTick THEN ticks \cup {Tick(time')} ELSE ticks
  /\ UNCHANGED <<lastFired, retry, inFlight, postFiring, claims, calls, outside, fired, cards, strayed,
                 crashes>>

TickEnds(t) ==
  /\ t.at = NoStep
  /\ ticks' = ticks \ {t}
  /\ UNCHANGED <<time, lastFired, retry, inFlight, postFiring, claims, calls, outside, fired,
                 cards, strayed, crashes>>

(* One account at a time, its actions in order.                                *)
Begun(t, a) == \E k \in Keys \ t.todo : k[1] = a
Remaining(t, k) ==
  {j \in t.todo : IF j[1] = k[1] THEN Rank(j[2]) > Rank(k[2]) ELSE ~Begun(t, j[1])}

ShouldFireNow(t, k) == t.minute = Offset[k] \/ retry[k].cell = t.cell

TakenNever(t, k) == FALSE                                \* faulty variant: no idempotence
Taken(t, k) == lastFired[k] = t.cell

Advance(t, u) == ticks' = (ticks \ {t}) \cup {u}
TickOnly == UNCHANGED <<time, lastFired, retry, inFlight, postFiring, calls, outside, fired, cards,
                        strayed, crashes>>

Gate(t, k) ==
  /\ t.at = NoStep /\ k \in t.todo
  /\ k[1] \notin inFlight
  /\ ShouldFireNow(t, k) /\ ~Taken(t, k)
  /\ k[2] = "post" => ~postFiring
  /\ Advance(t, [t EXCEPT !.todo = Remaining(t, k), !.at = [NoStep EXCEPT !.pc = "ask", !.key = k]])
  /\ TickOnly /\ UNCHANGED claims

(* A question answered "no" (continue or break), or an exception.              *)
GiveUp(t) ==
  /\ t.at.pc \in {"ask", "count", "ready"}
  /\ Advance(t, [t EXCEPT !.at = NoStep])
  /\ TickOnly /\ UNCHANGED claims

(* isPublishBusy for posts; isCommentBusy and isJoinBusy for the others, which *)
(* share the account's browser.                                                *)
Busy(k) == \E r \in tasks : r.key[1] = k[1] /\ (r.key[2] = "post" <=> k[2] = "post")

AskIdle(t) ==
  /\ t.at.pc = "ask" /\ ~Busy(t.at.key)
  /\ Advance(t, [t EXCEPT !.at.pc = IF t.at.key[2] = "post" THEN "count" ELSE "ready"])
  /\ TickOnly /\ UNCHANGED claims

(* Two queries side by side, on two connections.                               *)
CountPosted(t) ==
  /\ t.at.pc = "count" /\ t.at.posted = None
  /\ Advance(t, [t EXCEPT !.at.posted = drafts[t.at.key[1]].posted])
  /\ TickOnly /\ UNCHANGED claims

CountPending(t) ==
  /\ t.at.pc = "count" /\ t.at.pending = None
  /\ Advance(t, [t EXCEPT !.at.pending = drafts[t.at.key[1]].pending])
  /\ TickOnly /\ UNCHANGED claims

(* claimAutoPostHourCell: one statement.                                       *)
ClaimableAlways(a, cell) == TRUE                         \* faulty variant: WHERE left out
Claimable(a, cell) == claims[a] # cell

ClaimPostHourCell(t) ==
  LET a == t.at.key[1] IN
  /\ t.at.pc = "count" /\ t.at.posted # None /\ t.at.pending # None
  /\ t.at.posted + t.at.pending < Cap
  /\ IF Claimable(a, t.cell)
     THEN /\ claims' = [claims EXCEPT ![a] = t.cell]
          /\ Advance(t, [t EXCEPT !.at = [NoStep EXCEPT !.pc = "claimed", !.key = t.at.key]])
     ELSE Advance(t, [t EXCEPT !.at = NoStep]) /\ UNCHANGED claims
  /\ TickOnly

(* fire: the hour is taken before the trigger is known to have been accepted.  *)
Fire(t) ==
  LET k == t.at.key IN
  /\ t.at.pc \in {"claimed", "ready"}
  /\ lastFired' = [lastFired EXCEPT ![k] = t.cell]
  /\ inFlight' = inFlight \cup {k[1]}
  /\ postFiring' = (postFiring \/ k[2] = "post")
  /\ fired' = Bump(fired, k, t.cell)
  /\ calls' = calls \cup {[key |-> k, cell |-> t.cell, n |-> fired'[k][t.cell], answer |-> "sent", live |-> TRUE]}
  /\ Advance(t, [t EXCEPT !.todo = {j \in Remaining(t, k) : j[1] # k[1]}, !.at = NoStep])
  /\ UNCHANGED <<time, retry, claims, outside, cards, strayed, crashes>>
-----------------------------------------------------------------------------
(* releaseHourCell: gives the hour back while it is the one taken last, a      *)
(* bounded number of times.                                                    *)
Left(k, cell) == IF retry[k].cell = cell THEN retry[k].left ELSE MaxRetries
SpentNever(k, cell) == FALSE                             \* faulty variant: no bound
Spent(k, cell) == Left(k, cell) = 0

ReleaseHourCell(k, cell) ==
  IF lastFired[k] # cell THEN UNCHANGED <<lastFired, retry, cards>>
  ELSE IF Spent(k, cell)
  THEN cards' = Bump(cards, k, cell) /\ UNCHANGED <<lastFired, retry>>
  ELSE /\ retry' = [retry EXCEPT ![k] = [cell |-> cell, left |-> Left(k, cell) - 1]]
       /\ lastFired' = [lastFired EXCEPT ![k] = None]
       /\ UNCHANGED cards

(* The answer to a trigger.  One that is accepted, or refused for good, has    *)
(* used the hour up; so has one that failed: it may have run.                  *)
RetryDropped(c) == NoRetry                               \* faulty variant: the budget starts again
RetryAfter(c) == IF retry[c.key].cell = c.cell THEN retry[c.key] ELSE NoRetry
ReturnsAfterFailure(c) == c.answer \in {"notStarted", "failed"}       \* faulty variant
Returns(c) == c.answer = "notStarted"

Settle(c) ==
  /\ c.answer # "sent"
  /\ calls' = calls \ {c}
  /\ inFlight' = inFlight \ {c.key[1]}
  /\ postFiring' = (postFiring /\ c.key[2] # "post")
  /\ IF Returns(c) THEN ReleaseHourCell(c.key, c.cell)
     ELSE /\ retry' = IF c.answer = "accepted" THEN [retry EXCEPT ![c.key] = RetryAfter(c)] ELSE retry
          /\ UNCHANGED <<lastFired, cards>>
  /\ UNCHANGED <<time, ticks, claims, outside, fired, strayed, crashes>>

(* reportNotStarted: for the hour it is now.                                   *)
ReportNotStarted(r) ==
  /\ reports' = reports \ {r}
  /\ ReleaseHourCell(r.key, time.hour)
  /\ strayed' = (strayed \/ (r.cell # time.hour /\ lastFired[r.key] = time.hour))
  /\ UNCHANGED <<time, ticks, inFlight, postFiring, claims, calls, tasks, drafts, acted, fired, crashes>>

(* The process dies: what is still on its way to the automation service        *)
(* arrives, and is answered to nobody.  The timer fires a minute later.        *)
Crash ==
  /\ crashes < MaxCrash /\ crashes' = crashes + 1
  /\ ticks' = {} /\ inFlight' = {} /\ postFiring' = FALSE
  /\ lastFired' = [k \in Keys |-> None] /\ retry' = [k \in Keys |-> NoRetry]
  /\ calls' = {[c EXCEPT !.live = FALSE] : c \in {d \in calls : d.answer = "sent"}}
  /\ UNCHANGED <<time, claims, outside, fired, cards, strayed>>
-----------------------------------------------------------------------------
(* The automation service (external): it answers a trigger, with a task begun  *)
(* or not; a failure says nothing about that.  A task does something (a post's *)
(* leaves a draft) or, a comment's, reports that it could not start.           *)
Answer(c, answer, begins) ==
  /\ c.answer = "sent"
  /\ answer = "notStarted" => ~begins
  /\ calls' = (calls \ {c}) \cup (IF c.live THEN {[c EXCEPT !.answer = answer]} ELSE {})
  /\ tasks' = IF begins THEN tasks \cup {[key |-> c.key, cell |-> c.cell, n |-> c.n]} ELSE tasks
  /\ UNCHANGED <<time, memory, claims, reports, drafts, acted, fired, cards, strayed, crashes>>

TaskActs(r) ==
  /\ tasks' = tasks \ {r}
  /\ acted' = Bump(acted, r.key, r.cell)
  /\ drafts' = IF r.key[2] = "post" THEN [drafts EXCEPT ![r.key[1]].pending = @ + 1] ELSE drafts
  /\ UNCHANGED <<time, memory, claims, calls, reports, fired, cards, strayed, crashes>>

TaskNotStarted(r) ==
  /\ tasks' = tasks \ {r}
  /\ reports' = IF r.key[2] \in {"comment", "contact_comment"} THEN reports \cup {r} ELSE reports
  /\ UNCHANGED <<time, memory, claims, calls, drafts, acted, fired, cards, strayed, crashes>>

(* A draft is approved (for now or for a later time), published, or dropped.   *)
DraftMoves(a, from, to) ==
  /\ drafts[a][from] > 0
  /\ drafts' = IF to = "dropped" THEN [drafts EXCEPT ![a][from] = @ - 1]
               ELSE [drafts EXCEPT ![a][from] = @ - 1, ![a][to] = @ + 1]
  /\ UNCHANGED <<time, memory, claims, calls, tasks, reports, acted, fired, cards, strayed, crashes>>

DraftMovesOn ==
  \E a \in Accounts : \/ \E to \in {"posted", "scheduled", "dropped"} : DraftMoves(a, "pending", to)
                      \/ DraftMoves(a, "scheduled", "posted")
-----------------------------------------------------------------------------
ScheduleInit ==
  /\ time = [hour |-> 0, minute |-> 0]
  /\ ticks = {Tick(time)} /\ inFlight = {} /\ postFiring = FALSE
  /\ lastFired = [k \in Keys |-> None] /\ retry = [k \in Keys |-> NoRetry]
  /\ claims = [a \in Accounts |-> None]
  /\ calls = {} /\ tasks = {} /\ reports = {}
  /\ drafts = [a \in Accounts |-> [pending |-> 0, scheduled |-> 0, posted |-> 0]]
  /\ fired = [k \in Keys |-> [h \in Hours |-> 0]] /\ acted = fired /\ cards = fired
  /\ strayed = FALSE /\ crashes = 0

Ticking(t) ==
  \/ TickEnds(t) \/ GiveUp(t) \/ AskIdle(t) \/ CountPosted(t) \/ CountPending(t)
  \/ ClaimPostHourCell(t) \/ Fire(t)
  \/ \E k \in Keys : Gate(t, k)

Automation ==
  \/ \E c \in calls, answer \in {"accepted", "notStarted", "failed"}, begins \in BOOLEAN : Answer(c, answer, begins)
  \/ \E r \in tasks : TaskActs(r) \/ TaskNotStarted(r)
  \/ DraftMovesOn

ScheduleNext ==
  \/ MinutePasses \/ Crash \/ Automation
  \/ \E t \in ticks : Ticking(t)
  \/ \E c \in calls : Settle(c)
  \/ \E r \in reports : ReportNotStarted(r)

ScheduleSpec == ScheduleInit /\ [][ScheduleNext]_scheduleVars
-----------------------------------------------------------------------------
Cells == Hours \cup {None}
Counts == Nat
Attempts == 1..(MaxRetries + 1)
Step == [pc: {"next", "ask", "count", "ready", "claimed"}, key: Keys \cup {None},
         posted: Counts \cup {None}, pending: Counts \cup {None}]
Task == [key: Keys, cell: Hours, n: Attempts]

(* The type invariant.                                                         *)
ScheduleTypeOK ==
  /\ time \in [hour: Hours, minute: 0..(Minutes - 1)]
  /\ ticks \subseteq [cell: Hours, minute: 0..(Minutes - 1), todo: SUBSET Keys, at: Step]
  /\ lastFired \in [Keys -> Cells]
  /\ retry \in [Keys -> [cell: Cells, left: 0..MaxRetries]]
  /\ inFlight \subseteq Accounts /\ postFiring \in BOOLEAN
  /\ claims \in [Accounts -> Cells]
  /\ calls \subseteq [key: Keys, cell: Hours, n: Attempts,
                      answer: {"sent", "accepted", "notStarted", "failed"}, live: BOOLEAN]
  /\ tasks \subseteq Task /\ reports \subseteq Task
  /\ drafts \in [Accounts -> [pending: Counts, scheduled: Counts, posted: Counts]]
  /\ {fired, acted, cards} \subseteq [Keys -> [Hours -> Counts]]
  /\ strayed \in BOOLEAN /\ crashes \in 0..MaxCrash

(* An expensive generation is never begun twice in an hour: whatever crashes,  *)
(* fails or is refused, an account's post is triggered once in an hour.        *)
PostOncePerCell ==
  \A k \in Keys, h \in Hours : k[2] = "post" => fired[k][h] <= 1

(* A browser that cannot be woken is not woken every minute: an action is      *)
(* tried at most MaxRetries times more in an hour, through refusals, answers   *)
(* that come before the report that the task did not start, reports that come  *)
(* hours late, and crashes.                                                    *)
TriggersBounded ==
  \A k \in Keys, h \in Hours : fired[k][h] <= MaxRetries + 1

(* The scheduler never has two actions of an account under way, nor two posts  *)
(* of any accounts, although it checks this several awaits before it fires.    *)
OneAtATime ==
  \A c, d \in calls : c.live /\ d.live /\ c # d =>
    c.key[1] # d.key[1] /\ ~(c.key[2] = "post" /\ d.key[2] = "post")

(* What may have taken effect is not done again in that hour: not after an     *)
(* answer that failed, not after a crash.  (A report of another hour is the    *)
(* one thing that can break this: reportNotStarted cannot tell.)               *)
ActedOnce ==
  ~strayed => \A k \in Keys, h \in Hours : acted[k][h] <= 1

(* However many attempts of an hour fail, and in whichever way, one card says  *)
(* that the hour was given up (again but for a report of another hour).        *)
OneCardPerCell ==
  ~strayed => \A k \in Keys, h \in Hours : cards[k][h] <= 1

(* What may happen once in an hour happens once: a post is triggered, a task   *)
(* takes effect, a card is sent.                                               *)
OncePerCell == PostOncePerCell /\ ActedOnce /\ OneCardPerCell

(* A schedule never runs away: an action has a bounded number of tries in an   *)
(* hour, and one under way at a time.                                          *)
BoundedTries == TriggersBounded /\ OneAtATime

(* An hour's action runs once, with a bounded number of tries, one at a time.  *)
HoursHold == OncePerCell /\ BoundedTries

(* An hour that is given back can be used: the database's claim and the        *)
(* memory's retry window agree on whether the hour is taken.                   *)
ReturnedCellIsFree ==
  \A a \in Accounts : LET k == <<a, "post">> IN
    k \in Keys /\ retry[k].cell # None /\ lastFired[k] # retry[k].cell => claims[a] # retry[k].cell

(* The daily limit holds even when every draft is approved.                    *)
DailyCapHeld ==
  \A a \in Accounts : drafts[a].posted <= Cap
=============================================================================
