----------------------------- MODULE PublishLog -----------------------------
(* The execution half of publish_log (publish-log-store.ts): what becomes of *)
(* a record once it is written.  The generation pipeline inserts it, a       *)
(* decision lets the executor of the automation service send it or takes it  *)
(* out of the queue, posts that the platform holds for later are reconciled  *)
(* until they are seen or given up, and every transition is copied to the    *)
(* shadow table publish_execution_state by a statement of its own that comes *)
(* after the authoritative one and may fail.                                 *)
(*                                                                           *)
(* A caller is one call of the store in flight: the authoritative statement is *)
(* one step, the shadow write the next.  Which post the platform really shows *)
(* is platform; the API never reads it, it is told.                          *)
EXTENDS Integers, FiniteSets

CONSTANTS
  Records,      \* ids of publish_log
  Calls,      \* calls of the store in flight at once
  MaxAttempts   \* maxAttempts of deferScheduledReconcile

ASSUME LogAssumption == MaxAttempts \in Nat \ {0}

VARIABLES
  log,        \* publish_log
  shadow,     \* publish_execution_state
  mirrorUp,   \* executionMirrorAvailable, probed once at start
  ruling,     \* the dispatch state of the record's decision in force
  platform,   \* external: what the platform holds
  work,       \* the calls in flight
  was,        \* history: every status a record has had
  confirmed   \* history: how often confirmScheduledPublished answered true

logVars == <<log, shadow, mirrorUp, ruling, platform, work, was, confirmed>>

Statuses == {"draft", "pending_approval", "scheduled", "submitted",
             "published", "failed", "needs_review"}
NoRecord == [status |-> "none", next |-> "null", attempts |-> 0, post |-> FALSE, url |-> FALSE]
NoShadow == [status |-> "none", post |-> FALSE, url |-> FALSE]
LogRow == [status: Statuses \cup {"none"}, next: {"null", "later", "due"},
        attempts: 0..MaxAttempts, post: BOOLEAN, url: BOOLEAN]
Shadow == [status: Statuses \cup {"none"}, post: BOOLEAN, url: BOOLEAN]
NoCall == [op |-> "idle"]
Mirroring == [op: {"mirror"}, rec: Records, copy: Shadow]
Sending == [op: {"dispatch", "reconcile", "confirm", "defer"}, rec: Records]

LogTypeOK ==
  /\ log \in [Records -> LogRow]
  /\ shadow \in [Records -> Shadow]
  /\ mirrorUp \in BOOLEAN
  /\ ruling \in [Records -> {"none", "rejected", "pending_dispatch", "dispatching", "consumed"}]
  /\ platform \in [Records -> {"nothing", "held", "public", "dropped"}]
  /\ work \in [Calls -> {NoCall} \cup Mirroring \cup Sending]
  /\ was \in [Records -> SUBSET Statuses]
  /\ confirmed \in [Records -> Nat]

(* Init: the probe of the shadow table finds it or not.                      *)
LogInit ==
  /\ log = [r \in Records |-> NoRecord]
  /\ shadow = [r \in Records |-> NoShadow]
  /\ mirrorUp \in BOOLEAN
  /\ ruling = [r \in Records |-> "none"]
  /\ platform = [r \in Records |-> "nothing"]
  /\ work = [c \in Calls |-> NoCall]
  /\ was = [r \in Records |-> {}]
  /\ confirmed = [r \in Records |-> 0]

Free(c) == work[c] = NoCall
At(c, op) == work[c].op = op
Become(c, w) == work' = [work EXCEPT ![c] = w]

(* The authoritative statement: the row, what it has been, and the shadow    *)
(* write that the call still owes.                                           *)
Write(c, r, row) ==
  /\ log' = [log EXCEPT ![r] = row]
  /\ was' = [was EXCEPT ![r] = @ \cup {row.status}]

OweMirror(c, r, status, post, url) ==
  Become(c, IF mirrorUp
              THEN [op |-> "mirror", rec |-> r,
                    copy |-> [status |-> status, post |-> post, url |-> url]]
              ELSE NoCall)

(* insert: a draft for review, one kept as a draft, or one born failed.      *)
Insert(c, r, status) ==
  /\ Free(c) /\ log[r].status = "none"
  /\ Write(c, r, [NoRecord EXCEPT !.status = status])
  /\ OweMirror(c, r, status, FALSE, FALSE)
  /\ UNCHANGED <<shadow, mirrorUp, ruling, platform, confirmed>>

(* External: the decision table decides a waiting draft once.                *)
Decide(r, verdict) ==
  /\ log[r].status = "pending_approval" /\ ruling[r] = "none"
  /\ ruling' = [ruling EXCEPT ![r] = verdict]
  /\ UNCHANGED <<log, shadow, mirrorUp, platform, work, was, confirmed>>

(* rejectPendingApproval, called for a rejection, late or repeatedly.        *)
RejectPendingApproval(c, r) ==
  /\ Free(c) /\ ruling[r] = "rejected"
  /\ IF log[r].status = "pending_approval"
       THEN /\ Write(c, r, [log[r] EXCEPT !.status = "needs_review"])
            /\ OweMirror(c, r, "needs_review", FALSE, FALSE)
       ELSE UNCHANGED <<log, was, work>>
  /\ UNCHANGED <<shadow, mirrorUp, ruling, platform, confirmed>>

(* External: the executor claims an approved record and loads it.            *)
Dispatch(c, r) ==
  /\ Free(c) /\ ruling[r] = "pending_dispatch"
  /\ log[r].status = "pending_approval"          \* loadForDispatch
  /\ ruling' = [ruling EXCEPT ![r] = "dispatching"]
  /\ Become(c, [op |-> "dispatch", rec |-> r])
  /\ UNCHANGED <<log, shadow, mirrorUp, platform, was, confirmed>>

(* What the executor tells the platform's answer with, and consumes the round. *)
Reports(c, answer) ==
  LET r == work[c].rec IN
  /\ At(c, "dispatch")
  /\ platform' = [platform EXCEPT ![r] = answer]
  /\ ruling' = [ruling EXCEPT ![r] = "consumed"]
  /\ UNCHANGED <<shadow, mirrorUp, confirmed>>

(* updateStatus: no condition on the row; submitted (no link yet) or failed. *)
UpdateStatus(c, status) ==
  LET r == work[c].rec IN
  /\ Reports(c, IF status = "submitted" THEN "public" ELSE "nothing")
  /\ Write(c, r, [log[r] EXCEPT !.status = status])
  /\ OweMirror(c, r, status, FALSE, FALSE)

(* updatePostId: published, with the link when the edge saw one.             *)
UpdatePostId(c, link) ==
  LET r == work[c].rec IN
  /\ Reports(c, "public")
  /\ Write(c, r, [log[r] EXCEPT !.status = "published", !.post = TRUE, !.url = @ \/ link])
  /\ OweMirror(c, r, "published", TRUE, link)

(* markScheduled: the platform holds the post; refused when it is not waiting. *)
MarkScheduled(c) ==
  LET r == work[c].rec IN
  /\ Reports(c, "held")
  /\ IF log[r].status = "pending_approval"
       THEN /\ Write(c, r, [log[r] EXCEPT !.status = "scheduled", !.attempts = 0, !.next = "later"])
            /\ OweMirror(c, r, "scheduled", FALSE, FALSE)
       ELSE /\ Become(c, NoCall)
            /\ UNCHANGED <<log, was>>

(* Time: the next reconciliation falls due.                                  *)
FallsDue(r) ==
  /\ log[r].next = "later"
  /\ log' = [log EXCEPT ![r].next = "due"]
  /\ UNCHANGED <<shadow, mirrorUp, ruling, platform, work, was, confirmed>>

(* External: the platform shows a held post, or drops it.                    *)
PlatformActs(r, outcome) ==
  /\ platform[r] = "held"
  /\ platform' = [platform EXCEPT ![r] = outcome]
  /\ UNCHANGED <<log, shadow, mirrorUp, ruling, work, was, confirmed>>

(* listDueScheduled: the condition of the index scan.                        *)
Due(r) == log[r].status = "scheduled" /\ log[r].next = "due"

ListDue(c, r) ==
  /\ Free(c) /\ Due(r)
  /\ Become(c, [op |-> "reconcile", rec |-> r])
  /\ UNCHANGED <<log, shadow, mirrorUp, ruling, platform, was, confirmed>>

(* External: the reconciler looks at the platform; it may see nothing of a   *)
(* post that is there, and a pass may end without an answer.                 *)
Look(c) ==
  LET r == work[c].rec IN
  /\ At(c, "reconcile")
  /\ \/ platform[r] = "public" /\ Become(c, [op |-> "confirm", rec |-> r])
     \/ Become(c, [op |-> "defer", rec |-> r])
     \/ Become(c, NoCall)
  /\ UNCHANGED <<log, shadow, mirrorUp, ruling, platform, was, confirmed>>

(* The row after one more attempt.                                           *)
\* Faulty variant: the last attempt clears the date, one more ends the wait.
DeferredPastLast(row) ==
  [row EXCEPT !.attempts = IF @ < MaxAttempts THEN @ + 1 ELSE @,
              !.next = IF row.attempts + 1 >= MaxAttempts THEN "null" ELSE "later",
              !.status = IF row.attempts + 1 > MaxAttempts THEN "needs_review" ELSE "scheduled"]
\* Faulty variant: the number of attempts is not compared with the limit.
DeferredUnlimited(row) == [row EXCEPT !.attempts = @ + 1, !.next = "later", !.status = "scheduled"]
\* Faulty variant: the attempts are not counted.
DeferredUncounted(row) == [row EXCEPT !.next = "later"]
Deferred(row) ==
  LET last == row.attempts + 1 >= MaxAttempts IN
  [row EXCEPT !.attempts = @ + 1,
              !.next = IF last THEN "null" ELSE "later",
              !.status = IF last THEN "needs_review" ELSE "scheduled"]

(* deferScheduledReconcile.                                                  *)
\* Faulty variant: an update without AND status = 'scheduled'.
OpenBlind(r) == log[r].status \in {"scheduled", "published"} /\ log[r].attempts < MaxAttempts
Open(r) == log[r].status = "scheduled"

DeferScheduledReconcile(c) ==
  LET r == work[c].rec IN
  /\ At(c, "defer")
  /\ IF Open(r)
       THEN /\ Write(c, r, Deferred(log[r]))
            /\ OweMirror(c, r, Deferred(log[r]).status, FALSE, FALSE)
       ELSE /\ Become(c, NoCall)
            /\ UNCHANGED <<log, was>>
  /\ UNCHANGED <<shadow, mirrorUp, ruling, platform, confirmed>>

(* confirmScheduledPublished: true for the first confirmation only.          *)
\* Faulty variant: a published row is confirmed again.
UnconfirmedOrPublished(r) == log[r].status \in {"scheduled", "published"}
Unconfirmed(r) == log[r].status = "scheduled"

ConfirmScheduledPublished(c) ==
  LET r == work[c].rec IN
  /\ At(c, "confirm")
  /\ IF Unconfirmed(r)
       THEN /\ Write(c, r, [log[r] EXCEPT !.status = "published", !.post = TRUE,
                                          !.url = TRUE, !.next = "null"])
            /\ OweMirror(c, r, "published", TRUE, TRUE)
            /\ confirmed' = [confirmed EXCEPT ![r] = @ + 1]
       ELSE /\ Become(c, NoCall)
            /\ UNCHANGED <<log, was, confirmed>>
  /\ UNCHANGED <<shadow, mirrorUp, ruling, platform>>

(* The upsert of mirrorExecutionState: what this transition did not bring is *)
(* kept from the row before.                                                 *)
\* Faulty variant: the copy replaces the row.
UpsertWhole(old, copy) == copy
\* Faulty variant: whatever was sent is taken to have a post id.
UpsertGuessesPost(old, copy) ==
  [copy EXCEPT !.post = copy.status \in {"submitted", "published"} \/ old.post]
Upsert(old, copy) ==
  [status |-> copy.status, post |-> copy.post \/ old.post, url |-> copy.url \/ old.url]

(* mirrorExecutionState: the shadow write of a call, lost when it fails.     *)
MirrorExecutionState(c) ==
  LET w == work[c] IN
  /\ At(c, "mirror")
  /\ shadow' = [shadow EXCEPT ![w.rec] = Upsert(@, w.copy)]
  /\ Become(c, NoCall)
  /\ UNCHANGED <<log, mirrorUp, ruling, platform, was, confirmed>>

MirrorFails(c) ==
  /\ At(c, "mirror")
  /\ Become(c, NoCall)
  /\ UNCHANGED <<log, shadow, mirrorUp, ruling, platform, was, confirmed>>

Operate ==
  \/ \E r \in Records :
       \/ \E v \in {"rejected", "pending_dispatch"} : Decide(r, v)
       \/ FallsDue(r)
       \/ \E o \in {"public", "dropped"} : PlatformActs(r, o)
  \/ \E c \in Calls, r \in Records :
       \/ RejectPendingApproval(c, r)
       \/ Dispatch(c, r)
       \/ ListDue(c, r)
  \/ \E c \in Calls :
       \/ \E s \in {"submitted", "failed"} : UpdateStatus(c, s)
       \/ \E link \in BOOLEAN : UpdatePostId(c, link)
       \/ MarkScheduled(c)
       \/ Look(c)
       \/ DeferScheduledReconcile(c)
       \/ ConfirmScheduledPublished(c)
       \/ MirrorExecutionState(c)
       \/ MirrorFails(c)

LogNext ==
  \/ \E c \in Calls, r \in Records, s \in {"pending_approval", "draft", "failed"} : Insert(c, r, s)
  \/ Operate

LogSpec == LogInit /\ [][LogNext]_logVars
-----------------------------------------------------------------------------
(* Properties.                                                               *)

(* A scheduled post is confirmed once, whatever passes overlap: the caller   *)
(* books the post in the risk ledger on every true answer.                   *)
ConfirmedOnce == \A r \in Records : confirmed[r] <= 1

(* A post that waits on the platform is always still to be looked at: none is *)
(* left scheduled without a date, and none beyond the last attempt.          *)
ScheduledIsWatched ==
  \A r \in Records :
    log[r].status = "scheduled" => log[r].next # "null" /\ log[r].attempts < MaxAttempts

(* The shadow, which is written late, in any order or not at all, tells only *)
(* what the record has been, and never forgets a post that it knew.          *)
ShadowTellsWhatWas ==
  \A r \in Records :
    /\ shadow[r].status \in was[r] \cup {"none"}
    /\ shadow[r].post => log[r].post
ShadowKeepsPost ==
  [][\A r \in Records : shadow[r].post => shadow'[r].post]_logVars

(* A published record stays published and keeps its post, whatever late      *)
(* rejection, deferral or second confirmation is still under way.            *)
PublishedStays ==
  [][\A r \in Records : log[r].status = "published"
       => log'[r].status = "published" /\ log'[r].post]_logVars

(* What became of a post is known once, watched until it is known, and copied  *)
(* truly; and what is known of a post is not forgotten.                        *)
PostSettles == ConfirmedOnce /\ ScheduledIsWatched /\ ShadowTellsWhatWas
PostSteps == ShadowKeepsPost /\ PublishedStays

(* Fairness: the reconciler passes periodically, a pass now and then gets an *)
(* answer, and a call that was made ends.                                    *)
Reconciling(r) ==
  \E c \in Calls :
    \/ ListDue(c, r)
    \/ work[c] = [op |-> "defer", rec |-> r] /\ DeferScheduledReconcile(c)
    \/ work[c] = [op |-> "confirm", rec |-> r] /\ ConfirmScheduledPublished(c)
Answered(c) == Look(c) /\ work'[c] # NoCall
Settling(c) == MirrorExecutionState(c) \/ MirrorFails(c)
Liveness ==
  /\ \A r \in Records : WF_logVars(FallsDue(r)) /\ SF_logVars(Reconciling(r))
  /\ \A c \in Calls : SF_logVars(Answered(c)) /\ WF_logVars(Settling(c))

(* A scheduled post does not stay so for ever: it is seen, or handed to people. *)
ScheduledResolves ==
  \A r \in Records : log[r].status = "scheduled" ~> log[r].status \in {"published", "needs_review"}
=============================================================================
