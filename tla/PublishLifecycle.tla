-------------------------- MODULE PublishLifecycle --------------------------
(* What people are shown of a post: publish-stage-lifecycle.ts turns the     *)
(* snapshot of a generation run, the record of publish_log, the decision in  *)
(* force and the evidence of what is being sent into eight stages and a      *)
(* status, and client-publish-queue.ts folds them into the four stages of the *)
(* customer's app.  Wording and counts are left out, states are kept.        *)
(*                                                                           *)
(* A page is put together from four reads of three services, in an order, while *)
(* runs, records and decisions go on: a record may be written that its run   *)
(* does not know of yet, or be decided between the list and the decisions.   *)
EXTENDS PublishLog, Sequences

VARIABLES
  run,     \* the generation run of each record, as the content service keeps it
  page     \* one page under way: what it has read; with what was known before

lifeVars == <<logVars, run, page>>

StageKeys == <<"source", "content", "text_quality", "visual_plan",
               "image_review", "package", "approval", "dispatch">>
Stages == {StageKeys[i] : i \in 1..8}
StageStates == {"pending", "running", "retrying", "waiting_human", "completed",
                "partial", "failed", "skipped", "evidence_unavailable"}
IndexOf(k) == CHOOSE i \in 1..8 : StageKeys[i] = k

(* The keys of a run's snapshot that the projection asks for.                *)
TextKeys == {"cleanedContent", "aiFlavorScore", "qualityReport"}
VisualKeys == {"postCategory", "imageSetPlan", "imagePlan"}
PackageKeys == {"assembledContent", "titleSelection", "publishMetadata", "gateDecision", "publishResult"}
SnapshotKeys == {"scoutDecision", "faithfulDraft", "imageDirective"} \cup TextKeys \cup VisualKeys \cup PackageKeys

NoRun == [keys |-> {}, publish |-> TRUE, retry |-> FALSE, abort |-> "none", status |-> "idle"]
Run == [keys: SUBSET SnapshotKeys, publish: BOOLEAN, retry: BOOLEAN,
        abort: Stages \cup {"none", "unknown"},
        status: {"idle", "running", "failed", "timeout", "cleared"}]

(* The reads of a page: the queue's runs, the waiting records, the recent ones, *)
(* the decisions; and, as history, which records were known when it was opened *)
(* and which of the waiting ones were approved when they were listed.        *)
Reads == {"queue", "pending", "recent", "rulings"}
Verdicts == {"none", "rejected", "pending_dispatch", "dispatching", "consumed"}
NoPage == [open |-> FALSE, read |-> {}, known |-> {}, listed |-> [r \in Records |-> "none"],
           waiting |-> {}, approved |-> {}, recent |-> [r \in Records |-> "none"],
           verdicts |-> [r \in Records |-> "none"], readable |-> TRUE]
Page == [open: BOOLEAN, read: SUBSET Reads, known: SUBSET Records,
         listed: [Records -> {"none", "running", "delivered"}],
         waiting: SUBSET Records, approved: SUBSET Records,
         recent: [Records -> {"none", "waiting", "settled"}],
         verdicts: [Records -> Verdicts], readable: BOOLEAN]

LifeTypeOK == LogTypeOK /\ run \in [Records -> Run] /\ page \in Page

Rejects(s) == "scoutDecision" \in s.keys /\ ~s.publish
HasFailed(s) == s.status \in {"failed", "timeout"} \/ s.abort # "none"

(* runStages, before a failure is entered.                                   *)
RunStages(s) ==
  LET sourceDone == "scoutDecision" \in s.keys
      contentDone == "faithfulDraft" \in s.keys
      textDone == TextKeys \subseteq s.keys
      visualDone == VisualKeys \subseteq s.keys
      imageDone == "imageDirective" \in s.keys
      Progress(done, started) == IF done THEN "completed" ELSE IF started THEN "running" ELSE "pending"
  IN [source |-> Progress(sourceDone, TRUE),
      content |-> Progress(contentDone, sourceDone),
      text_quality |-> IF ~textDone /\ s.retry THEN "retrying" ELSE Progress(textDone, contentDone),
      visual_plan |-> Progress(visualDone, contentDone),
      image_review |-> Progress(imageDone, visualDone),
      package |-> Progress(PackageKeys \subseteq s.keys, textDone /\ imageDone),
      approval |-> "pending",
      dispatch |-> "pending"]

(* The stage a failure is entered at: that of the role that gave up, else the *)
(* first one under way, else the last one before approval.                   *)
FailedKey(s, stages) ==
  LET underWay == {i \in 1..8 : stages[StageKeys[i]] = "running"}
  IN IF s.abort \in Stages THEN s.abort
     ELSE IF underWay # {} THEN StageKeys[CHOOSE i \in underWay : \A j \in underWay : i <= j]
     ELSE "package"

\* Faulty variant: the stages behind the failed one are left as they are.
AfterFailureHere(stages, failed) == [k \in Stages |-> IF k = failed THEN "failed" ELSE stages[k]]
AfterFailure(stages, failed) ==
  [k \in Stages |->
     IF k = failed THEN "failed"
     ELSE IF IndexOf(k) > IndexOf(failed) /\ stages[k] # "completed" THEN "pending"
     ELSE stages[k]]

StagesOfRun(s) ==
  IF Rejects(s) THEN [k \in Stages |-> IF k = "source" THEN "completed" ELSE "skipped"]
  ELSE IF HasFailed(s) THEN AfterFailure(RunStages(s), FailedKey(s, RunStages(s)))
  ELSE RunStages(s)

(* journeyFromRun.                                                           *)
RunJourney(s) ==
  [status |-> IF (HasFailed(s) /\ ~Rejects(s)) \/ s.status \in {"failed", "timeout"} THEN "failed"
              ELSE IF Rejects(s) THEN "skipped" ELSE "generating",
   stages |-> StagesOfRun(s), dispatch |-> "none"]

(* readApprovalDispatchProjection: the active decision, none when it cannot be *)
(* read.                                                                     *)
NoDispatch == [approved |-> FALSE, state |-> "none"]
DispatchOf(verdict, readable) ==
  IF ~readable \/ verdict = "none" THEN NoDispatch
  ELSE [approved |-> verdict # "rejected",
        state |-> IF verdict = "rejected" THEN "pending_dispatch" ELSE verdict]

(* approvedForDispatch: the durable decision where there is one, else what is *)
(* known to be under way.                                                    *)
\* Faulty variant: only what is under way counts, as before the change.
ApprovedInFlight(d, inFlight) == inFlight
ApprovedForDispatch(d, inFlight) ==
  IF d.state # "none" THEN d.approved /\ d.state # "void" ELSE inFlight

(* persistedStages: the two stages of a record; the six before are completed. *)
ApprovalAndDispatch(status, approved, unavailable, d) ==
  CASE status = "pending_approval" /\ d.state = "none" /\ unavailable
         -> <<"evidence_unavailable", "evidence_unavailable">>
    [] status = "pending_approval" /\ ~(d.state = "none" /\ unavailable) /\ ~approved
         -> <<"waiting_human", "pending">>
    [] status = "pending_approval" /\ approved /\ d.state = "pending_dispatch"
         -> <<"completed", "pending">>
    [] status = "pending_approval" /\ approved /\ d.state # "pending_dispatch"
         /\ ~(d.state = "none" /\ unavailable)
         -> <<"completed", "running">>
    [] status = "needs_review" -> <<"failed", "skipped">>
    [] status = "draft" -> <<"skipped", "skipped">>
    [] status = "published" -> <<"completed", "completed">>
    [] status \in {"scheduled", "submitted"} -> <<"completed", "partial">>
    [] status = "failed" -> <<"completed", "failed">>

PersistedStages(status, approved, unavailable, d) ==
  LET two == ApprovalAndDispatch(status, approved, unavailable, d)
  IN [k \in Stages |-> IF k = "approval" THEN two[1] ELSE IF k = "dispatch" THEN two[2] ELSE "completed"]

(* journeyFromPublish.                                                       *)
RecordJourney(status, d, evidence, inFlight) ==
  LET approved == ApprovedForDispatch(d, evidence = "fresh" /\ inFlight)
  IN [status |-> CASE status = "pending_approval" -> IF approved THEN "dispatching" ELSE "waiting_approval"
                   [] status = "needs_review" -> "rejected"
                   [] OTHER -> status,
      stages |-> PersistedStages(status, approved, evidence # "fresh", d),
      dispatch |-> d.state]

(* buildPublishLifecycle: the journeys of the active list.  A run is left out *)
(* when its own snapshot names a record that is listed as waiting, so a record *)
(* that its run does not know of yet is listed beside it; the recent records *)
(* are those that do not wait.                                               *)
ShownAsRun(r) == page.listed[r] # "none" /\ ~(page.listed[r] = "delivered" /\ r \in page.waiting)
ShownAsRecent(r) == page.recent[r] = "settled"

(* aggregateState of client-publish-queue.ts.                                *)
Worst == <<"evidence_unavailable", "failed", "waiting_human", "retrying", "running", "partial">>
AggregateState(states) ==
  LET found == {i \in 1..Len(Worst) : Worst[i] \in states}
  IN IF found # {} THEN Worst[CHOOSE i \in found : \A j \in found : i <= j]
     ELSE IF states \subseteq {"completed", "skipped"}
            THEN IF "completed" \in states THEN "completed" ELSE "skipped"
     ELSE "pending"

(* projectJourney: four groups; what is not known is replaced where a durable *)
(* decision is.                                                              *)
Groups == [source |-> {"source"},
           content |-> {"content", "text_quality", "visual_plan", "image_review", "package"},
           approval |-> {"approval"},
           dispatch |-> {"dispatch"}]
Repaired(group, state, j) ==
  IF j.dispatch = "none" \/ state # "evidence_unavailable" THEN state
  ELSE IF group = "approval" THEN "completed"
  ELSE IF group # "dispatch" THEN state
  ELSE CASE j.dispatch = "pending_dispatch" -> "pending"
         [] j.dispatch = "dispatching" -> "running"
         [] j.dispatch = "void" -> "skipped"
         [] OTHER -> IF j.status = "published" THEN "completed"
                     ELSE IF j.status = "failed" THEN "failed" ELSE "partial"
ClientStages(j) ==
  [g \in DOMAIN Groups |-> Repaired(g, AggregateState({j.stages[k] : k \in Groups[g]}), j)]

(* summary.waitingForYou: a journey counts when nothing about it is uncertain. *)
\* Faulty variant: uncertain journeys are counted.
WaitsForCustomerAnyhow(j) == j.status = "waiting_approval"
WaitsForCustomer(j) ==
  /\ j.status = "waiting_approval"
  /\ ~(j.dispatch = "none" /\ \E g \in DOMAIN Groups : ClientStages(j)[g] = "evidence_unavailable")

-----------------------------------------------------------------------------
LifeInit == LogInit /\ run = [r \in Records |-> NoRun] /\ page = NoPage

(* External: the content service generates.  Text and pictures are made side *)
(* by side once there is a draft; text may be sent back; a role may give up  *)
(* under a name that has no stage here; the run may time out, and its snapshot *)
(* is dropped some time after it ended.                                      *)
Needs(k) ==
  CASE k = "scoutDecision" -> {}
    [] k = "faithfulDraft" -> {"scoutDecision"}
    [] k \in TextKeys \cup VisualKeys -> {"faithfulDraft"}
    [] k = "imageDirective" -> VisualKeys
    [] k = "publishResult" -> PackageKeys \ {"publishResult"}
    [] OTHER -> TextKeys \cup {"imageDirective"}

Generating(r) == run[r].status = "running" /\ run[r].abort = "none" /\ ~Rejects(run[r])

RunStarts(r) ==
  /\ run[r].status = "idle"
  /\ run' = [run EXCEPT ![r].status = "running"]
  /\ UNCHANGED <<logVars, page>>

RoleFinishes(r, k) ==
  /\ Generating(r) /\ k \notin run[r].keys /\ Needs(k) \subseteq run[r].keys
  /\ k # "publishResult"
  /\ \E publish \in (IF k = "scoutDecision" THEN BOOLEAN ELSE {run[r].publish}) :
       run' = [run EXCEPT ![r].keys = @ \cup {k}, ![r].publish = publish]
  /\ UNCHANGED <<logVars, page>>

TextIsSentBack(r) ==
  /\ Generating(r) /\ "faithfulDraft" \in run[r].keys /\ ~run[r].retry
  /\ run' = [run EXCEPT ![r].retry = TRUE]
  /\ UNCHANGED <<logVars, page>>

RunGivesUp(r, how) ==
  /\ Generating(r)
  /\ \/ how = "timeout" /\ run' = [run EXCEPT ![r].status = "timeout"]
     \/ how # "timeout" /\ run' = [run EXCEPT ![r].abort = how, ![r].status = "failed"]
  /\ UNCHANGED <<logVars, page>>

RunIsCleared(r) ==
  /\ run[r].status # "idle" /\ run[r].status # "cleared" /\ ~Generating(r)
  /\ run' = [run EXCEPT ![r] = [NoRun EXCEPT !.status = "cleared"]]
  /\ UNCHANGED <<logVars, page>>

(* The packaged run asks this process to write the record: its answer may be *)
(* late or lost, so the run may have given up meanwhile.                     *)
RunInserts(c, r, status) ==
  /\ run[r].status \in {"running", "failed", "timeout"} /\ ~Rejects(run[r])
  /\ Needs("publishResult") \subseteq run[r].keys
  /\ "publishResult" \notin run[r].keys
  /\ Insert(c, r, status)
  /\ UNCHANGED <<run, page>>

(* Later the content service puts the record's id into the run's snapshot.   *)
RunNotesResult(r) ==
  /\ Generating(r) /\ log[r].status # "none" /\ "publishResult" \notin run[r].keys
  /\ run' = [run EXCEPT ![r].keys = @ \cup {"publishResult"}]
  /\ UNCHANGED <<logVars, page>>

RunEnds(r) ==
  /\ run[r].status = "running" /\ "publishResult" \in run[r].keys
  /\ run' = [run EXCEPT ![r] = [NoRun EXCEPT !.status = "cleared"]]
  /\ UNCHANGED <<logVars, page>>

(* viewForAccount of server.ts and the queue's door of panel-server.ts: the  *)
(* queue of the content service first, then the two lists at once, then the  *)
(* decisions on what they hold.                                              *)
PendingApproval(r) == log[r].status = "pending_approval"
Approved(r) == ruling[r] \in {"pending_dispatch", "dispatching", "consumed"}
Listing(s) ==
  IF s.status \notin {"running", "failed", "timeout"} THEN "none"
  ELSE IF "publishResult" \in s.keys THEN "delivered" ELSE "running"

\* Faulty variant: the waiting records are listed beside the queue.
ListedBeside(part) ==
  CASE part \in {"queue", "pending"} -> {}
    [] part = "recent" -> {"queue"}
    [] part = "rulings" -> {"pending", "recent"}
\* Faulty variant: the decisions are read beside the lists.
DecisionsBeside(part) == IF part = "queue" THEN {} ELSE {"queue"}
ReadBefore(part) ==
  CASE part = "queue" -> {}
    [] part \in {"pending", "recent"} -> {"queue"}
    [] part = "rulings" -> {"pending", "recent"}

PageOpens ==
  /\ ~page.open
  /\ page' = [NoPage EXCEPT !.open = TRUE,
               !.known = {r \in Records : Listing(run[r]) # "none" \/ log[r].status # "none"}]
  /\ UNCHANGED <<logVars, run>>

PageReads(part) ==
  /\ page.open /\ part \notin page.read /\ ReadBefore(part) \subseteq page.read
  /\ UNCHANGED <<logVars, run>>

ReadQueue ==
  /\ PageReads("queue")
  /\ page' = [page EXCEPT !.read = @ \cup {"queue"}, !.listed = [r \in Records |-> Listing(run[r])]]

ReadPending ==
  /\ PageReads("pending")
  /\ page' = [page EXCEPT !.read = @ \cup {"pending"},
                          !.waiting = {r \in Records : PendingApproval(r)},
                          !.approved = {r \in Records : PendingApproval(r) /\ Approved(r)}]

ReadRecent ==
  /\ PageReads("recent")
  /\ page' = [page EXCEPT !.read = @ \cup {"recent"},
                          !.recent = [r \in Records |-> IF log[r].status = "none" THEN "none"
                                                         ELSE IF PendingApproval(r) THEN "waiting" ELSE "settled"]]

(* The decisions; where they cannot be read the page is shown without them.  *)
ReadRulings(readable) ==
  /\ PageReads("rulings")
  /\ page' = [page EXCEPT !.read = @ \cup {"rulings"}, !.readable = readable, !.verdicts = ruling]

PageCloses ==
  /\ page.open
  /\ page' = NoPage
  /\ UNCHANGED <<logVars, run>>

ReadPage ==
  \/ PageOpens \/ ReadQueue \/ ReadPending \/ ReadRecent \/ PageCloses
  \/ \E readable \in BOOLEAN : ReadRulings(readable)

LifeNext ==
  \/ \E r \in Records :
       \/ RunStarts(r)
       \/ \E k \in SnapshotKeys : RoleFinishes(r, k)
       \/ TextIsSentBack(r)
       \/ \E how \in Stages \cup {"unknown", "timeout"} : RunGivesUp(r, how)
       \/ RunIsCleared(r)
       \/ RunNotesResult(r)
       \/ RunEnds(r)
  \/ \E c \in Calls, r \in Records, s \in {"pending_approval", "draft", "failed"} : RunInserts(c, r, s)
  \/ Operate /\ UNCHANGED <<run, page>>
  \/ ReadPage

LifeSpec == LifeInit /\ [][LifeNext]_lifeVars
-----------------------------------------------------------------------------
Evidence == {"fresh", "unknown", "stale", "invalid"}
Shown == page.read = Reads
ShownWaiting(r, evidence, inFlight) ==
  RecordJourney("pending_approval", DispatchOf(page.verdicts[r], page.readable), evidence, inFlight)

(* A draft that was approved when the page listed it as waiting is not shown as *)
(* waiting for a person while decisions can be read, whatever became of the  *)
(* evidence of what is being sent and of the draft since.                    *)
ApprovedIsShown ==
  Shown /\ page.readable =>
    \A r \in page.waiting \cap page.approved, evidence \in Evidence, inFlight \in BOOLEAN :
      LET j == ShownWaiting(r, evidence, inFlight)
      IN j.status = "dispatching" /\ ClientStages(j).approval = "completed"

(* The customer is asked to decide what was undecided when it was listed, or, *)
(* where there is no decision to read, what fresh evidence does not know of. *)
AskedWhenKnown ==
  Shown =>
    \A r \in page.waiting, evidence \in Evidence, inFlight \in BOOLEAN :
      WaitsForCustomer(ShownWaiting(r, evidence, inFlight)) =>
        /\ page.readable => r \notin page.approved
        /\ ~page.readable \/ page.verdicts[r] = "none" => evidence = "fresh" /\ ~inFlight

(* A post that was under way or written when the page was opened is on it, as a *)
(* run, as waiting or among the recent ones, however it moved meanwhile; but for *)
(* one that waited when the recent ones were read and no longer does.        *)
NothingMissing ==
  Shown => \A r \in page.known : log[r].status # "none" =>
    \/ ShownAsRun(r) \/ r \in page.waiting \/ ShownAsRecent(r)
    \/ page.recent[r] = "waiting" /\ ~PendingApproval(r)

(* Behind the stage that failed nothing is shown as under way.               *)
FailureEndsRun ==
  \A r \in Records : run[r].status \in {"running", "failed", "timeout"} =>
    LET j == RunJourney(run[r])
    IN \A a, b \in 1..8 :
         a < b /\ j.stages[StageKeys[a]] = "failed" => j.stages[StageKeys[b]] \in {"pending", "completed"}
=============================================================================
