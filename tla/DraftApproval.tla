----------------------------- MODULE DraftApproval -----------------------------
(* One draft awaiting approval, everybody who may decide on it (the customer's *)
(* app, the console, a Feishu card), everybody who may edit it (console,       *)
(* customer, AI refinement, image removal) and the executor that publishes.    *)
(*                                                                             *)
(* "What was reviewed is what is published" rests on the draft's               *)
(* content_version: every edit is a compare-and-set on it, every approval      *)
(* names it.  The checks and the writes of a handler are statements of their   *)
(* own, with everybody else's in between.  The decision table is used through  *)
(* what PublishApproval shows of it: rounds decided one at a time, first       *)
(* writer wins.                                                                *)
EXTENDS Integers, Sequences

CONSTANTS
  Deciders,     \* people deciding, each through any of the three channels
  Editors,      \* edits in flight
  Texts, Plans, \* what an edit changes: the content, the publish plan
  MaxVersion,   \* bound: edits of the draft
  MaxRound      \* bound: rounds of approval

ASSUME DraftAssumption ==
  /\ MaxVersion \in Nat
  /\ MaxRound \in Nat \ {0}
  /\ Texts # {} /\ Plans # {}

VARIABLES
  draft,        \* the row of publish_log
  rounds,       \* its rounds of publish_approval_decision
  decider,      \* decisions in flight
  editor,       \* edits in flight
  rejecting,    \* notifyRejected calls in flight, by round
  reconfirmed,  \* history: rounds named by a human_reconfirm trigger
  executor,     \* the executor's pass (external)
  published     \* history: what was published

vars == <<draft, rounds, decider, editor, rejecting, reconfirmed, executor, published>>

Versions == 0..MaxVersion
Content == [version: Versions, text: Texts, plan: Plans]
Loaded == [version |-> draft.version, text |-> draft.text, plan |-> draft.plan]
Idle == [pc |-> "idle"]

Round == [approved: BOOLEAN, version: Versions, shown: Content,
          state: {"pending_dispatch", "dispatching", "consumed", "void"}]

Current == rounds[Len(rounds)]
Decided == Len(rounds) > 0 /\ Current.state # "void"      \* readApproval # null
-----------------------------------------------------------------------------
(* editDraft and refineDraft: under the row lock the draft must still be       *)
(* pending and at the version the caller saw.                                  *)
EditableAnyVersion(v) == draft.status = "pending_approval"        \* faulty variant: no CAS

Editable(v) == draft.status = "pending_approval" /\ draft.version = v

EditDraft(text, plan) ==
  draft' = [draft EXCEPT !.version = @ + 1, !.text = text, !.plan = plan]

RejectAsRejected == draft' = [draft EXCEPT !.status = "rejected"]   \* faulty variant

RejectPendingApproval ==
  draft' = IF draft.status = "pending_approval" THEN [draft EXCEPT !.status = "needs_review"]
                                                ELSE draft

(* record(), through the decision writer.                                      *)
FirstWriter == ~Decided /\ Len(rounds) < MaxRound

RoundOf(approved, version, shown) ==
  [approved |-> approved, version |-> version, shown |-> shown,
   state |-> IF approved THEN "pending_dispatch" ELSE "consumed"]

SetState(rev, state) == rounds' = [rounds EXCEPT ![rev].state = state]

Answer(p, ok, approved, version, rev, planned) ==
  decider' = [decider EXCEPT ![p] =
    [pc |-> "answered", ok |-> ok, approved |-> approved, version |-> version,
     rev |-> rev, planned |-> planned]]
Refuse(p) == decider' = [decider EXCEPT ![p] = Idle]
-----------------------------------------------------------------------------
(* Somebody opens the draft, on a screen or in a card.                         *)
Look(p) ==
  /\ decider[p].pc \in {"idle", "answered"}
  /\ draft.status = "pending_approval"
  /\ decider' = [decider EXCEPT ![p] = [pc |-> "looking", shown |-> Loaded]]
  /\ UNCHANGED <<draft, rounds, editor, rejecting, reconfirmed, executor, published>>

(* The customer's handler: it loads the draft,                                 *)
ClientLoad(p, approved, plan) ==
  /\ decider[p].pc = "looking"
  /\ decider' = [decider EXCEPT ![p] =
       [pc |-> "loaded", shown |-> decider[p].shown, approved |-> approved,
        plan |-> IF approved THEN plan ELSE draft.plan,
        pending |-> draft.status = "pending_approval", draft |-> Loaded]]
  /\ UNCHANGED <<draft, rounds, editor, rejecting, reconfirmed, executor, published>>

(* reads the approval (an unreadable one ends the call),                       *)
AgreesIgnoringVerdict(approved) == TRUE                  \* faulty variant: verdict not compared
Agrees(approved) == Current.approved = approved

ClientReadApproval(p) ==
  LET d == decider[p] IN
  /\ d.pc = "loaded"
  /\ \/ /\ Decided /\ Agrees(d.approved)
        /\ Answer(p, TRUE, d.approved, Current.version, Len(rounds), FALSE)
        /\ reconfirmed' = IF d.approved THEN reconfirmed \cup {Len(rounds)} ELSE reconfirmed
     \/ /\ ~Decided /\ d.pending
        /\ d.approved => d.shown.version = d.draft.version
        /\ decider' = [decider EXCEPT ![p] =
             [pc |-> IF d.plan # d.draft.plan THEN "planning" ELSE "writing",
              via |-> "client", approved |-> d.approved, shown |-> [d.shown EXCEPT !.plan = d.plan],
              version |-> d.draft.version, planned |-> FALSE]]
        /\ UNCHANGED reconfirmed
     \/ Refuse(p) /\ UNCHANGED reconfirmed
  /\ UNCHANGED <<draft, rounds, editor, rejecting, executor, published>>

(* moves the publish plan, when the customer chose another one, by an edit of  *)
(* its own, and takes the version the edit returns.                            *)
ClientPlanEdit(p) ==
  LET d == decider[p] IN
  /\ d.pc = "planning"
  /\ IF Editable(d.version)
     THEN /\ draft.version < MaxVersion
          /\ EditDraft(draft.text, d.shown.plan)
          /\ decider' = [decider EXCEPT ![p] =
               [d EXCEPT !.pc = "writing", !.version = draft.version + 1, !.planned = TRUE]]
     ELSE Refuse(p) /\ UNCHANGED draft
  /\ UNCHANGED <<rounds, editor, rejecting, reconfirmed, executor, published>>

(* The Feishu card's callback: both verdicts must be about the live version.   *)
FeishuCheck(p, approved) ==
  LET shown == decider[p].shown IN
  /\ decider[p].pc = "looking"
  /\ IF shown.version = draft.version
     THEN decider' = [decider EXCEPT ![p] =
            [pc |-> "writing", via |-> "feishu", approved |-> approved, shown |-> shown,
             version |-> shown.version, planned |-> FALSE]]
     ELSE Refuse(p)
  /\ UNCHANGED <<draft, rounds, editor, rejecting, reconfirmed, executor, published>>

(* Customer and Feishu write alike: the first writer's rejection is carried to *)
(* the draft by a call nobody waits for, a later writer that agrees is told so *)
(* and an agreeing approval sends human_reconfirm.                             *)
WriteDecision(p) ==
  LET d == decider[p] IN
  /\ d.pc = "writing"
  /\ IF FirstWriter
     THEN /\ rounds' = Append(rounds, RoundOf(d.approved, d.version, d.shown))
          /\ Answer(p, TRUE, d.approved, d.version, Len(rounds) + 1, d.planned)
          /\ rejecting' = IF d.approved THEN rejecting ELSE rejecting \cup {Len(rounds) + 1}
          /\ UNCHANGED reconfirmed
     ELSE /\ Decided
          /\ IF Agrees(d.approved)
             THEN /\ Answer(p, TRUE, d.approved, d.version, Len(rounds), d.planned)
                  /\ reconfirmed' =
                       IF d.approved THEN reconfirmed \cup {Len(rounds)} ELSE reconfirmed
             ELSE Refuse(p) /\ UNCHANGED reconfirmed
          /\ UNCHANGED <<rounds, rejecting>>
  /\ UNCHANGED <<draft, editor, executor, published>>

(* rejectPendingApproval, behind the answer; an error is only logged.          *)
MaterialiseRejection(rev, ok) ==
  /\ rev \in rejecting
  /\ rejecting' = rejecting \ {rev}
  /\ IF ok THEN RejectPendingApproval ELSE UNCHANGED draft
  /\ UNCHANGED <<rounds, decider, editor, reconfirmed, executor, published>>
-----------------------------------------------------------------------------
(* The console: an approval that names a version must name the live one; one   *)
(* that names none is an approval of version 0.                                *)
PanelCheck(p, approved, named) ==
  LET shown == decider[p].shown IN
  /\ decider[p].pc = "looking"
  /\ IF approved /\ named /\ shown.version # draft.version
     THEN Refuse(p)
     ELSE decider' = [decider EXCEPT ![p] =
            [pc |-> "panelWriting", approved |-> approved, shown |-> shown,
             version |-> IF named THEN shown.version ELSE 0]]
  /\ UNCHANGED <<draft, rounds, editor, rejecting, reconfirmed, executor, published>>

(* Its rejection goes on to the draft, also when the same verdict stood        *)
(* already: what a lost notification left behind is repaired.                  *)
RejectionAfterAny(d) == ~d.approved                                 \* faulty variant

RejectionStands(d) == ~d.approved /\ (FirstWriter \/ ~Current.approved)

PanelWrite(p) ==
  LET d == decider[p] IN
  /\ d.pc = "panelWriting"
  /\ FirstWriter \/ Decided
  /\ rounds' = IF FirstWriter THEN Append(rounds, RoundOf(d.approved, d.version, d.shown))
                              ELSE rounds
  /\ decider' = [decider EXCEPT ![p] = IF RejectionStands(d) THEN [pc |-> "panelRejecting"]
                                                             ELSE Idle]
  /\ UNCHANGED <<draft, editor, rejecting, reconfirmed, executor, published>>

PanelReject(p) ==
  /\ decider[p].pc = "panelRejecting"
  /\ RejectPendingApproval
  /\ Refuse(p)
  /\ UNCHANGED <<rounds, editor, rejecting, reconfirmed, executor, published>>

(* A statement of the handler fails, or its process dies.                      *)
DecisionAborted(p) ==
  /\ decider[p].pc \notin {"idle", "answered", "looking"}
  /\ Refuse(p)
  /\ UNCHANGED <<draft, rounds, editor, rejecting, reconfirmed, executor, published>>
-----------------------------------------------------------------------------
(* Edits.  Console edits and image removals first look for a decision; a       *)
(* customer's edit and an AI refinement do not.                                *)
EditLook(e) ==
  /\ editor[e].pc = "idle"
  /\ draft.status = "pending_approval"
  /\ editor' = [editor EXCEPT ![e] = [pc |-> "editing", version |-> draft.version]]
  /\ UNCHANGED <<draft, rounds, decider, rejecting, reconfirmed, executor, published>>

PanelEditGate(e) ==
  /\ editor[e].pc = "editing"
  /\ editor' = [editor EXCEPT ![e] = IF Decided THEN Idle ELSE [@ EXCEPT !.pc = "panelEditing"]]
  /\ UNCHANGED <<draft, rounds, decider, rejecting, reconfirmed, executor, published>>

(* Image removal takes an approval it cannot read for none.                    *)
ImageRemoveGate(e, readable) ==
  /\ editor[e].pc = "editing"
  /\ editor' = [editor EXCEPT ![e] =
       IF readable /\ Decided THEN Idle ELSE [@ EXCEPT !.pc = "removing"]]
  /\ UNCHANGED <<draft, rounds, decider, rejecting, reconfirmed, executor, published>>

EditCommit(e, text) ==
  /\ editor[e].pc \in {"editing", "panelEditing", "removing"}
  /\ text # draft.text
  /\ IF Editable(editor[e].version)
     THEN draft.version < MaxVersion /\ EditDraft(text, draft.plan)
     ELSE UNCHANGED draft
  /\ editor' = [editor EXCEPT ![e] = Idle]
  /\ UNCHANGED <<rounds, decider, rejecting, reconfirmed, executor, published>>
-----------------------------------------------------------------------------
(* The executor in the automation service (external), as the interfaces it is  *)
(* given use it: it claims an approved round, compares versions with the draft *)
(* it loads, and publishes exactly what it loaded, or voids the round.         *)
ExecutorClaim ==
  /\ executor = Idle
  /\ Decided /\ Current.approved /\ Current.state = "pending_dispatch"
  /\ SetState(Len(rounds), "dispatching")
  /\ executor' = [pc |-> "claimed", rev |-> Len(rounds)]
  /\ UNCHANGED <<draft, decider, editor, rejecting, reconfirmed, published>>

ExecutorLoad ==
  LET row == rounds[executor.rev] IN
  /\ executor.pc = "claimed"
  /\ executor' = [pc |-> IF draft.status = "pending_approval" /\ draft.version = row.version
                         THEN "publishing" ELSE "voiding",
                  rev |-> executor.rev, draft |-> Loaded]
  /\ UNCHANGED <<draft, rounds, decider, editor, rejecting, reconfirmed, published>>

(* voidActive, whatever the state of the round.                                *)
MayVoidPending(rev) == rounds[rev].state = "pending_dispatch"       \* faulty variant
MayVoid(rev) == rounds[rev].state # "void"

ExecutorVoid ==
  /\ executor.pc = "voiding"
  /\ IF MayVoid(executor.rev) THEN SetState(executor.rev, "void") ELSE UNCHANGED rounds
  /\ executor' = Idle
  /\ UNCHANGED <<draft, decider, editor, rejecting, reconfirmed, published>>

(* Preempted: releaseToPending.                                                *)
ExecutorRelease ==
  /\ executor.pc = "publishing"
  /\ SetState(executor.rev, "pending_dispatch")
  /\ executor' = Idle
  /\ UNCHANGED <<draft, decider, editor, rejecting, reconfirmed, published>>

(* The post is out; updatePostId sets the draft published whatever it was, and *)
(* markConsumed closes the round.                                              *)
ExecutorPublish ==
  /\ executor.pc = "publishing"
  /\ published' = published \cup {[rev |-> executor.rev, content |-> executor.draft]}
  /\ draft' = [draft EXCEPT !.status = "published"]
  /\ executor' = [pc |-> "consuming", rev |-> executor.rev]
  /\ UNCHANGED <<rounds, decider, editor, rejecting, reconfirmed>>

ExecutorConsume ==
  /\ executor.pc = "consuming"
  /\ SetState(executor.rev, "consumed")
  /\ executor' = Idle
  /\ UNCHANGED <<draft, decider, editor, rejecting, reconfirmed, published>>
-----------------------------------------------------------------------------
Init ==
  /\ \E text \in Texts, plan \in Plans :
       draft = [status |-> "pending_approval", version |-> 0, text |-> text, plan |-> plan]
  /\ rounds = <<>>
  /\ decider = [p \in Deciders |-> Idle]
  /\ editor = [e \in Editors |-> Idle]
  /\ rejecting = {}
  /\ reconfirmed = {}
  /\ executor = Idle
  /\ published = {}

Decision(p) ==
  \/ Look(p)
  \/ \E approved \in BOOLEAN, plan \in Plans : ClientLoad(p, approved, plan)
  \/ ClientReadApproval(p) \/ ClientPlanEdit(p)
  \/ \E approved \in BOOLEAN : FeishuCheck(p, approved)
  \/ WriteDecision(p)
  \/ \E approved, named \in BOOLEAN : PanelCheck(p, approved, named)
  \/ PanelWrite(p) \/ PanelReject(p)
  \/ DecisionAborted(p)

Edit(e) ==
  \/ EditLook(e) \/ PanelEditGate(e)
  \/ \E readable \in BOOLEAN : ImageRemoveGate(e, readable)
  \/ \E text \in Texts : EditCommit(e, text)

Execution ==
  \/ ExecutorClaim \/ ExecutorLoad \/ ExecutorVoid
  \/ ExecutorRelease \/ ExecutorPublish \/ ExecutorConsume

Next ==
  \/ \E p \in Deciders : Decision(p)
  \/ \E rev \in rejecting, ok \in BOOLEAN : MaterialiseRejection(rev, ok)
  \/ \E e \in Editors : Edit(e)
  \/ Execution

Spec == Init /\ [][Next]_vars

(* The executor sweeps the approvals that wait again and again.                *)
FairSpec == Spec /\ WF_vars(ExecutorClaim) /\ WF_vars(ExecutorLoad) /\ WF_vars(ExecutorVoid)
                 /\ WF_vars(ExecutorPublish \/ ExecutorRelease) /\ WF_vars(ExecutorConsume)
-----------------------------------------------------------------------------
Statuses == {"pending_approval", "needs_review", "published"}
Rows == 1..MaxRound

Looking == [pc: {"looking"}, shown: Content]
LoadedCall == [pc: {"loaded"}, shown: Content, approved: BOOLEAN, plan: Plans,
               pending: BOOLEAN, draft: Content]
Writing == [pc: {"planning", "writing"}, via: {"client", "feishu"}, approved: BOOLEAN,
            shown: Content, version: Versions, planned: BOOLEAN]
PanelWriting == [pc: {"panelWriting"}, approved: BOOLEAN, shown: Content, version: Versions]
PanelRejecting == [pc: {"panelRejecting"}]
Answered == [pc: {"answered"}, ok: {TRUE}, approved: BOOLEAN, version: Versions, rev: Rows,
             planned: BOOLEAN]

DeciderState ==
  {Idle} \cup Looking \cup LoadedCall \cup Writing
         \cup PanelWriting \cup PanelRejecting \cup Answered

EditorState ==
  {Idle} \cup [pc: {"editing", "panelEditing", "removing"}, version: Versions]

ExecutorState ==
  {Idle} \cup [pc: {"claimed", "consuming"}, rev: Rows]
         \cup [pc: {"publishing", "voiding"}, rev: Rows, draft: Content]

(* The type invariant.                                                         *)
TypeOK ==
  /\ draft \in [status: Statuses, version: Versions, text: Texts, plan: Plans]
  /\ rounds \in Seq(Round) /\ Len(rounds) <= MaxRound
  /\ decider \in [Deciders -> DeciderState]
  /\ editor \in [Editors -> EditorState]
  /\ rejecting \subseteq Rows
  /\ reconfirmed \subseteq Rows
  /\ executor \in ExecutorState
  /\ published \subseteq [rev: Rows, content: Content]

(* What was reviewed is what is published: a published post has the content    *)
(* and the plan that the approver of its round had on the screen (or chose),   *)
(* whoever edited the draft before, between or after the approval's own steps. *)
PublishedWasShown ==
  \A x \in published :
    /\ x.content.text = rounds[x.rev].shown.text
    /\ x.content.plan = rounds[x.rev].shown.plan

(* Every success a decider was told names a round that carries the verdict it  *)
(* asked for, and human_reconfirm is sent for approved rounds only, although   *)
(* verdict and round were read before somebody else voided or decided again.   *)
VerdictHonoured ==
  /\ \A p \in Deciders : decider[p].pc = "answered"
       => rounds[decider[p].rev].approved = decider[p].approved
  /\ \A rev \in reconfirmed : rounds[rev].approved

(* A draft leaves the queue as rejected only when a rejection is the decision  *)
(* in force: a late notifyRejected, or the console's repair of a lost one,     *)
(* never takes away a draft that somebody approved.                            *)
RejectedByDecision ==
  draft.status = "needs_review" => Decided /\ ~Current.approved

(* An approval that an edit has outdated does not lock the draft for ever: its *)
(* round is voided, and the draft can be edited and decided on again.          *)
OutdatedApprovalIsVoided ==
  \A rev \in Rows :
    LET In(states) == rev \in DOMAIN rounds /\ rounds[rev].state \in states
        Outdated == rounds[rev].approved /\ rounds[rev].version < draft.version
    IN (In({"pending_dispatch"}) /\ Outdated) ~> In({"void", "consumed"})

(* client-publish-approval.ts:98 says that the approval is bound to the        *)
(* version the schedule edit produced; so a customer who is told "approved"    *)
(* with the version of that edit can rely on an approval of that version.      *)
ApprovalBoundToPlanEdit ==
  \A p \in Deciders :
    decider[p].pc = "answered" /\ decider[p].approved /\ decider[p].planned
      => rounds[decider[p].rev].version = decider[p].version
=============================================================================
