-------------------------- MODULE DraftApprovalProofs --------------------------
(* Proofs about DraftApproval for any number of deciders, editors, rounds and  *)
(* edits.                                                                      *)
EXTENDS DraftApproval, TLAPS

ContentOf(c) == [text |-> c.text, plan |-> c.plan]

LEMMA PcOf ==
  /\ Idle.pc = "idle"
  /\ \A d \in Looking : d.pc = "looking"
  /\ \A d \in LoadedCall : d.pc = "loaded"
  /\ \A d \in Writing : d.pc \in {"planning", "writing"}
  /\ \A d \in PanelWriting : d.pc = "panelWriting"
  /\ \A d \in PanelRejecting : d.pc = "panelRejecting"
  /\ \A d \in Answered : d.pc = "answered"
  BY DEF Idle, Looking, LoadedCall, Writing, PanelWriting, PanelRejecting, Answered

(* What a decision in flight holds follows from its program counter.           *)
LEMMA DeciderShape ==
  ASSUME NEW d \in DeciderState
  PROVE  /\ d.pc = "looking" => d \in Looking
         /\ d.pc = "loaded" => d \in LoadedCall
         /\ d.pc \in {"planning", "writing"} => d \in Writing
         /\ d.pc = "panelWriting" => d \in PanelWriting
         /\ d.pc = "answered" => d \in Answered
  BY PcOf DEF DeciderState

LEMMA EditorShape ==
  ASSUME NEW d \in EditorState, d.pc # "idle"
  PROVE  d \in [pc: {"editing", "panelEditing", "removing"}, version: Versions]
  BY DEF EditorState, Idle

LEMMA ExecutorShape ==
  ASSUME executor \in ExecutorState
  PROVE  /\ executor.pc \in {"claimed", "consuming"}
              => executor \in [pc: {"claimed", "consuming"}, rev: Rows]
         /\ executor.pc \in {"publishing", "voiding"}
              => executor \in [pc: {"publishing", "voiding"}, rev: Rows, draft: Content]
<1>1. /\ \A x \in [pc: {"claimed", "consuming"}, rev: Rows] : x.pc \in {"claimed", "consuming"}
      /\ \A x \in [pc: {"publishing", "voiding"}, rev: Rows, draft: Content] :
           x.pc \in {"publishing", "voiding"}
      /\ Idle.pc = "idle"
  BY DEF Idle
<1> QED BY <1>1 DEF ExecutorState

LEMMA DeciderStates ==
  /\ Idle \in DeciderState
  /\ [pc |-> "panelRejecting"] \in DeciderState
  /\ \A c \in Content : [pc |-> "looking", shown |-> c] \in DeciderState
  BY DEF DeciderState, Looking, PanelRejecting

LEMMA DeciderUpdate ==
  ASSUME NEW p \in Deciders, NEW s \in DeciderState,
         decider \in [Deciders -> DeciderState], decider' = [decider EXCEPT ![p] = s]
  PROVE  decider' \in [Deciders -> DeciderState]
  OBVIOUS

LEMMA LoadedContent ==
  ASSUME draft \in [status: Statuses, version: Versions, text: Texts, plan: Plans]
  PROVE  Loaded \in Content
  BY DEF Loaded, Content

LEMMA DraftUpdate ==
  ASSUME draft \in [status: Statuses, version: Versions, text: Texts, plan: Plans]
  PROVE  /\ RejectPendingApproval
              => draft' \in [status: Statuses, version: Versions, text: Texts, plan: Plans]
         /\ \A text \in Texts, plan \in Plans :
              EditDraft(text, plan) /\ draft.version < MaxVersion
              => draft' \in [status: Statuses, version: Versions, text: Texts, plan: Plans]
<1>1. RejectPendingApproval
        => draft' \in [status: Statuses, version: Versions, text: Texts, plan: Plans]
  BY DEF RejectPendingApproval, Statuses
<1>2. ASSUME NEW text \in Texts, NEW plan \in Plans, EditDraft(text, plan),
             draft.version < MaxVersion
      PROVE  draft' \in [status: Statuses, version: Versions, text: Texts, plan: Plans]
  <2>1. draft.version + 1 \in Versions
    BY <1>2, DraftAssumption DEF Versions
  <2> QED BY <1>2, <2>1 DEF EditDraft
<1> QED BY <1>1, <1>2

LEMMA RoundsUpdate ==
  ASSUME rounds \in Seq(Round), Len(rounds) <= MaxRound
  PROVE  /\ \A approved \in BOOLEAN, version \in Versions, shown \in Content :
              rounds' = Append(rounds, RoundOf(approved, version, shown)) /\ FirstWriter
              => rounds' \in Seq(Round) /\ Len(rounds') <= MaxRound /\ Len(rounds') = Len(rounds) + 1
         /\ \A rev \in Rows, state \in {"pending_dispatch", "dispatching", "consumed", "void"} :
              SetState(rev, state)
              => rounds' \in Seq(Round) /\ Len(rounds') = Len(rounds)
<1>1. ASSUME NEW approved \in BOOLEAN, NEW version \in Versions, NEW shown \in Content,
             rounds' = Append(rounds, RoundOf(approved, version, shown)), FirstWriter
      PROVE  rounds' \in Seq(Round) /\ Len(rounds') <= MaxRound /\ Len(rounds') = Len(rounds) + 1
  <2>1. RoundOf(approved, version, shown) \in Round
    BY DEF RoundOf, Round
  <2>2. Len(rounds) < MaxRound
    BY <1>1 DEF FirstWriter
  <2> QED BY <1>1, <2>1, <2>2, DraftAssumption
<1>2. ASSUME NEW rev \in Rows, NEW state \in {"pending_dispatch", "dispatching", "consumed", "void"},
             SetState(rev, state)
      PROVE  rounds' \in Seq(Round) /\ Len(rounds') = Len(rounds)
  <2>1. \A r \in Round : [r EXCEPT !.state = state] \in Round
    BY <1>2 DEF Round
  <2>2. rounds' = [rounds EXCEPT ![rev] = [rounds[rev] EXCEPT !.state = state]]
    BY <1>2 DEF SetState
  <2>3. rounds \in [1..Len(rounds) -> Round] /\ Len(rounds) \in Nat
    OBVIOUS
  <2>4. rounds' \in [1..Len(rounds) -> Round]
    BY <2>1, <2>2, <2>3
  <2> QED BY <2>3, <2>4
<1> QED BY <1>1, <1>2

LEMMA DraftTypeInit == Init => TypeOK
<1> SUFFICES ASSUME Init PROVE TypeOK
  OBVIOUS
<1>1. draft \in [status: Statuses, version: Versions, text: Texts, plan: Plans]
  BY DraftAssumption DEF Init, Statuses, Versions
<1>2. Idle \in DeciderState /\ Idle \in EditorState /\ Idle \in ExecutorState
  BY DEF DeciderState, EditorState, ExecutorState
<1>3. rounds \in Seq(Round) /\ Len(rounds) <= MaxRound
  BY DraftAssumption DEF Init
<1> QED BY <1>1, <1>2, <1>3 DEF Init, TypeOK

LEMMA DecisionTyping ==
  ASSUME TypeOK, NEW p \in Deciders, Decision(p)
  PROVE  TypeOK'
<1> DEFINE Draft == [status: Statuses, version: Versions, text: Texts, plan: Plans]
<1>0. /\ decider \in [Deciders -> DeciderState] /\ decider[p] \in DeciderState
      /\ draft \in Draft /\ Loaded \in Content
      /\ rounds \in Seq(Round) /\ Len(rounds) <= MaxRound /\ Len(rounds) \in Nat
      /\ reconfirmed \subseteq Rows /\ rejecting \subseteq Rows
  BY LoadedContent DEF TypeOK
<1>1. ASSUME NEW ok \in {TRUE}, NEW approved \in BOOLEAN, NEW version \in Versions,
             NEW rev \in Rows, NEW planned \in BOOLEAN, Answer(p, ok, approved, version, rev, planned)
      PROVE  decider' \in [Deciders -> DeciderState]
  <2>1. [pc |-> "answered", ok |-> ok, approved |-> approved, version |-> version,
         rev |-> rev, planned |-> planned] \in Answered
    BY DEF Answered
  <2> QED BY <1>0, <1>1, <2>1 DEF Answer, DeciderState
<1>2. Refuse(p) => decider' \in [Deciders -> DeciderState]
  BY <1>0, DeciderStates DEF Refuse
<1>3. Decided => Len(rounds) \in Rows /\ Current \in Round
  BY <1>0, DraftAssumption DEF Decided, Current, Rows
<1>4. Len(rounds) < MaxRound => Len(rounds) + 1 \in Rows
  BY <1>0, DraftAssumption DEF Rows
<1>11. CASE Look(p)
  BY <1>11, <1>0, DeciderStates DEF Look, TypeOK
<1>12. ASSUME NEW approved \in BOOLEAN, NEW plan \in Plans, ClientLoad(p, approved, plan)
       PROVE  TypeOK'
  <2>1. decider[p].shown \in Content
    BY <1>0, <1>12, DeciderShape DEF ClientLoad, Looking
  <2>2. draft.plan \in Plans
    BY <1>0
  <2>3. [pc |-> "loaded", shown |-> decider[p].shown, approved |-> approved,
         plan |-> IF approved THEN plan ELSE draft.plan,
         pending |-> draft.status = "pending_approval", draft |-> Loaded] \in LoadedCall
    BY <1>0, <2>1, <2>2 DEF LoadedCall
  <2> QED BY <1>0, <1>12, <2>3 DEF ClientLoad, TypeOK, DeciderState
<1>13. CASE ClientReadApproval(p)
  <2>1. decider[p] \in LoadedCall
    BY <1>0, <1>13, DeciderShape DEF ClientReadApproval
  <2>2. decider' \in [Deciders -> DeciderState] /\ reconfirmed' \subseteq Rows
    <3>1. CASE /\ Decided /\ Agrees(decider[p].approved)
               /\ Answer(p, TRUE, decider[p].approved, Current.version, Len(rounds), FALSE)
               /\ reconfirmed' = IF decider[p].approved THEN reconfirmed \cup {Len(rounds)}
                                                       ELSE reconfirmed
      <4>1. decider[p].approved \in BOOLEAN /\ Current.version \in Versions
        BY <2>1, <3>1, <1>3 DEF LoadedCall, Round
      <4> QED BY <3>1, <4>1, <1>0, <1>1, <1>3
    <3>2. ASSUME NEW s, s = [pc |-> IF decider[p].plan # decider[p].draft.plan
                                   THEN "planning" ELSE "writing",
                  via |-> "client", approved |-> decider[p].approved,
                  shown |-> [decider[p].shown EXCEPT !.plan = decider[p].plan],
                  version |-> decider[p].draft.version, planned |-> FALSE],
                 decider' = [decider EXCEPT ![p] = s], UNCHANGED reconfirmed
          PROVE  decider' \in [Deciders -> DeciderState] /\ reconfirmed' \subseteq Rows
      <4>1. decider[p].shown \in Content /\ decider[p].draft \in Content /\ decider[p].plan \in Plans
        BY <2>1 DEF LoadedCall
      <4>2. [decider[p].shown EXCEPT !.plan = decider[p].plan] \in Content
            /\ decider[p].draft.version \in Versions
        BY <4>1 DEF Content
      <4>3. s \in Writing
        BY <4>2, <3>2, <2>1 DEF Writing, LoadedCall
      <4> QED BY <1>0, <3>2, <4>3 DEF DeciderState
    <3>3. CASE Refuse(p) /\ UNCHANGED reconfirmed
      BY <3>3, <1>0, <1>2
    <3> QED BY <1>13, <3>1, <3>2, <3>3 DEF ClientReadApproval
  <2> QED BY <1>13, <1>0, <2>2 DEF ClientReadApproval, TypeOK
<1>14. CASE ClientPlanEdit(p)
  <2>1. decider[p] \in Writing
    BY <1>0, <1>14, DeciderShape DEF ClientPlanEdit
  <2>2. draft' \in Draft /\ decider' \in [Deciders -> DeciderState]
    <3>1. CASE ~Editable(decider[p].version)
      BY <3>1, <1>14, <1>0, <1>2 DEF ClientPlanEdit
    <3>2. CASE Editable(decider[p].version)
      <4>1. draft.text \in Texts /\ decider[p].shown.plan \in Plans
        BY <1>0, <2>1 DEF Writing, Content
      <4>2. draft' \in Draft
        BY <1>14, <3>2, <4>1, <1>0, DraftUpdate DEF ClientPlanEdit
      <4>3. draft.version + 1 \in Versions
        BY <1>14, <3>2, <1>0, DraftAssumption DEF ClientPlanEdit, Versions
      <4>4. [decider[p] EXCEPT !.pc = "writing", !.version = draft.version + 1, !.planned = TRUE]
              \in Writing
        BY <2>1, <4>3 DEF Writing
      <4> QED BY <1>14, <1>0, <3>2, <4>2, <4>4 DEF ClientPlanEdit, DeciderState
    <3> QED BY <3>1, <3>2
  <2> QED BY <1>14, <1>0, <2>2 DEF ClientPlanEdit, TypeOK
<1>15. ASSUME NEW approved \in BOOLEAN, FeishuCheck(p, approved)
       PROVE  TypeOK'
  <2>1. decider[p].shown \in Content
    BY <1>0, <1>15, DeciderShape DEF FeishuCheck, Looking
  <2>2. [pc |-> "writing", via |-> "feishu", approved |-> approved, shown |-> decider[p].shown,
         version |-> decider[p].shown.version, planned |-> FALSE] \in Writing
    BY <2>1 DEF Writing, Content
  <2>3. decider' \in [Deciders -> DeciderState]
    BY <1>15, <1>0, <1>2, <2>2 DEF FeishuCheck, DeciderState
  <2> QED BY <1>15, <1>0, <2>3 DEF FeishuCheck, TypeOK
<1>16. CASE WriteDecision(p)
  <2>1. decider[p] \in Writing
    BY <1>0, <1>16, DeciderShape DEF WriteDecision
  <2>2. /\ decider[p].approved \in BOOLEAN /\ decider[p].version \in Versions
        /\ decider[p].shown \in Content /\ decider[p].planned \in BOOLEAN
    BY <2>1 DEF Writing
  <2>3. CASE FirstWriter
    <3>1. Len(rounds) + 1 \in Rows
      BY <2>3, <1>4 DEF FirstWriter
    <3>2. rounds' \in Seq(Round) /\ Len(rounds') <= MaxRound
      BY <1>16, <2>2, <2>3, <1>0, RoundsUpdate DEF WriteDecision
    <3>3. decider' \in [Deciders -> DeciderState]
      BY <1>16, <2>2, <2>3, <3>1, <1>1 DEF WriteDecision
    <3> QED BY <1>16, <2>3, <3>1, <3>2, <3>3, <1>0 DEF WriteDecision, TypeOK
  <2>4. CASE ~FirstWriter
    <3>1. decider' \in [Deciders -> DeciderState]
      <4>1. CASE Agrees(decider[p].approved)
        <5>1. /\ Len(rounds) \in Rows
              /\ Answer(p, TRUE, decider[p].approved, decider[p].version, Len(rounds), decider[p].planned)
          BY <1>16, <2>4, <4>1, <1>3 DEF WriteDecision
        <5> QED BY <2>2, <5>1, <1>1
      <4>2. CASE ~Agrees(decider[p].approved)
        BY <1>16, <2>4, <4>2, <1>2 DEF WriteDecision
      <4> QED BY <4>1, <4>2
    <3>2. reconfirmed' \subseteq Rows
      BY <1>16, <2>2, <2>4, <1>0, <1>1, <1>2, <1>3 DEF WriteDecision
    <3> QED BY <1>16, <2>4, <3>1, <3>2, <1>0 DEF WriteDecision, TypeOK
  <2> QED BY <2>3, <2>4
<1>17. ASSUME NEW approved \in BOOLEAN, NEW named \in BOOLEAN, PanelCheck(p, approved, named)
       PROVE  TypeOK'
  <2>1. decider[p].shown \in Content
    BY <1>0, <1>17, DeciderShape DEF PanelCheck, Looking
  <2>2. 0 \in Versions
    BY DraftAssumption DEF Versions
  <2>3. [pc |-> "panelWriting", approved |-> approved, shown |-> decider[p].shown,
         version |-> IF named THEN decider[p].shown.version ELSE 0] \in PanelWriting
    BY <2>1, <2>2 DEF PanelWriting, Content
  <2>4. decider' \in [Deciders -> DeciderState]
    BY <1>17, <1>0, <1>2, <2>3 DEF PanelCheck, DeciderState
  <2> QED BY <1>17, <1>0, <2>4 DEF PanelCheck, TypeOK
<1>18. CASE PanelWrite(p)
  <2>1. decider[p] \in PanelWriting
    BY <1>0, <1>18, DeciderShape DEF PanelWrite
  <2>2. decider[p].approved \in BOOLEAN /\ decider[p].version \in Versions /\ decider[p].shown \in Content
    BY <2>1 DEF PanelWriting
  <2>3. rounds' \in Seq(Round) /\ Len(rounds') <= MaxRound
    BY <1>18, <2>2, <1>0, RoundsUpdate DEF PanelWrite
  <2>4. decider' \in [Deciders -> DeciderState]
    BY <1>18, <1>0, DeciderStates DEF PanelWrite
  <2> QED BY <1>18, <1>0, <2>3, <2>4 DEF PanelWrite, TypeOK
<1>19. CASE PanelReject(p)
  BY <1>19, <1>0, <1>2, DraftUpdate DEF PanelReject, TypeOK
<1>20. CASE DecisionAborted(p)
  BY <1>20, <1>0, <1>2 DEF DecisionAborted, TypeOK
<1> QED BY <1>11, <1>12, <1>13, <1>14, <1>15, <1>16, <1>17, <1>18, <1>19, <1>20 DEF Decision

LEMMA OtherTyping ==
  ASSUME TypeOK,
         \/ \E rev \in rejecting, ok \in BOOLEAN : MaterialiseRejection(rev, ok)
         \/ \E e \in Editors : Edit(e)
         \/ Execution
  PROVE  TypeOK'
<1> DEFINE Draft == [status: Statuses, version: Versions, text: Texts, plan: Plans]
<1>0. /\ draft \in Draft /\ Loaded \in Content
      /\ rounds \in Seq(Round) /\ Len(rounds) <= MaxRound /\ Len(rounds) \in Nat
      /\ editor \in [Editors -> EditorState] /\ executor \in ExecutorState
  BY LoadedContent DEF TypeOK
<1>1. Idle \in EditorState /\ Idle \in ExecutorState
  BY DEF EditorState, ExecutorState
<1>2. ASSUME NEW rev \in rejecting, NEW ok \in BOOLEAN, MaterialiseRejection(rev, ok)
      PROVE  TypeOK'
  BY <1>2, <1>0, DraftUpdate DEF MaterialiseRejection, TypeOK
<1>3. ASSUME NEW e \in Editors, Edit(e)
      PROVE  TypeOK'
  <2>1. CASE EditLook(e)
    <3>1. [pc |-> "editing", version |-> draft.version] \in EditorState
      BY <1>0 DEF EditorState
    <3> QED BY <2>1, <3>1, <1>0 DEF EditLook, TypeOK
  <2>2. CASE PanelEditGate(e)
    <3>1. [editor[e] EXCEPT !.pc = "panelEditing"] \in EditorState
      BY <2>2, <1>0, EditorShape DEF PanelEditGate, EditorState
    <3> QED BY <2>2, <3>1, <1>0, <1>1 DEF PanelEditGate, TypeOK
  <2>3. ASSUME NEW readable \in BOOLEAN, ImageRemoveGate(e, readable)
        PROVE  TypeOK'
    <3>1. [editor[e] EXCEPT !.pc = "removing"] \in EditorState
      BY <2>3, <1>0, EditorShape DEF ImageRemoveGate, EditorState
    <3> QED BY <2>3, <3>1, <1>0, <1>1 DEF ImageRemoveGate, TypeOK
  <2>4. ASSUME NEW text \in Texts, EditCommit(e, text)
        PROVE  TypeOK'
    <3>1. draft.plan \in Plans
      BY <1>0
    <3>2. draft' \in Draft
      BY <2>4, <3>1, <1>0, DraftUpdate DEF EditCommit
    <3> QED BY <2>4, <3>2, <1>0, <1>1 DEF EditCommit, TypeOK
  <2> QED BY <1>3, <2>1, <2>2, <2>3, <2>4 DEF Edit
<1>4. CASE Execution
  <2>1. CASE ExecutorClaim
    <3>1. Len(rounds) \in Rows
      BY <2>1, <1>0, DraftAssumption DEF ExecutorClaim, Decided, Rows
    <3>2. [pc |-> "claimed", rev |-> Len(rounds)] \in ExecutorState
      BY <3>1 DEF ExecutorState
    <3> QED BY <2>1, <3>1, <3>2, <1>0, RoundsUpdate DEF ExecutorClaim, TypeOK
  <2>2. CASE ExecutorLoad
    <3>1. executor' \in ExecutorState
      <4>1. executor.rev \in Rows
        BY <2>2, <1>0, ExecutorShape DEF ExecutorLoad
      <4>2. \A pc \in {"publishing", "voiding"} :
              [pc |-> pc, rev |-> executor.rev, draft |-> Loaded] \in ExecutorState
        BY <4>1, <1>0 DEF ExecutorState
      <4> QED BY <2>2, <4>2 DEF ExecutorLoad
    <3> QED BY <2>2, <3>1, <1>0 DEF ExecutorLoad, TypeOK
  <2>3. CASE ExecutorVoid
    <3>1. executor.rev \in Rows
      BY <2>3, <1>0, ExecutorShape DEF ExecutorVoid
    <3>2. rounds' \in Seq(Round) /\ Len(rounds') <= MaxRound
      BY <2>3, <3>1, <1>0, RoundsUpdate DEF ExecutorVoid
    <3> QED BY <2>3, <3>2, <1>0, <1>1 DEF ExecutorVoid, TypeOK
  <2>4. CASE ExecutorRelease
    <3>1. executor.rev \in Rows
      BY <2>4, <1>0, ExecutorShape DEF ExecutorRelease
    <3> QED BY <2>4, <3>1, <1>0, <1>1, RoundsUpdate DEF ExecutorRelease, TypeOK
  <2>5. CASE ExecutorPublish
    <3>1. executor.rev \in Rows /\ executor.draft \in Content
      BY <2>5, <1>0, ExecutorShape DEF ExecutorPublish
    <3>2. [pc |-> "consuming", rev |-> executor.rev] \in ExecutorState
      BY <3>1 DEF ExecutorState
    <3>3. draft' \in Draft
      BY <2>5, <1>0 DEF ExecutorPublish, Statuses
    <3>4. published' \subseteq [rev: Rows, content: Content]
      BY <2>5, <3>1 DEF ExecutorPublish, TypeOK
    <3> QED BY <2>5, <3>2, <3>3, <3>4, <1>0 DEF ExecutorPublish, TypeOK
  <2>6. CASE ExecutorConsume
    <3>1. executor.rev \in Rows
      BY <2>6, <1>0, ExecutorShape DEF ExecutorConsume
    <3> QED BY <2>6, <3>1, <1>0, <1>1, RoundsUpdate DEF ExecutorConsume, TypeOK
  <2> QED BY <1>4, <2>1, <2>2, <2>3, <2>4, <2>5, <2>6 DEF Execution
<1> QED BY <1>2, <1>3, <1>4

LEMMA DraftTypeStep == TypeOK /\ [Next]_vars => TypeOK'
<1> SUFFICES ASSUME TypeOK, [Next]_vars PROVE TypeOK'
  OBVIOUS
<1>1. CASE Next
  BY <1>1, DecisionTyping, OtherTyping DEF Next
<1>2. CASE UNCHANGED vars
  BY <1>2 DEF vars, TypeOK
<1> QED BY <1>1, <1>2

(* The type invariant, for any number of people, edits and rounds.             *)
THEOREM DraftTypeCorrect == Spec => []TypeOK
<1>1. Init => TypeOK
  BY DraftTypeInit
<1>2. TypeOK /\ [Next]_vars => TypeOK'
  BY DraftTypeStep
<1> QED BY <1>1, <1>2, PTL DEF Spec
-----------------------------------------------------------------------------
(* The inductive invariant.  A version is a promise about content: whoever     *)
(* holds a version that is still live holds the live content with it.          *)
Claim(row, v, c) ==
  /\ v <= row.version
  /\ v = row.version => c.text = row.text /\ c.plan = row.plan

Held(row, d) ==
  /\ d.pc \in {"looking", "loaded"} => Claim(row, d.shown.version, d.shown)
  /\ d.pc = "loaded" => Claim(row, d.draft.version, d.draft)
  /\ d.pc = "planning" /\ d.approved => Claim(row, d.version, [d.shown EXCEPT !.plan = row.plan])
  /\ d.pc \in {"writing", "panelWriting"} /\ d.approved => Claim(row, d.version, d.shown)

RejectionInForce == Decided /\ ~Current.approved

Claimed(row, round) == round.approved => Claim(row, round.version, round.shown)

ClaimsHold ==
  /\ \A p \in Deciders : Held(draft, decider[p])
  /\ \A i \in DOMAIN rounds : Claimed(draft, rounds[i])

ExecutionHonest ==
  /\ executor.pc # "idle" => executor.rev \in DOMAIN rounds /\ rounds[executor.rev].approved
  /\ executor.pc = "publishing" => ContentOf(executor.draft) = ContentOf(rounds[executor.rev].shown)
  /\ \A x \in published :
       x.rev \in DOMAIN rounds /\ ContentOf(x.content) = ContentOf(rounds[x.rev].shown)

Honoured(rows, d) ==
  d.pc = "answered" => d.rev \in DOMAIN rows /\ rows[d.rev].approved = d.approved

ApprovedIn(rows, rev) == rev \in DOMAIN rows /\ rows[rev].approved

VerdictsHold ==
  /\ \A p \in Deciders : Honoured(rounds, decider[p])
  /\ \A rev \in reconfirmed : ApprovedIn(rounds, rev)

RejectionsHold ==
  /\ draft.status = "needs_review" => RejectionInForce
  /\ rejecting # {} => RejectionInForce
  /\ \A p \in Deciders : decider[p].pc = "panelRejecting" => RejectionInForce

ReviewInv == TypeOK /\ ClaimsHold /\ ExecutionHonest /\ VerdictsHold /\ RejectionsHold
-----------------------------------------------------------------------------
(* What every step keeps: content under its version, decided rounds, a         *)
(* rejection in force.                                                         *)
KeepsDraft ==
  \/ draft'.version > draft.version
  \/ draft'.version = draft.version /\ draft'.text = draft.text /\ draft'.plan = draft.plan

KeepsRows ==
  \A i \in DOMAIN rounds :
    /\ i \in DOMAIN rounds'
    /\ rounds'[i].approved = rounds[i].approved
    /\ rounds'[i].version = rounds[i].version
    /\ rounds'[i].shown = rounds[i].shown

LEMMA EditKeepsDraft ==
  ASSUME TypeOK
  PROVE  /\ \A text, plan : EditDraft(text, plan) => KeepsDraft
         /\ RejectPendingApproval => KeepsDraft
         /\ UNCHANGED draft => KeepsDraft
<1>0. draft \in [status: Statuses, version: Versions, text: Texts, plan: Plans]
  BY DEF TypeOK
<1>1. draft.version \in Int
  BY <1>0 DEF Versions
<1>2. ASSUME NEW text, NEW plan, EditDraft(text, plan)
      PROVE  KeepsDraft
  <2>1. draft'.version = draft.version + 1
    BY <1>0, <1>2 DEF EditDraft
  <2> QED BY <1>1, <2>1 DEF KeepsDraft
<1>3. RejectPendingApproval => KeepsDraft
  BY <1>0 DEF RejectPendingApproval, KeepsDraft
<1>4. UNCHANGED draft => KeepsDraft
  BY DEF KeepsDraft
<1> QED BY <1>2, <1>3, <1>4

LEMMA DecideKeepsRows ==
  ASSUME TypeOK, FirstWriter, NEW row \in Round, rounds' = Append(rounds, row)
  PROVE  /\ KeepsRows /\ ~RejectionInForce
         /\ Len(rounds') = Len(rounds) + 1 /\ Len(rounds') \in DOMAIN rounds'
         /\ rounds'[Len(rounds')] = row
         /\ \A i \in DOMAIN rounds' : i \in DOMAIN rounds \/ i = Len(rounds')
<1>1. rounds \in Seq(Round) /\ Len(rounds) \in Nat
  BY DEF TypeOK
<1> QED BY <1>1 DEF FirstWriter, KeepsRows, RejectionInForce

LEMMA SetStateKeepsRows ==
  ASSUME TypeOK, NEW rev \in DOMAIN rounds, rounds[rev].approved,
         NEW state \in {"pending_dispatch", "dispatching", "consumed", "void"}, SetState(rev, state)
  PROVE  KeepsRows /\ DOMAIN rounds' = DOMAIN rounds /\ (RejectionInForce => RejectionInForce')
<1>1. rounds \in Seq(Round) /\ Len(rounds) \in Nat
  BY DEF TypeOK
<1>2. \A i \in DOMAIN rounds : rounds[i] \in Round
  BY <1>1
<1>3. /\ Len(rounds') = Len(rounds) /\ DOMAIN rounds' = DOMAIN rounds
      /\ \A i \in DOMAIN rounds : rounds'[i] = IF i = rev THEN [rounds[rev] EXCEPT !.state = state]
                                                        ELSE rounds[i]
  BY <1>1 DEF SetState
<1>4. KeepsRows
  BY <1>2, <1>3 DEF KeepsRows, Round
<1>5. RejectionInForce => RejectionInForce'
  <2> SUFFICES ASSUME RejectionInForce PROVE RejectionInForce'
    OBVIOUS
  <2>1. Len(rounds) \in DOMAIN rounds /\ Len(rounds) # rev
    BY <1>1 DEF RejectionInForce, Decided, Current
  <2>2. rounds'[Len(rounds')] = rounds[Len(rounds)]
    BY <1>3, <2>1
  <2> QED BY <1>3, <2>2 DEF RejectionInForce, Decided, Current
<1> QED BY <1>3, <1>4, <1>5

LEMMA SameRounds ==
  ASSUME UNCHANGED rounds
  PROVE  KeepsRows /\ (RejectionInForce => RejectionInForce')
  BY DEF KeepsRows, RejectionInForce, Decided, Current

LEMMA ClaimKept ==
  ASSUME TypeOK, TypeOK', KeepsDraft, NEW v \in Int, NEW c, Claim(draft, v, c)
  PROVE  Claim(draft', v, c)
<1>1. draft.version \in Int /\ draft'.version \in Int
  BY DraftAssumption DEF TypeOK, Versions
<1> QED BY <1>1 DEF Claim, KeepsDraft

LEMMA HeldKept ==
  ASSUME TypeOK, TypeOK', KeepsDraft, NEW d \in DeciderState, Held(draft, d)
  PROVE  Held(draft', d)
<1>0. Versions \subseteq Int
  BY DEF Versions
<1>1. CASE d.pc = "looking"
  <2>1. d.shown.version \in Int
    BY <1>0, <1>1, DeciderShape DEF Looking, Content
  <2> QED BY <1>1, <2>1, ClaimKept DEF Held
<1>2. CASE d.pc = "loaded"
  <2>1. d.shown.version \in Int /\ d.draft.version \in Int
    BY <1>0, <1>2, DeciderShape DEF LoadedCall, Content
  <2> QED BY <1>2, <2>1, ClaimKept DEF Held
<1>3. CASE d.pc = "planning"
  <2>1. d.version \in Int /\ d.shown \in Content
    BY <1>0, <1>3, DeciderShape DEF Writing
  <2>2. draft.version \in Int /\ draft'.version \in Int
    BY <1>0 DEF TypeOK
  <2>3. Claim(draft, d.version, [d.shown EXCEPT !.plan = draft.plan])
          => Claim(draft', d.version, [d.shown EXCEPT !.plan = draft'.plan])
    BY <2>1, <2>2 DEF Claim, KeepsDraft, Content
  <2> QED BY <1>3, <2>3 DEF Held
<1>4. CASE d.pc \in {"writing", "panelWriting"}
  <2>1. d.version \in Int
    BY <1>0, <1>4, DeciderShape DEF Writing, PanelWriting
  <2>2. Claim(draft, d.version, d.shown) => Claim(draft', d.version, d.shown)
    BY <2>1, ClaimKept
  <2> QED BY <1>4, <2>2 DEF Held
<1>5. CASE d.pc \notin {"looking", "loaded", "planning", "writing", "panelWriting"}
  BY <1>5 DEF Held
<1> QED BY <1>1, <1>2, <1>3, <1>4, <1>5

LEMMA ClaimsKept ==
  ASSUME ReviewInv, TypeOK', KeepsDraft, KeepsRows,
         \A p \in Deciders : decider'[p] = decider[p] \/ Held(draft', decider'[p]),
         \A i \in DOMAIN rounds' : i \in DOMAIN rounds \/ Claimed(draft', rounds'[i])
  PROVE  ClaimsHold'
<1>1. ASSUME NEW p \in Deciders
      PROVE  Held(draft', decider'[p])
  <2>1. decider[p] \in DeciderState /\ Held(draft, decider[p])
    BY DEF ReviewInv, TypeOK, ClaimsHold
  <2>2. Held(draft', decider[p])
    BY <2>1, HeldKept DEF ReviewInv
  <2> QED BY <2>2
<1>2. ASSUME NEW i \in DOMAIN rounds', rounds'[i].approved
      PROVE  Claim(draft', rounds'[i].version, rounds'[i].shown)
  <2>1. CASE i \in DOMAIN rounds
    <3>1. rounds[i].approved /\ rounds'[i].version = rounds[i].version
          /\ rounds'[i].shown = rounds[i].shown
      BY <1>2, <2>1 DEF KeepsRows
    <3>2. rounds[i].version \in Int
      <4>1. rounds \in Seq(Round)
        BY DEF ReviewInv, TypeOK
      <4>2. rounds[i] \in Round
        BY <2>1, <4>1
      <4> QED BY <4>2 DEF Round, Versions
    <3>3. Claim(draft, rounds[i].version, rounds[i].shown)
      BY <2>1, <3>1 DEF ReviewInv, ClaimsHold, Claimed
    <3>4. Claim(draft', rounds[i].version, rounds[i].shown)
      BY <3>2, <3>3, ClaimKept DEF ReviewInv
    <3> QED BY <3>1, <3>4
  <2>2. CASE i \notin DOMAIN rounds
    BY <1>2, <2>2 DEF Claimed
  <2> QED BY <2>1, <2>2
<1> QED BY <1>1, <1>2 DEF ClaimsHold, Claimed

LEMMA ExecutionKept ==
  ASSUME ReviewInv, KeepsRows, UNCHANGED <<executor, published>>
  PROVE  ExecutionHonest'
<1>1. /\ executor.pc # "idle" => executor.rev \in DOMAIN rounds'
                                 /\ rounds'[executor.rev].approved
      /\ executor.pc = "publishing"
           => ContentOf(executor.draft) = ContentOf(rounds'[executor.rev].shown)
  BY DEF ReviewInv, ExecutionHonest, KeepsRows
<1>2. \A x \in published :
        x.rev \in DOMAIN rounds' /\ ContentOf(x.content) = ContentOf(rounds'[x.rev].shown)
  BY DEF ReviewInv, ExecutionHonest, KeepsRows
<1> QED BY <1>1, <1>2 DEF ExecutionHonest

LEMMA VerdictsKept ==
  ASSUME ReviewInv, KeepsRows,
         \A p \in Deciders : decider'[p] = decider[p] \/ Honoured(rounds', decider'[p]),
         \A rev \in reconfirmed' : rev \in reconfirmed \/ ApprovedIn(rounds', rev)
  PROVE  VerdictsHold'
<1>1. \A p \in Deciders : Honoured(rounds', decider[p])
  BY DEF ReviewInv, VerdictsHold, KeepsRows, Honoured
<1>2. \A rev \in reconfirmed : ApprovedIn(rounds', rev)
  BY DEF ReviewInv, VerdictsHold, KeepsRows, ApprovedIn
<1> QED BY <1>1, <1>2 DEF VerdictsHold

LEMMA RejectionsKept ==
  ASSUME ReviewInv, RejectionInForce => RejectionInForce',
         \A p \in Deciders : \/ decider'[p] = decider[p]
                            \/ decider'[p].pc # "panelRejecting"
                            \/ RejectionInForce',
         draft'.status = "needs_review" => draft.status = "needs_review" \/ RejectionInForce',
         rejecting' # {} => rejecting # {} \/ RejectionInForce'
  PROVE  RejectionsHold'
  BY DEF ReviewInv, RejectionsHold

(* A step of one decider: what is left to show is about its own new state, a   *)
(* round it added and a rejection it started.                                  *)
LEMMA DeciderStep ==
  ASSUME ReviewInv, TypeOK', KeepsDraft, KeepsRows, RejectionInForce => RejectionInForce',
         UNCHANGED <<executor, published>>,
         NEW p \in Deciders, \A q \in Deciders : q # p => decider'[q] = decider[q],
         Held(draft', decider'[p]),
         Honoured(rounds', decider'[p]),
         decider'[p].pc # "panelRejecting" \/ RejectionInForce',
         \A i \in DOMAIN rounds' : i \in DOMAIN rounds \/ Claimed(draft', rounds'[i]),
         \A rev \in reconfirmed' : rev \in reconfirmed \/ ApprovedIn(rounds', rev),
         draft'.status = "needs_review" => draft.status = "needs_review" \/ RejectionInForce',
         rejecting' # {} => rejecting # {} \/ RejectionInForce'
  PROVE  ReviewInv'
<1>1. ClaimsHold'
  BY ClaimsKept
<1>2. ExecutionHonest'
  BY ExecutionKept
<1>3. VerdictsHold'
  BY VerdictsKept
<1>4. RejectionsHold'
  BY RejectionsKept
<1> QED BY <1>1, <1>2, <1>3, <1>4 DEF ReviewInv

(* A decider's step in which nothing but its own state changes.                *)
LEMMA PrivateStep ==
  ASSUME ReviewInv, TypeOK', UNCHANGED <<draft, rounds, rejecting, reconfirmed, executor, published>>,
         NEW p \in Deciders, NEW s, decider' = [decider EXCEPT ![p] = s],
         Held(draft, s), s.pc \notin {"answered", "panelRejecting"}
  PROVE  ReviewInv'
<1>1. decider'[p] = s /\ \A q \in Deciders : q # p => decider'[q] = decider[q]
  BY DEF ReviewInv, TypeOK
<1>2. KeepsDraft
  BY EditKeepsDraft DEF ReviewInv
<1>3. KeepsRows /\ (RejectionInForce => RejectionInForce')
  BY SameRounds
<1>4. Held(draft', decider'[p]) /\ Honoured(rounds', decider'[p])
  BY <1>1 DEF Honoured
<1>5. decider'[p].pc # "panelRejecting"
  BY <1>1
<1>6. /\ \A i \in DOMAIN rounds' : i \in DOMAIN rounds
      /\ \A rev \in reconfirmed' : rev \in reconfirmed
      /\ draft' = draft /\ rejecting' = rejecting /\ UNCHANGED <<executor, published>>
  OBVIOUS
<1> QED BY <1>1, <1>2, <1>3, <1>4, <1>5, <1>6, DeciderStep

LEMMA IdleHeld == Held(draft, Idle) /\ Idle.pc \notin {"answered", "panelRejecting"}
  BY DEF Held, Idle

LEMMA RefuseStep ==
  ASSUME ReviewInv, TypeOK', NEW p \in Deciders, Refuse(p),
         UNCHANGED <<draft, rounds, rejecting, reconfirmed, executor, published>>
  PROVE  ReviewInv'
<1>1. decider' = [decider EXCEPT ![p] = Idle]
  BY DEF Refuse
<1> QED BY <1>1, IdleHeld, PrivateStep

LEMMA LiveClaims ==
  ASSUME TypeOK
  PROVE  /\ draft.version \in Int
         /\ Loaded.version = draft.version
         /\ Loaded.text = draft.text
         /\ Loaded.plan = draft.plan
         /\ Claim(draft, draft.version, Loaded)
<1>1. draft.version \in Int
  BY DEF TypeOK, Versions
<1>2. Loaded.version = draft.version /\ Loaded.text = draft.text /\ Loaded.plan = draft.plan
  BY DEF Loaded
<1> QED BY <1>1, <1>2 DEF Claim

(* Opening, loading and checking: the state a decider goes on with claims only *)
(* what its screen or its load claimed.                                        *)
LEMMA LookKeeps ==
  ASSUME ReviewInv, TypeOK', NEW p \in Deciders, Look(p)
  PROVE  ReviewInv'
<1> DEFINE s == [pc |-> "looking", shown |-> Loaded]
<1>1. s.pc = "looking" /\ s.shown = Loaded
  OBVIOUS
<1>2. decider' = [decider EXCEPT ![p] = s]
  BY DEF Look
<1>3. UNCHANGED <<draft, rounds, rejecting, reconfirmed, executor, published>>
  BY DEF Look
<1> HIDE DEF s
<1>4. Held(draft, s)
  BY <1>1, LiveClaims DEF Held, ReviewInv
<1> QED BY <1>1, <1>2, <1>3, <1>4, PrivateStep

LEMMA ClientLoadKeeps ==
  ASSUME ReviewInv, TypeOK', NEW p \in Deciders, NEW approved \in BOOLEAN, NEW plan \in Plans,
         ClientLoad(p, approved, plan)
  PROVE  ReviewInv'
<1> DEFINE s == [pc |-> "loaded", shown |-> decider[p].shown, approved |-> approved,
                 plan |-> IF approved THEN plan ELSE draft.plan,
                 pending |-> draft.status = "pending_approval", draft |-> Loaded]
<1>1. s.pc = "loaded" /\ s.shown = decider[p].shown /\ s.draft = Loaded
  OBVIOUS
<1>2. decider' = [decider EXCEPT ![p] = s]
  BY DEF ClientLoad
<1>3. UNCHANGED <<draft, rounds, rejecting, reconfirmed, executor, published>>
  BY DEF ClientLoad
<1> HIDE DEF s
<1>4. Claim(draft, decider[p].shown.version, decider[p].shown)
  BY DEF ClientLoad, ReviewInv, ClaimsHold, Held
<1>5. Held(draft, s)
  BY <1>1, <1>4, LiveClaims DEF Held, ReviewInv
<1> QED BY <1>1, <1>2, <1>3, <1>5, PrivateStep

LEMMA FeishuCheckKeeps ==
  ASSUME ReviewInv, TypeOK', NEW p \in Deciders, NEW approved \in BOOLEAN, FeishuCheck(p, approved)
  PROVE  ReviewInv'
<1>0. UNCHANGED <<draft, rounds, rejecting, reconfirmed, executor, published>>
  BY DEF FeishuCheck
<1>1. CASE Refuse(p)
  BY <1>0, <1>1, RefuseStep
<1>2. CASE ~Refuse(p)
  <2> DEFINE s == [pc |-> "writing", via |-> "feishu", approved |-> approved,
                   shown |-> decider[p].shown, version |-> decider[p].shown.version,
                   planned |-> FALSE]
  <2>1. /\ s.pc = "writing" /\ s.shown = decider[p].shown
        /\ s.version = decider[p].shown.version
    OBVIOUS
  <2>2. decider' = [decider EXCEPT ![p] = s]
    BY <1>2 DEF FeishuCheck
  <2> HIDE DEF s
  <2>3. Claim(draft, decider[p].shown.version, decider[p].shown)
    BY DEF FeishuCheck, ReviewInv, ClaimsHold, Held
  <2>4. Held(draft, s)
    BY <2>1, <2>3 DEF Held
  <2> QED BY <1>0, <2>1, <2>2, <2>4, PrivateStep
<1> QED BY <1>1, <1>2

LEMMA PanelCheckKeeps ==
  ASSUME ReviewInv, TypeOK', NEW p \in Deciders, NEW approved \in BOOLEAN, NEW named \in BOOLEAN,
         PanelCheck(p, approved, named)
  PROVE  ReviewInv'
<1>0. UNCHANGED <<draft, rounds, rejecting, reconfirmed, executor, published>>
  BY DEF PanelCheck
<1>1. CASE Refuse(p)
  BY <1>0, <1>1, RefuseStep
<1>2. CASE ~Refuse(p)
  <2> DEFINE s == [pc |-> "panelWriting", approved |-> approved, shown |-> decider[p].shown,
                   version |-> IF named THEN decider[p].shown.version ELSE 0]
  <2>1. /\ s.pc = "panelWriting" /\ s.shown = decider[p].shown
        /\ s.version \in {decider[p].shown.version, 0}
    OBVIOUS
  <2>2. decider' = [decider EXCEPT ![p] = s]
    BY <1>2 DEF PanelCheck
  <2> HIDE DEF s
  <2>3. Claim(draft, decider[p].shown.version, decider[p].shown)
    BY DEF PanelCheck, ReviewInv, ClaimsHold, Held
  <2>4. draft.version \in Nat /\ decider[p].shown.version \in Nat
    <3>1. decider[p] \in Looking
      BY DeciderShape DEF PanelCheck, ReviewInv, TypeOK
    <3> QED BY <3>1 DEF Looking, Content, ReviewInv, TypeOK, Versions
  <2>5. Claim(draft, 0, decider[p].shown)
    BY <2>3, <2>4 DEF Claim
  <2>6. Held(draft, s)
    BY <2>1, <2>3, <2>5 DEF Held
  <2> QED BY <1>0, <2>1, <2>2, <2>6, PrivateStep
<1> QED BY <1>1, <1>2

LEMMA ClientReadKeeps ==
  ASSUME ReviewInv, TypeOK', NEW p \in Deciders, ClientReadApproval(p)
  PROVE  ReviewInv'
<1> DEFINE d == decider[p]
<1>0. /\ d \in LoadedCall /\ decider \in [Deciders -> DeciderState]
      /\ Claim(draft, d.shown.version, d.shown) /\ Claim(draft, d.draft.version, d.draft)
  <2>1. d.pc = "loaded" /\ d \in DeciderState /\ Held(draft, d) /\ decider \in [Deciders -> DeciderState]
    BY DEF ClientReadApproval, ReviewInv, TypeOK, ClaimsHold
  <2> QED BY <2>1, DeciderShape DEF Held
<1>1. UNCHANGED <<draft, rounds, rejecting, executor, published>>
  BY DEF ClientReadApproval
<1>2. CASE /\ Decided /\ Agrees(d.approved)
           /\ Answer(p, TRUE, d.approved, Current.version, Len(rounds), FALSE)
           /\ reconfirmed' = IF d.approved THEN reconfirmed \cup {Len(rounds)} ELSE reconfirmed
  <2> DEFINE s == [pc |-> "answered", ok |-> TRUE, approved |-> d.approved,
                   version |-> Current.version, rev |-> Len(rounds), planned |-> FALSE]
  <2>1. s.pc = "answered" /\ s.approved = d.approved /\ s.rev = Len(rounds)
    OBVIOUS
  <2>2. decider' = [decider EXCEPT ![p] = s]
    BY <1>2 DEF Answer
  <2> HIDE DEF s
  <2>3. decider'[p] = s /\ \A q \in Deciders : q # p => decider'[q] = decider[q]
    BY <2>2, <1>0
  <2>4. Len(rounds) \in DOMAIN rounds /\ rounds[Len(rounds)].approved = d.approved
    BY <1>2 DEF Decided, Current, Agrees, ReviewInv, TypeOK
  <2>5. Honoured(rounds', decider'[p]) /\ Held(draft', decider'[p])
    BY <1>1, <2>1, <2>3, <2>4 DEF Honoured, Held
  <2>6. decider'[p].pc # "panelRejecting"
    BY <2>1, <2>3
  <2>7. \A rev \in reconfirmed' : rev \in reconfirmed \/ ApprovedIn(rounds', rev)
    BY <1>1, <1>2, <2>4 DEF ApprovedIn
  <2>8. KeepsDraft /\ KeepsRows /\ (RejectionInForce => RejectionInForce')
    BY <1>1, SameRounds, EditKeepsDraft DEF ReviewInv
  <2>9. /\ \A i \in DOMAIN rounds' : i \in DOMAIN rounds
        /\ draft' = draft /\ rejecting' = rejecting /\ UNCHANGED <<executor, published>>
    BY <1>1
  <2> QED BY <2>3, <2>5, <2>6, <2>7, <2>8, <2>9, DeciderStep
<1>3. ASSUME d.approved => d.shown.version = d.draft.version, UNCHANGED reconfirmed,
             NEW s, s = [pc |-> IF d.plan # d.draft.plan THEN "planning" ELSE "writing",
              via |-> "client", approved |-> d.approved, shown |-> [d.shown EXCEPT !.plan = d.plan],
              version |-> d.draft.version, planned |-> FALSE],
             decider' = [decider EXCEPT ![p] = s]
      PROVE  ReviewInv'
  <2>1. /\ s.pc = IF d.plan # d.draft.plan THEN "planning" ELSE "writing"
        /\ s.approved = d.approved /\ s.version = d.draft.version
        /\ s.shown = [d.shown EXCEPT !.plan = d.plan]
    BY <1>3
  <2>2. /\ d.shown \in Content /\ d.draft \in Content
    BY <1>0 DEF LoadedCall
  <2>3. s.shown = [version |-> d.shown.version, text |-> d.shown.text, plan |-> d.plan]
    BY <2>1, <2>2 DEF Content
  <2>4. d.approved => \/ d.draft.version # draft.version /\ d.draft.version <= draft.version
                      \/ /\ d.draft.version = draft.version
                         /\ d.shown.text = draft.text /\ d.draft.plan = draft.plan
    BY <1>0, <1>3, LiveClaims DEF Claim, ReviewInv
  <2>5. s.approved /\ s.pc = "planning" => Claim(draft, s.version, [s.shown EXCEPT !.plan = draft.plan])
    <3>1. [s.shown EXCEPT !.plan = draft.plan].plan = draft.plan
          /\ [s.shown EXCEPT !.plan = draft.plan].text = s.shown.text
      BY <2>3
    <3> QED BY <2>1, <2>3, <2>4, <3>1, LiveClaims DEF Claim, ReviewInv
  <2>6. s.approved /\ s.pc = "writing" => Claim(draft, s.version, s.shown)
    BY <2>1, <2>3, <2>4, LiveClaims DEF Claim, ReviewInv
  <2>7. Held(draft, s) /\ s.pc \notin {"answered", "panelRejecting"}
    BY <2>1, <2>5, <2>6 DEF Held
  <2> QED BY <1>1, <1>3, <2>7, PrivateStep
<1>4. CASE Refuse(p) /\ UNCHANGED reconfirmed
  BY <1>1, <1>4, RefuseStep
<1> QED BY <1>2, <1>3, <1>4 DEF ClientReadApproval

LEMMA ClientPlanEditKeeps ==
  ASSUME ReviewInv, TypeOK', NEW p \in Deciders, ClientPlanEdit(p)
  PROVE  ReviewInv'
<1> DEFINE d == decider[p]
<1>0. UNCHANGED <<rounds, rejecting, reconfirmed, executor, published>>
  BY DEF ClientPlanEdit
<1>1. CASE ~Editable(d.version)
  BY <1>0, <1>1, RefuseStep DEF ClientPlanEdit
<1>2. CASE Editable(d.version)
  <2>1. /\ d \in Writing /\ decider \in [Deciders -> DeciderState] /\ Held(draft, d)
        /\ d.pc = "planning"
    BY DeciderShape DEF ClientPlanEdit, ReviewInv, TypeOK, ClaimsHold
  <2>2. d.shown \in Content /\ draft \in [status: Statuses, version: Versions, text: Texts, plan: Plans]
        /\ draft.version \in Int
    BY <2>1, LiveClaims DEF Writing, ReviewInv, TypeOK
  <2> DEFINE s == [d EXCEPT !.pc = "writing", !.version = draft.version + 1, !.planned = TRUE]
  <2>3. /\ s.pc = "writing" /\ s.version = draft.version + 1
        /\ s.shown = d.shown /\ s.approved = d.approved
    BY <2>1 DEF Writing
  <2>4. decider' = [decider EXCEPT ![p] = s] /\ EditDraft(draft.text, d.shown.plan)
    BY <1>2 DEF ClientPlanEdit
  <2> HIDE DEF s
  <2>5. /\ draft'.version = draft.version + 1 /\ draft'.text = draft.text
        /\ draft'.plan = d.shown.plan /\ draft'.status = draft.status
    BY <2>2, <2>4 DEF EditDraft
  <2>6. decider'[p] = s /\ \A q \in Deciders : q # p => decider'[q] = decider[q]
    BY <2>1, <2>4
  <2>7. Held(draft', s)
    <3>1. d.approved => d.shown.text = draft.text
      <4>1. [d.shown EXCEPT !.plan = draft.plan].text = d.shown.text
        BY <2>2 DEF Content
      <4>2. d.approved => Claim(draft, d.version, [d.shown EXCEPT !.plan = draft.plan])
        BY <2>1 DEF Held
      <4> QED BY <1>2, <4>1, <4>2 DEF Claim, Editable
    <3>2. s.approved => Claim(draft', s.version, s.shown)
      BY <2>2, <2>3, <2>5, <3>1 DEF Claim
    <3> QED BY <2>3, <3>2 DEF Held
  <2>8. Honoured(rounds', s) /\ s.pc # "panelRejecting"
    BY <2>3 DEF Honoured
  <2>9. KeepsDraft /\ KeepsRows /\ (RejectionInForce => RejectionInForce')
    BY <1>0, <2>4, SameRounds, EditKeepsDraft DEF ReviewInv
  <2>10. /\ \A i \in DOMAIN rounds' : i \in DOMAIN rounds
         /\ \A rev \in reconfirmed' : rev \in reconfirmed
         /\ rejecting' = rejecting /\ UNCHANGED <<executor, published>>
    BY <1>0
  <2> QED BY <2>5, <2>6, <2>7, <2>8, <2>9, <2>10, DeciderStep
<1> QED BY <1>1, <1>2

(* The round a first writer appends carries its claim, and its verdict is the  *)
(* decision in force.                                                          *)
LEMMA NewRound ==
  ASSUME ReviewInv, FirstWriter, NEW approved \in BOOLEAN, NEW version \in Versions,
         NEW shown \in Content, approved => Claim(draft, version, shown),
         rounds' = Append(rounds, RoundOf(approved, version, shown)), UNCHANGED draft
  PROVE  /\ KeepsDraft /\ KeepsRows /\ (RejectionInForce => RejectionInForce')
         /\ Len(rounds') = Len(rounds) + 1 /\ Len(rounds') \in DOMAIN rounds'
         /\ rounds'[Len(rounds')].approved = approved
         /\ \A i \in DOMAIN rounds' : i \in DOMAIN rounds \/ Claimed(draft', rounds'[i])
         /\ ~approved => RejectionInForce'
<1> DEFINE row == RoundOf(approved, version, shown)
<1>1. row \in Round
  BY DEF RoundOf, Round
<1>2. /\ row.approved = approved /\ row.version = version /\ row.shown = shown
      /\ row.state # "void"
  BY DEF RoundOf
<1> HIDE DEF row
<1>3. /\ KeepsRows /\ ~RejectionInForce
      /\ Len(rounds') = Len(rounds) + 1 /\ Len(rounds') \in DOMAIN rounds'
      /\ rounds'[Len(rounds')] = row
      /\ \A i \in DOMAIN rounds' : i \in DOMAIN rounds \/ i = Len(rounds')
  BY <1>1, DecideKeepsRows DEF ReviewInv, row
<1>4. Claimed(draft', row)
  BY <1>2 DEF Claimed
<1>5. ~approved => RejectionInForce'
  <2>1. Len(rounds') > 0
    BY <1>3 DEF ReviewInv, TypeOK
  <2> QED BY <1>2, <1>3, <2>1 DEF RejectionInForce, Decided, Current
<1>6. KeepsDraft
  BY EditKeepsDraft DEF ReviewInv
<1> QED BY <1>2, <1>3, <1>4, <1>5, <1>6

LEMMA WriteDecisionKeeps ==
  ASSUME ReviewInv, TypeOK', NEW p \in Deciders, WriteDecision(p)
  PROVE  ReviewInv'
<1> DEFINE d == decider[p]
<1>0. UNCHANGED <<draft, executor, published>> /\ draft' = draft
  BY DEF WriteDecision
<1>1. d \in Writing /\ d.pc = "writing" /\ Held(draft, d) /\ decider \in [Deciders -> DeciderState]
  BY DeciderShape DEF WriteDecision, ReviewInv, TypeOK, ClaimsHold
<1>2. /\ d.approved \in BOOLEAN /\ d.version \in Versions /\ d.shown \in Content
      /\ d.approved => Claim(draft, d.version, d.shown)
  BY <1>1 DEF Writing, Held
<1>3. ASSUME NEW n, Answer(p, TRUE, d.approved, d.version, n, d.planned),
             n \in DOMAIN rounds', rounds'[n].approved = d.approved
      PROVE  /\ \A q \in Deciders : q # p => decider'[q] = decider[q]
             /\ Held(draft', decider'[p]) /\ Honoured(rounds', decider'[p])
             /\ decider'[p].pc # "panelRejecting"
  <2> DEFINE s == [pc |-> "answered", ok |-> TRUE, approved |-> d.approved,
                   version |-> d.version, rev |-> n, planned |-> d.planned]
  <2>1. s.pc = "answered" /\ s.approved = d.approved /\ s.rev = n
    OBVIOUS
  <2>2. decider' = [decider EXCEPT ![p] = s]
    BY <1>3 DEF Answer
  <2> HIDE DEF s
  <2>3. decider'[p] = s /\ \A q \in Deciders : q # p => decider'[q] = decider[q]
    BY <2>2, <1>1
  <2> QED BY <2>1, <2>3, <1>3 DEF Held, Honoured
<1>4. CASE FirstWriter
  <2>1. /\ rounds' = Append(rounds, RoundOf(d.approved, d.version, d.shown))
        /\ Answer(p, TRUE, d.approved, d.version, Len(rounds) + 1, d.planned)
        /\ rejecting' = IF d.approved THEN rejecting ELSE rejecting \cup {Len(rounds) + 1}
        /\ UNCHANGED reconfirmed
    BY <1>4 DEF WriteDecision
  <2>2. /\ KeepsDraft /\ KeepsRows /\ (RejectionInForce => RejectionInForce')
        /\ Len(rounds') = Len(rounds) + 1 /\ Len(rounds') \in DOMAIN rounds'
        /\ rounds'[Len(rounds')].approved = d.approved
        /\ \A i \in DOMAIN rounds' : i \in DOMAIN rounds \/ Claimed(draft', rounds'[i])
        /\ ~d.approved => RejectionInForce'
    BY <1>0, <1>2, <1>4, <2>1, NewRound
  <2>3. /\ \A q \in Deciders : q # p => decider'[q] = decider[q]
        /\ Held(draft', decider'[p]) /\ Honoured(rounds', decider'[p])
        /\ decider'[p].pc # "panelRejecting"
    BY <1>3, <2>1, <2>2
  <2>4. /\ \A rev \in reconfirmed' : rev \in reconfirmed
        /\ rejecting' # {} => rejecting # {} \/ RejectionInForce'
    BY <2>1, <2>2
  <2> QED BY <1>0, <2>2, <2>3, <2>4, DeciderStep
<1>5. CASE ~FirstWriter /\ Agrees(d.approved)
  <2>1. /\ Answer(p, TRUE, d.approved, d.version, Len(rounds), d.planned)
        /\ reconfirmed' = IF d.approved THEN reconfirmed \cup {Len(rounds)} ELSE reconfirmed
        /\ UNCHANGED <<rounds, rejecting>> /\ Decided
    BY <1>5 DEF WriteDecision
  <2>2. Len(rounds) \in DOMAIN rounds /\ rounds[Len(rounds)].approved = d.approved
    BY <1>5, <2>1 DEF Decided, Current, Agrees, ReviewInv, TypeOK
  <2>3. /\ \A q \in Deciders : q # p => decider'[q] = decider[q]
        /\ Held(draft', decider'[p]) /\ Honoured(rounds', decider'[p])
        /\ decider'[p].pc # "panelRejecting"
    BY <1>3, <2>1, <2>2
  <2>4. KeepsDraft /\ KeepsRows /\ (RejectionInForce => RejectionInForce')
    BY <1>0, <2>1, SameRounds, EditKeepsDraft DEF ReviewInv
  <2>5. \A rev \in reconfirmed' : rev \in reconfirmed \/ ApprovedIn(rounds', rev)
    BY <2>1, <2>2 DEF ApprovedIn
  <2>6. (\A i \in DOMAIN rounds' : i \in DOMAIN rounds) /\ rejecting' = rejecting
    BY <2>1
  <2> QED BY <1>0, <2>3, <2>4, <2>5, <2>6, DeciderStep
<1>6. CASE ~FirstWriter /\ ~Agrees(d.approved)
  BY <1>0, <1>6, RefuseStep DEF WriteDecision
<1> QED BY <1>4, <1>5, <1>6

LEMMA PanelWriteKeeps ==
  ASSUME ReviewInv, TypeOK', NEW p \in Deciders, PanelWrite(p)
  PROVE  ReviewInv'
<1> DEFINE d == decider[p]
           s == IF RejectionStands(d) THEN [pc |-> "panelRejecting"] ELSE Idle
<1>0. /\ UNCHANGED <<draft, executor, published>> /\ draft' = draft
      /\ rejecting' = rejecting /\ reconfirmed' = reconfirmed
      /\ decider' = [decider EXCEPT ![p] = s]
      /\ FirstWriter \/ Decided
  BY DEF PanelWrite
<1>1. d \in PanelWriting /\ d.pc = "panelWriting" /\ Held(draft, d)
      /\ decider \in [Deciders -> DeciderState]
  BY DeciderShape DEF PanelWrite, ReviewInv, TypeOK, ClaimsHold
<1>2. /\ d.approved \in BOOLEAN /\ d.version \in Versions /\ d.shown \in Content
      /\ d.approved => Claim(draft, d.version, d.shown)
  BY <1>1 DEF PanelWriting, Held
<1>3. s.pc = "idle" \/ (s.pc = "panelRejecting" /\ RejectionStands(d))
  BY DEF Idle
<1> HIDE DEF s
<1>4. decider'[p] = s /\ \A q \in Deciders : q # p => decider'[q] = decider[q]
  BY <1>0, <1>1
<1>5. Held(draft', decider'[p]) /\ Honoured(rounds', decider'[p])
  BY <1>3, <1>4 DEF Held, Honoured
<1>6. CASE FirstWriter
  <2>1. rounds' = Append(rounds, RoundOf(d.approved, d.version, d.shown))
    BY <1>6 DEF PanelWrite
  <2>2. /\ KeepsDraft /\ KeepsRows /\ (RejectionInForce => RejectionInForce')
        /\ \A i \in DOMAIN rounds' : i \in DOMAIN rounds \/ Claimed(draft', rounds'[i])
        /\ ~d.approved => RejectionInForce'
    BY <1>0, <1>2, <1>6, <2>1, NewRound
  <2>3. decider'[p].pc # "panelRejecting" \/ RejectionInForce'
    BY <1>3, <1>4, <2>2 DEF RejectionStands
  <2> QED BY <1>0, <1>4, <1>5, <2>2, <2>3, DeciderStep
<1>7. CASE ~FirstWriter
  <2>1. rounds' = rounds
    BY <1>7 DEF PanelWrite
  <2>2. KeepsDraft /\ KeepsRows /\ (RejectionInForce => RejectionInForce')
    BY <1>0, <2>1, SameRounds, EditKeepsDraft DEF ReviewInv
  <2>3. decider'[p].pc # "panelRejecting" \/ RejectionInForce'
    BY <1>0, <1>3, <1>4, <1>7, <2>2 DEF RejectionStands, RejectionInForce
  <2>4. \A i \in DOMAIN rounds' : i \in DOMAIN rounds
    BY <2>1
  <2> QED BY <1>0, <1>4, <1>5, <2>2, <2>3, <2>4, DeciderStep
<1> QED BY <1>6, <1>7

LEMMA PanelRejectKeeps ==
  ASSUME ReviewInv, TypeOK', NEW p \in Deciders, PanelReject(p)
  PROVE  ReviewInv'
<1>0. /\ RejectPendingApproval /\ decider' = [decider EXCEPT ![p] = Idle]
      /\ UNCHANGED <<rounds, rejecting, reconfirmed, executor, published>>
  BY DEF PanelReject, Refuse
<1>1. decider'[p] = Idle /\ \A q \in Deciders : q # p => decider'[q] = decider[q]
  BY <1>0 DEF ReviewInv, TypeOK
<1>2. KeepsDraft /\ KeepsRows /\ (RejectionInForce => RejectionInForce')
  BY <1>0, SameRounds, EditKeepsDraft DEF ReviewInv
<1>3. RejectionInForce'
  BY <1>2 DEF PanelReject, ReviewInv, RejectionsHold
<1>4. Held(draft', decider'[p]) /\ Honoured(rounds', decider'[p])
  BY <1>1 DEF Held, Honoured, Idle
<1>5. /\ \A i \in DOMAIN rounds' : i \in DOMAIN rounds
      /\ \A rev \in reconfirmed' : rev \in reconfirmed
      /\ rejecting' = rejecting /\ UNCHANGED <<executor, published>>
  BY <1>0
<1> QED BY <1>1, <1>2, <1>3, <1>4, <1>5, DeciderStep

LEMMA DecisionKeeps ==
  ASSUME ReviewInv, TypeOK', NEW p \in Deciders, Decision(p)
  PROVE  ReviewInv'
<1>1. CASE DecisionAborted(p)
  BY <1>1, RefuseStep DEF DecisionAborted
<1> QED
  BY <1>1, LookKeeps, ClientLoadKeeps, ClientReadKeeps, ClientPlanEditKeeps, FeishuCheckKeeps,
     WriteDecisionKeeps, PanelCheckKeeps, PanelWriteKeeps, PanelRejectKeeps DEF Decision

(* A step of nobody who decides: deciders, rounds' verdicts and the history of *)
(* reconfirmations stay.                                                       *)
LEMMA OtherStep ==
  ASSUME ReviewInv, TypeOK', KeepsDraft, KeepsRows, RejectionInForce => RejectionInForce',
         DOMAIN rounds' = DOMAIN rounds, UNCHANGED <<decider, reconfirmed>>,
         rejecting' \subseteq rejecting,
         draft'.status = "needs_review" => draft.status = "needs_review" \/ RejectionInForce',
         ExecutionHonest'
  PROVE  ReviewInv'
<1>1. ClaimsHold'
  BY ClaimsKept
<1>2. VerdictsHold'
  BY VerdictsKept
<1>3. RejectionsHold'
  BY RejectionsKept
<1> QED BY <1>1, <1>2, <1>3 DEF ReviewInv

LEMMA MaterialiseKeeps ==
  ASSUME ReviewInv, TypeOK', NEW rev \in rejecting, NEW ok \in BOOLEAN,
         MaterialiseRejection(rev, ok)
  PROVE  ReviewInv'
<1>0. /\ UNCHANGED <<rounds, decider, reconfirmed>> /\ UNCHANGED <<executor, published>>
      /\ rejecting' \subseteq rejecting
      /\ DOMAIN rounds' = DOMAIN rounds /\ (RejectPendingApproval \/ UNCHANGED draft)
  BY DEF MaterialiseRejection
<1>1. KeepsDraft /\ KeepsRows /\ (RejectionInForce => RejectionInForce')
  BY <1>0, SameRounds, EditKeepsDraft DEF ReviewInv
<1>2. RejectionInForce'
  BY <1>1 DEF ReviewInv, RejectionsHold
<1>3. ExecutionHonest'
  BY <1>0, <1>1, ExecutionKept
<1> QED BY <1>0, <1>1, <1>2, <1>3, OtherStep

LEMMA EditKeeps ==
  ASSUME ReviewInv, TypeOK', NEW e \in Editors, Edit(e)
  PROVE  ReviewInv'
<1>0. /\ UNCHANGED <<rounds, decider, rejecting, reconfirmed>> /\ UNCHANGED <<executor, published>>
      /\ UNCHANGED draft \/ \E text, plan : EditDraft(text, plan)
  <2>1. CASE EditLook(e) \/ PanelEditGate(e)
    BY <2>1 DEF EditLook, PanelEditGate
  <2>2. ASSUME NEW readable \in BOOLEAN, ImageRemoveGate(e, readable)
        PROVE  /\ UNCHANGED <<rounds, decider, rejecting, reconfirmed>>
               /\ UNCHANGED <<executor, published>> /\ UNCHANGED draft
    BY <2>2 DEF ImageRemoveGate
  <2>3. ASSUME NEW text \in Texts, EditCommit(e, text)
        PROVE  /\ UNCHANGED <<rounds, decider, rejecting, reconfirmed>>
               /\ UNCHANGED <<executor, published>>
               /\ UNCHANGED draft \/ EditDraft(text, draft.plan)
    BY <2>3 DEF EditCommit
  <2> QED BY <2>1, <2>2, <2>3 DEF Edit
<1>1. KeepsDraft /\ KeepsRows /\ (RejectionInForce => RejectionInForce')
  BY <1>0, SameRounds, EditKeepsDraft DEF ReviewInv
<1>2. draft'.status = "needs_review" => draft.status = "needs_review"
  <2>1. draft \in [status: Statuses, version: Versions, text: Texts, plan: Plans]
    BY DEF ReviewInv, TypeOK
  <2> QED BY <1>0, <2>1 DEF EditDraft
<1>3. ExecutionHonest'
  BY <1>0, <1>1, ExecutionKept
<1> QED BY <1>0, <1>1, <1>2, <1>3, OtherStep

(* The executor is handed rounds and drafts; what it loads under the version   *)
(* of its round is what the round's approver saw.                              *)
LEMMA SetStateByExecutor ==
  ASSUME ReviewInv, executor.pc # "idle", executor' = Idle,
         NEW state \in {"pending_dispatch", "dispatching", "consumed", "void"},
         SetState(executor.rev, state) \/ UNCHANGED rounds,
         UNCHANGED published
  PROVE  /\ KeepsRows /\ (RejectionInForce => RejectionInForce')
         /\ DOMAIN rounds' = DOMAIN rounds /\ ExecutionHonest'
<1>1. executor.rev \in DOMAIN rounds /\ rounds[executor.rev].approved
  BY DEF ReviewInv, ExecutionHonest
<1>2. KeepsRows /\ (RejectionInForce => RejectionInForce') /\ DOMAIN rounds' = DOMAIN rounds
  BY <1>1, SetStateKeepsRows, SameRounds DEF ReviewInv
<1>3. \A x \in published :
        x.rev \in DOMAIN rounds' /\ ContentOf(x.content) = ContentOf(rounds'[x.rev].shown)
  BY <1>2 DEF ReviewInv, ExecutionHonest, KeepsRows
<1>4. executor'.pc = "idle"
  BY DEF Idle
<1> QED BY <1>2, <1>3, <1>4 DEF ExecutionHonest

LEMMA ExecutionKeeps ==
  ASSUME ReviewInv, TypeOK', Execution
  PROVE  ReviewInv'
<1>0. UNCHANGED <<decider, reconfirmed>> /\ UNCHANGED rejecting
  BY DEF Execution, ExecutorClaim, ExecutorLoad, ExecutorVoid, ExecutorRelease,
         ExecutorPublish, ExecutorConsume
<1>1. CASE ExecutorVoid \/ ExecutorRelease \/ ExecutorConsume
  <2>1. executor.pc # "idle" /\ executor' = Idle /\ UNCHANGED published /\ UNCHANGED draft
    BY <1>1 DEF ExecutorVoid, ExecutorRelease, ExecutorConsume
  <2>2. \E state \in {"pending_dispatch", "consumed", "void"} :
          SetState(executor.rev, state) \/ UNCHANGED rounds
    BY <1>1 DEF ExecutorVoid, ExecutorRelease, ExecutorConsume
  <2>3. /\ KeepsRows /\ (RejectionInForce => RejectionInForce')
        /\ DOMAIN rounds' = DOMAIN rounds /\ ExecutionHonest'
    BY <2>1, <2>2, SetStateByExecutor
  <2> QED BY <1>0, <2>1, <2>3, EditKeepsDraft, OtherStep DEF ReviewInv
<1>2. CASE ExecutorClaim
  <2>1. Len(rounds) \in DOMAIN rounds /\ rounds[Len(rounds)].approved
    BY <1>2 DEF ExecutorClaim, Decided, Current, ReviewInv, TypeOK
  <2>2. SetState(Len(rounds), "dispatching") /\ UNCHANGED draft /\ UNCHANGED published
        /\ executor' = [pc |-> "claimed", rev |-> Len(rounds)]
    BY <1>2 DEF ExecutorClaim
  <2>3. /\ KeepsRows /\ (RejectionInForce => RejectionInForce')
        /\ DOMAIN rounds' = DOMAIN rounds
    BY <2>1, <2>2, SetStateKeepsRows DEF ReviewInv
  <2>4. \A x \in published :
          x.rev \in DOMAIN rounds' /\ ContentOf(x.content) = ContentOf(rounds'[x.rev].shown)
    BY <2>3 DEF ReviewInv, ExecutionHonest, KeepsRows
  <2>5. /\ executor'.pc = "claimed"
        /\ executor'.rev \in DOMAIN rounds' /\ rounds'[executor'.rev].approved
    BY <2>1, <2>2, <2>3 DEF KeepsRows
  <2>6. ExecutionHonest'
    BY <2>2, <2>4, <2>5 DEF ExecutionHonest
  <2> QED BY <1>0, <2>2, <2>3, <2>6, EditKeepsDraft, OtherStep DEF ReviewInv
<1>3. CASE ExecutorLoad
  <2>1. UNCHANGED draft /\ UNCHANGED rounds /\ UNCHANGED published
    BY <1>3 DEF ExecutorLoad
  <2>2. executor.rev \in DOMAIN rounds /\ rounds[executor.rev].approved
    BY <1>3 DEF ExecutorLoad, ReviewInv, ExecutionHonest
  <2>3. executor'.rev = executor.rev /\ executor'.draft = Loaded
        /\ (executor'.pc = "publishing" => draft.version = rounds[executor.rev].version)
    BY <1>3 DEF ExecutorLoad
  <2>4. Claim(draft, rounds[executor.rev].version, rounds[executor.rev].shown)
    BY <2>2 DEF ReviewInv, ClaimsHold, Claimed
  <2>5. executor'.pc = "publishing"
          => ContentOf(executor'.draft) = ContentOf(rounds[executor.rev].shown)
    BY <2>3, <2>4, LiveClaims DEF Claim, ContentOf, ReviewInv
  <2>6. ExecutionHonest'
    BY <2>1, <2>2, <2>3, <2>5 DEF ExecutionHonest, ReviewInv
  <2> QED BY <1>0, <2>1, <2>6, SameRounds, EditKeepsDraft, OtherStep DEF ReviewInv
<1>4. CASE ExecutorPublish
  <2>1. /\ UNCHANGED rounds /\ executor' = [pc |-> "consuming", rev |-> executor.rev]
        /\ published' = published \cup {[rev |-> executor.rev, content |-> executor.draft]}
        /\ draft' = [draft EXCEPT !.status = "published"]
        /\ draft \in [status: Statuses, version: Versions, text: Texts, plan: Plans]
    BY <1>4 DEF ExecutorPublish, ReviewInv, TypeOK
  <2>2. /\ executor.rev \in DOMAIN rounds /\ rounds[executor.rev].approved
        /\ ContentOf(executor.draft) = ContentOf(rounds[executor.rev].shown)
    BY <1>4 DEF ExecutorPublish, ReviewInv, ExecutionHonest
  <2>3. ExecutionHonest'
    BY <2>1, <2>2 DEF ExecutionHonest, ReviewInv
  <2>4. KeepsDraft /\ draft'.status = "published"
    BY <2>1 DEF KeepsDraft
  <2> QED BY <1>0, <2>1, <2>3, <2>4, SameRounds, OtherStep
<1> QED BY <1>1, <1>2, <1>3, <1>4 DEF Execution

LEMMA ReviewInit == Init => ReviewInv
<1> SUFFICES ASSUME Init PROVE ReviewInv
  OBVIOUS
<1>1. TypeOK
  BY DraftTypeInit
<1>2. /\ \A p \in Deciders : decider[p] = Idle
      /\ DOMAIN rounds = {} /\ executor = Idle /\ published = {}
      /\ rejecting = {} /\ reconfirmed = {} /\ draft.status = "pending_approval"
  BY DEF Init
<1>3. Held(draft, Idle) /\ Honoured(rounds, Idle) /\ Idle.pc = "idle"
  BY DEF Held, Honoured, Idle
<1>4. ClaimsHold /\ VerdictsHold
  BY <1>2, <1>3 DEF ClaimsHold, VerdictsHold
<1>5. ExecutionHonest /\ RejectionsHold
  BY <1>2, <1>3 DEF ExecutionHonest, RejectionsHold
<1> QED BY <1>1, <1>4, <1>5 DEF ReviewInv

LEMMA ReviewStep == ReviewInv /\ [Next]_vars => ReviewInv'
<1> SUFFICES ASSUME ReviewInv, [Next]_vars PROVE ReviewInv'
  OBVIOUS
<1>1. TypeOK'
  BY DraftTypeStep DEF ReviewInv
<1>2. CASE UNCHANGED vars
  BY <1>2 DEF vars, ReviewInv, TypeOK, ClaimsHold, ExecutionHonest, VerdictsHold, RejectionsHold,
     RejectionInForce, Decided, Current
<1> QED BY <1>1, <1>2, DecisionKeeps, MaterialiseKeeps, EditKeeps, ExecutionKeeps DEF Next

LEMMA ReviewCorrect == Spec => []ReviewInv
<1>1. Init => ReviewInv
  BY ReviewInit
<1>2. ReviewInv /\ [Next]_vars => ReviewInv'
  BY ReviewStep
<1> QED BY <1>1, <1>2, PTL DEF Spec

(* What was reviewed is what is published, for any number of deciders, editors,*)
(* rounds and edits.                                                           *)
THEOREM ReviewedIsPublished == Spec => []PublishedWasShown
<1>1. ReviewInv => PublishedWasShown
  BY DEF ReviewInv, ExecutionHonest, PublishedWasShown, ContentOf
<1> QED BY <1>1, ReviewCorrect, PTL

(* Every answered decider was told the verdict of the round it was given, and  *)
(* only approved rounds are reconfirmed.                                       *)
THEOREM VerdictsAreHonoured == Spec => []VerdictHonoured
<1>1. ReviewInv => VerdictHonoured
  BY DEF ReviewInv, VerdictsHold, Honoured, ApprovedIn, VerdictHonoured
<1> QED BY <1>1, ReviewCorrect, PTL

(* A draft is taken out as rejected only while a rejection is in force.        *)
THEOREM RejectionsAreDecided == Spec => []RejectedByDecision
<1>1. ReviewInv => RejectedByDecision
  BY DEF ReviewInv, RejectionsHold, RejectionInForce, RejectedByDecision
<1> QED BY <1>1, ReviewCorrect, PTL
=============================================================================
