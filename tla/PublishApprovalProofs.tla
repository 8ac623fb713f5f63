------------------------ MODULE PublishApprovalProofs ------------------------
(* Theorems about the publish approval authority for every number of requests, *)
(* deployments, concurrent calls, passes and rounds.                           *)
EXTENDS PublishApprovalRefinement, TLAPS

(* A row is typed whatever operation produced it.                              *)
LEMMA RowTyping ==
  /\ NoRow \in Row
  /\ \A approved \in BOOLEAN, t \in Targets : FreshRow(approved, t) \in Row
  /\ \A row \in Row, reason \in BOOLEAN :
       /\ Dispatching(row) \in Row
       /\ Consumed(row) \in Row
       /\ Released(row, reason) \in Row
       /\ Voided(row) \in Row
       /\ Blocked(row, reason) \in Row
BY DEF NoRow, FreshRow, Dispatching, Consumed, Released, Voided, Blocked, Row, States

(* Updating one cell of a table.                                               *)
LEMMA CellUpdate ==
  ASSUME NEW S, NEW T, NEW V, NEW f \in [S -> [T -> V]], NEW s \in S, NEW t \in T, NEW v \in V
  PROVE  LET g == [f EXCEPT ![s][t] = v] IN
         /\ g \in [S -> [T -> V]]
         /\ \A x \in S, y \in T : g[x][y] = IF x = s /\ y = t THEN v ELSE f[x][y]
<1> DEFINE g == [f EXCEPT ![s][t] = v] h == [f[s] EXCEPT ![t] = v]
<1>1. h \in [T -> V]
  OBVIOUS
<1>2. g = [f EXCEPT ![s] = h]
  OBVIOUS
<1>3. g \in [S -> [T -> V]]
  <2> HIDE DEF h, g
  <2> QED BY <1>1, <1>2
<1>4. \A x \in S, y \in T : g[x][y] = IF x = s /\ y = t THEN v ELSE f[x][y]
  OBVIOUS
<1> QED BY <1>3, <1>4

(* Marking a command consumed keeps the outbox a sequence of commands.         *)
LEMMA ConfirmTyping ==
  ASSUME outbox \in Seq(Command), NEW i \in DOMAIN outbox, Confirm(i)
  PROVE  /\ outbox' \in Seq(Command)
         /\ DOMAIN outbox' = DOMAIN outbox
<1>1. outbox[i] \in Command
  OBVIOUS
<1>2. [outbox[i] EXCEPT !.consumed = TRUE] \in Command
  BY <1>1 DEF Command
<1>3. outbox' = [outbox EXCEPT ![i] = [outbox[i] EXCEPT !.consumed = TRUE]]
  BY DEF Confirm
<1> QED
  BY <1>2, <1>3

(* A call or a pass runs only in a process that has a target, and a pass holds *)
(* commands that exist.                                                        *)
InFlight ==
  /\ \A w \in Writers : call[w].pc \in {"insert", "readback"} => TargetOf[w] \in Targets
  /\ \A r \in Relays : relay[r].batch \subseteq DOMAIN outbox /\ relay[r].ack \in DOMAIN outbox \cup {0}

Typed == TypeOK /\ InFlight

Outcomes == [req: Requests, rev: Revisions, approved: BOOLEAN, target: Targets, written: BOOLEAN]

(* A compare-and-set touches the row it names and nothing else but its caller. *)
LEMMA CompareAndSetTyping ==
  ASSUME Typed, NEW c \in Callers, NEW req \in Requests, NEW rev \in Revisions,
         NEW may, NEW new \in Row, CompareAndSet(c, req, rev, may, new)
  PROVE  Typed'
<1>1. decision' \in [Requests -> [Revisions -> Row]]
  <2>1. decision' = decision \/ decision' = [decision EXCEPT ![req][rev] = new]
    BY DEF CompareAndSet
  <2>2. decision \in [Requests -> [Revisions -> Row]]
    BY DEF Typed, TypeOK
  <2>3. [decision EXCEPT ![req][rev] = new] \in [Requests -> [Revisions -> Row]]
    BY <2>2, CellUpdate
  <2> QED
    BY <2>1, <2>2, <2>3
<1>2. cas' \in [Callers -> CasState]
  <2>1. \E s \in CasState : cas' = [cas EXCEPT ![c] = s]
    BY DEF CompareAndSet, CasState
  <2> QED BY <2>1 DEF Typed, TypeOK
<1> QED
  BY <1>1, <1>2 DEF CompareAndSet, Typed, TypeOK, InFlight

(* A relay step that leaves the outbox's shape alone.                          *)
LEMMA RelayTyping ==
  ASSUME Typed, NEW r \in Relays,
         NEW batch \in SUBSET DOMAIN outbox, NEW ack \in DOMAIN outbox \cup {0},
         relay' = [relay EXCEPT ![r] = [batch |-> batch, ack |-> ack]],
         outbox' \in Seq(Command), DOMAIN outbox' = DOMAIN outbox,
         triggered' \subseteq [req: Requests, rev: Revisions, target: Targets],
         UNCHANGED <<decision, call, cas, told>>
  PROVE  Typed'
<1>1. DOMAIN outbox \subseteq Nat
  BY DEF Typed, TypeOK
<1>2. [batch |-> batch, ack |-> ack] \in [batch: SUBSET Nat, ack: Nat]
  BY <1>1
<1>3. relay' \in [Relays -> [batch: SUBSET Nat, ack: Nat]]
  BY <1>2 DEF Typed, TypeOK
<1>4. \A x \in Relays : relay'[x].batch \subseteq DOMAIN outbox' /\ relay'[x].ack \in DOMAIN outbox' \cup {0}
  BY DEF Typed, TypeOK, InFlight
<1> QED
  BY <1>3, <1>4 DEF Typed, TypeOK, InFlight

(* The initial states are typed.                                               *)
LEMMA TypeInit == Init => Typed
<1> SUFFICES ASSUME Init PROVE Typed
  OBVIOUS
<1> USE ApprovalAssumption
<1>1. decision \in [Requests -> [Revisions -> Row]] /\ outbox \in Seq(Command)
  <2>1. CASE Fresh
    BY <2>1, RowTyping DEF Fresh
  <2>2. CASE \E req \in Comments, t \in Targets : Legacy(req, t)
    <3>1. PICK req \in Comments, t \in Targets : Legacy(req, t)
      BY <2>2
    <3>2. decision \in [Requests -> [Revisions -> Row]]
      BY <3>1, RowTyping DEF Legacy
    <3> DEFINE command == [req |-> req, rev |-> 1, target |-> t, consumed |-> FALSE]
    <3>3. command \in Command
      BY DEF Command, Revisions
    <3>4. outbox = <<command>>
      BY <3>1 DEF Legacy
    <3>5. outbox \in Seq(Command)
      <4> HIDE DEF command
      <4> QED BY <3>3, <3>4
    <3> QED BY <3>2, <3>5
  <2> QED BY <2>1, <2>2 DEF Init
<1> QED
  BY <1>1 DEF Init, Typed, TypeOK, InFlight, Idle, CallState, CasState

(* Every step keeps the types.                                                 *)
LEMMA TypeStep == Typed /\ [Next]_vars => Typed'
<1> SUFFICES ASSUME Typed, [Next]_vars PROVE Typed'
  OBVIOUS
<1> USE ApprovalAssumption
<1>1. ASSUME NEW w \in Writers, NEW req \in Requests, NEW approved \in BOOLEAN,
             RecordStart(w, req, approved)
      PROVE  Typed'
  <2>1. PICK m \in 0..(MaxRevision - 1) :
          call' = [call EXCEPT ![w] =
            [pc |-> "insert", req |-> req, approved |-> approved, rev |-> m + 1]]
    BY <1>1 DEF RecordStart
  <2> DEFINE s == [pc |-> "insert", req |-> req, approved |-> approved, rev |-> m + 1]
  <2>2. s \in CallState
    BY DEF CallState, Revisions
  <2>3. call' = [call EXCEPT ![w] = s] /\ s.pc = "insert"
    BY <2>1
  <2> HIDE DEF s
  <2> QED BY <1>1, <2>2, <2>3 DEF RecordStart, Typed, TypeOK, InFlight
<1>2. ASSUME NEW w \in Writers, NEW heard \in BOOLEAN, RecordInsert(w, heard)
      PROVE  Typed'
  <2> DEFINE c == call[w] t == TargetOf[w]
             command == [req |-> c.req, rev |-> c.rev, target |-> t, consumed |-> FALSE]
  <2>1. /\ c.req \in Requests
        /\ c.rev \in Revisions
        /\ c.approved \in BOOLEAN
        /\ t \in Targets
    BY <1>2 DEF RecordInsert, Typed, TypeOK, InFlight, CallState, Idle
  <2>2. decision' \in [Requests -> [Revisions -> Row]]
    BY <1>2, <2>1, RowTyping, CellUpdate DEF RecordInsert, Typed, TypeOK
  <2>3. outbox' \in Seq(Command) /\ DOMAIN outbox \subseteq DOMAIN outbox'
    <3>1. command \in Command
      BY <2>1 DEF Command
    <3>2. outbox' = outbox \/ outbox' = Append(outbox, command)
      BY <1>2 DEF RecordInsert, OutboxAfter, CommandFor
    <3>3. outbox \in Seq(Command)
      BY DEF Typed, TypeOK
    <3> HIDE DEF command
    <3>4. /\ Append(outbox, command) \in Seq(Command)
          /\ Len(Append(outbox, command)) = Len(outbox) + 1
          /\ Len(outbox) \in Nat
      BY <3>1, <3>3
    <3>5. DOMAIN outbox = 1..Len(outbox) /\ DOMAIN Append(outbox, command) = 1..(Len(outbox) + 1)
      BY <3>3, <3>4
    <3> QED BY <3>2, <3>3, <3>4, <3>5
  <2>4. call' \in [Writers -> CallState]
    <3>1. PICK s \in {Idle, [pc |-> "answered", outcome |-> "written"]} :
            call' = [call EXCEPT ![w] = s]
      BY <1>2 DEF RecordInsert
    <3>2. s \in CallState
      BY DEF CallState
    <3> QED BY <3>1, <3>2 DEF Typed, TypeOK
  <2>5. told' \subseteq Outcomes
    <3> DEFINE a == [req |-> c.req, rev |-> c.rev, approved |-> c.approved,
                     target |-> t, written |-> TRUE]
    <3>1. a \in Outcomes
      BY <2>1 DEF Outcomes
    <3>2. told' \in {told, told \cup {a}}
      BY <1>2 DEF RecordInsert
    <3> QED BY <3>1, <3>2 DEF Typed, TypeOK, Outcomes
  <2>6. InFlight'
    BY <1>2, <2>3 DEF RecordInsert, Typed, TypeOK, InFlight, Idle
  <2> QED BY <1>2, <2>2, <2>3, <2>4, <2>5, <2>6 DEF RecordInsert, Typed, TypeOK, Outcomes
<1>3. ASSUME NEW w \in Writers, RecordConflict(w)
      PROVE  Typed'
  <2>1. call[w].req \in Requests
    BY <1>3 DEF RecordConflict, Typed, TypeOK, CallState, Idle
  <2>2. PICK s \in CallState : call' = [call EXCEPT ![w] = s]
    BY <1>3, <2>1 DEF RecordConflict, CallState
  <2> QED BY <1>3, <2>2 DEF RecordConflict, Typed, TypeOK, InFlight
<1>4. ASSUME NEW w \in Writers, RecordReadBack(w)
      PROVE  Typed'
  <2>1. call[w].req \in Requests /\ TargetOf[w] \in Targets
    BY <1>4 DEF RecordReadBack, Typed, TypeOK, InFlight, CallState, Idle
  <2>2. PICK outcome \in {"alreadyDecided", "execution_target_conflict"} :
          call' = [call EXCEPT ![w] = [pc |-> "answered", outcome |-> outcome]]
    BY <1>4 DEF RecordReadBack
  <2>3. call' \in [Writers -> CallState]
    BY <2>2 DEF Typed, TypeOK, CallState
  <2>4. told' \subseteq Outcomes
    <3>1. ASSUME NEW rev \in Revisions
          PROVE  [req |-> call[w].req, rev |-> rev,
                  approved |-> decision[call[w].req][rev].approved,
                  target |-> TargetOf[w], written |-> FALSE] \in Outcomes
      BY <2>1 DEF Typed, TypeOK, Row, Outcomes
    <3>2. told \subseteq Outcomes
      BY DEF Typed, TypeOK, Outcomes
    <3> QED BY <1>4, <3>1, <3>2 DEF RecordReadBack
  <2>5. InFlight'
    BY <1>4, <2>2 DEF RecordReadBack, Typed, TypeOK, InFlight
  <2> QED BY <1>4, <2>3, <2>4, <2>5 DEF RecordReadBack, Typed, TypeOK, Outcomes
<1>5. ASSUME NEW w \in Writers, RecordAbort(w)
      PROVE  Typed'
  BY <1>5 DEF RecordAbort, Typed, TypeOK, InFlight, CallState, Idle
<1>6. ASSUME NEW c \in Callers, Execute(c)
      PROVE  Typed'
  <2>1. ASSUME NEW req \in Requests, NEW rev \in Revisions, NEW reason \in BOOLEAN,
               \/ MarkDispatching(c, req, rev) \/ MarkConsumed(c, req, rev)
               \/ ReleaseToPending(c, req, rev, reason) \/ VoidActive(c, req, rev)
               \/ SetBlockedReason(c, req, rev, reason)
        PROVE  Typed'
    <3>1. decision[req][rev] \in Row
      BY DEF Typed, TypeOK
    <3> QED
      BY <2>1, <3>1, RowTyping, CompareAndSetTyping
         DEF MarkDispatching, MarkConsumed, ReleaseToPending, VoidActive, SetBlockedReason
  <2>2. ASSUME ResolveCasMiss(c) PROVE Typed'
    <3>1. cas[c].req \in Requests /\ cas[c].rev \in Revisions
      <4>1. cas[c] \in CasState /\ cas[c].pc = "missed"  BY <2>2 DEF ResolveCasMiss, Typed, TypeOK
      <4> QED  BY <4>1 DEF CasState, Idle
    <3>2. PICK s \in CasState : cas' = [cas EXCEPT ![c] = s]
      BY <2>2, <3>1 DEF ResolveCasMiss, CasState
    <3> QED BY <2>2, <3>2 DEF ResolveCasMiss, Typed, TypeOK, InFlight
  <2> QED BY <1>6, <2>1, <2>2 DEF Execute
<1>7. ASSUME NEW r \in Relays, RelayList(r)
      PROVE  Typed'
  <2>1. Listed(TargetOf[r]) \subseteq DOMAIN outbox
    BY DEF Listed, Pending
  <2>2. relay' = [relay EXCEPT ![r] = [batch |-> Listed(TargetOf[r]), ack |-> 0]]
    <3>1. [relay[r] EXCEPT !.batch = Listed(TargetOf[r])] = [batch |-> Listed(TargetOf[r]), ack |-> 0]
      BY <1>7 DEF RelayList
    <3>2. relay' = [relay EXCEPT ![r] = [relay[r] EXCEPT !.batch = Listed(TargetOf[r])]]
      BY <1>7 DEF RelayList
    <3> QED BY <3>1, <3>2
  <2> QED BY <1>7, <2>1, <2>2, RelayTyping DEF RelayList, Typed, TypeOK
<1>8. ASSUME NEW r \in Relays, NEW i \in relay[r].batch, NEW answered \in BOOLEAN,
             RelayRetire(r, i) \/ RelayTrigger(r, i, answered) \/ RelayTriggerFails(r, i)
      PROVE  Typed'
  <2>1. i \in DOMAIN outbox /\ outbox[i] \in Command
    BY DEF Typed, TypeOK, InFlight
  <2>2. PICK batch \in SUBSET DOMAIN outbox, ack \in DOMAIN outbox \cup {0} :
          relay' = [relay EXCEPT ![r] = [batch |-> batch, ack |-> ack]]
    BY <1>8, <2>1 DEF RelayRetire, RelayTrigger, RelayTriggerFails, Typed, TypeOK, InFlight
  <2>3. outbox' \in Seq(Command) /\ DOMAIN outbox' = DOMAIN outbox
    BY <1>8, <2>1, ConfirmTyping DEF RelayRetire, RelayTrigger, RelayTriggerFails, Typed, TypeOK
  <2>4. triggered' \subseteq [req: Requests, rev: Revisions, target: Targets]
    BY <1>8, <2>1 DEF RelayRetire, RelayTrigger, RelayTriggerFails, Typed, TypeOK, Command
  <2> QED
    BY <1>8, <2>2, <2>3, <2>4, RelayTyping DEF RelayRetire, RelayTrigger, RelayTriggerFails
<1>9. ASSUME NEW r \in Relays, RelayConfirm(r)
      PROVE  Typed'
  <2>1. relay[r].ack \in DOMAIN outbox
    BY <1>9 DEF RelayConfirm, Typed, InFlight
  <2>2. PICK batch \in SUBSET DOMAIN outbox :
          relay' = [relay EXCEPT ![r] = [batch |-> batch, ack |-> 0]]
    BY <1>9 DEF RelayConfirm, Typed, TypeOK, InFlight
  <2>3. outbox' \in Seq(Command) /\ DOMAIN outbox' = DOMAIN outbox
    BY <1>9, <2>1, ConfirmTyping DEF RelayConfirm, Typed, TypeOK
  <2> QED
    BY <1>9, <2>2, <2>3, RelayTyping DEF RelayConfirm, Typed, TypeOK
<1>10. ASSUME NEW r \in Relays, RelayCrash(r)
       PROVE  Typed'
  BY <1>10, RelayTyping DEF RelayCrash, Typed, TypeOK
<1>11. ASSUME UNCHANGED vars PROVE Typed'
  BY <1>11 DEF vars, Typed, TypeOK, InFlight
<1> QED
  BY <1>1, <1>2, <1>3, <1>4, <1>5, <1>6, <1>7, <1>8, <1>9, <1>10, <1>11
     DEF Next, Record, RelayPass, RelayStep

(* Type correctness: no call, pass, crash or interleaving leaves the types.    *)
THEOREM TypeCorrect == Spec => []TypeOK
<1>1. Typed => TypeOK
  BY DEF Typed
<1> QED
  BY <1>1, TypeInit, TypeStep, PTL DEF Spec
-----------------------------------------------------------------------------
(* The inductive invariant.  NewestIsActive alone is not inductive: a racing   *)
(* call could insert a round below an existing one.  It cannot, because rounds *)
(* are contiguous and the number a call holds is at most the next free one.    *)
Safe == Typed /\ RoundsContiguous /\ NewestIsActive /\ RejectionStays /\ ToldTruth

(* What a compare-and-set may do to the row it hits.                           *)
Advances(old, new) ==
  /\ new.state # "absent"
  /\ new.approved = old.approved /\ new.target = old.target
  /\ old.state = "consumed" => new.state \in {"consumed", "void"}
  /\ old.state = "void" => new = old
  /\ new.state \in Waiting => old.state \in Waiting
  /\ new.blocked => new.state \in Waiting

(* Each operation, where its WHERE clause admits the row, advances it.         *)
LEMMA OperationsAdvance ==
  ASSUME NEW row \in Row, row.state # "absent", NEW reason \in BOOLEAN
  PROVE  /\ MayDispatch(row) => Advances(row, Dispatching(row))
         /\ MayConsume(row) => Advances(row, Consumed(row))
         /\ MayRelease(row) => Advances(row, Released(row, reason))
         /\ MayVoid(row) => Advances(row, Voided(row))
         /\ MayBlock(row) => Advances(row, Blocked(row, reason))
BY DEF Advances, Row, States, Waiting, MayDispatch, MayConsume, MayRelease, MayVoid, MayBlock,
       Dispatching, Consumed, Released, Voided, Blocked

(* The only change a caller makes to the table is to advance one row.          *)
LEMMA ExecuteAdvances ==
  ASSUME Typed, NEW c \in Callers, Execute(c)
  PROVE  /\ UNCHANGED <<call, told>>
         /\ \/ UNCHANGED decision
            \/ \E req \in Requests, rev \in Revisions : \E new \in Row :
                 /\ Exists(req, rev)
                 /\ Advances(decision[req][rev], new)
                 /\ decision' = [decision EXCEPT ![req][rev] = new]
<1>1. ASSUME NEW req \in Requests, NEW rev \in Revisions, NEW may, NEW new \in Row,
             CompareAndSet(c, req, rev, may, new),
             may => Advances(decision[req][rev], new)
      PROVE  /\ UNCHANGED <<call, told>>
             /\ \/ UNCHANGED decision
                \/ /\ Exists(req, rev)
                   /\ Advances(decision[req][rev], new)
                   /\ decision' = [decision EXCEPT ![req][rev] = new]
  BY <1>1 DEF CompareAndSet, Known
<1>2. ASSUME NEW req \in Requests, NEW rev \in Revisions, NEW reason \in BOOLEAN,
             \/ MarkDispatching(c, req, rev) \/ MarkConsumed(c, req, rev)
             \/ ReleaseToPending(c, req, rev, reason) \/ VoidActive(c, req, rev)
             \/ SetBlockedReason(c, req, rev, reason)
      PROVE  /\ UNCHANGED <<call, told>>
             /\ \/ UNCHANGED decision
                \/ \E new \in Row :
                     /\ Exists(req, rev)
                     /\ Advances(decision[req][rev], new)
                     /\ decision' = [decision EXCEPT ![req][rev] = new]
  <2>1. decision[req][rev] \in Row
    BY DEF Typed, TypeOK
  <2>2. decision[req][rev].state # "absent"
    BY <1>2 DEF MarkDispatching, MarkConsumed, ReleaseToPending, VoidActive, SetBlockedReason,
                CompareAndSet, Known, Exists
  <2> DEFINE row == decision[req][rev]
  <2>3. CASE MarkDispatching(c, req, rev)
    <3>1. CompareAndSet(c, req, rev, MayDispatch(row), Dispatching(row))
      BY <2>3 DEF MarkDispatching
    <3>2. Dispatching(row) \in Row /\ (MayDispatch(row) => Advances(row, Dispatching(row)))
      BY <2>1, <2>2, RowTyping, OperationsAdvance
    <3> QED BY <1>1, <3>1, <3>2
  <2>4. CASE MarkConsumed(c, req, rev)
    <3>1. CompareAndSet(c, req, rev, MayConsume(row), Consumed(row))
      BY <2>4 DEF MarkConsumed
    <3>2. Consumed(row) \in Row /\ (MayConsume(row) => Advances(row, Consumed(row)))
      BY <2>1, <2>2, RowTyping, OperationsAdvance
    <3> QED BY <1>1, <3>1, <3>2
  <2>5. CASE ReleaseToPending(c, req, rev, reason)
    <3>1. CompareAndSet(c, req, rev, MayRelease(row), Released(row, reason))
      BY <2>5 DEF ReleaseToPending
    <3>2. Released(row, reason) \in Row /\ (MayRelease(row) => Advances(row, Released(row, reason)))
      BY <2>1, <2>2, RowTyping, OperationsAdvance
    <3> QED BY <1>1, <3>1, <3>2
  <2>6. CASE VoidActive(c, req, rev)
    <3>1. CompareAndSet(c, req, rev, MayVoid(row), Voided(row))
      BY <2>6 DEF VoidActive
    <3>2. Voided(row) \in Row /\ (MayVoid(row) => Advances(row, Voided(row)))
      BY <2>1, <2>2, RowTyping, OperationsAdvance
    <3> QED BY <1>1, <3>1, <3>2
  <2>7. CASE SetBlockedReason(c, req, rev, reason)
    <3>1. CompareAndSet(c, req, rev, MayBlock(row), Blocked(row, reason))
      BY <2>7 DEF SetBlockedReason
    <3>2. Blocked(row, reason) \in Row /\ (MayBlock(row) => Advances(row, Blocked(row, reason)))
      BY <2>1, <2>2, RowTyping, OperationsAdvance
    <3> QED BY <1>1, <3>1, <3>2
  <2> QED BY <1>2, <2>3, <2>4, <2>5, <2>6, <2>7
<1>3. ResolveCasMiss(c) => UNCHANGED <<decision, call, told>>
  BY DEF ResolveCasMiss
<1>4. CASE ResolveCasMiss(c)
  BY <1>3, <1>4
<1>5. CASE ~ResolveCasMiss(c)
  <2>1. PICK req \in Requests, rev \in Revisions, reason \in BOOLEAN :
             \/ MarkDispatching(c, req, rev) \/ MarkConsumed(c, req, rev)
             \/ ReleaseToPending(c, req, rev, reason) \/ VoidActive(c, req, rev)
             \/ SetBlockedReason(c, req, rev, reason)
    BY <1>5 DEF Execute
  <2> QED BY <2>1, <1>2
<1> QED
  BY <1>4, <1>5

(* Advancing one row keeps the invariant.                                      *)
LEMMA AdvanceKeepsSafe ==
  ASSUME Safe, Typed', UNCHANGED <<call, told>>,
         NEW req \in Requests, NEW rev \in Revisions, NEW new \in Row,
         Exists(req, rev), Advances(decision[req][rev], new),
         decision' = [decision EXCEPT ![req][rev] = new]
  PROVE  Safe'
<1> DEFINE old == decision[req][rev]
<1>1. \A q \in Requests, n \in Revisions :
        decision'[q][n] = IF q = req /\ n = rev THEN new ELSE decision[q][n]
  <2>1. decision \in [Requests -> [Revisions -> Row]]
    BY DEF Safe, Typed, TypeOK
  <2> QED BY <2>1, CellUpdate
<1>2. \A q \in Requests, n \in Revisions :
        /\ Exists(q, n)' <=> Exists(q, n)
        /\ Active(q, n)' => Active(q, n)
        /\ Exists(q, n) => /\ decision'[q][n].approved = decision[q][n].approved
                           /\ decision'[q][n].target = decision[q][n].target
  BY <1>1 DEF Exists, Active, Advances
<1>3. RoundsContiguous'
  <2>1. \A w \in Writers : call[w].pc = "insert" => call[w].req \in Requests
    BY DEF Safe, Typed, TypeOK, CallState, Idle
  <2> QED BY <1>2, <2>1 DEF Safe, RoundsContiguous
<1>4. NewestIsActive'
  BY <1>2 DEF Safe, NewestIsActive
<1>5. RejectionStays'
  BY <1>1 DEF Safe, RejectionStays, Advances
<1>6. ToldTruth'
  BY <1>2 DEF Safe, Typed, TypeOK, ToldTruth
<1> QED
  BY <1>3, <1>4, <1>5, <1>6 DEF Safe

(* The initial states satisfy the invariant.                                   *)
LEMMA SafeInit == Init => Safe
<1> SUFFICES ASSUME Init PROVE Safe
  OBVIOUS
<1>1. Typed
  BY TypeInit
<1>2. told = {} /\ \A w \in Writers : call[w].pc = "idle"
  BY DEF Init, Idle
<1>3. \A q \in Requests, n \in Revisions :
        \/ decision[q][n] = NoRow
        \/ n = 1 /\ \E t \in Targets : decision[q][n] = FreshRow(TRUE, t)
  <2>1. CASE Fresh
    BY <2>1 DEF Fresh
  <2>2. CASE \E req \in Comments, t \in Targets : Legacy(req, t)
    <3>1. PICK req \in Comments, t \in Targets : Legacy(req, t)
      BY <2>2
    <3>2. \A q \in Requests, n \in Revisions :
            decision[q][n] = IF q = req /\ n = 1 THEN FreshRow(TRUE, t) ELSE NoRow
      BY <3>1 DEF Legacy
    <3> QED BY <3>2
  <2> QED BY <2>1, <2>2 DEF Init
<1>4. \A q \in Requests, n \in Revisions : Exists(q, n) => n = 1
  BY <1>3, NoRow.state = "absent" DEF Exists, NoRow
<1>5. RoundsContiguous /\ NewestIsActive
  BY <1>2, <1>4, ApprovalAssumption DEF RoundsContiguous, NewestIsActive, Revisions
<1>6. RejectionStays
  <2>1. ~NoRow.blocked /\ NoRow.state \notin Waiting
    BY DEF NoRow, Waiting
  <2>2. \A t \in Targets : ~FreshRow(TRUE, t).blocked /\ FreshRow(TRUE, t).approved
    BY DEF FreshRow
  <2> QED BY <1>3, <2>1, <2>2 DEF RejectionStays
<1> QED
  BY <1>1, <1>2, <1>5, <1>6 DEF Safe, ToldTruth

(* The first statement of record(): its number is the next free one.           *)
LEMMA StartKeepsSafe ==
  ASSUME Safe, Typed', NEW w \in Writers, NEW req \in Requests, NEW approved \in BOOLEAN,
         RecordStart(w, req, approved)
  PROVE  Safe'
<1>1. PICK m \in 0..(MaxRevision - 1) :
        /\ IsMaxRevision(req, m)
        /\ call' = [call EXCEPT ![w] =
             [pc |-> "insert", req |-> req, approved |-> approved, rev |-> m + 1]]
  BY DEF RecordStart
<1>2. UNCHANGED <<decision, told>>
  BY DEF RecordStart
<1>3. \A n \in Revisions : n < m + 1 => Exists(req, n)
  BY <1>1, ApprovalAssumption DEF Safe, RoundsContiguous, IsMaxRevision, Revisions
<1>4. RoundsContiguous'
  <2>1. \A q \in Requests, n \in Revisions : Exists(q, n)' <=> Exists(q, n)
    BY <1>2 DEF Exists
  <2>2. ASSUME NEW x \in Writers, call'[x].pc = "insert", NEW n \in Revisions, n < call'[x].rev
        PROVE  decision'[call'[x].req][n].state # "absent"
    <3>1. CASE x = w
      <4>1. call'[x].req = req /\ call'[x].rev = m + 1
        BY <1>1, <3>1 DEF Safe, Typed, TypeOK
      <4> QED BY <1>2, <1>3, <2>2, <4>1 DEF Exists
    <3>2. CASE x # w
      <4>1. call'[x] = call[x] /\ call[x].req \in Requests
        BY <1>1, <2>2, <3>2 DEF Safe, Typed, TypeOK, CallState, Idle
      <4> QED BY <1>2, <2>2, <4>1 DEF Safe, RoundsContiguous, Exists
    <3> QED BY <3>1, <3>2
  <2> QED BY <2>1, <2>2 DEF Safe, RoundsContiguous, Exists
<1> QED
  BY <1>2, <1>4 DEF Safe, NewestIsActive, RejectionStays, ToldTruth, Exists, Active

(* The insert: the partial unique index and the primary key admit it only as   *)
(* the newest round.                                                           *)
LEMMA InsertKeepsSafe ==
  ASSUME Safe, Typed', NEW w \in Writers, NEW heard \in BOOLEAN, RecordInsert(w, heard)
  PROVE  Safe'
<1> DEFINE c == call[w] t == TargetOf[w] fresh == FreshRow(c.approved, t)
<1>1. /\ c.pc = "insert" /\ c.req \in Requests /\ c.rev \in Revisions
      /\ c.approved \in BOOLEAN /\ t \in Targets
  BY DEF RecordInsert, Safe, Typed, TypeOK, InFlight, CallState, Idle
<1>2. /\ InsertAdmitted(c.req, c.rev)
      /\ decision' = [decision EXCEPT ![c.req][c.rev] = fresh]
  BY DEF RecordInsert
<1>3. fresh \in Row /\ decision \in [Requests -> [Revisions -> Row]]
  BY <1>1, RowTyping DEF Safe, Typed, TypeOK
<1>4. \A q \in Requests, n \in Revisions :
        decision'[q][n] = IF q = c.req /\ n = c.rev THEN fresh ELSE decision[q][n]
  <2> HIDE DEF c, fresh
  <2> QED BY <1>1, <1>2, <1>3, CellUpdate
<1>5. ~Exists(c.req, c.rev) /\ \A n \in Revisions : ~Active(c.req, n)
  BY <1>2 DEF InsertAdmitted
<1>6. \A n \in Revisions : Exists(c.req, n) => n < c.rev
  BY <1>1, <1>5 DEF Safe, RoundsContiguous, Revisions
<1>7. \A q \in Requests, n \in Revisions :
        /\ Exists(q, n)' <=> Exists(q, n) \/ (q = c.req /\ n = c.rev)
        /\ Active(q, n)' => Active(q, n) \/ (q = c.req /\ n = c.rev)
        /\ Exists(q, n) => decision'[q][n] = decision[q][n]
  <2>1. fresh.state # "absent"
    BY DEF FreshRow
  <2> HIDE DEF c, fresh
  <2> QED BY <1>4, <1>5, <2>1 DEF Exists, Active
<1>8. /\ \A x \in Writers : x # w => call'[x] = call[x]
      /\ call'[w].pc # "insert"
  BY DEF RecordInsert, Safe, Typed, TypeOK, Idle
<1>9. RoundsContiguous'
  <2>1. \A n \in Revisions : n < c.rev => Exists(c.req, n)
    BY <1>1 DEF Safe, RoundsContiguous
  <2>2. ASSUME NEW q \in Requests, NEW m \in Revisions, NEW n \in Revisions, m < n, Exists(q, n)'
        PROVE  Exists(q, m)'
    BY <1>7, <2>1, <2>2 DEF Safe, RoundsContiguous
  <2>3. ASSUME NEW x \in Writers, call'[x].pc = "insert", NEW n \in Revisions, n < call'[x].rev
        PROVE  decision'[call'[x].req][n].state # "absent"
    <3>1. call'[x] = call[x] /\ call[x].req \in Requests
      BY <1>8, <2>3 DEF Safe, Typed, TypeOK, CallState, Idle
    <3>2. Exists(call[x].req, n)
      BY <2>3, <3>1 DEF Safe, RoundsContiguous
    <3> QED BY <1>7, <3>1, <3>2 DEF Exists
  <2> QED BY <2>2, <2>3 DEF RoundsContiguous, Exists
<1>10. NewestIsActive'
  <2> SUFFICES ASSUME NEW q \in Requests, NEW m \in Revisions, NEW n \in Revisions,
                      m < n, Exists(q, n)', Active(q, m)'
               PROVE  FALSE
    BY DEF NewestIsActive
  <2>1. CASE q = c.req /\ n = c.rev
    BY <1>5, <1>7, <2>1 DEF Revisions
  <2>2. CASE ~(q = c.req /\ n = c.rev)
    <3>1. Exists(q, n)
      BY <1>7, <2>2
    <3>2. Active(q, m) \/ (q = c.req /\ m = c.rev)
      BY <1>7
    <3> QED BY <1>1, <1>6, <3>1, <3>2 DEF Safe, NewestIsActive, Revisions
  <2> QED BY <2>1, <2>2
<1>11. RejectionStays'
  <2>1. fresh.state \in Waiting => fresh.approved
    BY DEF FreshRow, Waiting
  <2>2. ~fresh.blocked
    BY DEF FreshRow
  <2> HIDE DEF c, fresh
  <2> QED BY <1>4, <2>1, <2>2 DEF Safe, RejectionStays
<1>12. ToldTruth'
  <2>1. \A a \in told : /\ Exists(a.req, a.rev)'
                        /\ decision'[a.req][a.rev].approved = a.approved
                        /\ decision'[a.req][a.rev].target = a.target
    BY <1>7 DEF Safe, Typed, TypeOK, ToldTruth
  <2> DEFINE a == [req |-> c.req, rev |-> c.rev, approved |-> c.approved,
                   target |-> t, written |-> TRUE]
  <2>2. told' \in {told, told \cup {a}}
    BY DEF RecordInsert
  <2>3. /\ decision'[c.req][c.rev].state # "absent"
        /\ decision'[c.req][c.rev].approved = c.approved
        /\ decision'[c.req][c.rev].target = t
    <3>1. decision'[c.req][c.rev] = fresh
      BY <1>1, <1>4
    <3>2. fresh.state # "absent" /\ fresh.approved = c.approved /\ fresh.target = t
      BY DEF FreshRow
    <3> HIDE DEF c, t, fresh
    <3> QED BY <3>1, <3>2
  <2>4. /\ decision'[a.req][a.rev].state # "absent"
        /\ decision'[a.req][a.rev].approved = a.approved
        /\ decision'[a.req][a.rev].target = a.target
    BY <2>3
  <2> HIDE DEF a
  <2> QED BY <2>1, <2>2, <2>4 DEF ToldTruth, Exists
<1> QED
  BY <1>9, <1>10, <1>11, <1>12 DEF Safe

(* A step that leaves the table and the calls alone.                           *)
LEMMA IdleKeepsSafe ==
  ASSUME Safe, Typed', UNCHANGED <<decision, call, told>>
  PROVE  Safe'
BY DEF Safe, RoundsContiguous, NewestIsActive, RejectionStays, ToldTruth, Exists, Active

(* A call that only moves on, or is told the row it found.                     *)
LEMMA AnswerKeepsSafe ==
  ASSUME Safe, Typed', NEW w \in Writers, RecordConflict(w) \/ RecordReadBack(w) \/ RecordAbort(w)
  PROVE  Safe'
<1>1. /\ UNCHANGED decision
      /\ \A x \in Writers : x # w => call'[x] = call[x]
      /\ call'[w].pc # "insert"
  BY DEF RecordConflict, RecordReadBack, RecordAbort, Safe, Typed, TypeOK, Idle
<1>2. RoundsContiguous'
  <2>1. ASSUME NEW x \in Writers, call'[x].pc = "insert", NEW n \in Revisions, n < call'[x].rev
        PROVE  decision'[call'[x].req][n].state # "absent"
    BY <1>1, <2>1 DEF Safe, RoundsContiguous, Exists
  <2> QED BY <1>1, <2>1 DEF Safe, RoundsContiguous, Exists
<1>3. ToldTruth'
  <2>1. CASE told' = told
    BY <1>1, <2>1 DEF Safe, ToldTruth, Exists
  <2>2. CASE told' # told
    <3>1. PICK rev \in Revisions :
            /\ ReadBackRow(w, call[w].req, rev)
            /\ told' = told \cup {[req |-> call[w].req, rev |-> rev,
                                   approved |-> decision[call[w].req][rev].approved,
                                   target |-> TargetOf[w], written |-> FALSE]}
      BY <2>2 DEF RecordConflict, RecordReadBack, RecordAbort
    <3>2. Exists(call[w].req, rev) /\ decision[call[w].req][rev].target = TargetOf[w]
      BY <3>1 DEF ReadBackRow, ActiveFor, Active, Exists
    <3> QED BY <1>1, <3>1, <3>2 DEF Safe, ToldTruth, Exists
  <2> QED BY <2>1, <2>2
<1> QED
  BY <1>1, <1>2, <1>3 DEF Safe, NewestIsActive, RejectionStays, Exists, Active

(* Every step keeps the invariant.                                             *)
LEMMA SafeStep == Safe /\ [Next]_vars => Safe'
<1> SUFFICES ASSUME Safe, [Next]_vars PROVE Safe'
  OBVIOUS
<1>1. Typed'
  BY TypeStep DEF Safe
<1>2. ASSUME NEW w \in Writers, Record(w) PROVE Safe'
  <2>1. CASE \E req \in Requests, approved \in BOOLEAN : RecordStart(w, req, approved)
    BY <1>1, <2>1, StartKeepsSafe
  <2>2. CASE \E heard \in BOOLEAN : RecordInsert(w, heard)
    BY <1>1, <2>2, InsertKeepsSafe
  <2>3. CASE RecordConflict(w) \/ RecordReadBack(w) \/ RecordAbort(w)
    BY <1>1, <2>3, AnswerKeepsSafe
  <2> QED BY <1>2, <2>1, <2>2, <2>3 DEF Record
<1>3. ASSUME NEW c \in Callers, Execute(c) PROVE Safe'
  <2>1. UNCHANGED <<call, told>>
    BY <1>3, ExecuteAdvances DEF Safe
  <2>2. CASE UNCHANGED decision
    BY <1>1, <2>1, <2>2, IdleKeepsSafe
  <2>3. CASE ~UNCHANGED decision
    <3>1. PICK req \in Requests, rev \in Revisions, new \in Row :
            /\ Exists(req, rev)
            /\ Advances(decision[req][rev], new)
            /\ decision' = [decision EXCEPT ![req][rev] = new]
      BY <1>3, <2>3, ExecuteAdvances DEF Safe
    <3> QED BY <1>1, <2>1, <3>1, AdvanceKeepsSafe
  <2> QED BY <2>2, <2>3
<1>4. ASSUME NEW r \in Relays, RelayPass(r) PROVE Safe'
  BY <1>1, <1>4, IdleKeepsSafe
     DEF RelayPass, RelayList, RelayStep, RelayRetire, RelayTrigger, RelayTriggerFails,
         RelayConfirm, RelayCrash
<1>5. CASE UNCHANGED vars
  BY <1>1, <1>5, IdleKeepsSafe DEF vars
<1> QED
  BY <1>2, <1>3, <1>4, <1>5 DEF Next

(* First writer wins across deployments: never two active decisions of one     *)
(* request, and the active one is the newest round.                            *)
THEOREM FirstWriterWins == Spec => []NewestIsActive
<1>1. Safe => NewestIsActive
  BY DEF Safe
<1> QED
  BY <1>1, SafeInit, SafeStep, PTL DEF Spec

(* Rounds are numbered without gaps and no call in flight runs ahead.          *)
THEOREM Contiguity == Spec => []RoundsContiguous
<1>1. Safe => RoundsContiguous
  BY DEF Safe
<1> QED
  BY <1>1, SafeInit, SafeStep, PTL DEF Spec

(* What record() told a caller stays true of the caller's own deployment.      *)
THEOREM AnswersAreTrue == Spec => []ToldTruth
<1>1. Safe => ToldTruth
  BY DEF Safe
<1> QED
  BY <1>1, SafeInit, SafeStep, PTL DEF Spec

(* No sequence of calls makes a rejection wait for dispatch, or leaves a       *)
(* blocked reason on a row that no longer waits.                               *)
THEOREM RejectionIsFinal == Spec => []RejectionStays
<1>1. Safe => RejectionStays
  BY DEF Safe
<1> QED
  BY <1>1, SafeInit, SafeStep, PTL DEF Spec

(* A step of the authority only moves rounds forward.                          *)
LEMMA ForwardStep ==
  ASSUME Safe, [Next]_vars
  PROVE  \A req \in Requests : \A rev \in Revisions :
           LET old == decision[req][rev] new == decision'[req][rev] IN
           Exists(req, rev) =>
             /\ new.approved = old.approved /\ new.target = old.target
             /\ new.state # "absent"
             /\ old.state = "consumed" => new.state \in {"consumed", "void"}
             /\ old.state = "void" => new = old
<1>0. decision \in [Requests -> [Revisions -> Row]]
  BY DEF Safe, Typed, TypeOK
<1>1. CASE UNCHANGED decision
  BY <1>1 DEF Exists
<1>2. ASSUME NEW w \in Writers, NEW heard \in BOOLEAN, RecordInsert(w, heard)
      PROVE  \A req \in Requests : \A rev \in Revisions :
               Exists(req, rev) => decision'[req][rev] = decision[req][rev]
  <2> DEFINE c == call[w] fresh == FreshRow(c.approved, TargetOf[w])
  <2>1. c.req \in Requests /\ c.rev \in Revisions /\ fresh \in Row
    BY <1>2, RowTyping DEF RecordInsert, Safe, Typed, TypeOK, InFlight, CallState, Idle
  <2>2. ~Exists(c.req, c.rev) /\ decision' = [decision EXCEPT ![c.req][c.rev] = fresh]
    BY <1>2 DEF RecordInsert, InsertAdmitted
  <2> HIDE DEF c, fresh
  <2> QED BY <1>0, <2>1, <2>2, CellUpdate
<1>3. ASSUME NEW c \in Callers, Execute(c), ~UNCHANGED decision
      PROVE  \A req \in Requests : \A rev \in Revisions :
               Exists(req, rev) => \/ decision'[req][rev] = decision[req][rev]
                                   \/ Advances(decision[req][rev], decision'[req][rev])
  <2>1. PICK q \in Requests, n \in Revisions, row \in Row :
          /\ Advances(decision[q][n], row)
          /\ decision' = [decision EXCEPT ![q][n] = row]
    BY <1>3, ExecuteAdvances DEF Safe
  <2>2. \A req \in Requests, rev \in Revisions :
          decision'[req][rev] = IF req = q /\ rev = n THEN row ELSE decision[req][rev]
    BY <1>0, <2>1, CellUpdate
  <2> QED BY <2>1, <2>2
<1>4. \/ UNCHANGED decision
      \/ \E w \in Writers, heard \in BOOLEAN : RecordInsert(w, heard)
      \/ \E c \in Callers : Execute(c)
  BY DEF Next, vars, Record, RecordStart, RecordConflict, RecordReadBack, RecordAbort,
         RelayPass, RelayList, RelayStep, RelayRetire, RelayTrigger, RelayTriggerFails,
         RelayConfirm, RelayCrash
<1>5. CASE \E w \in Writers, heard \in BOOLEAN : RecordInsert(w, heard)
  BY <1>2, <1>5 DEF Exists
<1>6. CASE (\E c \in Callers : Execute(c)) /\ ~UNCHANGED decision
  BY <1>3, <1>6 DEF Advances, Exists
<1> QED
  BY <1>1, <1>4, <1>5, <1>6

(* Rounds only move forward, along every behaviour.                            *)
THEOREM Forward == Spec => RoundsMoveForward
<1>1. Safe /\ [Next]_vars =>
        [\A req \in Requests : \A rev \in Revisions :
           LET old == decision[req][rev] new == decision'[req][rev] IN
           Exists(req, rev) =>
             /\ new.approved = old.approved /\ new.target = old.target
             /\ new.state # "absent"
             /\ old.state = "consumed" => new.state \in {"consumed", "void"}
             /\ old.state = "void" => new = old]_vars
  BY ForwardStep
<1> QED
  BY <1>1, SafeInit, SafeStep, PTL DEF Spec, RoundsMoveForward
-----------------------------------------------------------------------------
(* A decided round stays: its verdict and its target never change, and a void  *)
(* one does not change at all.                                                 *)
LEMMA RowsStay ==
  ASSUME Safe, [Next]_vars, NEW req \in Requests, NEW rev \in Revisions, Exists(req, rev)
  PROVE  /\ Exists(req, rev)'
         /\ decision'[req][rev].approved = decision[req][rev].approved
         /\ decision'[req][rev].target = decision[req][rev].target
         /\ decision[req][rev].state = "void" => decision'[req][rev] = decision[req][rev]
BY ForwardStep DEF Exists

(* A caller that missed named a round of its own target, which stays.          *)
MissedKnown ==
  \A c \in Callers : cas[c].pc = "missed" =>
    /\ Exists(cas[c].req, cas[c].rev)
    /\ decision[cas[c].req][cas[c].rev].target = TargetOf[c]

Explained == Safe /\ MissedKnown /\ MissExplained

(* The initial states: no caller was answered anything.                        *)
LEMMA ExplainedInit == Init => Explained
<1> SUFFICES ASSUME Init PROVE Explained
  OBVIOUS
<1>1. \A c \in Callers : cas[c].pc = "idle"
  BY DEF Init, Idle
<1> QED
  BY <1>1, SafeInit DEF Explained, MissedKnown, MissExplained

(* What a step does to a caller: nothing, an update that hit, one that missed  *)
(* a row of its target, or the explanation of a miss.                          *)
LEMMA CallerStep ==
  ASSUME Typed, [Next]_vars, NEW c \in Callers
  PROVE  \/ cas'[c] = cas[c]
         \/ cas'[c] = [pc |-> "answered", verdict |-> "ok"]
         \/ /\ UNCHANGED decision
            /\ \E req \in Requests, rev \in Revisions :
                 /\ Exists(req, rev) /\ decision[req][rev].target = TargetOf[c]
                 /\ cas'[c] = [pc |-> "missed", req |-> req, rev |-> rev]
         \/ ResolveCasMiss(c)
<1>1. ASSUME NEW d \in Callers, NEW req \in Requests, NEW rev \in Revisions, NEW may, NEW new,
             CompareAndSet(d, req, rev, may, new)
      PROVE  \/ cas'[c] = cas[c]
             \/ cas'[c] = [pc |-> "answered", verdict |-> "ok"]
             \/ /\ UNCHANGED decision
                /\ Exists(req, rev) /\ decision[req][rev].target = TargetOf[c]
                /\ cas'[c] = [pc |-> "missed", req |-> req, rev |-> rev]
  BY <1>1 DEF CompareAndSet, Known, Typed, TypeOK
<1>2. CASE UNCHANGED cas
  BY <1>2
<1>3. ASSUME NEW d \in Callers, Execute(d), ~ResolveCasMiss(d)
      PROVE  \/ cas'[c] = cas[c]
             \/ cas'[c] = [pc |-> "answered", verdict |-> "ok"]
             \/ /\ UNCHANGED decision
                /\ \E req \in Requests, rev \in Revisions :
                     /\ Exists(req, rev) /\ decision[req][rev].target = TargetOf[c]
                     /\ cas'[c] = [pc |-> "missed", req |-> req, rev |-> rev]
  <2>1. PICK req \in Requests, rev \in Revisions, reason \in BOOLEAN :
             \/ MarkDispatching(d, req, rev) \/ MarkConsumed(d, req, rev)
             \/ ReleaseToPending(d, req, rev, reason) \/ VoidActive(d, req, rev)
             \/ SetBlockedReason(d, req, rev, reason)
    BY <1>3 DEF Execute
  <2>2. PICK may, new : CompareAndSet(d, req, rev, may, new)
    BY <2>1 DEF MarkDispatching, MarkConsumed, ReleaseToPending, VoidActive, SetBlockedReason
  <2> QED BY <1>1, <2>2
<1>4. ASSUME NEW d \in Callers, d # c, ResolveCasMiss(d) PROVE cas'[c] = cas[c]
  BY <1>4 DEF ResolveCasMiss, Typed, TypeOK
<1>5. UNCHANGED cas \/ \E d \in Callers : Execute(d)
  BY DEF Next, vars, Record, RecordStart, RecordInsert, RecordConflict, RecordReadBack,
         RecordAbort, RelayPass, RelayList, RelayStep, RelayRetire, RelayTrigger,
         RelayTriggerFails, RelayConfirm, RelayCrash
<1> QED
  BY <1>2, <1>3, <1>4, <1>5

(* Every step keeps the explanations true.                                     *)
LEMMA ExplainedStep == Explained /\ [Next]_vars => Explained'
<1> SUFFICES ASSUME Explained, [Next]_vars PROVE Explained'
  OBVIOUS
<1> USE DEF Explained
<1>1. Safe /\ Safe' /\ Typed /\ Typed'
  BY SafeStep DEF Safe
<1> SUFFICES ASSUME NEW c \in Callers
             PROVE  /\ cas'[c].pc = "missed" =>
                         /\ Exists(cas[c].req, cas[c].rev)'
                         /\ decision'[cas'[c].req][cas'[c].rev].target = TargetOf[c]
                    /\ cas'[c].pc = "answered" /\ cas'[c].verdict = "revision_conflict"
                         => cas'[c].current > cas'[c].rev
                    /\ cas'[c].pc = "answered" /\ cas'[c].verdict = "not_found"
                         => decision'[cas'[c].req][cas'[c].rev].state = "void"
  BY <1>1 DEF MissedKnown, MissExplained
<1>2. CASE cas'[c] = cas[c]
  <2>1. CASE cas[c].pc = "missed"
    <3>1. cas[c].req \in Requests /\ cas[c].rev \in Revisions
      BY <1>1, <2>1 DEF Typed, TypeOK, CasState, Idle
    <3> QED BY <1>1, <1>2, <2>1, <3>1, RowsStay DEF MissedKnown, Exists
  <2>2. CASE cas[c].pc = "answered" /\ cas[c].verdict = "not_found"
    <3>1. cas[c].req \in Requests /\ cas[c].rev \in Revisions
      BY <1>1, <2>2 DEF Typed, TypeOK, CasState, Idle
    <3>2. decision[cas[c].req][cas[c].rev].state = "void"
      BY <2>2 DEF MissExplained
    <3>3. Exists(cas[c].req, cas[c].rev)
      BY <3>2 DEF Exists
    <3> QED BY <1>1, <1>2, <2>2, <3>1, <3>2, <3>3, RowsStay
  <2>3. CASE cas[c].pc = "answered" /\ cas[c].verdict = "revision_conflict"
    BY <1>2, <2>3 DEF MissExplained
  <2> QED BY <1>2, <2>1, <2>2, <2>3
<1>3. CASE cas'[c] = [pc |-> "answered", verdict |-> "ok"]
  BY <1>3
<1>4. CASE /\ UNCHANGED decision
           /\ \E req \in Requests, rev \in Revisions :
                /\ Exists(req, rev) /\ decision[req][rev].target = TargetOf[c]
                /\ cas'[c] = [pc |-> "missed", req |-> req, rev |-> rev]
  BY <1>4 DEF Exists
<1>5. CASE ResolveCasMiss(c)
  <2> DEFINE req == cas[c].req rev == cas[c].rev
  <2>1. /\ cas[c].pc = "missed" /\ UNCHANGED decision
        /\ req \in Requests /\ rev \in Revisions
    BY <1>1, <1>5 DEF ResolveCasMiss, Typed, TypeOK, CasState, Idle
  <2>2. Exists(req, rev) /\ decision[req][rev].target = TargetOf[c]
    BY <2>1 DEF MissedKnown
  <2>3. ASSUME NEW current \in Revisions, ActiveFor(req, current, TargetOf[c]), current # rev
        PROVE  current > rev
    BY <1>1, <2>1, <2>2, <2>3 DEF Safe, NewestIsActive, ActiveFor, Revisions
  <2>4. ASSUME \A current \in Revisions : ~ActiveFor(req, current, TargetOf[c])
        PROVE  decision[req][rev].state = "void"
    BY <2>1, <2>2, <2>4 DEF ActiveFor, Active, Exists
  <2>5. CASE \E current \in Revisions :
               /\ ActiveFor(req, current, TargetOf[c])
               /\ cas' = [cas EXCEPT ![c] =
                    [pc |-> "answered", req |-> req, rev |-> rev, current |-> current,
                     verdict |-> IF current # rev THEN "revision_conflict" ELSE "state_conflict"]]
    <3>1. PICK current \in Revisions :
               /\ ActiveFor(req, current, TargetOf[c])
               /\ cas'[c] =
                    [pc |-> "answered", req |-> req, rev |-> rev, current |-> current,
                     verdict |-> IF current # rev THEN "revision_conflict" ELSE "state_conflict"]
      BY <1>1, <2>5 DEF Typed, TypeOK
    <3> QED BY <2>3, <3>1
  <2>6. CASE /\ \A current \in Revisions : ~ActiveFor(req, current, TargetOf[c])
             /\ cas' = [cas EXCEPT ![c] =
                  [pc |-> "answered", req |-> req, rev |-> rev, verdict |-> "not_found"]]
    <3>1. cas'[c] = [pc |-> "answered", req |-> req, rev |-> rev, verdict |-> "not_found"]
      BY <1>1, <2>6 DEF Typed, TypeOK
    <3> QED BY <2>1, <2>4, <2>6, <3>1
  <2> QED BY <1>5, <2>5, <2>6 DEF ResolveCasMiss
<1> QED
  BY <1>1, <1>2, <1>3, <1>4, <1>5, CallerStep

(* A caller whose update missed is told the truth about it, although the row   *)
(* is read again in a later statement.                                         *)
THEOREM MissesExplained == Spec => []MissExplained
<1>1. Explained => MissExplained
  BY DEF Explained
<1> QED
  BY <1>1, ExplainedInit, ExplainedStep, PTL DEF Spec
-----------------------------------------------------------------------------
(* From the commit of an approval to its trigger.  Beyond what CommandsFollow  *)
(* says, the invariant knows that a pass holds an acknowledgement only for a   *)
(* trigger that arrived, and that what was triggered is on record.             *)
KeyOf(command) == [req |-> command.req, rev |-> command.rev, target |-> command.target]

TriggersKnown ==
  /\ \A x \in triggered : Exists(x.req, x.rev)
  /\ \A r \in Relays : relay[r].ack # 0 => KeyOf(outbox[relay[r].ack]) \in triggered

Follows == Safe /\ CommandsFollow /\ TriggersKnown

(* A command names a round.                                                    *)
LEMMA CommandFields ==
  ASSUME Typed
  PROVE  \A i \in DOMAIN outbox : outbox[i].req \in Requests /\ outbox[i].rev \in Revisions
<1> SUFFICES ASSUME NEW i \in DOMAIN outbox
             PROVE  outbox[i].req \in Requests /\ outbox[i].rev \in Revisions
  OBVIOUS
<1>1. outbox[i] \in Command
  BY DEF Typed, TypeOK
<1> QED
  BY <1>1 DEF Command

(* The initial states: no command, or the one of an approved legacy comment.   *)
LEMMA FollowsInit == Init => Follows
<1> SUFFICES ASSUME Init PROVE Follows
  OBVIOUS
<1>1. Safe /\ triggered = {} /\ \A r \in Relays : relay[r].ack = 0
  BY SafeInit DEF Init
<1>2. CommandPerApproval /\ ConsumedWasTriggered
  <2>1. CASE Fresh
    <3>1. outbox = <<>> /\ \A q \in Requests, n \in Revisions : ~Exists(q, n)
      BY <2>1, NoRow.state = "absent" DEF Fresh, Exists, NoRow
    <3> QED BY <3>1 DEF CommandPerApproval, ConsumedWasTriggered
  <2>2. CASE \E req \in Comments, t \in Targets : Legacy(req, t)
    <3>1. PICK req \in Comments, t \in Targets : Legacy(req, t)
      BY <2>2
    <3> DEFINE command == [req |-> req, rev |-> 1, target |-> t, consumed |-> FALSE]
    <3>2. outbox = <<command>>
      BY <3>1 DEF Legacy
    <3>3. DOMAIN outbox = {1} /\ outbox[1].req = req /\ outbox[1].rev = 1 /\ outbox[1].target = t
      BY <3>2
    <3>4. 1 \in Revisions /\ req \in Requests
      BY ApprovalAssumption DEF Revisions
    <3>5. decision[req][1] = FreshRow(TRUE, t)
      BY <3>1, <3>4 DEF Legacy
    <3>6. /\ decision[req][1].state # "absent"
          /\ decision[req][1].approved /\ decision[req][1].target = t
      BY <3>5 DEF FreshRow
    <3>7. \A q \in Requests \ Comments, n \in Revisions : ~Exists(q, n)
      <4>1. \A q \in Requests \ Comments, n \in Revisions : decision[q][n] = NoRow
        BY <3>1 DEF Legacy
      <4> QED BY <4>1 DEF Exists, NoRow
    <3> HIDE DEF command
    <3> QED BY <3>3, <3>6, <3>7 DEF CommandPerApproval, ConsumedWasTriggered, Exists
  <2> QED BY <2>1, <2>2 DEF Init
<1> QED
  BY <1>1, <1>2 DEF Follows, CommandsFollow, TriggerAuthorised, TriggersKnown

(* What the insert does to the outbox: at most one command is appended, of the *)
(* round it decides, and it is there for an approved publication.              *)
LEMMA OutboxGrows ==
  ASSUME Typed, NEW w \in Writers, NEW heard \in BOOLEAN, RecordInsert(w, heard)
  PROVE  LET c == call[w] IN
         /\ \A i \in DOMAIN outbox : i \in DOMAIN outbox' /\ outbox'[i] = outbox[i]
         /\ \A i \in DOMAIN outbox' \ DOMAIN outbox :
              /\ i = Len(outbox) + 1 /\ NoCommand(c.req, c.rev)
              /\ c.approved /\ outbox'[i] = CommandFor(c, TargetOf[w])
         /\ c.approved /\ c.req \notin Comments
              => \E i \in DOMAIN outbox' : outbox'[i].req = c.req /\ outbox'[i].rev = c.rev
<1> DEFINE c == call[w] command == CommandFor(c, TargetOf[w])
<1>0. outbox \in Seq(Command) /\ DOMAIN outbox = 1..Len(outbox) /\ Len(outbox) \in Nat
  BY DEF Typed, TypeOK
<1>1. command.req = c.req /\ command.rev = c.rev
  BY DEF CommandFor
<1>2. CASE c.approved /\ c.req \notin Comments /\ NoCommand(c.req, c.rev)
  <2>1. outbox' = Append(outbox, command)
    BY <1>2 DEF RecordInsert, OutboxAfter
  <2>3. command \in Command
    BY DEF RecordInsert, Typed, TypeOK, InFlight, CallState, Idle, CommandFor, Command
  <2>2. /\ DOMAIN outbox' = 1..(Len(outbox) + 1)
        /\ outbox'[Len(outbox) + 1] = command
        /\ \A i \in 1..Len(outbox) : outbox'[i] = outbox[i]
    <3> HIDE DEF command
    <3> QED BY <1>0, <2>1, <2>3
  <2> HIDE DEF command
  <2>4. \A i \in DOMAIN outbox' \ DOMAIN outbox : i = Len(outbox) + 1
    BY <1>0, <2>2
  <2>5. Len(outbox) + 1 \in DOMAIN outbox'
    BY <1>0, <2>2
  <2>6. \A i \in DOMAIN outbox : i \in DOMAIN outbox' /\ outbox'[i] = outbox[i]
    BY <1>0, <2>2
  <2> QED BY <1>1, <1>2, <2>2, <2>4, <2>5, <2>6 DEF command
<1>3. CASE ~(c.approved /\ c.req \notin Comments /\ NoCommand(c.req, c.rev))
  <2>1. outbox' = outbox
    BY <1>3 DEF RecordInsert, OutboxAfter
  <2> QED BY <1>3, <2>1 DEF NoCommand
<1> QED
  BY <1>2, <1>3

(* The commit of a decision.                                                   *)
LEMMA InsertFollows ==
  ASSUME Follows, Safe', [Next]_vars, NEW w \in Writers, NEW heard \in BOOLEAN,
         RecordInsert(w, heard)
  PROVE  Follows'
<1> DEFINE c == call[w] t == TargetOf[w]
<1> USE DEF Follows, CommandsFollow
<1>0. Typed /\ Typed'
  BY DEF Safe
<1>1. /\ c.req \in Requests /\ c.rev \in Revisions /\ t \in Targets /\ c.approved \in BOOLEAN
  <2>1. c \in CallState /\ c.pc = "insert"  BY <1>0 DEF RecordInsert, Typed, TypeOK
  <2>2. t \in Targets  BY <1>0, <2>1 DEF Typed, InFlight
  <2> HIDE DEF c, t
  <2> QED BY <2>1, <2>2 DEF CallState, Idle
<1>2. UNCHANGED <<relay, triggered>> /\ ~Exists(c.req, c.rev)
  BY DEF RecordInsert, InsertAdmitted
<1>3. /\ decision'[c.req][c.rev].state # "absent"
      /\ decision'[c.req][c.rev].approved = c.approved
      /\ decision'[c.req][c.rev].target = t
      /\ \A q \in Requests, n \in Revisions :
           ~(q = c.req /\ n = c.rev) => decision'[q][n] = decision[q][n]
  <2> DEFINE fresh == FreshRow(c.approved, t)
  <2>1. fresh \in Row /\ decision \in [Requests -> [Revisions -> Row]]
    BY <1>0, <1>1, RowTyping DEF Typed, TypeOK
  <2>2. decision' = [decision EXCEPT ![c.req][c.rev] = fresh]
    BY DEF RecordInsert
  <2>3. fresh.state # "absent" /\ fresh.approved = c.approved /\ fresh.target = t
    BY DEF FreshRow
  <2> HIDE DEF c, t, fresh
  <2> QED BY <1>1, <2>1, <2>2, <2>3, CellUpdate
<1>4. /\ \A i \in DOMAIN outbox : i \in DOMAIN outbox' /\ outbox'[i] = outbox[i]
      /\ \A i \in DOMAIN outbox' \ DOMAIN outbox :
           /\ i = Len(outbox) + 1 /\ NoCommand(c.req, c.rev)
           /\ c.approved /\ outbox'[i].req = c.req /\ outbox'[i].rev = c.rev
           /\ outbox'[i].target = t /\ ~outbox'[i].consumed
      /\ c.approved /\ c.req \notin Comments
           => \E i \in DOMAIN outbox' : outbox'[i].req = c.req /\ outbox'[i].rev = c.rev
  BY <1>0, OutboxGrows DEF CommandFor
<1>5. \A i \in DOMAIN outbox : outbox[i].req \in Requests /\ outbox[i].rev \in Revisions
  BY <1>0, CommandFields
<1> HIDE DEF c, t
<1>6. CommandPerApproval'
  <2>1. ASSUME NEW req \in Requests \ Comments, NEW rev \in Revisions,
               decision'[req][rev].state # "absent", decision'[req][rev].approved
        PROVE  \E i \in DOMAIN outbox' : outbox'[i].req = req /\ outbox'[i].rev = rev
    <3>1. CASE req = c.req /\ rev = c.rev
      BY <1>3, <1>4, <2>1, <3>1
    <3>2. CASE ~(req = c.req /\ rev = c.rev)
      <4>1. Exists(req, rev) /\ decision[req][rev].approved
        BY <1>3, <2>1, <3>2 DEF Exists
      <4> QED BY <1>4, <4>1 DEF CommandPerApproval, NoCommand
    <3> QED BY <3>1, <3>2
  <2>2. ASSUME NEW i \in DOMAIN outbox'
        PROVE  /\ decision'[outbox'[i].req][outbox'[i].rev].state # "absent"
               /\ decision'[outbox'[i].req][outbox'[i].rev].approved
               /\ decision'[outbox'[i].req][outbox'[i].rev].target = outbox'[i].target
    <3>1. CASE i \in DOMAIN outbox
      <4>1. /\ Exists(outbox[i].req, outbox[i].rev)
            /\ decision[outbox[i].req][outbox[i].rev].approved
            /\ decision[outbox[i].req][outbox[i].rev].target = outbox[i].target
        BY <3>1 DEF CommandPerApproval
      <4>2. ~(outbox[i].req = c.req /\ outbox[i].rev = c.rev)
        BY <1>2, <4>1
      <4> QED BY <1>3, <1>4, <1>5, <3>1, <4>1, <4>2 DEF Exists
    <3>2. CASE i \notin DOMAIN outbox
      BY <1>3, <1>4, <3>2
    <3> QED BY <3>1, <3>2
  <2>3. ASSUME NEW i \in DOMAIN outbox', NEW j \in DOMAIN outbox',
               outbox'[i].req = outbox'[j].req, outbox'[i].rev = outbox'[j].rev
        PROVE  i = j
    <3>1. CASE i \in DOMAIN outbox /\ j \in DOMAIN outbox
      BY <1>4, <2>3, <3>1 DEF CommandPerApproval
    <3>2. CASE i \notin DOMAIN outbox \/ j \notin DOMAIN outbox
      BY <1>4, <2>3, <3>2 DEF NoCommand
    <3> QED BY <3>1, <3>2
  <2> QED BY <2>1, <2>2, <2>3 DEF CommandPerApproval, NoCommand, Exists
<1>7. ConsumedWasTriggered'
  BY <1>2, <1>4 DEF ConsumedWasTriggered
<1>8. TriggerAuthorised' /\ TriggersKnown'
  <2>1. \A x \in triggered : /\ x.req \in Requests /\ x.rev \in Revisions
                             /\ ~(x.req = c.req /\ x.rev = c.rev)
    BY <1>0, <1>2 DEF Typed, TypeOK, TriggersKnown
  <2>2. \A x \in triggered : decision'[x.req][x.rev] = decision[x.req][x.rev]
    BY <1>3, <2>1
  <2>3. ASSUME NEW r \in Relays, relay[r].ack # 0
        PROVE  outbox'[relay[r].ack] = outbox[relay[r].ack]
    BY <1>0, <1>4, <2>3 DEF Typed, InFlight
  <2> QED BY <1>2, <2>2, <2>3 DEF TriggerAuthorised, TriggersKnown, Exists
<1> QED
  BY <1>6, <1>7, <1>8

(* A step that leaves outbox, passes and triggers alone.                       *)
LEMMA TableStepFollows ==
  ASSUME Follows, Safe', [Next]_vars, UNCHANGED <<outbox, relay, triggered>>,
         \A q \in Requests, n \in Revisions : Exists(q, n)' => Exists(q, n)
  PROVE  Follows'
<1> USE DEF Follows, CommandsFollow
<1>0. \A q \in Requests, n \in Revisions : Exists(q, n) =>
        /\ Exists(q, n)'
        /\ decision'[q][n].approved = decision[q][n].approved
        /\ decision'[q][n].target = decision[q][n].target
  BY RowsStay
<1>1. \A i \in DOMAIN outbox : outbox[i].req \in Requests /\ outbox[i].rev \in Revisions
  BY CommandFields DEF Safe
<1>2. \A x \in triggered : x.req \in Requests /\ x.rev \in Revisions
  BY DEF Safe, Typed, TypeOK
<1>3. CommandPerApproval'
  BY <1>0, <1>1 DEF CommandPerApproval, NoCommand
<1>4. ConsumedWasTriggered'
  BY DEF ConsumedWasTriggered
<1>5. TriggerAuthorised' /\ TriggersKnown'
  BY <1>0, <1>2 DEF TriggerAuthorised, TriggersKnown
<1> QED
  BY <1>3, <1>4, <1>5

(* What a step of a pass does: it marks commands, of a comment or with an      *)
(* acknowledged trigger, and triggers for commands of publications.            *)
LEMMA RelayEffects ==
  ASSUME Typed, NEW r \in Relays, RelayPass(r)
  PROVE  /\ UNCHANGED decision /\ DOMAIN outbox' = DOMAIN outbox
         /\ \A i \in DOMAIN outbox :
              /\ KeyOf(outbox'[i]) = KeyOf(outbox[i])
              /\ outbox'[i].consumed => \/ outbox[i].consumed \/ outbox[i].req \in Comments
                                        \/ i = relay[r].ack
         /\ triggered \subseteq triggered'
         /\ \A x \in triggered' \ triggered :
              \E i \in DOMAIN outbox : x = KeyOf(outbox[i]) /\ outbox[i].req \notin Comments
         /\ \A p \in Relays : relay'[p].ack # 0 =>
              relay'[p].ack = relay[p].ack \/ KeyOf(outbox[relay'[p].ack]) \in triggered'
<1>0. /\ outbox \in Seq(Command) /\ relay \in [Relays -> [batch: SUBSET Nat, ack: Nat]]
      /\ \A i \in DOMAIN outbox : outbox[i] \in Command
  BY DEF Typed, TypeOK
<1>1. ASSUME NEW i \in DOMAIN outbox, Confirm(i)
      PROVE  /\ DOMAIN outbox' = DOMAIN outbox
             /\ \A j \in DOMAIN outbox : /\ KeyOf(outbox'[j]) = KeyOf(outbox[j])
                                         /\ outbox'[j].consumed => outbox[j].consumed \/ j = i
  BY <1>0, <1>1 DEF Confirm, KeyOf, Command
<1>2. CASE RelayList(r) \/ RelayCrash(r)
  <2>1. UNCHANGED <<decision, outbox, triggered>>
    BY <1>2 DEF RelayList, RelayCrash
  <2>2. ASSUME NEW p \in Relays PROVE relay'[p].ack \in {0, relay[p].ack}
    BY <1>0, <1>2 DEF RelayList, RelayCrash
  <2> QED BY <2>1, <2>2
<1>3. ASSUME NEW i \in relay[r].batch, RelayRetire(r, i)
      PROVE  /\ UNCHANGED <<decision, triggered>> /\ Confirm(i)
             /\ outbox[i].req \in Comments
             /\ \A p \in Relays : relay'[p].ack = relay[p].ack
  BY <1>0, <1>3 DEF RelayRetire
<1>4. ASSUME NEW i \in relay[r].batch, RelayTriggerFails(r, i)
      PROVE  /\ UNCHANGED <<decision, triggered, outbox>>
             /\ \A p \in Relays : relay'[p].ack = relay[p].ack
  BY <1>0, <1>4 DEF RelayTriggerFails
<1>5. ASSUME NEW i \in relay[r].batch, NEW answered \in BOOLEAN, RelayTrigger(r, i, answered)
      PROVE  /\ UNCHANGED <<decision, outbox>>
             /\ triggered' = triggered \cup {KeyOf(outbox[i])} /\ outbox[i].req \notin Comments
             /\ \A p \in Relays : relay'[p].ack = relay[p].ack \/ relay'[p].ack = i
  BY <1>0, <1>5 DEF RelayTrigger, KeyOf
<1>6. CASE RelayConfirm(r)
  <2>1. /\ UNCHANGED <<decision, triggered>> /\ Confirm(relay[r].ack)
        /\ relay[r].ack # 0
        /\ \A p \in Relays : relay'[p].ack # 0 => relay'[p].ack = relay[p].ack
    BY <1>0, <1>6 DEF RelayConfirm
  <2>2. relay[r].ack \in DOMAIN outbox
    BY <2>1 DEF Typed, InFlight
  <2> QED BY <1>1, <2>1, <2>2
<1>7. relay[r].batch \subseteq DOMAIN outbox
  BY DEF Typed, InFlight
<1>8. CASE \E i \in relay[r].batch : RelayRetire(r, i)
  BY <1>1, <1>3, <1>7, <1>8
<1>9. CASE \E i \in relay[r].batch : RelayTriggerFails(r, i)
  BY <1>4, <1>9
<1>10. CASE \E i \in relay[r].batch, answered \in BOOLEAN : RelayTrigger(r, i, answered)
  <2>1. PICK i \in relay[r].batch, answered \in BOOLEAN : RelayTrigger(r, i, answered)
    BY <1>10
  <2>2. i \in DOMAIN outbox
    BY <1>7
  <2> QED BY <1>5, <2>1, <2>2
<1> QED
  BY <1>2, <1>6, <1>8, <1>9, <1>10 DEF RelayPass, RelayStep

(* A step of a pass.                                                           *)
LEMMA RelayFollows ==
  ASSUME Follows, Safe', NEW r \in Relays, RelayPass(r)
  PROVE  Follows'
<1> USE DEF Follows, CommandsFollow
<1>0. Typed /\ Typed'
  BY DEF Safe
<1>1. /\ UNCHANGED decision /\ DOMAIN outbox' = DOMAIN outbox
      /\ \A i \in DOMAIN outbox :
           /\ KeyOf(outbox'[i]) = KeyOf(outbox[i])
           /\ outbox'[i].consumed => \/ outbox[i].consumed \/ outbox[i].req \in Comments
                                     \/ i = relay[r].ack
      /\ triggered \subseteq triggered'
      /\ \A x \in triggered' \ triggered :
           \E i \in DOMAIN outbox : x = KeyOf(outbox[i]) /\ outbox[i].req \notin Comments
      /\ \A p \in Relays : relay'[p].ack # 0 =>
           relay'[p].ack = relay[p].ack \/ KeyOf(outbox[relay'[p].ack]) \in triggered'
  BY <1>0, RelayEffects
<1>2. \A i \in DOMAIN outbox : /\ outbox'[i].req = outbox[i].req
                               /\ outbox'[i].rev = outbox[i].rev
                               /\ outbox'[i].target = outbox[i].target
  BY <1>1 DEF KeyOf
<1>3. CommandPerApproval'
  BY <1>1, <1>2 DEF CommandPerApproval, NoCommand, Exists
<1>4. ConsumedWasTriggered'
  <2> SUFFICES ASSUME NEW i \in DOMAIN outbox, outbox'[i].consumed, outbox[i].req \notin Comments
               PROVE  KeyOf(outbox[i]) \in triggered'
    BY <1>1, <1>2 DEF ConsumedWasTriggered, KeyOf
  <2>1. CASE outbox[i].consumed
    BY <1>1, <2>1 DEF ConsumedWasTriggered, KeyOf
  <2>2. CASE i = relay[r].ack
    <3>1. i # 0
      BY <1>0 DEF Typed, TypeOK
    <3> QED BY <1>1, <2>2, <3>1 DEF TriggersKnown
  <2> QED BY <1>1, <2>1, <2>2
<1>5. ASSUME NEW x \in triggered'
      PROVE  /\ x.req \notin Comments /\ decision[x.req][x.rev].approved
             /\ decision[x.req][x.rev].target = x.target /\ Exists(x.req, x.rev)
  <2>1. CASE x \in triggered
    BY <2>1 DEF TriggerAuthorised, TriggersKnown
  <2>2. CASE x \notin triggered
    <3>1. PICK i \in DOMAIN outbox : x = KeyOf(outbox[i]) /\ outbox[i].req \notin Comments
      BY <1>1, <2>2
    <3> QED BY <3>1 DEF CommandPerApproval, KeyOf
  <2> QED BY <2>1, <2>2
<1>6. ASSUME NEW p \in Relays, relay'[p].ack # 0
      PROVE  KeyOf(outbox'[relay'[p].ack]) \in triggered'
  <2>1. relay'[p].ack \in DOMAIN outbox
    BY <1>0, <1>1, <1>6 DEF Typed, InFlight
  <2> QED BY <1>1, <1>6, <2>1 DEF TriggersKnown
<1> QED
  BY <1>1, <1>3, <1>4, <1>5, <1>6 DEF TriggerAuthorised, TriggersKnown, Exists

(* Every step keeps the commands in order.                                     *)
LEMMA FollowsStep == Follows /\ [Next]_vars => Follows'
<1> SUFFICES ASSUME Follows, [Next]_vars PROVE Follows'
  OBVIOUS
<1>1. Safe /\ Safe' /\ Typed
  BY SafeStep DEF Follows, Safe
<1>2. ASSUME NEW w \in Writers, Record(w) PROVE Follows'
  <2>1. CASE \E heard \in BOOLEAN : RecordInsert(w, heard)
    BY <1>1, <2>1, InsertFollows
  <2>2. CASE UNCHANGED <<decision, outbox, relay, triggered>>
    BY <1>1, <2>2, TableStepFollows DEF Exists
  <2> QED
    BY <1>2, <2>1, <2>2 DEF Record, RecordStart, RecordConflict, RecordReadBack, RecordAbort
<1>3. ASSUME NEW c \in Callers, Execute(c) PROVE Follows'
  <2>1. UNCHANGED <<outbox, relay, triggered>>
    BY <1>3 DEF Execute, MarkDispatching, MarkConsumed, ReleaseToPending, VoidActive,
                SetBlockedReason, CompareAndSet, ResolveCasMiss
  <2>2. \A q \in Requests, n \in Revisions : Exists(q, n)' => Exists(q, n)
    <3>1. CASE UNCHANGED decision
      BY <3>1 DEF Exists
    <3>2. CASE ~UNCHANGED decision
      <4>1. PICK req \in Requests, rev \in Revisions, new \in Row :
              Exists(req, rev) /\ decision' = [decision EXCEPT ![req][rev] = new]
        BY <1>1, <1>3, <3>2, ExecuteAdvances
      <4>2. \A q \in Requests, n \in Revisions :
              decision'[q][n] = IF q = req /\ n = rev THEN new ELSE decision[q][n]
        BY <1>1, <4>1, CellUpdate DEF Typed, TypeOK
      <4> QED BY <4>1, <4>2 DEF Exists
    <3> QED BY <3>1, <3>2
  <2> QED BY <1>1, <2>1, <2>2, TableStepFollows
<1>4. ASSUME NEW r \in Relays, RelayPass(r) PROVE Follows'
  BY <1>1, <1>4, RelayFollows
<1>5. CASE UNCHANGED vars
  BY <1>1, <1>5, TableStepFollows DEF vars, Exists
<1> QED
  BY <1>2, <1>3, <1>4, <1>5 DEF Next

(* An approval and its command commit together, a command is consumed only     *)
(* after its trigger arrived, and only approved publications are triggered.    *)
(* In which order commands go out it does not say: the relay promises none.    *)
THEOREM CommandsFollowApprovals == Spec => []CommandsFollow
<1>1. Follows => CommandsFollow
  BY DEF Follows
<1> QED
  BY <1>1, FollowsInit, FollowsStep, PTL DEF Spec
-----------------------------------------------------------------------------
(* The refinement.  Every step of the table is a step of the register or none: *)
(* the insert decides a round, the read-back tells one, a void closes one; no  *)
(* other step can be seen.  Beyond Safe it takes that a decided round belongs  *)
(* to a deployment, so that it is a round of the register.                     *)
DecidedByTarget ==
  \A req \in Requests : \A rev \in Revisions :
    Exists(req, rev) => decision[req][rev].target \in Targets

Mapped == Safe /\ DecidedByTarget

LEMMA MappedInit == Init => Mapped
<1> SUFFICES ASSUME Init PROVE Mapped
  OBVIOUS
<1>1. CASE Fresh
  BY <1>1, SafeInit DEF Fresh, Mapped, DecidedByTarget, Exists, NoRow
<1>2. CASE \E req \in Comments, t \in Targets : Legacy(req, t)
  <2>1. PICK req \in Comments, t \in Targets : Legacy(req, t)
    BY <1>2
  <2>2. \A q \in Requests, n \in Revisions :
          decision[q][n] = IF q = req /\ n = 1 THEN FreshRow(TRUE, t) ELSE NoRow
    BY <2>1 DEF Legacy
  <2>3. FreshRow(TRUE, t).target = t /\ NoRow.state = "absent"
    BY DEF FreshRow, NoRow
  <2> QED BY <2>2, <2>3, SafeInit DEF Mapped, DecidedByTarget, Exists
<1> QED
  BY <1>1, <1>2 DEF Init

(* Only the insert adds a row, of the target of its process.                   *)
LEMMA OnlyInsertAdds ==
  ASSUME Safe, [Next]_vars, NEW req \in Requests, NEW rev \in Revisions,
         Exists(req, rev)', ~Exists(req, rev)
  PROVE  \E w \in Writers, heard \in BOOLEAN :
           /\ RecordInsert(w, heard)
           /\ call[w].req = req /\ call[w].rev = rev
           /\ decision'[req][rev].target = TargetOf[w]
<1>0. Typed
  BY DEF Safe
<1>1. ASSUME NEW w \in Writers, NEW heard \in BOOLEAN, RecordInsert(w, heard)
      PROVE  /\ call[w].req = req /\ call[w].rev = rev
             /\ decision'[req][rev].target = TargetOf[w]
  <2> DEFINE c == call[w] fresh == FreshRow(c.approved, TargetOf[w])
  <2>1. c.req \in Requests /\ c.rev \in Revisions /\ fresh \in Row
    BY <1>0, <1>1, RowTyping DEF RecordInsert, Typed, TypeOK, InFlight, CallState, Idle
  <2>2. decision' = [decision EXCEPT ![c.req][c.rev] = fresh] /\ fresh.target = TargetOf[w]
    BY <1>1 DEF RecordInsert, FreshRow
  <2>3. decision \in [Requests -> [Revisions -> Row]]
    BY <1>0 DEF Typed, TypeOK
  <2> HIDE DEF fresh
  <2>4. decision'[req][rev] = IF req = c.req /\ rev = c.rev THEN fresh ELSE decision[req][rev]
    <3> HIDE DEF c
    <3> QED BY <2>1, <2>2, <2>3, CellUpdate
  <2> QED BY <2>2, <2>4 DEF Exists
<1>2. ASSUME NEW c \in Callers, Execute(c) PROVE FALSE
  <2>1. ~UNCHANGED decision
    BY DEF Exists
  <2>2. PICK q \in Requests, n \in Revisions, new \in Row :
          Exists(q, n) /\ decision' = [decision EXCEPT ![q][n] = new]
    BY <1>0, <1>2, <2>1, ExecuteAdvances
  <2>3. decision'[req][rev] = IF req = q /\ rev = n THEN new ELSE decision[req][rev]
    BY <1>0, <2>2, CellUpdate DEF Typed, TypeOK
  <2> QED BY <2>2, <2>3 DEF Exists
<1>3. UNCHANGED decision \/ (\E c \in Callers : Execute(c))
        \/ \E w \in Writers, heard \in BOOLEAN : RecordInsert(w, heard)
  BY DEF Next, vars, Record, RecordStart, RecordConflict, RecordReadBack, RecordAbort,
         RelayPass, RelayList, RelayStep, RelayRetire, RelayTrigger, RelayTriggerFails,
         RelayConfirm, RelayCrash
<1> QED
  BY <1>1, <1>2, <1>3 DEF Exists

LEMMA MappedStep == Mapped /\ [Next]_vars => Mapped'
<1> SUFFICES ASSUME Mapped, [Next]_vars PROVE Mapped'
  OBVIOUS
<1> USE DEF Mapped
<1>1. Safe'
  BY SafeStep
<1>2. ASSUME NEW req \in Requests, NEW rev \in Revisions, Exists(req, rev)'
      PROVE  decision'[req][rev].target \in Targets
  <2>1. CASE Exists(req, rev)
    BY <2>1, RowsStay DEF DecidedByTarget
  <2>2. CASE ~Exists(req, rev)
    <3>1. PICK w \in Writers, heard \in BOOLEAN :
            RecordInsert(w, heard) /\ decision'[req][rev].target = TargetOf[w]
      BY <1>2, <2>2, OnlyInsertAdds
    <3>2. call[w].pc = "insert"
      BY <3>1 DEF RecordInsert
    <3> QED BY <3>1, <3>2 DEF Safe, Typed, InFlight
  <2> QED BY <2>1, <2>2
<1> QED
  BY <1>1, <1>2 DEF DecidedByTarget, Exists

(* The two tables of the register, row by row, before a step and after it.     *)
RowByRow ==
  /\ \A x : x \in RowRounds <=>
       \E q \in Requests, n \in Revisions : Exists(q, n) /\ x = RoundOf(q, n)
  /\ \A x : x \in OpenRounds <=>
       \E q \in Requests, n \in Revisions : Active(q, n) /\ x = RoundOf(q, n)

LEMMA RoundsOfRows == RowByRow
<1>1. ASSUME NEW q \in Requests, NEW n \in Revisions
      PROVE  <<q, n>> \in RoundKeys /\ <<q, n>>[1] = q /\ <<q, n>>[2] = n
  BY DEF RoundKeys
<1>2. \A k \in RoundKeys : k[1] \in Requests /\ k[2] \in Revisions
  BY DEF RoundKeys
<1>3. ASSUME NEW q \in Requests, NEW n \in Revisions
      PROVE  /\ Exists(q, n) => RoundOf(q, n) \in RowRounds
             /\ Active(q, n) => RoundOf(q, n) \in OpenRounds
  BY <1>1 DEF RowRounds, OpenRounds
<1>4. ASSUME NEW x \in RowRounds
      PROVE  \E q \in Requests, n \in Revisions : Exists(q, n) /\ x = RoundOf(q, n)
  BY <1>2 DEF RowRounds
<1>5. ASSUME NEW x \in OpenRounds
      PROVE  \E q \in Requests, n \in Revisions : Active(q, n) /\ x = RoundOf(q, n)
  BY <1>2 DEF OpenRounds
<1> QED
  BY <1>3, <1>4, <1>5 DEF RowByRow

LEMMA RoundsOfRowsNext == RowByRow'
BY RoundsOfRows, PTL

LEMMA RoundOfMapped ==
  ASSUME Mapped, NEW req \in Requests, NEW rev \in Revisions, Exists(req, rev)
  PROVE  RoundOf(req, rev) \in Register!Round
<1>1. decision[req][rev] \in Row
  BY DEF Mapped, Safe, Typed, TypeOK
<1> QED
  BY <1>1 DEF Mapped, DecidedByTarget, RoundOf, Row, Register!Round

(* The initial tables are initial tables of the register.                      *)
LEMMA RegisterInit == Init => Register!Init \/ Register!InitLegacy
<1> SUFFICES ASSUME Init PROVE Register!Init \/ Register!InitLegacy
  OBVIOUS
<1>0. told = {} /\ Mapped
  BY MappedInit DEF Init
<1>1. CASE Fresh
  <2>1. \A q \in Requests, n \in Revisions : ~Exists(q, n) /\ ~Active(q, n)
    BY <1>1, NoRow.state = "absent" DEF Fresh, Exists, Active, NoRow
  <2>2. RowRounds = {} /\ OpenRounds = {}
    BY <2>1, RoundsOfRows DEF RowByRow
  <2> QED BY <1>0, <2>2 DEF Register!Init
<1>2. CASE \E req \in Comments, t \in Targets : Legacy(req, t)
  <2>1. PICK req \in Comments, t \in Targets : Legacy(req, t)
    BY <1>2
  <2>2. req \in Requests /\ 1 \in Revisions
    BY ApprovalAssumption DEF Revisions
  <2>3. \A q \in Requests, n \in Revisions :
          decision[q][n] = IF q = req /\ n = 1 THEN FreshRow(TRUE, t) ELSE NoRow
    BY <2>1 DEF Legacy
  <2>4. FreshRow(TRUE, t).state = "pending_dispatch" /\ NoRow.state = "absent"
    BY DEF FreshRow, NoRow
  <2>5. \A q \in Requests, n \in Revisions :
          /\ Exists(q, n) <=> q = req /\ n = 1
          /\ Active(q, n) <=> q = req /\ n = 1
    BY <2>2, <2>3, <2>4 DEF Exists, Active
  <2>6. RowRounds = {RoundOf(req, 1)} /\ OpenRounds = {RoundOf(req, 1)}
    BY <2>2, <2>5, RoundsOfRows DEF RowByRow
  <2>7. RoundOf(req, 1) \in Register!Round
    BY <1>0, <2>2, <2>5, RoundOfMapped
  <2> QED BY <1>0, <2>6, <2>7 DEF Register!InitLegacy
<1> QED
  BY <1>1, <1>2 DEF Init

(* A step that leaves the table alone leaves the rounds alone.                 *)
LEMMA SameTableSameRounds ==
  ASSUME UNCHANGED decision
  PROVE  RowRounds' = RowRounds /\ OpenRounds' = OpenRounds
BY DEF RowRounds, OpenRounds, RoundOf, Exists, Active

(* The insert decides.                                                         *)
LEMMA InsertDecides ==
  ASSUME Mapped, Mapped', [Next]_vars, NEW w \in Writers, NEW heard \in BOOLEAN,
         RecordInsert(w, heard)
  PROVE  Register!Next
<1> DEFINE c == call[w] t == TargetOf[w] fresh == FreshRow(c.approved, t)
           r == [req |-> c.req, rev |-> c.rev, approved |-> c.approved, target |-> t]
<1>0. Safe /\ Typed
  BY DEF Mapped, Safe
<1>1. /\ c.req \in Requests /\ c.rev \in Revisions /\ c.approved \in BOOLEAN /\ t \in Targets
      /\ c.pc = "insert"
  BY <1>0 DEF RecordInsert, Typed, TypeOK, InFlight, CallState, Idle
<1>2. /\ \A n \in Revisions : ~Active(c.req, n)
      /\ ~Exists(c.req, c.rev)
  BY DEF RecordInsert, InsertAdmitted
<1>3. fresh.state \in {"pending_dispatch", "consumed"} /\ fresh.approved = c.approved /\ fresh.target = t
  BY DEF FreshRow
<1>4. \A q \in Requests, n \in Revisions :
        decision'[q][n] = IF q = c.req /\ n = c.rev THEN fresh ELSE decision[q][n]
  <2>1. decision' = [decision EXCEPT ![c.req][c.rev] = fresh]
    BY DEF RecordInsert
  <2>2. fresh \in Row /\ decision \in [Requests -> [Revisions -> Row]]
    BY <1>0, <1>1, RowTyping DEF Typed, TypeOK
  <2> HIDE DEF c, fresh
  <2> QED BY <1>1, <2>1, <2>2, CellUpdate
<1>5. \A n \in Revisions : Exists(c.req, n) => n < c.rev
  BY <1>0, <1>1, <1>2 DEF Safe, RoundsContiguous, Revisions
<1>6. told' \in {told, told \cup {Register!AnswerFor(r, TRUE)}}
  BY DEF RecordInsert, Register!AnswerFor
<1>7. r \in Register!Round /\ r.req = c.req /\ r.rev = c.rev
      /\ r = [req |-> c.req, rev |-> c.rev, approved |-> fresh.approved, target |-> fresh.target]
  BY <1>1, <1>3 DEF Register!Round
<1> HIDE DEF c, t, fresh, r
<1>8. \A q \in Requests, n \in Revisions :
        /\ (Exists(q, n)') <=> (Exists(q, n) \/ (q = c.req /\ n = c.rev))
        /\ (Active(q, n)') <=> (Active(q, n) \/ (q = c.req /\ n = c.rev))
        /\ RoundOf(q, n)' = IF q = c.req /\ n = c.rev THEN r ELSE RoundOf(q, n)
  BY <1>2, <1>3, <1>4, <1>7 DEF Exists, Active, RoundOf
<1>9. RowRounds' = RowRounds \cup {r}
  <2>1. \A x : x \in RowRounds' <=> x \in RowRounds \/ x = r
    <3>1. \A x : x \in RowRounds' <=>
            \E q \in Requests, n \in Revisions : Exists(q, n)' /\ x = RoundOf(q, n)'
      BY RoundsOfRowsNext DEF RowByRow
    <3> QED BY <1>1, <1>2, <1>8, <3>1, RoundsOfRows DEF RowByRow
  <2> QED BY <2>1
<1>10. OpenRounds' = OpenRounds \cup {r}
  <2>1. \A x : x \in OpenRounds' <=> x \in OpenRounds \/ x = r
    <3>1. \A x : x \in OpenRounds' <=>
            \E q \in Requests, n \in Revisions : Active(q, n)' /\ x = RoundOf(q, n)'
      BY RoundsOfRowsNext DEF RowByRow
    <3> QED BY <1>1, <1>2, <1>8, <3>1, RoundsOfRows DEF Active, Exists, RowByRow
  <2> QED BY <2>1
<1>11. \A o \in OpenRounds : o.req # r.req
  BY <1>2, <1>7, RoundsOfRows DEF RoundOf, RowByRow
<1>12. \A o \in RowRounds : o.req = r.req => o.rev < r.rev
  BY <1>5, <1>7, RoundsOfRows DEF RoundOf, RowByRow
<1> QED
  BY <1>6, <1>7, <1>9, <1>10, <1>11, <1>12 DEF Register!Next, Register!Decide

(* The read-back tells the verdict in force, or nothing.                       *)
LEMMA ReadBackTells ==
  ASSUME Mapped, NEW w \in Writers, RecordReadBack(w)
  PROVE  Register!Next \/ UNCHANGED Register!vars
<1>1. call[w].req \in Requests /\ UNCHANGED decision
  BY DEF RecordReadBack, Mapped, Safe, Typed, TypeOK, CallState, Idle
<1>2. RowRounds' = RowRounds /\ OpenRounds' = OpenRounds
  BY <1>1, SameTableSameRounds
<1>3. CASE UNCHANGED told
  BY <1>2, <1>3 DEF Register!vars
<1>4. CASE ~UNCHANGED told
  <2> DEFINE req == call[w].req
  <2>1. PICK rev \in Revisions :
          /\ ReadBackRow(w, req, rev)
          /\ told' = told \cup {[req |-> req, rev |-> rev,
                                 approved |-> decision[req][rev].approved,
                                 target |-> TargetOf[w], written |-> FALSE]}
    BY <1>4 DEF RecordReadBack
  <2>2. Active(req, rev) /\ Exists(req, rev) /\ decision[req][rev].target = TargetOf[w]
    BY <2>1 DEF ReadBackRow, ActiveFor, Active, Exists
  <2>3. RoundOf(req, rev) \in Register!Round /\ RoundOf(req, rev) \in OpenRounds
    BY <1>1, <2>2, RoundOfMapped, RoundsOfRows DEF RowByRow
  <2>4. told' = told \cup {Register!AnswerFor(RoundOf(req, rev), FALSE)}
    BY <2>1, <2>2 DEF RoundOf, Register!AnswerFor
  <2>5. Register!Tell(RoundOf(req, rev))
    BY <1>2, <2>3, <2>4 DEF Register!Tell
  <2> QED BY <2>3, <2>5 DEF Register!Next
<1> QED
  BY <1>3, <1>4

(* Advancing a row closes its round, or cannot be seen.                        *)
LEMMA AdvanceCloses ==
  ASSUME Mapped, UNCHANGED told,
         NEW req \in Requests, NEW rev \in Revisions, NEW new \in Row,
         Exists(req, rev), Advances(decision[req][rev], new),
         decision' = [decision EXCEPT ![req][rev] = new]
  PROVE  Register!Next \/ UNCHANGED Register!vars
<1> DEFINE r == RoundOf(req, rev)
<1>1. \A q \in Requests, n \in Revisions :
        decision'[q][n] = IF q = req /\ n = rev THEN new ELSE decision[q][n]
  <2>1. decision \in [Requests -> [Revisions -> Row]]
    BY DEF Mapped, Safe, Typed, TypeOK
  <2> QED BY <2>1, CellUpdate
<1>2. \A q \in Requests, n \in Revisions :
        /\ Exists(q, n)' <=> Exists(q, n)
        /\ RoundOf(q, n)' = RoundOf(q, n)
        /\ ~(q = req /\ n = rev) => (Active(q, n)' <=> Active(q, n))
  BY <1>1 DEF Exists, Active, RoundOf, Advances
<1>3. RowRounds' = RowRounds
  <2>1. \A x : x \in RowRounds' <=>
          \E q \in Requests, n \in Revisions : Exists(q, n)' /\ x = RoundOf(q, n)'
    BY RoundsOfRowsNext DEF RowByRow
  <2>2. \A x : x \in RowRounds' <=> x \in RowRounds
    BY <1>2, <2>1, RoundsOfRows DEF RowByRow
  <2> QED BY <2>2
<1>4. \A x : x \in OpenRounds' <=>
        \E q \in Requests, n \in Revisions : Active(q, n)' /\ x = RoundOf(q, n)'
  BY RoundsOfRowsNext DEF RowByRow
<1>5. CASE (Active(req, rev)') <=> Active(req, rev)
  <2>1. \A q \in Requests, n \in Revisions : (Active(q, n)') <=> Active(q, n)
    BY <1>2, <1>5
  <2>2. \A x : x \in OpenRounds' <=> x \in OpenRounds
    BY <1>2, <1>4, <2>1, RoundsOfRows DEF RowByRow
  <2>3. OpenRounds' = OpenRounds
    BY <2>2
  <2> QED BY <1>3, <2>3 DEF Register!vars
<1>6. CASE ~((Active(req, rev)') <=> Active(req, rev))
  <2>1. Active(req, rev) /\ ~Active(req, rev)'
    <3>1. decision'[req][rev] = new
      BY <1>1
    <3> QED BY <1>6, <3>1 DEF Exists, Active, Advances
  <2>2. \A q \in Requests, n \in Revisions : RoundOf(q, n) = r => q = req /\ n = rev
    BY DEF RoundOf
  <2>3. r \in OpenRounds /\ r \in Register!Round
    BY <2>1, RoundsOfRows, RoundOfMapped DEF RowByRow
  <2> HIDE DEF r
  <2>4. \A x : x \in OpenRounds' <=> x \in OpenRounds /\ x # r
    <3>1. ASSUME NEW x \in OpenRounds' PROVE x \in OpenRounds /\ x # r
      <4>1. PICK q \in Requests, n \in Revisions : Active(q, n)' /\ x = RoundOf(q, n)'
        BY <1>4, <3>1
      <4>2. ~(q = req /\ n = rev)
        BY <2>1, <4>1
      <4> QED BY <1>2, <2>2, <4>1, <4>2, RoundsOfRows DEF RowByRow
    <3>2. ASSUME NEW x \in OpenRounds, x # r PROVE x \in OpenRounds'
      <4>1. PICK q \in Requests, n \in Revisions : Active(q, n) /\ x = RoundOf(q, n)
        BY <3>2, RoundsOfRows DEF RowByRow
      <4>2. ~(q = req /\ n = rev)
        BY <3>2, <4>1 DEF r
      <4> QED BY <1>2, <1>4, <4>1, <4>2
    <3> QED BY <3>1, <3>2
  <2>5. OpenRounds' = OpenRounds \ {r}
    BY <2>4
  <2>6. Register!Close(r)
    BY <1>3, <2>3, <2>5 DEF Register!Close
  <2> QED BY <2>3, <2>6 DEF Register!Next
<1> QED
  BY <1>5, <1>6

(* Every step of the table is a step of the register, or none.                 *)
LEMMA RegisterStep == Mapped /\ Mapped' /\ [Next]_vars => [Register!Next]_(Register!vars)
<1> SUFFICES ASSUME Mapped, Mapped', [Next]_vars
             PROVE  Register!Next \/ UNCHANGED Register!vars
  OBVIOUS
<1>0. Typed
  BY DEF Mapped, Safe
<1>1. CASE UNCHANGED <<decision, told>>
  BY <1>1, SameTableSameRounds DEF Register!vars
<1>2. CASE \E w \in Writers, heard \in BOOLEAN : RecordInsert(w, heard)
  BY <1>2, InsertDecides
<1>3. CASE \E w \in Writers : RecordReadBack(w)
  BY <1>3, ReadBackTells
<1>4. CASE \E c \in Callers : Execute(c)
  <2>1. PICK c \in Callers : Execute(c)
    BY <1>4
  <2>2. CASE UNCHANGED decision
    BY <1>0, <1>1, <2>1, <2>2, ExecuteAdvances
  <2>3. CASE ~UNCHANGED decision
    <3>1. PICK req \in Requests, rev \in Revisions, new \in Row :
            /\ Exists(req, rev)
            /\ Advances(decision[req][rev], new)
            /\ decision' = [decision EXCEPT ![req][rev] = new]
      BY <1>0, <2>1, <2>3, ExecuteAdvances
    <3>2. UNCHANGED told
      BY <1>0, <2>1, ExecuteAdvances
    <3> QED BY <3>1, <3>2, AdvanceCloses
  <2> QED BY <2>2, <2>3
<1> QED
  BY <1>1, <1>2, <1>3, <1>4
     DEF Next, vars, Record, RecordStart, RecordConflict, RecordAbort, RelayPass, RelayList,
         RelayStep, RelayRetire, RelayTrigger, RelayTriggerFails, RelayConfirm, RelayCrash

(* The decision table, with its races, read-backs, lost acknowledgements and   *)
(* voids, implements a register that decides every round in one step.          *)
THEOREM TableImplementsRegister == Spec => ImplementsRegister
<1>1. Init => Register!Init \/ Register!InitLegacy
  BY RegisterInit
<1>2. Mapped /\ Mapped' /\ [Next]_vars => [Register!Next]_(Register!vars)
  BY RegisterStep
<1> QED
  BY <1>1, <1>2, MappedInit, MappedStep, PTL DEF Spec, ImplementsRegister, Register!Spec
=============================================================================
