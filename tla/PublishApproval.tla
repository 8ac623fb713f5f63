--------------------------- MODULE PublishApproval ---------------------------
(* The publish approval authority: the decision table of                      *)
(* publish-approval-store.ts, the calls that write it (record and the          *)
(* compare-and-set operations of publish-approval-api.ts), the transactional   *)
(* outbox and the relay that hands its commands to the automation service.     *)
(*                                                                             *)
(* Two deployments (targets) share one database.  A writer is one call of      *)
(* record() in flight, a caller one compare-and-set call of the execution      *)
(* side, a relay one pass of runOnce(): the timer and the wake-up after a      *)
(* first write may run several at once.  PostgreSQL executes each statement    *)
(* or transaction atomically; everything between two of them interleaves.      *)
EXTENDS Integers, Sequences, FiniteSets

CONSTANTS
  Requests,     \* approval request ids
  Comments,     \* the ids classifyApprovalRequestId calls comments
  Targets,      \* deployment targets ('dev', 'ol')
  NoTarget,     \* a process whose execution target is not configured
  Writers,      \* concurrent record() calls
  Callers,      \* concurrent compare-and-set calls
  Relays,       \* concurrent runOnce() passes
  TargetOf,     \* the target of the process each of them runs in
  MaxRevision,  \* bound: rounds of a request that are explored
  RelayLimit    \* the LIMIT of a relay pass

ASSUME ApprovalAssumption ==
  /\ Comments \subseteq Requests
  /\ NoTarget \notin Targets
  /\ MaxRevision \in Nat \ {0}
  /\ RelayLimit \in Nat \ {0}
  /\ TargetOf \in [Writers \cup Callers \cup Relays -> Targets \cup {NoTarget}]

VARIABLES
  decision,   \* publish_approval_decision: request -> revision -> row
  outbox,     \* publish_approval_outbox, in id order
  call,       \* record() calls in flight
  cas,        \* compare-and-set calls in flight
  relay,      \* relay passes in flight
  told,       \* history: every outcome a record() call returned
  triggered   \* the triggers the automation service received

vars == <<decision, outbox, call, cas, relay, told, triggered>>

Revisions == 1..MaxRevision
States == {"absent", "pending_dispatch", "dispatching", "consumed", "void"}
NoRow == [state |-> "absent", approved |-> FALSE, target |-> NoTarget, blocked |-> FALSE]

Row == [state: States, approved: BOOLEAN, target: Targets \cup {NoTarget}, blocked: BOOLEAN]
Command == [req: Requests, rev: Revisions, target: Targets, consumed: BOOLEAN]
Idle == [pc |-> "idle"]

Exists(req, rev) == decision[req][rev].state # "absent"
Active(req, rev) == decision[req][rev].state \notin {"absent", "void"}

(* Faulty variant: the read forgets dispatch_state <> 'void'.                  *)
ActiveOrVoidFor(req, rev, t) == Exists(req, rev) /\ decision[req][rev].target = t

(* readActiveForTarget.                                                        *)
ActiveFor(req, rev, t) == Active(req, rev) /\ decision[req][rev].target = t

(* Faulty variant: the round is incremented twice.                             *)
IsMaxRevisionPlusOne(req, m) ==
  m \in Revisions /\ m = 1 + Cardinality({n \in Revisions : Exists(req, n)})

(* COALESCE(MAX(revision), 0) = m, as the statement's snapshot sees it. *)
IsMaxRevision(req, m) ==
  /\ m = 0 \/ (m \in Revisions /\ Exists(req, m))
  /\ \A n \in Revisions : Exists(req, n) => n <= m

FreshRow(approved, t) ==
  [state |-> IF approved THEN "pending_dispatch" ELSE "consumed",
   approved |-> approved, target |-> t, blocked |-> FALSE]

NoCommand(req, rev) ==
  \A i \in DOMAIN outbox : ~(outbox[i].req = req /\ outbox[i].rev = rev)

CommandFor(c, t) == [req |-> c.req, rev |-> c.rev, target |-> t, consumed |-> FALSE]

(* Faulty variant: a command for every decision, rejections included.          *)
OutboxAfterAny(c, t) ==
  IF c.req \notin Comments THEN Append(outbox, CommandFor(c, t)) ELSE outbox

(* Only an approved publication has a command, and only one per round.         *)
OutboxAfter(c, t) ==
  IF c.approved /\ c.req \notin Comments /\ NoCommand(c.req, c.rev)
  THEN Append(outbox, CommandFor(c, t))
  ELSE outbox
-----------------------------------------------------------------------------
(* record(): a process without a target throws before it touches the table.    *)
RecordStart(w, req, approved) ==
  /\ call[w].pc \in {"idle", "answered"}
  /\ TargetOf[w] \in Targets
  /\ \E m \in 0..(MaxRevision - 1) :
       /\ IsMaxRevision(req, m)
       /\ call' = [call EXCEPT ![w] =
            [pc |-> "insert", req |-> req, approved |-> approved, rev |-> m + 1]]
  /\ UNCHANGED <<decision, outbox, cas, relay, told, triggered>>

(* The INSERT, its outbox row and the COMMIT.  The partial unique index lets   *)
(* it in only when no active row of the request exists under any target, the   *)
(* primary key only when the revision it computed is still free.               *)
InsertIgnoringActive(req, rev) == ~Exists(req, rev)   \* faulty variant: no partial index

InsertAdmitted(req, rev) ==
  /\ \A n \in Revisions : ~Active(req, n)
  /\ ~Exists(req, rev)

RecordInsert(w, heard) ==
  LET c == call[w] t == TargetOf[w] IN
  /\ c.pc = "insert"
  /\ InsertAdmitted(c.req, c.rev)
  /\ decision' = [decision EXCEPT ![c.req][c.rev] = FreshRow(c.approved, t)]
  /\ outbox' = OutboxAfter(c, t)
  /\ IF heard
     THEN /\ call' = [call EXCEPT ![w] = [pc |-> "answered", outcome |-> "written"]]
          /\ told' = told \cup {[req |-> c.req, rev |-> c.rev, approved |-> c.approved,
                                 target |-> t, written |-> TRUE]}
     ELSE \* the COMMIT took effect but its acknowledgement was lost
          /\ call' = [call EXCEPT ![w] = Idle]
          /\ UNCHANGED told
  /\ UNCHANGED <<cas, relay, triggered>>

(* DO NOTHING, or a 23505 on the primary key: somebody was first.              *)
RecordConflict(w) ==
  /\ call[w].pc = "insert"
  /\ ~InsertAdmitted(call[w].req, call[w].rev)
  /\ call' = [call EXCEPT ![w] = [pc |-> "readback", req |-> call[w].req]]
  /\ UNCHANGED <<decision, outbox, cas, relay, told, triggered>>

(* readActiveForTarget in a statement of its own: the row it finds answers the *)
(* call; when it finds none the call fails at once, whatever the loop says.    *)
ReadBackAnyTarget(w, req, rev) == Active(req, rev)    \* faulty variant: target ignored
ReadBackAnyRound(w, req, rev) ==                      \* faulty variant: voided rounds answer too
  Exists(req, rev) /\ decision[req][rev].target = TargetOf[w]

ReadBackRow(w, req, rev) == ActiveFor(req, rev, TargetOf[w])

RecordReadBack(w) ==
  LET req == call[w].req IN
  /\ call[w].pc = "readback"
  /\ \/ \E rev \in Revisions :
          /\ ReadBackRow(w, req, rev)
          /\ call' = [call EXCEPT ![w] = [pc |-> "answered", outcome |-> "alreadyDecided"]]
          /\ told' = told \cup {[req |-> req, rev |-> rev,
                                 approved |-> decision[req][rev].approved,
                                 target |-> TargetOf[w], written |-> FALSE]}
     \/ /\ \A rev \in Revisions : ~ReadBackRow(w, req, rev)
        /\ call' = [call EXCEPT ![w] = [pc |-> "answered",
                                        outcome |-> "execution_target_conflict"]]
        /\ UNCHANGED told
  /\ UNCHANGED <<decision, outbox, cas, relay, triggered>>

(* A database error, or the process dies: before the COMMIT nothing remains.   *)
RecordAbort(w) ==
  /\ call[w].pc \in {"insert", "readback"}
  /\ call' = [call EXCEPT ![w] = Idle]
  /\ UNCHANGED <<decision, outbox, cas, relay, told, triggered>>
-----------------------------------------------------------------------------
(* The compare-and-set operations.  A caller names a revision it has read      *)
(* under its own target; the row may have moved on since.                      *)
Waiting == {"pending_dispatch", "dispatching"}

MayDispatchActive(row) == row.state # "void"     \* faulty variant: a consumed row dispatches again
MayReleaseActive(row) == row.state # "void"      \* faulty variant: a consumed row is released

MayDispatch(row) == row.state = "pending_dispatch"
MayConsume(row) == row.state \in Waiting
MayRelease(row) == row.state \in Waiting
MayVoid(row) == row.state # "void"
MayBlock(row) == row.state \in Waiting

Dispatching(row) == [row EXCEPT !.state = "dispatching", !.blocked = FALSE]
Consumed(row) == [row EXCEPT !.state = "consumed", !.blocked = FALSE]
Released(row, reason) == [row EXCEPT !.state = "pending_dispatch", !.blocked = reason]
VoidedUnknown(row) == [row EXCEPT !.state = "voided"]   \* faulty variant: a state outside the enum
Voided(row) == [row EXCEPT !.state = "void", !.blocked = FALSE]
Blocked(row, reason) == [row EXCEPT !.blocked = reason]

Known(c, req, rev) ==
  /\ cas[c].pc \in {"idle", "answered"}
  /\ TargetOf[c] \in Targets
  /\ Exists(req, rev)
  /\ decision[req][rev].target = TargetOf[c]

(* One UPDATE ... WHERE ... RETURNING; when it hits no row, resolveCasMiss     *)
(* reads the active row in a second statement.                                 *)
CompareAndSet(c, req, rev, may, new) ==
  /\ Known(c, req, rev)
  /\ IF may
     THEN /\ decision' = [decision EXCEPT ![req][rev] = new]
          /\ cas' = [cas EXCEPT ![c] = [pc |-> "answered", verdict |-> "ok"]]
     ELSE /\ cas' = [cas EXCEPT ![c] = [pc |-> "missed", req |-> req, rev |-> rev]]
          /\ UNCHANGED decision
  /\ UNCHANGED <<outbox, call, relay, told, triggered>>

MarkDispatching(c, req, rev) ==
  LET row == decision[req][rev] IN CompareAndSet(c, req, rev, MayDispatch(row), Dispatching(row))
MarkConsumed(c, req, rev) ==
  LET row == decision[req][rev] IN CompareAndSet(c, req, rev, MayConsume(row), Consumed(row))
ReleaseToPending(c, req, rev, reason) ==
  LET row == decision[req][rev] IN CompareAndSet(c, req, rev, MayRelease(row), Released(row, reason))
VoidActive(c, req, rev) ==
  LET row == decision[req][rev] IN CompareAndSet(c, req, rev, MayVoid(row), Voided(row))
SetBlockedReason(c, req, rev, reason) ==
  LET row == decision[req][rev] IN CompareAndSet(c, req, rev, MayBlock(row), Blocked(row, reason))

ResolveCasMiss(c) ==
  LET req == cas[c].req rev == cas[c].rev IN
  /\ cas[c].pc = "missed"
  /\ \/ \E current \in Revisions :
          /\ ActiveFor(req, current, TargetOf[c])
          /\ cas' = [cas EXCEPT ![c] =
               [pc |-> "answered", req |-> req, rev |-> rev, current |-> current,
                verdict |-> IF current # rev THEN "revision_conflict" ELSE "state_conflict"]]
     \/ /\ \A current \in Revisions : ~ActiveFor(req, current, TargetOf[c])
        /\ cas' = [cas EXCEPT ![c] =
             [pc |-> "answered", req |-> req, rev |-> rev, verdict |-> "not_found"]]
  /\ UNCHANGED <<decision, outbox, call, relay, told, triggered>>
-----------------------------------------------------------------------------
(* The relay.  A pass lists the first RelayLimit unconsumed commands of its    *)
(* target and takes them in id order: it triggers the automation service, and  *)
(* only after the answer marks the command consumed.                           *)
Pending(t) == {i \in DOMAIN outbox : outbox[i].target = t /\ ~outbox[i].consumed}

ListedAfterFirst(t) ==                                \* faulty variant: an OFFSET slipped in
  {i \in Pending(t) : Cardinality({j \in Pending(t) : j < i}) \in 1..RelayLimit}

Listed(t) == {i \in Pending(t) : Cardinality({j \in Pending(t) : j < i}) < RelayLimit}

RelayList(r) ==
  /\ relay[r] = [batch |-> {}, ack |-> 0]
  /\ TargetOf[r] \in Targets
  /\ Pending(TargetOf[r]) # {}
  /\ relay' = [relay EXCEPT ![r].batch = Listed(TargetOf[r])]
  /\ UNCHANGED <<decision, outbox, call, cas, told, triggered>>

OldestOf(batch, i) == i \in batch /\ \A j \in batch : i <= j
Confirm(i) == outbox' = [outbox EXCEPT ![i].consumed = TRUE]

(* A command written for a comment before comments left the outbox: retired    *)
(* without a trigger.                                                          *)
RelayRetire(r, i) ==
  /\ relay[r].ack = 0
  /\ OldestOf(relay[r].batch, i)
  /\ outbox[i].req \in Comments
  /\ Confirm(i)
  /\ relay' = [relay EXCEPT ![r].batch = @ \ {i}]
  /\ UNCHANGED <<decision, call, cas, told, triggered>>

(* Faulty variant: every command is triggered, a legacy comment's as well.     *)
RelayTriggerAny(r, i, answered) ==
  /\ relay[r].ack = 0
  /\ OldestOf(relay[r].batch, i)
  /\ triggered' = triggered \cup {[req |-> outbox[i].req, rev |-> outbox[i].rev,
                                   target |-> outbox[i].target]}
  /\ relay' = [relay EXCEPT ![r].batch = @ \ {i}]
  /\ UNCHANGED <<decision, outbox, call, cas, told>>

(* The trigger arrives; either its answer arrives too and the command is to be *)
(* confirmed, or the answer is lost and the command stays for a later pass.    *)
RelayTrigger(r, i, answered) ==
  /\ relay[r].ack = 0
  /\ OldestOf(relay[r].batch, i)
  /\ outbox[i].req \notin Comments
  /\ triggered' = triggered \cup {[req |-> outbox[i].req, rev |-> outbox[i].rev,
                                   target |-> outbox[i].target]}
  /\ relay' = IF answered THEN [relay EXCEPT ![r].ack = i]
                          ELSE [relay EXCEPT ![r].batch = @ \ {i}]
  /\ UNCHANGED <<decision, outbox, call, cas, told>>

(* Faulty variant: a failed trigger confirms the command all the same.         *)
RelayGivesUp(r, i) ==
  /\ relay[r].ack = 0
  /\ OldestOf(relay[r].batch, i)
  /\ outbox[i].req \notin Comments
  /\ Confirm(i)
  /\ relay' = [relay EXCEPT ![r].batch = @ \ {i}]
  /\ UNCHANGED <<decision, call, cas, told, triggered>>

(* The automation service is unreachable or refuses: the command is retained.  *)
RelayTriggerFails(r, i) ==
  /\ relay[r].ack = 0
  /\ OldestOf(relay[r].batch, i)
  /\ outbox[i].req \notin Comments
  /\ relay' = [relay EXCEPT ![r].batch = @ \ {i}]
  /\ UNCHANGED <<decision, outbox, call, cas, told, triggered>>

(* markApprovedCommandConsumed, a no-op when another pass was faster.          *)
RelayConfirm(r) ==
  LET i == relay[r].ack IN
  /\ i # 0
  /\ Confirm(i)
  /\ relay' = [relay EXCEPT ![r] = [batch |-> @.batch \ {i}, ack |-> 0]]
  /\ UNCHANGED <<decision, call, cas, told, triggered>>

(* The process restarts, or the confirming UPDATE fails: the pass is gone.     *)
RelayCrash(r) ==
  /\ relay[r] # [batch |-> {}, ack |-> 0]
  /\ relay' = [relay EXCEPT ![r] = [batch |-> {}, ack |-> 0]]
  /\ UNCHANGED <<decision, outbox, call, cas, told, triggered>>
-----------------------------------------------------------------------------
(* The table is empty, or holds one approved comment of the days when comments *)
(* still wrote an outbox command.                                              *)
Legacy(req, t) ==
  /\ decision = [q \in Requests |-> [n \in Revisions |->
                  IF q = req /\ n = 1 THEN FreshRow(TRUE, t) ELSE NoRow]]
  /\ outbox = <<[req |-> req, rev |-> 1, target |-> t, consumed |-> FALSE]>>

Fresh ==
  /\ decision = [q \in Requests |-> [n \in Revisions |-> NoRow]]
  /\ outbox = <<>>

Init ==
  /\ Fresh \/ \E req \in Comments, t \in Targets : Legacy(req, t)
  /\ call = [w \in Writers |-> Idle]
  /\ cas = [c \in Callers |-> Idle]
  /\ relay = [r \in Relays |-> [batch |-> {}, ack |-> 0]]
  /\ told = {}
  /\ triggered = {}

Record(w) ==
  \/ \E req \in Requests, approved \in BOOLEAN : RecordStart(w, req, approved)
  \/ \E heard \in BOOLEAN : RecordInsert(w, heard)
  \/ RecordConflict(w)
  \/ RecordReadBack(w)
  \/ RecordAbort(w)

Execute(c) ==
  \/ \E req \in Requests, rev \in Revisions :
       \/ MarkDispatching(c, req, rev)
       \/ MarkConsumed(c, req, rev)
       \/ \E reason \in BOOLEAN : ReleaseToPending(c, req, rev, reason)
       \/ VoidActive(c, req, rev)
       \/ \E reason \in BOOLEAN : SetBlockedReason(c, req, rev, reason)
  \/ ResolveCasMiss(c)

RelayStep(r) ==
  \E i \in relay[r].batch :
    \/ RelayRetire(r, i)
    \/ \E answered \in BOOLEAN : RelayTrigger(r, i, answered)
    \/ RelayTriggerFails(r, i)

RelayPass(r) == RelayList(r) \/ RelayStep(r) \/ RelayConfirm(r) \/ RelayCrash(r)

Next ==
  \/ \E w \in Writers : Record(w)
  \/ \E c \in Callers : Execute(c)
  \/ \E r \in Relays : RelayPass(r)

Spec == Init /\ [][Next]_vars

(* The relay's timer keeps firing and a pass runs on (weak fairness).  The     *)
(* automation service answers, and the process outlives the confirmation, not  *)
(* always but again and again (strong fairness).                               *)
Delivers(r) == \E i \in relay[r].batch : RelayTrigger(r, i, TRUE) \/ RelayRetire(r, i)

Fairness == \A r \in Relays :
  /\ WF_vars(RelayList(r))
  /\ WF_vars(RelayStep(r))
  /\ SF_vars(Delivers(r))
  /\ SF_vars(RelayConfirm(r))

FairSpec == Spec /\ Fairness
-----------------------------------------------------------------------------
CallState ==
  {Idle}
    \cup [pc: {"insert"}, req: Requests, approved: BOOLEAN, rev: Revisions]
    \cup [pc: {"readback"}, req: Requests]
    \cup [pc: {"answered"}, outcome: {"written", "alreadyDecided", "execution_target_conflict"}]

CasState ==
  {Idle}
    \cup [pc: {"missed"}, req: Requests, rev: Revisions]
    \cup [pc: {"answered"}, verdict: {"ok"}]
    \cup [pc: {"answered"}, req: Requests, rev: Revisions, verdict: {"not_found"}]
    \cup [pc: {"answered"}, req: Requests, rev: Revisions, current: Revisions,
          verdict: {"revision_conflict", "state_conflict"}]

(* The type invariant.                                                         *)
TypeOK ==
  /\ decision \in [Requests -> [Revisions -> Row]]
  /\ outbox \in Seq(Command)
  /\ call \in [Writers -> CallState]
  /\ cas \in [Callers -> CasState]
  /\ relay \in [Relays -> [batch: SUBSET Nat, ack: Nat]]
  /\ told \subseteq [req: Requests, rev: Revisions, approved: BOOLEAN,
                     target: Targets, written: BOOLEAN]
  /\ triggered \subseteq [req: Requests, rev: Revisions, target: Targets]

(* First writer wins, across both deployments: a request never has two active  *)
(* decisions, and the active one is the newest round, so a stale revision can  *)
(* never authorise a publication again.                                        *)
NewestIsActive ==
  \A req \in Requests : \A m, n \in Revisions :
    m < n /\ Exists(req, n) => ~Active(req, m)

(* Rounds are numbered without gaps, and the number a call in flight computed  *)
(* in its snapshot never runs ahead of the table, so of two racing calls that  *)
(* computed the same number one meets the other's row.                         *)
RoundsContiguous ==
  /\ \A req \in Requests : \A m, n \in Revisions : m < n /\ Exists(req, n) => Exists(req, m)
  /\ \A w \in Writers : call[w].pc = "insert" =>
       \A n \in Revisions : n < call[w].rev => Exists(call[w].req, n)

(* What record() tells a caller stays true of the table: the round it names    *)
(* exists, carries the verdict it was told and belongs to the caller's own     *)
(* target, never to the other deployment's decision of the same request.       *)
ToldTruth ==
  \A a \in told :
    /\ Exists(a.req, a.rev)
    /\ decision[a.req][a.rev].approved = a.approved
    /\ decision[a.req][a.rev].target = a.target

(* The approval and its command commit together: every approved round of a     *)
(* publish request has exactly one command, of its own target, and no command  *)
(* stands without the approved round it announces.                             *)
CommandPerApproval ==
  /\ \A req \in Requests \ Comments : \A rev \in Revisions :
       Exists(req, rev) /\ decision[req][rev].approved => ~NoCommand(req, rev)
  /\ \A i \in DOMAIN outbox :
       /\ Exists(outbox[i].req, outbox[i].rev)
       /\ decision[outbox[i].req][outbox[i].rev].approved
       /\ decision[outbox[i].req][outbox[i].rev].target = outbox[i].target
  /\ \A i, j \in DOMAIN outbox :
       outbox[i].req = outbox[j].req /\ outbox[i].rev = outbox[j].rev => i = j

(* No approval is lost between the tables and the automation service: a        *)
(* publish command is marked consumed only after its trigger arrived, whatever *)
(* passes overlap or die in between.                                           *)
ConsumedWasTriggered ==
  \A i \in DOMAIN outbox :
    outbox[i].consumed /\ outbox[i].req \notin Comments
      => [req |-> outbox[i].req, rev |-> outbox[i].rev, target |-> outbox[i].target] \in triggered

(* The automation service is triggered only for a publish request that was     *)
(* approved under that very target.                                            *)
TriggerAuthorised ==
  \A x \in triggered :
    /\ x.req \notin Comments
    /\ decision[x.req][x.rev].approved
    /\ decision[x.req][x.rev].target = x.target

(* What follows an approval, from the commit that decides it to the trigger.   *)
CommandsFollow == CommandPerApproval /\ ConsumedWasTriggered /\ TriggerAuthorised

(* A rejection is an active decision that no sequence of calls can turn into   *)
(* something waiting to be dispatched, and an explained wait ends with its     *)
(* explanation: only a waiting row carries a blocked reason.                   *)
RejectionStays ==
  \A req \in Requests : \A rev \in Revisions :
    LET row == decision[req][rev] IN
    /\ row.state \in Waiting => row.approved
    /\ row.blocked => row.state \in Waiting

(* A compare-and-set that missed is explained truthfully even though the       *)
(* explanation is read in a later statement: a revision conflict names a newer *)
(* round than the caller's, and "not found" means that its round is void.      *)
MissExplained ==
  \A c \in Callers :
    /\ cas[c].pc = "answered" /\ cas[c].verdict = "revision_conflict" => cas[c].current > cas[c].rev
    /\ cas[c].pc = "answered" /\ cas[c].verdict = "not_found"
         => decision[cas[c].req][cas[c].rev].state = "void"

(* A round only moves forward: a consumed decision is never waiting again, a   *)
(* voided one never changes, and no step deletes or rewrites a decided round.  *)
RoundsMoveForward ==
  [][\A req \in Requests : \A rev \in Revisions :
       LET old == decision[req][rev] new == decision'[req][rev] IN
       Exists(req, rev) =>
         /\ new.approved = old.approved /\ new.target = old.target
         /\ new.state # "absent"
         /\ old.state = "consumed" => new.state \in {"consumed", "void"}
         /\ old.state = "void" => new = old]_vars

(* Every approval of a publish request eventually reaches the automation       *)
(* service, through unreachable spells, lost answers, crashes and overlapping  *)
(* passes, also when older commands fill the list a pass reads.                *)
ApprovalReachesAutomation ==
  \A req \in Requests \ Comments : \A rev \in Revisions :
    LET row == decision[req][rev] IN
    (Exists(req, rev) /\ row.approved /\ \E r \in Relays : TargetOf[r] = row.target)
      ~> ([req |-> req, rev |-> rev, target |-> row.target] \in triggered)
=============================================================================
