--------------------------- MODULE OffboardAdmission ---------------------------
(* Taking an environment away from a customer.  The API withdraws the          *)
(* ownership and leaves an admission, the "hold", in one transaction; the      *)
(* automation service (the owner of the clean-up) is told by a call behind the *)
(* answer, and by workers that claim what is pending.  While a hold stands the *)
(* environment can be given to nobody.  It is released when a snapshot of the  *)
(* owner's active clean-ups, read some time ago, no longer names it.           *)
(*                                                                             *)
(* Instants are stamps of one clock that no two events share; the API's        *)
(* database may lag behind it by Lag.  Two deployments (targets) share the     *)
(* tables, each with an owner of its own.                                      *)
EXTENDS Integers, FiniteSets

CONSTANTS
  Environments, Customers, Targets,
  Nobody,         \* no customer, no hold, no claim, no outcome yet
  MaxCleanup,   \* bound: clean-ups the API admits
  MaxClaim,     \* bound: claims
  MaxClock,     \* bound: stamped events
  Lag           \* how far the API database's clock is behind the owner's

ASSUME AdmissionAssumption ==
  MaxCleanup \in Nat /\ MaxClaim \in Nat /\ MaxClock \in Nat /\ Lag \in Nat

VARIABLES
  clock,
  scope,        \* client_env_scope: the customer an environment belongs to
  hold,         \* client_env_revocation_holds
  cleanups,     \* interaction_offboards of the owners (external)
  admitted,     \* history: clean-ups the API has admitted
  pushes,       \* materializeAdmission calls in flight
  claims,       \* claim commands carried out, with the worker's candidate
  receipts,     \* materialisation receipts on their way to the ledger
  recorded,     \* client_env_admission_command_receipts of record_receipt
  told,         \* history: what the workers were answered
  snapshots,    \* snapshots on their way to the ledger
  cursor,       \* client_env_admission_snapshot_state
  early         \* history: clean-ups whose hold was released within Lag of its note

vars == <<clock, scope, hold, cleanups, admitted, pushes, claims, receipts, recorded, told,
          snapshots, cursor, early>>
apiVars == <<scope, hold, admitted>>
workerVars == <<claims, receipts, recorded, told>>
snapshotVars == <<snapshots, cursor, early>>

Pending == 0 - Lag - 1                                   \* materialized_at IS NULL
Ids == 0..MaxCleanup                                     \* 0: a clean-up from before the ledger
BindingMissing == 0 - 1
Outcomes == Ids \cup {BindingMissing}

Cleanup(t, e, id) == [target |-> t, env |-> e, id |-> id]
Of(e) == {c \in DOMAIN cleanups : c.env = e}
Active(e) == \E c \in Of(e) : cleanups[c] = "active"
OnHold(e) == hold[e] # Nobody
Stamp == clock < MaxClock /\ clock' = clock + 1
DatabaseNow == clock' - Lag
-----------------------------------------------------------------------------
(* setScope, also on completed provisioning: refused, by the code and by a     *)
(* trigger, while a hold stands; one owner per environment.                    *)
Grant(e, u) ==
  /\ scope[e] = Nobody
  /\ ~OnHold(e)
  /\ scope' = [scope EXCEPT ![e] = u]
  /\ UNCHANGED <<clock, hold, cleanups, admitted, pushes, workerVars, snapshotVars>>

(* beginEnvironmentOffboard, setScope without the environment, and disabling   *)
(* the customer: enqueueAdmission hands back a hold that stands (for this      *)
(* target), and the ownership goes in the same transaction.                    *)
NewHoldFromZero(t, id, tombstone) ==                     \* faulty variant
  [target |-> t, row |-> <<"admitted", id>>, id |-> id, tombstone |-> tombstone, at |-> Pending,
   revision |-> 0, token |-> Nobody, lease |-> FALSE]

NewHold(t, id, tombstone) ==
  [target |-> t, row |-> <<"admitted", id>>, id |-> id, tombstone |-> tombstone, at |-> Pending,
   revision |-> 1, token |-> Nobody, lease |-> FALSE]

Push(e, h) == [env |-> e, hold |-> h, outcome |-> Nobody]

Revoke(t, e, tombstone) ==
  /\ scope[e] # Nobody
  /\ IF OnHold(e) THEN hold[e].target = t /\ UNCHANGED <<hold, admitted>>
     ELSE /\ admitted < MaxCleanup
          /\ admitted' = admitted + 1
          /\ hold' = [hold EXCEPT ![e] = NewHold(t, admitted + 1, tombstone)]
  /\ scope' = [scope EXCEPT ![e] = Nobody]
  /\ pushes' = pushes \cup {Push(e, hold'[e])}
  /\ UNCHANGED <<clock, cleanups, workerVars, snapshotVars>>
-----------------------------------------------------------------------------
(* The owner (external): materializeEnvironmentOffboard answers with the       *)
(* clean-up of that id, else with the active one of the environment, else      *)
(* begins one; without an account binding it has nothing to clean: it says so, *)
(* or leaves a finished tombstone where that is allowed.                       *)
Standing(t, e, id) ==
  LET same == {c \in Of(e) : c.target = t /\ c.id = id}
  IN IF same # {} THEN same ELSE {c \in Of(e) : c.target = t /\ cleanups[c] = "active"}

OwnerMaterialises(t, e, id, tombstone, outcome) ==
  \/ /\ \E c \in Standing(t, e, id) : outcome = c.id
     /\ UNCHANGED cleanups
  \/ /\ Standing(t, e, id) = {}
     /\ \/ /\ outcome = id
           /\ \E state \in {"active"} \cup (IF tombstone THEN {"purged"} ELSE {}) :
                cleanups' = [c \in DOMAIN cleanups \cup {Cleanup(t, e, id)} |->
                               IF c = Cleanup(t, e, id) THEN state ELSE cleanups[c]]
        \/ outcome = BindingMissing /\ UNCHANGED cleanups

OwnerPurges(c) ==
  /\ cleanups[c] = "active"
  /\ cleanups' = [cleanups EXCEPT ![c] = "purged"]
  /\ UNCHANGED <<clock, apiVars, pushes, workerVars, snapshotVars>>
-----------------------------------------------------------------------------
(* materializeAdmission, behind the API's answer: the owner's transaction,     *)
PushCall(p) ==
  /\ p.outcome = Nobody
  /\ Stamp
  /\ \E outcome \in Outcomes :
       /\ OwnerMaterialises(p.hold.target, p.env, p.hold.id, p.hold.tombstone, outcome)
       /\ pushes' = (pushes \ {p}) \cup
            (IF outcome = BindingMissing THEN {} ELSE {[p EXCEPT !.outcome = outcome]})
  /\ UNCHANGED <<apiVars, workerVars, snapshotVars>>

(* and the note of it in the hold, found by its revocation id whatever became  *)
(* of it meanwhile; the claim in it is left as it is.                          *)
Noted(p) == OnHold(p.env) /\ hold[p.env].row = p.hold.row

PushRecord(p) ==
  /\ p.outcome # Nobody
  /\ Stamp
  /\ hold' = IF Noted(p) THEN [hold EXCEPT ![p.env].id = p.outcome, ![p.env].at = DatabaseNow]
                         ELSE hold
  /\ pushes' = pushes \ {p}
  /\ UNCHANGED <<scope, cleanups, admitted, workerVars, snapshotVars>>

(* The owner is out of reach, or the process dies.                             *)
PushLost(p) ==
  /\ pushes' = pushes \ {p}
  /\ UNCHANGED <<clock, apiVars, cleanups, workerVars, snapshotVars>>
-----------------------------------------------------------------------------
(* claimPendingMaterializations: what is pending and under no live lease.      *)
Due(t, e) == hold[e].target = t /\ hold[e].at = Pending /\ ~hold[e].lease

Claim(t, e) ==
  /\ OnHold(e)
  /\ Due(t, e)
  /\ Cardinality(claims) < MaxClaim
  /\ LET revision == hold[e].revision + 1
         token == <<Cardinality(claims) + 1, revision>>
     IN /\ hold' = [hold EXCEPT ![e].revision = revision, ![e].token = token, ![e].lease = TRUE]
        /\ claims' = claims \cup {[env |-> e, hold |-> hold'[e], live |-> TRUE]}
  /\ UNCHANGED <<clock, scope, cleanups, admitted, pushes, receipts, recorded, told, snapshotVars>>

(* claim_expires_at passes, on the database's clock.                           *)
LeaseExpires(e) ==
  /\ OnHold(e) /\ hold[e].lease
  /\ hold' = [hold EXCEPT ![e].lease = FALSE]
  /\ claims' = {IF c.hold.token = hold[e].token THEN [c EXCEPT !.live = FALSE] ELSE c : c \in claims}
  /\ UNCHANGED <<clock, scope, cleanups, admitted, pushes, receipts, recorded, told, snapshotVars>>

(* The worker (external) has its candidate materialised, and reports.          *)
WorkerMaterialises(c) ==
  /\ ~\E r \in receipts : r.claim.token = c.hold.token
  /\ Stamp
  /\ \E outcome \in Outcomes :
       /\ OwnerMaterialises(c.hold.target, c.env, c.hold.id, c.hold.tombstone, outcome)
       /\ receipts' = receipts \cup
            {[env |-> c.env, claim |-> c.hold, outcome |-> outcome, at |-> clock']}
  /\ UNCHANGED <<apiVars, pushes, claims, recorded, told, snapshotVars>>

(* recordMaterializationReceipt: a command seen before is answered from its    *)
(* receipt; a claim that no longer stands is stale.                            *)
NeverSeen(r) == FALSE                                   \* faulty variant: no command receipts
Seen(r) == r \in DOMAIN recorded

StandsForAnyClaim(r) ==                                 \* faulty variant: token not compared
  OnHold(r.env) /\ hold[r.env].row = r.claim.row /\ hold[r.env].at = Pending
StandsFor(r) ==
  /\ OnHold(r.env)
  /\ hold[r.env].row = r.claim.row
  /\ hold[r.env].at = Pending
  /\ hold[r.env].token = r.claim.token /\ hold[r.env].revision = r.claim.revision

RecordOutcome(r) ==
  IF ~StandsFor(r) THEN "stale"
  ELSE IF r.outcome \notin {BindingMissing, hold[r.env].id} THEN "collision" ELSE "applied"

RecordReceipt(r) ==
  /\ IF Seen(r)
     THEN /\ told' = told \cup {[receipt |-> r, answer |-> recorded[r]]}
          /\ UNCHANGED <<hold, recorded>>
     ELSE LET answer == RecordOutcome(r) IN
          /\ recorded' = [x \in DOMAIN recorded \cup {r} |-> IF x = r THEN answer ELSE recorded[x]]
          /\ told' = told \cup {[receipt |-> r, answer |-> answer]}
          /\ hold' = IF answer # "applied" THEN hold
                     ELSE [hold EXCEPT
                       ![r.env].at = IF r.outcome = BindingMissing THEN Pending ELSE r.at,
                       ![r.env].token = Nobody, ![r.env].lease = FALSE,
                       ![r.env].revision = @ + 1]
  /\ UNCHANGED <<clock, scope, cleanups, admitted, pushes, claims, receipts, snapshotVars>>
-----------------------------------------------------------------------------
(* The owner (external) reads its active clean-ups and sends them.             *)
ReadSnapshot(t) ==
  /\ Stamp
  /\ snapshots' = snapshots \cup
       {[target |-> t, observedAt |-> clock', rows |-> {c \in DOMAIN cleanups :
                                                          c.target = t /\ cleanups[c] = "active"}]}
  /\ UNCHANGED <<apiVars, cleanups, pushes, workerVars, cursor, early>>

(* reconcileActiveOffboardSnapshot: older than the last one applied, it is     *)
(* refused, and applied once; holds are adopted for what it names and has      *)
(* none, and those materialised before it that it does not name are released.  *)
FreshAlways(s) == TRUE                                  \* faulty variant: no cursor
Fresh(s) == s.observedAt > cursor[s.target]

ReleasableAnyTime(s, e) == hold[e].target = s.target /\ hold[e].at # Pending  \* faulty variant
ReleasableByAll(s, e) == hold[e].at # Pending /\ hold[e].at <= s.observedAt   \* faulty variant
Releasable(s, e) ==
  hold[e].target = s.target /\ hold[e].at # Pending /\ hold[e].at <= s.observedAt

(* The note bears the instant of the API's database, the snapshot that of the  *)
(* owner's: a snapshot read before the clean-up began may seem to be younger.  *)
WithinLag(s, e) == hold[e].at <= s.observedAt /\ s.observedAt < hold[e].at + Lag

Adopted(s, c) ==
  [target |-> s.target, row |-> <<"adopted", c.id>>, id |-> c.id, tombstone |-> FALSE,
   at |-> DatabaseNow, revision |-> 1, token |-> Nobody, lease |-> FALSE]

Reconcile(s) ==
  /\ Fresh(s)
  /\ Stamp
  /\ LET Named(e) == {c \in s.rows : c.env = e} IN
     hold' = [e \in Environments |->
       IF ~OnHold(e) THEN IF Named(e) = {} THEN Nobody ELSE Adopted(s, CHOOSE c \in Named(e) : TRUE)
       ELSE IF Named(e) = {} /\ Releasable(s, e) THEN Nobody ELSE hold[e]]
  /\ cursor' = [cursor EXCEPT ![s.target] = s.observedAt]
  /\ early' = early \cup {Cleanup(hold[e].target, e, hold[e].id) :
       e \in {x \in Environments : OnHold(x) /\ hold'[x] = Nobody /\ WithinLag(s, x)}}
  /\ UNCHANGED <<scope, cleanups, admitted, pushes, workerVars, snapshots>>

(* A snapshot the sender gives up.                                             *)
SnapshotLost(s) ==
  /\ snapshots' = snapshots \ {s}
  /\ UNCHANGED <<clock, apiVars, cleanups, pushes, workerVars, cursor, early>>
-----------------------------------------------------------------------------
Init ==
  /\ clock = 0
  /\ scope = [e \in Environments |-> Nobody]
  /\ hold = [e \in Environments |-> Nobody]
  /\ \E legacy \in SUBSET Environments, t \in Targets :
       cleanups = [c \in {Cleanup(t, e, 0) : e \in legacy} |-> "active"]
  /\ admitted = 0
  /\ pushes = {} /\ claims = {} /\ receipts = {}
  /\ recorded = [r \in {} |-> Nobody]
  /\ told = {} /\ snapshots = {} /\ early = {}
  /\ cursor = [t \in Targets |-> 0]

Ownership(e) ==
  \/ \E u \in Customers : Grant(e, u)
  \/ \E t \in Targets, tombstone \in BOOLEAN : Revoke(t, e, tombstone)

Pushing == \E p \in pushes : PushCall(p) \/ PushRecord(p) \/ PushLost(p)

Working ==
  \/ \E e \in Environments : LeaseExpires(e) \/ \E t \in Targets : Claim(t, e)
  \/ \E c \in claims : WorkerMaterialises(c)
  \/ \E r \in receipts : RecordReceipt(r)

Reconciling ==
  \/ \E t \in Targets : ReadSnapshot(t)
  \/ \E s \in snapshots : Reconcile(s) \/ SnapshotLost(s)

Next ==
  \/ \E e \in Environments : Ownership(e)
  \/ \E c \in DOMAIN cleanups : OwnerPurges(c)
  \/ Pushing \/ Working \/ Reconciling

Spec == Init /\ [][Next]_vars
-----------------------------------------------------------------------------
Hold == [target: Targets, row: {"admitted", "adopted"} \X Ids, id: Ids, tombstone: BOOLEAN,
         at: Pending..MaxClock, revision: Nat \ {0}, token: {Nobody} \cup (Nat \X Nat), lease: BOOLEAN]

ASSUME NobodyAssumption == Nobody \notin Hold /\ Nobody \notin Outcomes

CleanupId == [target: Targets, env: Environments, id: Ids]
Receipt == [env: Environments, claim: Hold, outcome: Outcomes, at: 1..MaxClock]
Answers == {"applied", "stale", "collision"}

(* The type invariant.                                                         *)
TypeOK ==
  /\ clock \in 0..MaxClock
  /\ scope \in [Environments -> Customers \cup {Nobody}]
  /\ hold \in [Environments -> Hold \cup {Nobody}]
  /\ DOMAIN cleanups \subseteq CleanupId /\ \A c \in DOMAIN cleanups : cleanups[c] \in {"active", "purged"}
  /\ admitted \in Ids
  /\ pushes \subseteq [env: Environments, hold: Hold, outcome: Ids \cup {Nobody}]
  /\ claims \subseteq [env: Environments, hold: Hold, live: BOOLEAN]
  /\ receipts \subseteq Receipt
  /\ DOMAIN recorded \subseteq receipts /\ \A r \in DOMAIN recorded : recorded[r] \in Answers
  /\ told \subseteq [receipt: Receipt, answer: Answers]
  /\ snapshots \subseteq [target: Targets, observedAt: 1..MaxClock, rows: SUBSET CleanupId]
  /\ cursor \in [Targets -> 0..MaxClock]
  /\ early \subseteq CleanupId

(* Two exceptions.  A clean-up whose hold was released by a snapshot read      *)
(* within Lag of its note: the code compares two databases' clocks.  And an    *)
(* admission for which the owner handed back a clean-up the ledger does not    *)
(* hold, one like that or one from before the ledger, while a worker had       *)
(* claimed it: the hold goes when the older clean-up is over, and the worker   *)
(* may begin this one after that.                                              *)
Unledgered(t, e) ==
  \/ Cleanup(t, e, 0) \in DOMAIN cleanups
  \/ \E d \in early : d.target = t /\ d.env = e

StoodIn(c) ==
  /\ Unledgered(c.target, c.env)
  /\ \E k \in claims : k.env = c.env /\ k.hold.row = <<"admitted", c.id>>

Accounted(c) == c.id = 0 \/ StoodIn(c) \/ c \in early

(* An environment is given to a customer only when it is clean: whoever owns   *)
(* it, no clean-up that the API admitted is unfinished on it, although the     *)
(* owner's word of it is a snapshot read, and applied, at other times.         *)
OwnedIsClean ==
  \A e \in Environments : scope[e] # Nobody =>
    \A c \in Of(e) : ~Accounted(c) => cleanups[c] = "purged"

(* A hold is released only when its own clean-up has taken place and is over:  *)
(* not before it began, not for the clean-up before it, and while it runs only *)
(* by a snapshot that was read within Lag of its note.                         *)
ReleasedWhenPurged ==
  [][\A e \in Environments : OnHold(e) /\ hold'[e] = Nobody =>
       LET c == Cleanup(hold[e].target, e, hold[e].id)
       IN  c \in DOMAIN cleanups /\ (cleanups[c] = "purged" \/ c \in early')]_vars

(* A snapshot that comes late brings no hold back: what the API admitted it    *)
(* holds until its clean-up is over, so no snapshot still to be applied names  *)
(* it afterwards; a hold is adopted for clean-ups the ledger never knew.       *)
NoHoldComesBack ==
  \A e \in Environments : OnHold(e) /\ hold[e].row[1] = "adopted" =>
    Accounted(Cleanup(hold[e].target, e, hold[e].id))

(* While a worker's lease runs, its claim stands: no late receipt of a worker  *)
(* that held the claim before, and no other claim, takes it away.              *)
LiveClaimStands ==
  \A c \in claims :
    LET h == hold[c.env]
        Reported == \E r \in DOMAIN recorded : r.claim.token = c.hold.token
    IN c.live /\ ~Reported /\ OnHold(c.env) /\ h.row = c.hold.row
         => h.token = c.hold.token /\ h.revision = c.hold.revision

(* A worker that asks again for a lost answer gets the same one: it is never   *)
(* told that a receipt is stale which was applied.                             *)
SameAnswerAgain ==
  \A a, b \in told : a.receipt = b.receipt => a.answer = b.answer

(* What the ledger of admissions promises, taken together.                     *)
HoldsStand == OwnedIsClean /\ NoHoldComesBack /\ LiveClaimStands /\ SameAnswerAgain
=============================================================================
