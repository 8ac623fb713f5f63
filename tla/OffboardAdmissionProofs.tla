----------------------- MODULE OffboardAdmissionProofs -----------------------
(* Theorems about the ledger of admissions for every number of environments,   *)
(* customers, deployments, workers, clean-ups and snapshots.                   *)
EXTENDS OffboardAdmission, FiniteSetTheorems, TLAPS

(* Instants of snapshots and receipts are past; a snapshot names clean-ups of  *)
(* its own owner; one clean-up has one owner.                                  *)
LedgerRecorded ==
  /\ \A s \in snapshots : s.observedAt <= clock /\ \A c \in s.rows : c \in DOMAIN cleanups /\ c.target = s.target
  /\ \A r \in receipts : r.at <= clock
  /\ \A c, d \in DOMAIN cleanups : c.env = d.env /\ c.id = d.id => c.target = d.target

Begun(t, e, id) == Cleanup(t, e, id) \in DOMAIN cleanups

(* What snapshots read since an instant say of a clean-up: it is named until   *)
(* it is over, and never again.                                                *)
SeenSince(c, at) ==
  \A s \in snapshots : s.target = c.target /\ at <= s.observedAt =>
    \/ c \in s.rows
    \/ /\ cleanups[c] = "purged"
       /\ \A z \in snapshots : z.target = c.target /\ s.observedAt <= z.observedAt => c \notin z.rows

(* What is written of an admission, in the ledger or on its way.               *)
Known(e, row, t) ==
  \/ OnHold(e) /\ hold[e].row = row /\ hold[e].target = t
  \/ \E p \in pushes : p.env = e /\ p.hold.row = row /\ p.hold.target = t
  \/ \E k \in claims : k.env = e /\ k.hold.row = row /\ k.hold.target = t
  \/ \E r \in receipts : r.env = e /\ r.claim.row = row /\ r.claim.target = t

(* An admission is of one deployment, and its number was given out.            *)
Admissions ==
  /\ \A e \in Environments, i \in Ids, t, u \in Targets :
       Known(e, <<"admitted", i>>, t) =>
         /\ i \in 1..admitted
         /\ Known(e, <<"admitted", i>>, u) => t = u
  /\ \A c \in DOMAIN cleanups : c.id # 0 =>
       /\ c.id <= admitted
       /\ \A t \in Targets : Known(c.env, <<"admitted", c.id>>, t) => t = c.target

Adopts(h, e) == h.row = <<"adopted", h.id>> /\ Begun(h.target, e, h.id)
Admits(h) == h.row = <<"admitted", h.id>>

(* What a hold says of its clean-up, and what pushes and receipts carry.       *)
Entries ==
  /\ \A e \in Environments : OnHold(e) =>
       /\ hold[e].row[1] = "adopted" => Adopts(hold[e], e)
       /\ hold[e].at = Pending => Admits(hold[e])
       /\ hold[e].at # Pending => Begun(hold[e].target, e, hold[e].id)
  /\ \A p \in pushes :
       /\ Admits(p.hold) \/ (Adopts(p.hold, p.env) /\ p.outcome \in {Nobody, p.hold.id})
       /\ p.outcome # Nobody => Begun(p.hold.target, p.env, p.outcome)
  /\ \A k \in claims : Admits(k.hold)
  /\ \A r \in receipts :
       /\ Admits(r.claim)
       /\ r.outcome # BindingMissing =>
            /\ Begun(r.claim.target, r.env, r.outcome)
            /\ SeenSince(Cleanup(r.claim.target, r.env, r.outcome), r.at)

(* What snapshots say of a hold's clean-up since it was noted as begun, by the *)
(* clock that stamps them.                                                     *)
Materialised ==
  \A e \in Environments : OnHold(e) /\ hold[e].at # Pending =>
    SeenSince(Cleanup(hold[e].target, e, hold[e].id), hold[e].at + Lag)

(* An environment that is owned is under no hold of an admission.              *)
OwnedOrHeld ==
  \A e \in Environments : scope[e] # Nobody /\ OnHold(e) => hold[e].row[1] = "adopted"

(* Who may still have a clean-up begun: its hold stands, or nothing is left to *)
(* begin, or an older clean-up stood in for it.                                *)
Stands(e, i) == OnHold(e) /\ hold[e].row = <<"admitted", i>>
MayBegin(t, e, i) == Stands(e, i) \/ Begun(t, e, i) \/ StoodIn(Cleanup(t, e, i))

Begins ==
  /\ \A p \in pushes : p.outcome = Nobody /\ Admits(p.hold) => MayBegin(p.hold.target, p.env, p.hold.id)
  /\ \A k \in claims : MayBegin(k.hold.target, k.env, k.hold.id)

(* Where the owner handed back another clean-up, that one is not of the        *)
(* ledger, and only a worker may have begun the admission's own.               *)
Claimed(e, i) == \E k \in claims : k.env = e /\ k.hold.row = <<"admitted", i>>
Replaced(t, e, i) == Unledgered(t, e) /\ (Begun(t, e, i) => Claimed(e, i))

StandIns ==
  /\ \A p, q \in pushes : p.env = q.env /\ Admits(p.hold) /\ q.hold.row = p.hold.row => p = q
  /\ \A p \in pushes : Admits(p.hold) /\ p.outcome \notin {Nobody, p.hold.id} =>
       Replaced(p.hold.target, p.env, p.hold.id)
  /\ \A e \in Environments : \A i \in Ids : Stands(e, i) /\ hold[e].id # i =>
       /\ Replaced(hold[e].target, e, i)
       /\ \A p \in pushes : p.env = e => p.hold.row # hold[e].row

(* A clean-up of an admission runs under its hold; afterwards it is over, and  *)
(* no snapshot still to be applied names it.                                   *)
CleanupOver(c) ==
  /\ cleanups[c] = "purged"
  /\ \A s \in snapshots : s.target = c.target /\ s.observedAt > cursor[c.target] => c \notin s.rows

Runs == \A c \in DOMAIN cleanups : ~Accounted(c) => Stands(c.env, c.id) \/ CleanupOver(c)

Shape == TypeOK /\ IsFiniteSet(claims)

Ledger ==
  /\ Shape /\ LedgerRecorded /\ Admissions /\ Entries /\ Materialised
  /\ OwnedOrHeld /\ Begins /\ StandIns /\ Runs /\ NoHoldComesBack
-----------------------------------------------------------------------------
(* What a step of a hold may do to its fields.                                 *)
LEMMA HoldNoted ==
  ASSUME NEW h \in Hold, NEW id \in Ids, NEW at \in Pending..MaxClock
  PROVE  [h EXCEPT !.id = id, !.at = at] \in Hold
BY DEF Hold

LEMMA HoldClaimed ==
  ASSUME NEW h \in Hold, NEW revision \in Nat \ {0}, NEW token \in Nat \X Nat
  PROVE  [h EXCEPT !.revision = revision, !.token = token, !.lease = TRUE] \in Hold
BY DEF Hold

LEMMA HoldExpired ==
  ASSUME NEW h \in Hold
  PROVE  [h EXCEPT !.lease = FALSE] \in Hold
BY DEF Hold

LEMMA NewHoldTyping ==
  ASSUME NEW t \in Targets, NEW id \in Ids, NEW tombstone \in BOOLEAN
  PROVE  NewHold(t, id, tombstone) \in Hold
<1>1. Pending \in Pending..MaxClock
  BY AdmissionAssumption DEF Pending
<1> QED
  BY <1>1 DEF NewHold, Hold

LEMMA StampTyping ==
  ASSUME NEW stamp \in 1..MaxClock
  PROVE  stamp \in Pending..MaxClock /\ stamp - Lag \in Pending..MaxClock
<1>1. /\ stamp \in Int /\ 1 <= stamp /\ stamp <= MaxClock
      /\ Lag \in Nat /\ MaxClock \in Nat
  BY AdmissionAssumption
<1>2. stamp - Lag \in Int /\ stamp - Lag <= MaxClock /\ 0 - Lag - 1 <= stamp - Lag
  BY <1>1
<1>3. 0 - Lag - 1 \in Int /\ 0 - Lag - 1 <= stamp
  BY <1>1
<1> QED
  BY <1>1, <1>2, <1>3 DEF Pending

LEMMA AdoptedTyping ==
  ASSUME clock' \in 1..MaxClock, NEW s, s.target \in Targets, NEW c, c.id \in Ids
  PROVE  Adopted(s, c) \in Hold
BY StampTyping DEF Adopted, Hold, DatabaseNow

(* Changing one hold.                                                          *)
LEMMA OneHold ==
  ASSUME TypeOK, NEW e \in Environments, NEW h, hold' = [hold EXCEPT ![e] = h]
  PROVE  /\ hold'[e] = h
         /\ \A x \in Environments : x # e => hold'[x] = hold[x]
         /\ h \in Hold => hold' \in [Environments -> Hold \cup {Nobody}]
BY DEF TypeOK

(* The owner's answer: nothing is forgotten, at most the clean-up asked for is *)
(* begun, and where another one is handed back that one is running.            *)
LEMMA OwnerAnswers ==
  ASSUME TypeOK, NEW t \in Targets, NEW e \in Environments, NEW id \in Ids,
         NEW tombstone \in BOOLEAN, NEW outcome \in Outcomes,
         OwnerMaterialises(t, e, id, tombstone, outcome)
  PROVE  /\ \A c \in DOMAIN cleanups : c \in DOMAIN cleanups' /\ cleanups'[c] = cleanups[c]
         /\ \A c \in DOMAIN cleanups' : c \in DOMAIN cleanups \/ c = Cleanup(t, e, id)
         /\ \A c \in DOMAIN cleanups' : cleanups'[c] \in {"active", "purged"}
         /\ outcome # BindingMissing => Cleanup(t, e, outcome) \in DOMAIN cleanups'
         /\ outcome \notin {BindingMissing, id} =>
              /\ UNCHANGED cleanups
              /\ Cleanup(t, e, id) \notin DOMAIN cleanups
              /\ cleanups[Cleanup(t, e, outcome)] = "active"
         /\ outcome = BindingMissing => UNCHANGED cleanups
<1> DEFINE new == Cleanup(t, e, id)
<1>1. \A c \in DOMAIN cleanups : c \in CleanupId /\ cleanups[c] \in {"active", "purged"}
  BY DEF TypeOK
<1>2. \A c \in Standing(t, e, id) :
        /\ c \in DOMAIN cleanups /\ c = Cleanup(t, e, c.id)
        /\ c.id # id => cleanups[c] = "active" /\ new \notin DOMAIN cleanups
  <2> SUFFICES ASSUME NEW c \in Standing(t, e, id)
               PROVE  /\ c \in DOMAIN cleanups /\ c = Cleanup(t, e, c.id)
                      /\ c.id # id => cleanups[c] = "active" /\ new \notin DOMAIN cleanups
    OBVIOUS
  <2>1. c \in DOMAIN cleanups /\ c.env = e /\ c.target = t
    BY DEF Standing, Of
  <2>2. c = Cleanup(t, e, c.id)
    BY <1>1, <2>1 DEF CleanupId, Cleanup
  <2>3. ASSUME c.id # id PROVE cleanups[c] = "active" /\ new \notin DOMAIN cleanups
    <3>1. new.target = t /\ new.env = e /\ new.id = id
      BY DEF Cleanup
    <3> HIDE DEF new
    <3> QED BY <2>3, <3>1 DEF Standing, Of
  <2> QED BY <2>1, <2>2, <2>3
<1>3. CASE (\E c \in Standing(t, e, id) : outcome = c.id) /\ UNCHANGED cleanups
  <2>1. PICK c \in Standing(t, e, id) : outcome = c.id
    BY <1>3
  <2>2. c \in DOMAIN cleanups /\ c = Cleanup(t, e, outcome) /\ outcome \in Ids
    BY <1>1, <1>2, <2>1 DEF CleanupId
  <2>3. outcome # BindingMissing
    BY <2>2, AdmissionAssumption DEF Ids, BindingMissing
  <2>4. outcome # id => cleanups[Cleanup(t, e, outcome)] = "active" /\ new \notin DOMAIN cleanups
    BY <1>2, <2>1, <2>2
  <2> QED BY <1>1, <1>3, <2>2, <2>3, <2>4
<1>4. CASE /\ Standing(t, e, id) = {} /\ outcome = id
           /\ \E state \in {"active"} \cup (IF tombstone THEN {"purged"} ELSE {}) :
                cleanups' = [c \in DOMAIN cleanups \cup {new} |-> IF c = new THEN state ELSE cleanups[c]]
  <2>1. new \notin DOMAIN cleanups
    BY <1>4 DEF Standing, Of, Cleanup
  <2>2. outcome # BindingMissing
    BY <1>4, AdmissionAssumption DEF Ids, BindingMissing
  <2>3. PICK state \in {"active", "purged"} :
          cleanups' = [c \in DOMAIN cleanups \cup {new} |-> IF c = new THEN state ELSE cleanups[c]]
    BY <1>4
  <2>4. Cleanup(t, e, outcome) = new
    BY <1>4
  <2> HIDE DEF new
  <2>5. \A c \in DOMAIN cleanups' : c \in DOMAIN cleanups \/ c = new
    BY <2>3
  <2>6. \A c \in DOMAIN cleanups : c \in DOMAIN cleanups' /\ cleanups'[c] = cleanups[c]
    BY <2>1, <2>3
  <2>7. \A c \in DOMAIN cleanups' : cleanups'[c] \in {"active", "purged"}
    BY <1>1, <2>3
  <2>8. new \in DOMAIN cleanups'
    BY <2>3
  <2>9. \A c \in DOMAIN cleanups' : c \in DOMAIN cleanups \/ c = Cleanup(t, e, id)
    BY <1>4, <2>4, <2>5
  <2> QED BY <1>4, <2>2, <2>4, <2>6, <2>7, <2>8, <2>9
<1>5. CASE outcome = BindingMissing /\ UNCHANGED cleanups
  BY <1>1, <1>5
<1> QED
  BY <1>3, <1>4, <1>5 DEF OwnerMaterialises
-----------------------------------------------------------------------------
(* Types.                                                                      *)
LEMMA ShapeInit == Init => Shape
<1> SUFFICES ASSUME Init PROVE Shape
  OBVIOUS
<1>1. /\ DOMAIN cleanups \subseteq CleanupId
      /\ \A c \in DOMAIN cleanups : cleanups[c] \in {"active", "purged"}
  <2>1. PICK legacy \in SUBSET Environments, t \in Targets :
          cleanups = [c \in {Cleanup(t, e, 0) : e \in legacy} |-> "active"]
    BY DEF Init
  <2>2. \A e \in legacy : Cleanup(t, e, 0) \in CleanupId
    BY AdmissionAssumption DEF Cleanup, CleanupId, Ids
  <2> QED BY <2>1, <2>2
<1>2. claims = {} /\ IsFiniteSet(claims)
  BY FS_EmptySet DEF Init
<1> QED
  BY <1>1, <1>2, AdmissionAssumption DEF Init, Shape, TypeOK, Ids

(* What the variables hold, one by one.                                        *)
LEMMA Typed ==
  ASSUME TypeOK
  PROVE  /\ \A e \in Environments : OnHold(e) => hold[e] \in Hold
         /\ \A c \in DOMAIN cleanups : c \in CleanupId /\ c = Cleanup(c.target, c.env, c.id)
         /\ \A p \in pushes : /\ p.env \in Environments /\ p.hold \in Hold
                              /\ p.outcome \in Ids \cup {Nobody}
         /\ \A k \in claims : k.env \in Environments /\ k.hold \in Hold /\ k.live \in BOOLEAN
         /\ \A r \in receipts : /\ r.env \in Environments /\ r.claim \in Hold
                                /\ r.outcome \in Outcomes /\ r.at \in 1..MaxClock
         /\ \A s \in snapshots : /\ s.target \in Targets /\ s.observedAt \in 1..MaxClock
                                 /\ s.rows \subseteq CleanupId
<1>1. \A c \in CleanupId : c = Cleanup(c.target, c.env, c.id)
  BY DEF CleanupId, Cleanup
<1>2. \A e \in Environments : OnHold(e) => hold[e] \in Hold
  BY DEF TypeOK, OnHold
<1>3. \A r \in receipts : /\ r.env \in Environments /\ r.claim \in Hold
                          /\ r.outcome \in Outcomes /\ r.at \in 1..MaxClock
  BY DEF TypeOK, Receipt
<1> QED
  BY <1>1, <1>2, <1>3 DEF TypeOK

LEMMA HoldParts ==
  ASSUME NEW h \in Hold
  PROVE  /\ h.target \in Targets /\ h.id \in Ids /\ h.tombstone \in BOOLEAN
         /\ h.at \in Pending..MaxClock /\ h.revision \in Nat \ {0} /\ h.lease \in BOOLEAN
         /\ h.token \in {Nobody} \cup (Nat \X Nat)
         /\ h.row \in {"admitted", "adopted"} \X Ids
BY DEF Hold

LEMMA StampStep ==
  ASSUME TypeOK, Stamp
  PROVE  /\ clock' \in 1..MaxClock /\ clock' = clock + 1 /\ clock \in 0..MaxClock
         /\ clock \in Nat
BY AdmissionAssumption DEF TypeOK, Stamp

LEMMA GrantShape ==
  ASSUME Shape, NEW e \in Environments, NEW u \in Customers, Grant(e, u)
  PROVE  Shape'
BY DEF Shape, TypeOK, Grant, workerVars, snapshotVars

(* What Revoke leaves: the hold that stood, or a new one; its push.            *)
LEMMA RevokeSteps ==
  ASSUME TypeOK, NEW e \in Environments, NEW t \in Targets, NEW tombstone \in BOOLEAN,
         Revoke(t, e, tombstone)
  PROVE  /\ hold' \in [Environments -> Hold \cup {Nobody}]
         /\ hold'[e] \in Hold /\ hold'[e] # Nobody /\ hold'[e].target = t
         /\ \A x \in Environments : x # e => hold'[x] = hold[x]
         /\ \/ OnHold(e) /\ UNCHANGED <<hold, admitted>>
            \/ /\ ~OnHold(e)
               /\ admitted' = admitted + 1 /\ admitted' \in Ids
               /\ hold'[e] = NewHold(t, admitted', tombstone)
         /\ pushes' = pushes \cup {Push(e, hold'[e])}
         /\ scope[e] # Nobody /\ scope' = [scope EXCEPT ![e] = Nobody]
         /\ UNCHANGED <<clock, cleanups, workerVars, snapshotVars>>
<1>1. CASE OnHold(e)
  BY <1>1, Typed DEF Revoke, OnHold, TypeOK
<1>2. CASE ~OnHold(e)
  <2>1. /\ admitted' = admitted + 1 /\ admitted < MaxCleanup
        /\ hold' = [hold EXCEPT ![e] = NewHold(t, admitted', tombstone)]
    BY <1>2 DEF Revoke
  <2>2. admitted' \in Ids
    BY <2>1, AdmissionAssumption DEF TypeOK, Ids
  <2>3. NewHold(t, admitted', tombstone) \in Hold
    BY <2>2, NewHoldTyping
  <2>4. NewHold(t, admitted', tombstone).target = t
    BY DEF NewHold
  <2>5. NewHold(t, admitted', tombstone) # Nobody
    BY <2>3, NobodyAssumption
  <2>6. /\ hold'[e] = NewHold(t, admitted', tombstone)
        /\ \A x \in Environments : x # e => hold'[x] = hold[x]
        /\ hold' \in [Environments -> Hold \cup {Nobody}]
    BY <2>1, <2>3, OneHold
  <2> QED BY <1>2, <2>1, <2>2, <2>3, <2>4, <2>5, <2>6 DEF Revoke
<1> QED
  BY <1>1, <1>2

LEMMA RevokeShape ==
  ASSUME Shape, NEW e \in Environments, NEW t \in Targets, NEW tombstone \in BOOLEAN,
         Revoke(t, e, tombstone)
  PROVE  Shape'
<1>1. TypeOK
  BY DEF Shape
<1>2. Push(e, hold'[e]) \in [env: Environments, hold: Hold, outcome: Ids \cup {Nobody}]
  BY <1>1, RevokeSteps DEF Push
<1>3. hold' \in [Environments -> Hold \cup {Nobody}] /\ pushes' = pushes \cup {Push(e, hold'[e])}
  BY <1>1, RevokeSteps
<1>4. admitted' \in Ids
  BY <1>1, RevokeSteps DEF TypeOK
<1>5. scope' \in [Environments -> Customers \cup {Nobody}]
  BY <1>1 DEF Revoke, TypeOK
<1>6. UNCHANGED <<clock, cleanups, workerVars, snapshotVars>>
  BY DEF Revoke
<1> QED
  BY <1>2, <1>3, <1>4, <1>5, <1>6 DEF Shape, TypeOK, workerVars, snapshotVars

LEMMA PurgeShape ==
  ASSUME Shape, NEW c \in DOMAIN cleanups, OwnerPurges(c)
  PROVE  Shape'
BY DEF Shape, TypeOK, OwnerPurges, apiVars, workerVars, snapshotVars

(* What a push call does.                                                      *)
LEMMA PushCallSteps ==
  ASSUME TypeOK, NEW p \in pushes, PushCall(p)
  PROVE  \E outcome \in Outcomes :
           /\ OwnerMaterialises(p.hold.target, p.env, p.hold.id, p.hold.tombstone, outcome)
           /\ pushes' = (pushes \ {p}) \cup
                (IF outcome = BindingMissing THEN {} ELSE {[p EXCEPT !.outcome = outcome]})
           /\ p.outcome = Nobody /\ Stamp /\ UNCHANGED <<apiVars, workerVars, snapshotVars>>
BY DEF PushCall

LEMMA PushCallShape ==
  ASSUME Shape, NEW p \in pushes, PushCall(p)
  PROVE  Shape'
<1>1. TypeOK
  BY DEF Shape
<1>2. PICK outcome \in Outcomes :
           /\ OwnerMaterialises(p.hold.target, p.env, p.hold.id, p.hold.tombstone, outcome)
           /\ pushes' = (pushes \ {p}) \cup
                (IF outcome = BindingMissing THEN {} ELSE {[p EXCEPT !.outcome = outcome]})
           /\ p.outcome = Nobody /\ Stamp /\ UNCHANGED <<apiVars, workerVars, snapshotVars>>
  BY <1>1, PushCallSteps
<1>3. p.env \in Environments /\ p.hold \in Hold /\ p.hold.target \in Targets
        /\ p.hold.id \in Ids /\ p.hold.tombstone \in BOOLEAN
  BY <1>1, Typed, HoldParts
<1>4. /\ \A c \in DOMAIN cleanups' : c \in DOMAIN cleanups \/ c = Cleanup(p.hold.target, p.env, p.hold.id)
      /\ \A c \in DOMAIN cleanups' : cleanups'[c] \in {"active", "purged"}
  BY <1>1, <1>2, <1>3, OwnerAnswers
<1>5. Cleanup(p.hold.target, p.env, p.hold.id) \in CleanupId
  BY <1>3 DEF Cleanup, CleanupId
<1>6. outcome # BindingMissing =>
        [p EXCEPT !.outcome = outcome] \in [env: Environments, hold: Hold, outcome: Ids \cup {Nobody}]
  BY <1>1 DEF TypeOK, Outcomes
<1>7. pushes' \subseteq [env: Environments, hold: Hold, outcome: Ids \cup {Nobody}]
  BY <1>1, <1>2, <1>6 DEF TypeOK
<1>8. clock' \in 0..MaxClock
  BY <1>1, <1>2, StampStep
<1>9. DOMAIN cleanups' \subseteq CleanupId
  BY <1>1, <1>4, <1>5 DEF TypeOK
<1> QED
  BY <1>2, <1>4, <1>7, <1>8, <1>9 DEF Shape, TypeOK, apiVars, workerVars, snapshotVars

(* What the note of a push does.                                               *)
LEMMA PushRecordSteps ==
  ASSUME TypeOK, NEW p \in pushes, PushRecord(p)
  PROVE  /\ hold' \in [Environments -> Hold \cup {Nobody}]
         /\ \A x \in Environments : x # p.env => hold'[x] = hold[x]
         /\ ~Noted(p) => UNCHANGED hold
         /\ Noted(p) =>
              /\ hold'[p.env] = [hold[p.env] EXCEPT !.id = p.outcome, !.at = DatabaseNow]
              /\ hold'[p.env] # Nobody
         /\ DatabaseNow \in Pending..MaxClock
         /\ p.outcome \in Ids
         /\ pushes' = pushes \ {p} /\ Stamp
         /\ UNCHANGED <<scope, cleanups, admitted, workerVars, snapshotVars>>
<1>1. /\ p.env \in Environments /\ p.outcome \in Ids
  BY Typed DEF PushRecord
<1>2. DatabaseNow \in Pending..MaxClock
  BY StampStep, StampTyping DEF PushRecord, DatabaseNow
<1>3. CASE Noted(p)
  <2> DEFINE h == [hold[p.env] EXCEPT !.id = p.outcome, !.at = DatabaseNow]
  <2>1. hold[p.env] \in Hold
    BY <1>1, <1>3, Typed DEF Noted
  <2>2. h \in Hold /\ h # Nobody
    <3>1. h \in Hold
      BY <1>1, <1>2, <2>1, HoldNoted
    <3> HIDE DEF h
    <3> QED BY <3>1, NobodyAssumption
  <2>3. hold' = [hold EXCEPT ![p.env] = h]
    BY <1>3 DEF PushRecord
  <2>4. /\ hold'[p.env] = h
        /\ \A x \in Environments : x # p.env => hold'[x] = hold[x]
        /\ hold' \in [Environments -> Hold \cup {Nobody}]
    <3> HIDE DEF h
    <3> QED BY <1>1, <2>2, <2>3, OneHold
  <2> QED BY <1>1, <1>2, <1>3, <2>2, <2>4 DEF PushRecord
<1>4. CASE ~Noted(p)
  BY <1>1, <1>2, <1>4 DEF PushRecord, TypeOK
<1> QED
  BY <1>3, <1>4

LEMMA PushRecordShape ==
  ASSUME Shape, NEW p \in pushes, PushRecord(p)
  PROVE  Shape'
<1>1. TypeOK
  BY DEF Shape
<1>2. /\ hold' \in [Environments -> Hold \cup {Nobody}] /\ pushes' \subseteq pushes /\ Stamp
      /\ UNCHANGED <<scope, cleanups, admitted, workerVars, snapshotVars>>
  BY <1>1, PushRecordSteps
<1>3. clock' \in 0..MaxClock
  BY <1>1, <1>2, StampStep
<1> QED
  BY <1>2, <1>3 DEF Shape, TypeOK, workerVars, snapshotVars

LEMMA PushLostShape ==
  ASSUME Shape, NEW p \in pushes, PushLost(p)
  PROVE  Shape'
BY DEF Shape, TypeOK, PushLost, apiVars, workerVars, snapshotVars

(* What becomes of claims when a lease runs out: they stay, live or not.       *)
LEMMA LeaseSteps ==
  ASSUME TypeOK, NEW e \in Environments, LeaseExpires(e)
  PROVE  /\ OnHold(e) /\ hold[e] \in Hold
         /\ hold'[e] = [hold[e] EXCEPT !.lease = FALSE]
         /\ hold'[e] \in Hold /\ hold'[e] # Nobody
         /\ hold' \in [Environments -> Hold \cup {Nobody}]
         /\ \A x \in Environments : x # e => hold'[x] = hold[x]
         /\ claims' = {IF c.hold.token = hold[e].token THEN [c EXCEPT !.live = FALSE] ELSE c : c \in claims}
         /\ \A k \in claims' : \E c \in claims :
              /\ k.env = c.env /\ k.hold = c.hold /\ k.live \in BOOLEAN
              /\ k = c \/ ~k.live
              /\ k.live => c.live /\ c.hold.token # hold[e].token
         /\ \A c \in claims : \E k \in claims' : k.env = c.env /\ k.hold = c.hold
         /\ UNCHANGED <<clock, scope, cleanups, admitted, pushes, receipts, recorded, told, snapshotVars>>
<1> DEFINE h == [hold[e] EXCEPT !.lease = FALSE]
           g(c) == IF c.hold.token = hold[e].token THEN [c EXCEPT !.live = FALSE] ELSE c
<1>1. OnHold(e) /\ hold[e] \in Hold
  BY Typed DEF LeaseExpires
<1>2. h \in Hold /\ h # Nobody
  BY <1>1, HoldExpired, NobodyAssumption
<1>3. hold' = [hold EXCEPT ![e] = h] /\ claims' = {g(c) : c \in claims}
  BY DEF LeaseExpires
<1>4. /\ hold'[e] = h
      /\ \A x \in Environments : x # e => hold'[x] = hold[x]
      /\ hold' \in [Environments -> Hold \cup {Nobody}]
  <2> HIDE DEF h
  <2> QED BY <1>2, <1>3, OneHold
<1>5. \A c \in claims :
        /\ g(c).env = c.env /\ g(c).hold = c.hold /\ g(c).live \in BOOLEAN
        /\ g(c) = c \/ ~g(c).live
        /\ g(c).live => c.live /\ c.hold.token # hold[e].token
  <2> SUFFICES ASSUME NEW c \in claims
               PROVE  /\ g(c).env = c.env /\ g(c).hold = c.hold /\ g(c).live \in BOOLEAN
                      /\ g(c) = c \/ ~g(c).live
                      /\ g(c).live => c.live /\ c.hold.token # hold[e].token
    OBVIOUS
  <2>1. c \in [env: Environments, hold: Hold, live: BOOLEAN]
    BY DEF TypeOK
  <2> QED BY <2>1
<1> HIDE DEF g
<1>6. \A k \in claims' : \E c \in claims : k = g(c)
  BY <1>3
<1>7. \A c \in claims : g(c) \in claims'
  BY <1>3
<1>8. \A k \in claims' : \E c \in claims :
              /\ k.env = c.env /\ k.hold = c.hold /\ k.live \in BOOLEAN
              /\ k = c \/ ~k.live
              /\ k.live => c.live /\ c.hold.token # hold[e].token
  BY <1>5, <1>6
<1>9. \A c \in claims : \E k \in claims' : k.env = c.env /\ k.hold = c.hold
  BY <1>5, <1>7
<1> QED
  BY <1>1, <1>2, <1>3, <1>4, <1>8, <1>9 DEF LeaseExpires

LEMMA LeaseShape ==
  ASSUME Shape, NEW e \in Environments, LeaseExpires(e)
  PROVE  Shape'
<1>1. TypeOK
  BY DEF Shape
<1>2. IsFiniteSet(claims')
  <2>1. claims' = {IF c.hold.token = hold[e].token THEN [c EXCEPT !.live = FALSE] ELSE c : c \in claims}
    BY DEF LeaseExpires
  <2> DEFINE f == [c \in claims |-> IF c.hold.token = hold[e].token THEN [c EXCEPT !.live = FALSE] ELSE c]
  <2>2. f \in Surjection(claims, claims')
    BY <2>1 DEF Surjection
  <2> HIDE DEF f
  <2> QED BY <2>2, FS_Surjection DEF Shape
<1>3. claims' \subseteq [env: Environments, hold: Hold, live: BOOLEAN]
  <2>1. \A c \in claims : /\ c \in [env: Environments, hold: Hold, live: BOOLEAN]
                          /\ [c EXCEPT !.live = FALSE] \in [env: Environments, hold: Hold, live: BOOLEAN]
    BY <1>1 DEF TypeOK
  <2> QED BY <2>1 DEF LeaseExpires
<1>4. /\ hold' \in [Environments -> Hold \cup {Nobody}]
      /\ UNCHANGED <<clock, scope, cleanups, admitted, pushes, receipts, recorded, told, snapshotVars>>
  BY <1>1, LeaseSteps
<1> QED
  BY <1>2, <1>3, <1>4 DEF Shape, TypeOK, snapshotVars

(* A claim: the hold it takes, and the candidate it hands to a worker.         *)
LEMMA ClaimSteps ==
  ASSUME Shape, NEW e \in Environments, NEW t \in Targets, Claim(t, e)
  PROVE  /\ OnHold(e) /\ hold[e] \in Hold /\ Due(t, e)
         /\ \E revision \in Nat \ {0}, token \in Nat \X Nat :
              hold'[e] = [hold[e] EXCEPT !.revision = revision, !.token = token, !.lease = TRUE]
         /\ hold'[e] \in Hold /\ hold'[e] # Nobody
         /\ hold' \in [Environments -> Hold \cup {Nobody}]
         /\ \A x \in Environments : x # e => hold'[x] = hold[x]
         /\ claims' = claims \cup {[env |-> e, hold |-> hold'[e], live |-> TRUE]}
         /\ UNCHANGED <<clock, scope, cleanups, admitted, pushes, receipts, recorded, told, snapshotVars>>
<1> DEFINE revision == hold[e].revision + 1
           token == <<Cardinality(claims) + 1, revision>>
           h == [hold[e] EXCEPT !.revision = revision, !.token = token, !.lease = TRUE]
<1>1. OnHold(e) /\ hold[e] \in Hold /\ TypeOK
  BY Typed DEF Claim, Shape
<1>2. Cardinality(claims) \in Nat
  BY FS_CardinalityType DEF Shape
<1>3. revision \in Nat \ {0}
  BY <1>1, HoldParts
<1>4. token \in Nat \X Nat
  BY <1>2, <1>3
<1>5. h \in Hold /\ h # Nobody
  <2>1. \A x \in Hold : [x EXCEPT !.revision = revision, !.token = token, !.lease = TRUE] \in Hold
    <3> HIDE DEF revision, token
    <3> QED BY <1>3, <1>4, HoldClaimed
  <2>2. h \in Hold
    <3> HIDE DEF revision, token
    <3> QED BY <1>1, <2>1
  <2> HIDE DEF h
  <2> QED BY <2>2, NobodyAssumption
<1>6. hold' = [hold EXCEPT ![e] = h]
  <2>1. hold' = [hold EXCEPT ![e].revision = revision, ![e].token = token, ![e].lease = TRUE]
    BY DEF Claim
  <2> QED BY <2>1
<1>7. /\ hold'[e] = h
      /\ \A x \in Environments : x # e => hold'[x] = hold[x]
      /\ hold' \in [Environments -> Hold \cup {Nobody}]
  <2> HIDE DEF h
  <2> QED BY <1>1, <1>5, <1>6, OneHold
<1>8. /\ claims' = claims \cup {[env |-> e, hold |-> hold'[e], live |-> TRUE]}
      /\ Due(t, e)
      /\ UNCHANGED <<clock, scope, cleanups, admitted, pushes, receipts, recorded, told, snapshotVars>>
  BY DEF Claim
<1>9. \E r \in Nat \ {0}, k \in Nat \X Nat :
        hold'[e] = [hold[e] EXCEPT !.revision = r, !.token = k, !.lease = TRUE]
  <2> HIDE DEF revision, token
  <2> QED BY <1>3, <1>4, <1>7
<1> QED
  BY <1>1, <1>5, <1>7, <1>8, <1>9

LEMMA ClaimShape ==
  ASSUME Shape, NEW e \in Environments, NEW t \in Targets, Claim(t, e)
  PROVE  Shape'
<1>1. IsFiniteSet(claims')
  <2>1. claims' = claims \cup {[env |-> e, hold |-> hold'[e], live |-> TRUE]}
    BY DEF Claim
  <2> QED BY <2>1, FS_AddElement DEF Shape
<1>2. claims' \subseteq [env: Environments, hold: Hold, live: BOOLEAN]
  <2>1. claims' = claims \cup {[env |-> e, hold |-> hold'[e], live |-> TRUE]} /\ hold'[e] \in Hold
    BY ClaimSteps
  <2>2. [env |-> e, hold |-> hold'[e], live |-> TRUE] \in [env: Environments, hold: Hold, live: BOOLEAN]
    BY <2>1
  <2> QED BY <2>1, <2>2 DEF Shape, TypeOK
<1>3. /\ hold' \in [Environments -> Hold \cup {Nobody}]
      /\ UNCHANGED <<clock, scope, cleanups, admitted, pushes, receipts, recorded, told, snapshotVars>>
  BY ClaimSteps
<1> QED
  BY <1>1, <1>2, <1>3 DEF Shape, TypeOK, snapshotVars

LEMMA WorkerShape ==
  ASSUME Shape, NEW k \in claims, WorkerMaterialises(k)
  PROVE  Shape'
<1>1. TypeOK
  BY DEF Shape
<1>2. PICK outcome \in Outcomes :
       /\ OwnerMaterialises(k.hold.target, k.env, k.hold.id, k.hold.tombstone, outcome)
       /\ receipts' = receipts \cup
            {[env |-> k.env, claim |-> k.hold, outcome |-> outcome, at |-> clock']}
  BY DEF WorkerMaterialises
<1>3. k.env \in Environments /\ k.hold \in Hold /\ k.hold.target \in Targets
        /\ k.hold.id \in Ids /\ k.hold.tombstone \in BOOLEAN
  BY <1>1, Typed, HoldParts
<1>4. /\ \A c \in DOMAIN cleanups' : c \in DOMAIN cleanups \/ c = Cleanup(k.hold.target, k.env, k.hold.id)
      /\ \A c \in DOMAIN cleanups' : cleanups'[c] \in {"active", "purged"}
  BY <1>1, <1>2, <1>3, OwnerAnswers
<1>5. Cleanup(k.hold.target, k.env, k.hold.id) \in CleanupId
  BY <1>3 DEF Cleanup, CleanupId
<1>6. clock' \in 1..MaxClock
  BY <1>1, StampStep DEF WorkerMaterialises
<1>7. receipts' \subseteq Receipt /\ receipts \subseteq receipts'
  BY <1>1, <1>2, <1>3, <1>6 DEF TypeOK, Receipt
<1>8. DOMAIN cleanups' \subseteq CleanupId
  BY <1>1, <1>4, <1>5 DEF TypeOK
<1>9. clock' \in 0..MaxClock
  BY <1>6
<1> QED
  BY <1>4, <1>7, <1>8, <1>9 DEF Shape, TypeOK, WorkerMaterialises, apiVars, snapshotVars

(* A receipt is answered from its command, or applied to the hold it stands    *)
(* for, or refused.                                                            *)
ReportedAt(r) == IF r.outcome = BindingMissing THEN Pending ELSE r.at

Reported(r, h, g) ==
  /\ g.target = h.target /\ g.row = h.row /\ g.id = h.id /\ g.tombstone = h.tombstone
  /\ g.at = ReportedAt(r) /\ g.token = Nobody /\ g.revision = h.revision + 1

LEMMA ReceiptSteps ==
  ASSUME TypeOK, NEW r \in receipts, RecordReceipt(r)
  PROVE  /\ hold' \in [Environments -> Hold \cup {Nobody}]
         /\ \/ UNCHANGED hold
            \/ /\ ~Seen(r) /\ StandsFor(r) /\ r.outcome \in {BindingMissing, hold[r.env].id}
               /\ \A x \in Environments : x # r.env => hold'[x] = hold[x]
               /\ Reported(r, hold[r.env], hold'[r.env]) /\ hold'[r.env] # Nobody
               /\ r \in DOMAIN recorded'
         /\ \/ /\ Seen(r) /\ UNCHANGED recorded
               /\ told' = told \cup {[receipt |-> r, answer |-> recorded[r]]}
            \/ /\ ~Seen(r)
               /\ recorded' = [x \in DOMAIN recorded \cup {r} |->
                                 IF x = r THEN RecordOutcome(r) ELSE recorded[x]]
               /\ told' = told \cup {[receipt |-> r, answer |-> RecordOutcome(r)]}
         /\ UNCHANGED <<clock, scope, cleanups, admitted, pushes, claims, receipts, snapshotVars>>
<1>1. CASE Seen(r) \/ RecordOutcome(r) # "applied"
  BY <1>1 DEF RecordReceipt, TypeOK
<1>2. CASE ~Seen(r) /\ RecordOutcome(r) = "applied"
  <2> DEFINE at == ReportedAt(r)
             h == [hold[r.env] EXCEPT !.at = at, !.token = Nobody, !.lease = FALSE,
                                      !.revision = hold[r.env].revision + 1]
  <2>1. StandsFor(r) /\ r.outcome \in {BindingMissing, hold[r.env].id}
    BY <1>2 DEF RecordOutcome
  <2>2. r.env \in Environments /\ hold[r.env] \in Hold /\ hold[r.env].revision + 1 \in Nat \ {0}
    BY <2>1, Typed, HoldParts DEF StandsFor
  <2>3. at \in Pending..MaxClock
    <3>1. Pending \in Pending..MaxClock
      BY AdmissionAssumption DEF Pending
    <3>2. r.at \in Pending..MaxClock
      BY Typed, StampTyping
    <3> QED BY <3>1, <3>2 DEF ReportedAt
  <2>4. Reported(r, hold[r.env], h) /\ h \in Hold
    <3> DEFINE revision == hold[r.env].revision + 1
    <3> HIDE DEF at, revision
    <3>1. revision \in Nat \ {0}
      BY <2>2 DEF revision
    <3>2. h = [hold[r.env] EXCEPT !.at = at, !.token = Nobody, !.lease = FALSE, !.revision = revision]
      BY DEF revision
    <3> HIDE DEF h
    <3>3. /\ h \in Hold
          /\ h.target = hold[r.env].target /\ h.row = hold[r.env].row /\ h.id = hold[r.env].id
          /\ h.tombstone = hold[r.env].tombstone
          /\ h.at = at /\ h.token = Nobody /\ h.revision = revision
      <4>1. PICK x \in Hold, y \in Pending..MaxClock, z \in Nat \ {0} :
              x = hold[r.env] /\ y = at /\ z = revision
        BY <2>2, <2>3, <3>1
      <4>2. h = [x EXCEPT !.at = y, !.token = Nobody, !.lease = FALSE, !.revision = z]
        BY <3>2, <4>1
      <4>3. /\ h \in Hold
            /\ h.target = x.target /\ h.row = x.row /\ h.id = x.id /\ h.tombstone = x.tombstone
            /\ h.at = y /\ h.token = Nobody /\ h.revision = z
        BY <4>2 DEF Hold
      <4> QED BY <4>1, <4>3
    <3> QED BY <3>3 DEF Reported, at, revision
  <2>5. h # Nobody
    <3> HIDE DEF h
    <3> QED BY <2>4, NobodyAssumption
  <2>6. hold' = [hold EXCEPT ![r.env] = h]
    <3>1. hold' = [hold EXCEPT
                       ![r.env].at = at,
                       ![r.env].token = Nobody, ![r.env].lease = FALSE,
                       ![r.env].revision = @ + 1]
      BY <1>2 DEF RecordReceipt, ReportedAt
    <3> QED BY <2>2, <3>1 DEF TypeOK
  <2>7. /\ hold'[r.env] = h
        /\ \A x \in Environments : x # r.env => hold'[x] = hold[x]
        /\ hold' \in [Environments -> Hold \cup {Nobody}]
    <3> HIDE DEF h
    <3> QED BY <2>2, <2>4, <2>6, OneHold
  <2>8. recorded' = [x \in DOMAIN recorded \cup {r} |->
                                 IF x = r THEN RecordOutcome(r) ELSE recorded[x]]
    BY <1>2 DEF RecordReceipt
  <2>9. r \in DOMAIN recorded'
    BY <2>8
  <2>10. /\ told' = told \cup {[receipt |-> r, answer |-> RecordOutcome(r)]}
         /\ UNCHANGED <<clock, scope, cleanups, admitted, pushes, claims, receipts, snapshotVars>>
    BY <1>2 DEF RecordReceipt
  <2> QED BY <1>2, <2>1, <2>4, <2>5, <2>7, <2>8, <2>9, <2>10
<1> QED
  BY <1>1, <1>2

LEMMA ReceiptShape ==
  ASSUME Shape, NEW r \in receipts, RecordReceipt(r)
  PROVE  Shape'
<1>1. TypeOK
  BY DEF Shape
<1>2. RecordOutcome(r) \in Answers
  BY DEF RecordOutcome, Answers
<1>3. /\ hold' \in [Environments -> Hold \cup {Nobody}]
      /\ UNCHANGED <<clock, scope, cleanups, admitted, pushes, claims, receipts, snapshotVars>>
  BY <1>1, ReceiptSteps
<1>4. /\ DOMAIN recorded' \subseteq receipts
      /\ \A x \in DOMAIN recorded' : recorded'[x] \in Answers
      /\ \E answer \in Answers : told' = told \cup {[receipt |-> r, answer |-> answer]}
  <2>1. CASE Seen(r)
    <3>1. UNCHANGED recorded /\ told' = told \cup {[receipt |-> r, answer |-> recorded[r]]}
      BY <2>1 DEF RecordReceipt
    <3> QED BY <1>1, <2>1, <3>1 DEF TypeOK, Seen
  <2>2. CASE ~Seen(r)
    <3>1. /\ recorded' = [x \in DOMAIN recorded \cup {r} |->
                                 IF x = r THEN RecordOutcome(r) ELSE recorded[x]]
          /\ told' = told \cup {[receipt |-> r, answer |-> RecordOutcome(r)]}
      BY <2>2 DEF RecordReceipt
    <3> QED BY <1>1, <1>2, <3>1 DEF TypeOK
  <2> QED BY <2>1, <2>2
<1>5. told' \subseteq [receipt: Receipt, answer: Answers]
  BY <1>1, <1>4 DEF TypeOK
<1> QED
  BY <1>3, <1>4, <1>5 DEF Shape, TypeOK, snapshotVars

LEMMA SnapshotShape ==
  ASSUME Shape, NEW t \in Targets, ReadSnapshot(t)
  PROVE  Shape'
<1>1. clock' \in 1..MaxClock /\ clock' \in 0..MaxClock
  BY StampStep DEF Shape, ReadSnapshot
<1>2. snapshots' \subseteq [target: Targets, observedAt: 1..MaxClock, rows: SUBSET CleanupId]
  BY <1>1 DEF Shape, TypeOK, ReadSnapshot
<1> QED
  BY <1>1, <1>2 DEF Shape, TypeOK, ReadSnapshot, apiVars, workerVars

(* What reconciling leaves of each hold.                                       *)
Names(s, e) == \E c \in s.rows : c.env = e

LEMMA ReconcileSteps ==
  ASSUME TypeOK, NEW s \in snapshots, Reconcile(s)
  PROVE  /\ hold' \in [Environments -> Hold \cup {Nobody}]
         /\ \A e \in Environments :
              \/ hold'[e] = hold[e]
              \/ /\ OnHold(e) /\ ~Names(s, e) /\ Releasable(s, e) /\ hold'[e] = Nobody
              \/ \E c \in s.rows : /\ ~OnHold(e) /\ c.env = e
                                   /\ hold'[e] = Adopted(s, c) /\ Adopted(s, c) \in Hold
         /\ Fresh(s) /\ Stamp
         /\ cursor' = [cursor EXCEPT ![s.target] = s.observedAt]
         /\ early' = early \cup {Cleanup(hold[e].target, e, hold[e].id) :
              e \in {x \in Environments : OnHold(x) /\ hold'[x] = Nobody /\ WithinLag(s, x)}}
         /\ UNCHANGED <<scope, cleanups, admitted, pushes, workerVars, snapshots>>
<1> DEFINE Named(e) == {c \in s.rows : c.env = e}
<1>1. \A e \in Environments : hold'[e] =
       IF ~OnHold(e) THEN IF Named(e) = {} THEN Nobody ELSE Adopted(s, CHOOSE c \in Named(e) : TRUE)
       ELSE IF Named(e) = {} /\ Releasable(s, e) THEN Nobody ELSE hold[e]
  BY DEF Reconcile
<1>2. clock' \in 1..MaxClock /\ s.target \in Targets /\ s.rows \subseteq CleanupId
  BY Typed, StampStep DEF Reconcile
<1>3. ASSUME NEW c \in s.rows PROVE Adopted(s, c) \in Hold
  BY <1>2, AdoptedTyping DEF CleanupId
<1>4. ASSUME NEW e \in Environments, Named(e) # {}
      PROVE  (CHOOSE c \in Named(e) : TRUE) \in Named(e)
  BY <1>4
<1>5. ASSUME NEW e \in Environments
      PROVE  /\ \/ hold'[e] = hold[e]
                \/ /\ OnHold(e) /\ ~Names(s, e) /\ Releasable(s, e) /\ hold'[e] = Nobody
                \/ \E c \in s.rows : /\ ~OnHold(e) /\ c.env = e
                                     /\ hold'[e] = Adopted(s, c) /\ Adopted(s, c) \in Hold
             /\ hold'[e] \in Hold \cup {Nobody}
  <2>1. hold[e] \in Hold \cup {Nobody}
    BY DEF TypeOK
  <2>2. CASE ~OnHold(e) /\ Named(e) # {}
    <3> DEFINE c == CHOOSE c \in Named(e) : TRUE
    <3>1. c \in Named(e) /\ hold'[e] = Adopted(s, c)
      BY <1>1, <1>4, <2>2
    <3> HIDE DEF c
    <3>2. c \in s.rows /\ c.env = e
      BY <3>1
    <3> QED BY <1>3, <2>2, <3>1, <3>2
  <2>3. CASE ~OnHold(e) /\ Named(e) = {}
    BY <1>1, <2>1, <2>3 DEF OnHold
  <2>4. CASE OnHold(e) /\ Named(e) = {} /\ Releasable(s, e)
    <3>1. ~Names(s, e)
      BY <2>4 DEF Names
    <3> QED BY <1>1, <2>4, <3>1
  <2>5. CASE OnHold(e) /\ ~(Named(e) = {} /\ Releasable(s, e))
    BY <1>1, <2>1, <2>5
  <2> QED BY <2>2, <2>3, <2>4, <2>5
<1>6. hold' \in [Environments -> Hold \cup {Nobody}]
  <2>1. hold' = [e \in Environments |-> hold'[e]]
    BY DEF Reconcile
  <2> QED BY <1>5, <2>1
<1> QED
  BY <1>5, <1>6 DEF Reconcile

LEMMA ReconcileShape ==
  ASSUME Shape, NEW s \in snapshots, Reconcile(s)
  PROVE  Shape'
<1>1. TypeOK
  BY DEF Shape
<1>2. clock' \in 0..MaxClock
  BY <1>1, StampStep DEF Reconcile
<1>3. cursor' \in [Targets -> 0..MaxClock]
  <2>1. s.observedAt \in 0..MaxClock
    BY <1>1, Typed
  <2> QED BY <1>1, <2>1 DEF TypeOK, Reconcile
<1>4. early' \subseteq CleanupId
  <2>1. \A e \in Environments : OnHold(e) => Cleanup(hold[e].target, e, hold[e].id) \in CleanupId
    BY <1>1, HoldParts DEF TypeOK, OnHold, CleanupId, Cleanup
  <2> QED BY <1>1, <2>1, ReconcileSteps DEF TypeOK
<1> QED
  BY <1>1, <1>2, <1>3, <1>4, ReconcileSteps DEF Shape, TypeOK, workerVars

LEMMA SnapshotLostShape ==
  ASSUME Shape, NEW s \in snapshots, SnapshotLost(s)
  PROVE  Shape'
BY DEF Shape, TypeOK, SnapshotLost, apiVars, workerVars

(* Every step keeps the types.                                                 *)
LEMMA ShapeStep == Shape /\ [Next]_vars => Shape'
<1> SUFFICES ASSUME Shape, [Next]_vars PROVE Shape'
  OBVIOUS
<1>1. ASSUME NEW e \in Environments, Ownership(e) PROVE Shape'
  BY <1>1, GrantShape, RevokeShape DEF Ownership
<1>2. CASE \E c \in DOMAIN cleanups : OwnerPurges(c)
  BY <1>2, PurgeShape
<1>3. CASE Pushing
  BY <1>3, PushCallShape, PushRecordShape, PushLostShape DEF Pushing
<1>4. CASE Working
  BY <1>4, LeaseShape, ClaimShape, WorkerShape, ReceiptShape DEF Working
<1>5. CASE Reconciling
  BY <1>5, SnapshotShape, ReconcileShape, SnapshotLostShape DEF Reconciling
<1>6. CASE UNCHANGED vars
  BY <1>6 DEF vars, Shape, TypeOK
<1> QED
  BY <1>1, <1>2, <1>3, <1>4, <1>5, <1>6 DEF Next

(* Type correctness of the ledger.                                             *)
THEOREM LedgerTypes == Spec => []TypeOK
<1>1. Shape => TypeOK
  BY DEF Shape
<1> QED
  BY <1>1, ShapeInit, ShapeStep, PTL DEF Spec
-----------------------------------------------------------------------------
(* What no step undoes: clean-ups stay, and what is over stays over; snapshots *)
(* are of the past or of now; claims stay on record.                           *)
Growing ==
  /\ \A c \in DOMAIN cleanups : c \in DOMAIN cleanups' /\ cleanups'[c] \in {cleanups[c], "purged"}
  /\ \A s \in snapshots' :
       \/ s \in snapshots
       \/ /\ clock' = clock + 1 /\ s.observedAt = clock'
          /\ s.rows = {c \in DOMAIN cleanups' : c.target = s.target /\ cleanups'[c] = "active"}
  /\ clock \in Nat /\ clock' \in Nat /\ clock <= clock'
  /\ \A k \in claims : \E m \in claims' : m.env = k.env /\ m.hold = k.hold
  /\ early \subseteq early'

LEMMA GrowingStep == Shape /\ [Next]_vars => Growing
<1> SUFFICES ASSUME Shape, [Next]_vars PROVE Growing
  OBVIOUS
<1> USE DEF Growing
<1>t. TypeOK /\ clock \in Nat
  BY AdmissionAssumption DEF Shape, TypeOK
<1>q. ASSUME UNCHANGED <<clock, cleanups, snapshots, claims, early>> PROVE Growing
  BY <1>t, <1>q
<1>s. ASSUME Stamp, UNCHANGED <<snapshots, claims>>, early \subseteq early',
             \A c \in DOMAIN cleanups : c \in DOMAIN cleanups' /\ cleanups'[c] = cleanups[c]
      PROVE  Growing
  BY <1>t, <1>s DEF Stamp
<1>1. ASSUME NEW e \in Environments, Ownership(e) PROVE Growing
  BY <1>1, <1>q DEF Ownership, Grant, Revoke, workerVars, snapshotVars
<1>2. ASSUME NEW c \in DOMAIN cleanups, OwnerPurges(c) PROVE Growing
  BY <1>2, <1>t DEF OwnerPurges, TypeOK, workerVars, snapshotVars
<1>3. ASSUME NEW p \in pushes, PushCall(p) PROVE Growing
  <2>1. PICK outcome \in Outcomes :
          OwnerMaterialises(p.hold.target, p.env, p.hold.id, p.hold.tombstone, outcome)
    BY <1>3 DEF PushCall
  <2>2. \A c \in DOMAIN cleanups : c \in DOMAIN cleanups' /\ cleanups'[c] = cleanups[c]
    BY <1>t, <2>1, Typed, HoldParts, OwnerAnswers
  <2> QED BY <1>3, <1>s, <2>2 DEF PushCall, workerVars, snapshotVars
<1>4. ASSUME NEW p \in pushes, PushRecord(p) \/ PushLost(p) PROVE Growing
  BY <1>4, <1>t, <1>q, <1>s DEF PushRecord, PushLost, workerVars, snapshotVars
<1>5. ASSUME NEW e \in Environments, LeaseExpires(e) PROVE Growing
  <2>1. \A c \in claims : \E k \in claims' : k.env = c.env /\ k.hold = c.hold
    BY <1>5, <1>t, LeaseSteps
  <2>2. UNCHANGED <<clock, cleanups, snapshots, early>>
    BY <1>5 DEF LeaseExpires, snapshotVars
  <2> QED BY <1>t, <2>1, <2>2
<1>6. ASSUME NEW e \in Environments, NEW t \in Targets, Claim(t, e) PROVE Growing
  <2>1. claims \subseteq claims' /\ UNCHANGED <<clock, cleanups, snapshots, early>>
    BY <1>6 DEF Claim, snapshotVars
  <2> QED BY <1>t, <2>1
<1>7. ASSUME NEW k \in claims, WorkerMaterialises(k) PROVE Growing
  <2>1. PICK outcome \in Outcomes :
          OwnerMaterialises(k.hold.target, k.env, k.hold.id, k.hold.tombstone, outcome)
    BY <1>7 DEF WorkerMaterialises
  <2>2. \A c \in DOMAIN cleanups : c \in DOMAIN cleanups' /\ cleanups'[c] = cleanups[c]
    BY <1>t, <2>1, Typed, HoldParts, OwnerAnswers
  <2> QED BY <1>7, <1>s, <2>2 DEF WorkerMaterialises, snapshotVars
<1>8. ASSUME NEW r \in receipts, RecordReceipt(r) PROVE Growing
  BY <1>8, <1>q DEF RecordReceipt, snapshotVars
<1>9. ASSUME NEW t \in Targets, ReadSnapshot(t) PROVE Growing
  BY <1>9, <1>t DEF ReadSnapshot, Stamp, workerVars
<1>10. ASSUME NEW s \in snapshots, Reconcile(s) \/ SnapshotLost(s) PROVE Growing
  BY <1>10, <1>t, <1>s DEF Reconcile, SnapshotLost, Stamp, workerVars
<1>11. CASE UNCHANGED vars
  BY <1>11, <1>q DEF vars
<1> QED
  BY <1>1, <1>2, <1>3, <1>4, <1>5, <1>6, <1>7, <1>8, <1>9, <1>10, <1>11
     DEF Next, Pushing, Working, Reconciling

LEMMA HoldsStay ==
  ASSUME Growing
  PROVE  /\ \A t, e, id : Begun(t, e, id) => Begun(t, e, id)'
         /\ \A e, i : Claimed(e, i) => Claimed(e, i)'
         /\ \A c : StoodIn(c) => StoodIn(c)'
         /\ \A c : Accounted(c) => Accounted(c)'
         /\ \A t, e : Unledgered(t, e) => Unledgered(t, e)'
<1>1. \A t, e, id : Begun(t, e, id) => Begun(t, e, id)'
  BY DEF Growing, Begun, Cleanup
<1>2. \A e, i : Claimed(e, i) => Claimed(e, i)'
  BY DEF Growing, Claimed
<1>3. \A c : StoodIn(c) => StoodIn(c)'
  BY DEF Growing, StoodIn, Cleanup, Unledgered
<1>4. \A t, e : Unledgered(t, e) => Unledgered(t, e)'
  BY DEF Growing, Cleanup, Unledgered
<1> QED
  BY <1>1, <1>2, <1>3, <1>4 DEF Accounted, Growing

LEMMA SeenCleanupStays ==
  ASSUME Growing, LedgerRecorded, TypeOK, NEW c \in DOMAIN cleanups, NEW at \in Int, SeenSince(c, at)
  PROVE  SeenSince(c, at)'
<1> SUFFICES ASSUME NEW s \in snapshots', s.target = c.target, at <= s.observedAt, c \notin s.rows
             PROVE  /\ cleanups'[c] = "purged"
                    /\ \A z \in snapshots' : z.target = c.target /\ s.observedAt <= z.observedAt => c \notin z.rows
  BY DEF SeenSince
<1>1. c \in DOMAIN cleanups' /\ cleanups[c] \in {"active", "purged"} /\ cleanups'[c] \in {cleanups[c], "purged"}
  BY DEF Growing, TypeOK
<1>2. cleanups'[c] = "purged"
  <2>1. CASE s \in snapshots
    BY <1>1, <2>1 DEF SeenSince
  <2>2. CASE s \notin snapshots
    BY <1>1, <2>2 DEF Growing
  <2> QED BY <2>1, <2>2
<1>3. ASSUME NEW z \in snapshots', z.target = c.target, s.observedAt <= z.observedAt PROVE c \notin z.rows
  <2>1. CASE z \notin snapshots
    BY <1>2, <2>1 DEF Growing
  <2>2. CASE z \in snapshots /\ s \in snapshots
    BY <1>3, <2>2 DEF SeenSince
  <2>3. CASE z \in snapshots /\ s \notin snapshots
    <3>1. z.observedAt \in Int /\ z.observedAt <= clock
      BY <2>3, Typed DEF LedgerRecorded
    <3> QED BY <1>3, <2>3, <3>1 DEF Growing
  <2> QED BY <2>1, <2>2, <2>3
<1> QED
  BY <1>2, <1>3

(* Nothing was read after now.                                                 *)
LEMMA SeenNow ==
  ASSUME LedgerRecorded, TypeOK, Stamp, UNCHANGED snapshots, NEW c, NEW at, at = clock'
  PROVE  SeenSince(c, at)'
<1>1. \A s \in snapshots : s.observedAt \in Int /\ s.observedAt <= clock
  BY Typed DEF LedgerRecorded
<1>2. at = clock + 1 /\ clock \in Nat
  BY StampStep
<1> QED
  BY <1>1, <1>2 DEF SeenSince

LEMMA OverStays ==
  ASSUME Growing, LedgerRecorded, TypeOK, TypeOK', NEW c \in DOMAIN cleanups, CleanupOver(c),
         cursor[c.target] <= cursor'[c.target]
  PROVE  CleanupOver(c)'
<1>1. c \in DOMAIN cleanups' /\ cleanups'[c] = "purged"
  BY DEF Growing, CleanupOver
<1>2. c.target \in Targets
  BY Typed DEF CleanupId
<1>3. cursor[c.target] \in Int /\ cursor'[c.target] \in Int
  BY <1>2 DEF TypeOK
<1>4. ASSUME NEW s \in snapshots', s.target = c.target, s.observedAt > cursor'[c.target]
      PROVE  c \notin s.rows
  <2>1. CASE s \in snapshots
    <3>1. s.observedAt \in Int
      BY <2>1, Typed
    <3> QED BY <1>3, <1>4, <2>1, <3>1 DEF CleanupOver
  <2>2. CASE s \notin snapshots
    BY <1>1, <2>2 DEF Growing
  <2> QED BY <2>1, <2>2
<1> QED
  BY <1>1, <1>4 DEF CleanupOver
-----------------------------------------------------------------------------
(* What is kept where a step leaves what the conjunct is about.                *)
LEMMA RecordedKept ==
  ASSUME LedgerRecorded, Growing, TypeOK, TypeOK',
         \A r \in receipts' : r \in receipts \/ r.at <= clock',
         \A c \in DOMAIN cleanups' \ DOMAIN cleanups : \A d \in DOMAIN cleanups' :
           c.env = d.env /\ c.id = d.id => c.target = d.target
  PROVE  LedgerRecorded'
<1>1. ASSUME NEW s \in snapshots'
      PROVE  s.observedAt <= clock' /\ \A c \in s.rows : c \in DOMAIN cleanups' /\ c.target = s.target
  <2>1. CASE s \in snapshots
    <3>1. s.observedAt \in Int /\ s.observedAt <= clock
      BY <2>1, Typed DEF LedgerRecorded
    <3>2. s.observedAt <= clock'
      BY <3>1 DEF Growing
    <3> QED BY <2>1, <3>2 DEF LedgerRecorded, Growing
  <2>2. CASE s \notin snapshots
    BY <2>2 DEF Growing
  <2> QED BY <2>1, <2>2
<1>2. ASSUME NEW r \in receipts' PROVE r.at <= clock'
  <2>1. CASE r \in receipts
    <3>1. r.at \in Int /\ r.at <= clock
      BY <2>1, Typed DEF LedgerRecorded
    <3> QED BY <3>1 DEF Growing
  <2> QED BY <2>1
<1>3. \A c, d \in DOMAIN cleanups' : c.env = d.env /\ c.id = d.id => c.target = d.target
  BY DEF LedgerRecorded
<1> QED
  BY <1>1, <1>2, <1>3 DEF LedgerRecorded

(* Admissions are numbered one after the other, and known of one deployment.   *)
LEMMA AdmissionsKept ==
  ASSUME Admissions, TypeOK, TypeOK', admitted <= admitted',
         \A e \in Environments, i \in Ids, t \in Targets : Known(e, <<"admitted", i>>, t)' =>
           \/ Known(e, <<"admitted", i>>, t)
           \/ i = admitted + 1 /\ admitted' = admitted + 1 /\ hold'[e].target = t,
         \A c \in DOMAIN cleanups' : c \in DOMAIN cleanups \/ Known(c.env, <<"admitted", c.id>>, c.target)
  PROVE  Admissions'
<1>1. admitted \in Nat /\ admitted' \in Nat
  BY DEF TypeOK, Ids
<1>2. \A e \in Environments, i \in Ids, t \in Targets : Known(e, <<"admitted", i>>, t) => i \in 1..admitted
  BY DEF Admissions
<1>3. \A e \in Environments, i \in Ids, t, u \in Targets :
        Known(e, <<"admitted", i>>, t) /\ Known(e, <<"admitted", i>>, u) => t = u
  BY DEF Admissions
<1>4. ASSUME NEW e \in Environments, NEW i \in Ids, NEW t \in Targets, NEW u \in Targets,
             Known(e, <<"admitted", i>>, t)'
      PROVE  i \in 1..admitted' /\ (Known(e, <<"admitted", i>>, u)' => t = u)
  <2>1. i \in 1..admitted'
    BY <1>1, <1>2, <1>4
  <2>2. ASSUME Known(e, <<"admitted", i>>, u)' PROVE t = u
    <3>1. CASE Known(e, <<"admitted", i>>, t) /\ Known(e, <<"admitted", i>>, u)
      BY <1>3, <3>1
    <3>2. CASE ~Known(e, <<"admitted", i>>, t)
      <4>1. i = admitted + 1 /\ hold'[e].target = t
        BY <1>4, <3>2
      <4>2. ~Known(e, <<"admitted", i>>, u)
        BY <1>1, <1>2, <4>1
      <4> QED BY <2>2, <4>1, <4>2
    <3>3. CASE ~Known(e, <<"admitted", i>>, u)
      <4>1. i = admitted + 1 /\ hold'[e].target = u
        BY <2>2, <3>3
      <4>2. ~Known(e, <<"admitted", i>>, t)
        BY <1>1, <1>2, <4>1
      <4> QED BY <1>4, <4>1, <4>2
    <3> QED BY <3>1, <3>2, <3>3
  <2> QED BY <2>1, <2>2
<1>5. ASSUME NEW c \in DOMAIN cleanups', c.id # 0
      PROVE  c.id <= admitted' /\ \A t \in Targets : Known(c.env, <<"admitted", c.id>>, t)' => t = c.target
  <2>1. c.env \in Environments /\ c.id \in Ids /\ c.target \in Targets
    BY DEF TypeOK, CleanupId
  <2>2. c.id <= admitted
    <3>1. CASE c \in DOMAIN cleanups
      BY <1>5, <3>1 DEF Admissions
    <3>2. CASE Known(c.env, <<"admitted", c.id>>, c.target)
      <4>1. c.id \in 1..admitted
        BY <1>2, <2>1, <3>2
      <4> QED BY <1>1, <4>1
    <3> QED BY <3>1, <3>2
  <2>3. ASSUME NEW t \in Targets, Known(c.env, <<"admitted", c.id>>, t) PROVE t = c.target
    <3>1. CASE c \in DOMAIN cleanups
      BY <1>5, <2>3, <3>1 DEF Admissions
    <3>2. CASE Known(c.env, <<"admitted", c.id>>, c.target)
      BY <1>3, <2>1, <2>3, <3>2
    <3> QED BY <3>1, <3>2
  <2>4. ASSUME NEW t \in Targets, Known(c.env, <<"admitted", c.id>>, t)' PROVE t = c.target
    <3>1. c.id # admitted + 1
      BY <1>1, <2>1, <2>2 DEF Ids
    <3> QED BY <2>1, <2>3, <2>4, <3>1
  <2>5. c.id <= admitted'
    BY <1>1, <2>1, <2>2 DEF Ids
  <2> QED BY <2>4, <2>5
<1> QED
  BY <1>4, <1>5 DEF Admissions

(* What was seen of a hold, or carried by a receipt, still is.                 *)
LEMMA HoldStillSeen ==
  ASSUME Ledger, Growing, NEW e \in Environments, OnHold(e), hold[e].at # Pending,
         hold'[e].target = hold[e].target, hold'[e].id = hold[e].id, hold'[e].at = hold[e].at
  PROVE  SeenSince(Cleanup(hold[e].target, e, hold[e].id), hold[e].at + Lag)'
<1> DEFINE c == Cleanup(hold[e].target, e, hold[e].id)
           at == hold[e].at + Lag
<1>1. TypeOK /\ LedgerRecorded
  BY DEF Ledger, Shape
<1>2. c \in DOMAIN cleanups /\ at \in Int /\ SeenSince(c, at)
  BY <1>1, Typed, HoldParts, AdmissionAssumption DEF Ledger, Entries, Materialised, Begun
<1>3. PICK d \in DOMAIN cleanups, x \in Int : d = c /\ x = at
  BY <1>2
<1>4. SeenSince(d, x)'
  BY <1>1, <1>2, <1>3, SeenCleanupStays
<1>5. hold'[e].at + Lag = x /\ Cleanup(hold'[e].target, e, hold'[e].id) = d
  BY <1>3
<1> HIDE DEF c, at
<1> QED
  BY <1>4, <1>5 DEF SeenSince, Cleanup

LEMMA ReceiptStays ==
  ASSUME Ledger, Growing, NEW r \in receipts
  PROVE  /\ Admits(r.claim)
         /\ r.outcome # BindingMissing =>
              /\ Begun(r.claim.target, r.env, r.outcome)'
              /\ SeenSince(Cleanup(r.claim.target, r.env, r.outcome), r.at)'
<1>1. TypeOK /\ LedgerRecorded
  BY DEF Ledger, Shape
<1>2. ASSUME r.outcome # BindingMissing
      PROVE  /\ Begun(r.claim.target, r.env, r.outcome)'
             /\ SeenSince(Cleanup(r.claim.target, r.env, r.outcome), r.at)'
  <2>1. /\ r.at \in Int /\ Begun(r.claim.target, r.env, r.outcome)
        /\ SeenSince(Cleanup(r.claim.target, r.env, r.outcome), r.at)
    BY <1>1, <1>2, Typed DEF Ledger, Entries
  <2> QED BY <1>1, <2>1, HoldsStay, SeenCleanupStays DEF Begun
<1> QED
  BY <1>2 DEF Ledger, Entries, Admits

LEMMA AdoptionStillAccounted ==
  ASSUME Ledger, Growing, NEW e \in Environments, OnHold(e), hold[e].row[1] = "adopted",
         hold'[e].target = hold[e].target, hold'[e].id = hold[e].id
  PROVE  Accounted(Cleanup(hold[e].target, e, hold[e].id))'
<1>1. PICK c : c = Cleanup(hold[e].target, e, hold[e].id)
  OBVIOUS
<1>2. Accounted(c)
  BY <1>1 DEF Ledger, NoHoldComesBack
<1>3. Accounted(c)' /\ c = Cleanup(hold'[e].target, e, hold'[e].id)
  BY <1>1, <1>2, HoldsStay
<1> QED
  BY <1>3 DEF Accounted, StoodIn, Cleanup, Unledgered

(* What runs, runs under its hold, while holds stand and only what may be      *)
(* begun is begun.                                                             *)
LEMMA RunsKept ==
  ASSUME Ledger, Shape', Growing,
         \A t \in Targets : cursor[t] <= cursor'[t],
         \A e \in Environments, i \in Ids : Stands(e, i) => Stands(e, i)',
         \A c \in DOMAIN cleanups' \ DOMAIN cleanups : MayBegin(c.target, c.env, c.id) /\ ~Begun(c.target, c.env, c.id)
  PROVE  Runs'
<1> SUFFICES ASSUME NEW c \in DOMAIN cleanups', ~Accounted(c)'
             PROVE  Stands(c.env, c.id)' \/ CleanupOver(c)'
  BY DEF Runs
<1>t. TypeOK /\ TypeOK'
  BY DEF Ledger, Shape
<1>c. c.target \in Targets /\ c.env \in Environments /\ c.id \in Ids /\ c = Cleanup(c.target, c.env, c.id)
  BY <1>t DEF TypeOK, CleanupId, Cleanup
<1>a. ~Accounted(c) /\ ~StoodIn(c)
  BY HoldsStay DEF Accounted
<1>1. CASE c \in DOMAIN cleanups
  <2>1. CleanupOver(c) => CleanupOver(c)'
    BY <1>1, <1>c, <1>t, OverStays DEF Ledger
  <2> QED BY <1>1, <1>a, <1>c, <2>1 DEF Ledger, Runs
<1>2. CASE c \notin DOMAIN cleanups
  BY <1>2, <1>a, <1>c DEF MayBegin
<1> QED
  BY <1>1, <1>2

(* A hold names the same clean-up; where it is newly noted as begun, it was    *)
(* seen to be.  A claim on record is an old one, or taken from a pending hold. *)
Noticed(e) ==
  /\ hold'[e].at # Pending /\ Begun(hold[e].target, e, hold[e].id)
  /\ SeenSince(Cleanup(hold[e].target, e, hold[e].id), hold[e].at + Lag)'

Same(e) ==
  \/ hold'[e] = hold[e]
  \/ /\ OnHold(e) /\ hold'[e] # Nobody
     /\ hold'[e].target = hold[e].target /\ hold'[e].row = hold[e].row /\ hold'[e].id = hold[e].id
     /\ hold'[e].at = hold[e].at \/ Noticed(e)

Taken(k) ==
  /\ k.env \in Environments /\ OnHold(k.env) /\ hold[k.env].at = Pending
  /\ k.hold.target = hold[k.env].target /\ k.hold.row = hold[k.env].row /\ k.hold.id = hold[k.env].id

LedgerQuiet ==
  /\ \A e \in Environments : Same(e)
  /\ pushes' \subseteq pushes
  /\ \A k \in claims' : (\E m \in claims : k.env = m.env /\ k.hold = m.hold) \/ Taken(k)
  /\ DOMAIN cleanups' = DOMAIN cleanups
  /\ UNCHANGED <<receipts, admitted, cursor, early>>

LEMMA QuietKeeps ==
  ASSUME Ledger, Shape', Growing, LedgerQuiet
  PROVE  /\ LedgerRecorded' /\ Admissions' /\ Entries' /\ Materialised'
         /\ Begins' /\ StandIns' /\ Runs' /\ NoHoldComesBack'
<1>t. TypeOK /\ TypeOK'
  BY DEF Ledger, Shape
<1>h. \A e \in Environments : /\ (OnHold(e)' <=> OnHold(e))
                              /\ OnHold(e) => /\ hold'[e].target = hold[e].target
                                              /\ hold'[e].row = hold[e].row
                                              /\ hold'[e].id = hold[e].id
                                              /\ hold'[e].at = hold[e].at \/ Noticed(e)
  BY DEF LedgerQuiet, Same, OnHold
<1>m. /\ \A t, e, id : Begun(t, e, id) => Begun(t, e, id)'
      /\ \A t, e, id : Begun(t, e, id)' => Begun(t, e, id)
      /\ \A e, i : Claimed(e, i) => Claimed(e, i)'
      /\ \A c : StoodIn(c) => StoodIn(c)'
      /\ \A c : Accounted(c) => Accounted(c)'
      /\ \A t, e : Unledgered(t, e) => Unledgered(t, e)'
  BY HoldsStay DEF LedgerQuiet, Begun, Cleanup
<1>s. \A e \in Environments : \A i : Stands(e, i)' <=> Stands(e, i)
  BY <1>h DEF Stands
<1>1. LedgerRecorded'
  BY <1>t, RecordedKept DEF Ledger, LedgerQuiet
<1>2. Admissions'
  <2>1. ASSUME NEW e \in Environments, NEW row, NEW t, Known(e, row, t)' PROVE Known(e, row, t)
    BY <1>h, <2>1 DEF Known, LedgerQuiet, Taken
  <2>2. admitted' = admitted /\ admitted \in Int
    BY <1>t DEF LedgerQuiet, TypeOK, Ids
  <2> QED BY <1>t, <2>1, <2>2, AdmissionsKept DEF Ledger, LedgerQuiet
<1>3. Entries'
  <2>1. ASSUME NEW e \in Environments, OnHold(e)'
        PROVE  (/\ hold[e].row[1] = "adopted" => Adopts(hold[e], e)
                /\ hold[e].at = Pending => Admits(hold[e])
                /\ hold[e].at # Pending => Begun(hold[e].target, e, hold[e].id))'
    BY <1>h, <1>m, <2>1 DEF Ledger, Entries, Adopts, Admits, Noticed
  <2>2. ASSUME NEW p \in pushes'
        PROVE  (/\ Admits(p.hold) \/ (Adopts(p.hold, p.env) /\ p.outcome \in {Nobody, p.hold.id})
                /\ p.outcome # Nobody => Begun(p.hold.target, p.env, p.outcome))'
    BY <1>m, <2>2 DEF Ledger, Entries, Adopts, Admits, LedgerQuiet
  <2>3. \A k \in claims' : Admits(k.hold)
    BY DEF Ledger, Entries, Admits, LedgerQuiet, Taken
  <2>4. ASSUME NEW r \in receipts'
        PROVE  (/\ Admits(r.claim)
                /\ r.outcome # BindingMissing =>
                     /\ Begun(r.claim.target, r.env, r.outcome)
                     /\ SeenSince(Cleanup(r.claim.target, r.env, r.outcome), r.at))'
    <3>1. r \in receipts
      BY DEF LedgerQuiet
    <3> QED BY <3>1, ReceiptStays DEF Admits
  <2> QED BY <2>1, <2>2, <2>3, <2>4 DEF Entries, Admits
<1>4. Materialised'
  BY <1>h, HoldStillSeen DEF Materialised, Noticed
<1>5. Begins'
  <2>1. \A t, i : \A e \in Environments : MayBegin(t, e, i) => MayBegin(t, e, i)'
    BY <1>m, <1>s DEF MayBegin
  <2>2. \A p \in pushes' : p.outcome = Nobody /\ Admits(p.hold) => MayBegin(p.hold.target, p.env, p.hold.id)'
    BY <1>t, <2>1, Typed DEF Ledger, Begins, LedgerQuiet
  <2>3. ASSUME NEW k \in claims' PROVE MayBegin(k.hold.target, k.env, k.hold.id)'
    <3>1. CASE \E m \in claims : k.env = m.env /\ k.hold = m.hold
      BY <1>t, <2>1, <3>1, Typed DEF Ledger, Begins
    <3>2. CASE Taken(k)
      <4>1. Stands(k.env, k.hold.id)
        BY <3>2 DEF Ledger, Entries, Admits, Stands, Taken
      <4> QED BY <1>s, <3>2, <4>1 DEF MayBegin, Taken
    <3> QED BY <3>1, <3>2 DEF LedgerQuiet
  <2> QED BY <2>2, <2>3 DEF Begins, Admits
<1>6. StandIns'
  <2>1. \A t, e, i : Replaced(t, e, i) => Replaced(t, e, i)'
    BY <1>m DEF Replaced
  <2>2. \A p, q \in pushes' : p.env = q.env /\ Admits(p.hold) /\ q.hold.row = p.hold.row => p = q
    BY DEF Ledger, StandIns, LedgerQuiet
  <2>3. \A p \in pushes' : Admits(p.hold) /\ p.outcome \notin {Nobody, p.hold.id} =>
          Replaced(p.hold.target, p.env, p.hold.id)'
    BY <2>1 DEF Ledger, StandIns, LedgerQuiet
  <2>4. ASSUME NEW e \in Environments, NEW i \in Ids, Stands(e, i)', hold'[e].id # i
        PROVE  (/\ Replaced(hold[e].target, e, i)
                /\ \A p \in pushes : p.env = e => p.hold.row # hold[e].row)'
    <3>1. OnHold(e) /\ Stands(e, i) /\ hold[e].id # i
      BY <1>h, <1>s, <2>4 DEF Stands
    <3>2. PICK t : t = hold[e].target
      OBVIOUS
    <3>3. Replaced(t, e, i) /\ \A p \in pushes : p.env = e => p.hold.row # hold[e].row
      BY <3>1, <3>2 DEF Ledger, StandIns
    <3>4. Replaced(t, e, i)'
      BY <2>1, <3>3
    <3>5. hold'[e].target = t /\ hold'[e].row = hold[e].row
      BY <1>h, <3>1, <3>2
    <3> QED BY <3>3, <3>4, <3>5 DEF LedgerQuiet, Replaced, Begun, Claimed, Unledgered
  <2> QED BY <2>2, <2>3, <2>4 DEF StandIns, Admits
<1>7. Runs'
  <2>1. \A t \in Targets : cursor[t] <= cursor'[t]
    BY <1>t DEF TypeOK, LedgerQuiet
  <2> QED BY <1>s, <2>1, RunsKept DEF LedgerQuiet
<1>8. NoHoldComesBack'
  BY <1>h, AdoptionStillAccounted DEF NoHoldComesBack
<1> QED
  BY <1>1, <1>2, <1>3, <1>4, <1>5, <1>6, <1>7, <1>8
(* Steps that leave what is written of holds as it is.                         *)
LEMMA OwnersKept ==
  ASSUME Ledger, UNCHANGED scope, \A e \in Environments : Same(e)
  PROVE  OwnedOrHeld'
BY DEF Ledger, OwnedOrHeld, Same, OnHold

LEMMA GrantKeeps ==
  ASSUME Ledger, Shape', Growing, NEW e \in Environments, NEW u \in Customers, Grant(e, u)
  PROVE  Ledger'
<1>1. LedgerQuiet
  BY DEF Grant, LedgerQuiet, Same, workerVars, snapshotVars
<1>2. OwnedOrHeld'
  <2>1. ~OnHold(e) /\ UNCHANGED hold /\ \A x \in Environments : x # e => scope'[x] = scope[x]
    BY DEF Grant, Ledger, Shape, TypeOK
  <2> QED BY <2>1 DEF Ledger, OwnedOrHeld, OnHold
<1> QED
  BY <1>1, <1>2, QuietKeeps DEF Ledger

LEMMA PurgeKeeps ==
  ASSUME Ledger, Shape', Growing, NEW c \in DOMAIN cleanups, OwnerPurges(c)
  PROVE  Ledger'
<1>1. LedgerQuiet /\ OwnedOrHeld'
  BY OwnersKept DEF OwnerPurges, LedgerQuiet, Same, apiVars, workerVars, snapshotVars
<1> QED
  BY <1>1, QuietKeeps DEF Ledger

LEMMA PushLostKeeps ==
  ASSUME Ledger, Shape', Growing, NEW p \in pushes, PushLost(p)
  PROVE  Ledger'
<1>1. LedgerQuiet /\ OwnedOrHeld'
  BY OwnersKept DEF PushLost, LedgerQuiet, Same, apiVars, workerVars, snapshotVars
<1> QED
  BY <1>1, QuietKeeps DEF Ledger

LEMMA LeaseKeeps ==
  ASSUME Ledger, Shape', Growing, NEW e \in Environments, LeaseExpires(e)
  PROVE  Ledger'
<1>t. TypeOK
  BY DEF Ledger, Shape
<1>1. \A x \in Environments : Same(x)
  <2>1. /\ OnHold(e) /\ hold[e] \in Hold /\ hold'[e] # Nobody
        /\ hold'[e] = [hold[e] EXCEPT !.lease = FALSE]
        /\ \A x \in Environments : x # e => hold'[x] = hold[x]
    BY <1>t, LeaseSteps
  <2>2. /\ hold'[e].target = hold[e].target /\ hold'[e].row = hold[e].row
        /\ hold'[e].id = hold[e].id /\ hold'[e].at = hold[e].at
    BY <2>1 DEF Hold
  <2> QED BY <2>1, <2>2 DEF Same
<1>2. \A k \in claims' : \E m \in claims : k.env = m.env /\ k.hold = m.hold
  BY <1>t, LeaseSteps
<1>3. LedgerQuiet /\ OwnedOrHeld'
  BY <1>1, <1>2, OwnersKept DEF LeaseExpires, LedgerQuiet, snapshotVars
<1> QED
  BY <1>3, QuietKeeps DEF Ledger

LEMMA ReadKeeps ==
  ASSUME Ledger, Shape', Growing, NEW t \in Targets, ReadSnapshot(t)
  PROVE  Ledger'
<1>1. LedgerQuiet /\ OwnedOrHeld'
  BY OwnersKept DEF ReadSnapshot, LedgerQuiet, Same, apiVars, workerVars
<1> QED
  BY <1>1, QuietKeeps DEF Ledger

LEMMA SnapshotLostKeeps ==
  ASSUME Ledger, Shape', Growing, NEW s \in snapshots, SnapshotLost(s)
  PROVE  Ledger'
<1>1. LedgerQuiet /\ OwnedOrHeld'
  BY OwnersKept DEF SnapshotLost, LedgerQuiet, Same, apiVars, workerVars
<1> QED
  BY <1>1, QuietKeeps DEF Ledger

LEMMA StutterKeeps ==
  ASSUME Ledger, Shape', Growing, UNCHANGED vars
  PROVE  Ledger'
<1>1. LedgerQuiet /\ OwnedOrHeld'
  BY OwnersKept DEF vars, LedgerQuiet, Same
<1> QED
  BY <1>1, QuietKeeps DEF Ledger
-----------------------------------------------------------------------------
(* A hold is taken out: a new admission, or the hold that stood is adopted.    *)
LEMMA RevokeKeeps ==
  ASSUME Ledger, Shape', Growing, NEW e \in Environments, NEW t \in Targets,
         NEW tombstone \in BOOLEAN, Revoke(t, e, tombstone)
  PROVE  Ledger'
<1> DEFINE q == Push(e, hold'[e])
<1>t. TypeOK /\ TypeOK' /\ admitted \in Nat
  BY DEF Ledger, Shape, TypeOK, Ids
<1>r. /\ hold'[e] \in Hold /\ hold'[e] # Nobody /\ hold'[e].target = t
      /\ \A x \in Environments : x # e => hold'[x] = hold[x]
      /\ \/ OnHold(e) /\ UNCHANGED <<hold, admitted>>
         \/ /\ ~OnHold(e)
            /\ admitted' = admitted + 1 /\ admitted' \in Ids
            /\ hold'[e] = NewHold(t, admitted', tombstone)
      /\ pushes' = pushes \cup {q}
      /\ scope[e] # Nobody /\ scope' = [scope EXCEPT ![e] = Nobody]
      /\ UNCHANGED <<clock, cleanups, claims, receipts, snapshots, cursor, early>>
  BY <1>t, RevokeSteps DEF workerVars, snapshotVars
<1>q. q.env = e /\ q.hold = hold'[e] /\ q.outcome = Nobody
  BY DEF Push
<1> HIDE DEF q
<1>o. OnHold(e) => /\ hold[e].row[1] = "adopted" /\ Adopts(hold[e], e)
                   /\ hold[e].row = <<"adopted", hold[e].id>> /\ hold[e].at # Pending
  <2> SUFFICES ASSUME OnHold(e) PROVE /\ hold[e].row[1] = "adopted" /\ Adopts(hold[e], e)
                                      /\ hold[e].row = <<"adopted", hold[e].id>> /\ hold[e].at # Pending
    OBVIOUS
  <2>1. hold[e].row[1] = "adopted"
    BY <1>r DEF Ledger, OwnedOrHeld
  <2>2. Adopts(hold[e], e)
    BY <2>1 DEF Ledger, Entries
  <2>3. ~Admits(hold[e])
    BY <2>1 DEF Admits
  <2> QED BY <2>1, <2>2, <2>3 DEF Ledger, Entries, Adopts
<1>n. ~OnHold(e) => /\ hold'[e].row = <<"admitted", admitted'>> /\ hold'[e].id = admitted'
                    /\ hold'[e].at = Pending /\ admitted' = admitted + 1
  BY <1>r DEF NewHold
<1>m. /\ \A d, x, id : Begun(d, x, id)' <=> Begun(d, x, id)
      /\ \A x, i : Claimed(x, i)' <=> Claimed(x, i)
      /\ \A c : StoodIn(c)' <=> StoodIn(c)
      /\ \A c : Accounted(c)' <=> Accounted(c)
      /\ \A c, at : SeenSince(c, at)' <=> SeenSince(c, at)
      /\ \A c : CleanupOver(c)' <=> CleanupOver(c)
      /\ \A d, x : Unledgered(d, x)' <=> Unledgered(d, x)
  BY <1>r DEF Begun, Claimed, StoodIn, Accounted, SeenSince, CleanupOver, Cleanup, Unledgered
<1>s. \A x \in Environments : \A i : Stands(x, i) => Stands(x, i)'
  <2> SUFFICES ASSUME NEW x \in Environments, NEW i, Stands(x, i) PROVE hold'[x] = hold[x]
    BY DEF Stands, OnHold
  <2>1. CASE x = e
    BY <1>o, <1>r, <2>1 DEF Stands
  <2> QED BY <1>r, <2>1
<1>a. admitted <= admitted' /\ admitted' \in Nat
  BY <1>r, <1>t
<1>1. LedgerRecorded'
  BY <1>r, <1>t, RecordedKept DEF Ledger
<1>2. Admissions'
  <2>1. ASSUME NEW x \in Environments, NEW i \in Ids, NEW d \in Targets, Known(x, <<"admitted", i>>, d)'
        PROVE  \/ Known(x, <<"admitted", i>>, d)
               \/ i = admitted + 1 /\ admitted' = admitted + 1 /\ hold'[x].target = d
    <3>1. CASE OnHold(x)' /\ hold'[x].row = <<"admitted", i>> /\ hold'[x].target = d
      <4>1. CASE x # e
        BY <1>r, <3>1, <4>1 DEF Known, OnHold
      <4>2. CASE x = e /\ OnHold(e)
        BY <1>r, <3>1, <4>2 DEF Known, OnHold
      <4>3. CASE x = e /\ ~OnHold(e)
        BY <1>n, <3>1, <4>3
      <4> QED BY <4>1, <4>2, <4>3
    <3>2. CASE \E p \in pushes' : p.env = x /\ p.hold.row = <<"admitted", i>> /\ p.hold.target = d
      <4>1. PICK p \in pushes' : p.env = x /\ p.hold.row = <<"admitted", i>> /\ p.hold.target = d
        BY <3>2
      <4>2. CASE p \in pushes
        BY <4>1, <4>2 DEF Known
      <4>3. CASE p = q
        BY <1>n, <1>o, <1>q, <1>r, <4>1, <4>3
      <4> QED BY <1>r, <4>2, <4>3
    <3> QED BY <1>r, <2>1, <3>1, <3>2 DEF Known
  <2> QED BY <1>a, <1>r, <1>t, <2>1, AdmissionsKept DEF Ledger
<1>3. Entries'
  <2>1. ASSUME NEW x \in Environments, OnHold(x)'
        PROVE  (/\ hold[x].row[1] = "adopted" => Adopts(hold[x], x)
                /\ hold[x].at = Pending => Admits(hold[x])
                /\ hold[x].at # Pending => Begun(hold[x].target, x, hold[x].id))'
    <3>1. CASE x # e \/ OnHold(e)
      <4>1. hold'[x] = hold[x] /\ OnHold(x)
        BY <1>r, <2>1, <3>1 DEF OnHold
      <4> QED BY <1>m, <4>1 DEF Ledger, Entries, Adopts, Admits
    <3>2. CASE x = e /\ ~OnHold(e)
      BY <1>n, <3>2 DEF Adopts, Admits
    <3> QED BY <3>1, <3>2
  <2>2. ASSUME NEW p \in pushes'
        PROVE  (/\ Admits(p.hold) \/ (Adopts(p.hold, p.env) /\ p.outcome \in {Nobody, p.hold.id})
                /\ p.outcome # Nobody => Begun(p.hold.target, p.env, p.outcome))'
    <3>1. CASE p \in pushes
      BY <1>m, <3>1 DEF Ledger, Entries, Adopts, Admits
    <3>2. CASE p = q
      <4>1. CASE OnHold(e)
        BY <1>m, <1>o, <1>q, <1>r, <3>2, <4>1 DEF Adopts
      <4>2. CASE ~OnHold(e)
        BY <1>n, <1>q, <3>2, <4>2 DEF Admits
      <4> QED BY <4>1, <4>2
    <3> QED BY <1>r, <3>1, <3>2
  <2> QED BY <1>m, <1>r, <2>1, <2>2 DEF Ledger, Entries, Admits
<1>4. Materialised'
  <2> SUFFICES ASSUME NEW x \in Environments, OnHold(x)', hold'[x].at # Pending
               PROVE  SeenSince(Cleanup(hold[x].target, x, hold[x].id), hold[x].at + Lag)'
    BY DEF Materialised
  <2>1. hold'[x] = hold[x] /\ OnHold(x)
    BY <1>n, <1>r DEF OnHold
  <2> QED BY <1>r, <2>1 DEF Ledger, Materialised, SeenSince, Cleanup
<1>5. OwnedOrHeld'
  <2>1. scope'[e] = Nobody /\ \A x \in Environments : x # e => scope'[x] = scope[x]
    BY <1>r, <1>t DEF TypeOK
  <2> QED BY <1>r, <2>1 DEF Ledger, OwnedOrHeld, OnHold
<1>6. Begins'
  <2>1. \A d, i : \A x \in Environments : MayBegin(d, x, i) => MayBegin(d, x, i)'
    BY <1>m, <1>s DEF MayBegin
  <2>2. ASSUME NEW p \in pushes', p.outcome = Nobody, Admits(p.hold)
        PROVE  MayBegin(p.hold.target, p.env, p.hold.id)'
    <3>1. CASE p \in pushes
      BY <1>t, <2>1, <2>2, <3>1, Typed DEF Ledger, Begins
    <3>2. CASE p = q
      <4>1. ~OnHold(e)
        BY <1>o, <1>q, <1>r, <2>2, <3>2 DEF Admits
      <4>2. Stands(p.env, p.hold.id)'
        BY <1>n, <1>q, <1>r, <3>2, <4>1 DEF Stands, OnHold
      <4> QED BY <4>2 DEF MayBegin
    <3> QED BY <1>r, <3>1, <3>2
  <2>3. \A k \in claims' : MayBegin(k.hold.target, k.env, k.hold.id)'
    BY <1>r, <1>t, <2>1, Typed DEF Ledger, Begins
  <2> QED BY <2>2, <2>3 DEF Begins, Admits
<1>7. StandIns'
  <2>1. \A p \in pushes : p.env = e => p.hold.row # <<"admitted", admitted + 1>>
    <3> SUFFICES ASSUME NEW p \in pushes, p.env = e, p.hold.row = <<"admitted", admitted + 1>> PROVE FALSE
      OBVIOUS
    <3>1. p.hold.target \in Targets /\ p.hold.row \in {"admitted", "adopted"} \X Ids
      BY <1>t, Typed, HoldParts
    <3>2. admitted + 1 \in Ids /\ Known(e, <<"admitted", admitted + 1>>, p.hold.target)
      BY <3>1 DEF Known
    <3>3. admitted + 1 \in 1..admitted
      BY <3>1, <3>2 DEF Ledger, Admissions
    <3> QED BY <1>t, <3>3
  <2>2. ASSUME NEW p \in pushes', NEW z \in pushes', p.env = z.env, Admits(p.hold), z.hold.row = p.hold.row
        PROVE  p = z
    <3>1. CASE p \in pushes /\ z \in pushes
      BY <2>2, <3>1 DEF Ledger, StandIns
    <3>2. CASE OnHold(e) /\ (p = q \/ z = q)
      BY <1>o, <1>q, <1>r, <2>2, <3>2 DEF Admits
    <3>3. CASE ~OnHold(e) /\ (p = q \/ z = q)
      BY <1>n, <1>q, <1>r, <2>1, <2>2, <3>3
    <3> QED BY <1>r, <3>1, <3>2, <3>3
  <2>3. ASSUME NEW p \in pushes', Admits(p.hold), p.outcome \notin {Nobody, p.hold.id}
        PROVE  Replaced(p.hold.target, p.env, p.hold.id)'
    <3>1. p \in pushes
      BY <1>q, <1>r, <2>3
    <3> QED BY <1>m, <2>3, <3>1 DEF Ledger, StandIns, Replaced
  <2>4. ASSUME NEW x \in Environments, NEW i \in Ids, Stands(x, i)', hold'[x].id # i
        PROVE  (/\ Replaced(hold[x].target, x, i)
                /\ \A p \in pushes : p.env = x => p.hold.row # hold[x].row)'
    <3>1. x # e
      BY <1>n, <1>o, <1>r, <2>4 DEF Stands
    <3>2. hold'[x] = hold[x] /\ Stands(x, i)
      BY <1>r, <2>4, <3>1 DEF Stands, OnHold
    <3>3. Replaced(hold[x].target, x, i) /\ \A p \in pushes : p.env = x => p.hold.row # hold[x].row
      BY <2>4, <3>2 DEF Ledger, StandIns
    <3> QED BY <1>m, <1>q, <1>r, <3>1, <3>2, <3>3 DEF Replaced
  <2> QED BY <2>2, <2>3, <2>4 DEF StandIns, Admits
<1>8. Runs'
  BY <1>m, <1>r, <1>s, <1>t, Typed DEF Ledger, Runs, CleanupId
<1>9. NoHoldComesBack'
  <2> SUFFICES ASSUME NEW x \in Environments, OnHold(x)', hold'[x].row[1] = "adopted"
               PROVE  Accounted(Cleanup(hold[x].target, x, hold[x].id))'
    BY DEF NoHoldComesBack
  <2>1. hold'[x] = hold[x] /\ OnHold(x)
    BY <1>n, <1>r DEF OnHold
  <2> QED BY <2>1, AdoptionStillAccounted
<1> QED
  BY <1>1, <1>2, <1>3, <1>4, <1>5, <1>6, <1>7, <1>8, <1>9 DEF Ledger
-----------------------------------------------------------------------------
(* The owner begins a clean-up only for an admission that is known, and no     *)
(* other owner has it.                                                         *)
LEMMA OwnerBegins ==
  ASSUME TypeOK, Admissions, NEW t \in Targets, NEW e \in Environments, NEW id \in Ids,
         NEW tombstone \in BOOLEAN, NEW outcome \in Outcomes,
         OwnerMaterialises(t, e, id, tombstone, outcome),
         Known(e, <<"admitted", id>>, t) \/ Begun(t, e, id)
  PROVE  \A c \in DOMAIN cleanups' \ DOMAIN cleanups :
           /\ c = Cleanup(t, e, id) /\ c.target = t /\ c.env = e /\ c.id = id
           /\ ~Begun(t, e, id) /\ Known(e, <<"admitted", id>>, t)
           /\ \A d \in DOMAIN cleanups' : c.env = d.env /\ c.id = d.id => c.target = d.target
<1> SUFFICES ASSUME NEW c \in DOMAIN cleanups' \ DOMAIN cleanups
             PROVE  /\ c = Cleanup(t, e, id) /\ c.target = t /\ c.env = e /\ c.id = id
                    /\ ~Begun(t, e, id) /\ Known(e, <<"admitted", id>>, t)
                    /\ \A d \in DOMAIN cleanups' : c.env = d.env /\ c.id = d.id => c.target = d.target
  OBVIOUS
<1>1. \A d \in DOMAIN cleanups' : d \in DOMAIN cleanups \/ d = Cleanup(t, e, id)
  BY OwnerAnswers
<1>2. c = Cleanup(t, e, id) /\ c.target = t /\ c.env = e /\ c.id = id
  BY <1>1 DEF Cleanup
<1>3. ~Begun(t, e, id) /\ Known(e, <<"admitted", id>>, t)
  BY <1>2 DEF Begun
<1>4. id # 0
  <2>1. id \in 1..admitted
    BY <1>3 DEF Admissions
  <2> QED BY <2>1 DEF TypeOK, Ids
<1>5. \A d \in DOMAIN cleanups' : c.env = d.env /\ c.id = d.id => c.target = d.target
  BY <1>1, <1>2, <1>3, <1>4 DEF Admissions
<1> QED
  BY <1>2, <1>3, <1>5

LEMMA PushCallKeeps ==
  ASSUME Ledger, Shape', Growing, NEW p \in pushes, PushCall(p)
  PROVE  Ledger'
<1>t. TypeOK /\ TypeOK'
  BY DEF Ledger, Shape
<1>c. PICK outcome \in Outcomes :
           /\ OwnerMaterialises(p.hold.target, p.env, p.hold.id, p.hold.tombstone, outcome)
           /\ pushes' = (pushes \ {p}) \cup
                (IF outcome = BindingMissing THEN {} ELSE {[p EXCEPT !.outcome = outcome]})
           /\ p.outcome = Nobody /\ Stamp /\ UNCHANGED <<apiVars, workerVars, snapshotVars>>
  BY <1>t, PushCallSteps
<1>u. UNCHANGED <<scope, hold, admitted, claims, receipts, snapshots, cursor, early>>
  BY <1>c DEF apiVars, workerVars, snapshotVars
<1> DEFINE q == [p EXCEPT !.outcome = outcome]
<1>q. q.env = p.env /\ q.hold = p.hold /\ q.outcome = outcome
  BY <1>t DEF TypeOK
<1>z. \A z \in pushes' : (z \in pushes /\ z # p) \/ (z = q /\ outcome # BindingMissing)
  BY <1>c
<1> HIDE DEF q
<1>p. p.env \in Environments /\ p.hold.target \in Targets /\ p.hold.id \in Ids /\ p.hold.tombstone \in BOOLEAN
  BY <1>t, Typed, HoldParts
<1>k. /\ Admits(p.hold) => Known(p.env, <<"admitted", p.hold.id>>, p.hold.target)
      /\ ~Admits(p.hold) => Begun(p.hold.target, p.env, p.hold.id) /\ Adopts(p.hold, p.env)
  BY DEF Ledger, Entries, Adopts, Admits, Known
<1>n. \A c \in DOMAIN cleanups' \ DOMAIN cleanups :
           /\ c = Cleanup(p.hold.target, p.env, p.hold.id) /\ c.target = p.hold.target
           /\ c.env = p.env /\ c.id = p.hold.id
           /\ ~Begun(p.hold.target, p.env, p.hold.id) /\ Known(p.env, <<"admitted", p.hold.id>>, p.hold.target)
           /\ \A d \in DOMAIN cleanups' : c.env = d.env /\ c.id = d.id => c.target = d.target
  BY <1>c, <1>k, <1>p, <1>t, OwnerBegins DEF Ledger
<1>o. /\ outcome # BindingMissing => Cleanup(p.hold.target, p.env, outcome) \in DOMAIN cleanups'
      /\ outcome \notin {BindingMissing, p.hold.id} =>
           /\ UNCHANGED cleanups
           /\ Cleanup(p.hold.target, p.env, p.hold.id) \notin DOMAIN cleanups
           /\ cleanups[Cleanup(p.hold.target, p.env, outcome)] = "active"
  BY <1>c, <1>p, <1>t, OwnerAnswers
<1>b. outcome # Nobody
  BY NobodyAssumption
<1>s. \A x, i : Stands(x, i)' <=> Stands(x, i)
  BY <1>u DEF Stands, OnHold
<1>1. LedgerRecorded'
  BY <1>n, <1>t, <1>u, RecordedKept DEF Ledger
<1>2. Admissions'
  <2>1. ASSUME NEW x \in Environments, NEW row, NEW d, Known(x, row, d)' PROVE Known(x, row, d)
    BY <1>q, <1>u, <1>z, <2>1 DEF Known, OnHold
  <2>2. admitted' = admitted /\ admitted \in Int
    BY <1>t, <1>u DEF TypeOK, Ids
  <2>3. \A c \in DOMAIN cleanups' : c \in DOMAIN cleanups \/ Known(c.env, <<"admitted", c.id>>, c.target)
    BY <1>n
  <2> QED BY <1>t, <2>1, <2>2, <2>3, AdmissionsKept DEF Ledger
<1>3. Entries'
  <2>1. ASSUME NEW x \in Environments, OnHold(x)'
        PROVE  (/\ hold[x].row[1] = "adopted" => Adopts(hold[x], x)
                /\ hold[x].at = Pending => Admits(hold[x])
                /\ hold[x].at # Pending => Begun(hold[x].target, x, hold[x].id))'
    BY <1>u, <2>1, HoldsStay DEF Ledger, Entries, Adopts, Admits, OnHold
  <2>2. ASSUME NEW z \in pushes'
        PROVE  (/\ Admits(z.hold) \/ (Adopts(z.hold, z.env) /\ z.outcome \in {Nobody, z.hold.id})
                /\ z.outcome # Nobody => Begun(z.hold.target, z.env, z.outcome))'
    <3>1. CASE z \in pushes
      BY <3>1, HoldsStay DEF Ledger, Entries, Adopts, Admits
    <3>2. CASE z = q /\ outcome # BindingMissing
      <4>1. Begun(z.hold.target, z.env, z.outcome)'
        BY <1>o, <1>q, <3>2 DEF Begun, Cleanup
      <4>2. Admits(z.hold) \/ (Adopts(z.hold, z.env) /\ z.outcome = z.hold.id)
        BY <1>k, <1>o, <1>q, <3>2 DEF Begun
      <4> QED BY <4>1, <4>2, HoldsStay DEF Admits, Adopts
    <3> QED BY <1>z, <3>1, <3>2
  <2>3. \A k \in claims' : Admits(k.hold)
    BY <1>u DEF Ledger, Entries, Admits
  <2>4. ASSUME NEW r \in receipts'
        PROVE  (/\ Admits(r.claim)
                /\ r.outcome # BindingMissing =>
                     /\ Begun(r.claim.target, r.env, r.outcome)
                     /\ SeenSince(Cleanup(r.claim.target, r.env, r.outcome), r.at))'
    BY <1>u, ReceiptStays DEF Admits
  <2> QED BY <2>1, <2>2, <2>3, <2>4 DEF Entries, Admits
<1>4. Materialised'
  BY <1>u, HoldStillSeen DEF Materialised, OnHold
<1>5. OwnedOrHeld'
  BY <1>u DEF Ledger, OwnedOrHeld, OnHold
<1>6. Begins'
  <2>1. \A d, x, i : MayBegin(d, x, i) => MayBegin(d, x, i)'
    BY <1>s, HoldsStay DEF MayBegin
  <2>2. \A z \in pushes' : z.outcome = Nobody /\ Admits(z.hold) => MayBegin(z.hold.target, z.env, z.hold.id)'
    BY <1>b, <1>q, <1>z, <2>1 DEF Ledger, Begins
  <2>3. \A k \in claims' : MayBegin(k.hold.target, k.env, k.hold.id)'
    BY <1>u, <2>1 DEF Ledger, Begins
  <2> QED BY <2>2, <2>3 DEF Begins, Admits
<1>7. StandIns'
  <2>1. ASSUME NEW z \in pushes', NEW y \in pushes', z.env = y.env, Admits(z.hold), y.hold.row = z.hold.row
        PROVE  z = y
    <3>1. CASE z \in pushes /\ y \in pushes
      BY <2>1, <3>1 DEF Ledger, StandIns
    <3>2. CASE z \in pushes /\ z # p /\ y = q
      BY <1>q, <2>1, <3>2 DEF Ledger, StandIns
    <3>3. CASE z = q /\ y \in pushes /\ y # p
      BY <1>q, <2>1, <3>3 DEF Ledger, StandIns
    <3> QED BY <1>z, <3>1, <3>2, <3>3
  <2>2. ASSUME NEW d, NEW x, NEW i, Replaced(d, x, i), Begun(d, x, i)' => Begun(d, x, i) \/ Claimed(x, i)
        PROVE  Replaced(d, x, i)'
    BY <2>2, HoldsStay DEF Replaced
  <2>3. ASSUME NEW d, NEW x, NEW i, Begun(d, x, i)', ~Begun(d, x, i)
        PROVE  x = p.env /\ Admits(p.hold) /\ i = p.hold.id /\ p.hold.row = <<"admitted", i>>
    <3>1. Cleanup(d, x, i) \in DOMAIN cleanups' \ DOMAIN cleanups
      BY <2>3 DEF Begun, Cleanup
    <3>2. x = p.env /\ i = p.hold.id /\ ~Begun(p.hold.target, p.env, p.hold.id)
      BY <1>n, <3>1 DEF Cleanup
    <3> QED BY <1>k, <3>2 DEF Admits
  <2>4. ASSUME NEW z \in pushes', Admits(z.hold), z.outcome \notin {Nobody, z.hold.id}
        PROVE  Replaced(z.hold.target, z.env, z.hold.id)'
    <3>1. CASE z \in pushes /\ z # p
      <4>1. Replaced(z.hold.target, z.env, z.hold.id)
        BY <2>4, <3>1 DEF Ledger, StandIns
      <4>2. ASSUME Begun(z.hold.target, z.env, z.hold.id)', ~Begun(z.hold.target, z.env, z.hold.id)
            PROVE  FALSE
        <5>1. z.env = p.env /\ Admits(p.hold) /\ p.hold.row = <<"admitted", z.hold.id>>
          BY <2>3, <4>2
        <5>2. z.hold.row = p.hold.row
          BY <2>4, <5>1 DEF Admits
        <5> QED BY <3>1, <5>1, <5>2 DEF Ledger, StandIns
      <4> QED BY <2>2, <4>1, <4>2
    <3>2. CASE z = q /\ outcome # BindingMissing
      <4> DEFINE t == p.hold.target
                 e == p.env
                 i == p.hold.id
      <4>1. UNCHANGED cleanups /\ ~Begun(t, e, i) /\ cleanups[Cleanup(t, e, outcome)] = "active"
              /\ Cleanup(t, e, outcome) \in DOMAIN cleanups
        BY <1>o, <1>q, <2>4, <3>2 DEF Begun
      <4>2. Unledgered(t, e)
        <5> DEFINE c == Cleanup(t, e, outcome)
        <5>1. MayBegin(t, e, i)
          BY <1>c, <1>q, <2>4, <3>2 DEF Ledger, Begins
        <5>2. CASE Stands(e, i)
          <6>1. ~Stands(e, outcome)
            BY <1>q, <2>4, <3>2, <5>2 DEF Stands
          <6>2. c.target = t /\ c.env = e /\ c.id = outcome
            BY DEF Cleanup
          <6>3. Accounted(c)
            BY <4>1, <6>1, <6>2 DEF Ledger, Runs, CleanupOver
          <6>4. Unledgered(t, e)
            BY <4>1, <6>2, <6>3 DEF Accounted, StoodIn, Begun, Unledgered
          <6> QED BY <6>4
        <5>3. CASE StoodIn(Cleanup(t, e, i))
          BY <5>3 DEF StoodIn, Begun, Cleanup, Unledgered
        <5> QED BY <4>1, <5>1, <5>2, <5>3 DEF MayBegin
      <4>3. ~Begun(t, e, i)' /\ Unledgered(t, e)'
        BY <1>u, <4>1, <4>2 DEF Begun, Cleanup, Unledgered
      <4> QED BY <1>q, <3>2, <4>3 DEF Replaced
    <3> QED BY <1>z, <3>1, <3>2
  <2>5. ASSUME NEW x \in Environments, NEW i \in Ids, Stands(x, i)', hold'[x].id # i
        PROVE  (/\ Replaced(hold[x].target, x, i)
                /\ \A z \in pushes : z.env = x => z.hold.row # hold[x].row)'
    <3>1. PICK d : d = hold[x].target
      OBVIOUS
    <3>2. Stands(x, i) /\ Replaced(d, x, i) /\ \A z \in pushes : z.env = x => z.hold.row # hold[x].row
      BY <1>s, <1>u, <2>5, <3>1 DEF Ledger, StandIns
    <3>3. ~(x = p.env /\ p.hold.row = <<"admitted", i>>)
      BY <3>2 DEF Stands
    <3>4. Replaced(d, x, i)'
      BY <2>2, <2>3, <3>2, <3>3
    <3>5. \A z \in pushes' : z.env = x => z.hold.row # hold'[x].row
      BY <1>q, <1>u, <1>z, <3>2
    <3> QED BY <1>u, <3>1, <3>4, <3>5 DEF Replaced, Begun, Claimed, Unledgered
  <2> QED BY <2>1, <2>4, <2>5 DEF StandIns, Admits
<1>8. Runs'
  <2>1. Admits(p.hold) => MayBegin(p.hold.target, p.env, p.hold.id)
    BY <1>c DEF Ledger, Begins
  <2>2. \A c \in DOMAIN cleanups' \ DOMAIN cleanups :
          MayBegin(c.target, c.env, c.id) /\ ~Begun(c.target, c.env, c.id)
    BY <1>k, <1>n, <2>1
  <2>3. \A t \in Targets : cursor[t] <= cursor'[t]
    BY <1>t, <1>u DEF TypeOK
  <2> QED BY <1>s, <2>2, <2>3, RunsKept
<1>9. NoHoldComesBack'
  BY <1>u, AdoptionStillAccounted DEF NoHoldComesBack, OnHold
<1> QED
  BY <1>1, <1>2, <1>3, <1>4, <1>5, <1>6, <1>7, <1>8, <1>9 DEF Ledger
(* A worker has its candidate materialised.                                    *)
LEMMA WorkerKeeps ==
  ASSUME Ledger, Shape', Growing, NEW k \in claims, WorkerMaterialises(k)
  PROVE  Ledger'
<1>t. TypeOK /\ TypeOK'
  BY DEF Ledger, Shape
<1>c. PICK outcome \in Outcomes :
       /\ OwnerMaterialises(k.hold.target, k.env, k.hold.id, k.hold.tombstone, outcome)
       /\ receipts' = receipts \cup
            {[env |-> k.env, claim |-> k.hold, outcome |-> outcome, at |-> clock']}
  BY DEF WorkerMaterialises
<1>u. Stamp /\ UNCHANGED <<scope, hold, admitted, pushes, claims, snapshots, cursor, early>>
  BY DEF WorkerMaterialises, apiVars, snapshotVars
<1> DEFINE r0 == [env |-> k.env, claim |-> k.hold, outcome |-> outcome, at |-> clock']
<1>q. r0.env = k.env /\ r0.claim = k.hold /\ r0.outcome = outcome /\ r0.at = clock' /\ receipts' = receipts \cup {r0}
  BY <1>c
<1> HIDE DEF r0
<1>p. k.env \in Environments /\ k.hold.target \in Targets /\ k.hold.id \in Ids /\ k.hold.tombstone \in BOOLEAN
  BY <1>t, Typed, HoldParts
<1>k. Admits(k.hold) /\ Known(k.env, <<"admitted", k.hold.id>>, k.hold.target) /\ Claimed(k.env, k.hold.id)
  BY DEF Ledger, Entries, Admits, Known, Claimed
<1>n. \A c \in DOMAIN cleanups' \ DOMAIN cleanups :
           /\ c = Cleanup(k.hold.target, k.env, k.hold.id) /\ c.target = k.hold.target
           /\ c.env = k.env /\ c.id = k.hold.id
           /\ ~Begun(k.hold.target, k.env, k.hold.id) /\ Known(k.env, <<"admitted", k.hold.id>>, k.hold.target)
           /\ \A d \in DOMAIN cleanups' : c.env = d.env /\ c.id = d.id => c.target = d.target
  BY <1>c, <1>k, <1>p, <1>t, OwnerBegins DEF Ledger
<1>o. outcome # BindingMissing => Cleanup(k.hold.target, k.env, outcome) \in DOMAIN cleanups'
  BY <1>c, <1>p, <1>t, OwnerAnswers
<1>s. \A x, i : Stands(x, i)' <=> Stands(x, i)
  BY <1>u DEF Stands, OnHold
<1>1. LedgerRecorded'
  <2>1. r0.at <= clock'
    BY <1>q, <1>t DEF TypeOK
  <2> QED BY <1>n, <1>q, <1>t, <2>1, RecordedKept DEF Ledger
<1>2. Admissions'
  <2>1. ASSUME NEW x \in Environments, NEW row, NEW d, Known(x, row, d)' PROVE Known(x, row, d)
    BY <1>q, <1>u, <2>1 DEF Known, OnHold
  <2>2. admitted' = admitted /\ admitted \in Int
    BY <1>t, <1>u DEF TypeOK, Ids
  <2>3. \A c \in DOMAIN cleanups' : c \in DOMAIN cleanups \/ Known(c.env, <<"admitted", c.id>>, c.target)
    BY <1>n
  <2> QED BY <1>t, <2>1, <2>2, <2>3, AdmissionsKept DEF Ledger
<1>3. Entries'
  <2>1. ASSUME NEW x \in Environments, OnHold(x)'
        PROVE  (/\ hold[x].row[1] = "adopted" => Adopts(hold[x], x)
                /\ hold[x].at = Pending => Admits(hold[x])
                /\ hold[x].at # Pending => Begun(hold[x].target, x, hold[x].id))'
    BY <1>u, <2>1, HoldsStay DEF Ledger, Entries, Adopts, Admits, OnHold
  <2>2. ASSUME NEW z \in pushes'
        PROVE  (/\ Admits(z.hold) \/ (Adopts(z.hold, z.env) /\ z.outcome \in {Nobody, z.hold.id})
                /\ z.outcome # Nobody => Begun(z.hold.target, z.env, z.outcome))'
    BY <1>u, HoldsStay DEF Ledger, Entries, Adopts, Admits
  <2>3. \A m \in claims' : Admits(m.hold)
    BY <1>u DEF Ledger, Entries, Admits
  <2>4. ASSUME NEW r \in receipts'
        PROVE  (/\ Admits(r.claim)
                /\ r.outcome # BindingMissing =>
                     /\ Begun(r.claim.target, r.env, r.outcome)
                     /\ SeenSince(Cleanup(r.claim.target, r.env, r.outcome), r.at))'
    <3>1. CASE r \in receipts
      BY <3>1, ReceiptStays DEF Admits
    <3>2. CASE r = r0
      <4>1. SeenSince(Cleanup(r.claim.target, r.env, r.outcome), r.at)'
        BY <1>q, <1>t, <1>u, <3>2, SeenNow DEF Ledger
      <4>2. r.outcome # BindingMissing => Begun(r.claim.target, r.env, r.outcome)'
        BY <1>o, <1>q, <3>2 DEF Begun, Cleanup
      <4> QED BY <1>k, <1>q, <3>2, <4>1, <4>2 DEF Admits
    <3> QED BY <1>q, <3>1, <3>2
  <2> QED BY <2>1, <2>2, <2>3, <2>4 DEF Entries, Admits
<1>4. Materialised'
  BY <1>u, HoldStillSeen DEF Materialised, OnHold
<1>5. OwnedOrHeld'
  BY <1>u DEF Ledger, OwnedOrHeld, OnHold
<1>6. Begins'
  <2>1. \A d, x, i : MayBegin(d, x, i) => MayBegin(d, x, i)'
    BY <1>s, HoldsStay DEF MayBegin
  <2> QED BY <1>u, <2>1 DEF Ledger, Begins, Admits
<1>7. StandIns'
  <2>1. ASSUME NEW d, NEW x, NEW i, Replaced(d, x, i) PROVE Replaced(d, x, i)'
    <3>1. ASSUME Begun(d, x, i)', ~Begun(d, x, i) PROVE Claimed(x, i)
      <4>1. Cleanup(d, x, i) \in DOMAIN cleanups' \ DOMAIN cleanups
        BY <3>1 DEF Begun, Cleanup
      <4>2. x = k.env /\ i = k.hold.id
        BY <1>n, <4>1 DEF Cleanup
      <4> QED BY <1>k, <4>2
    <3> QED BY <2>1, <3>1, HoldsStay DEF Replaced
  <2>2. \A p, q \in pushes' : p.env = q.env /\ Admits(p.hold) /\ q.hold.row = p.hold.row => p = q
    BY <1>u DEF Ledger, StandIns
  <2>3. \A p \in pushes' : Admits(p.hold) /\ p.outcome \notin {Nobody, p.hold.id} =>
          Replaced(p.hold.target, p.env, p.hold.id)'
    BY <1>u, <2>1 DEF Ledger, StandIns
  <2>4. ASSUME NEW x \in Environments, NEW i \in Ids, Stands(x, i)', hold'[x].id # i
        PROVE  (/\ Replaced(hold[x].target, x, i)
                /\ \A z \in pushes : z.env = x => z.hold.row # hold[x].row)'
    <3>1. PICK d : d = hold[x].target
      OBVIOUS
    <3>2. Replaced(d, x, i) /\ \A z \in pushes : z.env = x => z.hold.row # hold[x].row
      BY <1>s, <1>u, <2>4, <3>1 DEF Ledger, StandIns
    <3>3. Replaced(d, x, i)'
      BY <2>1, <3>2
    <3> QED BY <1>u, <3>1, <3>2, <3>3 DEF Replaced, Begun, Claimed, Unledgered
  <2> QED BY <2>2, <2>3, <2>4 DEF StandIns, Admits
<1>8. Runs'
  <2>1. \A c \in DOMAIN cleanups' \ DOMAIN cleanups :
          MayBegin(c.target, c.env, c.id) /\ ~Begun(c.target, c.env, c.id)
    BY <1>n DEF Ledger, Begins
  <2>2. \A t \in Targets : cursor[t] <= cursor'[t]
    BY <1>t, <1>u DEF TypeOK
  <2> QED BY <1>s, <2>1, <2>2, RunsKept
<1>9. NoHoldComesBack'
  BY <1>u, AdoptionStillAccounted DEF NoHoldComesBack, OnHold
<1> QED
  BY <1>1, <1>2, <1>3, <1>4, <1>5, <1>6, <1>7, <1>8, <1>9 DEF Ledger

(* A claim takes the candidate of a hold that stands.                          *)
LEMMA ClaimKeeps ==
  ASSUME Ledger, Shape', Growing, NEW e \in Environments, NEW t \in Targets, Claim(t, e)
  PROVE  Ledger'
<1>1. /\ OnHold(e) /\ hold[e] \in Hold /\ hold[e].at = Pending /\ hold'[e] # Nobody
      /\ \A x \in Environments : x # e => hold'[x] = hold[x]
      /\ claims' = claims \cup {[env |-> e, hold |-> hold'[e], live |-> TRUE]}
      /\ UNCHANGED <<clock, scope, cleanups, admitted, pushes, receipts, snapshots, cursor, early>>
  BY ClaimSteps DEF Ledger, Due, snapshotVars
<1>2. /\ hold'[e].target = hold[e].target /\ hold'[e].row = hold[e].row
      /\ hold'[e].id = hold[e].id /\ hold'[e].at = hold[e].at
  <2>1. PICK revision \in Nat \ {0}, token \in Nat \X Nat :
              hold'[e] = [hold[e] EXCEPT !.revision = revision, !.token = token, !.lease = TRUE]
    BY ClaimSteps DEF Ledger
  <2> QED BY <1>1, <2>1 DEF Hold
<1>3. \A x \in Environments : Same(x)
  BY <1>1, <1>2 DEF Same
<1>4. \A k \in claims' : k \in claims \/ Taken(k)
  BY <1>1, <1>2 DEF Taken
<1>5. LedgerQuiet /\ OwnedOrHeld'
  BY <1>1, <1>3, <1>4, OwnersKept DEF LedgerQuiet
<1> QED
  BY <1>5, QuietKeeps DEF Ledger

(* A receipt notes in the hold it stands for what its worker saw.              *)
LEMMA ReceiptKeeps ==
  ASSUME Ledger, Shape', Growing, NEW r \in receipts, RecordReceipt(r)
  PROVE  Ledger'
<1>t. TypeOK
  BY DEF Ledger, Shape
<1>u. UNCHANGED <<clock, scope, cleanups, admitted, pushes, claims, receipts, snapshotVars>>
  BY <1>t, ReceiptSteps
<1>1. ASSUME NEW e \in Environments PROVE Same(e)
  <2>1. CASE hold'[e] = hold[e]
    BY <2>1 DEF Same
  <2>2. CASE hold'[e] # hold[e]
    <3>1. /\ e = r.env /\ StandsFor(r) /\ r.outcome \in {BindingMissing, hold[e].id}
          /\ Reported(r, hold[e], hold'[e]) /\ hold'[e] # Nobody
      BY <1>t, <2>2, ReceiptSteps
    <3>2. /\ OnHold(e) /\ hold[e].row = r.claim.row /\ hold[e].at = Pending
          /\ hold'[e].target = hold[e].target /\ hold'[e].row = hold[e].row
          /\ hold'[e].id = hold[e].id /\ hold'[e].at = ReportedAt(r)
      BY <3>1 DEF StandsFor, Reported
    <3>3. CASE r.outcome = BindingMissing
      BY <3>1, <3>2, <3>3 DEF Same, ReportedAt
    <3>4. CASE r.outcome # BindingMissing
      <4>1. hold[e].target \in Targets /\ r.claim.target \in Targets /\ r.claim.id \in Ids
              /\ r.at \in 1..MaxClock
        BY <1>t, <3>2, Typed, HoldParts
      <4>2. hold[e].row = <<"admitted", r.claim.id>>
        BY <3>2, ReceiptStays DEF Admits
      <4>3. Known(e, <<"admitted", r.claim.id>>, hold[e].target)
              /\ Known(e, <<"admitted", r.claim.id>>, r.claim.target)
        BY <3>1, <3>2, <4>2 DEF Known
      <4>4. hold[e].target = r.claim.target
        BY <4>1, <4>3 DEF Ledger, Admissions
      <4>5. r.outcome = hold[e].id /\ ReportedAt(r) = r.at /\ r.at # Pending
        BY <3>1, <3>4, <4>1, AdmissionAssumption DEF ReportedAt, Pending
      <4>6. Begun(hold[e].target, e, hold[e].id)
        BY <3>1, <3>4, <4>4, <4>5 DEF Ledger, Entries
      <4>7. SeenSince(Cleanup(r.claim.target, r.env, r.outcome), r.at)'
        BY <3>4, ReceiptStays
      <4>8. SeenSince(Cleanup(hold[e].target, e, hold[e].id), hold[e].at + Lag)'
        <5>1. PICK d, x : d = Cleanup(r.claim.target, r.env, r.outcome) /\ x = r.at
          OBVIOUS
        <5>2. SeenSince(d, x)'
          BY <4>7, <5>1 DEF SeenSince
        <5>3. d = Cleanup(hold'[e].target, e, hold'[e].id) /\ x = hold'[e].at
          BY <3>1, <3>2, <4>4, <4>5, <5>1
        <5>4. x \in Int /\ \A s \in snapshots' : s.observedAt \in Int
          BY <1>t, <1>u, <5>1, Typed, AdmissionAssumption DEF TypeOK, Receipt, snapshotVars
        <5>5. SeenSince(d, x + Lag)'
          BY <5>2, <5>4, AdmissionAssumption DEF SeenSince
        <5> QED BY <5>3, <5>5 DEF SeenSince, Cleanup
      <4> QED BY <3>1, <3>2, <4>5, <4>6, <4>8 DEF Same, Noticed
    <3> QED BY <3>3, <3>4
  <2> QED BY <2>1, <2>2
<1>2. LedgerQuiet /\ OwnedOrHeld'
  BY <1>1, <1>u, OwnersKept DEF LedgerQuiet, snapshotVars
<1> QED
  BY <1>2, QuietKeeps DEF Ledger
(* The note of a push: the hold names the clean-up the owner handed back.      *)
LEMMA PushRecordKeeps ==
  ASSUME Ledger, Shape', Growing, NEW p \in pushes, PushRecord(p)
  PROVE  Ledger'
<1>t. TypeOK /\ TypeOK'
  BY DEF Ledger, Shape
<1>u. /\ pushes' = pushes \ {p} /\ Stamp /\ p.outcome # Nobody /\ p.outcome \in Ids
      /\ \A x \in Environments : x # p.env => hold'[x] = hold[x]
      /\ ~Noted(p) => UNCHANGED hold
      /\ UNCHANGED <<scope, cleanups, admitted, claims, receipts, snapshots, cursor, early>>
  BY <1>t, PushRecordSteps DEF PushRecord, workerVars, snapshotVars
<1>1. CASE ~Noted(p)
  <2>1. LedgerQuiet /\ OwnedOrHeld'
    BY <1>1, <1>u, OwnersKept DEF LedgerQuiet, Same
  <2> QED BY <2>1, QuietKeeps DEF Ledger
<1>2. CASE Noted(p)
  <2>e. PICK e \in Environments : e = p.env
    BY <1>t, Typed
  <2>h. OnHold(e) /\ hold[e] \in Hold /\ hold[e].row = p.hold.row
    BY <1>2, <1>t, <2>e, Typed DEF Noted
  <2>n. DatabaseNow # Pending /\ DatabaseNow + Lag = clock'
    BY <1>t, <1>u, StampStep, AdmissionAssumption DEF Pending, DatabaseNow
  <2>v. /\ hold'[e].target = hold[e].target /\ hold'[e].row = hold[e].row
        /\ hold'[e].id = p.outcome /\ hold'[e] # Nobody
        /\ hold'[e].at # Pending /\ hold'[e].at + Lag = clock'
    <3>1. hold'[e] = [hold[e] EXCEPT !.id = p.outcome, !.at = DatabaseNow] /\ hold'[e] # Nobody
      BY <1>2, <1>t, <2>e, PushRecordSteps
    <3>2. hold'[e].at = DatabaseNow
      BY <2>h, <3>1 DEF Hold
    <3> QED BY <2>h, <2>n, <3>1, <3>2 DEF Hold
  <2>s. \A x \in Environments : \A i : Stands(x, i)' <=> Stands(x, i)
    BY <1>u, <2>e, <2>h, <2>v DEF Stands, OnHold
  <2>p. p.hold.target \in Targets /\ p.hold.id \in Ids /\ hold[e].target \in Targets /\ hold[e].id \in Ids
    BY <1>t, <2>h, Typed, HoldParts
  <2>a. /\ hold[e].row[1] = "adopted" => /\ Adopts(p.hold, e) /\ Adopts(hold[e], e)
                                         /\ p.outcome = hold[e].id /\ hold[e].id = p.hold.id
        /\ hold[e].row[1] # "adopted" => Admits(p.hold) /\ hold[e].row = <<"admitted", p.hold.id>>
    BY <1>u, <2>e, <2>h DEF Ledger, Entries, Adopts, Admits
  <2>t. p.hold.target = hold[e].target
    <3>1. CASE hold[e].row[1] = "adopted"
      <4>1. Begun(hold[e].target, e, hold[e].id) /\ Begun(p.hold.target, e, hold[e].id)
        BY <2>a, <3>1 DEF Adopts
      <4> QED BY <4>1 DEF Ledger, LedgerRecorded, Begun, Cleanup
    <3>2. CASE hold[e].row[1] # "adopted"
      <4>1. /\ Known(e, <<"admitted", p.hold.id>>, hold[e].target)
            /\ Known(e, <<"admitted", p.hold.id>>, p.hold.target)
        BY <2>a, <2>e, <2>h, <3>2 DEF Known
      <4> QED BY <2>p, <4>1 DEF Ledger, Admissions
    <3> QED BY <3>1, <3>2
  <2>b. Begun(hold[e].target, e, p.outcome)'
    <3>1. Begun(p.hold.target, e, p.outcome)
      BY <1>u, <2>e DEF Ledger, Entries
    <3> QED BY <1>u, <2>t, <2>v, <3>1 DEF Begun, Cleanup
  <2>1. LedgerRecorded'
    BY <1>t, <1>u, RecordedKept DEF Ledger
  <2>2. Admissions'
    <3>1. ASSUME NEW x \in Environments, NEW row, NEW d, Known(x, row, d)' PROVE Known(x, row, d)
      BY <1>u, <2>e, <2>h, <2>v, <3>1 DEF Known, OnHold
    <3>2. admitted' = admitted /\ admitted \in Int
      BY <1>t, <1>u DEF TypeOK, Ids
    <3> QED BY <1>t, <1>u, <3>1, <3>2, AdmissionsKept DEF Ledger
  <2>3. Entries'
    <3>1. ASSUME NEW x \in Environments, OnHold(x)'
          PROVE  (/\ hold[x].row[1] = "adopted" => Adopts(hold[x], x)
                  /\ hold[x].at = Pending => Admits(hold[x])
                  /\ hold[x].at # Pending => Begun(hold[x].target, x, hold[x].id))'
      <4>1. CASE x # e
        BY <1>u, <2>e, <3>1, <4>1, HoldsStay DEF Ledger, Entries, Adopts, Admits, OnHold
      <4>2. CASE x = e
        <5>1. Begun(hold[e].target, e, hold[e].id)'
          BY <2>b, <2>v DEF Begun, Cleanup
        <5>2. hold'[e].row[1] = "adopted" => hold'[e].row = <<"adopted", hold'[e].id>>
          BY <2>a, <2>v DEF Adopts
        <5> QED BY <2>n, <2>v, <4>2, <5>1, <5>2 DEF Adopts
      <4> QED BY <4>1, <4>2
    <3>2. ASSUME NEW z \in pushes'
          PROVE  (/\ Admits(z.hold) \/ (Adopts(z.hold, z.env) /\ z.outcome \in {Nobody, z.hold.id})
                  /\ z.outcome # Nobody => Begun(z.hold.target, z.env, z.outcome))'
      BY <1>u, <3>2, HoldsStay DEF Ledger, Entries, Adopts, Admits
    <3>3. \A k \in claims' : Admits(k.hold)
      BY <1>u DEF Ledger, Entries, Admits
    <3>4. ASSUME NEW r \in receipts'
          PROVE  (/\ Admits(r.claim)
                  /\ r.outcome # BindingMissing =>
                       /\ Begun(r.claim.target, r.env, r.outcome)
                       /\ SeenSince(Cleanup(r.claim.target, r.env, r.outcome), r.at))'
      BY <1>u, ReceiptStays DEF Admits
    <3> QED BY <3>1, <3>2, <3>3, <3>4 DEF Entries, Admits
  <2>4. Materialised'
    <3> SUFFICES ASSUME NEW x \in Environments, OnHold(x)', hold'[x].at # Pending
                 PROVE  SeenSince(Cleanup(hold[x].target, x, hold[x].id), hold[x].at + Lag)'
      BY DEF Materialised
    <3>1. CASE x # e
      BY <1>u, <2>e, <3>1, HoldStillSeen DEF OnHold
    <3>2. CASE x = e
      <4>1. PICK d, at : d = Cleanup(hold'[e].target, e, hold'[e].id) /\ at = clock'
        OBVIOUS
      <4>2. SeenSince(d, at)'
        BY <1>t, <1>u, <4>1, SeenNow DEF Ledger
      <4> QED BY <2>v, <3>2, <4>1, <4>2 DEF SeenSince, Cleanup
    <3> QED BY <3>1, <3>2
  <2>5. OwnedOrHeld'
    BY <1>u, <2>e, <2>h, <2>v DEF Ledger, OwnedOrHeld, OnHold
  <2>6. Begins'
    <3>1. \A d, i : \A x \in Environments : MayBegin(d, x, i) => MayBegin(d, x, i)'
      BY <2>s, HoldsStay DEF MayBegin
    <3>2. \A z \in pushes' : z.outcome = Nobody /\ Admits(z.hold) => MayBegin(z.hold.target, z.env, z.hold.id)'
      BY <1>t, <1>u, <3>1, Typed DEF Ledger, Begins
    <3>3. \A k \in claims' : MayBegin(k.hold.target, k.env, k.hold.id)'
      BY <1>t, <1>u, <3>1, Typed DEF Ledger, Begins
    <3> QED BY <3>2, <3>3 DEF Begins, Admits
  <2>7. StandIns'
    <3>1. \A d, x, i : Replaced(d, x, i) => Replaced(d, x, i)'
      BY <1>u, HoldsStay DEF Replaced, Begun, Unledgered
    <3>2. \A y, z \in pushes' : y.env = z.env /\ Admits(y.hold) /\ z.hold.row = y.hold.row => y = z
      BY <1>u DEF Ledger, StandIns
    <3>3. \A z \in pushes' : Admits(z.hold) /\ z.outcome \notin {Nobody, z.hold.id} =>
            Replaced(z.hold.target, z.env, z.hold.id)'
      BY <1>u, <3>1 DEF Ledger, StandIns
    <3>4. ASSUME NEW x \in Environments, NEW i \in Ids, Stands(x, i)', hold'[x].id # i
          PROVE  (/\ Replaced(hold[x].target, x, i)
                  /\ \A z \in pushes : z.env = x => z.hold.row # hold[x].row)'
      <4>1. PICK d : d = hold[x].target
        OBVIOUS
      <4>2. CASE x # e
        <5>1. hold'[x] = hold[x] /\ Stands(x, i)
          BY <1>u, <2>e, <2>s, <3>4, <4>2
        <5>2. Replaced(d, x, i) /\ \A z \in pushes : z.env = x => z.hold.row # hold[x].row
          BY <3>4, <4>1, <5>1 DEF Ledger, StandIns
        <5>3. Replaced(d, x, i)'
          BY <3>1, <5>2
        <5> QED BY <1>u, <4>1, <5>1, <5>2, <5>3 DEF Replaced, Begun, Claimed, Unledgered
      <4>3. CASE x = e
        <5>1. hold[e].row = <<"admitted", i>>
          BY <2>s, <3>4, <4>3 DEF Stands
        <5>2. Admits(p.hold) /\ p.hold.id = i /\ p.outcome \notin {Nobody, p.hold.id}
          BY <1>u, <2>a, <2>v, <3>4, <4>3, <5>1
        <5>3. Replaced(d, e, i)
          BY <2>e, <2>t, <4>1, <4>3, <5>2 DEF Ledger, StandIns
        <5>4. Replaced(d, e, i)'
          BY <3>1, <5>3
        <5>5. \A z \in pushes' : z.env = e => z.hold.row # hold[e].row
          BY <1>u, <2>e, <2>h, <5>2 DEF Ledger, StandIns
        <5> QED BY <2>v, <4>1, <4>3, <5>4, <5>5 DEF Replaced, Begun, Claimed, Unledgered
      <4> QED BY <4>2, <4>3
    <3> QED BY <3>2, <3>3, <3>4 DEF StandIns, Admits
  <2>8. Runs'
    <3>1. \A d \in Targets : cursor[d] <= cursor'[d]
      BY <1>t, <1>u DEF TypeOK
    <3> QED BY <1>u, <2>s, <3>1, RunsKept
  <2>9. NoHoldComesBack'
    <3> SUFFICES ASSUME NEW x \in Environments, OnHold(x)', hold'[x].row[1] = "adopted"
                 PROVE  Accounted(Cleanup(hold[x].target, x, hold[x].id))'
      BY DEF NoHoldComesBack
    <3>1. /\ OnHold(x) /\ hold[x].row[1] = "adopted"
          /\ hold'[x].target = hold[x].target /\ hold'[x].id = hold[x].id
      BY <1>u, <2>a, <2>e, <2>h, <2>v DEF OnHold
    <3> QED BY <3>1, AdoptionStillAccounted
  <2> QED
    BY <2>1, <2>2, <2>3, <2>4, <2>5, <2>6, <2>7, <2>8, <2>9 DEF Ledger
<1> QED
  BY <1>1, <1>2
(* The clean-up of a hold that a snapshot releases is over, and no snapshot    *)
(* read after that one names it.                                               *)
LEMMA ReleasedIsOver ==
  ASSUME Ledger, NEW s \in snapshots, NEW e \in Environments, OnHold(e), ~Names(s, e), Releasable(s, e),
         ~WithinLag(s, e), NEW c, c = Cleanup(hold[e].target, e, hold[e].id)
  PROVE  /\ c \in DOMAIN cleanups /\ c.target = s.target /\ cleanups[c] = "purged"
         /\ \A z \in snapshots : z.target = c.target /\ s.observedAt <= z.observedAt => c \notin z.rows
<1>1. c.target = hold[e].target /\ c.env = e
  BY DEF Cleanup
<1>2. hold[e].at # Pending /\ hold[e].at <= s.observedAt /\ hold[e].target = s.target
  BY DEF Releasable
<1>3. c \in DOMAIN cleanups
  BY <1>2 DEF Ledger, Entries, Begun
<1>4. SeenSince(c, hold[e].at + Lag)
  BY <1>2 DEF Ledger, Materialised
<1>6. hold[e].at + Lag <= s.observedAt
  <2>1. hold[e].at \in Int /\ s.observedAt \in Int
    BY Typed, HoldParts DEF Ledger, Shape
  <2> QED BY <1>2, <2>1, AdmissionAssumption DEF WithinLag
<1>5. c \notin s.rows
  BY <1>1 DEF Names
<1> QED
  BY <1>1, <1>2, <1>3, <1>4, <1>5, <1>6 DEF SeenSince

LEMMA ReconcileKeeps ==
  ASSUME Ledger, Shape', Growing, NEW s \in snapshots, Reconcile(s)
  PROVE  Ledger'
<1> DEFINE Stood(e) == hold'[e] = hold[e]
           Released(e) == OnHold(e) /\ ~Names(s, e) /\ Releasable(s, e) /\ hold'[e] = Nobody
           Took(e, c) == /\ ~OnHold(e) /\ c \in s.rows /\ c \in DOMAIN cleanups
                         /\ c = Cleanup(s.target, e, c.id) /\ c.env = e /\ c.target = s.target
                         /\ hold'[e] # Nobody /\ hold'[e].target = s.target
                         /\ hold'[e].row = <<"adopted", c.id>> /\ hold'[e].id = c.id
                         /\ hold'[e].at + Lag = clock' /\ hold'[e].at # Pending
<1>t. TypeOK /\ TypeOK'
  BY DEF Ledger, Shape
<1>u. /\ Fresh(s) /\ Stamp /\ cursor' = [cursor EXCEPT ![s.target] = s.observedAt]
      /\ UNCHANGED <<scope, cleanups, admitted, pushes, claims, receipts, snapshots>>
  BY <1>t, ReconcileSteps DEF workerVars
<1>e. ASSUME NEW e \in Environments PROVE Stood(e) \/ Released(e) \/ \E c \in s.rows : Took(e, c)
  <2>1. CASE Stood(e) \/ Released(e)
    BY <2>1
  <2>2. CASE ~Stood(e) /\ ~Released(e)
    <3>1. PICK c \in s.rows : ~OnHold(e) /\ c.env = e /\ hold'[e] = Adopted(s, c) /\ Adopted(s, c) \in Hold
      BY <1>t, <2>2, ReconcileSteps
    <3>2. c \in DOMAIN cleanups /\ c.target = s.target /\ c = Cleanup(s.target, e, c.id)
      BY <1>t, <3>1, Typed DEF Ledger, LedgerRecorded
    <3>3. /\ hold'[e].target = s.target /\ hold'[e].row = <<"adopted", c.id>> /\ hold'[e].id = c.id
          /\ hold'[e].at = DatabaseNow
      BY <3>1 DEF Adopted
    <3>4. DatabaseNow + Lag = clock' /\ DatabaseNow # Pending
      BY <1>t, <1>u, StampStep, AdmissionAssumption DEF DatabaseNow, Pending
    <3>5. hold'[e] # Nobody
      BY <3>1, NobodyAssumption
    <3>6. Took(e, c)
      BY <3>1, <3>2, <3>3, <3>4, <3>5
    <3> QED BY <3>6
  <2> QED BY <2>1, <2>2
<1>m. /\ \A d, x, id : Begun(d, x, id)' <=> Begun(d, x, id)
      /\ \A x, i : Claimed(x, i)' <=> Claimed(x, i)
      /\ \A c : StoodIn(c) => StoodIn(c)'
      /\ \A c : Accounted(c) => Accounted(c)'
      /\ \A d, x, i : Replaced(d, x, i) => Replaced(d, x, i)'
  <2>1. /\ \A d, x, id : Begun(d, x, id)' <=> Begun(d, x, id)
        /\ \A x, i : Claimed(x, i)' <=> Claimed(x, i)
    BY <1>u DEF Begun, Claimed, Cleanup
  <2> QED BY <2>1, HoldsStay DEF Replaced
<1>s. \A e \in Environments : \A i : Stands(e, i)' => Stood(e) /\ Stands(e, i)
  BY <1>e DEF Stands, OnHold
<1>g. \A e \in Environments : \A i : Stands(e, i) => (Stands(e, i)' /\ Stood(e)) \/ Released(e)
  BY <1>e DEF Stands, OnHold
<1>a. ASSUME NEW e \in Environments, NEW i \in Ids, NEW t \in Targets, Stands(e, i), Known(e, <<"admitted", i>>, t)
      PROVE  hold[e].target = t
  <2>1. hold[e].target \in Targets /\ Known(e, <<"admitted", i>>, hold[e].target)
    BY <1>a, <1>t, Typed, HoldParts DEF Stands, Known
  <2> QED BY <1>a, <2>1 DEF Ledger, Admissions
<1>1. LedgerRecorded'
  BY <1>t, <1>u, RecordedKept DEF Ledger
<1>2. Admissions'
  <2>1. ASSUME NEW x \in Environments, NEW i, NEW d, Known(x, <<"admitted", i>>, d)'
        PROVE  Known(x, <<"admitted", i>>, d)
    BY <1>e, <1>u, <2>1 DEF Known, OnHold
  <2>2. admitted' = admitted /\ admitted \in Int
    BY <1>t, <1>u DEF TypeOK, Ids
  <2> QED BY <1>t, <1>u, <2>1, <2>2, AdmissionsKept DEF Ledger
<1>3. Entries'
  <2>1. ASSUME NEW e \in Environments, OnHold(e)'
        PROVE  (/\ hold[e].row[1] = "adopted" => Adopts(hold[e], e)
                /\ hold[e].at = Pending => Admits(hold[e])
                /\ hold[e].at # Pending => Begun(hold[e].target, e, hold[e].id))'
    <3>1. CASE Stood(e)
      BY <1>u, <2>1, <3>1 DEF Ledger, Entries, Adopts, Admits, Begun, OnHold
    <3>2. ASSUME NEW c \in s.rows, Took(e, c)
          PROVE  /\ hold'[e].row = <<"adopted", hold'[e].id>> /\ hold'[e].at # Pending
                 /\ Begun(hold[e].target, e, hold[e].id)'
      BY <1>u, <3>2 DEF Begun
    <3> QED BY <1>e, <2>1, <3>1, <3>2 DEF OnHold, Adopts
  <2>2. ASSUME NEW z \in pushes'
        PROVE  (/\ Admits(z.hold) \/ (Adopts(z.hold, z.env) /\ z.outcome \in {Nobody, z.hold.id})
                /\ z.outcome # Nobody => Begun(z.hold.target, z.env, z.outcome))'
    BY <1>m, <1>u DEF Ledger, Entries, Adopts, Admits
  <2>3. \A k \in claims' : Admits(k.hold)
    BY <1>u DEF Ledger, Entries, Admits
  <2>4. ASSUME NEW r \in receipts'
        PROVE  (/\ Admits(r.claim)
                /\ r.outcome # BindingMissing =>
                     /\ Begun(r.claim.target, r.env, r.outcome)
                     /\ SeenSince(Cleanup(r.claim.target, r.env, r.outcome), r.at))'
    BY <1>u, ReceiptStays DEF Admits
  <2> QED BY <2>1, <2>2, <2>3, <2>4 DEF Entries, Admits
<1>4. Materialised'
  <2> SUFFICES ASSUME NEW e \in Environments, OnHold(e)', hold'[e].at # Pending
               PROVE  SeenSince(Cleanup(hold[e].target, e, hold[e].id), hold[e].at + Lag)'
    BY DEF Materialised
  <2>1. CASE Stood(e)
    BY <2>1, HoldStillSeen DEF OnHold
  <2>2. ASSUME NEW c \in s.rows, Took(e, c)
        PROVE  SeenSince(Cleanup(hold[e].target, e, hold[e].id), hold[e].at + Lag)'
    <3>1. PICK d, at : d = Cleanup(hold'[e].target, e, hold'[e].id) /\ at = clock'
      OBVIOUS
    <3>2. SeenSince(d, at)'
      BY <1>t, <1>u, <3>1, SeenNow DEF Ledger
    <3> QED BY <2>2, <3>1, <3>2 DEF SeenSince, Cleanup
  <2> QED BY <1>e, <2>1, <2>2 DEF OnHold
<1>5. OwnedOrHeld'
  BY <1>e, <1>u DEF Ledger, OwnedOrHeld, OnHold
<1>6. Begins'
  <2>1. ASSUME NEW e \in Environments, NEW i \in Ids, NEW t \in Targets,
               MayBegin(t, e, i), ~MayBegin(t, e, i)', Known(e, <<"admitted", i>>, t)
        PROVE  Stands(e, i) /\ hold[e].id # i /\ hold[e].target = t
    <3>1. Stands(e, i) /\ Released(e) /\ ~Begun(t, e, i)
      BY <1>g, <1>m, <2>1 DEF MayBegin
    <3>2. hold[e].target = t
      BY <1>a, <2>1, <3>1
    <3>3. Begun(hold[e].target, e, hold[e].id)
      BY <3>1 DEF Ledger, Entries, Releasable
    <3> QED BY <3>1, <3>2, <3>3
  <2>2. ASSUME NEW p \in pushes', p.outcome = Nobody, Admits(p.hold)
        PROVE  MayBegin(p.hold.target, p.env, p.hold.id)'
    <3>1. p \in pushes /\ p.env \in Environments /\ p.hold.target \in Targets /\ p.hold.id \in Ids
      BY <1>t, <1>u, Typed, HoldParts
    <3>2. MayBegin(p.hold.target, p.env, p.hold.id) /\ Known(p.env, <<"admitted", p.hold.id>>, p.hold.target)
      BY <2>2, <3>1 DEF Ledger, Begins, Known, Admits
    <3>3. ~(Stands(p.env, p.hold.id) /\ hold[p.env].id # p.hold.id)
      BY <2>2, <3>1 DEF Ledger, StandIns, Stands, Admits
    <3> QED BY <2>1, <3>1, <3>2, <3>3
  <2>3. ASSUME NEW k \in claims'
        PROVE  MayBegin(k.hold.target, k.env, k.hold.id)'
    <3>1. k \in claims /\ k.env \in Environments /\ k.hold.target \in Targets /\ k.hold.id \in Ids
      BY <1>t, <1>u, Typed, HoldParts
    <3>2. /\ MayBegin(k.hold.target, k.env, k.hold.id) /\ Known(k.env, <<"admitted", k.hold.id>>, k.hold.target)
          /\ k.hold.row = <<"admitted", k.hold.id>>
      BY <3>1 DEF Ledger, Begins, Entries, Known, Admits
    <3>3. ASSUME ~MayBegin(k.hold.target, k.env, k.hold.id)' PROVE FALSE
      <4>1. Replaced(k.hold.target, k.env, k.hold.id)
        BY <2>1, <3>1, <3>2, <3>3 DEF Ledger, StandIns
      <4>2. StoodIn(Cleanup(k.hold.target, k.env, k.hold.id))
        BY <3>1, <3>2, <4>1 DEF Replaced, Begun, StoodIn, Cleanup, Unledgered
      <4> QED BY <1>m, <3>3, <4>2 DEF MayBegin
    <3> QED BY <3>3
  <2> QED BY <2>2, <2>3 DEF Begins, Admits
<1>7. StandIns'
  <2>1. \A p, q \in pushes' : p.env = q.env /\ Admits(p.hold) /\ q.hold.row = p.hold.row => p = q
    BY <1>u DEF Ledger, StandIns
  <2>2. \A p \in pushes' : Admits(p.hold) /\ p.outcome \notin {Nobody, p.hold.id} =>
          Replaced(p.hold.target, p.env, p.hold.id)'
    BY <1>m, <1>u DEF Ledger, StandIns
  <2>3. ASSUME NEW e \in Environments, NEW i \in Ids, Stands(e, i)', hold'[e].id # i
        PROVE  (/\ Replaced(hold[e].target, e, i)
                /\ \A z \in pushes : z.env = e => z.hold.row # hold[e].row)'
    <3>1. PICK d : d = hold[e].target
      OBVIOUS
    <3>2. hold'[e] = hold[e] /\ Replaced(d, e, i) /\ \A z \in pushes : z.env = e => z.hold.row # hold[e].row
      BY <1>s, <2>3, <3>1 DEF Ledger, StandIns
    <3>3. Replaced(d, e, i)'
      BY <1>m, <3>2
    <3> QED BY <1>u, <3>1, <3>2, <3>3 DEF Replaced, Begun, Claimed, Unledgered
  <2> QED BY <2>1, <2>2, <2>3 DEF StandIns, Admits
<1>c. \A t \in Targets : cursor'[t] = IF t = s.target THEN s.observedAt ELSE cursor[t]
  BY <1>t, <1>u DEF TypeOK
<1>8. Runs'
  <2> SUFFICES ASSUME NEW c \in DOMAIN cleanups', ~Accounted(c)'
               PROVE  Stands(c.env, c.id)' \/ CleanupOver(c)'
    BY DEF Runs
  <2>1. /\ c \in DOMAIN cleanups /\ ~Accounted(c) /\ c.env \in Environments /\ c.target \in Targets /\ c.id \in Ids
        /\ c = Cleanup(c.target, c.env, c.id)
    BY <1>m, <1>t, <1>u, Typed DEF CleanupId
  <2>2. CASE CleanupOver(c)
    <3>1. cursor[c.target] <= cursor'[c.target]
      BY <1>c, <1>t, <1>u, <2>1, Typed DEF Fresh, TypeOK
    <3> QED BY <1>t, <2>1, <2>2, <3>1, OverStays DEF Ledger
  <2>3. CASE Stands(c.env, c.id) /\ Released(c.env)
    <3> DEFINE e == c.env
    <3>1. hold[e].target = c.target
      <4>1. hold[e].target \in Targets /\ Known(e, <<"admitted", c.id>>, hold[e].target)
        BY <1>t, <2>1, <2>3, Typed, HoldParts DEF Stands, Known
      <4> QED BY <2>1, <4>1 DEF Ledger, Admissions, Accounted
    <3>2. hold[e].id = c.id
      <4>1. ASSUME hold[e].id # c.id PROVE FALSE
        <5>1. Replaced(c.target, e, c.id)
          BY <2>1, <2>3, <3>1, <4>1 DEF Ledger, StandIns
        <5>2. StoodIn(c)
          BY <2>1, <5>1 DEF Replaced, Begun, Claimed, StoodIn, Unledgered
        <5> QED BY <2>1, <5>2 DEF Accounted
      <4> QED BY <4>1
    <3>3. /\ c.target = s.target /\ cleanups[c] = "purged"
          /\ \A z \in snapshots : z.target = c.target /\ s.observedAt <= z.observedAt => c \notin z.rows
      <4>1. c \notin early' /\ c = Cleanup(hold[e].target, e, hold[e].id)
        BY <2>1, <3>1, <3>2 DEF Accounted
      <4>2. ~WithinLag(s, e)
        BY <1>t, <2>1, <2>3, <4>1, ReconcileSteps
      <4> QED BY <2>1, <2>3, <4>1, <4>2, ReleasedIsOver
    <3>4. cursor'[c.target] = s.observedAt
      BY <1>c, <2>1, <3>3
    <3>5. ASSUME NEW z \in snapshots', z.target = c.target, z.observedAt > cursor'[c.target]
          PROVE  c \notin z.rows
      <4>1. z.observedAt \in Int /\ s.observedAt \in Int /\ z \in snapshots
        BY <1>t, <1>u, Typed
      <4> QED BY <3>3, <3>4, <3>5, <4>1
    <3> QED BY <1>u, <3>3, <3>5 DEF CleanupOver
  <2> QED BY <1>g, <2>1, <2>2, <2>3 DEF Ledger, Runs
<1>9. NoHoldComesBack'
  <2> SUFFICES ASSUME NEW e \in Environments, OnHold(e)', hold'[e].row[1] = "adopted"
               PROVE  Accounted(Cleanup(hold[e].target, e, hold[e].id))'
    BY DEF NoHoldComesBack
  <2>1. CASE Stood(e)
    BY <2>1, AdoptionStillAccounted DEF OnHold
  <2>2. ASSUME NEW c \in s.rows, Took(e, c)
        PROVE  Accounted(Cleanup(hold[e].target, e, hold[e].id))'
    <3>1. ~Stands(c.env, c.id) /\ ~CleanupOver(c)
      BY <1>u, <2>2 DEF Stands, CleanupOver, Fresh
    <3>2. Accounted(c)
      BY <2>2, <3>1 DEF Ledger, Runs
    <3>3. Accounted(c)' /\ c = Cleanup(hold'[e].target, e, hold'[e].id)
      BY <1>m, <2>2, <3>2
    <3> QED BY <3>3 DEF Accounted, StoodIn, Cleanup, Unledgered
  <2> QED BY <1>e, <2>1, <2>2 DEF OnHold
<1> QED
  BY <1>1, <1>2, <1>3, <1>4, <1>5, <1>6, <1>7, <1>8, <1>9 DEF Ledger
-----------------------------------------------------------------------------
(* The ledger holds from the start, and every step keeps it.                   *)
LEMMA LedgerInit == Init => Ledger
<1> SUFFICES ASSUME Init PROVE Ledger
  OBVIOUS
<1>1. Shape
  BY ShapeInit
<1>2. /\ hold = [e \in Environments |-> Nobody] /\ pushes = {} /\ claims = {} /\ receipts = {}
      /\ snapshots = {}
  BY DEF Init
<1>3. \A e \in Environments : ~OnHold(e)
  BY <1>2 DEF OnHold
<1>4. \A c, d \in DOMAIN cleanups : c.id = 0 /\ c.target = d.target
  <2>1. PICK legacy \in SUBSET Environments, t \in Targets :
          cleanups = [c \in {Cleanup(t, e, 0) : e \in legacy} |-> "active"]
    BY DEF Init
  <2>2. \A e \in legacy : Cleanup(t, e, 0).id = 0 /\ Cleanup(t, e, 0).target = t
    BY DEF Cleanup
  <2> QED BY <2>1, <2>2
<1>5. LedgerRecorded
  BY <1>2, <1>4 DEF LedgerRecorded
<1>6. Admissions
  BY <1>2, <1>3, <1>4 DEF Admissions, Known
<1>7. Entries /\ Materialised /\ OwnedOrHeld /\ NoHoldComesBack
  BY <1>2, <1>3 DEF Entries, Materialised, OwnedOrHeld, NoHoldComesBack
<1>8. Begins /\ StandIns
  BY <1>2, <1>3 DEF Begins, StandIns, Stands
<1>9. Runs
  BY <1>4 DEF Runs, Accounted
<1> QED
  BY <1>1, <1>5, <1>6, <1>7, <1>8, <1>9 DEF Ledger

LEMMA LedgerStep == Ledger /\ [Next]_vars => Ledger'
<1> SUFFICES ASSUME Ledger, [Next]_vars PROVE Ledger'
  OBVIOUS
<1>t. Shape' /\ Growing
  BY ShapeStep, GrowingStep DEF Ledger
<1>1. ASSUME NEW e \in Environments, Ownership(e) PROVE Ledger'
  BY <1>1, <1>t, GrantKeeps, RevokeKeeps DEF Ownership
<1>2. CASE \E c \in DOMAIN cleanups : OwnerPurges(c)
  BY <1>2, <1>t, PurgeKeeps
<1>3. CASE Pushing
  BY <1>3, <1>t, PushCallKeeps, PushRecordKeeps, PushLostKeeps DEF Pushing
<1>4. CASE Working
  BY <1>4, <1>t, LeaseKeeps, ClaimKeeps, WorkerKeeps, ReceiptKeeps DEF Working
<1>5. CASE Reconciling
  BY <1>5, <1>t, ReadKeeps, ReconcileKeeps, SnapshotLostKeeps DEF Reconciling
<1>6. CASE UNCHANGED vars
  BY <1>6, <1>t, StutterKeeps
<1> QED
  BY <1>1, <1>2, <1>3, <1>4, <1>5, <1>6 DEF Next

(* Whoever owns an environment, no clean-up admitted for it still runs: the    *)
(* clean-up runs under its hold, and an owned environment is under none.       *)
LEMMA LedgerCleans == Ledger => OwnedIsClean
<1> SUFFICES ASSUME Ledger, NEW e \in Environments, scope[e] # Nobody, NEW c \in Of(e), ~Accounted(c)
             PROVE  cleanups[c] = "purged"
  BY DEF OwnedIsClean
<1>1. c \in DOMAIN cleanups /\ c.env = e
  BY DEF Of
<1>2. ~Stands(c.env, c.id)
  BY <1>1 DEF Ledger, OwnedOrHeld, Stands
<1> QED
  BY <1>1, <1>2 DEF Ledger, Runs, CleanupOver
-----------------------------------------------------------------------------
(* Claims and answers, whatever the clocks.                                    *)

(* Claims are made of pending holds, and those are admissions.                 *)
Pendings ==
  /\ \A e \in Environments : OnHold(e) =>
       /\ hold[e].at = Pending => hold[e].row[1] = "admitted"
       /\ \A i \in Ids : hold[e].row = <<"admitted", i>> => i <= admitted
  /\ \A k \in claims :
       /\ k.hold.row[1] = "admitted"
       /\ \A i \in Ids : k.hold.row = <<"admitted", i>> => i <= admitted

(* A claim whose lease runs and that is not reported is the one in the hold.   *)
Unreported(k) == ~\E r \in DOMAIN recorded : r.claim.token = k.hold.token

Leased ==
  \A k \in claims : k.live /\ Unreported(k) /\ OnHold(k.env) /\ hold[k.env].row = k.hold.row =>
    /\ hold[k.env].token = k.hold.token /\ hold[k.env].revision = k.hold.revision
    /\ hold[k.env].lease

(* What workers were told is what is recorded.                                 *)
AnsweredAsRecorded == \A a \in told : a.receipt \in DOMAIN recorded /\ recorded[a.receipt] = a.answer

Desk == Shape /\ Pendings /\ Leased /\ AnsweredAsRecorded

(* A hold as a claim sees it.                                                  *)
LeasedAs(e) ==
  \/ hold'[e] = hold[e]
  \/ /\ OnHold(e) /\ hold'[e] # Nobody
     /\ hold'[e].row = hold[e].row /\ hold'[e].token = hold[e].token
     /\ hold'[e].revision = hold[e].revision /\ hold'[e].lease = hold[e].lease
     /\ hold'[e].at = Pending => hold[e].at = Pending

Idle ==
  /\ \A e \in Environments : LeasedAs(e) \/ (OnHold(e) /\ hold'[e] = Nobody)
  /\ UNCHANGED <<claims, admitted, recorded, told>>

LEMMA IdleKeeps ==
  ASSUME Desk, Shape', Idle
  PROVE  Desk'
<1>t. TypeOK
  BY DEF Desk, Shape
<1>1. \A e \in Environments : OnHold(e)' =>
        /\ OnHold(e)
        /\ hold'[e].row = hold[e].row /\ hold'[e].token = hold[e].token
        /\ hold'[e].revision = hold[e].revision /\ hold'[e].lease = hold[e].lease
        /\ hold'[e].at = Pending => hold[e].at = Pending
  BY DEF Idle, LeasedAs, OnHold
<1>2. Pendings'
  BY <1>1 DEF Desk, Pendings, Idle
<1>3. Leased'
  <2>1. \A k \in claims : k.env \in Environments /\ (Unreported(k)' <=> Unreported(k))
    BY <1>t, Typed DEF Idle, Unreported
  <2> QED BY <1>1, <2>1 DEF Desk, Leased, Idle
<1>4. AnsweredAsRecorded'
  BY DEF Desk, AnsweredAsRecorded, Idle
<1> QED
  BY <1>2, <1>3, <1>4 DEF Desk

LEMMA DeskRevoke ==
  ASSUME Desk, Shape', NEW e \in Environments, NEW t \in Targets, NEW tombstone \in BOOLEAN,
         Revoke(t, e, tombstone)
  PROVE  Desk'
<1>t. TypeOK /\ admitted \in Nat
  BY DEF Desk, Shape, TypeOK, Ids
<1>r. /\ \A x \in Environments : x # e => hold'[x] = hold[x]
      /\ \/ OnHold(e) /\ UNCHANGED <<hold, admitted>>
         \/ /\ ~OnHold(e)
            /\ admitted' = admitted + 1 /\ admitted' \in Ids
            /\ hold'[e] = NewHold(t, admitted', tombstone)
      /\ UNCHANGED <<claims, receipts, recorded, told>>
  BY <1>t, RevokeSteps DEF workerVars
<1>1. CASE OnHold(e)
  BY <1>1, <1>r, IdleKeeps DEF Idle, LeasedAs
<1>2. CASE ~OnHold(e)
  <2>n. hold'[e].row = <<"admitted", admitted + 1>> /\ admitted' = admitted + 1 /\ admitted + 1 \in Ids
    BY <1>2, <1>r DEF NewHold
  <2>i. \A i \in Ids : i <= admitted => i <= admitted'
    BY <1>t, <2>n DEF Ids
  <2>1. Pendings'
    <3>1. ASSUME NEW x \in Environments, OnHold(x)'
          PROVE  /\ hold'[x].at = Pending => hold'[x].row[1] = "admitted"
                 /\ \A i \in Ids : hold'[x].row = <<"admitted", i>> => i <= admitted'
      <4>1. CASE x = e
        BY <1>t, <2>n, <4>1
      <4>2. CASE x # e
        BY <1>r, <2>i, <3>1, <4>2 DEF Desk, Pendings, OnHold
      <4> QED BY <4>1, <4>2
    <3>2. \A k \in claims' : /\ k.hold.row[1] = "admitted"
                             /\ \A i \in Ids : k.hold.row = <<"admitted", i>> => i <= admitted'
      BY <1>r, <2>i DEF Desk, Pendings
    <3> QED BY <3>1, <3>2 DEF Pendings
  <2>2. Leased'
    <3>1. \A k \in claims : k.env \in Environments /\ (Unreported(k)' <=> Unreported(k))
      BY <1>r, <1>t, Typed DEF Unreported
    <3>2. \A k \in claims : k.hold.row # <<"admitted", admitted + 1>>
      BY <1>t, <2>n DEF Desk, Pendings
    <3> QED BY <1>r, <2>n, <3>1, <3>2 DEF Desk, Leased, OnHold
  <2>3. AnsweredAsRecorded'
    BY <1>r DEF Desk, AnsweredAsRecorded
  <2> QED BY <2>1, <2>2, <2>3 DEF Desk
<1> QED
  BY <1>1, <1>2

LEMMA DeskPushRecord ==
  ASSUME Desk, Shape', NEW p \in pushes, PushRecord(p)
  PROVE  Desk'
<1>t. TypeOK
  BY DEF Desk, Shape
<1>1. ASSUME NEW e \in Environments PROVE LeasedAs(e)
  <2>1. CASE hold'[e] = hold[e]
    BY <2>1 DEF LeasedAs
  <2>2. CASE hold'[e] # hold[e]
    <3>1. /\ e = p.env /\ Noted(p) /\ hold'[e] # Nobody
          /\ hold'[e] = [hold[e] EXCEPT !.id = p.outcome, !.at = DatabaseNow]
      BY <1>t, <2>2, PushRecordSteps
    <3>2. OnHold(e) /\ hold[e] \in Hold
      BY <1>t, <3>1, Typed DEF Noted
    <3>3. DatabaseNow # Pending
      BY <1>t, StampStep, AdmissionAssumption DEF PushRecord, DatabaseNow, Pending
    <3> QED BY <3>1, <3>2, <3>3 DEF Hold, LeasedAs
  <2> QED BY <2>1, <2>2
<1>2. Idle
  BY <1>1, <1>t, PushRecordSteps DEF Idle, workerVars
<1> QED
  BY <1>2, IdleKeeps

(* A claim is made where no lease runs, so it takes none away.                 *)
LEMMA DeskClaim ==
  ASSUME Desk, Shape', NEW e \in Environments, NEW t \in Targets, Claim(t, e)
  PROVE  Desk'
<1>t. TypeOK
  BY DEF Desk, Shape
<1>c. /\ OnHold(e) /\ hold[e] \in Hold /\ hold[e].at = Pending /\ ~hold[e].lease /\ hold'[e] # Nobody
      /\ \A x \in Environments : x # e => hold'[x] = hold[x]
      /\ claims' = claims \cup {[env |-> e, hold |-> hold'[e], live |-> TRUE]}
      /\ UNCHANGED <<admitted, receipts, recorded, told>>
  BY ClaimSteps DEF Desk, Due
<1>v. hold'[e].row = hold[e].row /\ hold'[e].at = hold[e].at /\ hold'[e].lease = TRUE
  <2>1. PICK revision \in Nat \ {0}, token \in Nat \X Nat :
              hold'[e] = [hold[e] EXCEPT !.revision = revision, !.token = token, !.lease = TRUE]
    BY ClaimSteps DEF Desk
  <2> QED BY <1>c, <2>1 DEF Hold
<1>m. PICK m : m.env = e /\ m.hold = hold'[e] /\ claims' = claims \cup {m}
  BY <1>c
<1>1. Pendings'
  <2>1. ASSUME NEW x \in Environments, OnHold(x)'
        PROVE  /\ hold'[x].at = Pending => hold'[x].row[1] = "admitted"
               /\ \A i \in Ids : hold'[x].row = <<"admitted", i>> => i <= admitted'
    BY <1>c, <1>v, <2>1 DEF Desk, Pendings, OnHold
  <2>2. ASSUME NEW k \in claims'
        PROVE  /\ k.hold.row[1] = "admitted"
               /\ \A i \in Ids : k.hold.row = <<"admitted", i>> => i <= admitted'
    BY <1>c, <1>m, <1>v DEF Desk, Pendings
  <2> QED BY <2>1, <2>2 DEF Pendings
<1>2. Leased'
  <2> SUFFICES ASSUME NEW k \in claims', k.live, Unreported(k)', OnHold(k.env)', hold'[k.env].row = k.hold.row
               PROVE  /\ hold'[k.env].token = k.hold.token /\ hold'[k.env].revision = k.hold.revision
                      /\ hold'[k.env].lease
    BY DEF Leased
  <2>1. CASE k = m
    BY <1>m, <1>v, <2>1
  <2>2. CASE k \in claims /\ k.env # e
    <3>1. k.env \in Environments /\ Unreported(k) /\ hold'[k.env] = hold[k.env] /\ OnHold(k.env)
      BY <1>c, <1>t, <2>2, Typed DEF Unreported, OnHold
    <3> QED BY <2>2, <3>1 DEF Desk, Leased
  <2>3. CASE k \in claims /\ k.env = e
    <3>1. Unreported(k) /\ OnHold(k.env) /\ hold[k.env].row = k.hold.row
      BY <1>c, <1>v, <2>3 DEF Unreported
    <3>2. hold[k.env].lease
      BY <2>3, <3>1 DEF Desk, Leased
    <3> QED BY <1>c, <2>3, <3>2
  <2> QED BY <1>m, <2>1, <2>2, <2>3
<1>3. AnsweredAsRecorded'
  BY <1>c DEF Desk, AnsweredAsRecorded
<1> QED
  BY <1>1, <1>2, <1>3 DEF Desk

LEMMA DeskLease ==
  ASSUME Desk, Shape', NEW e \in Environments, LeaseExpires(e)
  PROVE  Desk'
<1>t. TypeOK
  BY DEF Desk, Shape
<1>c. /\ OnHold(e) /\ hold[e] \in Hold /\ hold'[e] # Nobody
      /\ \A x \in Environments : x # e => hold'[x] = hold[x]
      /\ \A k \in claims' : \E c \in claims :
           /\ k.env = c.env /\ k.hold = c.hold
           /\ k.live => c.live /\ c.hold.token # hold[e].token
      /\ UNCHANGED <<admitted, receipts, recorded, told>>
  BY <1>t, LeaseSteps
<1>v. /\ hold'[e].row = hold[e].row /\ hold'[e].at = hold[e].at /\ hold'[e].token = hold[e].token
      /\ hold'[e].revision = hold[e].revision
  <2>1. hold'[e] = [hold[e] EXCEPT !.lease = FALSE]
    BY <1>t, LeaseSteps
  <2> QED BY <1>c, <2>1 DEF Hold
<1>1. Pendings'
  BY <1>c, <1>v DEF Desk, Pendings, OnHold
<1>2. Leased'
  <2> SUFFICES ASSUME NEW k \in claims', k.live, Unreported(k)', OnHold(k.env)', hold'[k.env].row = k.hold.row
               PROVE  /\ hold'[k.env].token = k.hold.token /\ hold'[k.env].revision = k.hold.revision
                      /\ hold'[k.env].lease
    BY DEF Leased
  <2>1. PICK c \in claims : /\ k.env = c.env /\ k.hold = c.hold /\ c.live /\ c.hold.token # hold[e].token
    BY <1>c
  <2>2. c.env \in Environments /\ Unreported(c)
    BY <1>c, <1>t, <2>1, Typed DEF Unreported
  <2>3. CASE c.env = e
    BY <1>c, <1>v, <2>1, <2>2, <2>3 DEF Desk, Leased
  <2>4. CASE c.env # e
    BY <1>c, <2>1, <2>2, <2>4 DEF Desk, Leased, OnHold
  <2> QED BY <2>3, <2>4
<1>3. AnsweredAsRecorded'
  BY <1>c DEF Desk, AnsweredAsRecorded
<1> QED
  BY <1>1, <1>2, <1>3 DEF Desk

(* A receipt takes a lease away only from the claim it reports.                *)
LEMMA DeskReceipt ==
  ASSUME Desk, Shape', NEW r \in receipts, RecordReceipt(r)
  PROVE  Desk'
<1>t. TypeOK
  BY DEF Desk, Shape
<1>c. UNCHANGED <<admitted, claims, receipts>>
  BY <1>t, ReceiptSteps
<1>h. ASSUME NEW e \in Environments, hold'[e] # hold[e]
      PROVE  /\ OnHold(e) /\ hold'[e] # Nobody /\ hold'[e].row = hold[e].row /\ hold[e].at = Pending
             /\ hold[e].token = r.claim.token /\ r \in DOMAIN recorded' /\ e = r.env
  <2>1. e = r.env /\ StandsFor(r) /\ Reported(r, hold[e], hold'[e]) /\ hold'[e] # Nobody /\ r \in DOMAIN recorded'
    BY <1>h, <1>t, ReceiptSteps
  <2> QED BY <2>1 DEF StandsFor, Reported
<1>d. /\ DOMAIN recorded \subseteq DOMAIN recorded'
      /\ \A x \in DOMAIN recorded : recorded'[x] = recorded[x]
      /\ \A a \in told' : a \in told \/ (a.receipt = r /\ r \in DOMAIN recorded' /\ recorded'[r] = a.answer)
  <2>1. CASE Seen(r)
    BY <2>1 DEF RecordReceipt, Seen
  <2>2. CASE ~Seen(r)
    BY <2>2 DEF RecordReceipt, Seen
  <2> QED BY <2>1, <2>2
<1>1. Pendings'
  <2>1. ASSUME NEW e \in Environments, OnHold(e)'
        PROVE  /\ hold'[e].at = Pending => hold'[e].row[1] = "admitted"
               /\ \A i \in Ids : hold'[e].row = <<"admitted", i>> => i <= admitted'
    <3>1. CASE hold'[e] = hold[e]
      BY <1>c, <2>1, <3>1 DEF Desk, Pendings, OnHold
    <3>2. CASE hold'[e] # hold[e]
      BY <1>c, <1>h, <3>2 DEF Desk, Pendings
    <3> QED BY <3>1, <3>2
  <2> QED BY <1>c, <2>1 DEF Desk, Pendings
<1>2. Leased'
  <2> SUFFICES ASSUME NEW k \in claims', k.live, Unreported(k)', OnHold(k.env)', hold'[k.env].row = k.hold.row
               PROVE  /\ hold'[k.env].token = k.hold.token /\ hold'[k.env].revision = k.hold.revision
                      /\ hold'[k.env].lease
    BY DEF Leased
  <2>1. k \in claims /\ k.env \in Environments /\ Unreported(k)
    BY <1>c, <1>d, <1>t, Typed DEF Unreported
  <2>2. CASE hold'[k.env] = hold[k.env]
    BY <2>1, <2>2 DEF Desk, Leased, OnHold
  <2>3. CASE hold'[k.env] # hold[k.env]
    <3>1. /\ OnHold(k.env) /\ hold[k.env].row = k.hold.row
          /\ hold[k.env].token = r.claim.token /\ r \in DOMAIN recorded'
      BY <1>h, <2>1, <2>3
    <3>2. r.claim.token = k.hold.token
      BY <2>1, <3>1 DEF Desk, Leased
    <3> QED BY <3>1, <3>2 DEF Unreported
  <2> QED BY <2>2, <2>3
<1>3. AnsweredAsRecorded'
  BY <1>d DEF Desk, AnsweredAsRecorded
<1> QED
  BY <1>1, <1>2, <1>3 DEF Desk

(* A hold that is adopted is no claim's.                                       *)
LEMMA DeskReconcile ==
  ASSUME Desk, Shape', NEW s \in snapshots, Reconcile(s)
  PROVE  Desk'
<1>t. TypeOK
  BY DEF Desk, Shape
<1>c. UNCHANGED <<admitted, claims, receipts, recorded, told>>
  BY <1>t, ReconcileSteps DEF workerVars
<1>e. ASSUME NEW e \in Environments, hold'[e] # hold[e], OnHold(e)'
      PROVE  hold'[e].row[1] = "adopted" /\ hold'[e].at # Pending
  <2>1. PICK c \in s.rows : hold'[e] = Adopted(s, c)
    BY <1>e, <1>t, ReconcileSteps DEF OnHold
  <2>2. DatabaseNow # Pending
    BY <1>t, StampStep, AdmissionAssumption DEF Reconcile, DatabaseNow, Pending
  <2> QED BY <2>1, <2>2 DEF Adopted
<1>1. Pendings'
  <2>1. ASSUME NEW e \in Environments, OnHold(e)'
        PROVE  /\ hold'[e].at = Pending => hold'[e].row[1] = "admitted"
               /\ \A i \in Ids : hold'[e].row = <<"admitted", i>> => i <= admitted'
    <3>1. CASE hold'[e] = hold[e]
      BY <1>c, <2>1, <3>1 DEF Desk, Pendings, OnHold
    <3>2. CASE hold'[e] # hold[e]
      BY <1>e, <2>1, <3>2
    <3> QED BY <3>1, <3>2
  <2> QED BY <1>c, <2>1 DEF Desk, Pendings
<1>2. Leased'
  <2>1. ASSUME NEW k \in claims, hold'[k.env].row = k.hold.row, OnHold(k.env)'
        PROVE  hold'[k.env] = hold[k.env] /\ OnHold(k.env) /\ (Unreported(k)' => Unreported(k))
    <3>1. k.env \in Environments /\ k.hold.row[1] = "admitted"
      BY <1>t, Typed DEF Desk, Pendings
    <3>2. hold'[k.env] = hold[k.env]
      BY <1>e, <2>1, <3>1
    <3> QED BY <1>c, <2>1, <3>2 DEF OnHold, Unreported
  <2> QED BY <1>c, <2>1 DEF Desk, Leased
<1>3. AnsweredAsRecorded'
  BY <1>c DEF Desk, AnsweredAsRecorded
<1> QED
  BY <1>1, <1>2, <1>3 DEF Desk

LEMMA DeskInit == Init => Desk
<1> SUFFICES ASSUME Init PROVE Desk
  OBVIOUS
<1>1. \A e \in Environments : ~OnHold(e)
  BY DEF Init, OnHold
<1> QED
  BY <1>1, ShapeInit DEF Init, Desk, Pendings, Leased, AnsweredAsRecorded

LEMMA DeskStep == Desk /\ [Next]_vars => Desk'
<1> SUFFICES ASSUME Desk, [Next]_vars PROVE Desk'
  OBVIOUS
<1>t. Shape'
  BY ShapeStep DEF Desk
<1>i. UNCHANGED <<hold, claims, admitted, recorded, told>> => Desk'
  BY <1>t, IdleKeeps DEF Idle, LeasedAs
<1>1. ASSUME NEW e \in Environments, Ownership(e) PROVE Desk'
  <2>1. CASE \E u \in Customers : Grant(e, u)
    BY <1>i, <2>1 DEF Grant, workerVars
  <2> QED BY <1>1, <1>t, <2>1, DeskRevoke DEF Ownership
<1>2. CASE \E c \in DOMAIN cleanups : OwnerPurges(c)
  BY <1>2, <1>i DEF OwnerPurges, apiVars, workerVars
<1>3. ASSUME NEW p \in pushes, PushCall(p) \/ PushRecord(p) \/ PushLost(p) PROVE Desk'
  <2>1. CASE PushCall(p) \/ PushLost(p)
    BY <1>i, <2>1 DEF PushCall, PushLost, apiVars, workerVars
  <2> QED BY <1>3, <1>t, <2>1, DeskPushRecord
<1>4. CASE Working
  <2>1. CASE \E c \in claims : WorkerMaterialises(c)
    BY <1>i, <2>1 DEF WorkerMaterialises, apiVars
  <2> QED BY <1>4, <1>t, <2>1, DeskLease, DeskClaim, DeskReceipt DEF Working
<1>5. CASE Reconciling
  <2>1. CASE (\E t \in Targets : ReadSnapshot(t)) \/ (\E s \in snapshots : SnapshotLost(s))
    BY <1>i, <2>1 DEF ReadSnapshot, SnapshotLost, apiVars, workerVars
  <2> QED BY <1>5, <1>t, <2>1, DeskReconcile DEF Reconciling
<1>6. CASE UNCHANGED vars
  BY <1>6, <1>i DEF vars
<1> QED
  BY <1>1, <1>2, <1>3, <1>4, <1>5, <1>6 DEF Next, Pushing

LEMMA DeskHolds == Desk => LiveClaimStands /\ SameAnswerAgain
<1> SUFFICES ASSUME Desk PROVE LiveClaimStands /\ SameAnswerAgain
  OBVIOUS
<1>1. LiveClaimStands
  BY DEF Desk, Leased, Unreported, LiveClaimStands
<1>2. SameAnswerAgain
  BY DEF Desk, AnsweredAsRecorded, SameAnswerAgain
<1> QED
  BY <1>1, <1>2

(* Whatever the clocks do, a worker's claim stands while its lease runs and it *)
(* has not reported (claimPendingMaterializations, recordMaterialization-      *)
(* Receipt).                                                                   *)
THEOREM ClaimsStand == Spec => []LiveClaimStands
BY DeskInit, DeskStep, DeskHolds, PTL DEF Spec

(* Whatever the clocks do, a receipt that is sent again is answered the same   *)
(* (client_env_admission_command_receipts).                                    *)
THEOREM AnswersStand == Spec => []SameAnswerAgain
BY DeskInit, DeskStep, DeskHolds, PTL DEF Spec

(* An environment is given only clean, no late snapshot brings a hold back,    *)
(* the claims stand and the answers are the same, however far the clock of the *)
(* API's database is behind: what it releases within that time is accounted.   *)
THEOREM LedgerHolds == Spec => []HoldsStand
<1>1. Ledger /\ Desk => HoldsStand
  BY LedgerCleans, DeskHolds DEF Ledger, HoldsStand
<1> QED
  BY <1>1, LedgerInit, LedgerStep, DeskInit, DeskStep, PTL DEF Spec

(* And no hold is released before its own clean-up has begun and is over,      *)
(* except within that time (reconcileActiveOffboardSnapshot).                  *)
LEMMA OnlyReconcileReleases ==
  ASSUME Ledger, [Next]_vars, NEW e \in Environments, OnHold(e), hold'[e] = Nobody
  PROVE  \E s \in snapshots : Reconcile(s) /\ ~Names(s, e) /\ Releasable(s, e)
<1>t. TypeOK
  BY DEF Ledger, Shape
<1>k. hold'[e] # hold[e]
  BY DEF OnHold
<1>1. ASSUME NEW x \in Environments, Ownership(x) PROVE FALSE
  <2>1. CASE \E u \in Customers : Grant(x, u)
    BY <1>k, <2>1 DEF Grant
  <2>2. ASSUME NEW t \in Targets, NEW tombstone \in BOOLEAN, Revoke(t, x, tombstone) PROVE FALSE
    BY <1>k, <1>t, <2>2, RevokeSteps
  <2> QED BY <1>1, <2>1, <2>2 DEF Ownership
<1>2. ASSUME NEW c \in DOMAIN cleanups, OwnerPurges(c) PROVE FALSE
  BY <1>2, <1>k DEF OwnerPurges, apiVars
<1>3. ASSUME NEW p \in pushes, PushCall(p) \/ PushRecord(p) \/ PushLost(p) PROVE FALSE
  <2>1. CASE PushCall(p) \/ PushLost(p)
    BY <1>k, <2>1 DEF PushCall, PushLost, apiVars
  <2>2. CASE PushRecord(p)
    BY <1>k, <1>t, <2>2, PushRecordSteps
  <2> QED BY <1>3, <2>1, <2>2
<1>4. CASE Working
  <2>1. ASSUME NEW x \in Environments, LeaseExpires(x) PROVE FALSE
    BY <1>k, <1>t, <2>1, LeaseSteps
  <2>2. ASSUME NEW x \in Environments, NEW t \in Targets, Claim(t, x) PROVE FALSE
    BY <1>k, <2>2, ClaimSteps DEF Ledger
  <2>3. ASSUME NEW k \in claims, WorkerMaterialises(k) PROVE FALSE
    BY <1>k, <2>3 DEF WorkerMaterialises, apiVars
  <2>4. ASSUME NEW r \in receipts, RecordReceipt(r) PROVE FALSE
    BY <1>k, <1>t, <2>4, ReceiptSteps
  <2> QED BY <1>4, <2>1, <2>2, <2>3, <2>4 DEF Working
<1>5. CASE Reconciling
  <2>1. ASSUME NEW s \in snapshots, Reconcile(s) PROVE Reconcile(s) /\ ~Names(s, e) /\ Releasable(s, e)
    BY <1>k, <1>t, <2>1, ReconcileSteps, NobodyAssumption
  <2> QED BY <1>5, <1>k, <2>1 DEF Reconciling, ReadSnapshot, SnapshotLost, apiVars
<1>6. CASE UNCHANGED vars
  BY <1>6, <1>k DEF vars
<1> QED
  BY <1>1, <1>2, <1>3, <1>4, <1>5, <1>6 DEF Next, Pushing

LEMMA ReleaseEarned ==
  ASSUME Ledger, [Next]_vars, NEW e \in Environments, OnHold(e), hold'[e] = Nobody,
         NEW c, c = Cleanup(hold[e].target, e, hold[e].id)
  PROVE  c \in DOMAIN cleanups /\ (cleanups[c] = "purged" \/ c \in early')
<1>1. PICK s \in snapshots : Reconcile(s) /\ ~Names(s, e) /\ Releasable(s, e)
  BY OnlyReconcileReleases
<1>2. c \in DOMAIN cleanups
  BY <1>1 DEF Ledger, Entries, Begun, Releasable
<1>3. CASE WithinLag(s, e)
  <2>1. c \in early'
    BY <1>1, <1>3, ReconcileSteps DEF Ledger, Shape
  <2> QED BY <1>2, <2>1
<1>4. CASE ~WithinLag(s, e)
  BY <1>1, <1>4, ReleasedIsOver
<1> QED BY <1>3, <1>4

THEOREM ReleasesAreEarned == Spec => ReleasedWhenPurged
<1> DEFINE Earned == \A e \in Environments : OnHold(e) /\ hold'[e] = Nobody =>
                       LET c == Cleanup(hold[e].target, e, hold[e].id)
                       IN  c \in DOMAIN cleanups /\ (cleanups[c] = "purged" \/ c \in early')
<1>1. Ledger /\ [Next]_vars => [Earned]_vars
  BY ReleaseEarned
<1> HIDE DEF Earned
<1>2. Spec => [][Earned]_vars
  BY <1>1, LedgerInit, LedgerStep, PTL DEF Spec
<1> QED
  BY <1>2, PTL DEF ReleasedWhenPurged, Earned
=============================================================================
