-------------------------- MODULE ConfigurationProofs --------------------------
(* Theorems about how configuration reaches those who act on it, for any keys, *)
(* gates, limits, processes, requests and patches: the shape of each part, that *)
(* copies hold what was committed and recorded, that calls act once and only   *)
(* while they may, and what no write may do.                                   *)
(*                                                                             *)
(* The parts share no variable, so each has an inductive invariant of its own. *)
EXTENDS Configuration, FiniteSetTheorems, TLAPS

-----------------------------------------------------------------------------
(* The refresher.                                                              *)

Times == 0..Never
MirrorState == [known: Nat, base: Nat, compared: Times, failing: Times, noticed: Times, alerted: BOOLEAN]
Bucket == [noted: Nat, pending: Nat, written: Nat, lost: Nat, flushed: Times]
RoundState == [at: {"idle", "reading", "reloading"}, read: [Keys -> Nat], todo: SUBSET Keys, ticks: Nat, longest: Nat]

MirTyped ==
  /\ mirNow \in 0..MaxTime
  /\ mirOn \in {"starting", "on", "stopped"}
  /\ mirVersion \in [Keys -> Nat] /\ mirCopy \in [Keys -> Nat]
  /\ mirRound \in RoundState
  /\ mirRound.todo # {} => mirRound.at = "reloading"
  /\ mirState \in [Keys -> MirrorState]
  /\ mirRefusal \in [Keys -> Bucket]

(* A signal is of a key that another service writes.                           *)
SignalsFit ==
  /\ IsFiniteSet(mirOutbox) /\ mirInbox \subseteq mirOutbox
  /\ \A s \in mirOutbox : s[1] \in Keys \ ApiOwned

(* Nothing that was read, recorded or loaded is ahead of the table.            *)
VersionsFit ==
  \A k \in Keys :
    /\ mirCopy[k] <= mirVersion[k] /\ mirRound.read[k] <= mirVersion[k]
    /\ mirState[k].known <= mirVersion[k]

(* A copy found behind was either found so by the round under way, when it was *)
(* last compared, or its first reload failed within a round that has ended.    *)
JustNoticed(s) ==
  /\ mirRound.at = "reloading" /\ s.compared = s.noticed
  /\ mirNow - s.noticed <= mirRound.ticks
Timed(s, waits) ==
  /\ s.failing # Never => s.noticed # Never /\ s.noticed <= s.failing /\ s.failing <= mirNow
  /\ s.noticed # Never =>
       /\ s.noticed <= mirNow
       /\ s.failing = Never => waits
       /\ JustNoticed(s) \/ (s.failing # Never /\ s.failing <= s.noticed + mirRound.longest)
Waits(k) == mirRound.at = "reloading" /\ k \in mirRound.todo
NoticedInTime ==
  \A k \in Keys : Timed(mirState[k], Waits(k)) /\ (Waits(k) => mirState[k].noticed # Never)

MirInv ==
  /\ MirTyped /\ SignalsFit /\ VersionsFit /\ NoticedInTime
  /\ SignalMovesOnce /\ RecordedIsLoaded /\ RefusalsAccounted

LEMMA MirParts == MirInv => MirTypeOK /\ KnownBehindTurnsStale
<1> SUFFICES ASSUME MirInv PROVE MirTypeOK /\ KnownBehindTurnsStale OBVIOUS
<1>0. MirTyped /\ VersionsFit /\ NoticedInTime /\ SignalsFit BY DEF MirInv
<1>1. ASSUME NEW k \in Keys
      PROVE /\ mirState[k] \in MirrorState /\ mirCopy[k] \in 0..mirVersion[k]
            /\ mirState[k].known \in 0..mirVersion[k]
  <2>1. mirState[k] \in MirrorState /\ mirCopy[k] \in Nat /\ mirVersion[k] \in Nat BY <1>0 DEF MirTyped
  <2>2. mirState[k].known \in Nat BY <2>1 DEF MirrorState
  <2>3. mirCopy[k] <= mirVersion[k] /\ mirState[k].known <= mirVersion[k] BY <1>0 DEF VersionsFit
  <2> QED BY <2>1, <2>2, <2>3
<1>2. MirTypeOK BY <1>0, <1>1 DEF MirTypeOK, MirTyped, SignalsFit, RoundState
<1>3. ASSUME NEW k \in Gates, mirState[k].noticed # Never, ~StaleGate(k)
      PROVE mirNow - mirState[k].noticed <= StaleAfter + mirRound.longest
  <2> DEFINE s == mirState[k]
  <2>1. k \in Keys BY MirrorAssumption
  <2>2. s.failing \in Times /\ s.noticed \in Times /\ s.compared \in Times BY <2>1, <1>1 DEF MirrorState
  <2>3. mirNow \in Nat /\ mirRound.longest \in Nat /\ MaxTime \in Nat /\ StaleAfter \in Nat
    BY <1>0, MirrorAssumption DEF MirTyped, RoundState
  <2>4. /\ s.failing # Never => mirNow - s.failing <= AgeOf(s)
        /\ s.compared # Never => mirNow - s.compared <= AgeOf(s)
    BY <2>2, <2>3 DEF AgeOf, MaxOf, Since, Never, Times
  <2>5. AgeOf(s) <= StaleAfter
    <3>1. AgeOf(s) \in Int BY <2>2, <2>3 DEF AgeOf, MaxOf, Since, Never, Times
    <3> QED BY <3>1, <1>3, <2>3 DEF StaleGate, StaleCopy
  <2>6. Timed(s, Waits(k)) BY <1>0, <2>1 DEF NoticedInTime
  <2>7. AgeOf(s) \in Int BY <2>2, <2>3 DEF AgeOf, MaxOf, Since, Never, Times
  <2> HIDE DEF s
  <2>8. s.noticed # Never BY <1>3 DEF s
  <2>9. CASE JustNoticed(s)
    <3>1. s.compared = s.noticed BY <2>9 DEF JustNoticed
    <3>2. mirNow - s.noticed <= StaleAfter BY <2>2, <2>3, <2>4, <2>5, <2>7, <2>8, <3>1 DEF Times, Never
    <3> QED BY <2>2, <2>3, <3>2 DEF s, Times, Never
  <2>10. CASE s.failing # Never /\ s.failing <= s.noticed + mirRound.longest
    <3>1. mirNow - s.failing <= StaleAfter BY <2>2, <2>3, <2>4, <2>5, <2>7, <2>10 DEF Times, Never
    <3> QED BY <2>2, <2>3, <2>10, <3>1 DEF s, Times, Never
  <2> QED BY <2>6, <2>8, <2>9, <2>10 DEF Timed
<1> QED BY <1>2, <1>3 DEF KnownBehindTurnsStale

(* What is due is counted once, as written or as lost.                         *)
Accounted(b) == b.noted = b.pending + b.written + b.lost
LEMMA FlushCounts ==
  ASSUME NEW b \in Bucket, Accounted(b), NEW force \in BOOLEAN, NEW kept \in BOOLEAN, mirNow \in Times
  PROVE  /\ Flushed(b, force, kept) \in Bucket /\ Accounted(Flushed(b, force, kept))
         /\ b.pending = 0 => Flushed(b, force, kept).pending = 0
         /\ force => Flushed(b, force, kept).pending = 0
<1>1. CASE ~FlushDue(b, force)
  BY <1>1 DEF Flushed, FlushDue, Bucket
<1>2. /\ Recorded(b, kept) \in Bucket /\ Accounted(Recorded(b, kept)) /\ Recorded(b, kept).pending = 0
  <2>1. b.noted \in Nat /\ b.pending \in Nat /\ b.written \in Nat /\ b.lost \in Nat BY DEF Bucket
  <2> DEFINE w == IF kept THEN b.written + b.pending ELSE b.written
             l == IF kept THEN b.lost ELSE b.lost + b.pending
  <2>2. Recorded(b, kept) = [noted |-> b.noted, pending |-> 0, written |-> w, lost |-> l, flushed |-> mirNow]
    BY DEF Recorded, Bucket
  <2>3. w \in Nat /\ l \in Nat /\ b.noted = w + l BY <2>1 DEF Accounted
  <2> HIDE DEF w, l
  <2> QED BY <2>1, <2>2, <2>3 DEF Bucket, Accounted
<1>3. FlushDue(b, force) => Flushed(b, force, kept) = Recorded(b, kept) BY DEF Flushed
<1> QED BY <1>1, <1>2, <1>3

Refusals(refusal) ==
  /\ refusal \in [Keys -> Bucket]
  /\ \A k \in Keys : Accounted(refusal[k]) /\ (mirOn = "stopped" => refusal[k].pending = 0)
LEMMA FlushAllCounts ==
  ASSUME Refusals(mirRefusal), NEW force \in BOOLEAN, NEW kept \in BOOLEAN, mirNow \in Times
  PROVE  /\ Refusals(FlushAll(force, kept))
         /\ force => \A k \in Keys : FlushAll(force, kept)[k].pending = 0
<1>1. \A k \in Keys : /\ Flushed(mirRefusal[k], force, kept) \in Bucket /\ Accounted(Flushed(mirRefusal[k], force, kept))
                      /\ mirRefusal[k].pending = 0 => Flushed(mirRefusal[k], force, kept).pending = 0
                      /\ force => Flushed(mirRefusal[k], force, kept).pending = 0
  BY FlushCounts DEF Refusals
<1> QED BY <1>1 DEF Refusals, FlushAll

(* Evaluating the ages changes an alert at most.                               *)
Same(s, t) == /\ t.known = s.known /\ t.base = s.base /\ t.failing = s.failing /\ t.noticed = s.noticed
LEMMA EvaluatedSame ==
  ASSUME NEW s \in MirrorState PROVE Evaluated(s) \in MirrorState /\ Same(s, Evaluated(s))
BY DEF Evaluated, Same, MirrorState

LEMMA RoundEnded ==
  ASSUME mirRound \in RoundState
  PROVE  /\ Ended \in RoundState /\ Ended.at = "idle" /\ Ended.todo = {}
         /\ \A k \in Keys : Ended.read[k] = 0
         /\ mirRound.longest <= Ended.longest /\ mirRound.ticks <= Ended.longest
<1> DEFINE m == MaxOf(mirRound.longest, mirRound.ticks)
<1>1. m \in Nat /\ mirRound.longest <= m /\ mirRound.ticks <= m BY DEF RoundState, MaxOf
<1>2. Ended = [at |-> "idle", read |-> [k \in Keys |-> 0], todo |-> {}, ticks |-> 0, longest |-> m] BY DEF Ended, Idle
<1> HIDE DEF m
<1> QED BY <1>1, <1>2 DEF RoundState

LEMMA EndOfRound ==
  ASSUME Refusals(mirRefusal), mirNow \in Times, mirRound \in RoundState,
         NEW states \in [Keys -> MirrorState], EndRound(states)
  PROVE  /\ mirState' \in [Keys -> MirrorState] /\ \A k \in Keys : Same(states[k], mirState'[k])
         /\ Refusals(mirRefusal') /\ mirRound' = Ended /\ Ended \in RoundState
<1>1. PICK kept \in BOOLEAN : mirRefusal' = FlushAll(FALSE, kept) BY DEF EndRound
<1>2. Refusals(mirRefusal') BY <1>1, FlushAllCounts
<1>3. \A k \in Keys : Evaluated(states[k]) \in MirrorState /\ Same(states[k], Evaluated(states[k]))
  BY EvaluatedSame
<1>4. mirState' = [k \in Keys |-> Evaluated(states[k])] /\ mirRound' = Ended BY DEF EndRound
<1>5. Ended \in RoundState BY RoundEnded
<1>6. mirState' \in [Keys -> MirrorState] /\ \A k \in Keys : Same(states[k], mirState'[k]) BY <1>3, <1>4
<1> QED BY <1>2, <1>4, <1>5, <1>6

Facts ==
  /\ MaxTime \in Nat /\ StaleAfter \in Nat /\ mirNow \in Nat /\ mirNow \in Times
  /\ mirNow <= MaxTime /\ Never \in Nat /\ mirNow # Never
LEMMA MirFacts == MirInv => Facts /\ Refusals(mirRefusal)
<1> SUFFICES ASSUME MirInv PROVE Facts /\ Refusals(mirRefusal) OBVIOUS
<1>1. MirTyped /\ RefusalsAccounted BY DEF MirInv
<1>2. Facts BY <1>1, MirrorAssumption DEF Facts, MirTyped, Times, Never
<1>3. Refusals(mirRefusal) BY <1>1 DEF MirTyped, RefusalsAccounted, Refusals, Accounted
<1> QED BY <1>2, <1>3

(* What a key's state must be once no round is under way.                      *)
Settled(s, cop, ver) ==
  /\ s \in MirrorState /\ cop \in Nat /\ cop <= ver /\ s.known <= ver
  /\ s.known # s.base => cop >= s.known
  /\ Timed(s, FALSE)

LEMMA RoundEnds ==
  ASSUME MirInv, NEW states \in [Keys -> MirrorState], EndRound(states),
         UNCHANGED <<mirNow, mirVersion, mirOutbox, mirInbox>>,
         mirOn' \in {"starting", "on", "stopped"}, mirOn' = "stopped" => mirOn = "stopped",
         mirCopy' \in [Keys -> Nat],
         \A k \in Keys : Settled(states[k], mirCopy'[k], mirVersion[k])
  PROVE  MirInv'
<1>0. MirTyped /\ SignalsFit /\ VersionsFit /\ SignalMovesOnce BY DEF MirInv
<1>1. Facts /\ Refusals(mirRefusal) BY MirFacts
<1>2. /\ mirState' \in [Keys -> MirrorState] /\ \A k \in Keys : Same(states[k], mirState'[k])
      /\ Refusals(mirRefusal') /\ mirRound' = Ended /\ Ended \in RoundState
  BY <1>0, <1>1, EndOfRound DEF Facts, MirTyped
<1>9. /\ mirRound.longest \in Nat /\ mirRound.ticks \in Nat /\ mirRound' \in RoundState /\ mirRound'.longest \in Nat
      /\ mirRound'.at = "idle" /\ mirRound'.todo = {} /\ \A k \in Keys : mirRound'.read[k] = 0
      /\ mirRound.longest <= mirRound'.longest /\ mirRound.ticks <= mirRound'.longest
  <2>1. mirRound \in RoundState BY <1>0 DEF MirTyped
  <2>2. PICK over : over = mirRound' OBVIOUS
  <2>3. /\ over \in RoundState /\ over.at = "idle" /\ over.todo = {} /\ \A k \in Keys : over.read[k] = 0
        /\ mirRound.longest <= over.longest /\ mirRound.ticks <= over.longest
    BY <1>2, <2>1, <2>2, RoundEnded
  <2> QED BY <2>1, <2>2, <2>3 DEF RoundState
<1>3. MirTyped'
  BY <1>0, <1>2, <1>9 DEF MirTyped, Refusals
<1>4. VersionsFit'
  <2> SUFFICES ASSUME NEW k \in Keys
               PROVE /\ mirCopy'[k] <= mirVersion'[k] /\ mirRound'.read[k] <= mirVersion'[k]
                     /\ mirState'[k].known <= mirVersion'[k]
    BY DEF VersionsFit
  <2>1. mirVersion[k] \in Nat BY <1>0 DEF MirTyped
  <2>2. mirRound'.read[k] = 0 BY <1>9
  <2>3. mirCopy'[k] <= mirVersion[k] /\ states[k].known <= mirVersion[k] BY DEF Settled
  <2>4. mirState'[k].known = states[k].known BY <1>2 DEF Same
  <2>5. mirVersion'[k] = mirVersion[k] OBVIOUS
  <2>6. mirState'[k].known <= mirVersion[k] BY <2>3, <2>4
  <2>7. 0 <= mirVersion[k] BY <2>1
  <2> QED BY <2>2, <2>3, <2>5, <2>6, <2>7
<1>5. NoticedInTime'
  <2> SUFFICES ASSUME NEW k \in Keys
               PROVE Timed(mirState[k], Waits(k))' /\ (Waits(k)' => mirState'[k].noticed # Never)
    BY DEF NoticedInTime
  <2> DEFINE s == states[k]
             t == mirState'[k]
  <2>1. ~Waits(k)' BY <1>9 DEF Waits
  <2>2. Same(s, t) /\ Timed(s, FALSE) /\ s \in MirrorState BY <1>2 DEF Settled
  <2>3. s.noticed \in Times /\ s.failing \in Times BY <2>2 DEF MirrorState
  <2> HIDE DEF s, t
  <2>4. t.failing # Never => t.noticed # Never /\ t.noticed <= t.failing /\ t.failing <= mirNow'
    BY <2>2 DEF Timed, Same
  <2>5. t.noticed # Never => t.noticed <= mirNow' /\ t.failing # Never BY <2>2 DEF Timed, Same
  <2>6. t.noticed # Never => t.failing <= t.noticed + mirRound'.longest
    <3>1. s.noticed # Never => s.failing # Never /\ s.failing <= mirNow /\ s.noticed <= mirNow BY <2>2 DEF Timed
    <3>2. s.noticed # Never => s.failing <= s.noticed + mirRound'.longest
      BY <1>1, <1>9, <2>2, <2>3, <3>1 DEF Timed, JustNoticed, Facts, Times
    <3> QED BY <2>2, <3>2 DEF Same
  <2> QED BY <2>1, <2>4, <2>5, <2>6 DEF Timed, t
<1>6. RecordedIsLoaded' BY <1>2 DEF RecordedIsLoaded, Settled, Same
<1>7. RefusalsAccounted' BY <1>2 DEF RefusalsAccounted, Refusals, Accounted
<1>8. SignalsFit' /\ SignalMovesOnce' BY <1>0 DEF SignalsFit, SignalMovesOnce
<1> QED BY <1>3, <1>4, <1>5, <1>6, <1>7, <1>8 DEF MirInv

(* While no round reloads, every key is settled.                               *)
LEMMA AllSettled ==
  ASSUME MirInv, mirRound.at # "reloading"
  PROVE  \A k \in Keys : Settled(mirState[k], mirCopy[k], mirVersion[k])
<1> SUFFICES ASSUME NEW k \in Keys PROVE Settled(mirState[k], mirCopy[k], mirVersion[k]) OBVIOUS
<1>0. MirTyped /\ VersionsFit /\ NoticedInTime /\ RecordedIsLoaded BY DEF MirInv
<1>1. mirState[k] \in MirrorState /\ mirCopy[k] \in Nat BY <1>0 DEF MirTyped
<1>2. ~Waits(k) BY DEF Waits
<1>3. Timed(mirState[k], Waits(k)) BY <1>0 DEF NoticedInTime
<1>4. mirCopy[k] <= mirVersion[k] /\ mirState[k].known <= mirVersion[k] BY <1>0 DEF VersionsFit
<1>5. mirState[k].known # mirState[k].base => mirCopy[k] >= mirState[k].known BY <1>0 DEF RecordedIsLoaded
<1> QED BY <1>1, <1>2, <1>3, <1>4, <1>5 DEF Timed, Settled

LEMMA MirStart == MirInit => MirInv
<1> SUFFICES ASSUME MirInit PROVE MirInv OBVIOUS
<1> USE DEF MirInit
<1>1. Never \in Times /\ MaxTime \in Nat BY MirrorAssumption DEF Times, Never
<1>2. Idle \in RoundState BY <1>1 DEF Idle, RoundState
<1>3. MirTyped
  <2>1. mirState \in [Keys -> MirrorState] BY <1>1 DEF MirrorState
  <2>2. mirRefusal \in [Keys -> Bucket] BY <1>1 DEF Bucket
  <2>3. mirNow \in 0..MaxTime BY <1>1
  <2> QED BY <1>1, <1>2, <2>1, <2>2, <2>3 DEF MirTyped, Idle
<1>4. SignalsFit BY FS_EmptySet DEF SignalsFit
<1>5. VersionsFit BY DEF VersionsFit, Idle
<1>6. NoticedInTime BY DEF NoticedInTime, Waits, Timed, Idle
<1>7. SignalMovesOnce
  <2>1. \A k : {s \in mirInbox : s[1] = k} = {} OBVIOUS
  <2> QED BY <2>1, FS_EmptySet DEF SignalMovesOnce
<1>8. RecordedIsLoaded BY DEF RecordedIsLoaded
<1>9. RefusalsAccounted BY DEF RefusalsAccounted
<1> QED BY <1>3, <1>4, <1>5, <1>6, <1>7, <1>8, <1>9 DEF MirInv

-----------------------------------------------------------------------------
(* Steps of the refresher.                                                     *)

LEMMA StepNote == ASSUME MirInv, NEW k \in Keys, NoteStaleRefusal(k) PROVE MirInv'
<1>0. MirTyped /\ SignalsFit /\ VersionsFit /\ NoticedInTime /\ SignalMovesOnce /\ RecordedIsLoaded BY DEF MirInv
<1>1. Facts /\ Refusals(mirRefusal) BY MirFacts
<1> DEFINE b == mirRefusal[k]
           counted == [b EXCEPT !.noted = b.noted + 1, !.pending = b.pending + 1]
<1>2. PICK kept \in BOOLEAN : mirRefusal' = [mirRefusal EXCEPT ![k] = Flushed(counted, FALSE, kept)]
  BY DEF NoteStaleRefusal
<1>3. counted \in Bucket /\ Accounted(counted)
  <2>1. b \in Bucket /\ Accounted(b) BY <1>1 DEF Refusals
  <2>2. b.noted \in Nat /\ b.pending \in Nat /\ b.written \in Nat /\ b.lost \in Nat BY <2>1 DEF Bucket
  <2>3. b.noted + 1 \in Nat /\ b.pending + 1 \in Nat BY <2>2
  <2>4. counted \in Bucket /\ counted.noted = b.noted + 1 /\ counted.pending = b.pending + 1
        /\ counted.written = b.written /\ counted.lost = b.lost
    <3> DEFINE n == b.noted + 1
               m == b.pending + 1
    <3>1. counted = [b EXCEPT !.noted = n, !.pending = m] OBVIOUS
    <3>2. n \in Nat /\ m \in Nat BY <2>3
    <3> HIDE DEF counted, b, n, m
    <3>3. counted \in Bucket /\ counted.noted = n /\ counted.pending = m
          /\ counted.written = b.written /\ counted.lost = b.lost
      BY <2>1, <3>1, <3>2 DEF Bucket
    <3> QED BY <3>3 DEF n, m
  <2> HIDE DEF counted, b
  <2> QED BY <2>1, <2>2, <2>4 DEF Accounted
<1>4. Flushed(counted, FALSE, kept) \in Bucket /\ Accounted(Flushed(counted, FALSE, kept))
  BY <1>1, <1>3, FlushCounts DEF Facts
<1>5. mirOn = "on" /\ UNCHANGED <<mirNow, mirVersion, mirOutbox, mirInbox, mirRound, mirCopy, mirState, mirOn>>
  BY DEF NoteStaleRefusal
<1> HIDE DEF counted
<1>6. mirRefusal' \in [Keys -> Bucket] /\ \A j \in Keys : Accounted(mirRefusal'[j]) BY <1>1, <1>2, <1>4 DEF Refusals
<1>7. RefusalsAccounted' BY <1>5, <1>6 DEF RefusalsAccounted, Accounted
<1>8. MirTyped' BY <1>0, <1>5, <1>6 DEF MirTyped
<1> QED BY <1>0, <1>5, <1>7, <1>8
     DEF MirInv, SignalsFit, VersionsFit, NoticedInTime, Timed, JustNoticed, Waits, SignalMovesOnce, RecordedIsLoaded

LEMMA StepWriteOwn == ASSUME MirInv, NEW k \in Keys, WriteOwn(k) PROVE MirInv'
<1>0. /\ MirTyped /\ SignalsFit /\ VersionsFit /\ NoticedInTime /\ SignalMovesOnce /\ RecordedIsLoaded
      /\ RefusalsAccounted BY DEF MirInv
<1>1. k \in ApiOwned /\ mirVersion' = [mirVersion EXCEPT ![k] = @ + 1] BY DEF WriteOwn, Bumped
<1>2. UNCHANGED <<mirNow, mirOutbox, mirInbox, mirRound, mirCopy, mirState, mirRefusal, mirOn>> BY DEF WriteOwn
<1>3. mirVersion' \in [Keys -> Nat] /\ \A j \in Keys : mirVersion'[j] \in Nat /\ mirVersion[j] <= mirVersion'[j]
  BY <1>0, <1>1 DEF MirTyped
<1>4. MirTyped' BY <1>0, <1>2, <1>3 DEF MirTyped
<1>5. VersionsFit'
  <2> SUFFICES ASSUME NEW j \in Keys
               PROVE /\ mirCopy[j] <= mirVersion'[j] /\ mirRound.read[j] <= mirVersion'[j]
                     /\ mirState[j].known <= mirVersion'[j]
    BY <1>2 DEF VersionsFit
  <2>1. mirCopy[j] \in Nat /\ mirRound.read[j] \in Nat /\ mirState[j].known \in Nat /\ mirVersion[j] \in Nat
    BY <1>0 DEF MirTyped, RoundState, MirrorState
  <2> QED BY <1>0, <1>3, <2>1 DEF VersionsFit
<1>6. SignalMovesOnce' BY <1>0, <1>1, <1>2 DEF SignalMovesOnce, MirTyped
<1> QED BY <1>0, <1>2, <1>4, <1>5, <1>6
     DEF MirInv, SignalsFit, NoticedInTime, Timed, JustNoticed, Waits, RecordedIsLoaded, RefusalsAccounted

LEMMA StepWriteElsewhere == ASSUME MirInv, NEW k \in Keys, WriteElsewhere(k) PROVE MirInv'
<1>0. /\ MirTyped /\ SignalsFit /\ VersionsFit /\ NoticedInTime /\ SignalMovesOnce /\ RecordedIsLoaded
      /\ RefusalsAccounted BY DEF MirInv
<1>1. PICK s : s[1] = k /\ mirOutbox' = mirOutbox \cup {s} BY DEF WriteElsewhere
<1>2. UNCHANGED <<mirNow, mirVersion, mirInbox, mirRound, mirCopy, mirState, mirRefusal, mirOn>> /\ k \notin ApiOwned
  BY DEF WriteElsewhere
<1>3. IsFiniteSet(mirOutbox') BY <1>0, <1>1, FS_AddElement DEF SignalsFit
<1>4. SignalsFit' BY <1>0, <1>1, <1>2, <1>3 DEF SignalsFit
<1> QED BY <1>0, <1>2, <1>4
     DEF MirInv, MirTyped, VersionsFit, NoticedInTime, Timed, JustNoticed, Waits, SignalMovesOnce, RecordedIsLoaded, RefusalsAccounted

LEMMA StepApplyBump == ASSUME MirInv, NEW s \in mirOutbox, ApplyBump(s) PROVE MirInv'
<1>0. /\ MirTyped /\ SignalsFit /\ VersionsFit /\ NoticedInTime /\ SignalMovesOnce /\ RecordedIsLoaded
      /\ RefusalsAccounted BY DEF MirInv
<1>1. UNCHANGED <<mirNow, mirOutbox, mirRound, mirCopy, mirState, mirRefusal, mirOn>> /\ mirInbox' = mirInbox \cup {s}
  BY DEF ApplyBump
<1>2. CASE s \in mirInbox
  <2>1. mirInbox' = mirInbox /\ mirVersion' = mirVersion BY <1>1, <1>2 DEF ApplyBump, FirstDelivery
  <2> QED BY <1>0, <1>1, <2>1
       DEF MirInv, MirTyped, SignalsFit, VersionsFit, NoticedInTime, Timed, JustNoticed, Waits, SignalMovesOnce, RecordedIsLoaded, RefusalsAccounted
<1>3. CASE s \notin mirInbox
  <2> DEFINE k == s[1]
  <2>1. k \in Keys \ ApiOwned /\ mirVersion' = [mirVersion EXCEPT ![k] = @ + 1]
    BY <1>0, <1>3 DEF SignalsFit, ApplyBump, FirstDelivery, Bumped
  <2>2. mirVersion' \in [Keys -> Nat] /\ \A j \in Keys : mirVersion'[j] \in Nat /\ mirVersion[j] <= mirVersion'[j]
    BY <1>0, <2>1 DEF MirTyped
  <2>3. MirTyped' BY <1>0, <1>1, <2>2 DEF MirTyped
  <2>4. VersionsFit'
    <3> SUFFICES ASSUME NEW j \in Keys
                 PROVE /\ mirCopy[j] <= mirVersion'[j] /\ mirRound.read[j] <= mirVersion'[j]
                       /\ mirState[j].known <= mirVersion'[j]
      BY <1>1 DEF VersionsFit
    <3>1. mirCopy[j] \in Nat /\ mirRound.read[j] \in Nat /\ mirState[j].known \in Nat /\ mirVersion[j] \in Nat
      BY <1>0 DEF MirTyped, RoundState, MirrorState
    <3> QED BY <1>0, <2>2, <3>1 DEF VersionsFit
  <2>5. SignalMovesOnce'
    <3> SUFFICES ASSUME NEW j \in Keys \ ApiOwned
                 PROVE mirVersion'[j] = Cardinality({t \in mirInbox' : t[1] = j})
      BY DEF SignalMovesOnce
    <3> DEFINE Of == {t \in mirInbox : t[1] = j}
    <3>1. mirVersion[j] = Cardinality(Of) BY <1>0 DEF SignalMovesOnce
    <3>2. IsFiniteSet(Of)
      <4>1. Of \subseteq mirOutbox BY <1>0 DEF SignalsFit
      <4> QED BY <4>1, <1>0, FS_Subset DEF SignalsFit
    <3>3. CASE j = k
      <4>1. {t \in mirInbox' : t[1] = j} = Of \cup {s} BY <1>1, <3>3
      <4>2. s \notin Of BY <1>3
      <4>3. Cardinality(Of \cup {s}) = Cardinality(Of) + 1
        <5> HIDE DEF Of
        <5> QED BY <3>2, <4>2, FS_AddElement
      <4> QED BY <3>1, <3>3, <4>1, <4>3, <2>1, <1>0 DEF MirTyped
    <3>4. CASE j # k
      <4>1. {t \in mirInbox' : t[1] = j} = Of BY <1>1, <3>4
      <4> QED BY <3>1, <3>4, <4>1, <2>1, <1>0 DEF MirTyped
    <3> QED BY <3>3, <3>4
  <2>6. SignalsFit' BY <1>0, <1>1 DEF SignalsFit
  <2> QED BY <1>0, <1>1, <2>3, <2>4, <2>5, <2>6
       DEF MirInv, NoticedInTime, Timed, JustNoticed, Waits, RecordedIsLoaded, RefusalsAccounted
<1> QED BY <1>2, <1>3

LEMMA StepBeginRound == ASSUME MirInv, BeginRound PROVE MirInv'
<1>0. /\ MirTyped /\ SignalsFit /\ VersionsFit /\ NoticedInTime /\ SignalMovesOnce /\ RecordedIsLoaded
      /\ RefusalsAccounted BY DEF MirInv
<1>1. UNCHANGED <<mirNow, mirVersion, mirOutbox, mirInbox, mirCopy, mirState, mirRefusal, mirOn>> BY DEF BeginRound
<1>2. /\ mirRound' \in RoundState /\ mirRound'.at = "reading" /\ mirRound'.read = [k \in Keys |-> mirVersion[k]]
      /\ mirRound'.todo = {} /\ mirRound'.longest = mirRound.longest
  <2>1. mirRound \in RoundState /\ mirRound.at = "idle" BY <1>0 DEF MirTyped, BeginRound
  <2> DEFINE seen == [k \in Keys |-> mirVersion[k]]
  <2>2. seen \in [Keys -> Nat] BY <1>0 DEF MirTyped
  <2>3. mirRound' = [mirRound EXCEPT !.at = "reading", !.read = seen] BY DEF BeginRound
  <2>4. seen = [k \in Keys |-> mirVersion[k]] OBVIOUS
  <2> HIDE DEF seen
  <2> QED BY <1>0, <2>1, <2>2, <2>3, <2>4 DEF RoundState, MirTyped
<1>3. mirRound' \in RoundState BY <1>2
<1>4. MirTyped' BY <1>0, <1>1, <1>2, <1>3 DEF MirTyped
<1>5. VersionsFit' BY <1>0, <1>1, <1>2 DEF VersionsFit, MirTyped
<1>6. NoticedInTime'
  <2>1. mirRound.at # "reloading" BY DEF BeginRound
  <2> QED BY <1>0, <1>1, <1>2, <2>1 DEF NoticedInTime, Timed, JustNoticed, Waits
<1> QED BY <1>0, <1>1, <1>4, <1>5, <1>6
     DEF MirInv, SignalsFit, SignalMovesOnce, RecordedIsLoaded, RefusalsAccounted

LEMMA StepBaseline == ASSUME MirInv, Baseline PROVE MirInv'
<1>0. MirTyped /\ VersionsFit BY DEF MirInv
<1>1. Facts BY MirFacts
<1> DEFINE states == [k \in Keys |-> TakenOver(mirState[k], mirRound.read[k])]
<1>2. /\ EndRound(states) /\ mirOn' = "on" /\ mirRound.at = "reading"
      /\ UNCHANGED <<mirNow, mirVersion, mirOutbox, mirInbox, mirCopy>> BY DEF Baseline
<1>3. \A k \in Keys : Settled(mirState[k], mirCopy[k], mirVersion[k]) BY <1>2, AllSettled
<1>4. ASSUME NEW k \in Keys PROVE Settled(states[k], mirCopy'[k], mirVersion[k])
  <2> DEFINE s == mirState[k]
             t == TakenOver(s, mirRound.read[k])
  <2>1. s \in MirrorState /\ mirRound.read[k] \in Nat BY <1>0 DEF MirTyped, RoundState
  <2>2. /\ t \in MirrorState /\ t.known = mirRound.read[k] /\ t.base = mirRound.read[k]
        /\ t.failing = s.failing /\ t.noticed = s.noticed
    BY <2>1, <1>1 DEF TakenOver, MirrorState, Facts
  <2>6. mirRound.at # "reloading" BY <1>2
  <2>3. mirRound.read[k] <= mirVersion[k] BY <1>0 DEF VersionsFit
  <2>4. states[k] = t OBVIOUS
  <2>5. Settled(s, mirCopy[k], mirVersion[k]) BY <1>3
  <2> HIDE DEF s, t, states
  <2> QED BY <1>2, <2>2, <2>3, <2>4, <2>5, <2>6 DEF Settled, Timed, JustNoticed
<1>5. states \in [Keys -> MirrorState] BY <1>4 DEF Settled
<1> HIDE DEF states
<1>6. mirCopy' \in [Keys -> Nat] BY <1>0, <1>2 DEF MirTyped
<1> QED BY <1>2, <1>4, <1>5, <1>6, RoundEnds

LEMMA StepReadFailed == ASSUME MirInv, ReadFailed PROVE MirInv'
<1>0. MirTyped BY DEF MirInv
<1>2. /\ EndRound(mirState) /\ mirRound.at = "reading"
      /\ UNCHANGED <<mirNow, mirVersion, mirOutbox, mirInbox, mirCopy>> BY DEF ReadFailed
<1>3. \A k \in Keys : Settled(mirState[k], mirCopy'[k], mirVersion[k]) BY <1>2, AllSettled
<1>4. mirOn' \in {"starting", "on", "stopped"} /\ (mirOn' = "stopped" => mirOn = "stopped")
  BY <1>0 DEF ReadFailed, MirTyped
<1>5. mirState \in [Keys -> MirrorState] /\ mirCopy' \in [Keys -> Nat] BY <1>0, <1>2 DEF MirTyped
<1> QED BY <1>2, <1>3, <1>4, <1>5, RoundEnds

LEMMA StepCompare == ASSUME MirInv, Compare PROVE MirInv'
<1>0. /\ MirTyped /\ SignalsFit /\ VersionsFit /\ NoticedInTime /\ SignalMovesOnce /\ RecordedIsLoaded
      /\ RefusalsAccounted BY DEF MirInv
<1>1. Facts BY MirFacts
<1> DEFINE states == [k \in Keys |-> IF k \in Changed THEN Noticed(Compared(mirState[k])) ELSE Compared(mirState[k])]
<1>2. /\ mirOn = "on" /\ mirRound.at = "reading"
      /\ IF Changed = {} THEN EndRound(states)
         ELSE /\ mirRound' = [mirRound EXCEPT !.at = "reloading", !.todo = Changed]
              /\ mirState' = states /\ UNCHANGED mirRefusal
      /\ UNCHANGED <<mirNow, mirVersion, mirOutbox, mirInbox, mirCopy, mirOn>>
  BY DEF Compare
<1>3. \A k \in Keys : Settled(mirState[k], mirCopy[k], mirVersion[k]) BY <1>2, AllSettled
<1>4. ASSUME NEW s \in MirrorState
      PROVE /\ Compared(s) \in MirrorState /\ Same(s, Compared(s))
            /\ Noticed(Compared(s)) \in MirrorState
            /\ Noticed(Compared(s)).known = s.known /\ Noticed(Compared(s)).base = s.base
            /\ Noticed(Compared(s)).failing = s.failing
            /\ Noticed(Compared(s)).noticed = (IF s.noticed = Never THEN mirNow ELSE s.noticed)
            /\ Noticed(Compared(s)).compared = mirNow
  <2>1. Compared(s) \in MirrorState /\ Same(s, Compared(s)) /\ Compared(s).compared = mirNow
    BY <1>1 DEF Compared, Same, MirrorState, Facts
  <2>2. ASSUME NEW t \in MirrorState
        PROVE /\ Noticed(t) \in MirrorState /\ Noticed(t).known = t.known /\ Noticed(t).base = t.base
              /\ Noticed(t).failing = t.failing /\ Noticed(t).noticed = (IF t.noticed = Never THEN mirNow ELSE t.noticed)
              /\ Noticed(t).compared = t.compared
    BY <1>1 DEF Noticed, MirrorState, Facts
  <2> QED BY <2>1, <2>2 DEF Same
<1>5. mirCopy' \in [Keys -> Nat] BY <1>0, <1>2 DEF MirTyped
<1>6. CASE Changed = {}
  <2>1. \A k \in Keys : states[k] = Compared(mirState[k]) BY <1>6
  <2>2. ASSUME NEW k \in Keys PROVE Settled(states[k], mirCopy'[k], mirVersion[k])
    <3>1. mirState[k] \in MirrorState BY <1>0 DEF MirTyped
    <3>2. Compared(mirState[k]) \in MirrorState /\ Same(mirState[k], Compared(mirState[k])) BY <3>1, <1>4
    <3>3. states[k] = Compared(mirState[k]) /\ mirCopy' = mirCopy BY <2>1, <1>2
    <3> HIDE DEF states
    <3>4. mirRound.at # "reloading" BY <1>2
    <3> QED BY <1>3, <3>2, <3>3, <3>4 DEF Settled, Same, Timed, JustNoticed
  <2>3. states \in [Keys -> MirrorState] BY <2>2 DEF Settled
  <2>4. EndRound(states) BY <1>2, <1>6
  <2> HIDE DEF states
  <2> QED BY <1>2, <1>5, <2>2, <2>3, <2>4, RoundEnds
<1>7. CASE Changed # {}
  <2>1. mirState' = states /\ mirRound' = [mirRound EXCEPT !.at = "reloading", !.todo = Changed] /\ mirRefusal' = mirRefusal
    BY <1>2, <1>7
  <2>2. /\ mirRound' \in RoundState /\ mirRound'.at = "reloading" /\ mirRound'.todo = Changed
        /\ mirRound'.read = mirRound.read /\ mirRound'.ticks = mirRound.ticks /\ mirRound'.longest = mirRound.longest
    <3>1. Changed \in SUBSET Keys BY DEF Changed
    <3> HIDE DEF Changed
    <3> QED BY <1>0, <2>1, <3>1 DEF MirTyped, RoundState
  <2>3. ASSUME NEW k \in Keys
        PROVE /\ mirState'[k] \in MirrorState /\ mirState'[k].known = mirState[k].known /\ mirState'[k].base = mirState[k].base
              /\ mirState'[k].failing = mirState[k].failing
              /\ mirState'[k].noticed = (IF k \in Changed /\ mirState[k].noticed = Never THEN mirNow ELSE mirState[k].noticed)
              /\ k \in Changed => mirState'[k].compared = mirNow
    <3>1. mirState[k] \in MirrorState BY <1>0 DEF MirTyped
    <3>2. mirState'[k] = IF k \in Changed THEN Noticed(Compared(mirState[k])) ELSE Compared(mirState[k]) BY <2>1
    <3> HIDE DEF Changed
    <3> QED BY <3>1, <3>2, <1>4 DEF Same
  <2>4. mirState' \in [Keys -> MirrorState] BY <2>1, <2>3
  <2>5. MirTyped' BY <1>0, <1>2, <2>1, <2>2, <2>4 DEF MirTyped
  <2>6. VersionsFit' BY <1>0, <1>2, <2>2, <2>3 DEF VersionsFit
  <2>7. NoticedInTime'
    <3> SUFFICES ASSUME NEW k \in Keys
                 PROVE Timed(mirState[k], Waits(k))' /\ (Waits(k)' => mirState'[k].noticed # Never)
      BY DEF NoticedInTime
    <3> DEFINE s == mirState[k]
               t == mirState'[k]
    <3>1. Waits(k)' <=> k \in Changed BY <2>2 DEF Waits
    <3>2. Settled(s, mirCopy[k], mirVersion[k]) BY <1>3
    <3>3. t.failing = s.failing /\ t.noticed = (IF k \in Changed /\ s.noticed = Never THEN mirNow ELSE s.noticed)
      BY <2>3
    <3>4. mirRound'.ticks \in Nat BY <2>2 DEF RoundState
    <3>5. (k \in Changed => t.noticed # Never) BY <3>3, <1>1 DEF Facts
    <3>6. /\ t.failing # Never => t.noticed # Never /\ t.noticed <= t.failing /\ t.failing <= mirNow
          /\ t.noticed # Never =>
               /\ t.noticed <= mirNow
               /\ t.failing = Never => k \in Changed
               /\ JustNoticed(mirState[k])' \/ (t.failing # Never /\ t.failing <= t.noticed + mirRound'.longest)
      <4>0. /\ mirRound'.longest = mirRound.longest /\ mirRound'.at = "reloading" /\ mirRound.at # "reloading"
            /\ k \in Changed => t.compared = mirNow
        BY <1>2, <2>2, <2>3
      <4>5. mirNow - mirNow <= mirRound'.ticks BY <3>4, <1>1 DEF Facts
      <4>7. JustNoticed(mirState[k])' <=> /\ mirRound'.at = "reloading" /\ t.compared = t.noticed /\ mirNow - t.noticed <= mirRound'.ticks
        BY <1>2 DEF JustNoticed
      <4> HIDE DEF s, t, Changed
      <4>1. s.failing # Never => t.noticed = s.noticed BY <3>2, <3>3 DEF Settled, Timed
      <4>2. t.noticed # Never => t.noticed <= mirNow
        BY <3>2, <3>3, <1>1 DEF Settled, Timed, Facts
      <4>3. t.failing # Never => /\ t.noticed # Never /\ t.failing <= t.noticed + mirRound.longest
                                 /\ t.noticed <= t.failing /\ t.failing <= mirNow
        BY <3>2, <3>3, <4>0, <4>1 DEF Settled, Timed, JustNoticed
      <4>4. t.failing = Never /\ t.noticed # Never => k \in Changed /\ t.noticed = mirNow
        BY <3>2, <3>3 DEF Settled, Timed
      <4>6. t.failing = Never /\ t.noticed # Never => JustNoticed(mirState[k])' BY <4>0, <4>4, <4>5, <4>7
      <4> QED BY <4>0, <4>2, <4>3, <4>4, <4>6
    <3>7. mirNow' = mirNow BY <1>2
    <3> HIDE DEF Changed
    <3> QED BY <3>1, <3>5, <3>6, <3>7 DEF Timed
  <2>8. RecordedIsLoaded' BY <1>0, <1>2, <2>3 DEF RecordedIsLoaded
  <2>9. SignalsFit' /\ SignalMovesOnce' /\ RefusalsAccounted'
    BY <1>0, <1>2, <2>1 DEF SignalsFit, SignalMovesOnce, RefusalsAccounted
  <2> QED BY <2>5, <2>6, <2>7, <2>8, <2>9 DEF MirInv
<1> QED BY <1>6, <1>7

(* A key that waits for no reload is settled, whatever the round is at.        *)
LEMMA OthersSettled ==
  ASSUME MirInv, NEW k \in Keys, ~Waits(k)
  PROVE  Settled(mirState[k], mirCopy[k], mirVersion[k])
<1>0. MirTyped /\ VersionsFit /\ NoticedInTime /\ RecordedIsLoaded BY DEF MirInv
<1>1. mirState[k] \in MirrorState /\ mirCopy[k] \in Nat BY <1>0 DEF MirTyped
<1>3. Timed(mirState[k], Waits(k)) BY <1>0 DEF NoticedInTime
<1>4. mirCopy[k] <= mirVersion[k] /\ mirState[k].known <= mirVersion[k] BY <1>0 DEF VersionsFit
<1>5. mirState[k].known # mirState[k].base => mirCopy[k] >= mirState[k].known BY <1>0 DEF RecordedIsLoaded
<1> QED BY <1>1, <1>3, <1>4, <1>5 DEF Timed, Settled

Reloads(s, next, ok) == IF ok THEN LoadedReload(s, next) ELSE FailedReload(s, next)
LEMMA ReloadSettles ==
  ASSUME MirInv, NEW k \in Keys, Waits(k), NEW ok \in BOOLEAN
  PROVE  Settled(Reloads(mirState[k], mirRound.read[k], ok), IF ok THEN mirVersion[k] ELSE mirCopy[k], mirVersion[k])
<1>0. MirTyped /\ VersionsFit /\ NoticedInTime /\ RecordedIsLoaded BY DEF MirInv
<1> DEFINE s == mirState[k]
           next == mirRound.read[k]
<1>1. s \in MirrorState /\ mirCopy[k] \in Nat /\ mirVersion[k] \in Nat /\ next \in Nat /\ mirRound \in RoundState
  BY <1>0 DEF MirTyped, RoundState
<1>2. Timed(s, TRUE) /\ s.noticed # Never BY <1>0 DEF NoticedInTime, Timed
<1>3. mirCopy[k] <= mirVersion[k] /\ next <= mirVersion[k] /\ s.known <= mirVersion[k] BY <1>0 DEF VersionsFit
<1>4. s.known # s.base => mirCopy[k] >= s.known BY <1>0 DEF RecordedIsLoaded
<1>5. Facts BY MirFacts
<1> HIDE DEF s, next
<1>6. CASE ok
  <2> DEFINE t == LoadedReload(s, next)
  <2>1. t \in MirrorState /\ t.known = next /\ t.base = s.base /\ t.failing = Never /\ t.noticed = Never
    <3>1. Never \in Times BY <1>5 DEF Facts, Times
    <3>2. \A a \in Times : LET u == [s EXCEPT !.known = next, !.failing = a, !.noticed = a] IN
             u \in MirrorState /\ u.known = next /\ u.base = s.base /\ u.failing = a /\ u.noticed = a
      BY <1>1 DEF MirrorState
    <3> QED BY <3>1, <3>2 DEF LoadedReload
  <2>2. Reloads(s, next, ok) = t BY <1>6 DEF Reloads
  <2> HIDE DEF t
  <2>3. next >= next /\ mirVersion[k] >= next /\ mirVersion[k] <= mirVersion[k] BY <1>1, <1>3
  <2> QED BY <1>1, <1>3, <1>6, <2>1, <2>2, <2>3 DEF Settled, Timed, s, next
<1>7. CASE ~ok
  <2> DEFINE t == FailedReload(s, next)
  <2>1. /\ t \in MirrorState /\ t.known = s.known /\ t.base = s.base /\ t.noticed = s.noticed
        /\ t.failing = (IF s.failing = Never THEN mirNow ELSE s.failing) /\ t.compared = s.compared
    BY <1>1, <1>5 DEF FailedReload, MirrorState, Facts
  <2>2. Reloads(s, next, ok) = t BY <1>7 DEF Reloads
  <2> HIDE DEF t
  <2>3. s.noticed \in Nat /\ s.failing \in Nat BY <1>1, <1>5 DEF MirrorState, Times, Facts
  <2>4. Timed(t, FALSE)
    BY <1>1, <1>2, <1>5, <2>1, <2>3 DEF Timed, JustNoticed, Facts
  <2>5. Settled(t, mirCopy[k], mirVersion[k])
    BY <1>1, <1>2, <1>3, <1>4, <2>1, <2>4 DEF Settled
  <2> QED BY <1>7, <2>2, <2>5 DEF s, next
<1> QED BY <1>6, <1>7

LEMMA StepReload == ASSUME MirInv, NEW k \in Keys, Reload(k) PROVE MirInv'
<1>0. /\ MirTyped /\ SignalsFit /\ VersionsFit /\ NoticedInTime /\ SignalMovesOnce /\ RecordedIsLoaded
      /\ RefusalsAccounted BY DEF MirInv
<1>1. Facts BY MirFacts
<1>2. Waits(k) /\ UNCHANGED <<mirNow, mirVersion, mirOutbox, mirInbox, mirOn>> BY DEF Reload, Waits
<1>3. PICK ok \in BOOLEAN :
        LET states == [mirState EXCEPT ![k] = Reloads(mirState[k], mirRound.read[k], ok)] IN
        /\ mirCopy' = IF ok THEN [mirCopy EXCEPT ![k] = mirVersion[k]] ELSE mirCopy
        /\ IF mirRound.todo = {k} THEN EndRound(states)
           ELSE /\ mirRound' = [mirRound EXCEPT !.todo = @ \ {k}]
                /\ mirState' = states /\ UNCHANGED mirRefusal
  BY DEF Reload, Reloads
<1> DEFINE t == Reloads(mirState[k], mirRound.read[k], ok)
           states == [mirState EXCEPT ![k] = t]
<1>4. Settled(t, mirCopy'[k], mirVersion[k]) /\ mirCopy'[k] >= mirCopy[k]
  <2>1. mirCopy'[k] = IF ok THEN mirVersion[k] ELSE mirCopy[k] BY <1>0, <1>3 DEF MirTyped
  <2>2. mirCopy[k] <= mirVersion[k] /\ mirCopy[k] \in Nat /\ mirVersion[k] \in Nat BY <1>0 DEF VersionsFit, MirTyped
  <2>3. Settled(t, IF ok THEN mirVersion[k] ELSE mirCopy[k], mirVersion[k]) BY <1>2, ReloadSettles
  <2> HIDE DEF t
  <2> QED BY <2>1, <2>2, <2>3
<1>5. mirCopy' \in [Keys -> Nat] /\ \A j \in Keys : j # k => mirCopy'[j] = mirCopy[j]
  BY <1>0, <1>3 DEF MirTyped
<1>6. t \in MirrorState BY <1>4 DEF Settled
<1> HIDE DEF t
<1>7. states \in [Keys -> MirrorState] /\ states[k] = t /\ \A j \in Keys : j # k => states[j] = mirState[j]
  BY <1>0, <1>6 DEF MirTyped
<1>8. CASE mirRound.todo = {k}
  <2>1. EndRound(states) BY <1>3, <1>8 DEF t
  <2>2. ASSUME NEW j \in Keys PROVE Settled(states[j], mirCopy'[j], mirVersion[j])
    <3>1. CASE j = k BY <3>1, <1>4, <1>7
    <3>2. CASE j # k
      <4>1. ~Waits(j) BY <1>8, <3>2 DEF Waits
      <4> QED BY <4>1, <3>2, <1>5, <1>7, OthersSettled
    <3> QED BY <3>1, <3>2
  <2>3. mirOn' \in {"starting", "on", "stopped"} /\ (mirOn' = "stopped" => mirOn = "stopped") BY <1>0, <1>2 DEF MirTyped
  <2> HIDE DEF states
  <2> QED BY <1>2, <1>5, <1>7, <2>1, <2>2, <2>3, RoundEnds
<1>9. CASE mirRound.todo # {k}
  <2>1. mirState' = states /\ mirRound' = [mirRound EXCEPT !.todo = @ \ {k}] /\ mirRefusal' = mirRefusal
    BY <1>3, <1>9 DEF t
  <2>2. /\ mirRound' \in RoundState /\ mirRound'.at = mirRound.at /\ mirRound'.todo = mirRound.todo \ {k}
        /\ mirRound'.read = mirRound.read /\ mirRound'.ticks = mirRound.ticks /\ mirRound'.longest = mirRound.longest
    BY <1>0, <2>1 DEF MirTyped, RoundState
  <2>3. MirTyped' BY <1>0, <1>2, <1>5, <1>7, <2>1, <2>2 DEF MirTyped
  <2>4. VersionsFit'
    <3> SUFFICES ASSUME NEW j \in Keys
                 PROVE mirCopy'[j] <= mirVersion[j] /\ mirState'[j].known <= mirVersion[j]
      BY <1>0, <1>2, <2>2 DEF VersionsFit
    <3>1. CASE j = k BY <3>1, <1>4, <1>7, <2>1 DEF Settled
    <3>2. CASE j # k BY <3>2, <1>0, <1>5, <1>7, <2>1 DEF VersionsFit
    <3> QED BY <3>1, <3>2
  <2>5. NoticedInTime'
    <3> SUFFICES ASSUME NEW j \in Keys
                 PROVE Timed(mirState[j], Waits(j))' /\ (Waits(j)' => mirState'[j].noticed # Never)
      BY DEF NoticedInTime
    <3>1. CASE j = k
      <4>1. mirState'[j] = t /\ ~Waits(j)' BY <3>1, <1>7, <2>1, <2>2 DEF Waits
      <4>2. Settled(t, mirCopy'[k], mirVersion[k]) BY <1>4
      <4> QED BY <1>2, <2>2, <4>1, <4>2 DEF Settled, Timed, JustNoticed
    <3>2. CASE j # k
      <4>1. mirState'[j] = mirState[j] /\ (Waits(j)' <=> Waits(j)) /\ mirNow' = mirNow
        BY <3>2, <1>2, <1>7, <2>1, <2>2 DEF Waits
      <4>2. Timed(mirState[j], Waits(j)) /\ (Waits(j) => mirState[j].noticed # Never) BY <1>0 DEF NoticedInTime
      <4> QED BY <2>2, <4>1, <4>2 DEF Timed, JustNoticed
    <3> QED BY <3>1, <3>2
  <2>6. RecordedIsLoaded'
    <3> SUFFICES ASSUME NEW j \in Keys, mirState'[j].known # mirState'[j].base
                 PROVE mirCopy'[j] >= mirState'[j].known
      BY DEF RecordedIsLoaded
    <3>1. CASE j = k BY <3>1, <1>4, <1>7, <2>1 DEF Settled
    <3>2. CASE j # k BY <3>2, <1>0, <1>5, <1>7, <2>1 DEF RecordedIsLoaded
    <3> QED BY <3>1, <3>2
  <2>7. SignalsFit' /\ SignalMovesOnce' /\ RefusalsAccounted'
    BY <1>0, <1>2, <2>1 DEF SignalsFit, SignalMovesOnce, RefusalsAccounted
  <2> QED BY <2>3, <2>4, <2>5, <2>6, <2>7 DEF MirInv
<1> QED BY <1>8, <1>9

LEMMA StepStop == ASSUME MirInv, Stop PROVE MirInv'
<1>0. MirTyped /\ SignalsFit /\ VersionsFit /\ NoticedInTime /\ SignalMovesOnce /\ RecordedIsLoaded BY DEF MirInv
<1>1. Facts /\ Refusals(mirRefusal) BY MirFacts
<1>2. PICK kept \in BOOLEAN : mirRefusal' = FlushAll(TRUE, kept) BY DEF Stop
<1>3. mirOn' = "stopped" /\ UNCHANGED <<mirNow, mirVersion, mirOutbox, mirInbox, mirRound, mirCopy, mirState>> BY DEF Stop
<1>4. Refusals(mirRefusal') /\ \A k \in Keys : mirRefusal'[k].pending = 0
  BY <1>1, <1>2, FlushAllCounts DEF Facts
<1>5. RefusalsAccounted' BY <1>4 DEF RefusalsAccounted, Refusals, Accounted
<1>6. MirTyped' BY <1>0, <1>3, <1>4 DEF MirTyped, Refusals
<1> QED BY <1>0, <1>3, <1>5, <1>6
     DEF MirInv, SignalsFit, VersionsFit, NoticedInTime, Timed, JustNoticed, Waits, SignalMovesOnce, RecordedIsLoaded

LEMMA StepTick == ASSUME MirInv, Tick PROVE MirInv'
<1>0. /\ MirTyped /\ SignalsFit /\ VersionsFit /\ NoticedInTime /\ SignalMovesOnce /\ RecordedIsLoaded
      /\ RefusalsAccounted BY DEF MirInv
<1>1. Facts BY MirFacts
<1>2. /\ mirNow < MaxTime /\ mirNow' = mirNow + 1
      /\ mirRound' = IF mirRound.at = "idle" THEN mirRound ELSE [mirRound EXCEPT !.ticks = @ + 1]
      /\ UNCHANGED <<mirVersion, mirOutbox, mirInbox, mirCopy, mirState, mirRefusal, mirOn>>
  BY DEF Tick
<1>3. /\ mirRound' \in RoundState /\ mirRound'.at = mirRound.at /\ mirRound'.todo = mirRound.todo
      /\ mirRound'.read = mirRound.read /\ mirRound'.longest = mirRound.longest
      /\ mirRound.at # "idle" => mirRound'.ticks = mirRound.ticks + 1
  BY <1>0, <1>1, <1>2 DEF MirTyped, RoundState, Facts
<1>4. MirTyped' BY <1>0, <1>1, <1>2, <1>3 DEF MirTyped, Facts
<1>5. VersionsFit' BY <1>0, <1>2, <1>3 DEF VersionsFit
<1>6. NoticedInTime'
  <2> SUFFICES ASSUME NEW k \in Keys
               PROVE Timed(mirState[k], Waits(k))' /\ (Waits(k)' => mirState'[k].noticed # Never)
    BY DEF NoticedInTime
  <2>1. mirState' = mirState /\ (Waits(k)' <=> Waits(k)) BY <1>2, <1>3 DEF Waits
  <2>2. Timed(mirState[k], Waits(k)) /\ (Waits(k) => mirState[k].noticed # Never) BY <1>0 DEF NoticedInTime
  <2>3. mirState[k].noticed \in Nat /\ mirState[k].failing \in Nat /\ mirRound.ticks \in Nat
    BY <1>0, <1>1 DEF MirTyped, MirrorState, RoundState, Times, Facts
  <2>4. mirRound.at = "reloading" => mirRound'.ticks = mirRound.ticks + 1 BY <1>3
  <2>5. /\ mirState[k].noticed <= mirNow => mirState[k].noticed <= mirNow'
        /\ mirState[k].failing <= mirNow => mirState[k].failing <= mirNow'
    BY <1>1, <1>2, <2>3 DEF Facts
  <2>6. JustNoticed(mirState[k]) => JustNoticed(mirState[k])'
    <3> SUFFICES ASSUME JustNoticed(mirState[k]) PROVE JustNoticed(mirState[k])' OBVIOUS
    <3>1. mirNow' - mirState[k].noticed <= mirRound'.ticks
      BY <1>1, <1>2, <2>3, <2>4 DEF JustNoticed, Facts
    <3> QED BY <1>3, <2>1, <3>1 DEF JustNoticed
  <2> QED BY <1>3, <2>1, <2>2, <2>5, <2>6 DEF Timed
<1> QED BY <1>0, <1>2, <1>4, <1>5, <1>6 DEF MirInv, SignalsFit, SignalMovesOnce, RecordedIsLoaded, RefusalsAccounted

LEMMA MirStep == MirInv /\ [MirNext]_mirVars => MirInv'
<1> SUFFICES ASSUME MirInv, [MirNext]_mirVars PROVE MirInv' OBVIOUS
<1>1. CASE UNCHANGED mirVars
  BY <1>1 DEF mirVars, MirInv, MirTyped, SignalsFit, VersionsFit, NoticedInTime, Timed, JustNoticed, Waits, SignalMovesOnce,
              RecordedIsLoaded, RefusalsAccounted
<1>2. CASE MirRound BY <1>2, StepBeginRound, StepBaseline, StepCompare, StepReadFailed, StepReload DEF MirRound
<1>3. CASE Stop \/ Tick BY <1>3, StepStop, StepTick
<1>4. CASE \E k \in Keys : WriteOwn(k) \/ WriteElsewhere(k) \/ NoteStaleRefusal(k)
  BY <1>4, StepWriteOwn, StepWriteElsewhere, StepNote
<1>5. CASE \E s \in mirOutbox : ApplyBump(s) BY <1>5, StepApplyBump
<1> QED BY <1>1, <1>2, <1>3, <1>4, <1>5 DEF MirNext
LEMMA MirAlways == MirSpec => []MirInv
BY MirStart, MirStep, PTL DEF MirSpec

-----------------------------------------------------------------------------
(* The stores: every row that any copy, answer or round holds was committed.   *)

KnownState == [now: Nat, first: Nat]
ReloadState == [at: {"loaded", "idle", "reloading", "read"}, read: Nat, rows: Row]
WriterState == [at: {"idle", "checking", "writing", "answered", "conflict", "done", "failed"}, patch: Patch, next: Row]
WithProvider == {"role", "category"}

Committed(r) == \E v \in 0..version : r = patched.rows[v + 1]
CommittedSince(r, from) == \E v \in from..version : r = patched.rows[v + 1]
Beside(r, patches) ==
  \/ r.value = NoValue /\ r.provider = NoValue
  \/ \E p \in patches : r.value = p.value /\ r.provider = p.provider

TableFits ==
  /\ store \in AllStores /\ row \in Row /\ version \in 0..MaxWrites
  /\ patched \in [patches: SUBSET Patch, rows: Seq(Row)]
  /\ Len(patched.rows) = version + 1 /\ patched.rows[version + 1] = row
  /\ store \in WithProvider => \A n \in 1..(version + 1) : Beside(patched.rows[n], patched.patches)

AuditFits ==
  /\ store = "group_comment" => /\ audit \in Seq(Nat) /\ Len(audit) = row.revision /\ row.revision <= version
                                /\ \A n \in 1..Len(audit) : audit[n] = n - 1
  /\ store = "persona" => audit \in Seq({NoRow})

(* What a process holds: its copy, what its refresher recorded, and its round. *)
OnlyReads(p) == p \notin {HomeOf[w] : w \in Writers} /\ store \in Reloaded
HoldsFit(p, c, k, r) ==
  /\ c \in Row /\ Committed(c)
  /\ k \in KnownState /\ k.now <= version
  /\ r \in ReloadState /\ (r.at \in {"reloading", "read"} => r.read <= version)
  /\ r.at = "read" => CommittedSince(r.rows, r.read)
  /\ OnlyReads(p) /\ k.now # k.first => CommittedSince(c, k.now)
ProcessesFit ==
  /\ copy \in [Processes -> Row] /\ known \in [Processes -> KnownState] /\ round \in [Processes -> ReloadState]
  /\ \A p \in Processes : HoldsFit(p, copy[p], known[p], round[p])

(* What a request holds: a row it was answered, or one it is about to write.   *)
RequestFits(u) ==
  /\ u \in WriterState
  /\ u.at \in {"answered", "conflict"} => Committed(u.next)
  /\ u.at = "writing" /\ store \in WithProvider => Beside(u.next, patched.patches \cup {u.patch})
RequestsFit == writer \in [Writers -> WriterState] /\ \A w \in Writers : RequestFits(writer[w])

StoreInv == TableFits /\ AuditFits /\ ProcessesFit /\ RequestsFit

LEMMA StoreParts ==
  StoreInv => /\ StoreTypeOK /\ CopyWasCommitted /\ ProviderBesideItsModel /\ RevisionsInARow
              /\ PersonaNotReplaced /\ ReaderHoldsRecorded
<1> SUFFICES ASSUME StoreInv
             PROVE  /\ StoreTypeOK /\ CopyWasCommitted /\ ProviderBesideItsModel /\ RevisionsInARow
                    /\ PersonaNotReplaced /\ ReaderHoldsRecorded
  OBVIOUS
<1>0. TableFits /\ AuditFits /\ ProcessesFit /\ RequestsFit BY DEF StoreInv
<1>1. StoreTypeOK
  <2>1. version \in Nat BY <1>0, StoresAssumption DEF TableFits
  <2>2. ASSUME NEW p \in Processes PROVE copy[p] \in Row /\ known[p].now \in 0..version
    BY <1>0, <2>1 DEF ProcessesFit, HoldsFit, KnownState
  <2>3. ASSUME NEW w \in Writers
        PROVE writer[w].at \in {"idle", "checking", "writing", "answered", "conflict", "done", "failed"}
    BY <1>0 DEF RequestsFit, WriterState
  <2> QED BY <1>0, <2>2, <2>3 DEF StoreTypeOK, TableFits
<1>2. CopyWasCommitted BY <1>0 DEF CopyWasCommitted, ProcessesFit, HoldsFit, Committed
<1>3. ProviderBesideItsModel
  <2>1. version + 1 \in 1..(version + 1) BY <1>0, StoresAssumption DEF TableFits
  <2> QED BY <1>0, <2>1 DEF TableFits, ProviderBesideItsModel, Beside, WithProvider
<1>4. RevisionsInARow
  <2> SUFFICES ASSUME store = "group_comment"
               PROVE  Len(audit) = row.revision /\ \A n \in DOMAIN audit : audit[n] = n - 1
    BY DEF RevisionsInARow
  <2>1. /\ audit \in Seq(Nat) /\ Len(audit) = row.revision
        /\ \A n \in 1..Len(audit) : audit[n] = n - 1
    BY <1>0 DEF AuditFits
  <2>2. DOMAIN audit = 1..Len(audit) BY <2>1
  <2> QED BY <2>1, <2>2
<1>5. PersonaNotReplaced BY <1>0 DEF AuditFits, PersonaNotReplaced
<1>6. ReaderHoldsRecorded
  BY <1>0 DEF ReaderHoldsRecorded, ProcessesFit, HoldsFit, OnlyReads, CommittedSince
<1> QED BY <1>1, <1>2, <1>3, <1>4, <1>5, <1>6

LEMMA Blank ==
  /\ NoRow \in Row /\ IdleWriter \in WriterState /\ IdleRound \in ReloadState
  /\ NoRow.value = NoValue /\ NoRow.provider = NoValue
<1>1. NoRow \in Row BY StoresAssumption DEF NoRow, Row, Held
<1>2. IdleWriter \in WriterState BY <1>1, StoresAssumption DEF IdleWriter, WriterState, Patch, Held
<1> QED BY <1>1, <1>2 DEF IdleRound, ReloadState, NoRow

LEMMA StoreStart == StoreInit => StoreInv
<1> SUFFICES ASSUME StoreInit PROVE StoreInv OBVIOUS
<1>1. version = 0 /\ row = NoRow /\ patched = [patches |-> {}, rows |-> <<NoRow>>] /\ audit = <<>> BY DEF StoreInit
<1>2. TableFits
  <2>1. patched.rows \in Seq(Row) /\ Len(patched.rows) = 1 /\ patched.rows[1] = NoRow BY <1>1, Blank
  <2>2. patched \in [patches: SUBSET Patch, rows: Seq(Row)] BY <1>1, <2>1
  <2>3. Beside(NoRow, patched.patches) BY Blank DEF Beside
  <2>4. store \in AllStores BY StoresAssumption DEF StoreInit
  <2>5. \A n \in 1..(version + 1) : n = 1 BY <1>1
  <2> QED BY <1>1, <2>1, <2>2, <2>3, <2>4, <2>5, Blank, StoresAssumption DEF TableFits
<1>3. AuditFits BY <1>1, Blank DEF AuditFits, NoRow
<1>4. Committed(NoRow) BY <1>1 DEF Committed
<1>5. ProcessesFit
  <2> DEFINE ld == [IdleRound EXCEPT !.at = "loaded"]
             kn == [now |-> 0, first |-> 0]
  <2>1. ld \in ReloadState /\ ld.at = "loaded" /\ kn \in KnownState BY Blank DEF ReloadState, IdleRound, KnownState
  <2>2. copy = [p \in Processes |-> NoRow] /\ known = [p \in Processes |-> kn] /\ round = [p \in Processes |-> ld]
    BY DEF StoreInit
  <2>3. \A p \in Processes : HoldsFit(p, NoRow, kn, ld)
    <3>1. kn.now = kn.first /\ kn.now = 0 OBVIOUS
    <3> HIDE DEF ld, kn
    <3> QED BY <1>1, <1>4, <2>1, <3>1, Blank DEF HoldsFit
  <2> HIDE DEF ld, kn
  <2> QED BY <2>1, <2>2, <2>3, Blank DEF ProcessesFit
<1>6. RequestsFit
  <2>1. IdleWriter.at = "idle" BY DEF IdleWriter
  <2> QED BY <2>1, Blank DEF StoreInit, RequestsFit, RequestFits
<1> QED BY <1>2, <1>3, <1>5, <1>6 DEF StoreInv

-----------------------------------------------------------------------------
(* Steps of the stores.  Most leave the table alone.                           *)

LEMMA TableStands ==
  ASSUME StoreInv, UNCHANGED <<store, row, version, patched, audit>>
  PROVE  /\ TableFits' /\ AuditFits'
         /\ \A u : RequestFits(u)' <=> RequestFits(u)
         /\ \A p, c, k, r : HoldsFit(p, c, k, r)' <=> HoldsFit(p, c, k, r)
<1>1. TableFits /\ AuditFits BY DEF StoreInv
<1>2. TableFits' BY <1>1 DEF TableFits
<1>3. AuditFits' BY <1>1 DEF AuditFits
<1>4. \A u : RequestFits(u)' <=> RequestFits(u) BY DEF RequestFits, Committed
<1>5. \A p, c, k, r : HoldsFit(p, c, k, r)' <=> HoldsFit(p, c, k, r)
  BY DEF HoldsFit, Committed, CommittedSince, OnlyReads
<1> QED BY <1>2, <1>3, <1>4, <1>5

LEMMA RequestMoves ==
  ASSUME StoreInv, NEW w \in Writers, NEW u, RequestFits(u), writer' = [writer EXCEPT ![w] = u],
         UNCHANGED <<store, row, version, copy, known, round, patched, audit>>
  PROVE  StoreInv'
<1>0. ProcessesFit /\ RequestsFit BY DEF StoreInv
<1>1. /\ TableFits' /\ AuditFits' /\ \A v : RequestFits(v)' <=> RequestFits(v)
      /\ \A p, c, k, r : HoldsFit(p, c, k, r)' <=> HoldsFit(p, c, k, r)
  BY TableStands
<1>2. RequestsFit'
  <2>1. u \in WriterState BY DEF RequestFits
  <2>2. writer' \in [Writers -> WriterState] BY <1>0, <2>1 DEF RequestsFit
  <2>3. \A x \in Writers : writer'[x] = IF x = w THEN u ELSE writer[x] BY <1>0 DEF RequestsFit
  <2>4. \A x \in Writers : RequestFits(writer'[x]) BY <1>0, <2>3 DEF RequestsFit
  <2>5. \A x \in Writers : RequestFits(writer[x])' BY <2>4 DEF RequestFits, Committed
  <2> QED BY <2>2, <2>5 DEF RequestsFit
<1>3. ProcessesFit' BY <1>0 DEF ProcessesFit, HoldsFit, Committed, CommittedSince, OnlyReads
<1> QED BY <1>1, <1>2, <1>3 DEF StoreInv

LEMMA ProcessMoves ==
  ASSUME StoreInv, NEW p \in Processes, NEW c, NEW k, NEW r, HoldsFit(p, c, k, r),
         copy' = [copy EXCEPT ![p] = c], known' = [known EXCEPT ![p] = k], round' = [round EXCEPT ![p] = r],
         writer' \in [Writers -> WriterState], \A w \in Writers : RequestFits(writer'[w]),
         UNCHANGED <<store, row, version, patched, audit>>
  PROVE  StoreInv'
<1>0. ProcessesFit /\ RequestsFit BY DEF StoreInv
<1>1. TableFits' /\ AuditFits' BY TableStands
<1>2. RequestsFit' BY DEF RequestsFit, RequestFits, Committed
<1>3. ProcessesFit'
  <2>1. c \in Row /\ k \in KnownState /\ r \in ReloadState BY DEF HoldsFit
  <2>2. copy' \in [Processes -> Row] /\ known' \in [Processes -> KnownState] /\ round' \in [Processes -> ReloadState]
    BY <1>0, <2>1 DEF ProcessesFit
  <2>3. ASSUME NEW q \in Processes PROVE HoldsFit(q, copy'[q], known'[q], round'[q])
    <3>1. CASE q = p BY <3>1, <1>0 DEF ProcessesFit
    <3>2. CASE q # p
      <4>1. copy'[q] = copy[q] /\ known'[q] = known[q] /\ round'[q] = round[q] BY <3>2, <1>0 DEF ProcessesFit
      <4> QED BY <4>1, <1>0 DEF ProcessesFit
    <3> QED BY <3>1, <3>2
  <2>4. \A q \in Processes : HoldsFit(q, copy[q], known[q], round[q])'
    BY <2>3 DEF HoldsFit, Committed, CommittedSince, OnlyReads
  <2> QED BY <2>2, <2>4 DEF ProcessesFit
<1> QED BY <1>1, <1>2, <1>3 DEF StoreInv

(* A commit: what was committed before still is, and the new row is.           *)
LEMMA CommitKeeps ==
  ASSUME StoreInv, NEW w \in Writers, NEW next \in Row, Commit(w, next), AuditFits',
         store \in WithProvider => Beside(next, patched.patches \cup {writer[w].patch})
  PROVE  StoreInv'
<1>0. TableFits /\ ProcessesFit /\ RequestsFit BY DEF StoreInv
<1>1. /\ version < MaxWrites /\ row' = next /\ version' = version + 1
      /\ patched' = [patches |-> patched.patches \cup {writer[w].patch}, rows |-> Append(patched.rows, next)]
      /\ writer' = [writer EXCEPT ![w].at = "answered", ![w].next = next]
      /\ UNCHANGED <<store, copy, known, round>>
  BY DEF Commit
<1>2. version \in Nat /\ MaxWrites \in Nat /\ patched.rows \in Seq(Row) /\ patched.patches \subseteq Patch
      /\ Len(patched.rows) = version + 1
  BY <1>0, StoresAssumption DEF TableFits
<1>3. /\ patched'.rows = Append(patched.rows, next) /\ patched'.rows \in Seq(Row) /\ Len(patched'.rows) = version + 2
      /\ patched'.rows[version + 2] = next
      /\ \A n \in 1..(version + 1) : patched'.rows[n] = patched.rows[n]
  BY <1>1, <1>2
<1>4. patched'.patches = patched.patches \cup {writer[w].patch} /\ patched'.patches \subseteq Patch
  BY <1>0, <1>1, <1>2 DEF RequestsFit, WriterState
<1>5. patched' \in [patches: SUBSET Patch, rows: Seq(Row)] BY <1>1, <1>3, <1>4
<1>6. \A r, ps, qs : Beside(r, ps) /\ ps \subseteq qs => Beside(r, qs) BY DEF Beside
<1>7. TableFits'
  <2>1. version' \in 0..MaxWrites /\ version' + 1 = version + 2 BY <1>1, <1>2
  <2>2. ASSUME store \in WithProvider, NEW n \in 1..(version + 2) PROVE Beside(patched'.rows[n], patched'.patches)
    <3>1. CASE n = version + 2 BY <3>1, <2>2, <1>3, <1>4
    <3>2. CASE n # version + 2
      <4>1. n \in 1..(version + 1) BY <3>2, <1>2
      <4> QED BY <4>1, <2>2, <1>0, <1>3, <1>4, <1>6 DEF TableFits
    <3> QED BY <3>1, <3>2
  <2>3. store' = store /\ row' = next BY <1>1
  <2>4. store \in AllStores BY <1>0 DEF TableFits
  <2> QED BY <1>3, <1>5, <2>1, <2>2, <2>3, <2>4 DEF TableFits, Beside
<1>8. \A r : Committed(r) => Committed(r)'
  <2> SUFFICES ASSUME NEW r, NEW v \in 0..version, r = patched.rows[v + 1] PROVE Committed(r)' BY DEF Committed
  <2>1. v \in 0..version' /\ v + 1 \in 1..(version + 1) BY <1>1, <1>2
  <2>2. r = patched'.rows[v + 1] BY <1>3, <2>1
  <2> QED BY <2>1, <2>2 DEF Committed
<1>9. \A r : \A from \in Nat : CommittedSince(r, from) => CommittedSince(r, from)'
  <2> SUFFICES ASSUME NEW r, NEW from \in Nat, NEW v \in from..version, r = patched.rows[v + 1]
               PROVE CommittedSince(r, from)'
    BY DEF CommittedSince
  <2>1. v \in from..version' /\ v + 1 \in 1..(version + 1) BY <1>1, <1>2
  <2>2. r = patched'.rows[v + 1] BY <1>3, <2>1
  <2> QED BY <2>1, <2>2 DEF CommittedSince
<1>10. ProcessesFit'
  <2> SUFFICES ASSUME NEW p \in Processes PROVE HoldsFit(p, copy[p], known[p], round[p])'
    BY <1>0, <1>1 DEF ProcessesFit
  <2>1. HoldsFit(p, copy[p], known[p], round[p]) /\ copy'[p] = copy[p] /\ known'[p] = known[p] /\ round'[p] = round[p]
    BY <1>0, <1>1 DEF ProcessesFit
  <2>2. known[p].now \in Nat /\ round[p].read \in Nat BY <2>1 DEF HoldsFit, KnownState, ReloadState
  <2>3. known[p].now <= version => known[p].now <= version' BY <1>1, <1>2, <2>2
  <2>4. round[p].read <= version => round[p].read <= version' BY <1>1, <1>2, <2>2
  <2>5. Committed(copy[p]) => Committed(copy[p])' BY <1>1, <1>8
  <2>6. CommittedSince(copy[p], known[p].now) => CommittedSince(copy[p], known[p].now)' BY <1>1, <1>9, <2>2
  <2>7. CommittedSince(round[p].rows, round[p].read) => CommittedSince(round[p].rows, round[p].read)' BY <1>1, <1>9, <2>2
  <2>8. OnlyReads(p)' <=> OnlyReads(p) BY <1>1 DEF OnlyReads
  <2> QED BY <2>1, <2>3, <2>4, <2>5, <2>6, <2>7, <2>8 DEF HoldsFit
<1>11. RequestsFit'
  <2>1. writer' \in [Writers -> WriterState] BY <1>0, <1>1 DEF RequestsFit, WriterState
  <2> SUFFICES ASSUME NEW x \in Writers PROVE RequestFits(writer[x])' BY <2>1 DEF RequestsFit
  <2>2. CASE x = w
    <3>1. writer'[x].at = "answered" /\ writer'[x].next = next BY <1>0, <1>1, <2>2 DEF RequestsFit, WriterState
    <3>2. Committed(next)'
      <4>1. version + 1 \in 0..version' /\ version' = version + 1 /\ (version + 1) + 1 = version + 2 BY <1>1, <1>2
      <4> QED BY <1>3, <4>1 DEF Committed
    <3>3. writer'[x] \in WriterState BY <2>1
    <3>4. Committed(writer[x].next)' BY <3>1, <3>2
    <3> QED BY <3>1, <3>3, <3>4 DEF RequestFits
  <2>3. CASE x # w
    <3>1. writer'[x] = writer[x] /\ RequestFits(writer[x]) BY <1>0, <1>1, <2>3 DEF RequestsFit
    <3>2. Committed(writer[x].next) => Committed(writer[x].next)' BY <3>1, <1>8
    <3>3. Beside(writer[x].next, patched.patches \cup {writer[x].patch})
            => Beside(writer'[x].next, patched'.patches \cup {writer'[x].patch})
      BY <1>4, <1>6, <3>1
    <3> QED BY <1>1, <3>1, <3>2, <3>3 DEF RequestFits, Beside
  <2> QED BY <2>2, <2>3
<1> QED BY <1>7, <1>10, <1>11 DEF StoreInv

(* What a merge makes of a patch is a row, whose provider is the one it found  *)
(* or the patch's.                                                             *)
LEMMA MergedRow ==
  ASSUME NEW p \in Patch, NEW prev \in Row
  PROVE  /\ NextRow(p, prev) \in Row
         /\ \A ps : store \in WithProvider /\ Beside(prev, ps) => Beside(NextRow(p, prev), ps \cup {p})
<1>1. /\ Given(p, "value", prev) \in Held /\ Given(p, "flag", prev) \in Held
      /\ GivenOrKept(p, "value", prev) \in Held /\ GivenOrKept(p, "flag", prev) \in Held
  BY DEF Given, GivenOrKept, Patch, Row
<1>2. ProviderWith(p, prev) \in Held BY DEF ProviderWith, Patch, Held
<1>3. \A v, f, g \in Held :
        /\ [prev EXCEPT !.value = v, !.flag = f] \in Row
        /\ [prev EXCEPT !.value = v, !.provider = g, !.flag = f] \in Row
        /\ [prev EXCEPT !.value = v, !.flag = f, !.provider = g] \in Row
  BY DEF Row
<1>4. prev.provider \in Held /\ p.provider \in Held BY DEF Row, Patch
<1>5. /\ ScheduleNext(p, prev) \in Row /\ HotLeadNext(p, prev) \in Row /\ CommentNext(p, prev) \in Row
  BY <1>1, <1>3 DEF ScheduleNext, HotLeadNext, CommentNext
<1>6. RoleNext(p, prev) \in Row
  <2>1. CASE "value" \in p.carries BY <2>1, <1>1, <1>2, <1>3 DEF RoleNext
  <2>2. CASE "value" \notin p.carries BY <2>2, <1>1, <1>4, <1>3 DEF RoleNext
  <2> QED BY <2>1, <2>2
<1>7. ModelNext(p, prev) \in Row
  <2>1. CASE "value" \in p.carries BY <2>1, <1>1, <1>3, <1>4 DEF ModelNext
  <2>2. CASE "value" \notin p.carries BY <2>2, <1>1, <1>4, <1>3 DEF ModelNext
  <2> QED BY <2>1, <2>2
<1>8. NextRow(p, prev) \in Row BY <1>5, <1>6, <1>7 DEF NextRow, CategoryNext
<1>9. ASSUME NEW ps, store \in WithProvider, Beside(prev, ps) PROVE Beside(NextRow(p, prev), ps \cup {p})
  <2>1. NextRow(p, prev) = RoleNext(p, prev) BY <1>9 DEF NextRow, CategoryNext, WithProvider
  <2> DEFINE r == RoleNext(p, prev)
  <2>2. CASE "value" \in p.carries
    <3>1. r.value = p.value /\ r.provider = ProviderWith(p, prev) BY <2>2 DEF RoleNext, Given, Row
    <3> HIDE DEF r
    <3> QED BY <2>1, <3>1 DEF Beside, ProviderWith, r
  <2>3. CASE "value" \notin p.carries
    <3>1. r.value = prev.value /\ r.provider = prev.provider BY <2>3 DEF RoleNext, Given, Row
    <3> HIDE DEF r
    <3> QED BY <1>9, <2>1, <3>1 DEF Beside, r
  <2> QED BY <2>2, <2>3
<1> QED BY <1>8, <1>9

LEMMA StepRequest == ASSUME StoreInv, NEW w \in Writers, NEW p \in Patches, Request(w, p) PROVE StoreInv'
<1> DEFINE u == [writer[w] EXCEPT !.at = "checking", !.patch = p]
<1>1. writer[w] \in WriterState /\ p \in Patch BY PatchesAssumption DEF StoreInv, RequestsFit
<1>2. u \in WriterState /\ u.at = "checking" BY <1>1 DEF WriterState
<1>3. writer' = [writer EXCEPT ![w] = u] /\ UNCHANGED <<store, row, version, copy, known, round, patched, audit>>
  BY DEF Request
<1> HIDE DEF u
<1>4. RequestFits(u) BY <1>2 DEF RequestFits
<1> QED BY <1>3, <1>4, RequestMoves

(* A request that goes on to a place that promises nothing.                    *)
LEMMA PlaceMoves ==
  ASSUME StoreInv, NEW w \in Writers, NEW at \in {"done", "writing"}, Place(w, at),
         at = "writing" => store \notin WithProvider,
         UNCHANGED <<store, row, version, copy, known, round, patched, audit>>
  PROVE  StoreInv'
<1> DEFINE u == [writer[w] EXCEPT !.at = at]
<1>1. writer[w] \in WriterState BY DEF StoreInv, RequestsFit
<1>2. u \in WriterState /\ u.at = at BY <1>1 DEF WriterState
<1>3. writer' = [writer EXCEPT ![w] = u] BY DEF Place
<1> HIDE DEF u
<1>4. RequestFits(u) BY <1>2 DEF RequestFits
<1> QED BY <1>3, <1>4, RequestMoves

LEMMA StepRefused == ASSUME StoreInv, NEW w \in Writers, Refused(w) PROVE StoreInv'
BY PlaceMoves DEF Refused

LEMMA StepChecked == ASSUME StoreInv, NEW w \in Writers, Checked(w) PROVE StoreInv'
<1>1. store \notin WithProvider BY DEF Checked, MergedInTable, WithProvider
<1> QED BY <1>1, PlaceMoves DEF Checked

LEMMA StepMerge == ASSUME StoreInv, NEW w \in Writers, Merge(w) PROVE StoreInv'
<1>0. TableFits /\ ProcessesFit BY DEF StoreInv
<1> DEFINE next == NextRow(writer[w].patch, copy[HomeOf[w]])
           u == [writer[w] EXCEPT !.at = "writing", !.next = next]
<1>1. writer[w] \in WriterState /\ writer[w].patch \in Patch BY DEF StoreInv, RequestsFit, WriterState
<1>2. copy[HomeOf[w]] \in Row /\ Committed(copy[HomeOf[w]]) BY <1>0, StoresAssumption DEF ProcessesFit, HoldsFit
<1>3. next \in Row BY <1>1, <1>2, MergedRow
<1>4. store \in WithProvider => Beside(next, patched.patches \cup {writer[w].patch})
  <2> SUFFICES ASSUME store \in WithProvider PROVE Beside(next, patched.patches \cup {writer[w].patch}) OBVIOUS
  <2>1. PICK v \in 0..version : copy[HomeOf[w]] = patched.rows[v + 1] BY <1>2 DEF Committed
  <2>2. v + 1 \in 1..(version + 1) BY <1>0, StoresAssumption DEF TableFits
  <2>3. Beside(copy[HomeOf[w]], patched.patches) BY <1>0, <2>1, <2>2 DEF TableFits
  <2> HIDE DEF next
  <2> QED BY <1>1, <1>2, <2>3, MergedRow DEF next
<1>5. writer' = [writer EXCEPT ![w] = u] /\ UNCHANGED <<store, row, version, copy, known, round, patched, audit>>
  BY DEF Merge
<1> HIDE DEF next
<1>6. u \in WriterState /\ u.at = "writing" /\ u.next = next /\ u.patch = writer[w].patch BY <1>1, <1>3 DEF WriterState
<1> HIDE DEF u
<1>7. RequestFits(u) BY <1>4, <1>6 DEF RequestFits
<1> QED BY <1>5, <1>7, RequestMoves

LEMMA StepConflict == ASSUME StoreInv, NEW w \in Writers, GroupCommentConflict(w) PROVE StoreInv'
<1>0. TableFits BY DEF StoreInv
<1> DEFINE u == [writer[w] EXCEPT !.at = "conflict", !.next = row]
<1>1. writer[w] \in WriterState BY DEF StoreInv, RequestsFit
<1>2. u \in WriterState /\ u.at = "conflict" /\ u.next = row BY <1>0, <1>1 DEF WriterState, TableFits
<1>3. writer' = [writer EXCEPT ![w] = u] /\ UNCHANGED <<store, row, version, copy, known, round, patched, audit>>
  BY DEF GroupCommentConflict
<1>4. Committed(row)
  <2>1. version \in 0..version BY <1>0, StoresAssumption DEF TableFits
  <2> QED BY <1>0, <2>1 DEF TableFits, Committed
<1> HIDE DEF u
<1>5. RequestFits(u) BY <1>2, <1>4 DEF RequestFits
<1> QED BY <1>3, <1>5, RequestMoves

LEMMA FailedRequest ==
  [IdleWriter EXCEPT !.at = "failed"] \in WriterState /\ [IdleWriter EXCEPT !.at = "failed"].at = "failed"
BY Blank DEF WriterState, IdleWriter

LEMMA StepWriteFails == ASSUME StoreInv, NEW w \in Writers, WriteFails(w) PROVE StoreInv'
<1> DEFINE u == [IdleWriter EXCEPT !.at = "failed"]
<1>1. u \in WriterState /\ u.at = "failed" BY FailedRequest
<1>2. writer' = [writer EXCEPT ![w] = u] /\ UNCHANGED <<store, row, version, copy, known, round, patched, audit>>
  <2>1. writer \in [Writers -> WriterState] BY DEF StoreInv, RequestsFit
  <2> QED BY <2>1 DEF WriteFails
<1> HIDE DEF u
<1>3. RequestFits(u) BY <1>1 DEF RequestFits
<1> QED BY <1>2, <1>3, RequestMoves

LEMMA StepUpsert == ASSUME StoreInv, NEW w \in Writers, Upsert(w) PROVE StoreInv'
<1>1. RequestFits(writer[w]) BY DEF StoreInv, RequestsFit
<1>2. /\ store \in Merged /\ writer[w].at = "writing" /\ Commit(w, writer[w].next) /\ audit' = audit BY DEF Upsert
<1>3. writer[w].next \in Row BY <1>1 DEF RequestFits, WriterState
<1>4. AuditFits'
  <2>1. store' = store BY <1>2 DEF Commit
  <2> QED BY <1>2, <2>1 DEF AuditFits, Merged
<1> QED BY <1>1, <1>2, <1>3, <1>4, CommitKeeps DEF RequestFits

LEMMA StepUpsertInTable == ASSUME StoreInv, NEW w \in Writers, UpsertInTable(w) PROVE StoreInv'
<1> DEFINE p == writer[w].patch
           next == IF store = "group_join" THEN GroupJoinRow(p) ELSE RuleModeRow(p)
<1>1. p \in Patch /\ row \in Row BY DEF StoreInv, RequestsFit, WriterState, TableFits
<1>2. /\ store \in {"group_join", "rule_mode"} /\ Commit(w, next) /\ audit' = audit BY DEF UpsertInTable
<1>3. next \in Row
  <2>1. Given(p, "value", row) \in Held /\ Given(p, "flag", row) \in Held BY <1>1 DEF Given, Patch, Row
  <2>2. \A v, f \in Held : [row EXCEPT !.value = v, !.flag = f] \in Row /\ [row EXCEPT !.value = v] \in Row
    BY <1>1 DEF Row
  <2>3. GroupJoinRow(p) \in Row BY <2>1, <2>2 DEF GroupJoinRow
  <2>4. (IF p.value = NoValue THEN row.value ELSE p.value) \in Held BY <1>1 DEF Patch, Row
  <2>5. RuleModeRow(p) \in Row
    <3> HIDE DEF p
    <3> QED BY <2>2, <2>4, StoresAssumption DEF RuleModeRow, Held
  <2> QED BY <2>3, <2>5
<1>4. AuditFits' /\ store \notin WithProvider
  <2>1. store' = store BY <1>2 DEF Commit
  <2> QED BY <1>2, <2>1 DEF AuditFits, WithProvider
<1> HIDE DEF next
<1> QED BY <1>2, <1>3, <1>4, CommitKeeps

LEMMA PersonaRow ==
  ASSUME StoreInv, NEW w \in Writers PROVE [NoRow EXCEPT !.value = writer[w].patch.value] \in Row
<1>1. writer[w].patch.value \in Held BY DEF StoreInv, RequestsFit, WriterState, Patch
<1>2. \A v \in Held : [NoRow EXCEPT !.value = v] \in Row BY Blank DEF Row
<1> QED BY <1>1, <1>2

LEMMA StepPersonaSet == ASSUME StoreInv, NEW w \in Writers, PersonaSet(w) PROVE StoreInv'
<1> DEFINE next == [NoRow EXCEPT !.value = writer[w].patch.value]
<1>1. store = "persona" /\ Commit(w, next) /\ audit' = audit /\ next \in Row BY PersonaRow DEF PersonaSet
<1>2. store' = store BY <1>1 DEF Commit
<1>3. AuditFits' BY <1>1, <1>2 DEF StoreInv, AuditFits
<1> HIDE DEF next
<1> QED BY <1>1, <1>3, CommitKeeps DEF WithProvider

LEMMA StepPersonaClear == ASSUME StoreInv, NEW w \in Writers, PersonaClear(w) PROVE StoreInv'
<1>1. store = "persona" /\ Commit(w, NoRow) /\ audit' = audit BY DEF PersonaClear
<1>2. store' = store BY <1>1 DEF Commit
<1>3. AuditFits' BY <1>1, <1>2 DEF StoreInv, AuditFits
<1> QED BY <1>1, <1>3, CommitKeeps, Blank DEF WithProvider

LEMMA StepPersonaSetIfMissing == ASSUME StoreInv, NEW w \in Writers, PersonaSetIfMissing(w) PROVE StoreInv'
<1> DEFINE next == [NoRow EXCEPT !.value = writer[w].patch.value]
<1>1. CASE Missing(w)
  <2>1. store = "persona" /\ Commit(w, next) /\ audit' = Append(audit, row) /\ next \in Row
    BY <1>1, PersonaRow DEF PersonaSetIfMissing
  <2>2. store' = store BY <2>1 DEF Commit
  <2>3. audit \in Seq({NoRow}) /\ row = NoRow BY <1>1, <2>1 DEF StoreInv, AuditFits, Missing
  <2>4. AuditFits' BY <2>1, <2>2, <2>3 DEF AuditFits
  <2> HIDE DEF next
  <2> QED BY <2>1, <2>4, CommitKeeps DEF WithProvider
<1>2. CASE ~Missing(w)
  BY <1>2, PlaceMoves DEF PersonaSetIfMissing
<1> QED BY <1>1, <1>2

LEMMA StepGroupComment == ASSUME StoreInv, NEW w \in Writers, GroupCommentWrite(w) PROVE StoreInv'
<1> DEFINE next == [row EXCEPT !.value = writer[w].patch.value, !.revision = @ + 1]
<1>0. TableFits /\ AuditFits BY DEF StoreInv
<1>1. /\ store = "group_comment" /\ Expected(w) /\ Commit(w, next) /\ audit' = Append(audit, writer[w].patch.expected)
  BY DEF GroupCommentWrite
<1>2. version < MaxWrites /\ version' = version + 1 /\ row' = next /\ store' = store BY <1>1 DEF Commit
<1>3. /\ audit \in Seq(Nat) /\ Len(audit) = row.revision /\ row.revision <= version
      /\ \A n \in 1..Len(audit) : audit[n] = n - 1
  BY <1>0, <1>1 DEF AuditFits
<1>4. version \in Nat /\ MaxWrites \in Nat /\ row \in Row /\ row.revision \in Nat
  BY <1>0, StoresAssumption DEF TableFits, Row
<1>5. writer[w].patch.value \in Held BY DEF StoreInv, RequestsFit, WriterState, Patch
<1>6. next \in Row /\ next.revision = row.revision + 1
  <2>1. \A v \in Held : \A n \in 0..MaxWrites :
          /\ [row EXCEPT !.value = v, !.revision = n] \in Row
          /\ [row EXCEPT !.value = v, !.revision = n].revision = n
    BY <1>4 DEF Row
  <2>2. row.revision + 1 \in 0..MaxWrites BY <1>2, <1>3, <1>4
  <2>3. next = [row EXCEPT !.value = writer[w].patch.value, !.revision = row.revision + 1] BY <1>4 DEF Row
  <2> HIDE DEF next
  <2> QED BY <1>5, <2>1, <2>2, <2>3
<1>7. writer[w].patch.expected = row.revision BY <1>1 DEF Expected
<1> HIDE DEF next
<1>8. AuditFits'
  <2>1. audit' = Append(audit, row.revision) BY <1>1, <1>7
  <2>2. audit' \in Seq(Nat) /\ Len(audit') = row.revision + 1 BY <1>3, <1>4, <2>1
  <2>3. ASSUME NEW n \in 1..Len(audit') PROVE audit'[n] = n - 1 BY <1>3, <1>4, <2>1, <2>2
  <2>4. row'.revision = row.revision + 1 /\ row'.revision <= version' BY <1>2, <1>3, <1>4, <1>6
  <2> QED BY <1>1, <1>2, <2>2, <2>3, <2>4 DEF AuditFits
<1> QED BY <1>1, <1>6, <1>8, CommitKeeps DEF WithProvider

LEMMA StepAnswered == ASSUME StoreInv, NEW w \in Writers, Answered(w) PROVE StoreInv'
<1>0. ProcessesFit /\ RequestsFit BY DEF StoreInv
<1> DEFINE p == HomeOf[w]
           u == [writer[w] EXCEPT !.at = "done"]
<1>1. p \in Processes BY StoresAssumption
<1>2. /\ writer[w].at \in {"answered", "conflict"} /\ copy' = [copy EXCEPT ![p] = writer[w].next]
      /\ writer' = [writer EXCEPT ![w] = u] /\ UNCHANGED <<store, row, version, known, round, patched, audit>>
  BY DEF Answered, Place
<1>3. RequestFits(writer[w]) /\ writer[w] \in WriterState BY <1>0 DEF RequestsFit
<1>4. u \in WriterState /\ u.at = "done" BY <1>3 DEF WriterState
<1>5. writer[w].next \in Row /\ Committed(writer[w].next) BY <1>2, <1>3 DEF RequestFits, WriterState
<1>6. HoldsFit(p, copy[p], known[p], round[p]) BY <1>0, <1>1 DEF ProcessesFit
<1>7. ~OnlyReads(p) BY DEF OnlyReads
<1> HIDE DEF u, p
<1>8. HoldsFit(p, writer[w].next, known[p], round[p]) BY <1>5, <1>6, <1>7 DEF HoldsFit
<1>9. RequestFits(u) BY <1>4 DEF RequestFits
<1>10. writer' \in [Writers -> WriterState] /\ \A x \in Writers : RequestFits(writer'[x])
  BY <1>0, <1>2, <1>4, <1>9 DEF RequestsFit
<1>11. known' = [known EXCEPT ![p] = known[p]] /\ round' = [round EXCEPT ![p] = round[p]]
  BY <1>0, <1>2 DEF ProcessesFit
<1>12. copy' = [copy EXCEPT ![p] = writer[w].next] /\ UNCHANGED <<store, row, version, patched, audit>> BY <1>2
<1> QED BY <1>1, <1>8, <1>10, <1>11, <1>12, ProcessMoves

(* A round moves what its process holds, and nothing else.                     *)
LEMMA RoundMoves ==
  ASSUME StoreInv, NEW p \in Processes, NEW c, NEW k, NEW r, HoldsFit(p, c, k, r),
         copy' = [copy EXCEPT ![p] = c], known' = [known EXCEPT ![p] = k], round' = [round EXCEPT ![p] = r],
         UNCHANGED <<store, row, version, writer, patched, audit>>
  PROVE  StoreInv'
<1>1. writer' \in [Writers -> WriterState] /\ \A w \in Writers : RequestFits(writer'[w]) BY DEF StoreInv, RequestsFit
<1> QED BY <1>1, ProcessMoves

LEMMA IdleHolds ==
  ASSUME NEW p, NEW c, NEW k, c \in Row, Committed(c), k \in KnownState, k.now <= version,
         OnlyReads(p) /\ k.now # k.first => CommittedSince(c, k.now)
  PROVE  /\ HoldsFit(p, c, k, IdleRound)
         /\ HoldsFit(p, c, k, [IdleRound EXCEPT !.at = "loaded"])
         /\ \A n \in Nat : n <= version => HoldsFit(p, c, k, [IdleRound EXCEPT !.at = "reloading", !.read = n])
<1>1. IdleRound \in ReloadState /\ IdleRound.at = "idle" BY Blank DEF IdleRound
<1>2. [IdleRound EXCEPT !.at = "loaded"] \in ReloadState /\ [IdleRound EXCEPT !.at = "loaded"].at = "loaded"
  BY Blank DEF ReloadState, IdleRound
<1>3. ASSUME NEW n \in Nat
      PROVE LET r == [IdleRound EXCEPT !.at = "reloading", !.read = n]
            IN r \in ReloadState /\ r.at = "reloading" /\ r.read = n
  BY Blank DEF ReloadState, IdleRound
<1>4. HoldsFit(p, c, k, IdleRound) BY <1>1 DEF HoldsFit
<1>5. HoldsFit(p, c, k, [IdleRound EXCEPT !.at = "loaded"]) BY <1>2 DEF HoldsFit
<1>6. ASSUME NEW n \in Nat, n <= version PROVE HoldsFit(p, c, k, [IdleRound EXCEPT !.at = "reloading", !.read = n])
  BY <1>3, <1>6 DEF HoldsFit
<1> QED BY <1>4, <1>5, <1>6

LEMMA TableNow == StoreInv => /\ Committed(row) /\ row \in Row /\ version \in Nat
                              /\ \A n \in Nat : n <= version => CommittedSince(row, n)
<1> SUFFICES ASSUME StoreInv PROVE /\ Committed(row) /\ row \in Row /\ version \in Nat
                                   /\ \A n \in Nat : n <= version => CommittedSince(row, n)
  OBVIOUS
<1>1. TableFits BY DEF StoreInv
<1>2. version \in Nat /\ row = patched.rows[version + 1] /\ row \in Row BY <1>1, StoresAssumption DEF TableFits
<1>3. \A n \in Nat : n <= version => version \in n..version BY <1>2
<1> QED BY <1>2, <1>3 DEF Committed, CommittedSince

LEMMA StepTakesVersionOver == ASSUME StoreInv, NEW p \in Processes, TakesVersionOver(p) PROVE StoreInv'
<1>0. ProcessesFit /\ version \in Nat BY TableNow DEF StoreInv
<1> DEFINE k == [now |-> version, first |-> version]
<1>1. HoldsFit(p, copy[p], known[p], round[p]) BY <1>0 DEF ProcessesFit
<1>2. k \in KnownState /\ k.now = version /\ k.now = k.first /\ k.now <= version BY <1>0 DEF KnownState
<1>3. known' = [known EXCEPT ![p] = k] /\ round' = [round EXCEPT ![p] = IdleRound]
      /\ UNCHANGED <<store, row, version, copy, writer, patched, audit>>
  BY DEF TakesVersionOver
<1>4. copy' = [copy EXCEPT ![p] = copy[p]] BY <1>0, <1>3 DEF ProcessesFit
<1> HIDE DEF k
<1>5. HoldsFit(p, copy[p], k, IdleRound) BY <1>1, <1>2, IdleHolds DEF HoldsFit
<1> QED BY <1>3, <1>4, <1>5, RoundMoves

LEMMA StepReadVersion == ASSUME StoreInv, NEW p \in Processes, ReadVersion(p) PROVE StoreInv'
<1>0. ProcessesFit /\ version \in Nat BY TableNow DEF StoreInv
<1>1. HoldsFit(p, copy[p], known[p], round[p]) BY <1>0 DEF ProcessesFit
<1>2. copy' = [copy EXCEPT ![p] = copy[p]] /\ UNCHANGED <<store, row, version, writer, patched, audit>>
  BY <1>0 DEF ReadVersion, ProcessesFit
<1>3. CASE store \in Reloaded
  <2> DEFINE r == [IdleRound EXCEPT !.at = "reloading", !.read = version]
  <2>1. round' = [round EXCEPT ![p] = r] /\ known' = [known EXCEPT ![p] = known[p]]
    BY <1>0, <1>3 DEF ReadVersion, ProcessesFit
  <2>2. HoldsFit(p, copy[p], known[p], r)
    <3>1. version <= version BY <1>0
    <3>2. \A n \in Nat : n <= version => HoldsFit(p, copy[p], known[p], [IdleRound EXCEPT !.at = "reloading", !.read = n])
      BY <1>1, IdleHolds DEF HoldsFit
    <3> QED BY <1>0, <3>1, <3>2
  <2> HIDE DEF r
  <2> QED BY <1>2, <2>1, <2>2, RoundMoves
<1>4. CASE store \notin Reloaded
  <2> DEFINE k == [known[p] EXCEPT !.now = version]
  <2>1. known' = [known EXCEPT ![p] = k] /\ round' = [round EXCEPT ![p] = round[p]]
    BY <1>0, <1>4 DEF ReadVersion, ProcessesFit
  <2>2. k \in KnownState /\ k.now = version BY <1>0 DEF ProcessesFit, KnownState
  <2>3. ~OnlyReads(p) BY <1>4 DEF OnlyReads
  <2> HIDE DEF k
  <2>4. k.now <= version BY <1>0, <2>2
  <2>5. HoldsFit(p, copy[p], k, round[p]) BY <1>1, <2>2, <2>3, <2>4 DEF HoldsFit
  <2> QED BY <1>2, <2>1, <2>5, RoundMoves
<1> QED BY <1>3, <1>4

LEMMA StepReadRows == ASSUME StoreInv, NEW p \in Processes, ReadRows(p) PROVE StoreInv'
<1>0. ProcessesFit BY DEF StoreInv
<1> DEFINE r == [round[p] EXCEPT !.at = "read", !.rows = row]
<1>1. HoldsFit(p, copy[p], known[p], round[p]) BY <1>0 DEF ProcessesFit
<1>2. /\ round[p].at = "reloading" /\ round' = [round EXCEPT ![p] = r]
      /\ UNCHANGED <<store, row, version, copy, known, writer, patched, audit>>
  BY DEF ReadRows
<1>3. round[p] \in ReloadState BY <1>1 DEF HoldsFit
<1>4. r \in ReloadState /\ r.at = "read" /\ r.rows = row /\ r.read = round[p].read BY <1>3, TableNow DEF ReloadState
<1>5. round[p].read \in Nat /\ round[p].read <= version BY <1>1, <1>2, <1>3 DEF HoldsFit, ReloadState
<1>6. CommittedSince(row, round[p].read) BY <1>5, TableNow
<1>7. copy' = [copy EXCEPT ![p] = copy[p]] /\ known' = [known EXCEPT ![p] = known[p]] BY <1>0, <1>2 DEF ProcessesFit
<1> HIDE DEF r
<1>8. HoldsFit(p, copy[p], known[p], r) BY <1>1, <1>4, <1>5, <1>6 DEF HoldsFit
<1> QED BY <1>2, <1>7, <1>8, RoundMoves

LEMMA StepTakeRows == ASSUME StoreInv, NEW p \in Processes, TakeRows(p) PROVE StoreInv'
<1>0. ProcessesFit /\ version \in Nat BY TableNow DEF StoreInv
<1> DEFINE k == [known[p] EXCEPT !.now = round[p].read]
           c == round[p].rows
<1>1. HoldsFit(p, copy[p], known[p], round[p]) BY <1>0 DEF ProcessesFit
<1>2. /\ round[p].at = "read" /\ copy' = [copy EXCEPT ![p] = c] /\ known' = [known EXCEPT ![p] = k]
      /\ round' = [round EXCEPT ![p] = IdleRound] /\ UNCHANGED <<store, row, version, writer, patched, audit>>
  BY <1>0 DEF TakeRows, ProcessesFit
<1>3. round[p].read \in Nat /\ round[p].read <= version /\ c \in Row /\ CommittedSince(c, round[p].read)
  BY <1>1, <1>2 DEF HoldsFit, ReloadState
<1>4. k \in KnownState /\ k.now = round[p].read BY <1>0, <1>3 DEF ProcessesFit, KnownState
<1>5. Committed(c)
  <2>1. \A v \in round[p].read..version : v \in 0..version BY <1>0, <1>3
  <2> QED BY <1>3, <2>1 DEF Committed, CommittedSince
<1> HIDE DEF k, c
<1>6. HoldsFit(p, c, k, IdleRound) BY <1>3, <1>4, <1>5, IdleHolds
<1> QED BY <1>2, <1>6, RoundMoves

LEMMA StepReloadFails == ASSUME StoreInv, NEW p \in Processes, ReloadFails(p) PROVE StoreInv'
<1>0. ProcessesFit BY DEF StoreInv
<1>1. HoldsFit(p, copy[p], known[p], round[p]) BY <1>0 DEF ProcessesFit
<1>2. round' = [round EXCEPT ![p] = IdleRound] /\ UNCHANGED <<store, row, version, copy, known, writer, patched, audit>>
  BY DEF ReloadFails
<1>3. copy' = [copy EXCEPT ![p] = copy[p]] /\ known' = [known EXCEPT ![p] = known[p]] BY <1>0, <1>2 DEF ProcessesFit
<1>4. HoldsFit(p, copy[p], known[p], IdleRound) BY <1>1, IdleHolds DEF HoldsFit
<1> QED BY <1>2, <1>3, <1>4, RoundMoves

LEMMA StepRestart == ASSUME StoreInv, NEW p \in Processes, Restart(p) PROVE StoreInv'
<1>0. ProcessesFit /\ RequestsFit BY DEF StoreInv
<1> DEFINE k == [now |-> 0, first |-> 0]
           r == [IdleRound EXCEPT !.at = "loaded"]
           u == [IdleWriter EXCEPT !.at = "failed"]
<1>1. /\ copy' = [copy EXCEPT ![p] = row] /\ round' = [round EXCEPT ![p] = r] /\ known' = [known EXCEPT ![p] = k]
      /\ writer' = [w \in Writers |-> IF HomeOf[w] = p THEN u ELSE writer[w]]
      /\ UNCHANGED <<store, row, version, patched, audit>>
  BY DEF Restart
<1>2. k \in KnownState /\ k.now = k.first /\ k.now = 0 BY DEF KnownState
<1>3. k.now <= version BY <1>2, TableNow
<1>4. HoldsFit(p, row, k, r) BY <1>2, <1>3, TableNow, IdleHolds
<1>5. u \in WriterState /\ u.at = "failed" BY FailedRequest
<1> HIDE DEF u, k, r
<1>6. RequestFits(u) BY <1>5 DEF RequestFits
<1>7. writer' \in [Writers -> WriterState] /\ \A w \in Writers : RequestFits(writer'[w])
  BY <1>0, <1>1, <1>5, <1>6 DEF RequestsFit
<1> QED BY <1>1, <1>4, <1>7, ProcessMoves

LEMMA StoreStep == StoreInv /\ [StoreNext]_storeVars => StoreInv'
<1> SUFFICES ASSUME StoreInv, [StoreNext]_storeVars PROVE StoreInv' OBVIOUS
<1>1. CASE UNCHANGED storeVars
  <2>1. ProcessesFit' /\ RequestsFit'
    BY <1>1 DEF storeVars, StoreInv, ProcessesFit, RequestsFit, HoldsFit, RequestFits, Committed, CommittedSince, OnlyReads
  <2> QED BY <1>1, <2>1, TableStands DEF storeVars, StoreInv
<1>2. CASE \E w \in Writers : Writing(w)
  <2>1. PICK w \in Writers : Writing(w) BY <1>2
  <2> QED BY <2>1, StepRequest, StepRefused, StepMerge, StepChecked, StepUpsert, StepUpsertInTable, StepPersonaSet,
          StepPersonaSetIfMissing, StepPersonaClear, StepGroupComment, StepConflict, StepWriteFails, StepAnswered
       DEF Writing
<1>3. CASE \E p \in Processes : Refreshing(p) \/ Restart(p)
  BY <1>3, StepTakesVersionOver, StepReadVersion, StepReadRows, StepTakeRows, StepReloadFails, StepRestart DEF Refreshing
<1> QED BY <1>1, <1>2, <1>3 DEF StoreNext
LEMMA StoreAlways == StoreSpec => []StoreInv
BY StoreStart, StoreStep, PTL DEF StoreSpec

(* Only the statement that merges in the table commits a join setting.         *)
LEMMA JoinStep ==
  ASSUME StoreInv, [StoreNext]_storeVars
  PROVE  \A w \in Writers : (store = "group_join" /\ CommitsOf(w)) => \A f \in Fields \ writer[w].patch.carries : row'[f] = row[f]
<1> SUFFICES ASSUME NEW w \in Writers, store = "group_join", CommitsOf(w), NEW f \in Fields \ writer[w].patch.carries
             PROVE  row'[f] = row[f]
  OBVIOUS
<1>0. writer \in [Writers -> WriterState] /\ row \in Row BY DEF StoreInv, RequestsFit, TableFits
<1>1. writer[w].at = "writing" /\ writer'[w].at = "answered" BY DEF CommitsOf
<1>2. ASSUME NEW x \in Writers, Writing(x) PROVE UpsertInTable(w)
  <2>1. x = w
    <3>1. ASSUME x # w, NEW u, writer' = [writer EXCEPT ![x] = u] PROVE FALSE BY <1>0, <1>1, <3>1
    <3>2. ASSUME x # w PROVE \E u : writer' = [writer EXCEPT ![x] = u]
      <4>1. writer' # writer BY <1>1
      <4>2. CASE Refused(x) \/ Checked(x) \/ Answered(x) BY <4>2 DEF Refused, Checked, Answered, Place
      <4>3. CASE (\E p \in Patches : Request(x, p)) BY <4>3 DEF Request
      <4>4. CASE Merge(x) \/ GroupCommentConflict(x) BY <4>4 DEF Merge, GroupCommentConflict
      <4>5. CASE WriteFails(x)
        <5>1. writer' = [writer EXCEPT ![x] = [IdleWriter EXCEPT !.at = "failed"]] BY <4>5, <1>0 DEF WriteFails
        <5> QED BY <5>1
      <4>6. ASSUME NEW next, Commit(x, next) PROVE \E u : writer' = [writer EXCEPT ![x] = u] BY <4>6 DEF Commit
      <4>7. CASE Upsert(x) \/ UpsertInTable(x) BY <4>6, <4>7 DEF Upsert, UpsertInTable
      <4>8. CASE PersonaSet(x) \/ PersonaSetIfMissing(x) \/ PersonaClear(x) \/ GroupCommentWrite(x)
        BY <4>8 DEF PersonaSet, PersonaSetIfMissing, PersonaClear, GroupCommentWrite
      <4> QED BY <1>2, <4>2, <4>3, <4>4, <4>5, <4>7, <4>8 DEF Writing
    <3> QED BY <3>1, <3>2
  <2>2. ASSUME NEW at, at # "answered", Place(w, at) PROVE FALSE BY <1>0, <1>1, <2>2 DEF Place, WriterState
  <2>3. ~Refused(w) /\ ~Checked(w) /\ ~Answered(w) BY <2>2 DEF Refused, Checked, Answered
  <2>4. \A p \in Patches : ~Request(w, p) BY <1>1 DEF Request
  <2>5. ~Merge(w) /\ ~GroupCommentConflict(w) BY <1>1 DEF Merge, GroupCommentConflict
  <2>6. ~WriteFails(w)
    <3>1. WriteFails(w) => writer'[w].at = "failed"
      BY <1>0, FailedRequest DEF WriteFails, WriterState
    <3> QED BY <1>1, <3>1
  <2>7. ~Upsert(w) /\ ~PersonaSet(w) /\ ~PersonaSetIfMissing(w) /\ ~PersonaClear(w) /\ ~GroupCommentWrite(w)
    BY DEF Upsert, PersonaSet, PersonaSetIfMissing, PersonaClear, GroupCommentWrite, Merged
  <2> QED BY <1>2, <2>1, <2>3, <2>4, <2>5, <2>6, <2>7 DEF Writing
<1>3. ASSUME UpsertInTable(w) PROVE row'[f] = row[f]
  <2> DEFINE p == writer[w].patch
  <2>1. row' = GroupJoinRow(p) BY <1>3 DEF UpsertInTable, Commit
  <2>2. row' = [row EXCEPT !.value = Given(p, "value", row), !.flag = Given(p, "flag", row)] BY <2>1 DEF GroupJoinRow
  <2>3. CASE f = "value" BY <1>0, <2>2, <2>3 DEF Given, Row
  <2>4. CASE f = "flag" BY <1>0, <2>2, <2>4 DEF Given, Row
  <2> QED BY <2>3, <2>4 DEF Fields
<1>4. ASSUME NEW p \in Processes, Refreshing(p) \/ Restart(p) PROVE FALSE
  <2>1. CASE Refreshing(p)
    <3>1. writer' = writer
      BY <2>1 DEF Refreshing, TakesVersionOver, ReadVersion, ReadRows, TakeRows, ReloadFails
    <3> QED BY <1>1, <3>1
  <2>2. CASE Restart(p)
    <3>1. writer'[w] = writer[w] \/ writer'[w] = [IdleWriter EXCEPT !.at = "failed"] BY <2>2 DEF Restart
    <3> QED BY <1>1, <3>1, FailedRequest
  <2> QED BY <1>4, <2>1, <2>2
<1>5. CASE UNCHANGED storeVars BY <1>1, <1>5 DEF storeVars
<1> QED BY <1>2, <1>3, <1>4, <1>5 DEF StoreNext

-----------------------------------------------------------------------------
(* Calls: who may be past the claim of a key, and what the key's record says.  *)

CallStates == [at: {"connect", "scoped", "route", "act", "resync", "write", "complete", "config"},
               who: Customers, kind: Kinds, key: IdemKeys, expected: Nat, id: 1..MaxCalls, fresh: BOOLEAN,
               saw: Jobs \cup Settings \cup {Nobody}]
Claims == [by: 0..MaxCalls] \cup {Nobody}
PastClaim == {"act", "resync", "complete"}
Within == {"scoped", "route", "act", "resync", "write", "complete", "config"}

CallsTyped ==
  /\ reach \subseteq Customers /\ elsewhere \subseteq Others /\ calls \in 0..MaxCalls
  /\ call \in [Requests -> CallStates \cup {NoCall}]
RecordsTyped ==
  /\ claim \in [Slots -> Claims] /\ job \in Jobs /\ controls \in Settings /\ dispatching \subseteq 0..MaxJob
  /\ commands \in [Slots -> Nat] /\ answers \in [Slots -> SUBSET (1..MaxCalls)]

(* What a call is at tells its form, who may make it and what it has seen.     *)
CallFits(c) ==
  /\ c.at \in PastClaim => c.kind \in Keyed
  /\ c.at = "resync" => c.kind = "reset"
  /\ c.at = "complete" /\ c.kind = "send" => c.saw \in Jobs
  /\ c.at # "idle" /\ c.kind = "controls" => c.expected <= controls.version
  /\ c.at = "write" => /\ c.kind = "controls" /\ c.saw \in Settings
                       /\ c.expected <= c.saw.version /\ c.saw.version <= controls.version
                       /\ c.saw.version = controls.version => c.saw = controls
  /\ c.at \in Within => c.who \in reach
CallsFit == \A r \in Requests : CallFits(call[r])

(* One call at most is past the claim of a key, and before its command is      *)
(* carried out the record says that nothing was; an answer that was recorded   *)
(* is the only one.                                                            *)
Users(s) == {r \in Requests : call[r].at \in PastClaim /\ SlotOf(call[r]) = s}
SlotFits(s) ==
  /\ \A q, r \in Users(s) : q = r
  /\ \A r \in Users(s) : /\ claim[s] = Open /\ answers[s] = {}
                         /\ commands[s] = IF call[r].at = "act" THEN 0 ELSE 1
  /\ claim[s] = Nobody => commands[s] = 0 /\ answers[s] = {}
  /\ claim[s] = Open => commands[s] <= 1 /\ answers[s] = {}
  /\ claim[s] \notin {Nobody, Open} => commands[s] = 1 /\ answers[s] \subseteq {claim[s].by}
SlotsFit == \A s \in Slots : s[2] # "send" => SlotFits(s)

(* A reply is sent by nobody before it is queued, and queued once.             *)
SendsFit ==
  \A s \in Slots : s[2] = "send" => /\ commands[s] <= 1
                                    /\ job.state \in {"draft", "approved"} => commands[s] = 0

InsideCalls == {r \in Requests : Inside(r)}
PoolFits == Cardinality(InsideCalls) + Cardinality(elsewhere) <= Connections

InterInv == CallsTyped /\ RecordsTyped /\ CallsFit /\ SlotsFit /\ SendsFit /\ PoolFits

LEMMA Pooled ==
  /\ \A S : S \subseteq Requests => IsFiniteSet(S) /\ Cardinality(S) \in Nat
  /\ \A S : S \subseteq Others => IsFiniteSet(S) /\ Cardinality(S) \in Nat
  /\ \A S, T : S \subseteq T /\ T \subseteq Requests => Cardinality(S) <= Cardinality(T)
  /\ Connections \in Nat
BY InteractionsAssumption, FS_Subset, FS_CardinalityType

LEMMA InterParts == InterInv => InteractionsTypeOK /\ OncePerKey /\ ActsWhileAllowed
<1> SUFFICES ASSUME InterInv PROVE InteractionsTypeOK /\ OncePerKey /\ ActsWhileAllowed OBVIOUS
<1>0. CallsTyped /\ RecordsTyped /\ CallsFit /\ SlotsFit /\ SendsFit /\ PoolFits BY DEF InterInv
<1>1. Free \in 0..Connections
  <2>1. InsideCalls \subseteq Requests /\ elsewhere \subseteq Others BY <1>0 DEF InsideCalls, CallsTyped
  <2>2. Cardinality(InsideCalls) \in Nat /\ Cardinality(elsewhere) \in Nat /\ Connections \in Nat BY <2>1, Pooled
  <2>3. Free = Connections - Cardinality(InsideCalls) - Cardinality(elsewhere) BY DEF Free, InsideCalls
  <2> QED BY <1>0, <2>2, <2>3 DEF PoolFits
<1>2. ASSUME NEW r \in Requests
      PROVE \/ call[r] = NoCall
            \/ /\ call[r].at \in {"connect", "scoped", "route", "act", "resync", "write", "complete", "config"}
               /\ call[r].who \in Customers /\ call[r].kind \in Kinds /\ call[r].key \in IdemKeys
               /\ call[r].expected \in Nat /\ call[r].id \in 1..MaxCalls /\ call[r].fresh \in BOOLEAN
               /\ call[r].saw \in Jobs \cup Settings \cup {Nobody}
  <2>1. call[r] \in CallStates \cup {NoCall} BY <1>0 DEF CallsTyped
  <2> QED BY <2>1 DEF CallStates
<1>3. InteractionsTypeOK BY <1>0, <1>1, <1>2 DEF InteractionsTypeOK, CallsTyped, RecordsTyped, Claims
<1>4. OncePerKey
  <2> SUFFICES ASSUME NEW s \in Slots
               PROVE /\ commands[s] <= 1
                     /\ s[2] # "send" => /\ Cardinality(answers[s]) <= 1
                                         /\ answers[s] # {} => commands[s] = 1
    BY DEF OncePerKey
  <2>1. CASE s[2] = "send" BY <2>1, <1>0 DEF SendsFit
  <2>2. CASE s[2] # "send"
    <3>1. SlotFits(s) BY <1>0, <2>2 DEF SlotsFit
    <3>2. commands[s] <= 1 /\ (answers[s] # {} => commands[s] = 1) BY <3>1 DEF SlotFits
    <3>3. answers[s] \subseteq {claim[s].by} BY <3>1 DEF SlotFits
    <3>4. Cardinality(answers[s]) <= 1
      <4>1. IsFiniteSet({claim[s].by}) /\ Cardinality({claim[s].by}) = 1 BY FS_Singleton
      <4> QED BY <3>3, <4>1, FS_Subset
    <3> QED BY <3>2, <3>4
  <2> QED BY <2>1, <2>2
<1>5. ActsWhileAllowed
  <2> SUFFICES ASSUME NEW r \in Requests, Inside(r) PROVE call[r].who \in reach BY DEF ActsWhileAllowed
  <2>1. call[r] \in CallStates BY <1>0 DEF CallsTyped, NoCall, Inside
  <2>2. call[r].at \in Within BY <2>1 DEF CallStates, Inside, Within
  <2> QED BY <1>0, <2>2 DEF CallsFit, CallFits
<1> QED BY <1>3, <1>4, <1>5

LEMMA InterStart == InteractionsInit => InterInv
<1> SUFFICES ASSUME InteractionsInit PROVE InterInv OBVIOUS
<1> USE DEF InteractionsInit
<1>1. \A r \in Requests : call[r] = NoCall /\ call[r].at = "idle" BY DEF NoCall
<1>2. MaxCalls \in Nat /\ MaxControls \in Nat /\ MaxJob \in Nat BY InteractionsAssumption
<1>3. CallsTyped BY <1>2 DEF CallsTyped
<1>4. RecordsTyped BY <1>2 DEF RecordsTyped, Claims, Jobs, Settings
<1>5. CallsFit BY <1>1 DEF CallsFit, CallFits, PastClaim, Within
<1>6. SlotsFit
  <2>1. \A s \in Slots : Users(s) = {} BY <1>1 DEF Users, PastClaim
  <2>2. Nobody # Open
    <3>1. Open \in [by: Nat] BY DEF Open
    <3> QED BY <3>1, InteractionsAssumption
  <2> QED BY <2>1, <2>2 DEF SlotsFit, SlotFits
<1>7. SendsFit BY DEF SendsFit
<1>8. PoolFits
  <2>1. InsideCalls = {} BY <1>1 DEF InsideCalls, Inside
  <2> QED BY <2>1, FS_EmptySet, Pooled DEF PoolFits
<1> QED BY <1>3, <1>4, <1>5, <1>6, <1>7, <1>8 DEF InterInv

-----------------------------------------------------------------------------
(* Steps of the calls.                                                         *)

LEMMA NoCallFits ==
  CallFits(NoCall) /\ NoCall.at = "idle" /\ NoCall.at \notin PastClaim /\ NoCall.at \notin Within
BY DEF NoCall, CallFits, PastClaim, Within

LEMMA CallAt ==
  ASSUME InterInv, NEW r \in Requests
  PROVE  /\ call[r] \in CallStates \cup {NoCall} /\ CallFits(call[r])
         /\ call[r].at # "idle" => call[r] \in CallStates
         /\ Inside(r) <=> call[r].at \in Within
<1>1. call[r] \in CallStates \cup {NoCall} /\ CallFits(call[r]) BY DEF InterInv, CallsTyped, CallsFit
<1>2. call[r].at # "idle" => call[r] \in CallStates BY <1>1, NoCallFits
<1>3. Inside(r) <=> call[r].at \in Within BY <1>2 DEF Inside, Within, CallStates
<1> QED BY <1>1, <1>2, <1>3

(* One call moves: the pool is enough, and every call is still as it says.     *)
LEMMA OneCall ==
  ASSUME InterInv, NEW r \in Requests, NEW c \in CallStates \cup {NoCall}, CallFits(c),
         (c.at \in Within => call[r].at \in Within) \/ Free > 0,
         call' = [call EXCEPT ![r] = c], UNCHANGED <<reach, elsewhere>>, calls' \in 0..MaxCalls
  PROVE  CallsTyped' /\ PoolFits' /\ \A q \in Requests : CallFits(call'[q])
<1>0. CallsTyped /\ CallsFit /\ PoolFits BY DEF InterInv
<1>1. CallsTyped' BY <1>0 DEF CallsTyped
<1>2. \A q \in Requests : call'[q] = IF q = r THEN c ELSE call[q] BY <1>0 DEF CallsTyped
<1>3. \A q \in Requests : CallFits(call'[q]) BY <1>0, <1>2 DEF CallsFit
<1>4. \A q \in Requests : Inside(q)' <=> call'[q].at \in Within
  <2>1. \A q \in Requests : call'[q] \in CallStates \cup {NoCall} BY <1>1 DEF CallsTyped
  <2> QED BY <2>1, NoCallFits DEF CallStates, Inside, Within
<1>5. InsideCalls' \subseteq InsideCalls \cup {r} BY <1>2, <1>4, CallAt DEF InsideCalls
<1>6. InsideCalls \subseteq Requests /\ InsideCalls' \subseteq Requests /\ elsewhere \subseteq Others
  BY <1>0 DEF InsideCalls, CallsTyped
<1>7. /\ Cardinality(InsideCalls) \in Nat /\ Cardinality(InsideCalls') \in Nat /\ Cardinality(elsewhere) \in Nat
      /\ IsFiniteSet(InsideCalls) /\ Connections \in Nat
  BY <1>6, Pooled
<1>8. CASE c.at \in Within => call[r].at \in Within
  <2>1. InsideCalls' \subseteq InsideCalls BY <1>2, <1>4, <1>8, CallAt DEF InsideCalls
  <2>2. Cardinality(InsideCalls') <= Cardinality(InsideCalls) BY <2>1, <1>6, Pooled
  <2>3. elsewhere' = elsewhere OBVIOUS
  <2>4. Cardinality(InsideCalls') + Cardinality(elsewhere) <= Connections BY <1>0, <1>7, <2>2 DEF PoolFits
  <2>5. PoolFits' BY <2>3, <2>4 DEF PoolFits
  <2> QED BY <1>1, <1>3, <2>5
<1>9. CASE Free > 0
  <2>1. Free = Connections - Cardinality(InsideCalls) - Cardinality(elsewhere) BY DEF Free, InsideCalls
  <2>2. Cardinality(InsideCalls \cup {r}) <= Cardinality(InsideCalls) + 1 /\ Cardinality(InsideCalls \cup {r}) \in Nat
    <3>1. CASE r \in InsideCalls
      <4>1. InsideCalls \cup {r} = InsideCalls BY <3>1
      <4> QED BY <4>1, <1>7
    <3>2. CASE r \notin InsideCalls
      <4>1. Cardinality(InsideCalls \cup {r}) = Cardinality(InsideCalls) + 1 BY <3>2, <1>7, FS_AddElement
      <4> QED BY <4>1, <1>7
    <3> QED BY <3>1, <3>2
  <2>3. Cardinality(InsideCalls') <= Cardinality(InsideCalls \cup {r})
    <3>1. InsideCalls \cup {r} \subseteq Requests BY <1>6
    <3> QED BY <3>1, <1>5, Pooled
  <2>4. elsewhere' = elsewhere OBVIOUS
  <2>5. Cardinality(InsideCalls') + Cardinality(elsewhere) <= Connections BY <1>7, <1>9, <2>1, <2>2, <2>3
  <2>6. PoolFits' BY <2>4, <2>5 DEF PoolFits
  <2> QED BY <1>1, <1>3, <2>6
<1> QED BY <1>8, <1>9

LEMMA SameRequirements == UNCHANGED <<reach, controls>> => \A c : CallFits(c)' <=> CallFits(c)
BY DEF CallFits

LEMMA CallsStand ==
  ASSUME UNCHANGED <<reach, controls>>, \A q \in Requests : CallFits(call'[q]) PROVE CallsFit'
BY DEF CallsFit, CallFits

(* The records of a key change with the call that is past its claim only.      *)
SameRecord(s) == claim'[s] = claim[s] /\ commands'[s] = commands[s] /\ answers'[s] = answers[s]
LEMMA SlotsStand ==
  ASSUME InterInv, NEW r \in Requests, NEW c, call' = [call EXCEPT ![r] = c],
         \A s \in Slots : s[2] # "send" => SameRecord(s),
         c.at \in PastClaim => /\ call[r].at \in PastClaim /\ SlotOf(c) = SlotOf(call[r])
                               /\ (c.at = "act" <=> call[r].at = "act")
  PROVE  SlotsFit'
<1>0. CallsTyped /\ SlotsFit BY DEF InterInv
<1> SUFFICES ASSUME NEW s \in Slots, s[2] # "send" PROVE SlotFits(s)' BY DEF SlotsFit
<1>1. SlotFits(s) BY <1>0 DEF SlotsFit
<1>2. \A q \in Requests : call'[q] = IF q = r THEN c ELSE call[q] BY <1>0 DEF CallsTyped
<1>3. ASSUME NEW q \in Users(s)' PROVE q \in Users(s) /\ (call'[q].at = "act" <=> call[q].at = "act")
  BY <1>2 DEF Users, SlotOf
<1>4. SameRecord(s) OBVIOUS
<1> QED BY <1>1, <1>3, <1>4 DEF SlotFits, SameRecord

LEMMA SlotMoves ==
  ASSUME InterInv, NEW r \in Requests, NEW c, call' = [call EXCEPT ![r] = c], NEW s0, SlotOf(call[r]) = s0,
         \A s \in Slots : s # s0 => SameRecord(s),
         c.at \in PastClaim => SlotOf(c) = s0,
         s0 \in Slots /\ s0[2] # "send" => SlotFits(s0)'
  PROVE  SlotsFit'
<1>0. CallsTyped /\ SlotsFit BY DEF InterInv
<1> SUFFICES ASSUME NEW s \in Slots, s[2] # "send", s # s0 PROVE SlotFits(s)' BY DEF SlotsFit
<1>1. SlotFits(s) BY <1>0 DEF SlotsFit
<1>2. \A q \in Requests : call'[q] = IF q = r THEN c ELSE call[q] BY <1>0 DEF CallsTyped
<1>3. ASSUME NEW q \in Users(s)' PROVE q \in Users(s) /\ call'[q] = call[q]
  <2>1. q \in Requests /\ call'[q].at \in PastClaim /\ SlotOf(call'[q]) = s BY DEF Users, SlotOf
  <2>2. q # r BY <1>2, <2>1
  <2> QED BY <1>2, <2>1, <2>2 DEF Users
<1>4. SameRecord(s) OBVIOUS
<1> QED BY <1>1, <1>3, <1>4 DEF SlotFits, SameRecord

(* A call moves and the automation service is not asked.                       *)
LEMMA CallMoves ==
  ASSUME InterInv, NEW r \in Requests, NEW c \in CallStates \cup {NoCall}, CallFits(c),
         (c.at \in Within => call[r].at \in Within) \/ Free > 0,
         c.at \in PastClaim => /\ call[r].at \in PastClaim /\ SlotOf(c) = SlotOf(call[r])
                               /\ (c.at = "act" <=> call[r].at = "act"),
         call' = [call EXCEPT ![r] = c], UNCHANGED <<reach, elsewhere, automation, answers>>, calls' \in 0..MaxCalls
  PROVE  InterInv'
<1>0. RecordsTyped /\ SendsFit BY DEF InterInv
<1>1. CallsTyped' /\ PoolFits' /\ \A q \in Requests : CallFits(call'[q]) BY OneCall
<1>2. CallsFit' BY <1>1, CallsStand DEF automation
<1>3. SlotsFit'
  <2>1. \A s \in Slots : SameRecord(s) BY DEF automation, SameRecord
  <2> QED BY <2>1, SlotsStand
<1>4. RecordsTyped' /\ SendsFit' BY <1>0 DEF RecordsTyped, SendsFit, automation
<1> QED BY <1>1, <1>2, <1>3, <1>4 DEF InterInv

LEMMA EndMoves ==
  ASSUME InterInv, NEW r \in Requests, Ends(r), UNCHANGED <<reach, elsewhere, calls, automation, answers>>
  PROVE  InterInv'
<1>1. call' = [call EXCEPT ![r] = NoCall] BY DEF Ends
<1>2. calls' \in 0..MaxCalls BY DEF InterInv, CallsTyped
<1>3. NoCall \in CallStates \cup {NoCall} OBVIOUS
<1> QED BY <1>1, <1>2, <1>3, NoCallFits, CallMoves

LEMMA WentTo ==
  ASSUME NEW c \in CallStates, NEW at \in Within
  PROVE  LET d == [c EXCEPT !.at = at]
         IN /\ d \in CallStates /\ d.at = at /\ d.who = c.who /\ d.kind = c.kind /\ d.key = c.key
            /\ d.expected = c.expected /\ d.id = c.id /\ d.fresh = c.fresh /\ d.saw = c.saw
BY DEF CallStates, Within

LEMMA GoMoves ==
  ASSUME InterInv, NEW r \in Requests, NEW at \in {"scoped", "route", "complete", "config"}, Goes(r, at),
         call[r] \in CallStates, at = "complete" => call[r].at = "resync",
         call[r].at \in Within \/ Free > 0, call[r].at \notin Within => call[r].who \in reach,
         UNCHANGED <<reach, elsewhere, calls, automation, answers>>
  PROVE  InterInv'
<1> DEFINE c == [call[r] EXCEPT !.at = at]
<1>1. at \in Within BY DEF Within
<1>2. /\ c \in CallStates /\ c.at = at /\ c.who = call[r].who /\ c.kind = call[r].kind /\ c.key = call[r].key
      /\ c.expected = call[r].expected /\ c.saw = call[r].saw
  BY <1>1, WentTo
<1>3. call' = [call EXCEPT ![r] = c] BY DEF Goes
<1>4. calls' \in 0..MaxCalls BY DEF InterInv, CallsTyped
<1>5. CallFits(call[r]) /\ call[r].at # "idle" BY CallAt DEF CallStates
<1> HIDE DEF c
<1>6. CallFits(c) BY <1>2, <1>5 DEF CallFits, PastClaim, Keyed
<1>7. c.at \in PastClaim => /\ call[r].at \in PastClaim /\ SlotOf(c) = SlotOf(call[r])
                            /\ (c.at = "act" <=> call[r].at = "act")
  BY <1>2 DEF PastClaim, SlotOf
<1>8. (c.at \in Within => call[r].at \in Within) \/ Free > 0 OBVIOUS
<1>9. c \in CallStates \cup {NoCall} BY <1>2
<1> QED BY <1>3, <1>4, <1>6, <1>7, <1>8, <1>9, CallMoves

LEMMA StepArrive == ASSUME InterInv, NEW r \in Requests, Arrive(r) PROVE InterInv'
<1>0. RecordsTyped /\ CallsTyped BY DEF InterInv
<1>1. PICK u \in Customers, kind \in Kinds, k \in IdemKeys :
      \E seen \in 0..(IF kind = "controls" THEN controls.version
                     ELSE IF kind \in {"send", "edit"} THEN job.version ELSE 0) :
       call' = [call EXCEPT ![r] = [at |-> "connect", who |-> u, kind |-> kind, key |-> k,
                                    expected |-> seen, id |-> calls + 1, fresh |-> TRUE, saw |-> Nobody]]
  BY DEF Arrive
<1>2. PICK seen \in 0..(IF kind = "controls" THEN controls.version
                     ELSE IF kind \in {"send", "edit"} THEN job.version ELSE 0) :
       call' = [call EXCEPT ![r] = [at |-> "connect", who |-> u, kind |-> kind, key |-> k,
                                    expected |-> seen, id |-> calls + 1, fresh |-> TRUE, saw |-> Nobody]]
  BY <1>1
<1>3. calls < MaxCalls /\ calls' = calls + 1 /\ UNCHANGED <<reach, elsewhere, automation, answers>> BY DEF Arrive
<1>4. MaxCalls \in Nat /\ calls \in Nat BY <1>0, InteractionsAssumption DEF CallsTyped
<1>5. controls.version \in Nat /\ job.version \in Nat BY <1>0, InteractionsAssumption DEF RecordsTyped, Settings, Jobs
<1>6. seen \in Nat /\ (kind = "controls" => seen <= controls.version) BY <1>5
<1>7. calls + 1 \in 1..MaxCalls BY <1>3, <1>4
<1> DEFINE c == [at |-> "connect", who |-> u, kind |-> kind, key |-> k, expected |-> seen, id |-> calls + 1,
                 fresh |-> TRUE, saw |-> Nobody]
<1>8. c \in CallStates BY <1>6, <1>7 DEF CallStates
<1>9. c.at = "connect" /\ c.kind = kind /\ c.expected = seen OBVIOUS
<1>10. call' = [call EXCEPT ![r] = c] BY <1>2
<1> HIDE DEF c
<1>11. CallFits(c) /\ c.at \notin Within /\ c.at \notin PastClaim BY <1>6, <1>9 DEF CallFits, PastClaim, Within
<1>12. calls' \in 0..MaxCalls BY <1>3, <1>4
<1>13. c \in CallStates \cup {NoCall} BY <1>8
<1> QED BY <1>3, <1>10, <1>11, <1>12, <1>13, CallMoves

LEMMA StepEntering == ASSUME InterInv, NEW r \in Requests, Entering(r) PROVE InterInv'
<1>1. call[r].at # "idle" => call[r] \in CallStates BY CallAt
<1>2. CASE Connect(r)
  <2>1. /\ call[r].at = "connect" /\ Free > 0 /\ UNCHANGED <<reach, elsewhere, calls, automation, answers>>
        /\ IF call[r].who \in reach THEN Goes(r, "scoped") ELSE Ends(r)
    BY <1>2 DEF Connect, At
  <2>2. CASE call[r].who \in reach BY <1>1, <2>1, <2>2, GoMoves
  <2>3. CASE call[r].who \notin reach BY <2>1, <2>3, EndMoves
  <2> QED BY <2>2, <2>3
<1>3. CASE Bind(r)
  <2>1. call[r].at = "scoped" /\ UNCHANGED <<reach, elsewhere, calls, automation, answers>> /\ (Goes(r, "route") \/ Ends(r))
    BY <1>3 DEF Bind, At
  <2>2. call[r].at \in Within BY <2>1 DEF Within
  <2>3. CASE Goes(r, "route") BY <1>1, <2>1, <2>2, <2>3, GoMoves
  <2>4. CASE Ends(r) BY <2>1, <2>4, EndMoves
  <2> QED BY <2>1, <2>3, <2>4
<1> QED BY <1>2, <1>3 DEF Entering

(* Claims, commands and answers of a key.                                      *)
LEMMA Slotted ==
  ASSUME InterInv, NEW r \in Requests, call[r] \in CallStates, call[r].kind \in Keyed
  PROVE  SlotOf(call[r]) \in Slots /\ SlotOf(call[r])[2] = call[r].kind
BY DEF SlotOf, Slots, CallStates

LEMMA Unclaimed == Nobody # Open /\ (\A n \in Nat : [by |-> n] # Nobody /\ (n # 0 => [by |-> n] # Open))
<1>1. \A n \in Nat : [by |-> n] \in [by: Nat] /\ [by |-> n].by = n OBVIOUS
<1>2. Open.by = 0 /\ Open \in [by: Nat] BY DEF Open
<1> QED BY <1>1, <1>2, InteractionsAssumption

LEMMA StepClaim == ASSUME InterInv, NEW r \in Requests, Claim(r) PROVE InterInv'
<1>0. CallsTyped /\ RecordsTyped /\ SlotsFit /\ SendsFit BY DEF InterInv
<1>s. PICK s0 : s0 = SlotOf(call[r]) OBVIOUS
<1>1. /\ call[r].at = "route" /\ call[r].kind \in Keyed
      /\ UNCHANGED <<reach, elsewhere, calls, job, controls, dispatching, commands>>
      /\ claim' = [claim EXCEPT ![s0] = IF @ = Nobody THEN Open ELSE @]
  BY <1>s DEF Claim, Routed, At
<1>2. call[r] \in CallStates /\ CallFits(call[r]) BY <1>1, CallAt
<1>3. s0 \in Slots /\ s0[2] = call[r].kind BY <1>s, <1>1, <1>2, Slotted
<1>4. claim[s0] \in Claims /\ answers[s0] \in SUBSET (1..MaxCalls) BY <1>0, <1>3 DEF RecordsTyped
<1>5. claim'[s0] = (IF claim[s0] = Nobody THEN Open ELSE claim[s0]) /\ \A s \in Slots : s # s0 => claim'[s] = claim[s]
  BY <1>0, <1>1, <1>3 DEF RecordsTyped
<1>6. claim' \in [Slots -> Claims]
  <2>1. Open \in Claims BY InteractionsAssumption DEF Open, Claims
  <2> QED BY <1>0, <1>1, <2>1, <1>4 DEF RecordsTyped
<1>7. calls' \in 0..MaxCalls BY <1>0, <1>1 DEF CallsTyped
<1>8. call[r].at \in Within /\ call[r].at \notin PastClaim BY <1>1 DEF Within, PastClaim
<1>9. SendsFit' BY <1>0, <1>1 DEF SendsFit
<1>10. r \notin Users(s0) BY <1>8 DEF Users
<1>11. ASSUME s0[2] # "send", claim[s0] # Open PROVE Users(s0) = {}
  BY <1>0, <1>3, <1>11 DEF SlotsFit, SlotFits
<1>12. ASSUME NEW c \in CallStates \cup {NoCall}, call' = [call EXCEPT ![r] = c], CallFits(c),
              answers' \in [Slots -> SUBSET (1..MaxCalls)],
              \A s \in Slots : s # s0 => answers'[s] = answers[s],
              c.at \in PastClaim => SlotOf(c) = s0,
              s0[2] # "send" => SlotFits(s0)'
       PROVE  InterInv'
  <2>1. CallsTyped' /\ PoolFits' /\ \A q \in Requests : CallFits(call'[q]) BY <1>1, <1>7, <1>8, <1>12, OneCall
  <2>2. CallsFit' BY <1>1, <2>1, CallsStand
  <2>3. \A s \in Slots : s # s0 => SameRecord(s) BY <1>1, <1>5, <1>12 DEF SameRecord
  <2>4. SlotsFit' BY <1>12, <2>3, <1>s, SlotMoves
  <2>5. RecordsTyped' BY <1>0, <1>1, <1>6, <1>12 DEF RecordsTyped
  <2> QED BY <1>9, <2>1, <2>2, <2>4, <2>5 DEF InterInv
<1>13. CASE MayAct(call[r]) /\ call' = [call EXCEPT ![r].at = "act", ![r].fresh = claim[s0] = Nobody] /\ answers' = answers
  <2> DEFINE c == [call[r] EXCEPT !.at = "act", !.fresh = (claim[s0] = Nobody)]
  <2>1. call' = [call EXCEPT ![r] = c] BY <1>13
  <2>2. /\ c \in CallStates /\ c.at = "act" /\ c.who = call[r].who /\ c.kind = call[r].kind /\ c.key = call[r].key
        /\ c.expected = call[r].expected /\ c.saw = call[r].saw
    BY <1>2 DEF CallStates
  <2> HIDE DEF c
  <2>3. SlotOf(c) = s0 BY <1>s, <2>2 DEF SlotOf
  <2>4. CallFits(c) BY <1>1, <1>2, <1>8, <2>2 DEF CallFits, Within
  <2>5. ASSUME s0[2] # "send" PROVE SlotFits(s0)'
    <3>1. claim[s0] = Nobody BY <1>s, <1>3, <1>13, <2>5 DEF MayAct
    <3>2. Users(s0) = {} BY <1>11, <2>5, <3>1, Unclaimed
    <3>3. \A q \in Requests : call'[q] = IF q = r THEN c ELSE call[q] BY <1>0, <2>1 DEF CallsTyped
    <3>4. \A q \in Users(s0)' : q = r /\ call'[q].at = "act" BY <2>2, <3>2, <3>3 DEF Users, SlotOf
    <3>5. commands[s0] = 0 /\ answers[s0] = {} BY <1>0, <1>3, <2>5, <3>1 DEF SlotsFit, SlotFits
    <3>6. claim'[s0] = Open /\ commands'[s0] = 0 /\ answers'[s0] = {} BY <1>1, <1>5, <1>13, <3>1, <3>5
    <3> QED BY <3>4, <3>6, Unclaimed DEF SlotFits
  <2>6. c \in CallStates \cup {NoCall} BY <2>2
  <2>7. answers' \in [Slots -> SUBSET (1..MaxCalls)] BY <1>0, <1>13 DEF RecordsTyped
  <2> QED BY <1>12, <1>13, <2>1, <2>3, <2>4, <2>5, <2>6, <2>7
<1>14. ASSUME Ends(r), answers' \in [Slots -> SUBSET (1..MaxCalls)], \A s \in Slots : s # s0 => answers'[s] = answers[s],
              \/ answers'[s0] = answers[s0]
              \/ ~MayAct(call[r]) /\ HasAnswer(s0) /\ answers'[s0] = answers[s0] \cup {claim[s0].by}
       PROVE  InterInv'
  <2>1. call' = [call EXCEPT ![r] = NoCall] BY <1>14 DEF Ends
  <2>2. ASSUME s0[2] # "send" PROVE SlotFits(s0)'
    <3>1. SlotFits(s0) BY <1>0, <1>3, <2>2 DEF SlotsFit
    <3>2. \A q \in Requests : call'[q] = IF q = r THEN NoCall ELSE call[q] BY <1>0, <2>1 DEF CallsTyped
    <3>3. \A q \in Users(s0)' : q \in Users(s0) /\ call'[q] = call[q] BY <3>2, NoCallFits DEF Users, SlotOf
    <3>4. CASE claim[s0] = Nobody
      <4>1. Users(s0) = {} BY <1>11, <2>2, <3>4, Unclaimed
      <4>2. commands[s0] = 0 /\ answers[s0] = {} BY <3>1, <3>4 DEF SlotFits
      <4>3. answers'[s0] = {} BY <1>14, <3>4, <4>2 DEF HasAnswer
      <4>4. claim'[s0] = Open /\ commands'[s0] = 0 BY <1>1, <1>5, <3>4, <4>2
      <4>5. Users(s0)' = {} BY <3>3, <4>1
      <4> QED BY <4>3, <4>4, <4>5, Unclaimed DEF SlotFits
    <3>5. CASE claim[s0] # Nobody
      <4>1. claim'[s0] = claim[s0] /\ commands'[s0] = commands[s0] BY <1>1, <1>5, <3>5
      <4>2. CASE answers'[s0] = answers[s0] BY <3>1, <3>3, <4>1, <4>2 DEF SlotFits
      <4>3. CASE HasAnswer(s0) /\ answers'[s0] = answers[s0] \cup {claim[s0].by}
        <5>1. claim[s0] \notin {Nobody, Open} BY <4>3 DEF HasAnswer
        <5>2. Users(s0) = {} BY <1>11, <2>2, <5>1
        <5>3. Users(s0)' = {} BY <3>3, <5>2
        <5>4. commands'[s0] = 1 /\ answers'[s0] \subseteq {claim'[s0].by} BY <3>1, <4>1, <4>3, <5>1 DEF SlotFits
        <5> QED BY <4>1, <5>1, <5>3, <5>4 DEF SlotFits
      <4> QED BY <1>14, <4>2, <4>3
    <3> QED BY <3>4, <3>5
  <2>3. NoCall \in CallStates \cup {NoCall} OBVIOUS
  <2> QED BY <1>12, <1>14, <2>1, <2>2, <2>3, NoCallFits
<1>15. CASE ~MayAct(call[r]) /\ Ends(r)
            /\ answers' = IF HasAnswer(s0) THEN [answers EXCEPT ![s0] = @ \cup {claim[s0].by}] ELSE answers
  <2>1. CASE ~HasAnswer(s0)
    <3>1. answers' = answers BY <1>15, <2>1
    <3> QED BY <1>0, <1>14, <1>15, <3>1 DEF RecordsTyped
  <2>2. CASE HasAnswer(s0)
    <3>1. claim[s0].by \in 1..MaxCalls
      <4>1. claim[s0] \in [by: 0..MaxCalls] BY <1>4, <2>2 DEF HasAnswer, Claims
      <4>2. claim[s0].by # 0
        <5>1. claim[s0] = [by |-> claim[s0].by] BY <4>1
        <5> QED BY <2>2, <5>1 DEF HasAnswer, Open
      <4>3. MaxCalls \in Nat BY InteractionsAssumption
      <4> QED BY <4>1, <4>2, <4>3
    <3>2. answers' = [answers EXCEPT ![s0] = @ \cup {claim[s0].by}] BY <1>15, <2>2
    <3>3. /\ answers' \in [Slots -> SUBSET (1..MaxCalls)] /\ answers'[s0] = answers[s0] \cup {claim[s0].by}
          /\ \A s \in Slots : s # s0 => answers'[s] = answers[s]
      BY <1>0, <1>3, <3>1, <3>2 DEF RecordsTyped
    <3> QED BY <1>14, <1>15, <2>2, <3>3
  <2> QED BY <2>1, <2>2
<1>16. CASE Ends(r) /\ UNCHANGED answers
  BY <1>0, <1>14, <1>16 DEF RecordsTyped
<1> QED BY <1>s, <1>13, <1>15, <1>16 DEF Claim

LEMMA StepPerform == ASSUME InterInv, NEW r \in Requests, Perform(r) PROVE InterInv'
<1>0. CallsTyped /\ RecordsTyped /\ SlotsFit /\ SendsFit BY DEF InterInv
<1>1. PICK s0 : s0 = SlotOf(call[r]) OBVIOUS
<1>2. /\ call[r].at = "act" /\ call[r].kind \in {"command", "reset"}
      /\ commands' = [commands EXCEPT ![s0] = @ + 1]
      /\ Goes(r, IF call[r].kind = "reset" THEN "resync" ELSE "complete") \/ Ends(r)
      /\ UNCHANGED <<reach, elsewhere, calls, claim, job, controls, dispatching, answers>>
  BY <1>1 DEF Perform, At
<1>3. call[r] \in CallStates /\ CallFits(call[r]) BY <1>2, CallAt
<1>4. s0 \in Slots /\ s0[2] = call[r].kind /\ s0[2] # "send" BY <1>1, <1>2, <1>3, Slotted DEF Keyed
<1>5. SlotFits(s0) /\ r \in Users(s0) BY <1>0, <1>1, <1>2, <1>4 DEF SlotsFit, Users, PastClaim
<1>6. claim[s0] = Open /\ answers[s0] = {} /\ commands[s0] = 0 /\ \A q \in Users(s0) : q = r BY <1>2, <1>5 DEF SlotFits
<1>7. commands' \in [Slots -> Nat] /\ commands'[s0] = 1 /\ \A s \in Slots : s # s0 => commands'[s] = commands[s]
  BY <1>0, <1>2, <1>4, <1>6 DEF RecordsTyped
<1>8. RecordsTyped' BY <1>0, <1>2, <1>7 DEF RecordsTyped
<1>9. SendsFit' BY <1>0, <1>2, <1>4, <1>7 DEF SendsFit
<1>10. call[r].at \in Within BY <1>2 DEF Within
<1>11. ASSUME NEW c \in CallStates \cup {NoCall}, call' = [call EXCEPT ![r] = c], CallFits(c), c.at # "act",
              c.at \in PastClaim => SlotOf(c) = s0
       PROVE  InterInv'
  <2>1. calls' \in 0..MaxCalls BY <1>0, <1>2 DEF CallsTyped
  <2>2. CallsTyped' /\ PoolFits' /\ \A q \in Requests : CallFits(call'[q]) BY <1>2, <1>10, <1>11, <2>1, OneCall
  <2>3. CallsFit' BY <1>2, <2>2, CallsStand
  <2>4. \A q \in Requests : call'[q] = IF q = r THEN c ELSE call[q] BY <1>0, <1>11 DEF CallsTyped
  <2>5. \A q \in Users(s0)' : q = r /\ call'[q].at # "act" BY <1>6, <1>11, <2>4 DEF Users, SlotOf
  <2>6. SlotFits(s0)' BY <1>2, <1>6, <1>7, <2>5, Unclaimed DEF SlotFits
  <2>7. \A s \in Slots : s # s0 => SameRecord(s) BY <1>2, <1>7 DEF SameRecord
  <2>8. SlotsFit' BY <1>1, <1>11, <2>6, <2>7, SlotMoves
  <2> QED BY <1>8, <1>9, <2>2, <2>3, <2>8 DEF InterInv
<1>12. ASSUME NEW at \in {"resync", "complete"}, at = "resync" => call[r].kind = "reset", Goes(r, at) PROVE InterInv'
  <2> DEFINE c == [call[r] EXCEPT !.at = at]
  <2>1. at \in Within BY DEF Within
  <2>2. /\ c \in CallStates /\ c.at = at /\ c.who = call[r].who /\ c.kind = call[r].kind /\ c.key = call[r].key
        /\ c.expected = call[r].expected /\ c.saw = call[r].saw
    BY <1>3, <2>1, WentTo
  <2>3. call' = [call EXCEPT ![r] = c] BY <1>12 DEF Goes
  <2> HIDE DEF c
  <2>4. CallFits(c) BY <1>2, <1>3, <1>10, <1>12, <2>2 DEF CallFits, Keyed
  <2>5. SlotOf(c) = s0 BY <1>1, <2>2 DEF SlotOf
  <2>6. c \in CallStates \cup {NoCall} /\ c.at # "act" BY <2>2
  <2> QED BY <1>11, <2>3, <2>4, <2>5, <2>6
<1>13. ASSUME Ends(r) PROVE InterInv'
  <2>1. call' = [call EXCEPT ![r] = NoCall] /\ NoCall \in CallStates \cup {NoCall} BY <1>13 DEF Ends
  <2> QED BY <1>11, <2>1, NoCallFits
<1> QED BY <1>2, <1>12, <1>13

LEMMA StepResync == ASSUME InterInv, NEW r \in Requests, Resync(r) PROVE InterInv'
<1>1. call[r].at = "resync" /\ UNCHANGED <<reach, elsewhere, calls, automation, answers>> /\ (Goes(r, "complete") \/ Ends(r))
  BY DEF Resync, At
<1>2. call[r] \in CallStates /\ call[r].at \in Within BY <1>1, CallAt DEF Within
<1>3. CASE Goes(r, "complete") BY <1>1, <1>2, <1>3, GoMoves
<1>4. CASE Ends(r) BY <1>1, <1>4, EndMoves
<1> QED BY <1>1, <1>3, <1>4

LEMMA StepFails == ASSUME InterInv, NEW r \in Requests, Fails(r) PROVE InterInv'
BY EndMoves DEF Fails

LEMMA StepReadInbox == ASSUME InterInv, NEW r \in Requests, ReadInbox(r) PROVE InterInv'
<1>1. call[r].at = "route" /\ UNCHANGED <<reach, elsewhere, calls, automation, answers>> /\ Goes(r, "config")
  BY DEF ReadInbox, Routed, At
<1>2. call[r] \in CallStates /\ call[r].at \in Within BY <1>1, CallAt DEF Within
<1> QED BY <1>1, <1>2, GoMoves

LEMMA StepReadConfig == ASSUME InterInv, NEW r \in Requests, ReadConfig(r) PROVE InterInv'
BY EndMoves DEF ReadConfig

(* What was sent, and who is sending, once the call for a reply moves on.      *)
LEMMA SendMoves ==
  ASSUME InterInv, NEW r \in Requests, NEW c \in CallStates \cup {NoCall}, CallFits(c),
         c.at \in Within => call[r].at \in Within,
         call[r].at = "act", call[r] \in CallStates, call[r].kind = "send", call' = [call EXCEPT ![r] = c],
         c.at \in PastClaim => SlotOf(c) = SlotOf(call[r]),
         UNCHANGED <<reach, elsewhere, calls, claim, controls, dispatching, answers>>,
         job' \in Jobs, commands' \in [Slots -> Nat],
         \A s \in Slots : s # SlotOf(call[r]) => commands'[s] = commands[s], SendsFit'
  PROVE  InterInv'
<1>0. RecordsTyped /\ CallsTyped BY DEF InterInv
<1>1. calls' \in 0..MaxCalls BY <1>0 DEF CallsTyped
<1>2. CallsTyped' /\ PoolFits' /\ \A q \in Requests : CallFits(call'[q]) BY <1>1, OneCall
<1>3. CallsFit' BY <1>2, CallsStand
<1>4. PICK s0 : s0 = SlotOf(call[r]) OBVIOUS
<1>5. s0[2] = "send" BY <1>4, Slotted DEF Keyed
<1>6. \A s \in Slots : s # s0 => SameRecord(s) BY <1>4 DEF SameRecord
<1>7. SlotsFit' BY <1>4, <1>5, <1>6, SlotMoves
<1>8. RecordsTyped' BY <1>0 DEF RecordsTyped
<1> QED BY <1>2, <1>3, <1>7, <1>8 DEF InterInv

LEMMA StepQueue == ASSUME InterInv, NEW r \in Requests, Queue(r) PROVE InterInv'
<1>0. CallsTyped /\ RecordsTyped /\ SendsFit BY DEF InterInv
<1>1. PICK s0 : s0 = SlotOf(call[r]) OBVIOUS
<1>2. /\ call[r].at = "act" /\ call[r].kind = "send"
      /\ UNCHANGED <<reach, elsewhere, calls, claim, controls, dispatching, answers>>
  BY DEF Queue, At
<1>3. call[r] \in CallStates /\ CallFits(call[r]) BY <1>2, CallAt
<1>4. s0 \in Slots /\ s0[2] = "send" BY <1>1, <1>2, <1>3, Slotted DEF Keyed
<1>5. call[r].at \in Within BY <1>2 DEF Within
<1>6. ASSUME NEW j \in Jobs
      PROVE LET c == [call[r] EXCEPT !.at = "complete", !.saw = j]
            IN c \in CallStates /\ CallFits(c) /\ SlotOf(c) = SlotOf(call[r])
  <2> DEFINE c == [call[r] EXCEPT !.at = "complete", !.saw = j]
  <2>1. /\ c \in CallStates /\ c.at = "complete" /\ c.who = call[r].who /\ c.kind = call[r].kind /\ c.key = call[r].key
        /\ c.expected = call[r].expected /\ c.saw = j
    BY <1>3 DEF CallStates
  <2> HIDE DEF c
  <2>2. CallFits(c) BY <1>2, <1>3, <1>5, <2>1 DEF CallFits, Keyed
  <2>3. SlotOf(c) = SlotOf(call[r]) BY <2>1 DEF SlotOf
  <2> QED BY <2>1, <2>2, <2>3 DEF c
<1>7. job \in Jobs /\ commands \in [Slots -> Nat] BY <1>0 DEF RecordsTyped
<1>8. CASE Under(r)
  <2> DEFINE c == [call[r] EXCEPT !.at = "complete", !.saw = job]
  <2>1. call' = [call EXCEPT ![r] = c] /\ UNCHANGED <<job, commands>> BY <1>8 DEF Queue
  <2>2. c \in CallStates /\ CallFits(c) /\ SlotOf(c) = SlotOf(call[r]) BY <1>6, <1>7
  <2>3. SendsFit' BY <1>0, <2>1 DEF SendsFit
  <2> HIDE DEF c
  <2>4. c \in CallStates \cup {NoCall} BY <2>2
  <2>5. job' \in Jobs /\ commands' \in [Slots -> Nat] BY <1>7, <2>1
  <2> QED BY <1>2, <1>3, <1>5, <2>1, <2>2, <2>3, <2>4, <2>5, SendMoves
<1>9. CASE ~Under(r)
  <2>1. /\ job.state = "approved" /\ job.version < MaxJob /\ job' = [state |-> "queued", version |-> job.version + 1]
        /\ commands' = [commands EXCEPT ![s0] = @ + 1]
        /\ \/ call' = [call EXCEPT ![r].at = "complete", ![r].saw = job']
           \/ Ends(r)
    BY <1>1, <1>9 DEF Queue
  <2>2. MaxJob \in Nat /\ job.version \in 0..MaxJob BY <1>7, InteractionsAssumption DEF Jobs
  <2>3. job.version + 1 \in 0..MaxJob BY <2>1, <2>2
  <2>4. job' \in Jobs /\ job'.state = "queued" BY <2>1, <2>3 DEF Jobs
  <2>5. commands[s0] = 0 BY <1>0, <1>4, <2>1 DEF SendsFit
  <2>6. commands' \in [Slots -> Nat] /\ commands'[s0] = 1 /\ \A s \in Slots : s # s0 => commands'[s] = commands[s]
    BY <1>4, <1>7, <2>1, <2>5
  <2>7. SendsFit' BY <1>0, <2>4, <2>6 DEF SendsFit
  <2>8. CASE call' = [call EXCEPT ![r].at = "complete", ![r].saw = job']
    <3>1. PICK j \in Jobs : j = job' BY <2>4
    <3> DEFINE c == [call[r] EXCEPT !.at = "complete", !.saw = j]
    <3>2. call' = [call EXCEPT ![r] = c] BY <2>8, <3>1
    <3>3. c \in CallStates /\ CallFits(c) /\ SlotOf(c) = SlotOf(call[r]) BY <1>6
    <3> HIDE DEF c
    <3>4. c \in CallStates \cup {NoCall} BY <3>3
    <3> QED BY <1>1, <1>2, <1>3, <1>5, <2>4, <2>6, <2>7, <3>2, <3>3, <3>4, SendMoves
  <2>9. CASE Ends(r)
    <3>1. call' = [call EXCEPT ![r] = NoCall] /\ NoCall \in CallStates \cup {NoCall} BY <2>9 DEF Ends
    <3> QED BY <1>1, <1>2, <1>3, <2>4, <2>6, <2>7, <3>1, NoCallFits, SendMoves
  <2> QED BY <2>1, <2>8, <2>9
<1> QED BY <1>8, <1>9

LEMMA StepComplete == ASSUME InterInv, NEW r \in Requests, Complete(r) PROVE InterInv'
<1>0. CallsTyped /\ RecordsTyped /\ SlotsFit /\ SendsFit BY DEF InterInv
<1>1. PICK s0 : s0 = SlotOf(call[r]) OBVIOUS
<1>2. PICK n : n = call[r].id OBVIOUS
<1>3. /\ call[r].at = "complete" /\ claim' = [claim EXCEPT ![s0] = [by |-> n]]
      /\ \/ /\ answers' = [answers EXCEPT ![s0] = @ \cup {n}]
            /\ dispatching' = dispatching \cup
                 (IF call[r].kind = "send" /\ call[r].saw.state = "queued" THEN {call[r].saw.version} ELSE {})
         \/ UNCHANGED <<answers, dispatching>>
      /\ call' = [call EXCEPT ![r] = NoCall]
      /\ UNCHANGED <<reach, elsewhere, calls, job, controls, commands>>
  BY <1>1, <1>2 DEF Complete, Ends, At
<1>4. call[r] \in CallStates /\ CallFits(call[r]) BY <1>3, CallAt
<1>5. call[r].kind \in Keyed /\ (call[r].kind = "send" => call[r].saw \in Jobs) BY <1>3, <1>4 DEF CallFits, PastClaim
<1>6. s0 \in Slots /\ n \in 1..MaxCalls /\ n \in Nat /\ n # 0 /\ n \in 0..MaxCalls
  BY <1>1, <1>2, <1>4, <1>5, Slotted, InteractionsAssumption DEF CallStates
<1>7. /\ claim' \in [Slots -> Claims] /\ claim'[s0] = [by |-> n]
      /\ \A s \in Slots : s # s0 => claim'[s] = claim[s]
  BY <1>0, <1>3, <1>6 DEF RecordsTyped, Claims
<1>8. /\ answers' \in [Slots -> SUBSET (1..MaxCalls)] /\ answers'[s0] \subseteq answers[s0] \cup {n}
      /\ \A s \in Slots : s # s0 => answers'[s] = answers[s]
  <2>1. answers \in [Slots -> SUBSET (1..MaxCalls)] BY <1>0 DEF RecordsTyped
  <2>2. CASE answers' = [answers EXCEPT ![s0] = @ \cup {n}] BY <1>6, <2>1, <2>2
  <2>3. CASE answers' = answers BY <2>1, <2>3
  <2> QED BY <1>3, <2>2, <2>3
<1>9. dispatching' \subseteq 0..MaxJob
  <2>1. call[r].kind = "send" => call[r].saw.version \in 0..MaxJob BY <1>5 DEF Jobs
  <2> QED BY <1>0, <1>3, <2>1 DEF RecordsTyped
<1>10. RecordsTyped' BY <1>0, <1>3, <1>7, <1>8, <1>9 DEF RecordsTyped
<1>11. SendsFit' BY <1>0, <1>3 DEF SendsFit
<1>12. CallsTyped' /\ PoolFits' /\ CallsFit'
  <2>1. calls' \in 0..MaxCalls /\ NoCall \in CallStates \cup {NoCall} BY <1>0, <1>3 DEF CallsTyped
  <2>2. CallsTyped' /\ PoolFits' /\ \A q \in Requests : CallFits(call'[q]) BY <1>3, <2>1, NoCallFits, OneCall
  <2> QED BY <1>3, <2>2, CallsStand
<1>13. ASSUME s0[2] # "send" PROVE SlotFits(s0)'
  <2>1. SlotFits(s0) /\ r \in Users(s0) BY <1>0, <1>1, <1>3, <1>6, <1>13 DEF SlotsFit, Users, PastClaim
  <2>2. commands[s0] = 1 /\ answers[s0] = {} /\ \A q \in Users(s0) : q = r BY <1>3, <2>1 DEF SlotFits
  <2>3. \A q \in Requests : call'[q] = IF q = r THEN NoCall ELSE call[q] BY <1>0, <1>3 DEF CallsTyped
  <2>4. Users(s0)' = {} BY <2>2, <2>3, NoCallFits DEF Users, SlotOf
  <2>5. claim'[s0] \notin {Nobody, Open} /\ claim'[s0].by = n BY <1>6, <1>7, Unclaimed
  <2>6. commands'[s0] = 1 /\ answers'[s0] \subseteq {claim'[s0].by} BY <1>3, <1>8, <2>2, <2>5
  <2> QED BY <2>4, <2>5, <2>6 DEF SlotFits
<1>14. SlotsFit'
  <2>1. \A s \in Slots : s # s0 => SameRecord(s) BY <1>3, <1>7, <1>8 DEF SameRecord
  <2> QED BY <1>1, <1>3, <1>13, <2>1, NoCallFits, SlotMoves
<1> QED BY <1>10, <1>11, <1>12, <1>14 DEF InterInv

(* The job moves, and no call or record with it.                               *)
LEMMA StepEdit == ASSUME InterInv, NEW r \in Requests, Edit(r) PROVE InterInv'
<1>0. CallsTyped /\ RecordsTyped /\ SendsFit BY DEF InterInv
<1>1. /\ job.version < MaxJob /\ call' = [call EXCEPT ![r] = NoCall]
      /\ \/ job.state \in {"draft", "approved"} /\ job' = [state |-> "draft", version |-> job.version + 1]
         \/ job.state = "draft" /\ job' = [state |-> "approved", version |-> job.version + 1]
      /\ UNCHANGED <<reach, elsewhere, calls, claim, controls, dispatching, commands, answers>>
  BY DEF Edit, Ends
<1>2. job.state \in {"draft", "approved"} /\ job' \in Jobs
  <2>1. job \in Jobs /\ MaxJob \in Nat BY <1>0, InteractionsAssumption DEF RecordsTyped
  <2>2. job.version + 1 \in 0..MaxJob BY <1>1, <2>1 DEF Jobs
  <2> QED BY <1>1, <2>2 DEF Jobs
<1>3. RecordsTyped' BY <1>0, <1>1, <1>2 DEF RecordsTyped
<1>4. SendsFit' BY <1>0, <1>1, <1>2 DEF SendsFit
<1>5. calls' \in 0..MaxCalls /\ NoCall \in CallStates \cup {NoCall} BY <1>0, <1>1 DEF CallsTyped
<1>6. CallsTyped' /\ PoolFits' /\ \A q \in Requests : CallFits(call'[q]) BY <1>1, <1>5, NoCallFits, OneCall
<1>7. CallsFit' BY <1>1, <1>6, CallsStand
<1>8. \A s \in Slots : SameRecord(s) BY <1>1 DEF SameRecord
<1>9. SlotsFit' BY <1>1, <1>8, NoCallFits, SlotsStand
<1> QED BY <1>3, <1>4, <1>6, <1>7, <1>9 DEF InterInv

LEMMA StepReadControls == ASSUME InterInv, NEW r \in Requests, ReadControls(r) PROVE InterInv'
<1> DEFINE c == [call[r] EXCEPT !.at = "write", !.saw = controls]
<1>1. /\ call[r].at = "route" /\ call[r].kind = "controls" /\ call' = [call EXCEPT ![r] = c]
      /\ UNCHANGED <<reach, elsewhere, calls, automation, answers>>
  BY DEF ReadControls, Routed, At
<1>2. call[r] \in CallStates /\ CallFits(call[r]) /\ call[r].at \in Within BY <1>1, CallAt DEF Within
<1>3. controls \in Settings /\ controls.version \in Nat /\ calls \in 0..MaxCalls
  BY InteractionsAssumption DEF InterInv, RecordsTyped, CallsTyped, Settings
<1>4. /\ c \in CallStates /\ c.at = "write" /\ c.who = call[r].who /\ c.kind = call[r].kind
      /\ c.expected = call[r].expected /\ c.saw = controls
  BY <1>2, <1>3 DEF CallStates
<1> HIDE DEF c
<1>5. CallFits(c)
  <2>1. controls.version <= controls.version BY <1>3
  <2> QED BY <1>1, <1>2, <1>3, <1>4, <2>1 DEF CallFits, PastClaim
<1>6. c \in CallStates \cup {NoCall} /\ c.at \notin PastClaim /\ calls' \in 0..MaxCalls BY <1>1, <1>3, <1>4 DEF PastClaim
<1>7. UNCHANGED <<reach, elsewhere, automation, answers>> BY <1>1
<1>8. c.at \in Within => call[r].at \in Within BY <1>2
<1>9. call' = [call EXCEPT ![r] = c] BY <1>1
<1> QED BY <1>5, <1>6, <1>7, <1>8, <1>9, CallMoves

(* A later version of the controls is one that no call has seen.               *)
LEMMA ControlsMove ==
  ASSUME InterInv, controls' \in Settings, controls'.version = controls.version + 1, UNCHANGED reach,
         NEW c \in CallStates \cup {NoCall}, CallFits(c)
  PROVE  CallFits(c)'
<1>1. controls.version \in Nat BY InteractionsAssumption DEF InterInv, RecordsTyped, Settings
<1>2. CASE c = NoCall BY <1>2, NoCallFits DEF CallFits, PastClaim, Within
<1>3. CASE c \in CallStates
  <2>1. c.expected \in Nat BY <1>3 DEF CallStates
  <2>2. c.expected <= controls.version => c.expected <= controls'.version BY <1>1, <2>1
  <2>3. ASSUME c.at = "write"
        PROVE /\ c.saw \in Settings /\ c.expected <= c.saw.version /\ c.saw.version <= controls'.version
              /\ c.saw.version # controls'.version /\ c.kind = "controls"
    <3>1. c.saw \in Settings /\ c.expected <= c.saw.version /\ c.saw.version <= controls.version /\ c.kind = "controls"
      BY <2>3 DEF CallFits
    <3>2. c.saw.version \in Nat BY <3>1, InteractionsAssumption DEF Settings
    <3> QED BY <1>1, <3>1, <3>2
  <2> QED BY <2>2, <2>3 DEF CallFits
<1> QED BY <1>2, <1>3

LEMMA ControlsWritten ==
  ASSUME InterInv, controls.version < MaxControls, NEW on \in BOOLEAN, NEW pause \in BOOLEAN,
         controls' = [version |-> controls.version + 1, reading |-> on, paused |-> pause]
  PROVE  controls' \in Settings /\ controls'.version = controls.version + 1
<1>1. controls \in Settings /\ MaxControls \in Nat BY InteractionsAssumption DEF InterInv, RecordsTyped
<1>2. controls.version + 1 \in 0..MaxControls BY <1>1 DEF Settings
<1> QED BY <1>2 DEF Settings

LEMMA WriterSaw ==
  ASSUME InterInv, NEW r \in Requests, WriteControls(r)
  PROVE  /\ call[r] \in CallStates /\ call[r].saw = controls /\ call[r].kind = "controls"
         /\ controls \in Settings /\ controls'.paused = controls.paused
<1>1. call[r].at = "write" /\ controls.version = call[r].expected BY DEF WriteControls, VersionWritten, At
<1>2. call[r] \in CallStates /\ CallFits(call[r]) BY <1>1, CallAt
<1>3. controls \in Settings /\ controls.version \in Nat BY InteractionsAssumption DEF InterInv, RecordsTyped, Settings
<1>4. /\ call[r].saw \in Settings /\ call[r].expected <= call[r].saw.version /\ call[r].saw.version <= controls.version
      /\ (call[r].saw.version = controls.version => call[r].saw = controls) /\ call[r].kind = "controls"
  BY <1>1, <1>2 DEF CallFits
<1>5. call[r].saw.version \in Nat BY <1>4, InteractionsAssumption DEF Settings
<1>6. call[r].saw = controls BY <1>1, <1>3, <1>4, <1>5
<1>7. controls'.paused = call[r].saw.paused BY DEF WriteControls
<1> QED BY <1>2, <1>3, <1>4, <1>6, <1>7

LEMMA StepWriteControls == ASSUME InterInv, NEW r \in Requests, WriteControls(r) PROVE InterInv'
<1>0. CallsTyped /\ RecordsTyped /\ SendsFit BY DEF InterInv
<1>1. /\ call[r].at = "write" /\ controls.version < MaxControls /\ (Goes(r, "config") \/ Ends(r))
      /\ UNCHANGED <<reach, elsewhere, calls, claim, job, dispatching, commands, answers>>
  BY DEF WriteControls, At
<1>2. /\ call[r] \in CallStates /\ call[r].saw = controls /\ call[r].kind = "controls" /\ controls \in Settings
  BY WriterSaw
<1>3. PICK on \in BOOLEAN :
        controls' = [version |-> controls.version + 1, reading |-> on, paused |-> call[r].saw.paused]
  BY DEF WriteControls
<1>4. call[r].saw.paused \in BOOLEAN BY <1>2 DEF Settings
<1>5. controls' \in Settings /\ controls'.version = controls.version + 1 BY <1>1, <1>3, <1>4, ControlsWritten
<1>6. RecordsTyped' BY <1>0, <1>1, <1>5 DEF RecordsTyped
<1>7. SendsFit' BY <1>0, <1>1 DEF SendsFit
<1>8. CallFits(call[r]) /\ call[r].at \in Within BY <1>1, CallAt DEF Within
<1>9. calls' \in 0..MaxCalls BY <1>0, <1>1 DEF CallsTyped
<1>10. ASSUME NEW c \in CallStates \cup {NoCall}, call' = [call EXCEPT ![r] = c], CallFits(c), c.at \notin PastClaim
       PROVE  InterInv'
  <2>1. CallsTyped' /\ PoolFits' /\ \A q \in Requests : CallFits(call'[q]) BY <1>1, <1>8, <1>9, <1>10, OneCall
  <2>2. CallsFit'
    <3> SUFFICES ASSUME NEW q \in Requests PROVE CallFits(call[q])' BY DEF CallsFit
    <3>1. PICK d : d = call'[q] OBVIOUS
    <3>2. d \in CallStates \cup {NoCall} /\ CallFits(d) BY <2>1, <3>1 DEF CallsTyped
    <3>3. CallFits(d)' BY <1>1, <1>5, <3>2, ControlsMove
    <3> QED BY <3>1, <3>3 DEF CallFits
  <2>3. \A s \in Slots : SameRecord(s) BY <1>1 DEF SameRecord
  <2>4. SlotsFit' BY <1>10, <2>3, SlotsStand
  <2> QED BY <1>6, <1>7, <2>1, <2>2, <2>4 DEF InterInv
<1>11. CASE Goes(r, "config")
  <2> DEFINE c == [call[r] EXCEPT !.at = "config"]
  <2>1. "config" \in Within BY DEF Within
  <2>2. /\ c \in CallStates /\ c.at = "config" /\ c.who = call[r].who /\ c.kind = call[r].kind
        /\ c.expected = call[r].expected /\ c.saw = call[r].saw
    BY <1>2, <2>1, WentTo
  <2>3. call' = [call EXCEPT ![r] = c] BY <1>11 DEF Goes
  <2> HIDE DEF c
  <2>4. CallFits(c) BY <1>1, <1>8, <2>2 DEF CallFits, PastClaim
  <2>5. c \in CallStates \cup {NoCall} /\ c.at \notin PastClaim BY <2>2 DEF PastClaim
  <2> QED BY <1>10, <2>3, <2>4, <2>5
<1>12. CASE Ends(r)
  <2>1. call' = [call EXCEPT ![r] = NoCall] /\ NoCall \in CallStates \cup {NoCall} BY <1>12 DEF Ends
  <2> QED BY <1>10, <2>1, NoCallFits
<1> QED BY <1>1, <1>11, <1>12

(* What happens elsewhere.                                                     *)
LEMMA StillCalls ==
  ASSUME InterInv, UNCHANGED <<call, claim, commands, answers>>
  PROVE  SlotsFit'
BY DEF InterInv, SlotsFit, SlotFits, Users, SlotOf

LEMMA StepReach == ASSUME InterInv, NEW u \in Customers, Revoke(u) \/ Grant(u) PROVE InterInv'
<1>0. CallsTyped /\ RecordsTyped /\ CallsFit /\ SendsFit /\ PoolFits BY DEF InterInv
<1>1. UNCHANGED <<call, elsewhere, calls, automation, answers>> /\ reach' \subseteq Customers
  <2>1. CASE Revoke(u) BY <2>1, <1>0 DEF Revoke, CallsTyped
  <2>2. CASE Grant(u) BY <2>2, <1>0 DEF Grant, CallsTyped
  <2> QED BY <2>1, <2>2
<1>2. ASSUME NEW r \in Requests, call[r].at \in Within PROVE call[r].who \in reach'
  <2>1. call[r].who \in reach /\ Inside(r) BY <1>0, <1>2, CallAt DEF CallsFit, CallFits
  <2>2. CASE Revoke(u)
    <3>1. call[r].who # u /\ reach' = reach \ {u} BY <2>1, <2>2 DEF Revoke, Unlocked
    <3> QED BY <2>1, <3>1
  <2>3. CASE Grant(u) BY <2>1, <2>3 DEF Grant
  <2> QED BY <2>2, <2>3
<1>3. CallsFit'
  <2> SUFFICES ASSUME NEW r \in Requests PROVE CallFits(call[r])' BY DEF CallsFit
  <2>1. CallFits(call[r]) /\ call'[r] = call[r] /\ controls' = controls BY <1>0, <1>1 DEF CallsFit, automation
  <2> QED BY <1>2, <2>1 DEF CallFits
<1>4. CallsTyped' /\ RecordsTyped' /\ SendsFit' BY <1>0, <1>1 DEF CallsTyped, RecordsTyped, SendsFit, automation
<1>5. PoolFits' BY <1>0, <1>1 DEF PoolFits, InsideCalls, Inside
<1>6. SlotsFit' BY <1>1, StillCalls DEF automation
<1> QED BY <1>3, <1>4, <1>5, <1>6 DEF InterInv

LEMMA StepBorrow == ASSUME InterInv, NEW o \in Others, Borrow(o) \/ Return(o) PROVE InterInv'
<1>0. CallsTyped /\ RecordsTyped /\ CallsFit /\ SendsFit /\ PoolFits BY DEF InterInv
<1>1. UNCHANGED <<reach, call, calls, automation, answers>>
  <2>1. CASE Borrow(o) BY <2>1 DEF Borrow
  <2>2. CASE Return(o) BY <2>2 DEF Return
  <2> QED BY <2>1, <2>2
<1>2. elsewhere \subseteq Others /\ InsideCalls \subseteq Requests BY <1>0 DEF CallsTyped, InsideCalls
<1>3. /\ Cardinality(elsewhere) \in Nat /\ IsFiniteSet(elsewhere) /\ Cardinality(InsideCalls) \in Nat /\ Connections \in Nat
  BY <1>2, Pooled
<1>4. elsewhere' \subseteq Others /\ Cardinality(InsideCalls) + Cardinality(elsewhere') <= Connections
  <2>1. CASE Borrow(o)
    <3>1. Free > 0 /\ o \notin elsewhere /\ elsewhere' = elsewhere \cup {o} BY <2>1 DEF Borrow
    <3>2. Cardinality(elsewhere') = Cardinality(elsewhere) + 1 BY <1>3, <3>1, FS_AddElement
    <3>3. Free = Connections - Cardinality(InsideCalls) - Cardinality(elsewhere) BY DEF Free, InsideCalls
    <3> QED BY <1>2, <1>3, <3>1, <3>2, <3>3
  <2>2. CASE Return(o)
    <3>1. o \in elsewhere /\ elsewhere' = elsewhere \ {o} BY <2>2 DEF Return
    <3>2. Cardinality(elsewhere') = Cardinality(elsewhere) - 1 BY <1>3, <3>1, FS_RemoveElement
    <3> QED BY <1>0, <1>2, <1>3, <3>1, <3>2 DEF PoolFits
  <2> QED BY <2>1, <2>2
<1>5. PoolFits'
  <2>1. InsideCalls' = InsideCalls BY <1>1 DEF InsideCalls, Inside
  <2> QED BY <1>4, <2>1 DEF PoolFits
<1>6. CallsFit' BY <1>0, <1>1 DEF CallsFit, CallFits, automation
<1>7. CallsTyped' /\ RecordsTyped' /\ SendsFit' BY <1>0, <1>1, <1>4 DEF CallsTyped, RecordsTyped, SendsFit, automation
<1>8. SlotsFit' BY <1>1, StillCalls DEF automation
<1> QED BY <1>5, <1>6, <1>7, <1>8 DEF InterInv

LEMMA JobMoves ==
  ASSUME InterInv, UNCHANGED <<reach, call, elsewhere, calls, claim, controls, commands, answers>>,
         job' \in Jobs, dispatching' \subseteq 0..MaxJob, job'.state \in {"draft", "approved"} => job' = job
  PROVE  InterInv'
<1>0. CallsTyped /\ RecordsTyped /\ CallsFit /\ SendsFit /\ PoolFits BY DEF InterInv
<1>1. CallsTyped' /\ RecordsTyped' BY <1>0 DEF CallsTyped, RecordsTyped
<1>2. CallsFit' BY <1>0 DEF CallsFit, CallFits
<1>3. SendsFit' BY <1>0 DEF SendsFit
<1>4. PoolFits' BY <1>0 DEF PoolFits, InsideCalls, Inside
<1> QED BY <1>1, <1>2, <1>3, <1>4, StillCalls DEF InterInv

LEMMA StepJob == ASSUME InterInv, (\E v \in dispatching : Dispatch(v)) \/ JobEnds PROVE InterInv'
<1>0. job \in Jobs /\ dispatching \subseteq 0..MaxJob /\ MaxJob \in Nat BY InteractionsAssumption DEF InterInv, RecordsTyped
<1>1. CASE JobEnds
  <2>1. job' = [job EXCEPT !.state = "sent"] BY <1>1 DEF JobEnds
  <2>2. job' \in Jobs /\ job'.state = "sent" BY <1>0, <2>1 DEF Jobs
  <2> QED BY <1>0, <1>1, <2>2, JobMoves DEF JobEnds
<1>2. ASSUME NEW v \in dispatching, Dispatch(v) PROVE InterInv'
  <2>1. /\ dispatching' \subseteq 0..MaxJob
        /\ UNCHANGED <<reach, call, elsewhere, calls, claim, controls, commands, answers>>
    BY <1>0, <1>2 DEF Dispatch
  <2>2. job' = job \/ (v < MaxJob /\ job' = [state |-> "sending", version |-> v + 1]) BY <1>2 DEF Dispatch
  <2>3. CASE job' = job BY <1>0, <2>1, <2>3, JobMoves
  <2>4. CASE v < MaxJob /\ job' = [state |-> "sending", version |-> v + 1]
    <3>1. v + 1 \in 0..MaxJob BY <1>0, <2>4
    <3>2. job' \in Jobs /\ job'.state = "sending" BY <2>4, <3>1 DEF Jobs
    <3> QED BY <2>1, <3>2, JobMoves
  <2> QED BY <2>2, <2>3, <2>4
<1> QED BY <1>1, <1>2

LEMMA StepOperator == ASSUME InterInv, OperatorWrites PROVE InterInv'
<1>0. CallsTyped /\ RecordsTyped /\ CallsFit /\ SendsFit /\ PoolFits BY DEF InterInv
<1>1. controls.version < MaxControls /\ UNCHANGED <<reach, call, elsewhere, calls, claim, job, dispatching, commands, answers>>
  BY DEF OperatorWrites
<1>2. PICK on \in BOOLEAN, pause \in BOOLEAN :
        controls' = [version |-> controls.version + 1, reading |-> on, paused |-> pause]
  BY DEF OperatorWrites
<1>3. controls' \in Settings /\ controls'.version = controls.version + 1 BY <1>1, <1>2, ControlsWritten
<1>4. CallsFit'
  <2> SUFFICES ASSUME NEW r \in Requests PROVE CallFits(call[r])' BY DEF CallsFit
  <2>1. PICK d : d = call[r] OBVIOUS
  <2>2. d \in CallStates \cup {NoCall} /\ CallFits(d) BY <1>0, <2>1 DEF CallsTyped, CallsFit
  <2>3. CallFits(d)' BY <1>1, <1>3, <2>2, ControlsMove
  <2>4. call'[r] = d BY <1>1, <2>1
  <2> QED BY <2>3, <2>4 DEF CallFits
<1>5. CallsTyped' /\ RecordsTyped' /\ SendsFit' BY <1>0, <1>1, <1>3 DEF CallsTyped, RecordsTyped, SendsFit
<1>6. PoolFits' BY <1>0, <1>1 DEF PoolFits, InsideCalls, Inside
<1>7. SlotsFit' BY <1>1, StillCalls
<1> QED BY <1>4, <1>5, <1>6, <1>7 DEF InterInv

LEMMA InterStep == InterInv /\ [InteractionsNext]_interVars => InterInv'
<1> SUFFICES ASSUME InterInv, [InteractionsNext]_interVars PROVE InterInv' OBVIOUS
<1>1. CASE UNCHANGED interVars
  BY <1>1, StillCalls DEF interVars, InterInv, CallsTyped, RecordsTyped, CallsFit, CallFits, SendsFit, PoolFits, InsideCalls, Inside
<1>2. CASE \E r \in Requests : Arrive(r) \/ Entering(r) \/ Acting(r)
  <2>1. PICK r \in Requests : Arrive(r) \/ Entering(r) \/ Acting(r) BY <1>2
  <2>2. CASE Arrive(r) \/ Entering(r) BY <2>2, StepArrive, StepEntering
  <2>3. CASE Acting(r)
    BY <2>3, StepClaim, StepPerform, StepResync, StepQueue, StepComplete, StepFails, StepEdit, StepReadControls,
       StepWriteControls, StepReadInbox, StepReadConfig DEF Acting
  <2> QED BY <2>1, <2>2, <2>3
<1>3. CASE Elsewhere BY <1>3, StepReach, StepBorrow, StepJob, StepOperator DEF Elsewhere
<1> QED BY <1>1, <1>2, <1>3 DEF InteractionsNext
LEMMA InterAlways == InteractionsSpec => []InterInv
BY InterStart, InterStep, PTL DEF InteractionsSpec

(* Only the call whose customer saw the job as it is queues it.                *)
SeenAndQueued ==
  (job.state = "approved" /\ job'.state = "queued")
     => \E r \in Requests : At(r, "act") /\ call[r].expected = job.version /\ call'[r] # call[r]
LEMMA QueueStep == ASSUME InterInv, [InteractionsNext]_interVars PROVE SeenAndQueued
<1> SUFFICES ASSUME job.state = "approved", job'.state = "queued"
             PROVE \E r \in Requests : At(r, "act") /\ call[r].expected = job.version /\ call'[r] # call[r]
  BY DEF SeenAndQueued
<1>0. call \in [Requests -> CallStates \cup {NoCall}] BY DEF InterInv, CallsTyped
<1>1. CASE UNCHANGED job BY <1>1
<1>2. ASSUME NEW r \in Requests, Queue(r), ~UNCHANGED job
      PROVE \E q \in Requests : At(q, "act") /\ call[q].expected = job.version /\ call'[q] # call[q]
  <2>1. At(r, "act") /\ call[r] \in CallStates BY <1>2, CallAt DEF Queue, At
  <2>2. job.version = call[r].expected BY <1>2 DEF Queue, VersionQueued
  <2>3. call'[r].at # "act"
    <3>1. CASE Ends(r) BY <1>0, <3>1, NoCallFits DEF Ends
    <3>2. CASE \E j : call' = [call EXCEPT ![r].at = "complete", ![r].saw = j]
      <4>1. PICK j : call' = [call EXCEPT ![r].at = "complete", ![r].saw = j] BY <3>2
      <4>2. call'[r] = [call[r] EXCEPT !.at = "complete", !.saw = j] BY <1>0, <4>1
      <4>3. call'[r].at = "complete" BY <2>1, <4>2 DEF CallStates
      <4> QED BY <4>3
    <3>3. Ends(r) \/ \E j : call' = [call EXCEPT ![r].at = "complete", ![r].saw = j] BY <1>2 DEF Queue
    <3> QED BY <3>1, <3>2, <3>3
  <2> QED BY <2>1, <2>2, <2>3 DEF At
<1>3. ASSUME NEW r \in Requests, Edit(r) PROVE FALSE BY <1>3 DEF Edit
<1>4. ASSUME NEW v, Dispatch(v), ~UNCHANGED job PROVE FALSE BY <1>4 DEF Dispatch
<1>5. ASSUME JobEnds PROVE FALSE BY <1>5 DEF JobEnds
<1>6. ASSUME NEW r \in Requests, Claim(r) \/ Perform(r) \/ Resync(r) \/ Complete(r) \/ Fails(r) PROVE UNCHANGED job
  BY <1>6 DEF Claim, Perform, Resync, Complete, Fails, automation
<1>7. ASSUME NEW r \in Requests, ReadControls(r) \/ WriteControls(r) \/ ReadInbox(r) \/ ReadConfig(r) PROVE UNCHANGED job
  BY <1>7 DEF ReadControls, WriteControls, ReadInbox, ReadConfig, automation
<1>8. ASSUME NEW r \in Requests, Arrive(r) \/ Entering(r) PROVE UNCHANGED job
  BY <1>8 DEF Arrive, Entering, Connect, Bind, automation
<1>9. ASSUME NEW u, Revoke(u) \/ Grant(u) \/ Borrow(u) \/ Return(u) PROVE UNCHANGED job
  BY <1>9 DEF Revoke, Grant, Borrow, Return, automation
<1>10. OperatorWrites => UNCHANGED job BY DEF OperatorWrites
<1>11. CASE UNCHANGED interVars BY <1>1, <1>11 DEF interVars
<1>12. ASSUME NEW r \in Requests, Acting(r), ~UNCHANGED job
       PROVE \E q \in Requests : At(q, "act") /\ call[q].expected = job.version /\ call'[q] # call[q]
  BY <1>2, <1>3, <1>6, <1>7, <1>12 DEF Acting
<1>13. ASSUME Elsewhere PROVE UNCHANGED job
  BY <1>4, <1>5, <1>9, <1>10, <1>13 DEF Elsewhere
<1> QED BY <1>1, <1>8, <1>11, <1>12, <1>13 DEF InteractionsNext

-----------------------------------------------------------------------------
(* The parts together.                                                         *)

(* For any keys, limits, patches, processes and requests the versions, rows,   *)
(* copies and calls keep their shape, and the pool never gives out more than   *)
(* it has (mirror-refresher.ts, the stores, interaction-customer-api.ts).      *)
THEOREM ConfigurationTypes == ConfigurationSpec => []ConfigTypesOK
<1>1. MirInv /\ StoreInv /\ InterInv => ConfigTypesOK BY MirParts, StoreParts, InterParts DEF ConfigTypesOK
<1> QED BY <1>1, MirAlways, StoreAlways, InterAlways, PTL DEF ConfigurationSpec

(* However often reloads fail, signals are delivered, requests are refused and *)
(* processes start again, a copy holds a row that was committed and what was   *)
(* recorded as loaded, and one found to be behind is not called fresh for      *)
(* longer than the limit and the longest round (runOnce, stateOf, applyBump).  *)
THEOREM CopiesAreHeld == ConfigurationSpec => []CopiesHold
<1>1. MirInv /\ StoreInv => CopiesHold
  <2>1. MirInv => SignalMovesOnce /\ RecordedIsLoaded /\ RefusalsAccounted BY DEF MirInv
  <2> QED BY <2>1, MirParts, StoreParts DEF CopiesHold
<1> QED BY <1>1, MirAlways, StoreAlways, PTL DEF ConfigurationSpec

(* Whatever is retried, lost or overlapping, a key's command is carried out    *)
(* once at most and by somebody in reach (interaction-customer-api.ts,         *)
(* refuseUnconfirmedReplay).                                                   *)
THEOREM CallsAreHeld == ConfigurationSpec => []CallsHold
<1>1. InterInv => CallsHold BY InterParts DEF CallsHold
<1> QED BY <1>1, InterAlways, PTL DEF ConfigurationSpec

(* No write changes a field its request does not carry, undoes a pause its     *)
(* customer did not see, or queues a reply at another version than the one     *)
(* that was seen (setAccount, replaceRuntimeControls, the send route).         *)
THEOREM WritesAreSeen == ConfigurationSpec => ConfigurationSteps
<1>1. StoreInv /\ [StoreNext]_storeVars
        => [\A w \in Writers : (store = "group_join" /\ CommitsOf(w))
              => \A f \in Fields \ writer[w].patch.carries : row'[f] = row[f]]_storeVars
  BY JoinStep
<1>2. InterInv /\ [InteractionsNext]_interVars
        => [/\ (\E r \in Requests : WriteControls(r)) => controls'.paused = controls.paused
            /\ (job.state = "approved" /\ job'.state = "queued")
                 => \E r \in Requests : At(r, "act") /\ call[r].expected = job.version /\ call'[r] # call[r]]_interVars
  BY WriterSaw, QueueStep DEF SeenAndQueued
<1> QED BY <1>1, <1>2, StoreAlways, InterAlways, PTL
        DEF ConfigurationSpec, StoreSpec, InteractionsSpec, ConfigurationSteps, JoinPatchIsPartial, WritesAsSeen
=============================================================================
