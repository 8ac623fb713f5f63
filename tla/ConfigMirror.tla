---------------------------- MODULE ConfigMirror ----------------------------
(***************************************************************************)
(* How long may a process act on an old copy of a configuration table?     *)
(* The versions of the tables live in config_mirror_version: a write of    *)
(* the API moves its table's version in the same transaction, a write of   *)
(* another service sends a signal that a relay delivers at least once.     *)
(* The refresher of a process compares the versions round by round and     *)
(* reloads what moved; a gate whose copy is too old refuses to act, and    *)
(* the refusals are counted in a table, a window at a time.                *)
(***************************************************************************)
EXTENDS Naturals, FiniteSets, Sequences

CONSTANTS
    Keys,          \* config_mirror_version.mirror_key
    ApiOwned,      \* the keys whose tables the API itself writes
    Gates,         \* the keys whose staleness stops actions
    StaleAfter,    \* staleMs, in ticks; the other keys alert after the same time
    Window,        \* REFUSAL_FLUSH_WINDOW_MS, in ticks
    MaxVersion,    \* bounds the writes of a key
    MaxTime,       \* bounds the clock
    MaxRefusals    \* bounds the refusals of a key

ASSUME MirrorAssumption ==
    /\ ApiOwned \subseteq Keys
    /\ Gates \subseteq Keys
    /\ {StaleAfter, Window, MaxVersion, MaxTime, MaxRefusals} \subseteq Nat

VARIABLES
    mirNow,        \* the clock of the process
    mirVersion,    \* config_mirror_version
    mirOutbox,     \* the signals written beside the other services' tables
    mirInbox,      \* config_mirror_bump_inbox
    mirRound,      \* runOnce: the round under way, and as history the longest that ended
    mirCopy,       \* the version of the table each copy was loaded from
    mirState,      \* MirrorRuntimeState of each key
    mirRefusal,    \* refusalBuckets, and what became of the refusals
    mirOn          \* "starting", "on" or "stopped"
mirVars == <<mirNow, mirVersion, mirOutbox, mirInbox, mirRound, mirCopy,
             mirState, mirRefusal, mirOn>>

Never == MaxTime + 1                      \* lastComparedAt, lastFlushAt: null
Signals(k) == {s \in mirOutbox : s[1] = k}
MaxOf(a, b) == IF a > b THEN a ELSE b

-----------------------------------------------------------------------------
(* The age of a copy is the larger of the time since the last comparison   *)
(* and the time since the first of the reloads that keep failing.          *)

Since(t) == IF t = Never THEN MaxTime + 1 ELSE mirNow - t
AgeOfCompared(s) == Since(s.compared)
AgeOf(s) == IF s.failing = Never THEN Since(s.compared)
            ELSE MaxOf(Since(s.compared), Since(s.failing))
StaleCopy(s) == AgeOf(s) > StaleAfter

\* stateOf: a key that is no gate is always fresh.
StaleGate(k) == k \in Gates /\ StaleCopy(mirState[k])

\* evaluateStaleness: the alert, and the age below which it is rearmed.
Evaluated(s) ==
    IF StaleCopy(s) THEN [s EXCEPT !.alerted = TRUE]
    ELSE IF 2 * AgeOf(s) > StaleAfter THEN s ELSE [s EXCEPT !.alerted = FALSE]

-----------------------------------------------------------------------------
(* Refusals are counted in memory and written at most once in a window.    *)

FlushDue(b, force) ==
    /\ b.pending > 0
    /\ force \/ b.flushed = Never \/ mirNow - b.flushed >= Window

\* recordStaleRefusal: nobody waits for the statement; its count is added to
\* the row of the hour, or lost with it.
Recorded(b, kept) ==
    IF kept THEN [b EXCEPT !.written = @ + b.pending, !.pending = 0, !.flushed = mirNow]
    ELSE [b EXCEPT !.lost = @ + b.pending, !.pending = 0, !.flushed = mirNow]
Flushed(b, force, kept) == IF FlushDue(b, force) THEN Recorded(b, kept) ELSE b
FlushAllDue(force, kept) == [k \in Keys |-> Flushed(mirRefusal[k], FALSE, kept)]
FlushAll(force, kept) == [k \in Keys |-> Flushed(mirRefusal[k], force, kept)]

\* noteStaleRefusal: a gate that is stale refuses an action.
NoteStaleRefusal(k) ==
    /\ mirOn = "on"
    /\ StaleGate(k)
    /\ mirRefusal[k].noted < MaxRefusals
    /\ LET b == mirRefusal[k]
           counted == [b EXCEPT !.noted = b.noted + 1, !.pending = b.pending + 1]
       IN \E kept \in BOOLEAN : mirRefusal' = [mirRefusal EXCEPT ![k] = Flushed(counted, FALSE, kept)]
    /\ UNCHANGED <<mirNow, mirVersion, mirOutbox, mirInbox, mirRound, mirCopy, mirState, mirOn>>

-----------------------------------------------------------------------------
(* Writes.                                                                 *)

Bumped(k) == [mirVersion EXCEPT ![k] = @ + 1]

\* writeWithMirrorBump: the table and its version move in one transaction.
WriteOwn(k) ==
    /\ k \in ApiOwned
    /\ mirVersion[k] < MaxVersion
    /\ mirVersion' = Bumped(k)
    /\ UNCHANGED <<mirNow, mirOutbox, mirInbox, mirRound, mirCopy, mirState, mirRefusal, mirOn>>

\* A write of another service leaves a signal in its own database.
WriteElsewhere(k) ==
    /\ k \notin ApiOwned
    /\ Cardinality(Signals(k)) < MaxVersion
    /\ mirOutbox' = mirOutbox \cup {<<k, Cardinality(Signals(k)) + 1>>}
    /\ UNCHANGED <<mirNow, mirVersion, mirInbox, mirRound, mirCopy, mirState, mirRefusal, mirOn>>

\* applyBump: the relay delivers a signal, perhaps again. The inbox row and
\* the version are one transaction.
AnyDelivery(s) == TRUE
FirstDelivery(s) == s \notin mirInbox
ApplyBump(s) ==
    /\ s \in mirOutbox
    /\ mirInbox' = mirInbox \cup {s}
    /\ mirVersion' = IF FirstDelivery(s) THEN Bumped(s[1]) ELSE mirVersion
    /\ UNCHANGED <<mirNow, mirOutbox, mirRound, mirCopy, mirState, mirRefusal, mirOn>>

-----------------------------------------------------------------------------
(* Rounds.                                                                 *)

Idle == [at |-> "idle", read |-> [k \in Keys |-> 0], todo |-> {}, ticks |-> 0, longest |-> 0]
Ended == [Idle EXCEPT !.longest = MaxOf(mirRound.longest, mirRound.ticks)]

\* The table is read; the answer comes later.
BeginRound ==
    /\ mirOn \in {"starting", "on"}
    /\ mirRound.at = "idle"
    /\ mirRound' = [mirRound EXCEPT !.at = "reading", !.read = [k \in Keys |-> mirVersion[k]]]
    /\ UNCHANGED <<mirNow, mirVersion, mirOutbox, mirInbox, mirCopy, mirState, mirRefusal, mirOn>>

Compared(s) == [s EXCEPT !.compared = mirNow]
TakenOver(s, next) == [s EXCEPT !.compared = mirNow, !.known = next, !.base = next]
Noticed(s) == [s EXCEPT !.noticed = IF @ = Never THEN mirNow ELSE @]
Changed == {k \in Keys : mirRound.read[k] # 0 /\ mirRound.read[k] # mirState[k].known}

EndUnevaluated(states) ==
    /\ mirRound' = Ended
    /\ mirState' = states
    /\ UNCHANGED mirRefusal

\* finally: the ages are evaluated and the refusals that are due are sent.
EndRound(states) ==
    /\ mirRound' = Ended
    /\ mirState' = [k \in Keys |-> Evaluated(states[k])]
    /\ \E kept \in BOOLEAN : mirRefusal' = FlushAll(FALSE, kept)

\* The first round takes the versions over and reloads nothing: the copies
\* were loaded a moment ago. It arms the gates.
Baseline ==
    /\ mirOn = "starting"
    /\ mirRound.at = "reading"
    /\ EndRound([k \in Keys |-> TakenOver(mirState[k], mirRound.read[k])])
    /\ mirOn' = "on"
    /\ UNCHANGED <<mirNow, mirVersion, mirOutbox, mirInbox, mirCopy>>

\* Every later round marks every key as compared, and reloads what moved.
Compare ==
    /\ mirOn = "on"
    /\ mirRound.at = "reading"
    /\ LET states == [k \in Keys |-> IF k \in Changed THEN Noticed(Compared(mirState[k]))
                                       ELSE Compared(mirState[k])]
       IN IF Changed = {} THEN EndRound(states)
          ELSE /\ mirRound' = [mirRound EXCEPT !.at = "reloading", !.todo = Changed]
               /\ mirState' = states
               /\ UNCHANGED mirRefusal
    /\ UNCHANGED <<mirNow, mirVersion, mirOutbox, mirInbox, mirCopy, mirOn>>

\* A reload that fails leaves the last version that was loaded, and the time
\* of the first failure.
FailedAnew(s, next) == [s EXCEPT !.failing = mirNow]
FailedAsLoaded(s, next) == [s EXCEPT !.known = next]
FailedReload(s, next) == [s EXCEPT !.failing = IF @ = Never THEN mirNow ELSE @]
\* Faulty variant: the version after the one that was read is recorded.
LoadedReloadNext(s, next) == [s EXCEPT !.known = next + 1, !.failing = Never, !.noticed = Never]
LoadedReload(s, next) == [s EXCEPT !.known = next, !.failing = Never, !.noticed = Never]

Reload(k) ==
    /\ mirRound.at = "reloading"
    /\ k \in mirRound.todo
    /\ \E ok \in BOOLEAN :
          LET next == mirRound.read[k]
              state == IF ok THEN LoadedReload(mirState[k], next)
                       ELSE FailedReload(mirState[k], next)
              states == [mirState EXCEPT ![k] = state]
          IN /\ mirCopy' = IF ok THEN [mirCopy EXCEPT ![k] = mirVersion[k]] ELSE mirCopy
             /\ IF mirRound.todo = {k} THEN EndRound(states)
                ELSE /\ mirRound' = [mirRound EXCEPT !.todo = @ \ {k}]
                     /\ mirState' = states
                     /\ UNCHANGED mirRefusal
    /\ UNCHANGED <<mirNow, mirVersion, mirOutbox, mirInbox, mirOn>>

\* The versions cannot be read: nothing moves but the ages and the refusals.
ReadFailed ==
    /\ mirRound.at = "reading"
    /\ EndRound(mirState)
    /\ mirOn' = IF mirOn = "starting" THEN "on" ELSE mirOn
    /\ UNCHANGED <<mirNow, mirVersion, mirOutbox, mirInbox, mirCopy>>

\* stop: what was counted is sent whatever the window says.
Stop ==
    /\ mirOn = "on"
    /\ mirOn' = "stopped"
    /\ \E kept \in BOOLEAN : mirRefusal' = FlushAll(TRUE, kept)
    /\ UNCHANGED <<mirNow, mirVersion, mirOutbox, mirInbox, mirRound, mirCopy, mirState>>

\* Nothing bounds a round: neither the reading of the versions nor a reload
\* has a deadline, and no other round begins meanwhile.
Tick ==
    /\ mirNow < MaxTime
    /\ mirNow' = mirNow + 1
    /\ mirRound' = IF mirRound.at = "idle" THEN mirRound ELSE [mirRound EXCEPT !.ticks = @ + 1]
    /\ UNCHANGED <<mirVersion, mirOutbox, mirInbox, mirCopy, mirState, mirRefusal, mirOn>>

-----------------------------------------------------------------------------
\* The copies are loaded by each store's init, before start() is called.
MirInit ==
    /\ mirNow = 0
    /\ mirVersion = [k \in Keys |-> 0]
    /\ mirOutbox = {}
    /\ mirInbox = {}
    /\ mirRound = Idle
    /\ mirCopy = [k \in Keys |-> 0]
    /\ mirState = [k \in Keys |-> [known |-> 0, base |-> 0, compared |-> Never, failing |-> Never, noticed |-> Never,
                                   alerted |-> FALSE]]
    /\ mirRefusal = [k \in Keys |-> [noted |-> 0, pending |-> 0, written |-> 0, lost |-> 0,
                                     flushed |-> Never]]
    /\ mirOn = "starting"

MirRound == BeginRound \/ Baseline \/ Compare \/ ReadFailed \/ (\E k \in Keys : Reload(k))
MirNext ==
    \/ MirRound \/ Stop \/ Tick
    \/ \E k \in Keys : WriteOwn(k) \/ WriteElsewhere(k) \/ NoteStaleRefusal(k)
    \/ \E s \in mirOutbox : ApplyBump(s)
MirSpec == MirInit /\ [][MirNext]_mirVars

-----------------------------------------------------------------------------
(* Properties.                                                             *)

\* The shape of the refresher's state.
MirTypeOK ==
    /\ mirNow \in 0..MaxTime
    /\ mirOn \in {"starting", "on", "stopped"}
    /\ mirInbox \subseteq mirOutbox
    /\ mirRound.at \in {"idle", "reading", "reloading"}
    /\ mirRound.todo # {} => mirRound.at = "reloading"
    /\ \A k \in Keys : /\ mirCopy[k] \in 0..mirVersion[k]
                       /\ mirState[k].known \in 0..mirVersion[k]

\* applyBump (mirror-bump-sink.ts:51): however often the relay delivers a
\* signal, a table's version moves once for it and for nothing else.
SignalMovesOnce ==
    \A k \in Keys \ ApiOwned : mirVersion[k] = Cardinality({s \in mirInbox : s[1] = k})

\* runOnce (mirror-refresher.ts:276): a version a round has recorded as loaded
\* was loaded. What a failed reload left behind is never taken for it.
RecordedIsLoaded ==
    \A k \in Keys : mirState[k].known # mirState[k].base => mirCopy[k] >= mirState[k].known

\* stateOf, ageOf (mirror-refresher.ts:376-396): a gate says fresh over a copy
\* that rounds have found to be behind for no longer than the limit and the
\* longest of the rounds that ended, however many reloads fail. A round that
\* does not end adds nothing: the age is computed when it is asked for.
KnownBehindTurnsStale ==
    \A k \in Gates : (mirState[k].noticed # Never /\ ~StaleGate(k))
        => mirNow - mirState[k].noticed <= StaleAfter + mirRound.longest

\* noteStaleRefusal, flushRefusalBucket, stop (mirror-refresher.ts:229,406,430):
\* a refusal is in the table, waiting or lost with a statement
\* that failed, in one of them only; none still waits after stop().
RefusalsAccounted ==
    \A k \in Keys : LET b == mirRefusal[k] IN
        /\ b.noted = b.pending + b.written + b.lost
        /\ mirOn = "stopped" => b.pending = 0

\* evaluateStaleness runs after rounds that fail too (mirror-refresher.ts:303):
\* while rounds go on ending, a copy that has become too old is reported, or
\* becomes fresh again. A round that hangs ends the alerts.
StaleIsReported ==
    []<>(mirRound.at = "idle") => \A k \in Keys : (mirOn = "on" /\ StaleCopy(mirState[k]))
        ~> (mirOn # "on" \/ mirState[k].alerted \/ ~StaleCopy(mirState[k]))
=============================================================================
