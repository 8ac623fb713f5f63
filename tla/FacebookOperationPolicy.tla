------------------------ MODULE FacebookOperationPolicy ------------------------
(***************************************************************************)
(* How a Facebook environment operates: one global policy, one policy per  *)
(* environment that may inherit the global cadence, the anchor and the     *)
(* completion of its slow start, its browse surface. Several processes     *)
(* write one database in transactions that lock the environment, then the  *)
(* policy; each decides with the global policy it holds in memory.         *)
(***************************************************************************)
EXTENDS Integers, FiniteSets

CONSTANTS
    Envs, Users, Processes,
    Requests,      \* the writes in flight, each at one process
    Serving,       \* the process of each request
    Cadences, Initial, None,
    Legacy,        \* environments with no policy row whose old rule toggle is on
    Asks,          \* what requests may ask, members of Ask
    LastDay,       \* bounds today
    MaxDays,       \* bounds the days of a slow start
    MaxRevision    \* bounds every revision

ASSUME PolicyAssumption ==
    /\ Serving \in [Requests -> Processes]
    /\ Initial \in Cadences /\ None \notin Cadences /\ None \notin Int
    /\ Legacy \subseteq Envs /\ IsFiniteSet(Envs)
    /\ LastDay \in Nat /\ MaxDays \in Nat \ {0, 1} /\ MaxRevision \in Nat \ {0}

VARIABLES
    global,        \* the one row of facebook_operation_global_policy
    policy,        \* facebook_operation_policy, revision 0 where there is no row
    anchor,        \* client_environments.slow_start_since, a day
    completed,     \* facebook_environment_slow_start_completion
    surface,       \* facebook_primary_browse_surface_policy
    owners,        \* client_env_scope, source admin
    sequence,      \* facebook_operation_policy_revision_seq
    today,
    moved,         \* config_mirror_version of facebook_operation_policy
    held,          \* what each process holds in memory
    request,       \* the requests
    audits         \* the rows of the three audit tables
polVars == <<global, policy, anchor, completed, surface, owners, sequence, today,
             moved, held, request, audits>>
tables == <<global, policy, anchor, completed, surface, moved, audits>>

Bases == {"persona", "rule", "consumption"}
Global == [cadence : Cadences, days : 1..MaxDays, revision : 0..MaxRevision]
Policy == [base : Bases, cadence : Cadences, source : {"global", "environment"},
           revision : 0..MaxRevision]
Surface == [value : {"feed", "reels"}, revision : 0..MaxRevision]
Held == [global : Global, policy : [Envs -> Policy], surface : [Envs -> Surface]]

\* A global write gives the cadence and the days. An environment's write is of a
\* mode, of the day of its slow start, of its surface, or an old toggle.
Kinds == {"global", "mode", "progress", "surface", "rule", "slow"}
Ask == [kind : Kinds, env : Envs, user : Users \cup {None},
        mode : Bases \cup {"slow_start"}, source : {"kept", "global", "environment"},
        cadence : Cadences \cup {None}, day : 1..MaxDays, on : BOOLEAN]

ASSUME AsksAssumption == Asks \subseteq Ask /\ \A a \in Asks : a.kind = "global" => a.cadence # None

-----------------------------------------------------------------------------
(* What the code makes of the rows.                                        *)

\* With no row: the old toggle, or the defaults with the cadence of the memory.
Fallback(e, g) ==
    [base |-> IF e \in Legacy THEN "rule" ELSE "persona", cadence |-> g.cadence,
     source |-> IF e \in Legacy THEN "environment" ELSE "global", revision |-> 0]
Current(e, g) == IF policy[e].revision > 0 THEN policy[e] ELSE Fallback(e, g)

SlowStartState(e, days) ==
    IF anchor[e] = None THEN "off"
    ELSE IF completed[e] \/ today - anchor[e] >= days THEN "graduated" ELSE "active"

\* With the global cadence, this process's copy of it counts, not the table's.
\* Faulty variant: an inheriting environment is given what its request carries.
CadenceAsAsked(a, current, source, g) ==
    IF source = "global" THEN a.cadence
    ELSE IF a.cadence # None THEN a.cadence ELSE current.cadence
NextCadence(a, current, source, g) ==
    IF source = "global" THEN g.cadence
    ELSE IF a.cadence # None THEN a.cadence ELSE current.cadence

NextPolicy(a, current, g, revision) ==
    CASE a.kind = "mode" ->
           LET source == IF a.source = "kept" THEN current.source ELSE a.source
           IN  [base |-> IF a.mode = "slow_start" THEN "consumption" ELSE a.mode,
                cadence |-> NextCadence(a, current, source, g),
                source |-> source, revision |-> revision]
      [] a.kind = "rule" ->
           [current EXCEPT !.base = IF a.on THEN "rule" ELSE "persona", !.revision = revision]
      [] OTHER -> [current EXCEPT !.revision = revision]

\* A slow start is begun anew only where none was set or its completion is on record.
\* finished is what the statement that waited for the lock saw.
Restarts(a, finished) ==
    \/ a.kind = "mode" /\ a.mode = "slow_start" /\ (anchor[a.env] = None \/ finished)
    \/ a.kind = "slow" /\ a.on
NextAnchor(a, finished) ==
    IF Restarts(a, finished) THEN today
    ELSE CASE a.kind = "mode" -> IF a.mode = "slow_start" THEN anchor[a.env] ELSE None
           [] a.kind = "slow" -> None
           [] a.kind = "progress" -> today - (a.day - 1)
           [] OTHER -> anchor[a.env]
NextCompleted(a, finished) ==
    IF Restarts(a, finished) THEN FALSE
    ELSE IF a.kind = "progress" THEN a.on ELSE completed[a.env]

-----------------------------------------------------------------------------
(* Locks. They are held to the end of the transaction.                     *)

EnvLocked(e) == \E r \in Requests : request[r].ask.env = e /\ request[r].at \in {"locked", "writing"}
PolicyLocked(e) ==
    \E r \in Requests : \/ request[r].at = "writing" /\ request[r].ask.env = e
                        \/ request[r].at \in {"spreading", "shortening"} /\ e \in DOMAIN request[r].rows
GlobalLocked ==
    \E r \in Requests : request[r].at \in {"graduating", "marking", "spreading", "shortening"}
\* Marking an environment references its row, and shares its lock.
EnvShared(e) ==
    \E r \in Requests : request[r].at \in {"marking", "spreading", "shortening"} /\ e \in request[r].marks

Audit(table, e, prior, new) == [table |-> table, env |-> e, prior |-> prior, new |-> new]
NoAsk == CHOOSE a \in Asks : TRUE
NoRows == [e \in {} |-> 0]
NoRequest == [at |-> "idle", ask |-> NoAsk, expected |-> 0,
              finished |-> FALSE, contended |-> FALSE, day |-> 0, next |-> None, was |-> 0,
              due |-> NoRows, marks |-> {}, rows |-> NoRows, shorter |-> {}]
\* Of a request that is over nothing is kept.
Place(r, at) ==
    request' = [request EXCEPT ![r] = IF at = "done" THEN [NoRequest EXCEPT !.at = at]
                                                     ELSE [@ EXCEPT !.at = at]]

-----------------------------------------------------------------------------
(* The write of an environment.                                            *)

\* A valid request is sent with the revision its console was shown, by whichever
\* process, and its first statement sees completion and owners as they are now.
Send(r, a, p) ==
    /\ request[r].at = "idle"
    /\ LET shown == held[p] IN
       /\ a.kind = "progress" => a.day <= held[Serving[r]].global.days /\ shown.policy[a.env].revision > 0
       /\ request' = [request EXCEPT ![r] =
             [NoRequest EXCEPT !.at = "waiting", !.ask = a, !.day = today,
                !.finished = completed[a.env], !.contended = Cardinality(owners[a.env]) > 1,
                !.expected = CASE a.kind = "global" -> shown.global.revision
                               [] a.kind = "surface" -> shown.surface[a.env].revision
                               [] OTHER -> shown.policy[a.env].revision]]
    /\ UNCHANGED <<tables, owners, sequence, today, held>>

\* The environment is gone, of another platform, or its account is in two places.
Refuse(r) ==
    /\ request[r].at = "waiting"
    /\ Place(r, "done")
    /\ UNCHANGED <<tables, owners, sequence, today, held>>

\* The owner is asked for under the lock; who contends was seen before it.
\* Faulty variant: ownership is not asked for again once the lock is held.
LockEnvironmentAsSeen(r) ==
    LET a == request[r].ask IN
    /\ request[r].at = "waiting" /\ a.kind # "global"
    /\ ~EnvLocked(a.env) /\ ~EnvShared(a.env)
    /\ Place(r, IF ~request[r].contended THEN "locked" ELSE "done")
    /\ UNCHANGED <<tables, owners, sequence, today, held>>
LockEnvironment(r) ==
    LET a == request[r].ask IN
    /\ request[r].at = "waiting" /\ a.kind # "global"
    /\ ~EnvLocked(a.env) /\ ~EnvShared(a.env)
    /\ Place(r, IF (a.user = None \/ a.user \in owners[a.env]) /\ ~request[r].contended
                THEN "locked" ELSE "done")
    /\ UNCHANGED <<tables, owners, sequence, today, held>>

\* What answers with a conflict: another revision than the console was shown, a
\* slow start that is not on, a rule toggle against it or against consumption.
Conflict(a, expected, current, days) ==
    \/ a.kind # "slow" /\ current.revision # expected
    \/ a.kind = "progress" /\ SlowStartState(a.env, days) = "off"
    \/ a.kind = "rule" /\ (SlowStartState(a.env, days) = "active" \/ current.base = "consumption")
\* Nothing to do: the toggle, or the surface, is already there.
Settled(a, current) ==
    \/ a.kind = "rule" /\ current.revision > 0 /\ current.base = (IF a.on THEN "rule" ELSE "persona")
    \/ a.kind = "slow" /\ current.revision > 0
       /\ IF a.on THEN anchor[a.env] # None /\ ~completed[a.env] ELSE anchor[a.env] = None

\* Faulty variant: the row is read without its lock.
ReadPolicyUnlocked(r) ==
    LET a == request[r].ask  g == held[Serving[r]].global  current == Current(a.env, g) IN
    /\ request[r].at = "locked" /\ a.kind \notin {"global", "surface"}
    /\ sequence < MaxRevision
    /\ ~Conflict(a, request[r].expected, current, g.days) /\ ~Settled(a, current)
    /\ sequence' = sequence + 1
    /\ request' = [request EXCEPT ![r].at = "writing", ![r].was = current.revision,
                     ![r].next = NextPolicy(a, current, g, sequence + 1)]
    /\ UNCHANGED <<tables, owners, today, held>>
\* The policy row is locked, compared, and the next one is made, with the memory
\* of the process and the next number of the sequence.
ReadPolicy(r) ==
    LET a == request[r].ask  g == held[Serving[r]].global  current == Current(a.env, g) IN
    /\ request[r].at = "locked" /\ a.kind \notin {"global", "surface"}
    /\ ~PolicyLocked(a.env)
    /\ sequence < MaxRevision
    /\ ~Conflict(a, request[r].expected, current, g.days) /\ ~Settled(a, current)
    /\ sequence' = sequence + 1
    /\ request' = [request EXCEPT ![r].at = "writing", ![r].was = current.revision,
                     ![r].next = NextPolicy(a, current, g, sequence + 1)]
    /\ UNCHANGED <<tables, owners, today, held>>

\* A conflict rolls back and reads everything anew; a toggle that is settled
\* keeps what it read.
Answer(r) ==
    LET a == request[r].ask  g == held[Serving[r]].global  current == Current(a.env, g) IN
    /\ request[r].at = "locked" /\ a.kind \notin {"global", "surface"}
    /\ ~PolicyLocked(a.env)
    /\ \/ Conflict(a, request[r].expected, current, g.days) /\ Place(r, "reloading") /\ UNCHANGED held
       \/ /\ ~Conflict(a, request[r].expected, current, g.days) /\ Settled(a, current)
          /\ Place(r, "done")
          /\ held' = [held EXCEPT ![Serving[r]].policy[a.env] = current]
    /\ UNCHANGED <<tables, owners, sequence, today>>

\* Faulty variant: the change is committed and its mirror's version is not moved.
CommitPolicyUnnoticed(r) ==
    LET a == request[r].ask  n == request[r].next IN
    /\ request[r].at = "writing"
    /\ policy' = [policy EXCEPT ![a.env] = n]
    /\ anchor' = [anchor EXCEPT ![a.env] = NextAnchor(a, request[r].finished)]
    /\ completed' = [completed EXCEPT ![a.env] = NextCompleted(a, request[r].finished)]
    /\ audits' = audits \cup {Audit("policy", a.env, request[r].was, n.revision)}
    /\ Place(r, "committed")
    /\ UNCHANGED <<global, surface, owners, sequence, today, held, moved>>
\* The policy, the anchor, the completion, the audit and the version commit together.
CommitPolicy(r) ==
    LET a == request[r].ask  n == request[r].next IN
    /\ request[r].at = "writing"
    /\ policy' = [policy EXCEPT ![a.env] = n]
    /\ anchor' = [anchor EXCEPT ![a.env] = NextAnchor(a, request[r].finished)]
    /\ completed' = [completed EXCEPT ![a.env] = NextCompleted(a, request[r].finished)]
    /\ audits' = audits \cup {Audit("policy", a.env, request[r].was, n.revision)}
    /\ moved' = moved + 1
    /\ Place(r, "committed")
    /\ UNCHANGED <<global, surface, owners, sequence, today, held>>
Remember(r) ==
    /\ request[r].at = "committed" /\ request[r].ask.kind \notin {"global", "surface"}
    /\ held' = [held EXCEPT ![Serving[r]].policy[request[r].ask.env] = request[r].next]
    /\ Place(r, "done")
    /\ UNCHANGED <<tables, owners, sequence, today>>

\* The surface has a revision of its own; the row is always there.
WriteSurface(r) ==
    LET a == request[r].ask  s == surface[a.env]
        value == IF a.on THEN "reels" ELSE "feed"
        next == [value |-> value, revision |-> s.revision + 1] IN
    /\ request[r].at = "locked" /\ a.kind = "surface"
    /\ IF s.revision # request[r].expected
       THEN Place(r, "reloading") /\ UNCHANGED <<surface, audits, moved, held>>
       ELSE IF s.value = value
       THEN Place(r, "done") /\ UNCHANGED <<surface, audits, moved, held>>
       ELSE /\ s.revision < MaxRevision
            /\ surface' = [surface EXCEPT ![a.env] = next]
            /\ audits' = audits \cup {Audit("surface", a.env, s.revision, next.revision)}
            /\ moved' = moved + 1
            /\ held' = [held EXCEPT ![Serving[r]].surface[a.env] = next]
            /\ Place(r, "done")
    /\ UNCHANGED <<global, policy, anchor, completed, owners, sequence, today>>

-----------------------------------------------------------------------------
(* The write of the global policy.                                         *)

\* What the statement that marks sees when it begins; now() is the beginning of
\* the transaction.
DueAt(days, day) == {e \in Envs : anchor[e] # None /\ day - anchor[e] >= days}
\* Whom it then inserts: one that is marked is passed over, one that is locked
\* is waited for, and inserted whatever became of its slow start.
Unmarked(S) == {e \in S : ~completed[e]}

\* The row is locked and compared; who is due is seen, with the revision of the
\* policy at that time (history).
\* Faulty variant: graduation is not recorded before the days are replaced.
LockGlobalUnmarked(r) ==
    /\ request[r].at = "waiting" /\ request[r].ask.kind = "global"
    /\ ~GlobalLocked
    /\ IF global.revision # request[r].expected
       THEN Place(r, "reloading")
       ELSE LET due == DueAt(global.days, request[r].day) IN
            request' = [request EXCEPT ![r].at = "marking", ![r].due = [e \in due |-> policy[e].revision]]
    /\ UNCHANGED <<tables, owners, sequence, today, held>>
LockGlobal(r) ==
    /\ request[r].at = "waiting" /\ request[r].ask.kind = "global"
    /\ ~GlobalLocked
    /\ IF global.revision # request[r].expected
       THEN Place(r, "reloading")
       ELSE LET due == DueAt(global.days, request[r].day) IN
            request' = [request EXCEPT ![r].at = "graduating", ![r].due = [e \in due |-> policy[e].revision]]
    /\ UNCHANGED <<tables, owners, sequence, today, held>>

\* Who graduated under the old days is marked.
MarkGraduated(r) ==
    LET marks == Unmarked(DOMAIN request[r].due) IN
    /\ request[r].at = "graduating"
    /\ \A e \in marks : ~EnvLocked(e)
    /\ request' = [request EXCEPT ![r].at = "marking", ![r].marks = marks]
    /\ UNCHANGED <<tables, owners, sequence, today, held>>

\* When the cadence changes, the rows that inherit it are locked, each is given
\* the cadence and the next number of the sequence.
Numberings(S, last) ==
    {f \in [S -> (last + 1)..(last + Cardinality(S))] : \A d, e \in S : f[d] = f[e] => d = e}
LockInheriting(r) ==
    LET inheriting == {e \in Envs : /\ request[r].ask.cadence # global.cadence
                                    /\ policy[e].revision > 0 /\ policy[e].source = "global"}
    IN
    /\ request[r].at = "marking"
    /\ \A e \in inheriting : ~PolicyLocked(e)
    /\ sequence + Cardinality(inheriting) <= MaxRevision
    /\ sequence' = sequence + Cardinality(inheriting)
    /\ \E rows \in Numberings(inheriting, sequence) :
          request' = [request EXCEPT ![r].at = "spreading", ![r].rows = rows]
    /\ UNCHANGED <<tables, owners, today, held>>

\* Whom shorter days graduate is marked in the same transaction: it is seen, and
SeeShorter(r) ==
    /\ request[r].at = "spreading"
    /\ request' = [request EXCEPT ![r].at = "shortening",
                     ![r].shorter = DueAt(request[r].ask.day, request[r].day)]
    /\ UNCHANGED <<tables, owners, sequence, today, held>>
\* inserted, when nobody holds it any more.
CommitGlobal(r) ==
    LET a == request[r].ask
        rows == request[r].rows
    IN
    /\ request[r].at = "shortening"
    /\ \A e \in Unmarked(request[r].shorter) \ request[r].marks : ~EnvLocked(e)
    /\ global.revision < MaxRevision
    /\ global' = [cadence |-> a.cadence, days |-> a.day, revision |-> global.revision + 1]
    /\ policy' = [e \in Envs |-> IF e \in DOMAIN rows
                                 THEN [policy[e] EXCEPT !.cadence = a.cadence, !.revision = rows[e]]
                                 ELSE policy[e]]
    /\ completed' = [e \in Envs |-> completed[e] \/ e \in request[r].shorter \cup request[r].marks]
    /\ audits' = audits \cup {Audit("global", None, global.revision, global.revision + 1)}
                        \cup {Audit("policy", e, policy[e].revision, rows[e]) : e \in DOMAIN rows}
    /\ moved' = moved + 1
    /\ Place(r, "reloading")
    /\ UNCHANGED <<anchor, surface, owners, sequence, today, held>>

\* An environment's write waits for a row the global write holds, and the global
\* write waits for that environment: the database ends one of them, which rolls back.
Entangled(g, r) ==
    /\ request[g].at = "shortening" /\ request[r].at = "locked"
    /\ request[r].ask.env \in DOMAIN request[g].rows
    /\ request[r].ask.env \in Unmarked(request[g].shorter)
EndOneOf(g, r) ==
    /\ Entangled(g, r)
    /\ \E victim \in {g, r} : Place(victim, "done")
    /\ UNCHANGED <<tables, owners, sequence, today, held>>

-----------------------------------------------------------------------------
(* Reloads, other writers, time.                                           *)

\* After a conflict and after a global write; and when the refresher's round comes.
FromTables == [global |-> global, surface |-> surface,
               policy |-> [e \in Envs |-> Current(e, global)]]
Reload(r) ==
    /\ request[r].at = "reloading"
    /\ held' = [held EXCEPT ![Serving[r]] = FromTables]
    /\ Place(r, "done")
    /\ UNCHANGED <<tables, owners, sequence, today>>
RefreshFromAuthority(p) ==
    /\ held' = [held EXCEPT ![p] = FromTables]
    /\ UNCHANGED <<tables, owners, sequence, today, request>>

\* The older switch of the slow start writes the anchor alone.
SetEnvironmentSlowStart(e, on) ==
    /\ ~EnvLocked(e)
    /\ anchor' = [anchor EXCEPT ![e] = IF ~on THEN None
                                       ELSE IF completed[e] \/ @ = None THEN today ELSE @]
    /\ completed' = [completed EXCEPT ![e] = @ /\ ~on]
    /\ UNCHANGED <<global, policy, surface, moved, audits, owners, sequence, today, held, request>>

\* Scopes are written under the environment's lock.
SetOwners(e, S) ==
    /\ ~EnvLocked(e)
    /\ owners' = [owners EXCEPT ![e] = S]
    /\ UNCHANGED <<tables, sequence, today, held, request>>

DayPasses ==
    /\ today < LastDay
    /\ today' = today + 1
    /\ UNCHANGED <<tables, owners, sequence, held, request>>

\* A request ends at any statement that fails; what it has not committed is undone.
Fails(r) ==
    /\ request[r].at \in {"writing", "graduating", "marking", "spreading", "shortening"}
    /\ Place(r, "done")
    /\ UNCHANGED <<tables, owners, sequence, today, held>>

PolicyInit ==
    /\ global = [cadence |-> Initial, days |-> 2, revision |-> 1]
    /\ \E made \in SUBSET Envs :
          /\ policy = [e \in Envs |-> IF e \in made THEN [Fallback(e, global) EXCEPT !.revision = 1]
                                      ELSE Fallback(e, global)]
          /\ audits = {Audit("policy", e, 0, 1) : e \in made}
    /\ anchor \in [Envs -> {None, -1}]
    /\ completed = [e \in Envs |-> FALSE]
    /\ surface = [e \in Envs |-> [value |-> "feed", revision |-> 1]]
    /\ owners \in [Envs -> {{u} : u \in Users}]
    /\ sequence = 1 /\ today = 0 /\ moved = 0
    /\ held = [p \in Processes |-> [global |-> global, policy |-> policy, surface |-> surface]]
    /\ request = [r \in Requests |-> NoRequest]

OfEnvironment(r) ==
    \/ LockEnvironment(r) \/ ReadPolicy(r) \/ Answer(r) \/ CommitPolicy(r) \/ Remember(r)
    \/ WriteSurface(r)
OfGlobal(r) ==
    LockGlobal(r) \/ MarkGraduated(r) \/ LockInheriting(r) \/ SeeShorter(r) \/ CommitGlobal(r)
PolicyNext ==
    \/ \E r \in Requests : \/ \E a \in Asks, p \in Processes : Send(r, a, p)
                           \/ Refuse(r) \/ Fails(r) \/ Reload(r) \/ OfEnvironment(r) \/ OfGlobal(r)
    \/ \E g, r \in Requests : EndOneOf(g, r)
    \/ \E p \in Processes : RefreshFromAuthority(p)
    \/ \E e \in Envs, on \in BOOLEAN : SetEnvironmentSlowStart(e, on)
    \/ \E e \in Envs, S \in SUBSET Users : SetOwners(e, S)
    \/ DayPasses
PolicySpec == PolicyInit /\ [][PolicyNext]_polVars

-----------------------------------------------------------------------------
(* Properties.                                                             *)

PolicyTypeOK ==
    /\ global \in Global /\ policy \in [Envs -> Policy] /\ surface \in [Envs -> Surface]
    /\ anchor \in [Envs -> Int \cup {None}] /\ completed \in [Envs -> BOOLEAN]
    /\ owners \in [Envs -> SUBSET Users] /\ held \in [Processes -> Held]
    /\ sequence \in 0..MaxRevision /\ today \in 0..LastDay /\ moved \in Nat

\* The audits of one policy follow each other from its beginning to the revision
\* it has: no write was made on another than the one it read, and none is untold
\* (the rows of facebook_operation_policy_audit, with the locks they rely on).
Follow(S, first, last) ==
    /\ \A t \in S : t.prior < t.new /\ (t.prior = first \/ \E s \in S : s.new = t.prior)
    /\ \A s, t \in S : s.prior = t.prior => s = t
    /\ IF S = {} THEN last = first ELSE \E t \in S : t.new = last
Told(table, e) == {t \in audits : t.table = table /\ t.env = e}
AuditsInARow ==
    /\ Follow(Told("global", None), 1, global.revision)
    /\ \A e \in Envs : /\ Follow(Told("policy", e), 0, policy[e].revision)
                       /\ Follow(Told("surface", e), 1, surface[e].revision)

\* A customer's write is committed only while the environment is that customer's,
\* whatever was assigned elsewhere while it waited (environmentOwnedBy).
OwnedWhenWritten ==
    [][\A r \in Requests :
          request[r].at = "writing" /\ request'[r].at = "committed" /\ request[r].ask.user # None
          => request[r].ask.user \in owners[request[r].ask.env]]_polVars

\* Whoever had graduated when a global write began, and is due still, has its
\* completion on record when it commits, unless somebody wrote its own policy
\* meanwhile: longer days do not take the graduation back (markGraduatedInTx).
GraduationStays ==
    [][\A r \in Requests : request[r].at = "shortening" /\ global'.revision > global.revision =>
          \A e \in DOMAIN request[r].due :
             /\ policy[e].revision = request[r].due[e]
             /\ anchor[e] # None /\ request[r].day - anchor[e] >= global.days
             => completed'[e]]_polVars

\* What the snapshot of the policies is made of does not change without a new
\* version: consumers refuse another content at a version they have (bumpInTx).
ContentMovesVersion ==
    [][policy' # policy \/ surface' # surface \/ global' # global => moved' > moved]_polVars
=============================================================================
