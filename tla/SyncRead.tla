------------------------------ MODULE SyncRead ------------------------------
(***************************************************************************)
(* The snapshots this service and the automation service read of each      *)
(* other (api-sync-read-source.ts, api-sync-read-checkpoint-store.ts).     *)
(*                                                                         *)
(* A snapshot is a value with a cursor; the cursor is made of the recorded *)
(* versions of the mirrors the value shows.  The reader keeps the value of *)
(* the highest cursor, does not ask again while the cursor stays, and      *)
(* refuses another value under a cursor it has.  So the value must not be  *)
(* older than its cursor, and one cursor must mean one value.              *)
(*                                                                         *)
(* Three ways of reading:                                                  *)
(*   rows      - versions and rows in one REPEATABLE READ transaction:     *)
(*               persona_config, hot_lead_config and the other streams of  *)
(*               one mirror, and the environments, whose cursor pairs two  *)
(*               versions;                                                 *)
(*   policy    - the version first, then the store is made to reload and   *)
(*               its copy is sent;                                         *)
(*   schedule  - versions and rows in one transaction, and beside them the *)
(*               group comment policy, from the process's copy as it is.   *)
(*                                                                         *)
(* The other way round, this service keeps a checkpoint for every stream   *)
(* of the automation service, one row several of its processes write.      *)
(*                                                                         *)
(* A content is the number of writes that led to it.  The accounts' roster *)
(* is in Accounts.  The mirrors of the streams this service consumes and   *)
(* the rules of applying a snapshot are in a library, not here.            *)
(***************************************************************************)
EXTENDS Integers, FiniteSets

CONSTANTS
  Hosts,         \* API processes at one database
  Pulls,         \* requests for a snapshot under way
  Writes,        \* writers of the checkpoint under way
  Absent,        \* no checkpoint, no cursor
  MaxContent,    \* bound on the writes of each content
  MaxCursor      \* bound on the cursors of a consumed stream

VARIABLES
  content,       \* key -> writes so far; the rows
  mirror,        \* key -> config_mirror_version
  groupCopy,     \* host -> its copy of the group comment policy
  pull,          \* what each request is doing
  sent,          \* history: the snapshots sent
  checkpoint,    \* api_sync_read_consumer_checkpoint, of one stream
  storing        \* what each writer of it is doing

syncVars == <<content, mirror, groupCopy, pull, sent, checkpoint, storing>>

(* Contents that are written and recorded apart; the schedule's version     *)
(* also records the group comment policy.                                   *)
Keys == {"plain", "gate", "slow_start", "schedule", "group", "policy"}
Mirrors == Keys \ {"group"}
MirrorOf(k) == IF k = "group" THEN "schedule" ELSE k
RowStreams == {"plain", "environments"}
Streams == RowStreams \cup {"policy", "schedule"}
Quiet == [at |-> "quiet"]
Digests == {"d1", "d2"}
(* When it was observed stands also for how long it is fresh. *)
Checkpoints == [cursor : (1..MaxCursor) \cup {Absent}, digest : Digests, asOf : 0..1, observed : 0..1, applied : 0..1]

ASSUME SyncAssumption == MaxContent \in Nat /\ MaxCursor \in Nat /\ Absent \notin Checkpoints

SyncTypeOK ==
  /\ content \in [Keys -> 0..MaxContent]
  /\ \A m \in Mirrors : mirror[m] \in 0..(2 * MaxContent)
  /\ groupCopy \in [Hosts -> 0..MaxContent]
  /\ \A p \in Pulls : pull[p].at \in {"quiet", "copy", "reload"}
  /\ \A x \in sent : x.stream \in Streams /\ x.cursor \in Nat
  /\ checkpoint \in Checkpoints \cup {Absent}
  /\ \A w \in Writes : storing[w] = Quiet \/ storing[w].gave \in Checkpoints

SyncInit ==
  /\ content = [k \in Keys |-> 0]
  /\ mirror = [m \in Mirrors |-> 0]
  /\ groupCopy = [h \in Hosts |-> 0]
  /\ pull = [p \in Pulls |-> Quiet]
  /\ sent = {}
  /\ checkpoint = Absent
  /\ storing = [w \in Writes |-> Quiet]

-----------------------------------------------------------------------------
(* Writes.  Content and version are one transaction. *)

WriteUnrecorded(k) ==                                    \* faulty variant: no version recorder is wired
  /\ content[k] < MaxContent
  /\ content' = [content EXCEPT ![k] = @ + 1]
  /\ UNCHANGED <<mirror, groupCopy, pull, sent, checkpoint, storing>>
Write(k) ==
  /\ content[k] < MaxContent
  /\ content' = [content EXCEPT ![k] = @ + 1]
  /\ mirror' = [mirror EXCEPT ![MirrorOf(k)] = @ + 1]
  /\ UNCHANGED <<groupCopy, pull, sent, checkpoint, storing>>

(* The host that wrote the group comment policy takes the row over after    *)
(* the commit; any host does when a round of its refresher reloads.         *)
TakeGroupPolicy(h) ==
  /\ groupCopy[h] # content["group"]
  /\ groupCopy' = [groupCopy EXCEPT ![h] = content["group"]]
  /\ UNCHANGED <<content, mirror, pull, sent, checkpoint, storing>>

-----------------------------------------------------------------------------
(* Cursors. *)

Cantor(left, right) == ((left + right) * (left + right + 1)) \div 2 + right
VersionCursor(s) ==
  CASE s = "environments" -> Cantor(Cantor(0, mirror["gate"]), mirror["slow_start"])
    [] OTHER -> Cantor(0, mirror[s])

-----------------------------------------------------------------------------
(* Snapshots. *)

Deliver(s, cursor, value) == sent' = sent \cup {[stream |-> s, cursor |-> cursor, value |-> value]}

ValueOf(s) ==
  CASE s = "environments" -> <<content["gate"], content["slow_start"]>>
    [] OTHER -> <<content[s]>>

PullRows(s) ==
  /\ s \in RowStreams
  /\ Deliver(s, VersionCursor(s), ValueOf(s))
  /\ UNCHANGED <<content, mirror, groupCopy, pull, checkpoint, storing>>

PullPolicyAfter(p) ==                                    \* faulty variant: the store first, then the version
  \/ /\ pull[p] = Quiet
     /\ pull' = [pull EXCEPT ![p] = [at |-> "reload", cursor |-> content["policy"]]]
     /\ UNCHANGED <<content, mirror, groupCopy, sent, checkpoint, storing>>
  \/ /\ pull[p].at = "reload"
     /\ Deliver("policy", VersionCursor("policy"), <<pull[p].cursor>>)
     /\ pull' = [pull EXCEPT ![p] = Quiet]
     /\ UNCHANGED <<content, mirror, groupCopy, checkpoint, storing>>
PullPolicy(p) ==
  \/ /\ pull[p] = Quiet
     /\ pull' = [pull EXCEPT ![p] = [at |-> "reload", cursor |-> VersionCursor("policy")]]
     /\ UNCHANGED <<content, mirror, groupCopy, sent, checkpoint, storing>>
  \/ /\ pull[p].at = "reload"
     /\ Deliver("policy", pull[p].cursor, <<content["policy"]>>)
     /\ pull' = [pull EXCEPT ![p] = Quiet]
     /\ UNCHANGED <<content, mirror, groupCopy, checkpoint, storing>>

(* The rows are read before the copy is looked at. *)
PullSchedule(p, h) ==
  \/ /\ pull[p] = Quiet
     /\ pull' = [pull EXCEPT ![p] = [at |-> "copy", host |-> h, cursor |-> VersionCursor("schedule"), rows |-> content["schedule"]]]
     /\ UNCHANGED <<content, mirror, groupCopy, sent, checkpoint, storing>>
  \/ /\ pull[p].at = "copy" /\ pull[p].host = h
     /\ Deliver("schedule", pull[p].cursor, <<pull[p].rows, groupCopy[h]>>)
     /\ pull' = [pull EXCEPT ![p] = Quiet]
     /\ UNCHANGED <<content, mirror, groupCopy, checkpoint, storing>>

-----------------------------------------------------------------------------
(* The checkpoint of a consumed stream: one conditional upsert, and when it *)
(* writes nothing a second statement that reads the row.                    *)

SameSnapshot(new, old) ==
  /\ new.cursor = old.cursor /\ new.digest = old.digest
  /\ new.applied = old.applied
  /\ \/ new.asOf > old.asOf /\ new.observed >= old.observed
     \/ new.asOf = old.asOf /\ new.observed = old.observed

ReplacesByNull(new, old) ==                              \* faulty variant: a failed round clears the cursor
  \/ old.cursor = Absent
  \/ new.cursor = Absent \/ new.cursor > old.cursor \/ SameSnapshot(new, old)
ReplacesDrifted(new, old) ==                             \* faulty variant: the digest is not compared
  \/ old.cursor = Absent
  \/ new.cursor # Absent /\ new.cursor >= old.cursor
Replaces(new, old) ==
  \/ old.cursor = Absent
  \/ new.cursor # Absent /\ (new.cursor > old.cursor \/ SameSnapshot(new, old))

Store(w, new) ==
  /\ storing[w] = Quiet
  /\ IF checkpoint = Absent \/ Replaces(new, checkpoint)
     THEN /\ checkpoint' = new
          /\ storing' = storing
     ELSE /\ storing' = [storing EXCEPT ![w] = [at |-> "load", gave |-> new]]
          /\ checkpoint' = checkpoint
  /\ UNCHANGED <<content, mirror, groupCopy, pull, sent>>

(* The answer of a miss is the row as it is by then. *)
LoadCurrent(w) ==
  /\ storing[w] # Quiet
  /\ storing' = [storing EXCEPT ![w] = Quiet]
  /\ UNCHANGED <<content, mirror, groupCopy, pull, sent, checkpoint>>

-----------------------------------------------------------------------------
Sending ==
  \/ \E k \in Keys : Write(k)
  \/ \E h \in Hosts : TakeGroupPolicy(h)
  \/ \E s \in RowStreams : PullRows(s)
  \/ \E p \in Pulls : PullPolicy(p) \/ \E h \in Hosts : PullSchedule(p, h)

Consuming == \E w \in Writes : (\E new \in Checkpoints : Store(w, new)) \/ LoadCurrent(w)

SyncNext == Sending \/ Consuming
SyncSpec == SyncInit /\ [][SyncNext]_syncVars

-----------------------------------------------------------------------------
(* Properties. *)

\* What is read in one transaction has one value per cursor, also when the
\* cursor pairs two versions (versionCursor, cantor).
CursorNamesOneValue ==
  \A x, y \in sent : x.stream = y.stream /\ x.stream \in RowStreams /\ x.cursor = y.cursor => x.value = y.value

\* Nobody is sent an operation policy older than its cursor, which he would
\* keep for as long as nothing is written (api-sync-read-source.ts:436-439).
PolicyNotOlder ==
  \A x \in sent : x.stream = "policy" => x.cursor <= Cantor(0, x.value[1])

\* A writer whose checkpoint is not stored finds, whenever it comes to look,
\* one that is no older than its own, whoever has written in between.
RefusedByYounger ==
  \A w \in Writes : storing[w] # Quiet /\ storing[w].gave.cursor # Absent =>
    checkpoint.cursor # Absent /\ checkpoint.cursor >= storing[w].gave.cursor

\* The stored cursor never goes back, and what it stands for never changes.
CheckpointAdvances ==
  [][checkpoint # Absent /\ checkpoint.cursor # Absent =>
       /\ checkpoint'.cursor # Absent /\ checkpoint'.cursor >= checkpoint.cursor
       /\ checkpoint'.cursor = checkpoint.cursor =>
            checkpoint'.digest = checkpoint.digest /\ checkpoint'.asOf >= checkpoint.asOf]_checkpoint

\* The same for the schedule, group comment policy and all, as
\* api-sync-read-source.ts:108 and server.ts:1335 ask of every stream.
CursorNamesOneSchedule ==
  \A x, y \in sent : x.stream = "schedule" /\ y.stream = "schedule" /\ x.cursor = y.cursor => x.value = y.value
=============================================================================
