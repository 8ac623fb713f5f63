----------------------------- MODULE ConsoleProofs -----------------------------
(* What is proved of the parts of the console: what was sent under one cursor  *)
(* is one content and consumers only move forward (SyncRead); edits of several *)
(* editors of the reply configuration add up and versions are never changed    *)
(* (ReplyConfig); the doors answer what was done and overwrite nobody          *)
(* (ConsoleApi); the audits of the operation policy tell every change in order *)
(* whoever holds which locks (FacebookOperationPolicy).  Of the environments   *)
(* taken away from customers, OffboardAdmissionProofs has the proofs.          *)
EXTENDS Console, OffboardAdmissionProofs


-----------------------------------------------------------------------------
(* Snapshots.                                                                  *)

PullState ==
  {Quiet} \cup [at : {"reload"}, cursor : Nat]
          \cup [at : {"copy"}, host : Hosts, cursor : Nat, rows : 0..MaxContent]
StoringState == {Quiet} \cup [at : {"load"}, gave : Checkpoints]

SyncTyped ==
  /\ content \in [Keys -> 0..MaxContent] /\ mirror \in [Mirrors -> Nat]
  /\ groupCopy \in [Hosts -> 0..MaxContent]
  /\ pull \in [Pulls -> PullState] /\ storing \in [Writes -> StoringState]
  /\ checkpoint \in Checkpoints \cup {Absent}

(* Every write has been recorded, once.                                        *)
Recorded ==
  \A m \in Mirrors : mirror[m] = IF m = "schedule" THEN content[m] + content["group"] ELSE content[m]

(* What is under a cursor: of rows the content it was made of, of the policy   *)
(* nothing older.                                                              *)
Meant(x) ==
  /\ x.stream \in Streams /\ x.cursor \in Nat
  /\ x.stream = "plain" => \E n \in Nat : x.cursor = Cantor(0, n) /\ x.value = <<n>>
  /\ x.stream = "environments" =>
       \E gate, slow \in Nat : x.cursor = Cantor(Cantor(0, gate), slow) /\ x.value = <<gate, slow>>
  /\ x.stream = "policy" => x.cursor <= Cantor(0, x.value[1])
SentIsMeant == \A x \in sent : Meant(x)
PolicyAwaited == \A p \in Pulls : pull[p].at = "reload" => pull[p].cursor <= Cantor(0, content["policy"])

RefusedByOne == \A w \in Writes : storing[w] # Quiet => checkpoint # Absent

Snapshots == SyncTyped /\ Recorded /\ SentIsMeant /\ PolicyAwaited /\ RefusedByYounger /\ RefusedByOne

-----------------------------------------------------------------------------
(* The pairing of versions.                                                    *)
Triangle(n) == (n * (n + 1)) \div 2

LEMMA HalfGrows ==
  ASSUME NEW p \in Int, NEW q \in Int, NEW d \in Int, q >= p + 2 * d
  PROVE  p \div 2 \in Int /\ q \div 2 \in Int /\ q \div 2 >= p \div 2 + d
OBVIOUS

LEMMA ProductGrows ==
  ASSUME NEW n \in Nat, NEW m \in Nat, n < m
  PROVE  m * (m + 1) >= n * (n + 1) + 2 * (n + 1)
<1>1. PICK k \in Nat : m = n + 1 + k
  <2>1. m - (n + 1) \in Nat /\ m = n + 1 + (m - (n + 1))
    OBVIOUS
  <2> QED BY <2>1
<1>2. (n + 1 + k) * (n + 1 + k + 1) = n * (n + 1) + 2 * (n + 1) + k * (n + 1) + k * (n + 2) + k * k
  OBVIOUS
<1>3. k * (n + 1) \in Nat /\ k * (n + 2) \in Nat /\ k * k \in Nat /\ n * (n + 1) \in Nat
  OBVIOUS
<1> QED BY <1>1, <1>2, <1>3

LEMMA TriangleGrows ==
  ASSUME NEW n \in Nat, NEW m \in Nat, n < m
  PROVE  Triangle(n) \in Int /\ Triangle(m) \in Int /\ Triangle(m) >= Triangle(n) + n + 1
<1>1. PICK p \in Int : p = n * (n + 1)
  OBVIOUS
<1>2. PICK q \in Int : q = m * (m + 1)
  OBVIOUS
<1>3. q >= p + 2 * (n + 1)
  BY <1>1, <1>2, ProductGrows
<1>4. p \div 2 \in Int /\ q \div 2 \in Int /\ q \div 2 >= p \div 2 + (n + 1)
  BY <1>3, HalfGrows
<1> QED BY <1>1, <1>2, <1>4 DEF Triangle

LEMMA TriangleNat ==
  ASSUME NEW n \in Nat
  PROVE  Triangle(n) \in Nat
<1>1. PICK p \in Nat : p = n * (n + 1)
  OBVIOUS
<1>2. p \div 2 \in Nat
  OBVIOUS
<1> QED BY <1>1, <1>2 DEF Triangle

LEMMA CantorIs ==
  ASSUME NEW a \in Nat, NEW b \in Nat
  PROVE  Cantor(a, b) = Triangle(a + b) + b /\ Cantor(a, b) \in Nat
<1>1. Cantor(a, b) = Triangle(a + b) + b
  BY DEF Cantor, Triangle
<1>2. Triangle(a + b) \in Nat
  BY TriangleNat
<1> QED BY <1>1, <1>2

LEMMA CantorNamesOnePair ==
  ASSUME NEW a \in Nat, NEW b \in Nat, NEW c \in Nat, NEW d \in Nat, Cantor(a, b) = Cantor(c, d)
  PROVE  a = c /\ b = d
<1>1. PICK n \in Nat : n = a + b
  OBVIOUS
<1>2. PICK m \in Nat : m = c + d
  OBVIOUS
<1>3. Triangle(n) + b = Triangle(m) + d /\ Triangle(n) \in Nat /\ Triangle(m) \in Nat
  BY <1>1, <1>2, CantorIs, TriangleNat
<1>4. ~(n < m)
  BY <1>1, <1>3, TriangleGrows
<1>5. ~(m < n)
  BY <1>2, <1>3, TriangleGrows
<1>6. n = m
  BY <1>4, <1>5
<1> QED BY <1>1, <1>2, <1>3, <1>6

LEMMA CantorGrows ==
  ASSUME NEW b \in Nat, NEW d \in Nat, b <= d
  PROVE  Cantor(0, b) <= Cantor(0, d)
<1>1. Cantor(0, b) = Triangle(b) + b /\ Cantor(0, d) = Triangle(d) + d /\ Triangle(b) \in Nat /\ Triangle(d) \in Nat
  BY CantorIs, TriangleNat
<1>2. CASE b = d
  BY <1>1, <1>2
<1>3. CASE b < d
  BY <1>1, <1>3, TriangleGrows
<1> QED BY <1>2, <1>3

-----------------------------------------------------------------------------
(* The states of a request and of a writer of the checkpoint.                  *)
LEMMA PullStates ==
  /\ Quiet \in PullState
  /\ \A c \in Nat : [at |-> "reload", cursor |-> c] \in PullState
  /\ \A h \in Hosts : \A c \in Nat : \A n \in 0..MaxContent :
       [at |-> "copy", host |-> h, cursor |-> c, rows |-> n] \in PullState
  /\ \A x \in PullState : /\ x.at \in {"quiet", "copy", "reload"}
                          /\ x.at # "quiet" => x.cursor \in Nat
                          /\ x.at = "quiet" => x = Quiet
BY DEF PullState, Quiet

LEMMA StoringStates ==
  /\ Quiet \in StoringState
  /\ \A new \in Checkpoints : [at |-> "load", gave |-> new] \in StoringState
  /\ \A x \in StoringState : x # Quiet => x.gave \in Checkpoints
BY DEF StoringState, Quiet

LEMMA CursorOf ==
  ASSUME SyncTyped, Recorded
  PROVE  /\ VersionCursor("plain") = Cantor(0, content["plain"])
         /\ VersionCursor("environments") = Cantor(Cantor(0, content["gate"]), content["slow_start"])
         /\ VersionCursor("policy") = Cantor(0, content["policy"])
         /\ VersionCursor("schedule") \in Nat
         /\ \A k \in Keys : content[k] \in 0..MaxContent /\ content[k] \in Nat
<1>1. \A k \in Keys : content[k] \in 0..MaxContent /\ content[k] \in Nat
  BY SyncAssumption DEF SyncTyped
<1>2. /\ mirror["plain"] = content["plain"] /\ mirror["gate"] = content["gate"]
      /\ mirror["slow_start"] = content["slow_start"] /\ mirror["policy"] = content["policy"]
  BY DEF Recorded, Mirrors, Keys
<1>3. mirror["schedule"] \in Nat
  BY DEF SyncTyped, Mirrors, Keys
<1>4. VersionCursor("schedule") \in Nat
  BY <1>3, CantorIs DEF VersionCursor
<1> QED BY <1>1, <1>2, <1>4 DEF VersionCursor

LEMMA SnapshotsStart == SyncInit => Snapshots
<1> SUFFICES ASSUME SyncInit PROVE Snapshots
  OBVIOUS
<1>1. SyncTyped
  BY PullStates, StoringStates, SyncAssumption DEF SyncInit, SyncTyped
<1>2. Recorded
  BY DEF SyncInit, Recorded, Mirrors, Keys
<1>3. SentIsMeant
  BY DEF SyncInit, SentIsMeant
<1>4. PolicyAwaited
  BY DEF SyncInit, PolicyAwaited, Quiet
<1>5. RefusedByYounger /\ RefusedByOne
  BY DEF SyncInit, RefusedByYounger, RefusedByOne
<1> QED BY <1>1, <1>2, <1>3, <1>4, <1>5 DEF Snapshots

LEMMA WriteKeeps ==
  ASSUME Snapshots, NEW k \in Keys, Write(k)
  PROVE  Snapshots'
<1>0. /\ content \in [Keys -> 0..MaxContent] /\ mirror \in [Mirrors -> Nat] /\ content[k] \in 0..MaxContent
      /\ MaxContent \in Nat /\ MirrorOf(k) \in Mirrors
  BY SyncAssumption DEF Snapshots, SyncTyped, MirrorOf, Mirrors, Keys
<1>1. /\ content[k] < MaxContent /\ content' = [content EXCEPT ![k] = content[k] + 1]
      /\ mirror' = [mirror EXCEPT ![MirrorOf(k)] = mirror[MirrorOf(k)] + 1]
      /\ UNCHANGED <<groupCopy, pull, sent, checkpoint, storing>>
  BY DEF Write
<1>2. content' \in [Keys -> 0..MaxContent] /\ content'[k] = content[k] + 1 /\ \A j \in Keys : j # k => content'[j] = content[j]
  BY <1>0, <1>1
<1>3. /\ mirror' \in [Mirrors -> Nat] /\ mirror'[MirrorOf(k)] = mirror[MirrorOf(k)] + 1
      /\ \A m \in Mirrors : m # MirrorOf(k) => mirror'[m] = mirror[m]
  BY <1>0, <1>1
<1>4. SyncTyped'
  BY <1>1, <1>2, <1>3 DEF Snapshots, SyncTyped
<1>5. Recorded'
  <2> SUFFICES ASSUME NEW m \in Mirrors
               PROVE  mirror'[m] = IF m = "schedule" THEN content'[m] + content'["group"] ELSE content'[m]
    BY DEF Recorded
  <2>1. mirror[m] = IF m = "schedule" THEN content[m] + content["group"] ELSE content[m]
    BY DEF Snapshots, Recorded
  <2>2. m \in Keys /\ m # "group" /\ "group" \in Keys /\ "schedule" \in Keys
    BY DEF Mirrors, Keys
  <2>3. content[m] \in Int /\ content["group"] \in Int
    BY <1>0, <2>2
  <2>4. CASE k = "group"
    <3>1. MirrorOf(k) = "schedule"
      BY <2>4 DEF MirrorOf
    <3> QED BY <1>2, <1>3, <2>1, <2>2, <2>3, <2>4, <3>1
  <2>5. CASE k # "group"
    <3>1. MirrorOf(k) = k
      BY <2>5 DEF MirrorOf
    <3> QED BY <1>2, <1>3, <2>1, <2>2, <2>3, <2>5, <3>1
  <2> QED BY <2>4, <2>5
<1>6. SentIsMeant' /\ RefusedByYounger' /\ RefusedByOne'
  BY <1>1 DEF Snapshots, SentIsMeant, Meant, RefusedByYounger, RefusedByOne
<1>7. PolicyAwaited'
  <2> SUFFICES ASSUME NEW p \in Pulls, pull[p].at = "reload"
               PROVE  pull[p].cursor <= Cantor(0, content'["policy"])
    BY <1>1 DEF PolicyAwaited
  <2>1. pull[p].cursor <= Cantor(0, content["policy"]) /\ pull[p].cursor \in Nat
    BY PullStates DEF Snapshots, SyncTyped, PolicyAwaited
  <2>2. content["policy"] \in Nat /\ content'["policy"] \in Nat /\ content["policy"] <= content'["policy"]
    BY <1>0, <1>2 DEF Keys
  <2>3. Cantor(0, content["policy"]) <= Cantor(0, content'["policy"])
    BY <2>2, CantorGrows
  <2>4. Cantor(0, content["policy"]) \in Nat /\ Cantor(0, content'["policy"]) \in Nat
    BY <2>2, CantorIs
  <2> QED BY <2>1, <2>3, <2>4
<1> QED BY <1>4, <1>5, <1>6, <1>7 DEF Snapshots

LEMMA TakeGroupPolicyKeeps ==
  ASSUME Snapshots, NEW h \in Hosts, TakeGroupPolicy(h)
  PROVE  Snapshots'
<1>1. /\ groupCopy' = [groupCopy EXCEPT ![h] = content["group"]]
      /\ UNCHANGED <<content, mirror, pull, sent, checkpoint, storing>>
  BY DEF TakeGroupPolicy
<1>2. SyncTyped'
  BY <1>1 DEF Snapshots, SyncTyped, Keys
<1>3. Recorded' /\ SentIsMeant' /\ PolicyAwaited' /\ RefusedByYounger' /\ RefusedByOne'
  BY <1>1 DEF Snapshots, Recorded, SentIsMeant, Meant, PolicyAwaited, RefusedByYounger, RefusedByOne
<1> QED BY <1>2, <1>3 DEF Snapshots

(* What is sent is meant if the new snapshot is.                               *)
LEMMA Delivered ==
  ASSUME Snapshots, NEW s, NEW c, NEW v, Deliver(s, c, v), Meant([stream |-> s, cursor |-> c, value |-> v]),
         pull' \in [Pulls -> PullState], \A p \in Pulls : pull'[p] = pull[p] \/ pull'[p] = Quiet,
         UNCHANGED <<content, mirror, groupCopy, checkpoint, storing>>
  PROVE  Snapshots'
<1>1. SyncTyped'
  BY DEF Snapshots, SyncTyped
<1>2. Recorded' /\ RefusedByYounger' /\ RefusedByOne'
  BY DEF Snapshots, Recorded, RefusedByYounger, RefusedByOne
<1>3. SentIsMeant'
  BY DEF Snapshots, SentIsMeant, Deliver, Meant
<1>4. PolicyAwaited'
  BY DEF Snapshots, PolicyAwaited, Quiet
<1> QED BY <1>1, <1>2, <1>3, <1>4 DEF Snapshots

LEMMA PullRowsKeeps ==
  ASSUME Snapshots, NEW s \in RowStreams, PullRows(s)
  PROVE  Snapshots'
<1>1. /\ Deliver(s, VersionCursor(s), ValueOf(s))
      /\ UNCHANGED <<content, mirror, groupCopy, pull, checkpoint, storing>>
  BY DEF PullRows
<1>2. /\ VersionCursor("plain") = Cantor(0, content["plain"])
      /\ VersionCursor("environments") = Cantor(Cantor(0, content["gate"]), content["slow_start"])
      /\ content["plain"] \in Nat /\ content["gate"] \in Nat /\ content["slow_start"] \in Nat
  BY CursorOf DEF Snapshots, Keys
<1>3. CASE s = "plain"
  <2>1. Deliver("plain", Cantor(0, content["plain"]), <<content["plain"]>>)
    BY <1>1, <1>2, <1>3 DEF ValueOf
  <2>2. Cantor(0, content["plain"]) \in Nat
    BY <1>2, CantorIs
  <2>3. Meant([stream |-> "plain", cursor |-> Cantor(0, content["plain"]), value |-> <<content["plain"]>>])
    BY <1>2, <2>2 DEF Meant, Streams, RowStreams
  <2> QED BY <1>1, <2>1, <2>3, Delivered DEF Snapshots, SyncTyped
<1>4. CASE s = "environments"
  <2> DEFINE c == Cantor(Cantor(0, content["gate"]), content["slow_start"])
  <2>1. Deliver("environments", c, <<content["gate"], content["slow_start"]>>)
    BY <1>1, <1>2, <1>4 DEF ValueOf
  <2>2. c \in Nat
    BY <1>2, CantorIs
  <2>3. Meant([stream |-> "environments", cursor |-> c, value |-> <<content["gate"], content["slow_start"]>>])
    BY <1>2, <2>2 DEF Meant, Streams, RowStreams
  <2> HIDE DEF c
  <2> QED BY <1>1, <2>1, <2>3, Delivered DEF Snapshots, SyncTyped
<1> QED BY <1>3, <1>4 DEF RowStreams

LEMMA PullBegins ==
  ASSUME Snapshots, NEW p \in Pulls, NEW x \in PullState, pull' = [pull EXCEPT ![p] = x],
         x.at = "reload" => x.cursor <= Cantor(0, content["policy"]),
         UNCHANGED <<content, mirror, groupCopy, sent, checkpoint, storing>>
  PROVE  Snapshots'
<1>1. pull' \in [Pulls -> PullState] /\ pull'[p] = x /\ \A q \in Pulls : q # p => pull'[q] = pull[q]
  BY DEF Snapshots, SyncTyped
<1>2. SyncTyped'
  BY <1>1 DEF Snapshots, SyncTyped
<1>3. Recorded' /\ SentIsMeant' /\ RefusedByYounger' /\ RefusedByOne'
  BY DEF Snapshots, Recorded, SentIsMeant, Meant, RefusedByYounger, RefusedByOne
<1>4. PolicyAwaited'
  BY <1>1 DEF Snapshots, PolicyAwaited
<1> QED BY <1>2, <1>3, <1>4 DEF Snapshots

LEMMA PullPolicyKeeps ==
  ASSUME Snapshots, NEW p \in Pulls, PullPolicy(p)
  PROVE  Snapshots'
<1>0. /\ VersionCursor("policy") = Cantor(0, content["policy"]) /\ content["policy"] \in Nat
      /\ Cantor(0, content["policy"]) \in Nat
  BY CursorOf, CantorIs DEF Snapshots, Keys
<1>1. CASE pull' = [pull EXCEPT ![p] = [at |-> "reload", cursor |-> VersionCursor("policy")]]
           /\ UNCHANGED <<content, mirror, groupCopy, sent, checkpoint, storing>>
  <2>0. PICK c \in Nat : c = Cantor(0, content["policy"])
    BY <1>0
  <2>1. PICK x \in PullState : x = [at |-> "reload", cursor |-> c] /\ x.cursor = c
    BY <2>0, PullStates
  <2>2. pull' = [pull EXCEPT ![p] = x] /\ x.cursor <= Cantor(0, content["policy"])
    <3>1. pull' = [pull EXCEPT ![p] = x]
      BY <1>0, <1>1, <2>0, <2>1
    <3>2. x.cursor <= Cantor(0, content["policy"])
      BY <1>0, <2>0, <2>1
    <3> QED BY <3>1, <3>2
  <2> QED BY <1>1, <2>2, PullBegins
<1>2. CASE /\ pull[p].at = "reload" /\ Deliver("policy", pull[p].cursor, <<content["policy"]>>)
           /\ pull' = [pull EXCEPT ![p] = Quiet]
           /\ UNCHANGED <<content, mirror, groupCopy, checkpoint, storing>>
  <2>1. pull[p].cursor \in Nat /\ pull[p].cursor <= Cantor(0, content["policy"])
    BY <1>2, PullStates DEF Snapshots, SyncTyped, PolicyAwaited
  <2>2. Meant([stream |-> "policy", cursor |-> pull[p].cursor, value |-> <<content["policy"]>>])
    BY <2>1 DEF Meant, Streams
  <2>3. pull' \in [Pulls -> PullState] /\ \A q \in Pulls : pull'[q] = pull[q] \/ pull'[q] = Quiet
    BY <1>2, PullStates DEF Snapshots, SyncTyped
  <2> QED BY <1>2, <2>2, <2>3, Delivered
<1> QED BY <1>1, <1>2 DEF PullPolicy

LEMMA PullScheduleKeeps ==
  ASSUME Snapshots, NEW p \in Pulls, NEW h \in Hosts, PullSchedule(p, h)
  PROVE  Snapshots'
<1>1. CASE /\ pull' = [pull EXCEPT ![p] = [at |-> "copy", host |-> h, cursor |-> VersionCursor("schedule"),
                                           rows |-> content["schedule"]]]
           /\ UNCHANGED <<content, mirror, groupCopy, sent, checkpoint, storing>>
  <2>1. VersionCursor("schedule") \in Nat /\ content["schedule"] \in 0..MaxContent
    BY CursorOf DEF Snapshots, Keys
  <2>2. PICK x \in PullState : /\ x = [at |-> "copy", host |-> h, cursor |-> VersionCursor("schedule"),
                                       rows |-> content["schedule"]]
                               /\ x.at # "reload"
    BY <2>1, PullStates
  <2>3. pull' = [pull EXCEPT ![p] = x]
    BY <1>1, <2>2
  <2> QED BY <1>1, <2>2, <2>3, PullBegins
<1>2. CASE /\ pull[p].at = "copy" /\ Deliver("schedule", pull[p].cursor, <<pull[p].rows, groupCopy[h]>>)
           /\ pull' = [pull EXCEPT ![p] = Quiet]
           /\ UNCHANGED <<content, mirror, groupCopy, checkpoint, storing>>
  <2>1. pull[p].cursor \in Nat
    BY <1>2, PullStates DEF Snapshots, SyncTyped
  <2>2. Meant([stream |-> "schedule", cursor |-> pull[p].cursor, value |-> <<pull[p].rows, groupCopy[h]>>])
    BY <2>1 DEF Meant, Streams
  <2>3. pull' \in [Pulls -> PullState] /\ \A q \in Pulls : pull'[q] = pull[q] \/ pull'[q] = Quiet
    BY <1>2, PullStates DEF Snapshots, SyncTyped
  <2> QED BY <1>2, <2>2, <2>3, Delivered
<1> QED BY <1>1, <1>2 DEF PullSchedule

(* A stored checkpoint is only replaced by one that is no older.               *)
LEMMA Supersedes ==
  ASSUME NEW new \in Checkpoints, NEW old \in Checkpoints, Replaces(new, old), old.cursor # Absent
  PROVE  /\ new.cursor # Absent /\ new.cursor >= old.cursor
         /\ new.cursor = old.cursor => new.digest = old.digest /\ new.asOf >= old.asOf
<1>1. /\ old.cursor \in 1..MaxCursor /\ new.cursor \in (1..MaxCursor) \cup {Absent}
      /\ new.asOf \in 0..1 /\ old.asOf \in 0..1
  BY DEF Checkpoints
<1>2. new.cursor # Absent /\ (new.cursor > old.cursor \/ SameSnapshot(new, old))
  BY DEF Replaces
<1>3. CASE new.cursor > old.cursor
  BY <1>1, <1>2, <1>3, SyncAssumption
<1>4. CASE SameSnapshot(new, old)
  BY <1>1, <1>2, <1>4, SyncAssumption DEF SameSnapshot
<1> QED BY <1>2, <1>3, <1>4

LEMMA Overtaken ==
  ASSUME NEW new \in Checkpoints, NEW old \in Checkpoints, ~Replaces(new, old), new.cursor # Absent
  PROVE  old.cursor # Absent /\ old.cursor >= new.cursor
<1>1. old.cursor # Absent /\ ~(new.cursor > old.cursor)
  BY DEF Replaces
<1>2. old.cursor \in 1..MaxCursor /\ new.cursor \in 1..MaxCursor
  BY <1>1 DEF Checkpoints
<1> QED BY <1>1, <1>2, SyncAssumption

LEMMA StoreKeeps ==
  ASSUME Snapshots, NEW w \in Writes, NEW new \in Checkpoints, Store(w, new)
  PROVE  Snapshots'
<1>0. /\ storing \in [Writes -> StoringState] /\ checkpoint \in Checkpoints \cup {Absent}
      /\ UNCHANGED <<content, mirror, groupCopy, pull, sent>>
  BY DEF Snapshots, SyncTyped, Store
<1>1. CASE checkpoint = Absent \/ Replaces(new, checkpoint)
  <2>1. checkpoint' = new /\ storing' = storing
    BY <1>1 DEF Store
  <2>2. SyncTyped'
    BY <1>0, <2>1 DEF Snapshots, SyncTyped
  <2>n. RefusedByOne'
    BY <2>1, SyncAssumption DEF RefusedByOne
  <2>3. RefusedByYounger'
    <3> SUFFICES ASSUME NEW v \in Writes, storing[v] # Quiet, storing[v].gave.cursor # Absent
                 PROVE  new.cursor # Absent /\ new.cursor >= storing[v].gave.cursor
      BY <2>1 DEF RefusedByYounger
    <3>1. checkpoint.cursor # Absent /\ checkpoint.cursor >= storing[v].gave.cursor /\ checkpoint # Absent
      BY DEF Snapshots, RefusedByYounger, RefusedByOne
    <3>2. storing[v].gave \in Checkpoints
      BY <1>0, StoringStates
    <3>3. new.cursor # Absent /\ new.cursor >= checkpoint.cursor
      BY <1>0, <1>1, <3>1, Supersedes
    <3>4. new.cursor \in 1..MaxCursor /\ checkpoint.cursor \in 1..MaxCursor /\ storing[v].gave.cursor \in 1..MaxCursor
      BY <1>0, <3>1, <3>2, <3>3 DEF Checkpoints
    <3> QED BY <3>1, <3>3, <3>4, SyncAssumption
  <2>4. Recorded' /\ SentIsMeant' /\ PolicyAwaited'
    BY <1>0 DEF Snapshots, Recorded, SentIsMeant, Meant, PolicyAwaited
  <2> QED BY <2>2, <2>3, <2>4, <2>n DEF Snapshots
<1>2. CASE ~(checkpoint = Absent \/ Replaces(new, checkpoint))
  <2>1. checkpoint' = checkpoint /\ storing' = [storing EXCEPT ![w] = [at |-> "load", gave |-> new]]
    BY <1>2 DEF Store
  <2>2. PICK x \in StoringState : x = [at |-> "load", gave |-> new] /\ x.gave = new
    BY StoringStates
  <2>3. storing' \in [Writes -> StoringState] /\ storing'[w] = x /\ \A v \in Writes : v # w => storing'[v] = storing[v]
    BY <1>0, <2>1, <2>2
  <2>4. SyncTyped'
    BY <1>0, <2>1, <2>3 DEF Snapshots, SyncTyped
  <2>5. RefusedByYounger' /\ RefusedByOne'
    <3>1. new.cursor # Absent => checkpoint.cursor # Absent /\ checkpoint.cursor >= new.cursor
      BY <1>0, <1>2, Overtaken
    <3>2. RefusedByYounger'
      BY <2>1, <2>2, <2>3, <3>1 DEF Snapshots, RefusedByYounger
    <3>3. RefusedByOne'
      BY <1>2, <2>1 DEF RefusedByOne
    <3> QED BY <3>2, <3>3
  <2>6. Recorded' /\ SentIsMeant' /\ PolicyAwaited'
    BY <1>0 DEF Snapshots, Recorded, SentIsMeant, Meant, PolicyAwaited
  <2> QED BY <2>4, <2>5, <2>6 DEF Snapshots
<1> QED BY <1>1, <1>2

LEMMA LoadCurrentKeeps ==
  ASSUME Snapshots, NEW w \in Writes, LoadCurrent(w)
  PROVE  Snapshots'
<1>1. /\ storing' = [storing EXCEPT ![w] = Quiet]
      /\ UNCHANGED <<content, mirror, groupCopy, pull, sent, checkpoint>>
  BY DEF LoadCurrent
<1>2. /\ storing' \in [Writes -> StoringState] /\ storing'[w] = Quiet
      /\ \A v \in Writes : v # w => storing'[v] = storing[v]
  BY <1>1, StoringStates DEF Snapshots, SyncTyped
<1>3. SyncTyped'
  BY <1>1, <1>2 DEF Snapshots, SyncTyped
<1>4. RefusedByYounger' /\ RefusedByOne'
  BY <1>1, <1>2 DEF Snapshots, RefusedByYounger, RefusedByOne
<1>5. Recorded' /\ SentIsMeant' /\ PolicyAwaited'
  BY <1>1 DEF Snapshots, Recorded, SentIsMeant, Meant, PolicyAwaited
<1> QED BY <1>3, <1>4, <1>5 DEF Snapshots

LEMMA SnapshotsNext == Snapshots /\ [SyncNext]_syncVars => Snapshots'
<1> SUFFICES ASSUME Snapshots, [SyncNext]_syncVars PROVE Snapshots'
  OBVIOUS
<1>1. CASE Sending
  BY <1>1, WriteKeeps, TakeGroupPolicyKeeps, PullRowsKeeps, PullPolicyKeeps, PullScheduleKeeps DEF Sending
<1>2. CASE Consuming
  BY <1>2, StoreKeeps, LoadCurrentKeeps DEF Consuming
<1>3. CASE UNCHANGED syncVars
  BY <1>3 DEF syncVars, Snapshots, SyncTyped, Recorded, SentIsMeant, Meant, PolicyAwaited, RefusedByYounger, RefusedByOne
<1> QED BY <1>1, <1>2, <1>3 DEF SyncNext

LEMMA SnapshotsAlways == SyncSpec => []Snapshots
BY SnapshotsStart, SnapshotsNext, PTL DEF SyncSpec

LEMMA SyncTypes == SyncSpec => []SyncTypeOK
<1>1. Snapshots => SyncTypeOK
  <2> SUFFICES ASSUME Snapshots PROVE SyncTypeOK
    OBVIOUS
  <2>1. \A m \in Mirrors : mirror[m] \in 0..(2 * MaxContent)
    <3> SUFFICES ASSUME NEW m \in Mirrors PROVE mirror[m] \in 0..(2 * MaxContent)
      OBVIOUS
    <3>1. content[m] \in 0..MaxContent /\ content["group"] \in 0..MaxContent
      BY DEF Snapshots, SyncTyped, Mirrors, Keys
    <3>2. mirror[m] = content[m] + content["group"] \/ mirror[m] = content[m]
      BY DEF Snapshots, Recorded
    <3> QED BY <3>1, <3>2, SyncAssumption
  <2>2. \A p \in Pulls : pull[p].at \in {"quiet", "copy", "reload"}
    BY PullStates DEF Snapshots, SyncTyped
  <2>3. \A w \in Writes : storing[w] = Quiet \/ storing[w].gave \in Checkpoints
    BY StoringStates DEF Snapshots, SyncTyped
  <2>4. \A x \in sent : x.stream \in Streams /\ x.cursor \in Nat
    BY DEF Snapshots, SentIsMeant, Meant
  <2> QED BY <2>1, <2>2, <2>3, <2>4 DEF Snapshots, SyncTyped, SyncTypeOK
<1> QED BY <1>1, SnapshotsAlways, PTL

LEMMA OneValue == SentIsMeant => CursorNamesOneValue
<1> SUFFICES ASSUME SentIsMeant, NEW x \in sent, NEW y \in sent, x.stream = y.stream, x.stream \in RowStreams,
                    x.cursor = y.cursor
             PROVE  x.value = y.value
  BY DEF CursorNamesOneValue
<1>0. Meant(x) /\ Meant(y)
  BY DEF SentIsMeant
<1>1. CASE x.stream = "plain"
  <2>1. PICK n \in Nat : x.cursor = Cantor(0, n) /\ x.value = <<n>>
    BY <1>0, <1>1 DEF Meant
  <2>2. PICK m \in Nat : y.cursor = Cantor(0, m) /\ y.value = <<m>>
    BY <1>0, <1>1 DEF Meant
  <2>3. n = m
    BY <2>1, <2>2, CantorNamesOnePair
  <2> QED BY <2>1, <2>2, <2>3
<1>2. CASE x.stream = "environments"
  <2>1. PICK g, s \in Nat : x.cursor = Cantor(Cantor(0, g), s) /\ x.value = <<g, s>>
    BY <1>0, <1>2 DEF Meant
  <2>2. PICK h, t \in Nat : y.cursor = Cantor(Cantor(0, h), t) /\ y.value = <<h, t>>
    BY <1>0, <1>2 DEF Meant
  <2>3. Cantor(0, g) \in Nat /\ Cantor(0, h) \in Nat
    BY CantorIs
  <2>4. Cantor(0, g) = Cantor(0, h) /\ s = t
    <3>1. PICK a \in Nat : a = Cantor(0, g)
      BY <2>3
    <3>2. PICK b \in Nat : b = Cantor(0, h)
      BY <2>3
    <3>3. Cantor(a, s) = Cantor(b, t)
      BY <2>1, <2>2, <3>1, <3>2
    <3>4. a = b /\ s = t
      BY <3>3, CantorNamesOnePair
    <3> QED BY <3>1, <3>2, <3>4
  <2>5. g = h
    BY <2>4, CantorNamesOnePair
  <2> QED BY <2>1, <2>2, <2>4, <2>5
<1> QED BY <1>1, <1>2 DEF RowStreams

(* Snapshots: what was sent under one cursor was one content; nobody is sent   *)
(* an older policy than its cursor; a refused checkpoint is an older one       *)
(* (versionCursor, cantor, storeCheckpoint).                                   *)
LEMMA SnapshotsAgreeAlways == SyncSpec => [](CursorNamesOneValue /\ PolicyNotOlder /\ RefusedByYounger)
<1>1. Snapshots => CursorNamesOneValue /\ PolicyNotOlder /\ RefusedByYounger
  BY OneValue DEF Snapshots, PolicyNotOlder, SentIsMeant, Meant
<1> QED BY <1>1, SnapshotsAlways, PTL

(* The stored cursor never goes back, and what it stands for never changes.    *)
LEMMA CheckpointsAdvance == SyncSpec => CheckpointAdvances
<1> DEFINE Advance == checkpoint # Absent /\ checkpoint.cursor # Absent =>
                        /\ checkpoint'.cursor # Absent /\ checkpoint'.cursor >= checkpoint.cursor
                        /\ checkpoint'.cursor = checkpoint.cursor =>
                             checkpoint'.digest = checkpoint.digest /\ checkpoint'.asOf >= checkpoint.asOf
<1>1. Snapshots /\ [SyncNext]_syncVars => [Advance]_checkpoint
  <2> SUFFICES ASSUME Snapshots, [SyncNext]_syncVars, checkpoint' # checkpoint,
                      checkpoint # Absent, checkpoint.cursor # Absent
               PROVE  /\ checkpoint'.cursor # Absent /\ checkpoint'.cursor >= checkpoint.cursor
                      /\ checkpoint'.cursor = checkpoint.cursor =>
                           checkpoint'.digest = checkpoint.digest /\ checkpoint'.asOf >= checkpoint.asOf
    OBVIOUS
  <2>1. PICK w \in Writes : \E new \in Checkpoints : Store(w, new)
    BY DEF SyncNext, Sending, Consuming, Write, TakeGroupPolicy, PullRows, PullPolicy, PullSchedule, LoadCurrent, syncVars
  <2>2. PICK new \in Checkpoints : Store(w, new)
    BY <2>1
  <2>3. checkpoint' = new /\ Replaces(new, checkpoint) /\ checkpoint \in Checkpoints
    BY <2>2 DEF Store, Snapshots, SyncTyped
  <2> QED BY <2>3, Supersedes
<1> QED BY <1>1, SnapshotsAlways, PTL DEF SyncSpec, CheckpointAdvances


-----------------------------------------------------------------------------
(* Reply configuration.                                                        *)

EditState == {NoEdit} \cup [at : {"save", "publish", "checked"}, source : Sources, expected : 0..MaxConfig,
                            item : Items, version : Named]
ReadingState == {NoEdit} \cup [at : {"head", "snapshot"}, member : Members, source : Sources, version : Named]
Shelf == [Versions -> Contents \cup {Nothing}]

ReplyTyped ==
  /\ label \in [Members -> Groups \cup {Nothing}]
  /\ scopes \in [Sources -> Heads \cup {Nothing}] /\ versionOf \in [Sources -> Shelf]
  /\ edit \in [Editors -> EditState] /\ reading \in [Readers -> ReadingState]
  /\ resolved \subseteq [member : Members, source : Sources, version : Versions]

(* A head and the versions it stands for: they are numbered without gaps; the  *)
(* draft is the newest, and without a draft the published one is; what was     *)
(* published was checked; each is one change away from the one before it.      *)
Before(row, v) == IF v = 1 THEN {} ELSE row[v - 1].items
Changes(row, v) == (Before(row, v) \ row[v].items) \cup (row[v].items \ Before(row, v))
Clean(row, v) == row[v] # Nothing /\ row[v].state = "published" => row[v].items \cap Faulty = {}

Shelved(h, row) == \A v \in Versions : row[v] # Nothing <=> h # Nothing /\ v <= h.current
Headed(h, row) ==
  h # Nothing =>
    /\ h.draft # Nothing => h.draft = h.current
    /\ h.draft = Nothing => IF h.current = 0 THEN h.published = Nothing ELSE h.published = h.current
    /\ h.published # Nothing => h.published <= h.current /\ row[h.published].state = "published"
OneByOne(h, row) ==
  h # Nothing =>
    \A v \in 1..h.current : Cardinality(Changes(row, v)) = IF row[v].state = "published" THEN 0 ELSE 1
HeadFits(h, row) ==
  Shelved(h, row) /\ Headed(h, row) /\ OneByOne(h, row) /\ \A v \in Versions : Clean(row, v)

EditsFit ==
  \A r \in Editors : edit[r] # NoEdit =>
    /\ scopes[edit[r].source] # Nothing
    /\ edit[r].at = "checked" =>
         /\ edit[r].version \in Versions /\ versionOf[edit[r].source][edit[r].version] # Nothing
         /\ versionOf[edit[r].source][edit[r].version].items \cap Faulty = {}

IsPublished(s, v) == v \in Versions /\ versionOf[s][v] # Nothing /\ versionOf[s][v].state = "published"
ReadingsFit == \A q \in Readers : reading[q] # NoEdit /\ reading[q].at = "snapshot" => IsPublished(reading[q].source, reading[q].version)
ResolvedFit == \A a \in resolved : IsPublished(a.source, a.version)

Replies ==
  /\ ReplyTyped /\ \A s \in Sources : HeadFits(scopes[s], versionOf[s])
  /\ EditsFit /\ ReadingsFit /\ ResolvedFit

(* No version changes, and no scope goes.                                      *)
Kept == \* of versions and scopes, over a step
  /\ \A s \in Sources : scopes[s] # Nothing => scopes'[s] # Nothing
  /\ \A s \in Sources : \A v \in Versions : versionOf[s][v] # Nothing => versionOf'[s][v] = versionOf[s][v]

-----------------------------------------------------------------------------
LEMMA EditStates ==
  /\ NoEdit \in EditState
  /\ \A x \in EditState : x # NoEdit =>
       /\ x.at \in {"save", "publish", "checked"} /\ x.source \in Sources /\ x.expected \in 0..MaxConfig
       /\ x.item \in Items /\ x.version \in Named
  /\ NoEdit.at = "idle"
BY DEF EditState, NoEdit

LEMMA ReadingStates ==
  /\ NoEdit \in ReadingState
  /\ \A x \in ReadingState : x # NoEdit =>
       x.at \in {"head", "snapshot"} /\ x.member \in Members /\ x.source \in Sources /\ x.version \in Named
BY DEF ReadingState, NoEdit

(* Records of the rows and of the requests.                                    *)
LEMMA Rows ==
  /\ \A st \in {"draft", "published"} : \A S \in SUBSET Items : [state |-> st, items |-> S] \in Contents
  /\ \A c \in 0..MaxConfig : \A d, n \in Named : [current |-> c, draft |-> d, published |-> n] \in Heads
  /\ \A at \in {"save", "publish", "checked"} : \A s \in Sources : \A x \in 0..MaxConfig : \A i \in Items :
       \A v \in Named : [at |-> at, source |-> s, expected |-> x, item |-> i, version |-> v] \in EditState
  /\ \A at \in {"head", "snapshot"} : \A m \in Members : \A s \in Sources : \A v \in Named :
       [at |-> at, member |-> m, source |-> s, version |-> v] \in ReadingState
  /\ Nothing \in Named /\ Versions \subseteq Named /\ Versions \subseteq 0..MaxConfig /\ 0 \in 0..MaxConfig
BY ReplyAssumption DEF Contents, Heads, EditState, ReadingState, Named, Versions

LEMMA HeadFields ==
  ASSUME NEW h \in Heads
  PROVE  h.current \in 0..MaxConfig /\ h.draft \in Named /\ h.published \in Named /\ h # Nothing /\ h.current \in Int
BY ReplyAssumption DEF Heads

LEMMA NothingApart ==
  /\ \A v \in Versions : v # Nothing /\ v \in Int /\ v >= 1 /\ v <= MaxConfig
  /\ \A c \in Contents : c # Nothing
  /\ \A h \in Heads : h # Nothing
  /\ \A v \in Named : v # Nothing => v \in Versions
  /\ MaxConfig \in Nat
BY ReplyAssumption DEF Versions, Named

(* The newest version of a scope, whether its head names it draft or published.*)
Newest(h, row) == IF h.current = 0 THEN {} ELSE row[h.current].items

(* A version is added behind the newest.                                       *)
LEMMA AppendFits ==
  ASSUME NEW h \in Heads, NEW row \in Shelf, HeadFits(h, row), NEW v \in Versions, v = h.current + 1,
         NEW c \in Contents, NEW n \in Heads, n.current = v,
         \/ n.draft = v /\ n.published = h.published /\ c.state = "draft"
         \/ n.draft = Nothing /\ n.published = v /\ c.state = "published" /\ c.items \cap Faulty = {},
         Cardinality((Newest(h, row) \ c.items) \cup (c.items \ Newest(h, row)))
           = IF c.state = "published" THEN 0 ELSE 1
  PROVE  HeadFits(n, [row EXCEPT ![v] = c])
<1> DEFINE new == [row EXCEPT ![v] = c]
<1>1. new \in Shelf /\ new[v] = c /\ \A w \in Versions : w # v => new[w] = row[w]
  BY DEF Shelf
<1>2. h.current \in 0..MaxConfig /\ h.current \in Int /\ v \in Int /\ v # Nothing /\ c # Nothing /\ n # Nothing /\ h # Nothing
      /\ MaxConfig \in Nat
  BY HeadFields, NothingApart
<1> HIDE DEF new
<1>3. Shelved(n, new)
  <2> SUFFICES ASSUME NEW w \in Versions PROVE new[w] # Nothing <=> w <= v
    BY <1>2 DEF Shelved
  <2>1. row[w] # Nothing <=> w <= h.current
    BY <1>2 DEF HeadFits, Shelved
  <2>2. w \in Int
    BY NothingApart
  <2> QED BY <1>1, <1>2, <2>1, <2>2
<1>4. h.published # Nothing => h.published \in Versions /\ h.published <= h.current /\ row[h.published].state = "published"
  BY <1>2, HeadFields, NothingApart DEF HeadFits, Headed
<1>5. Headed(n, new)
  <2>1. CASE n.draft = v /\ n.published = h.published
    <3>1. h.published # Nothing => h.published # v /\ h.published \in Int /\ h.published <= v
      BY <1>2, <1>4, NothingApart
    <3>2. h.published # Nothing => new[h.published].state = "published"
      BY <1>1, <1>4, <3>1
    <3> QED BY <1>2, <2>1, <3>1, <3>2 DEF Headed
  <2>2. CASE n.draft = Nothing /\ n.published = v /\ c.state = "published"
    <3>1. v # 0
      BY <1>2
    <3> QED BY <1>1, <1>2, <2>2, <3>1 DEF Headed
  <2> QED BY <2>1, <2>2
<1>6. OneByOne(n, new)
  <2> SUFFICES ASSUME NEW w \in 1..v
               PROVE  Cardinality(Changes(new, w)) = IF new[w].state = "published" THEN 0 ELSE 1
    BY DEF OneByOne
  <2>1. w \in Versions /\ w \in Int /\ (w # 1 => w - 1 \in Versions /\ w - 1 # v)
    BY <1>2 DEF Versions
  <2>2. CASE w = v
    <3>1. Before(new, v) = Newest(h, row)
      <4>1. CASE v = 1
        BY <1>2, <4>1 DEF Before, Newest
      <4>2. CASE v # 1
        <5>1. v - 1 = h.current /\ h.current # 0
          BY <1>2, <4>2
        <5>2. new[v - 1] = row[h.current]
          BY <1>1, <2>1, <2>2, <4>2, <5>1
        <5> QED BY <4>2, <5>1, <5>2 DEF Before, Newest
      <4> QED BY <4>1, <4>2
    <3>2. Changes(new, v) = (Newest(h, row) \ c.items) \cup (c.items \ Newest(h, row))
      BY <1>1, <3>1 DEF Changes
    <3> QED BY <1>1, <2>2, <3>2
  <2>3. CASE w # v
    <3>1. w \in 1..h.current
      BY <1>2, <2>1, <2>3
    <3>2. new[w] = row[w] /\ (w # 1 => new[w - 1] = row[w - 1])
      BY <1>1, <2>1, <2>3
    <3>3. Changes(new, w) = Changes(row, w)
      BY <3>2 DEF Changes, Before
    <3>4. Cardinality(Changes(row, w)) = IF row[w].state = "published" THEN 0 ELSE 1
      BY <1>2, <3>1 DEF HeadFits, OneByOne
    <3> QED BY <3>2, <3>3, <3>4
  <2> QED BY <2>2, <2>3
<1>7. \A w \in Versions : Clean(new, w)
  <2> SUFFICES ASSUME NEW w \in Versions PROVE Clean(new, w)
    OBVIOUS
  <2>1. CASE w = v
    BY <1>1, <2>1 DEF Clean
  <2>2. CASE w # v
    <3>1. Clean(row, w) /\ new[w] = row[w]
      BY <1>1, <2>2 DEF HeadFits
    <3> QED BY <3>1 DEF Clean
  <2> QED BY <2>1, <2>2
<1> QED BY <1>3, <1>5, <1>6, <1>7 DEF HeadFits, new

(* What a save starts from is the newest.                                      *)
LEMMA BaseIsNewest ==
  ASSUME NEW s \in Sources, NEW h \in Heads, h = scopes[s], versionOf[s] \in Shelf, HeadFits(h, versionOf[s])
  PROVE  /\ ItemsAt(s, Base(h)) = Newest(h, versionOf[s])
         /\ h.draft # Nothing => h.draft \in Versions /\ h.draft = h.current /\ versionOf[s][h.draft] # Nothing
         /\ Newest(h, versionOf[s]) \subseteq Items
         /\ h.current = 0 \/ h.current = Base(h)
<1>0. h # Nothing /\ h.current \in 0..MaxConfig /\ h.draft \in Named /\ h.published \in Named /\ MaxConfig \in Nat
  BY HeadFields, NothingApart
<1>1. h.draft # Nothing => h.draft \in Versions /\ h.draft = h.current /\ versionOf[s][h.draft] # Nothing /\ h.current # 0
  <2> SUFFICES ASSUME h.draft # Nothing
               PROVE  h.draft \in Versions /\ h.draft = h.current /\ versionOf[s][h.draft] # Nothing /\ h.current # 0
    OBVIOUS
  <2>1. h.draft \in Versions /\ h.draft = h.current
    BY <1>0, NothingApart DEF HeadFits, Headed
  <2>2. h.draft <= h.current /\ h.current # 0
    BY <2>1, NothingApart
  <2> QED BY <1>0, <2>1, <2>2 DEF HeadFits, Shelved
<1>2. h.draft = Nothing => IF h.current = 0 THEN h.published = Nothing ELSE h.published = h.current
  BY <1>0 DEF HeadFits, Headed
<1>3. h.current # 0 => h.current \in Versions /\ h.current # Nothing
  BY <1>0, NothingApart DEF Versions
<1>4. h.current # 0 => versionOf[s][h.current] \in Contents
  BY <1>0, <1>3 DEF Shelf, HeadFits, Shelved
<1>5. Newest(h, versionOf[s]) \subseteq Items
  BY <1>4 DEF Newest, Contents
<1>6. ItemsAt(s, Base(h)) = Newest(h, versionOf[s])
  BY <1>1, <1>2, <1>3 DEF ItemsAt, Base, Newest
<1>7. h.current = 0 \/ h.current = Base(h)
  BY <1>1, <1>2 DEF Base
<1> QED BY <1>1, <1>5, <1>6, <1>7

(* One change of one item.                                                     *)
LEMMA OneChange ==
  ASSUME NEW S \in SUBSET Items, NEW i \in Items
  PROVE  /\ Edited(S, i) \in SUBSET Items
         /\ Cardinality((S \ Edited(S, i)) \cup (Edited(S, i) \ S)) = 1
<1>1. (S \ Edited(S, i)) \cup (Edited(S, i) \ S) = {i}
  BY DEF Edited
<1>2. Edited(S, i) \in SUBSET Items
  BY DEF Edited
<1> QED BY <1>1, <1>2, FS_Singleton

LEMMA NoChange ==
  ASSUME NEW S, NEW T, S = T
  PROVE  Cardinality((S \ T) \cup (T \ S)) = 0
<1>1. (S \ T) \cup (T \ S) = {}
  OBVIOUS
<1> QED BY <1>1, FS_EmptySet

-----------------------------------------------------------------------------
(* What a step that leaves versions in place does to those who named them.     *)
LEMMA NamedStays ==
  ASSUME Kept, NEW s \in Sources, NEW v, IsPublished(s, v)
  PROVE  IsPublished(s, v)'
BY DEF Kept, IsPublished

LEMMA RestKeeps ==
  ASSUME Replies, Kept, ReplyTyped', \A s \in Sources : HeadFits(scopes'[s], versionOf'[s]),
         \A r \in Editors : edit'[r] = edit[r] \/ edit'[r] = NoEdit, UNCHANGED <<reading, resolved>>
  PROVE  Replies'
<1>1. EditsFit'
  <2> SUFFICES ASSUME NEW r \in Editors, edit'[r] # NoEdit
               PROVE  /\ scopes'[edit'[r].source] # Nothing
                      /\ edit'[r].at = "checked" =>
                           /\ edit'[r].version \in Versions /\ versionOf'[edit'[r].source][edit'[r].version] # Nothing
                           /\ versionOf'[edit'[r].source][edit'[r].version].items \cap Faulty = {}
    BY DEF EditsFit
  <2>1. edit'[r] = edit[r] /\ edit[r].source \in Sources
    BY EditStates DEF Replies, ReplyTyped
  <2>2. /\ scopes[edit[r].source] # Nothing
        /\ edit[r].at = "checked" =>
             /\ edit[r].version \in Versions /\ versionOf[edit[r].source][edit[r].version] # Nothing
             /\ versionOf[edit[r].source][edit[r].version].items \cap Faulty = {}
    BY <2>1 DEF Replies, EditsFit
  <2> QED BY <2>1, <2>2 DEF Kept
<1>2. ReadingsFit'
  <2> SUFFICES ASSUME NEW q \in Readers, reading[q] # NoEdit, reading[q].at = "snapshot"
               PROVE  IsPublished(reading[q].source, reading[q].version)'
    BY DEF ReadingsFit, IsPublished
  <2>1. reading[q].source \in Sources /\ IsPublished(reading[q].source, reading[q].version)
    BY ReadingStates DEF Replies, ReplyTyped, ReadingsFit
  <2> QED BY <2>1 DEF Kept, IsPublished
<1>3. ResolvedFit'
  <2> SUFFICES ASSUME NEW a \in resolved
               PROVE  IsPublished(a.source, a.version)'
    BY DEF ResolvedFit, IsPublished
  <2>1. a.source \in Sources /\ IsPublished(a.source, a.version)
    BY DEF Replies, ReplyTyped, ResolvedFit
  <2> QED BY <2>1 DEF Kept, IsPublished
<1> QED BY <1>1, <1>2, <1>3 DEF Replies

LEMMA EnsureScopeKeeps ==
  ASSUME Replies, NEW s \in Sources, EnsureScope(s)
  PROVE  Replies' /\ Kept
<1>1. PICK h \in Heads : h = [current |-> 0, draft |-> Nothing, published |-> Nothing]
  <2>1. [current |-> 0, draft |-> Nothing, published |-> Nothing] \in Heads
    BY Rows
  <2> QED BY <2>1
<1>2. /\ scopes[s] = Nothing /\ scopes' = [scopes EXCEPT ![s] = h]
      /\ UNCHANGED <<label, versionOf, edit, reading, resolved>>
  BY <1>1 DEF EnsureScope
<1>3. /\ scopes' \in [Sources -> Heads \cup {Nothing}] /\ scopes'[s] = h
      /\ \A t \in Sources : t # s => scopes'[t] = scopes[t]
  BY <1>2 DEF Replies, ReplyTyped
<1>4. ReplyTyped'
  BY <1>2, <1>3 DEF Replies, ReplyTyped
<1>5. Kept
  BY <1>2, <1>3, NothingApart DEF Kept
<1>6. HeadFits(h, versionOf[s])
  <2>1. HeadFits(Nothing, versionOf[s])
    BY <1>2 DEF Replies
  <2>2. Shelved(h, versionOf[s])
    BY <1>1, <2>1, NothingApart DEF HeadFits, Shelved
  <2>3. Headed(h, versionOf[s]) /\ OneByOne(h, versionOf[s])
    BY <1>1 DEF Headed, OneByOne
  <2> QED BY <2>1, <2>2, <2>3 DEF HeadFits
<1>7. \A t \in Sources : HeadFits(scopes'[t], versionOf'[t])
  BY <1>2, <1>3, <1>6 DEF Replies
<1> QED BY <1>2, <1>4, <1>5, <1>7, RestKeeps

(* A version of a scope is added, and its writer answered.                     *)
Appended(s, v, c, n) == versionOf' = [versionOf EXCEPT ![s][v] = c] /\ scopes' = [scopes EXCEPT ![s] = n]
LEMMA AppendKeeps ==
  ASSUME Replies, NEW r \in Editors, NEW s \in Sources, NEW h \in Heads, h = scopes[s],
         NEW v \in Versions, v = h.current + 1, NEW c \in Contents, NEW n \in Heads,
         HeadFits(n, [versionOf[s] EXCEPT ![v] = c]),
         Appended(s, v, c, n), Answered(r), UNCHANGED <<label, reading, resolved>>
  PROVE  Replies' /\ Kept
<1>0. /\ versionOf \in [Sources -> Shelf] /\ scopes \in [Sources -> Heads \cup {Nothing}] /\ versionOf[s] \in Shelf
      /\ edit \in [Editors -> EditState]
  BY DEF Replies, ReplyTyped
<1>1. PICK new \in Shelf : new = [versionOf[s] EXCEPT ![v] = c]
  BY <1>0 DEF Shelf
<1>2. versionOf' = [versionOf EXCEPT ![s] = new]
  BY <1>1 DEF Appended
<1>3. /\ versionOf' \in [Sources -> Shelf] /\ versionOf'[s] = new
      /\ \A t \in Sources : t # s => versionOf'[t] = versionOf[t]
  BY <1>0, <1>2
<1>4. /\ scopes' \in [Sources -> Heads \cup {Nothing}] /\ scopes'[s] = n
      /\ \A t \in Sources : t # s => scopes'[t] = scopes[t]
  BY <1>0 DEF Appended
<1>5. edit' \in [Editors -> EditState] /\ \A d \in Editors : edit'[d] = edit[d] \/ edit'[d] = NoEdit
  BY <1>0, EditStates DEF Answered
<1>6. ReplyTyped'
  BY <1>3, <1>4, <1>5 DEF Replies, ReplyTyped
<1>7. Kept
  <2>1. versionOf[s][v] = Nothing
    <3>1. HeadFits(h, versionOf[s]) /\ h # Nothing /\ h.current \in Int
      BY HeadFields DEF Replies
    <3>2. ~(v <= h.current)
      BY <3>1
    <3> QED BY <3>1, <3>2 DEF HeadFits, Shelved
  <2>2. \A w \in Versions : w # v => new[w] = versionOf[s][w]
    BY <1>0, <1>1 DEF Shelf
  <2>3. n # Nothing
    BY NothingApart
  <2> QED BY <1>3, <1>4, <2>1, <2>2, <2>3 DEF Kept
<1>8. \A t \in Sources : HeadFits(scopes'[t], versionOf'[t])
  BY <1>1, <1>3, <1>4 DEF Replies
<1> QED BY <1>5, <1>6, <1>7, <1>8, RestKeeps

(* Nothing is written, and the request is answered.                            *)
LEMMA AnsweredKeeps ==
  ASSUME Replies, NEW r \in Editors, Answered(r), UNCHANGED <<label, scopes, versionOf, reading, resolved>>
  PROVE  Replies' /\ Kept
<1>1. edit' \in [Editors -> EditState] /\ \A d \in Editors : edit'[d] = edit[d] \/ edit'[d] = NoEdit
  BY EditStates DEF Answered, Replies, ReplyTyped
<1>2. ReplyTyped'
  BY <1>1 DEF Replies, ReplyTyped
<1>3. Kept /\ \A t \in Sources : HeadFits(scopes'[t], versionOf'[t])
  BY DEF Kept, Replies
<1> QED BY <1>1, <1>2, <1>3, RestKeeps

LEMMA SaveDraftKeeps ==
  ASSUME Replies, NEW r \in Editors, SaveDraft(r)
  PROVE  Replies' /\ Kept
<1>0. /\ edit[r] # NoEdit /\ edit[r].source \in Sources /\ edit[r].item \in Items
  BY EditStates DEF SaveDraft, Replies, ReplyTyped
<1>1. PICK s \in Sources : s = edit[r].source
  BY <1>0
<1>2. PICK h \in Heads : h = scopes[s]
  BY <1>0, <1>1 DEF Replies, ReplyTyped, EditsFit
<1>3. HeadFits(h, versionOf[s]) /\ versionOf[s] \in Shelf
  BY <1>2 DEF Replies, ReplyTyped
<1>4. CASE h.current = edit[r].expected
  <2>1. /\ NextVersion(h) \in Versions
        /\ versionOf' = [versionOf EXCEPT ![s][NextVersion(h)] =
                          [state |-> "draft", items |-> Edited(ItemsAt(s, Base(h)), edit[r].item)]]
        /\ scopes' = [scopes EXCEPT ![s].current = NextVersion(h), ![s].draft = NextVersion(h)]
        /\ Answered(r) /\ UNCHANGED <<label, reading, resolved>>
    BY <1>1, <1>2, <1>4 DEF SaveDraft
  <2>2. PICK v \in Versions : v = NextVersion(h) /\ v = h.current + 1
    BY <2>1 DEF NextVersion
  <2>3. PICK S \in SUBSET Items : S = Newest(h, versionOf[s]) /\ S = ItemsAt(s, Base(h))
    BY <1>2, <1>3, BaseIsNewest
  <2>4. PICK E \in SUBSET Items : E = Edited(S, edit[r].item) /\ Cardinality((S \ E) \cup (E \ S)) = 1
    BY <1>0, OneChange
  <2>5. PICK c \in Contents : c = [state |-> "draft", items |-> E] /\ c.state = "draft" /\ c.items = E
    <3>1. [state |-> "draft", items |-> E] \in Contents
      BY Rows
    <3> QED BY <3>1
  <2>6. PICK n \in Heads : n = [h EXCEPT !.current = v, !.draft = v]
                           /\ n.current = v /\ n.draft = v /\ n.published = h.published
    <3>1. h \in [current : 0..MaxConfig, draft : Named, published : Named] /\ v \in 0..MaxConfig /\ v \in Named
      BY Rows DEF Heads
    <3>2. PICK y : y = [h EXCEPT !.current = v, !.draft = v]
      OBVIOUS
    <3>3. /\ y \in [current : 0..MaxConfig, draft : Named, published : Named]
          /\ y.current = v /\ y.draft = v /\ y.published = h.published
      BY <3>1, <3>2
    <3>4. y \in Heads
      BY <3>3 DEF Heads
    <3> QED BY <3>2, <3>3, <3>4
  <2>7. versionOf' = [versionOf EXCEPT ![s][v] = c]
    BY <2>1, <2>2, <2>3, <2>4, <2>5
  <2>8. scopes' = [scopes EXCEPT ![s] = n]
    BY <1>2, <2>1, <2>2, <2>6 DEF Replies, ReplyTyped
  <2>9. Cardinality((Newest(h, versionOf[s]) \ c.items) \cup (c.items \ Newest(h, versionOf[s])))
          = IF c.state = "published" THEN 0 ELSE 1
    BY <2>3, <2>4, <2>5
  <2>10. HeadFits(n, [versionOf[s] EXCEPT ![v] = c])
    BY <1>3, <2>2, <2>5, <2>6, <2>9, AppendFits
  <2>11. Appended(s, v, c, n)
    BY <2>7, <2>8 DEF Appended
  <2> QED BY <1>2, <2>1, <2>2, <2>10, <2>11, AppendKeeps
<1>5. CASE h.current # edit[r].expected
  <2>1. Answered(r) /\ UNCHANGED <<label, scopes, versionOf, reading, resolved>>
    BY <1>1, <1>2, <1>5 DEF SaveDraft
  <2> QED BY <2>1, AnsweredKeeps
<1> QED BY <1>4, <1>5

LEMMA PublishKeeps ==
  ASSUME Replies, NEW r \in Editors, Publish(r)
  PROVE  Replies' /\ Kept
<1>0. edit[r] # NoEdit /\ edit[r].source \in Sources /\ edit[r].at = "checked"
  BY EditStates DEF Publish, Replies, ReplyTyped
<1>1. PICK s \in Sources : s = edit[r].source
  BY <1>0
<1>2. PICK h \in Heads : h = scopes[s]
  BY <1>0, <1>1 DEF Replies, ReplyTyped, EditsFit
<1>3. HeadFits(h, versionOf[s]) /\ versionOf[s] \in Shelf
  BY <1>2 DEF Replies, ReplyTyped
<1>4. CASE StillDraft(r, h)
  <2>1. /\ h.current + 1 \in Versions
        /\ versionOf' = [versionOf EXCEPT ![s][h.current + 1] =
                          [state |-> "published", items |-> ItemsAt(s, edit[r].version)]]
        /\ scopes' = [scopes EXCEPT ![s] = [current |-> h.current + 1, draft |-> Nothing, published |-> h.current + 1]]
        /\ Answered(r) /\ UNCHANGED <<label, reading, resolved>>
    BY <1>1, <1>2, <1>4 DEF Publish
  <2>2. PICK v \in Versions : v = h.current + 1
    BY <2>1
  <2>3. /\ edit[r].version \in Versions /\ versionOf[s][edit[r].version] # Nothing
        /\ versionOf[s][edit[r].version].items \cap Faulty = {} /\ edit[r].version # Nothing
    BY <1>0, <1>1, NothingApart DEF Replies, EditsFit
  <2>4. h.draft = edit[r].version /\ h.draft # Nothing /\ h.draft = h.current
    BY <1>2, <1>3, <1>4, <2>3, BaseIsNewest DEF StillDraft
  <2>5. ItemsAt(s, edit[r].version) = Newest(h, versionOf[s]) /\ ItemsAt(s, edit[r].version) \cap Faulty = {}
    <3>1. Base(h) = edit[r].version
      BY <2>4 DEF Base
    <3>2. ItemsAt(s, edit[r].version) = Newest(h, versionOf[s])
      BY <1>2, <1>3, <3>1, BaseIsNewest
    <3> QED BY <2>3, <3>2 DEF ItemsAt
  <2>6. PICK S \in SUBSET Items : S = Newest(h, versionOf[s]) /\ S = ItemsAt(s, edit[r].version) /\ S \cap Faulty = {}
    BY <1>2, <1>3, <2>5, BaseIsNewest
  <2>7. PICK c \in Contents : c = [state |-> "published", items |-> S] /\ c.state = "published" /\ c.items = S
    <3>1. [state |-> "published", items |-> S] \in Contents
      BY Rows
    <3> QED BY <3>1
  <2>8. PICK n \in Heads : n = [current |-> v, draft |-> Nothing, published |-> v]
                           /\ n.current = v /\ n.draft = Nothing /\ n.published = v
    <3>1. [current |-> v, draft |-> Nothing, published |-> v] \in Heads
      BY Rows
    <3> QED BY <3>1
  <2>9. versionOf' = [versionOf EXCEPT ![s][v] = c]
    BY <2>1, <2>2, <2>6, <2>7
  <2>10. scopes' = [scopes EXCEPT ![s] = n]
    BY <2>1, <2>2, <2>8
  <2>11. Cardinality((Newest(h, versionOf[s]) \ c.items) \cup (c.items \ Newest(h, versionOf[s])))
           = IF c.state = "published" THEN 0 ELSE 1
    BY <2>6, <2>7, NoChange
  <2>12. HeadFits(n, [versionOf[s] EXCEPT ![v] = c])
    BY <1>3, <2>2, <2>6, <2>7, <2>8, <2>11, AppendFits
  <2>13. Appended(s, v, c, n)
    BY <2>9, <2>10 DEF Appended
  <2> QED BY <1>2, <2>1, <2>2, <2>12, <2>13, AppendKeeps
<1>5. CASE ~StillDraft(r, h)
  <2>1. Answered(r) /\ UNCHANGED <<label, scopes, versionOf, reading, resolved>>
    BY <1>1, <1>2, <1>5 DEF Publish
  <2> QED BY <2>1, AnsweredKeeps
<1> QED BY <1>4, <1>5

(* A request moves on and nothing is written.                                  *)
LEMMA EditMoves ==
  ASSUME Replies, NEW r \in Editors, NEW x \in EditState, x # NoEdit, edit' = [edit EXCEPT ![r] = x],
         scopes[x.source] # Nothing,
         x.at = "checked" => /\ x.version \in Versions /\ versionOf[x.source][x.version] # Nothing
                             /\ versionOf[x.source][x.version].items \cap Faulty = {},
         UNCHANGED <<label, scopes, versionOf, reading, resolved>>
  PROVE  Replies' /\ Kept
<1>1. edit' \in [Editors -> EditState] /\ edit'[r] = x /\ \A d \in Editors : d # r => edit'[d] = edit[d]
  BY DEF Replies, ReplyTyped
<1>2. ReplyTyped'
  BY <1>1 DEF Replies, ReplyTyped
<1>3. EditsFit'
  <2> SUFFICES ASSUME NEW d \in Editors, edit'[d] # NoEdit
               PROVE  /\ scopes[edit'[d].source] # Nothing
                      /\ edit'[d].at = "checked" =>
                           /\ edit'[d].version \in Versions /\ versionOf[edit'[d].source][edit'[d].version] # Nothing
                           /\ versionOf[edit'[d].source][edit'[d].version].items \cap Faulty = {}
    BY DEF EditsFit
  <2>1. CASE d = r
    BY <1>1, <2>1
  <2>2. CASE d # r
    <3>1. edit'[d] = edit[d]
      BY <1>1, <2>2
    <3> QED BY <3>1 DEF Replies, EditsFit
  <2> QED BY <2>1, <2>2
<1>4. ReadingsFit' /\ ResolvedFit' /\ Kept /\ \A s \in Sources : HeadFits(scopes'[s], versionOf'[s])
  BY DEF Replies, ReadingsFit, ResolvedFit, IsPublished, Kept
<1> QED BY <1>2, <1>3, <1>4 DEF Replies

LEMMA AskEditKeeps ==
  ASSUME Replies, NEW r \in Editors, AskEdit(r)
  PROVE  Replies' /\ Kept
<1>1. PICK s \in Sources, at \in {"save", "publish"}, i \in Items :
        /\ scopes[s] # Nothing
        /\ \E seen \in 0..scopes[s].current :
             edit' = [edit EXCEPT ![r] = [at |-> at, source |-> s, expected |-> seen, item |-> i, version |-> Nothing]]
  BY DEF AskEdit
<1>2. PICK seen \in 0..scopes[s].current :
        edit' = [edit EXCEPT ![r] = [at |-> at, source |-> s, expected |-> seen, item |-> i, version |-> Nothing]]
  BY <1>1
<1>3. seen \in 0..MaxConfig
  <2>1. scopes[s] \in Heads
    BY <1>1 DEF Replies, ReplyTyped
  <2>2. scopes[s].current \in 0..MaxConfig /\ MaxConfig \in Nat
    BY <2>1, HeadFields, NothingApart
  <2> QED BY <1>2, <2>2
<1>4. PICK x \in EditState : /\ x = [at |-> at, source |-> s, expected |-> seen, item |-> i, version |-> Nothing]
                             /\ x.at # "checked" /\ x.at # "idle" /\ x.source = s
  <2>1. [at |-> at, source |-> s, expected |-> seen, item |-> i, version |-> Nothing] \in EditState
    BY <1>3, Rows
  <2> QED BY <2>1
<1>5. x # NoEdit /\ edit' = [edit EXCEPT ![r] = x]
  BY <1>2, <1>4, EditStates
<1>6. UNCHANGED <<label, scopes, versionOf, reading, resolved>>
  BY DEF AskEdit
<1> QED BY <1>1, <1>4, <1>5, <1>6, EditMoves

LEMMA CheckDraftKeeps ==
  ASSUME Replies, NEW r \in Editors, CheckDraft(r)
  PROVE  Replies' /\ Kept
<1>0. edit[r] \in EditState /\ edit[r] # NoEdit /\ edit[r].source \in Sources /\ edit[r].at = "publish"
  BY EditStates DEF CheckDraft, Replies, ReplyTyped
<1>1. PICK s \in Sources : s = edit[r].source
  BY <1>0
<1>2. PICK h \in Heads : h = scopes[s]
  BY <1>0, <1>1 DEF Replies, ReplyTyped, EditsFit
<1>3. HeadFits(h, versionOf[s]) /\ versionOf[s] \in Shelf /\ h # Nothing
  BY <1>2, NothingApart DEF Replies, ReplyTyped
<1>4. UNCHANGED <<label, scopes, versionOf, reading, resolved>>
  BY DEF CheckDraft
<1>5. CASE h.draft # Nothing /\ ItemsAt(s, h.draft) \cap Faulty = {}
  <2>1. edit' = [edit EXCEPT ![r].at = "checked", ![r].version = h.draft]
    BY <1>1, <1>2, <1>5 DEF CheckDraft
  <2>2. h.draft \in Versions /\ versionOf[s][h.draft] # Nothing
    BY <1>2, <1>3, <1>5, BaseIsNewest
  <2>3. versionOf[s][h.draft].items \cap Faulty = {}
    BY <1>5 DEF ItemsAt
  <2>4. PICK x \in EditState : /\ x = [edit[r] EXCEPT !.at = "checked", !.version = h.draft]
                               /\ x.at = "checked" /\ x.version = h.draft /\ x.source = s
    <3>1. edit[r] \in [at : {"save", "publish", "checked"}, source : Sources, expected : 0..MaxConfig,
                       item : Items, version : Named]
      BY <1>0 DEF EditState
    <3>2. h.draft \in Named
      BY <2>2 DEF Named
    <3>3. PICK y : y = [edit[r] EXCEPT !.at = "checked", !.version = h.draft]
      OBVIOUS
    <3>4. /\ y \in [at : {"save", "publish", "checked"}, source : Sources, expected : 0..MaxConfig,
                    item : Items, version : Named]
          /\ y.at = "checked" /\ y.version = h.draft /\ y.source = edit[r].source
      BY <3>1, <3>2, <3>3
    <3>5. y \in EditState
      BY <3>4 DEF EditState
    <3> QED BY <1>1, <3>3, <3>4, <3>5
  <2>5. x # NoEdit
    BY <2>4, EditStates
  <2>6. edit' = [edit EXCEPT ![r] = x]
    BY <2>1, <2>4 DEF Replies, ReplyTyped
  <2> QED BY <1>2, <1>3, <1>4, <2>2, <2>3, <2>4, <2>5, <2>6, EditMoves
<1>6. CASE ~(h.draft # Nothing /\ ItemsAt(s, h.draft) \cap Faulty = {})
  <2>1. Answered(r)
    BY <1>1, <1>2, <1>6 DEF CheckDraft
  <2> QED BY <1>4, <2>1, AnsweredKeeps
<1> QED BY <1>5, <1>6

LEMMA MoveMemberKeeps ==
  ASSUME Replies, NEW m \in Members, MoveMember(m)
  PROVE  Replies' /\ Kept
<1>1. UNCHANGED <<scopes, versionOf, edit, reading, resolved>> /\ label' \in [Members -> Groups \cup {Nothing}]
  BY DEF MoveMember, Replies, ReplyTyped
<1>2. ReplyTyped' /\ Kept
  BY <1>1 DEF Replies, ReplyTyped, Kept
<1>3. \A s \in Sources : HeadFits(scopes'[s], versionOf'[s])
  BY <1>1 DEF Replies
<1> QED BY <1>1, <1>2, <1>3, RestKeeps

(* A resolution reads on.                                                      *)
LEMMA ReadingMoves ==
  ASSUME Replies, NEW q \in Readers, NEW x \in ReadingState, reading' = [reading EXCEPT ![q] = x],
         x # NoEdit /\ x.at = "snapshot" => IsPublished(x.source, x.version),
         resolved' \subseteq [member : Members, source : Sources, version : Versions],
         \A a \in resolved' : a \in resolved \/ IsPublished(a.source, a.version),
         UNCHANGED <<label, scopes, versionOf, edit>>
  PROVE  Replies' /\ Kept
<1>1. reading' \in [Readers -> ReadingState] /\ reading'[q] = x /\ \A o \in Readers : o # q => reading'[o] = reading[o]
  BY DEF Replies, ReplyTyped
<1>2. ReplyTyped'
  BY <1>1 DEF Replies, ReplyTyped
<1>3. EditsFit' /\ Kept /\ \A s \in Sources : HeadFits(scopes'[s], versionOf'[s])
  BY DEF Replies, EditsFit, Kept
<1>4. ReadingsFit'
  <2> SUFFICES ASSUME NEW o \in Readers, reading'[o] # NoEdit, reading'[o].at = "snapshot"
               PROVE  IsPublished(reading'[o].source, reading'[o].version)
    BY DEF ReadingsFit, IsPublished
  <2>1. CASE o = q
    BY <1>1, <2>1
  <2>2. CASE o # q
    <3>1. reading'[o] = reading[o]
      BY <1>1, <2>2
    <3> QED BY <3>1 DEF Replies, ReadingsFit
  <2> QED BY <2>1, <2>2
<1>5. ResolvedFit'
  <2> SUFFICES ASSUME NEW a \in resolved' PROVE IsPublished(a.source, a.version)
    BY DEF ResolvedFit, IsPublished
  <2> QED BY DEF Replies, ResolvedFit
<1> QED BY <1>2, <1>3, <1>4, <1>5 DEF Replies

LEMMA ReadSourceKeeps ==
  ASSUME Replies, NEW q \in Readers, ReadSource(q)
  PROVE  Replies' /\ Kept
<1>1. PICK m \in Members :
        reading' = [reading EXCEPT ![q] = [at |-> "head", member |-> m, source |-> SourceOf(m), version |-> Nothing]]
  BY DEF ReadSource
<1>2. SourceOf(m) \in Sources
  BY DEF SourceOf, Sources, Replies, ReplyTyped
<1>3. PICK x \in ReadingState :
        x = [at |-> "head", member |-> m, source |-> SourceOf(m), version |-> Nothing] /\ x.at # "snapshot"
  <2>1. [at |-> "head", member |-> m, source |-> SourceOf(m), version |-> Nothing] \in ReadingState
    BY <1>2, Rows
  <2> QED BY <2>1
<1>4. reading' = [reading EXCEPT ![q] = x] /\ UNCHANGED <<label, scopes, versionOf, edit, resolved>>
  BY <1>1, <1>3 DEF ReadSource
<1>5. resolved' \subseteq [member : Members, source : Sources, version : Versions] /\ \A a \in resolved' : a \in resolved
  BY <1>4 DEF Replies, ReplyTyped
<1> QED BY <1>3, <1>4, <1>5, ReadingMoves

LEMMA ReadHeadKeeps ==
  ASSUME Replies, NEW q \in Readers, ReadHead(q)
  PROVE  Replies' /\ Kept
<1>0. reading[q] \in ReadingState /\ reading[q] # NoEdit /\ reading[q].source \in Sources
  BY ReadingStates DEF ReadHead, Replies, ReplyTyped
<1>1. UNCHANGED <<label, scopes, versionOf, edit, resolved>>
  BY DEF ReadHead
<1>2. resolved' \subseteq [member : Members, source : Sources, version : Versions] /\ \A a \in resolved' : a \in resolved
  BY <1>1 DEF Replies, ReplyTyped
<1>3. PICK h : h = scopes[reading[q].source]
  OBVIOUS
<1>4. CASE h = Nothing \/ InForce(h) = Nothing
  <2>1. reading' = [reading EXCEPT ![q] = NoEdit]
    BY <1>3, <1>4 DEF ReadHead
  <2> QED BY <1>1, <1>2, <2>1, ReadingStates, ReadingMoves
<1>5. CASE ~(h = Nothing \/ InForce(h) = Nothing)
  <2>1. reading' = [reading EXCEPT ![q] = [reading[q] EXCEPT !.at = "snapshot", !.version = InForce(h)]]
    BY <1>3, <1>5 DEF ReadHead
  <2>2. h \in Heads /\ h.published # Nothing /\ HeadFits(h, versionOf[reading[q].source])
    BY <1>0, <1>3, <1>5 DEF Replies, ReplyTyped, InForce
  <2>3. /\ h.published \in Versions /\ h.published <= h.current
        /\ versionOf[reading[q].source][h.published].state = "published"
    BY <2>2, HeadFields, NothingApart DEF HeadFits, Headed
  <2>4. versionOf[reading[q].source][h.published] # Nothing
    BY <2>2, <2>3, NothingApart DEF HeadFits, Shelved
  <2>5. PICK x \in ReadingState : /\ x = [reading[q] EXCEPT !.at = "snapshot", !.version = h.published]
                                  /\ x.source = reading[q].source /\ x.version = h.published
    <3>1. reading[q] \in [at : {"head", "snapshot"}, member : Members, source : Sources, version : Named]
      BY <1>0 DEF ReadingState
    <3>2. h.published \in Named
      BY <2>3 DEF Named
    <3>3. PICK y : y = [reading[q] EXCEPT !.at = "snapshot", !.version = h.published]
      OBVIOUS
    <3>4. /\ y \in [at : {"head", "snapshot"}, member : Members, source : Sources, version : Named]
          /\ y.source = reading[q].source /\ y.version = h.published
      BY <3>1, <3>2, <3>3
    <3>5. y \in ReadingState
      BY <3>4 DEF ReadingState
    <3> QED BY <3>3, <3>4, <3>5
  <2>6. reading' = [reading EXCEPT ![q] = x]
    BY <2>1, <2>5 DEF InForce
  <2>7. IsPublished(x.source, x.version)
    BY <2>3, <2>4, <2>5 DEF IsPublished
  <2> QED BY <1>1, <1>2, <2>6, <2>7, ReadingMoves
<1> QED BY <1>4, <1>5

LEMMA ReadVersionKeeps ==
  ASSUME Replies, NEW q \in Readers, ReadVersion(q)
  PROVE  Replies' /\ Kept
<1>1. /\ reading[q] # NoEdit /\ reading[q].at = "snapshot" /\ reading' = [reading EXCEPT ![q] = NoEdit]
      /\ resolved' = resolved \cup
           {[member |-> reading[q].member, source |-> reading[q].source, version |-> reading[q].version]}
      /\ UNCHANGED <<label, scopes, versionOf, edit>>
  BY DEF ReadVersion
<1>2. reading[q].member \in Members /\ reading[q].source \in Sources /\ IsPublished(reading[q].source, reading[q].version)
  BY <1>1, ReadingStates DEF Replies, ReplyTyped, ReadingsFit
<1>3. PICK a : /\ a = [member |-> reading[q].member, source |-> reading[q].source, version |-> reading[q].version]
               /\ a \in [member : Members, source : Sources, version : Versions]
               /\ IsPublished(a.source, a.version)
  <2>1. PICK a : a = [member |-> reading[q].member, source |-> reading[q].source, version |-> reading[q].version]
    OBVIOUS
  <2>2. a.source = reading[q].source /\ a.version = reading[q].version
    BY <2>1
  <2>3. a \in [member : Members, source : Sources, version : Versions]
    BY <1>2, <2>1 DEF IsPublished
  <2> QED BY <1>2, <2>1, <2>2, <2>3
<1>4. resolved' = resolved \cup {a}
  BY <1>1, <1>3
<1>5. /\ resolved' \subseteq [member : Members, source : Sources, version : Versions]
      /\ \A b \in resolved' : b \in resolved \/ IsPublished(b.source, b.version)
  BY <1>3, <1>4 DEF Replies, ReplyTyped
<1> QED BY <1>1, <1>5, ReadingStates, ReadingMoves

LEMMA RepliesStart == ReplyInit => Replies
<1> SUFFICES ASSUME ReplyInit PROVE Replies
  OBVIOUS
<1>1. /\ scopes \in [Sources -> Heads \cup {Nothing}] /\ versionOf \in [Sources -> Shelf]
      /\ edit \in [Editors -> EditState] /\ reading \in [Readers -> ReadingState] /\ resolved = {}
  BY EditStates, ReadingStates DEF ReplyInit, Shelf
<1>2. ReplyTyped
  BY <1>1 DEF ReplyInit, ReplyTyped
<1>3. EditsFit /\ ReadingsFit /\ ResolvedFit
  BY DEF ReplyInit, EditsFit, ReadingsFit, ResolvedFit
<1>4. \A s \in Sources : HeadFits(scopes[s], versionOf[s])
  BY DEF ReplyInit, HeadFits, Shelved, Headed, OneByOne, Clean
<1> QED BY <1>2, <1>3, <1>4 DEF Replies

LEMMA RepliesNext == Replies /\ [ReplyNext]_replyVars => Replies' /\ Kept
<1> SUFFICES ASSUME Replies, [ReplyNext]_replyVars PROVE Replies' /\ Kept
  OBVIOUS
<1>1. CASE \E s \in Sources : EnsureScope(s)
  BY <1>1, EnsureScopeKeeps
<1>2. CASE \E r \in Editors : AskEdit(r) \/ SaveDraft(r) \/ CheckDraft(r) \/ Publish(r)
  BY <1>2, AskEditKeeps, SaveDraftKeeps, CheckDraftKeeps, PublishKeeps
<1>3. CASE \E m \in Members : MoveMember(m)
  BY <1>3, MoveMemberKeeps
<1>4. CASE \E q \in Readers : ReadSource(q) \/ ReadHead(q) \/ ReadVersion(q)
  BY <1>4, ReadSourceKeeps, ReadHeadKeeps, ReadVersionKeeps
<1>5. CASE UNCHANGED replyVars
  <2>1. UNCHANGED <<label, scopes, versionOf, edit, reading, resolved>>
    BY <1>5 DEF replyVars
  <2>2. ReplyTyped' /\ Kept /\ \A s \in Sources : HeadFits(scopes'[s], versionOf'[s])
    BY <2>1 DEF Replies, ReplyTyped, Kept
  <2> QED BY <2>1, <2>2, RestKeeps
<1> QED BY <1>1, <1>2, <1>3, <1>4, <1>5 DEF ReplyNext

LEMMA RepliesAlways == ReplySpec => []Replies
<1>1. Replies /\ [ReplyNext]_replyVars => Replies'
  BY RepliesNext
<1> QED BY <1>1, RepliesStart, PTL DEF ReplySpec

LEMMA ReplyTypes == ReplySpec => []ReplyTypeOK
<1>1. Replies => ReplyTypeOK
  <2> SUFFICES ASSUME Replies PROVE ReplyTypeOK
    OBVIOUS
  <2>1. \A r \in Editors : edit[r] \in EditState
    BY DEF Replies, ReplyTyped
  <2>2. \A q \in Readers : reading[q] \in ReadingState
    BY DEF Replies, ReplyTyped
  <2> QED BY <2>1, <2>2, EditStates, ReadingStates DEF Replies, ReplyTyped, ReplyTypeOK, Shelf
<1> QED BY <1>1, RepliesAlways, PTL

(* No edit is lost, and what an account replies with was checked.              *)
LEMMA EditsAreKept == Replies => EditsAddUp /\ ResolvedWasChecked
<1> SUFFICES ASSUME Replies PROVE EditsAddUp /\ ResolvedWasChecked
  OBVIOUS
<1>1. EditsAddUp
  <2> SUFFICES ASSUME NEW s \in Sources, scopes[s] # Nothing
               PROVE  /\ \A v \in 1..scopes[s].current :
                           LET before == IF v = 1 THEN {} ELSE versionOf[s][v - 1].items
                               changed == (before \ versionOf[s][v].items) \cup (versionOf[s][v].items \ before)
                           IN Cardinality(changed) = IF versionOf[s][v].state = "published" THEN 0 ELSE 1
                      /\ scopes[s].current = 0 \/ scopes[s].current = Base(scopes[s])
    BY DEF EditsAddUp
  <2>1. scopes[s] \in Heads /\ versionOf[s] \in Shelf /\ HeadFits(scopes[s], versionOf[s])
    BY DEF Replies, ReplyTyped
  <2>2. scopes[s].current = 0 \/ scopes[s].current = Base(scopes[s])
    BY <2>1, BaseIsNewest
  <2>3. \A v \in 1..scopes[s].current :
          Cardinality(Changes(versionOf[s], v)) = IF versionOf[s][v].state = "published" THEN 0 ELSE 1
    BY <2>1 DEF HeadFits, OneByOne
  <2> QED BY <2>2, <2>3 DEF Changes, Before
<1>2. ResolvedWasChecked
  <2> SUFFICES ASSUME NEW a \in resolved
               PROVE  /\ versionOf[a.source][a.version] # Nothing
                      /\ versionOf[a.source][a.version].state = "published"
                      /\ versionOf[a.source][a.version].items \cap Faulty = {}
    BY DEF ResolvedWasChecked
  <2>1. a.source \in Sources /\ IsPublished(a.source, a.version)
    BY DEF Replies, ReplyTyped, ResolvedFit
  <2>2. Clean(versionOf[a.source], a.version)
    BY <2>1 DEF Replies, HeadFits, IsPublished
  <2> QED BY <2>1, <2>2 DEF IsPublished, Clean
<1> QED BY <1>1, <1>2

(* A version, once written, stays.                                             *)
LEMMA VersionsAreKept == ReplySpec => VersionsStay
<1>1. Replies /\ [ReplyNext]_replyVars =>
        [\A s \in Sources, v \in Versions : versionOf[s][v] # Nothing => versionOf'[s][v] = versionOf[s][v]]_replyVars
  BY RepliesNext DEF Kept
<1> QED BY <1>1, RepliesAlways, PTL DEF ReplySpec, VersionsStay


-----------------------------------------------------------------------------
(* Doors.                                                                      *)

Forms == Commits \cup {"read", "refresh", "logout"}
DoorState == [form : Forms, listed : BOOLEAN]
Content == [Fields -> Visits \cup {Unset}]
PageState == [revision : 0..MaxSaved, content : Content]
Anyone == Subjects \cup {CHOOSE y \in Subjects : TRUE}

New == {NewVisit}
Loaded == [at : {"loaded"}, page : PageState, form : Pages]
Under == [at : {"listed", "act", "merged", "telling"}, door : DoorState, card : Cards, fields : SUBSET Fields,
          subject : Anyone, wrote : BOOLEAN, told : {Unset}, left : SUBSET Known0,
          merged : Content \cup {Unset}, seen : PageState \cup {Unset}]
Whys == {"ok", "unavailable", "error", "conflict", "account_not_found", "account_lookup_failed"}
Over == [at : {"over"}, door : DoorState, fields : SUBSET Fields, wrote : BOOLEAN, left : SUBSET Known0, told : Whys]
VisitState == New \cup Loaded \cup Under \cup Over

(* What an operator loaded is as old as its revision says.                     *)
SeenFits(form, seen) ==
  /\ seen.revision <= page[form].revision
  /\ seen.revision = page[form].revision => seen.content = page[form].content

UnderFits(x) ==
  /\ x.card \in card
  /\ x.door.form \in {"command", "risk"} => x.door.listed
  /\ x.at # "listed" /\ x.door.listed => x.subject \in Known0
  /\ x.door.form \in Pages => x.seen \in PageState /\ SeenFits(x.door.form, x.seen)
  /\ x.at = "merged" => x.merged \in Content
  /\ x.at # "telling" => ~x.wrote /\ x.left = {}
  /\ x.at = "telling" => x.wrote
OverFits(x) ==
  /\ x.told = "ok" /\ x.door.form \in Commits => x.wrote
  /\ x.told \in {"conflict", "account_not_found", "account_lookup_failed"} => ~x.wrote
  /\ x.told = "ok" => x.left = {}
Fits(x) ==
  /\ x \in Loaded => SeenFits(x.form, x.page)
  /\ x \in Under => UnderFits(x)
  /\ x \in Over => OverFits(x)

ConsoleTyped ==
  /\ page \in [Pages -> PageState] /\ visit \in [Visits -> VisitState]
  /\ card \subseteq Cards /\ torn \subseteq card /\ left \subseteq Known0 /\ accepted \subseteq Visits
  /\ touched \subseteq Known0
Consoling == ConsoleTyped /\ \A v \in Visits : Fits(visit[v])

-----------------------------------------------------------------------------
(* The forms of the doors; those to an account's row look the account up.      *)
LEMMA DoorsOfForms ==
  ConsoleDoors \subseteq
    {Door("read"), Door("fields"), Door("merged"), Door("revision"), Door("replace"), Door("submit"),
     Door("refresh"), Door("logout"), Door("customer"),
     OfListed(Door("read")), OfListed(Door("command")), OfListed(Door("risk"))}
BY DEF ConsoleDoors, Get, PutFields, PutMerged, PutAtRevision, Replace, Submit,
  Refresh1, Logout1, TasksGet, TaskDraft, TaskStep, EnvironmentsGet, SlowStartPut, RuleModePut,
  CommentApprovalPut, GlobalPolicyGet, GlobalPolicyPut, EnvironmentPolicyGet, EnvironmentPolicyPut,
  GroupCommentPolicyPut, CustomersGet, CustomerCreate, CustomerPatch, CustomerScopePut, CustomerKeyRotate,
  DashboardGet, GroupsGet, GroupTemplatesPut, GroupsImport, GroupScopesPut, GroupEnabledPatch,
  GroupProgressGet, MediaGet, MediaUpload, MediaSetPatch, AccountCommand, GroupLabelPut, RoutesPut,
  GroupDeliveryPut, ContactInfoPut, CommentConfigPut, RiskStatusPost, RiskQuotaPost, RiskOutcomeGet,
  DispatchPost, ModelConfigPut, CredentialPut, RoleConfigPut, CategoryConfigPut, RolePromptGet, QuotasPut,
  PacingPut, ScheduleGlobalPut, JoinGroupPut, SchedulePut, SessionLimitsPut, HotLeadPut, ResumeConfigPut,
  RestrictedPolicyPut, PersonaPut, ContactManualPut, CuratedTask, CuratedGet, CuratedDelete, AlertResolve

LEMMA DoorStates ==
  ASSUME NEW d \in ConsoleDoors
  PROVE  d \in DoorState /\ (d.form \in {"command", "risk"} => d.listed)
<1>1. \A f \in Forms : /\ Door(f) \in DoorState /\ Door(f).form = f
                       /\ OfListed(Door(f)) \in DoorState /\ OfListed(Door(f)).form = f /\ OfListed(Door(f)).listed
  BY DEF Door, OfListed, DoorState
<1>2. {"read", "fields", "merged", "revision", "replace", "submit", "refresh", "logout", "customer", "command", "risk"}
        \subseteq Forms
  BY DEF Forms, Commits, Pages
<1>3. PICK f \in Forms :
        \/ d = Door(f) /\ f \notin {"command", "risk"}
        \/ d = OfListed(Door(f))
  BY <1>2, DoorsOfForms
<1> QED BY <1>1, <1>3

LEMMA VisitStages ==
  /\ \A x \in New : x.at = "new"
  /\ \A x \in Loaded : x.at = "loaded"
  /\ \A x \in Under : x.at \in {"listed", "act", "merged", "telling"}
  /\ \A x \in Over : x.at = "over"
  /\ \A x \in VisitState : /\ x.at \in {"new", "loaded", "listed", "act", "merged", "telling", "over"}
                           /\ x.at = "new" => x = NewVisit
                           /\ x.at = "loaded" => x \in Loaded
                           /\ x.at \in {"listed", "act", "merged", "telling"} => x \in Under
                           /\ x.at = "over" => x \in Over
<1>1. /\ \A x \in New : x.at = "new"
      /\ \A x \in Loaded : x.at = "loaded"
      /\ \A x \in Under : x.at \in {"listed", "act", "merged", "telling"}
      /\ \A x \in Over : x.at = "over"
  BY DEF New, Loaded, Under, Over, NewVisit
<1> QED BY <1>1 DEF VisitState, New

LEMMA PageFields ==
  ASSUME NEW s \in PageState
  PROVE  s.revision \in 0..MaxSaved /\ s.revision \in Int /\ s.content \in Content
BY ConsoleAssumption DEF PageState

(* Pages only go forward.                                                      *)
PagesGo ==
  /\ page' \in [Pages -> PageState]
  /\ \A form \in Pages : page'[form] = page[form] \/ page'[form].revision > page[form].revision

LEMMA SeenStays ==
  ASSUME Consoling, PagesGo, NEW form \in Pages, NEW s \in PageState, SeenFits(form, s)
  PROVE  SeenFits(form, s)'
<1>1. page[form] \in PageState /\ page'[form] \in PageState
  BY DEF Consoling, ConsoleTyped, PagesGo
<1>2. s.revision \in Int /\ page[form].revision \in Int /\ page'[form].revision \in Int
  BY <1>1, PageFields
<1> QED BY <1>2 DEF SeenFits, PagesGo

LEMMA FitsStays ==
  ASSUME Consoling, PagesGo, card \subseteq card', NEW x \in VisitState, Fits(x)
  PROVE  Fits(x)'
<1>1. CASE x.at = "new"
  BY <1>1, VisitStages DEF Fits
<1>2. CASE x.at = "loaded"
  <2>1. x \in Loaded /\ x \notin Under /\ x \notin Over
    BY <1>2, VisitStages
  <2>2. x.form \in Pages /\ x.page \in PageState
    BY <2>1 DEF Loaded
  <2>3. SeenFits(x.form, x.page)'
    BY <2>1, <2>2, SeenStays DEF Fits
  <2> QED BY <2>1, <2>3 DEF Fits
<1>3. CASE x.at \in {"listed", "act", "merged", "telling"}
  <2>1. x \in Under /\ x \notin Loaded /\ x \notin Over
    BY <1>3, VisitStages
  <2>2. UnderFits(x)
    BY <2>1 DEF Fits
  <2>3. x.door.form \in Pages => x.seen \in PageState /\ SeenFits(x.door.form, x.seen)'
    BY <2>2, SeenStays DEF UnderFits
  <2>4. UnderFits(x)'
    BY <2>2, <2>3 DEF UnderFits
  <2> QED BY <2>1, <2>4 DEF Fits
<1>4. CASE x.at = "over"
  <2>1. x \in Over /\ x \notin Loaded /\ x \notin Under
    BY <1>4, VisitStages
  <2> QED BY <2>1 DEF Fits, OverFits
<1> QED BY <1>1, <1>2, <1>3, <1>4, VisitStages

(* A step of one visit.                                                        *)
LEMMA VisitMoves ==
  ASSUME Consoling, PagesGo, NEW v \in Visits, NEW x \in VisitState, visit' = [visit EXCEPT ![v] = x], Fits(x)',
         card \subseteq card', card' \subseteq Cards, torn' \subseteq card',
         left' \subseteq Known0, accepted' \subseteq Visits, touched' \subseteq Known0
  PROVE  Consoling'
<1>1. visit' \in [Visits -> VisitState] /\ visit'[v] = x /\ \A u \in Visits : u # v => visit'[u] = visit[u]
  BY DEF Consoling, ConsoleTyped
<1>2. ConsoleTyped'
  BY <1>1 DEF ConsoleTyped, PagesGo
<1>3. ASSUME NEW u \in Visits
      PROVE  Fits(visit[u])'
  <2>1. PICK y \in VisitState : y = visit'[u] /\ Fits(y)'
    <3>1. CASE u = v
      BY <1>1, <3>1
    <3>2. CASE u # v
      <4>1. PICK z \in VisitState : z = visit[u] /\ Fits(z)
        BY DEF Consoling, ConsoleTyped
      <4>2. Fits(z)' /\ z = visit'[u]
        BY <1>1, <3>2, <4>1, FitsStays
      <4> QED BY <4>2
    <3> QED BY <3>1, <3>2
  <2> QED BY <2>1 DEF Fits, UnderFits, OverFits, SeenFits
<1> QED BY <1>2, <1>3 DEF Consoling

-----------------------------------------------------------------------------
(* Requests that end, and requests under way.                                  *)
LEMMA UnderVisit ==
  ASSUME Consoling, NEW v \in Visits, visit[v].at \in {"listed", "act", "merged", "telling"}
  PROVE  visit[v] \in Under /\ UnderFits(visit[v]) /\ visit[v] \in VisitState
<1>1. visit[v] \in VisitState /\ Fits(visit[v])
  BY DEF Consoling, ConsoleTyped
<1> QED BY <1>1, VisitStages DEF Fits

MayEnd(x, why) ==
  /\ why = "ok" /\ x.door.form \in Commits => x.wrote
  /\ why \in {"conflict", "account_not_found", "account_lookup_failed"} => ~x.wrote
  /\ why = "ok" => x.left = {}

LEMMA OversFit ==
  ASSUME NEW x \in Over, OverFits(x)
  PROVE  x \in VisitState /\ Fits(x)'
<1>1. x.at = "over" /\ x \notin Loaded /\ x \notin Under
  BY VisitStages
<1> QED BY <1>1 DEF Fits, OverFits, VisitState

LEMMA UndersFit ==
  ASSUME NEW x \in Under, UnderFits(x)'
  PROVE  x \in VisitState /\ Fits(x)'
<1>1. x.at # "over" /\ x.at # "loaded" /\ x \notin Loaded /\ x \notin Over
  BY VisitStages
<1> QED BY <1>1 DEF Fits, VisitState

Wrote(v, why, wrote) == [Ended(v, why) EXCEPT !.wrote = wrote]
Ending(x, v, why, wrote) ==
  x \in Over /\ x.door = visit[v].door /\ x.wrote = wrote /\ x.left = visit[v].left /\ x.told = why
LEMMA EndedVisit ==
  ASSUME NEW v \in Visits, visit[v] \in Under, NEW why \in Whys, NEW wrote \in BOOLEAN
  PROVE  Ending(Wrote(v, why, wrote), v, why, wrote) /\ Ended(v, why) = Wrote(v, why, visit[v].wrote)
<1>1. /\ visit[v].door \in DoorState /\ visit[v].fields \in SUBSET Fields /\ visit[v].wrote \in BOOLEAN
      /\ visit[v].left \in SUBSET Known0
  BY DEF Under
<1> QED BY <1>1 DEF Over, Ended, Wrote, Ending

StateStays == page' = page /\ card' = card /\ torn' = torn /\ touched' = touched /\ left' = left /\ accepted' = accepted
Sound ==
  /\ PagesGo /\ card \subseteq card' /\ card' \subseteq Cards /\ torn' \subseteq card'
  /\ left' \subseteq Known0 /\ accepted' \subseteq Visits /\ touched' \subseteq Known0

LEMMA NothingElse ==
  ASSUME Consoling
  PROVE  /\ page' = page => PagesGo
         /\ StateStays => Sound
         /\ UNCHANGED <<page, touched, left, accepted>> /\ Stays => StateStays
<1>1. page' = page => PagesGo
  BY DEF Consoling, ConsoleTyped, PagesGo
<1> QED BY <1>1 DEF Consoling, ConsoleTyped, StateStays, Sound, Stays

LEMMA Moves ==
  ASSUME Consoling, Sound, NEW v \in Visits, NEW x \in VisitState, visit' = [visit EXCEPT ![v] = x], Fits(x)'
  PROVE  Consoling'
BY VisitMoves DEF Sound

LEMMA Ends ==
  ASSUME Consoling, Sound, NEW v \in Visits, visit[v].at \in {"listed", "act", "merged", "telling"},
         NEW why \in Whys, MayEnd(visit[v], why), End(v, why)
  PROVE  Consoling'
<1>1. visit[v] \in Under
  BY UnderVisit
<1>2. visit[v].wrote \in BOOLEAN
  BY <1>1 DEF Under
<1>3. PICK x : x = Wrote(v, why, visit[v].wrote)
  OBVIOUS
<1>4. Ending(x, v, why, visit[v].wrote) /\ Ended(v, why) = x /\ x \in Over
  BY <1>1, <1>2, <1>3, EndedVisit DEF Ending
<1>5. OverFits(x)
  BY <1>4 DEF OverFits, MayEnd, Ending
<1>6. x \in VisitState /\ Fits(x)'
  BY <1>4, <1>5, OversFit
<1>7. visit' = [visit EXCEPT ![v] = x]
  BY <1>4 DEF End
<1> QED BY <1>6, <1>7, Moves

LEMMA WritesConsoling ==
  ASSUME Consoling, Sound, NEW v \in Visits, visit[v].at \in {"act", "merged"}, Done(v) \/ Lost(v)
  PROVE  Consoling'
<1>1. visit[v] \in Under /\ UnderFits(visit[v])
  BY UnderVisit
<1>2. visit[v].left = {}
  BY <1>1 DEF UnderFits
<1>3. PICK why \in {"ok", "unavailable"} : visit' = [visit EXCEPT ![v] = [Ended(v, why) EXCEPT !.wrote = TRUE]]
  BY DEF Done, Lost
<1>w. PICK wrote \in BOOLEAN : wrote = TRUE
  OBVIOUS
<1>4. PICK x : x = Wrote(v, why, wrote)
  OBVIOUS
<1>5. why \in Whys
  BY DEF Whys
<1>6. Ending(x, v, why, wrote) /\ x \in Over
  BY <1>1, <1>4, <1>5, EndedVisit DEF Ending
<1>7. OverFits(x)
  BY <1>2, <1>3, <1>6, <1>w DEF OverFits, Ending
<1>8. x \in VisitState /\ Fits(x)'
  BY <1>6, <1>7, OversFit
<1>9. visit' = [visit EXCEPT ![v] = x]
  BY <1>3, <1>4, <1>w DEF Wrote
<1> QED BY <1>8, <1>9, Moves

-----------------------------------------------------------------------------
(* One lemma per operation.                                                    *)
LEMMA LoadConsoling ==
  ASSUME Consoling, NEW v \in Visits, NEW form \in Pages, Load(v, form)
  PROVE  Consoling'
<1>1. Sound /\ page' = page
  BY NothingElse DEF Load, StateStays
<1>2. page[form] \in PageState
  BY DEF Consoling, ConsoleTyped
<1>3. PICK x : x = [at |-> "loaded", page |-> page[form], form |-> form]
  OBVIOUS
<1>4. x \in Loaded /\ x.form = form /\ x.page = page[form]
  BY <1>2, <1>3 DEF Loaded
<1>5. x \in VisitState /\ x \notin Under /\ x \notin Over
  BY <1>4, VisitStages DEF VisitState
<1>6. page[form].revision <= page[form].revision
  BY <1>2, PageFields
<1>7. SeenFits(form, page[form])
  BY <1>6 DEF SeenFits
<1>8. Fits(x)'
  BY <1>1, <1>4, <1>5, <1>7 DEF Fits, SeenFits
<1> QED BY <1>1, <1>3, <1>5, <1>8, Moves DEF Load

LEMMA SendRequestConsoling ==
  ASSUME Consoling, NEW v \in Visits, NEW d \in ConsoleDoors, NEW k \in Cards, NEW fs \in SUBSET Fields,
         NEW x \in Anyone, SendRequest(v, d, k, fs, x)
  PROVE  Consoling'
<1>1. StateStays /\ Sound
  BY NothingElse DEF SendRequest
<1>2. d \in DoorState /\ (d.form \in {"command", "risk"} => d.listed)
  BY DoorStates
<1>3. k \in card
  BY DEF SendRequest, Authorized
<1>4. visit[v] \in VisitState /\ Fits(visit[v])
  BY DEF Consoling, ConsoleTyped
<1>5. PICK seen : seen = IF visit[v] = NewVisit THEN Unset ELSE visit[v].page
  OBVIOUS
<1>6. seen \in PageState \cup {Unset} /\ (d.form \in Pages => seen \in PageState /\ SeenFits(d.form, seen))
  <2>1. CASE d.form \in Pages
    <3>1. visit[v].at = "loaded" /\ visit[v].form = d.form
      BY <2>1 DEF SendRequest
    <3>2. visit[v] \in Loaded /\ visit[v] # NewVisit
      BY <1>4, <3>1, VisitStages DEF NewVisit
    <3>3. visit[v].page \in PageState /\ SeenFits(visit[v].form, visit[v].page)
      BY <1>4, <3>2 DEF Fits, Loaded
    <3> QED BY <1>5, <3>1, <3>2, <3>3
  <2>2. CASE d.form \notin Pages
    BY <1>5, <2>2 DEF SendRequest
  <2> QED BY <2>1, <2>2
<1>7. PICK at : at = IF d.listed THEN "listed" ELSE "act"
  OBVIOUS
<1>8. PICK r : r = [Request(v, d, k, fs, x) EXCEPT !.at = at]
  OBVIOUS
<1>9. /\ r.at = at /\ r.door = d /\ r.card = k /\ r.fields = fs /\ r.subject = x /\ r.wrote = FALSE
      /\ r.left = {} /\ r.seen = seen /\ r \in Under
  BY <1>2, <1>5, <1>6, <1>7, <1>8 DEF Request, Under
<1>10. UnderFits(r)
  BY <1>2, <1>3, <1>6, <1>7, <1>9 DEF UnderFits
<1>11. UnderFits(r)'
  BY <1>1, <1>10 DEF UnderFits, SeenFits, StateStays
<1>12. r \in VisitState /\ Fits(r)'
  BY <1>9, <1>11, UndersFit
<1>13. visit' = [visit EXCEPT ![v] = r]
  BY <1>7, <1>8 DEF SendRequest
<1> QED BY <1>1, <1>12, <1>13, Moves

LEMMA AccountListedConsoling ==
  ASSUME Consoling, NEW v \in Visits, AccountListed(v)
  PROVE  Consoling'
<1>1. StateStays /\ Sound
  BY NothingElse DEF AccountListed
<1>2. visit[v] \in Under /\ UnderFits(visit[v])
  BY UnderVisit DEF AccountListed
<1>3. ~visit[v].wrote /\ visit[v].left = {}
  BY <1>2 DEF UnderFits, AccountListed
<1>4. CASE Exists(v) /\ visit' = [visit EXCEPT ![v].at = "act"]
  <2>1. PICK r : r = [visit[v] EXCEPT !.at = "act"]
    OBVIOUS
  <2>2. /\ r \in Under /\ r.at = "act" /\ r.card = visit[v].card /\ r.door = visit[v].door /\ r.subject = visit[v].subject
        /\ r.seen = visit[v].seen /\ r.wrote = visit[v].wrote /\ r.left = visit[v].left
    BY <1>2, <2>1 DEF Under
  <2>3. r.subject \in Known0
    BY <1>4, <2>2 DEF Exists
  <2>4. UnderFits(r)
    BY <1>2, <1>3, <2>2, <2>3 DEF UnderFits
  <2>5. UnderFits(r)'
    BY <1>1, <2>4 DEF UnderFits, SeenFits, StateStays
  <2>6. r \in VisitState /\ Fits(r)'
    BY <2>2, <2>5, UndersFit
  <2>7. visit' = [visit EXCEPT ![v] = r]
    BY <1>4, <2>1
  <2> QED BY <1>1, <2>6, <2>7, Moves
<1>5. CASE End(v, "account_not_found")
  BY <1>1, <1>3, <1>5, Ends DEF AccountListed, MayEnd, Whys
<1>6. CASE End(v, "account_lookup_failed")
  BY <1>1, <1>3, <1>6, Ends DEF AccountListed, MayEnd, Whys
<1> QED BY <1>4, <1>5, <1>6 DEF AccountListed

(* What an operator saves is a page.                                           *)
LEMMA SavedContent ==
  ASSUME Consoling, NEW v \in Visits, visit[v].at \in {"act", "merged"}, visit[v].door.form \in Pages
  PROVE  /\ FieldsSent(v, visit[v].door.form) \in Content
         /\ (visit[v].at = "merged") = (visit[v].door.form = "merged") => Saved(v, visit[v].door.form) \in Content
<1>1. visit[v] \in Under /\ UnderFits(visit[v])
  BY UnderVisit
<1>2. PICK form \in Pages : form = visit[v].door.form
  OBVIOUS
<1>3. page[form] \in PageState /\ visit[v].seen \in PageState
  BY <1>1, <1>2 DEF UnderFits, Consoling, ConsoleTyped
<1>4. page[form].content \in Content /\ visit[v].seen.content \in Content
  BY <1>3, PageFields
<1>5. FieldsSent(v, form) \in Content
  BY <1>4 DEF FieldsSent, Content
<1>6. Whole(v, form) \in Content
  BY <1>4 DEF Whole, Sent, Content
<1>7. visit[v].at = "merged" => visit[v].merged \in Content
  BY <1>1 DEF UnderFits
<1>8. (visit[v].at = "merged") = (form = "merged") => Saved(v, form) \in Content
  BY <1>5, <1>6, <1>7 DEF Saved
<1> QED BY <1>2, <1>5, <1>8

LEMMA MergeConsoling ==
  ASSUME Consoling, NEW v \in Visits, Merge(v)
  PROVE  Consoling'
<1>1. StateStays /\ Sound
  BY NothingElse DEF Merge
<1>2. visit[v] \in Under /\ UnderFits(visit[v])
  BY UnderVisit DEF Merge
<1>3. PICK c \in Content : c = FieldsSent(v, "merged")
  <2>1. visit[v].door.form \in Pages /\ visit[v].door.form = "merged"
    BY DEF Merge, Pages
  <2>2. FieldsSent(v, visit[v].door.form) \in Content
    BY <2>1, SavedContent DEF Merge
  <2> QED BY <2>1, <2>2
<1>4. PICK r : r = [visit[v] EXCEPT !.at = "merged", !.merged = c]
  OBVIOUS
<1>5. /\ r \in Under /\ r.at = "merged" /\ r.card = visit[v].card /\ r.door = visit[v].door /\ r.subject = visit[v].subject
      /\ r.seen = visit[v].seen /\ r.wrote = visit[v].wrote /\ r.left = visit[v].left /\ r.merged = c
  BY <1>2, <1>4 DEF Under
<1>6. UnderFits(r)
  BY <1>2, <1>5 DEF UnderFits, Merge
<1>7. UnderFits(r)'
  BY <1>1, <1>6 DEF UnderFits, SeenFits, StateStays
<1>8. r \in VisitState /\ Fits(r)'
  BY <1>5, <1>7, UndersFit
<1>9. visit' = [visit EXCEPT ![v] = r]
  BY <1>3, <1>4 DEF Merge
<1> QED BY <1>1, <1>8, <1>9, Moves

LEMMA SaveConsoling ==
  ASSUME Consoling, NEW v \in Visits, Save(v)
  PROVE  Consoling'
<1>1. visit[v] \in Under /\ UnderFits(visit[v])
  BY UnderVisit DEF Save
<1>2. PICK form \in Pages : form = visit[v].door.form
  BY DEF Save
<1>3. CASE AtRevision(v, form)
  <2>1. PICK c \in Content : c = Saved(v, form)
    BY <1>2, SavedContent DEF Save
  <2>2. page[form] \in PageState
    BY DEF Consoling, ConsoleTyped
  <2>3. page[form].revision \in 0..MaxSaved /\ page[form].revision \in Int /\ page[form].revision < MaxSaved
    BY <1>2, <1>3, <2>2, PageFields DEF Save
  <2>4. PICK s : s = [revision |-> page[form].revision + 1, content |-> c]
    OBVIOUS
  <2>5. page[form].revision + 1 \in 0..MaxSaved
    BY <2>3, ConsoleAssumption
  <2>6. s \in PageState /\ s.revision > page[form].revision
    BY <2>3, <2>4, <2>5 DEF PageState
  <2>7. page' = [page EXCEPT ![form] = s]
    BY <1>2, <1>3, <2>1, <2>4 DEF Save
  <2>8. PagesGo
    BY <2>6, <2>7 DEF PagesGo, Consoling, ConsoleTyped
  <2>9. Sound
    BY <2>8 DEF Sound, Save, Stays, Consoling, ConsoleTyped
  <2> QED BY <1>2, <1>3, <2>9, WritesConsoling DEF Save
<1>4. CASE ~AtRevision(v, form)
  <2>1. form = "revision" /\ End(v, "conflict") /\ page' = page
    BY <1>2, <1>4 DEF Save, AtRevision
  <2>2. Sound
    BY <2>1, NothingElse DEF Save, StateStays, Stays
  <2>3. MayEnd(visit[v], "conflict")
    BY <1>1 DEF MayEnd, UnderFits, Save
  <2> QED BY <2>1, <2>2, <2>3, Ends DEF Save, Whys
<1> QED BY <1>3, <1>4

LEMMA UnavailableConsoling ==
  ASSUME Consoling, NEW v \in Visits, Unavailable(v)
  PROVE  Consoling'
BY NothingElse, Ends DEF Unavailable, MayEnd, Whys

LEMMA ReadConsoling ==
  ASSUME Consoling, NEW v \in Visits, Read(v)
  PROVE  Consoling'
<1>1. visit[v].left = {}
  BY UnderVisit DEF Read, UnderFits
<1>2. MayEnd(visit[v], "ok")
  BY <1>1 DEF MayEnd, Read, Commits, Pages
<1> QED BY <1>2, NothingElse, Ends DEF Read, Whys

LEMMA SubmitCommandConsoling ==
  ASSUME Consoling, NEW v \in Visits, SubmitCommand(v)
  PROVE  Consoling'
<1>1. visit[v].door.form = "risk" => visit[v].subject \in Known0
  BY UnderVisit DEF SubmitCommand, UnderFits
<1>2. PagesGo
  BY NothingElse DEF SubmitCommand
<1>3. touched' \subseteq Known0 /\ accepted' \subseteq Visits
  BY <1>1 DEF SubmitCommand, Consoling, ConsoleTyped
<1>4. Sound
  BY <1>2, <1>3 DEF Sound, SubmitCommand, Stays, Consoling, ConsoleTyped
<1> QED BY <1>4, WritesConsoling DEF SubmitCommand

LEMMA PauseOrResumeConsoling ==
  ASSUME Consoling, NEW v \in Visits, PauseOrResume(v)
  PROVE  Consoling'
<1>1. visit[v].subject \in Known0
  BY UnderVisit DEF PauseOrResume, UnderFits
<1>2. PagesGo
  BY NothingElse DEF PauseOrResume
<1>4. Sound
  BY <1>1, <1>2 DEF Sound, PauseOrResume, Stays, Consoling, ConsoleTyped
<1> QED BY <1>4, WritesConsoling DEF PauseOrResume

LEMMA CommitCustomerConsoling ==
  ASSUME Consoling, NEW v \in Visits, NEW xs \in SUBSET Known0, CommitCustomer(v, xs)
  PROVE  Consoling'
<1>1. visit[v] \in Under /\ UnderFits(visit[v])
  BY UnderVisit DEF CommitCustomer
<1>2. PagesGo
  BY NothingElse DEF CommitCustomer
<1>3. Sound
  BY <1>2 DEF Sound, CommitCustomer, Stays, Consoling, ConsoleTyped
<1>w. PICK wrote \in BOOLEAN : wrote = TRUE
  OBVIOUS
<1>4. PICK r : r = [visit[v] EXCEPT !.at = "telling", !.wrote = wrote, !.left = xs]
  OBVIOUS
<1>5. /\ r \in Under /\ r.at = "telling" /\ r.card = visit[v].card /\ r.door = visit[v].door
      /\ r.subject = visit[v].subject /\ r.seen = visit[v].seen /\ r.wrote = wrote
  BY <1>1, <1>4 DEF Under
<1>6. visit[v].door.form \notin Pages /\ visit[v].at = "act"
  BY DEF CommitCustomer, Pages
<1>7. UnderFits(r)'
  BY <1>1, <1>3, <1>5, <1>6, <1>w DEF UnderFits, Sound
<1>8. r \in VisitState /\ Fits(r)'
  BY <1>5, <1>7, UndersFit
<1>9. visit' = [visit EXCEPT ![v] = r]
  BY <1>4, <1>w DEF CommitCustomer
<1> QED BY <1>3, <1>8, <1>9, Moves

LEMMA TellOneConsoling ==
  ASSUME Consoling, NEW v \in Visits, NEW x \in Known0, TellOne(v, x)
  PROVE  Consoling'
<1>1. visit[v] \in Under /\ UnderFits(visit[v])
  BY UnderVisit DEF TellOne
<1>2. PagesGo
  BY NothingElse DEF TellOne
<1>3. Sound
  BY <1>2 DEF Sound, TellOne, Stays, Consoling, ConsoleTyped
<1>4. CASE visit' = [visit EXCEPT ![v].left = @ \ {x}]
  <2>1. PICK xs \in SUBSET Known0 : xs = visit[v].left \ {x}
    BY <1>1 DEF Under
  <2>2. PICK r : r = [visit[v] EXCEPT !.left = xs]
    OBVIOUS
  <2>3. /\ r \in Under /\ r.at = visit[v].at /\ r.card = visit[v].card /\ r.door = visit[v].door
        /\ r.subject = visit[v].subject /\ r.seen = visit[v].seen /\ r.wrote = visit[v].wrote
        /\ r.merged = visit[v].merged
    BY <1>1, <2>2 DEF Under
  <2>4. visit[v].at = "telling"
    BY DEF TellOne
  <2>5. UnderFits(r)
    BY <1>1, <2>3, <2>4 DEF UnderFits
  <2>6. UnderFits(r)'
    BY <1>3, <2>5 DEF UnderFits, SeenFits, Sound, TellOne
  <2>7. r \in VisitState /\ Fits(r)'
    BY <2>3, <2>6, UndersFit
  <2>8. visit' = [visit EXCEPT ![v] = r]
    BY <1>4, <2>1, <2>2
  <2> QED BY <1>3, <2>7, <2>8, Moves
<1>5. CASE End(v, "error")
  <2>1. "error" \in Whys /\ MayEnd(visit[v], "error")
    BY DEF MayEnd, Whys
  <2> QED BY <1>3, <1>5, <2>1, Ends DEF TellOne
<1> QED BY <1>4, <1>5 DEF TellOne

LEMMA AnswerCustomerConsoling ==
  ASSUME Consoling, NEW v \in Visits, AnswerCustomer(v)
  PROVE  Consoling'
<1>1. UnderFits(visit[v])
  BY UnderVisit DEF AnswerCustomer
<1>2. MayEnd(visit[v], "ok") /\ "ok" \in Whys
  BY <1>1 DEF MayEnd, AnswerCustomer, ToldAll, Whys, UnderFits
<1> QED BY <1>2, NothingElse, Ends DEF AnswerCustomer

LEMMA LogInConsoling ==
  ASSUME Consoling, NEW k \in Cards, LogIn(k)
  PROVE  Consoling'
<1>1. ConsoleTyped'
  BY DEF LogIn, Consoling, ConsoleTyped
<1>2. PagesGo /\ card \subseteq card'
  BY NothingElse DEF LogIn
<1>3. ASSUME NEW v \in Visits
      PROVE  Fits(visit[v])'
  <2>1. PICK y \in VisitState : y = visit[v] /\ Fits(y)
    BY DEF Consoling, ConsoleTyped
  <2>2. Fits(y)'
    BY <1>2, <2>1, FitsStays
  <2>3. visit'[v] = y
    BY <2>1 DEF LogIn
  <2> QED BY <2>2, <2>3 DEF Fits, UnderFits, OverFits, SeenFits
<1> QED BY <1>1, <1>3 DEF Consoling

LEMMA RefreshCardConsoling ==
  ASSUME Consoling, NEW v \in Visits, NEW k \in Cards, RefreshCard(v, k)
  PROVE  Consoling'
<1>1. UnderFits(visit[v])
  BY UnderVisit DEF RefreshCard
<1>2. MayEnd(visit[v], "ok") /\ "ok" \in Whys
  BY <1>1 DEF MayEnd, RefreshCard, Whys, UnderFits, Commits, Pages
<1>3. PagesGo
  BY NothingElse DEF RefreshCard
<1>4. Sound
  BY <1>3 DEF Sound, RefreshCard, Consoling, ConsoleTyped
<1> QED BY <1>2, <1>4, Ends DEF RefreshCard

LEMMA LogOutConsoling ==
  ASSUME Consoling, NEW v \in Visits, LogOut(v)
  PROVE  Consoling'
<1>1. UnderFits(visit[v])
  BY UnderVisit DEF LogOut
<1>2. MayEnd(visit[v], "ok") /\ "ok" \in Whys
  BY <1>1 DEF MayEnd, LogOut, Whys, UnderFits, Commits, Pages
<1>3. PagesGo
  BY NothingElse DEF LogOut
<1>4. Sound
  BY <1>1, <1>3 DEF Sound, LogOut, Consoling, ConsoleTyped, UnderFits
<1> QED BY <1>2, <1>4, Ends DEF LogOut

LEMMA RestartConsoling ==
  ASSUME Consoling, RestartConsole
  PROVE  Consoling'
<1>1. PagesGo /\ card' = card /\ page' = page
  BY NothingElse DEF RestartConsole
<1>2. ASSUME NEW v \in Visits
      PROVE  visit'[v] \in VisitState /\ Fits(visit[v])'
  <2>1. PICK y \in VisitState : y = visit'[v] /\ Fits(y)'
    <3>0. visit[v] \in VisitState /\ Fits(visit[v])
      BY DEF Consoling, ConsoleTyped
    <3>1. CASE visit[v].at \in {"new", "loaded", "over"}
      <4>1. PICK z \in VisitState : z = visit[v] /\ Fits(z)
        BY <3>0
      <4>2. Fits(z)'
        BY <1>1, <4>1, FitsStays
      <4>3. visit'[v] = z
        BY <3>1, <4>1 DEF RestartConsole
      <4> QED BY <4>2, <4>3
    <3>2. CASE visit[v].at \notin {"new", "loaded", "over"}
      <4>1. visit[v].at \in {"listed", "act", "merged", "telling"}
        BY <3>0, <3>2, VisitStages
      <4>2. visit[v] \in Under /\ visit[v].wrote \in BOOLEAN /\ "unavailable" \in Whys
        BY <4>1, UnderVisit DEF Under, Whys
      <4>3. PICK x : x = Wrote(v, "unavailable", visit[v].wrote)
        OBVIOUS
      <4>4. Ending(x, v, "unavailable", visit[v].wrote) /\ x = Ended(v, "unavailable")
        BY <4>2, <4>3, EndedVisit
      <4>5. x \in Over /\ OverFits(x)
        BY <4>4 DEF Ending, OverFits
      <4>6. x \in VisitState /\ Fits(x)'
        BY <4>5, OversFit
      <4>7. visit'[v] = x
        BY <3>2, <4>4 DEF RestartConsole
      <4> QED BY <4>6, <4>7
    <3> QED BY <3>1, <3>2
  <2> QED BY <2>1 DEF Fits, UnderFits, OverFits, SeenFits
<1>3. visit' \in [Visits -> VisitState]
  BY <1>2 DEF RestartConsole
<1>4. ConsoleTyped'
  BY <1>3 DEF ConsoleTyped, Consoling, RestartConsole
<1> QED BY <1>2, <1>4 DEF Consoling

-----------------------------------------------------------------------------
LEMMA ConsolingBegins == ConsoleInit => Consoling
<1> SUFFICES ASSUME ConsoleInit PROVE Consoling
  OBVIOUS
<1>1. PICK c \in Content : c = [f \in Fields |-> Unset]
  BY DEF Content
<1>0. 0 \in 0..MaxSaved
  BY ConsoleAssumption
<1>2. PICK s \in PageState : s = [revision |-> 0, content |-> c]
  BY <1>0 DEF PageState
<1>3. page \in [Pages -> PageState]
  BY <1>1, <1>2 DEF ConsoleInit
<1>4. NewVisit \in VisitState /\ NewVisit \in New
  BY DEF VisitState, New
<1>5. \A v \in Visits : visit[v] = NewVisit
  BY DEF ConsoleInit
<1>6. Fits(NewVisit)
  BY <1>4, VisitStages DEF Fits
<1>7. ConsoleTyped
  BY <1>3, <1>4 DEF ConsoleTyped, ConsoleInit
<1> QED BY <1>5, <1>6, <1>7 DEF Consoling

LEMMA ConsolingStays == Consoling /\ [ConsoleNext]_consoleVars => Consoling'
<1> SUFFICES ASSUME Consoling, [ConsoleNext]_consoleVars PROVE Consoling'
  OBVIOUS
<1>1. CASE UNCHANGED consoleVars
  <2>1. page' = page /\ visit' = visit /\ card' = card /\ torn' = torn /\ touched' = touched /\ left' = left
        /\ accepted' = accepted
    BY <1>1 DEF consoleVars
  <2> QED BY <2>1 DEF Consoling, ConsoleTyped, Fits, UnderFits, OverFits, SeenFits
<1>2. CASE ConsoleNext
  <2>1. ASSUME NEW v \in Visits, NEW d \in ConsoleDoors, NEW k \in Cards,
               NEW fs \in (IF d.form \in Pages THEN SUBSET Fields ELSE {{}}),
               NEW x \in (IF d.listed THEN Subjects ELSE {CHOOSE y \in Subjects : TRUE}), SendRequest(v, d, k, fs, x)
        PROVE  Consoling'
    <3>1. fs \in SUBSET Fields /\ x \in Anyone
      BY DEF Anyone
    <3> QED BY <2>1, <3>1, SendRequestConsoling
  <2> QED BY <1>2, <2>1, LoadConsoling, AccountListedConsoling, MergeConsoling, SaveConsoling, UnavailableConsoling,
        ReadConsoling, SubmitCommandConsoling, PauseOrResumeConsoling, CommitCustomerConsoling, TellOneConsoling,
        AnswerCustomerConsoling, LogInConsoling, RefreshCardConsoling, LogOutConsoling, RestartConsoling DEF ConsoleNext
<1> QED BY <1>1, <1>2

LEMMA ConsolingAlways == ConsoleSpec => []Consoling
BY ConsolingBegins, ConsolingStays, PTL DEF ConsoleSpec

LEMMA ConsolingTypes == Consoling => ConsoleTypeOK
<1> SUFFICES ASSUME Consoling PROVE ConsoleTypeOK
  OBVIOUS
<1>1. \A form \in Pages : page[form].revision \in 0..MaxSaved /\ page[form].content \in [Fields -> Visits \cup {Unset}]
  BY PageFields DEF Consoling, ConsoleTyped, Content
<1>2. \A v \in Visits : visit[v].at \in {"new", "loaded", "listed", "act", "merged", "telling", "over"}
  BY VisitStages DEF Consoling, ConsoleTyped
<1> QED BY <1>1, <1>2 DEF ConsoleTypeOK, Consoling, ConsoleTyped, Subjects

LEMMA ConsolingAnswers == Consoling => NoGhostRows /\ AnswersHold
<1> SUFFICES ASSUME Consoling PROVE NoGhostRows /\ AnswersHold
  OBVIOUS
<1>1. ASSUME NEW v \in Visits, visit[v].at = "over"
      PROVE  OverFits(visit[v])
  BY <1>1, VisitStages DEF Consoling, ConsoleTyped, Fits
<1> QED BY <1>1 DEF NoGhostRows, AnswersHold, OverFits, Consoling, ConsoleTyped

(* A step that changes a page is a save.                                       *)
OthersStayed ==
  \A form \in {"revision", "fields"}, f \in Fields :
    page'[form].content[f] # page[form].content[f] =>
      \E v \in Visits : page'[form].content[f] = v /\ f \in visit[v].fields

LEMMA SaveLeavesOthers ==
  ASSUME Consoling, NEW v \in Visits, Save(v)
  PROVE  OthersStayed
<1>1. visit[v] \in Under /\ UnderFits(visit[v])
  BY UnderVisit DEF Save
<1>2. PICK form \in Pages : form = visit[v].door.form
  BY DEF Save
<1>3. CASE ~AtRevision(v, form)
  BY <1>2, <1>3 DEF Save, OthersStayed
<1>4. CASE AtRevision(v, form)
  <2>1. PICK c \in Content : c = Saved(v, form)
    BY <1>2, SavedContent DEF Save
  <2>2. page \in [Pages -> PageState] /\ page[form] \in PageState
    BY DEF Consoling, ConsoleTyped
  <2>3. page' = [page EXCEPT ![form] = [revision |-> page[form].revision + 1, content |-> c]]
    BY <1>2, <1>4, <2>1 DEF Save
  <2>4. page'[form].content = c /\ \A other \in Pages : other # form => page'[other] = page[other]
    BY <2>2, <2>3
  <2>5. ASSUME form \in {"revision", "fields"}, NEW f \in Fields, c[f] # page[form].content[f]
        PROVE  c[f] = v /\ f \in visit[v].fields
    <3>1. CASE form = "fields"
      BY <2>1, <2>5, <3>1 DEF Saved, FieldsSent
    <3>2. CASE form = "revision"
      <4>1. visit[v].seen.content = page[form].content
        BY <1>1, <1>2, <1>4, <3>2 DEF UnderFits, SeenFits, AtRevision
      <4>2. c[f] = Sent(v, f)
        BY <2>1, <3>2 DEF Saved, Whole
      <4> QED BY <2>5, <4>1, <4>2 DEF Sent
    <3> QED BY <2>5, <3>1, <3>2
  <2>6. {"revision", "fields"} \subseteq Pages
    BY DEF Pages
  <2> QED BY <2>4, <2>5, <2>6 DEF OthersStayed
<1> QED BY <1>3, <1>4

LEMMA OthersStayUntouched == Consoling /\ [ConsoleNext]_consoleVars => [OthersStayed]_page
<1> SUFFICES ASSUME Consoling, [ConsoleNext]_consoleVars, page' # page PROVE OthersStayed
  OBVIOUS
<1>1. ASSUME NEW v \in Visits, AccountListed(v) \/ Merge(v) \/ Unavailable(v) \/ Read(v) \/ SubmitCommand(v)
      PROVE  FALSE
  <2>1. CASE AccountListed(v)
    BY <2>1 DEF AccountListed
  <2>2. CASE Merge(v)
    BY <2>2 DEF Merge
  <2>3. CASE Unavailable(v) \/ Read(v)
    BY <2>3 DEF Unavailable, Read
  <2>4. CASE SubmitCommand(v)
    BY <2>4 DEF SubmitCommand
  <2> QED BY <1>1, <2>1, <2>2, <2>3, <2>4
<1>2. ASSUME NEW v \in Visits, PauseOrResume(v) \/ AnswerCustomer(v) \/ LogOut(v)
      PROVE  FALSE
  BY <1>2 DEF PauseOrResume, AnswerCustomer, LogOut
<1>3. ASSUME NEW v \in Visits, NEW form \in Pages, Load(v, form)
      PROVE  FALSE
  BY <1>3 DEF Load
<1>4. ASSUME NEW v \in Visits, NEW d \in ConsoleDoors, NEW k \in Cards, NEW fs, NEW x, SendRequest(v, d, k, fs, x)
      PROVE  FALSE
  BY <1>4 DEF SendRequest
<1>5. (\E k \in Cards : LogIn(k)) \/ RestartConsole \/ UNCHANGED consoleVars => FALSE
  BY DEF LogIn, RestartConsole, consoleVars
<1>6. \A v \in Visits, d \in ConsoleDoors, k \in Cards :
        \A fs \in (IF d.form \in Pages THEN SUBSET Fields ELSE {{}}),
           x \in (IF d.listed THEN Subjects ELSE {CHOOSE y \in Subjects : TRUE}) : ~SendRequest(v, d, k, fs, x)
  BY <1>4
<1>7. ConsoleNext
  BY <1>5
<1>8. \E v \in Visits : Save(v)
  <2>1. \A v \in Visits : /\ ~AccountListed(v) /\ ~Merge(v) /\ ~Unavailable(v) /\ ~Read(v) /\ ~SubmitCommand(v)
                          /\ ~PauseOrResume(v) /\ ~AnswerCustomer(v) /\ ~LogOut(v)
    BY <1>1, <1>2
  <2>2. \A v \in Visits, k \in Cards : ~RefreshCard(v, k)
    BY DEF RefreshCard
  <2>3. \A v \in Visits, xs \in SUBSET Known0 : ~CommitCustomer(v, xs)
    BY DEF CommitCustomer
  <2>4. \A v \in Visits, x \in Known0 : ~TellOne(v, x)
    BY DEF TellOne
  <2>5. \A v \in Visits, form \in Pages : ~Load(v, form)
    BY <1>3
  <2> QED BY <1>5, <1>6, <1>7, <2>1, <2>2, <2>3, <2>4, <2>5 DEF ConsoleNext
<1> QED BY <1>8, SaveLeavesOthers

LEMMA NobodyOverwrites == ConsoleSpec => OthersStay
<1>1. Consoling /\ [ConsoleNext]_consoleVars =>
        [\A form \in {"revision", "fields"}, f \in Fields :
           page'[form].content[f] # page[form].content[f] =>
             \E v \in Visits : page'[form].content[f] = v /\ f \in visit[v].fields]_page
  BY OthersStayUntouched DEF OthersStayed
<1> QED BY <1>1, ConsolingAlways, PTL DEF ConsoleSpec, OthersStay


-----------------------------------------------------------------------------
(* Requests.                                                                   *)

GlobalStages == {"graduating", "marking", "spreading", "shortening"}
AskStages == {"idle", "waiting", "locked", "writing", "committed", "reloading", "done"} \cup GlobalStages
Numbered == UNION {[S -> Int] : S \in SUBSET Envs}
RequestState ==
  [at : AskStages, ask : Asks \cup {NoAsk}, expected : Int, finished : BOOLEAN, contended : BOOLEAN, day : Int,
   next : Policy \cup {None}, was : Int, due : Numbered, marks : SUBSET Envs, rows : Numbered,
   shorter : SUBSET Envs]

HoldsEnvironment(x, e) == x.at \in {"locked", "writing"} /\ x.ask.env = e
HoldsPolicy(x, e) == (x.at = "writing" /\ x.ask.env = e) \/ (x.at \in {"spreading", "shortening"} /\ e \in DOMAIN x.rows)
HoldsGlobal(x) == x.at \in GlobalStages
SharesMarks(x) == x.at \in {"marking", "spreading", "shortening"}

(* What a request relies on while it holds its locks.                          *)
InHand(x) ==
  /\ x.at \notin {"idle", "done"} => x.ask \in Asks /\ x.day <= today
  /\ x.at \in {"locked", "writing", "committed"} => x.ask.kind # "global"
  /\ x.at \in GlobalStages => x.ask.kind = "global"
  /\ x.at \in {"locked", "writing"} => x.ask.user = None \/ x.ask.user \in owners[x.ask.env]
  /\ x.at \in {"writing", "committed"} => x.next \in Policy /\ x.next.revision <= sequence
  /\ x.at = "writing" => x.was = policy[x.ask.env].revision /\ x.was < x.next.revision
  /\ x.at \in {"spreading", "shortening"} =>
       \A e \in DOMAIN x.rows : policy[e].revision < x.rows[e] /\ x.rows[e] <= sequence

TablesTyped == PolicyTypeOK /\ \A e \in Envs : policy[e].revision <= sequence
Alone ==
  \A r, q \in Requests : r # q =>
    /\ \A e \in Envs : ~(HoldsPolicy(request[r], e) /\ HoldsPolicy(request[q], e))
    /\ ~(HoldsGlobal(request[r]) /\ HoldsGlobal(request[q]))
MarksFree ==
  \A r, q \in Requests : SharesMarks(request[r]) =>
    \A e \in request[r].marks : ~HoldsEnvironment(request[q], e)
Governing ==
  /\ TablesTyped /\ request \in [Requests -> RequestState]
  /\ \A r \in Requests : InHand(request[r])
  /\ Alone /\ MarksFree

-----------------------------------------------------------------------------
(* Operators.                                                                  *)
LEMMA PolicyFields ==
  ASSUME NEW x \in Policy
  PROVE  x.base \in Bases /\ x.cadence \in Cadences /\ x.source \in {"global", "environment"}
         /\ x.revision \in 0..MaxRevision /\ x.revision \in Int /\ x.revision >= 0
BY PolicyAssumption DEF Policy

LEMMA AskFields ==
  ASSUME NEW a \in Asks
  PROVE  /\ a.kind \in Kinds /\ a.env \in Envs /\ a.mode \in Bases \cup {"slow_start"}
         /\ a.source \in {"kept", "global", "environment"} /\ a.cadence \in Cadences \cup {None}
         /\ a.day \in Int /\ 1 <= a.day /\ a.day \in 1..MaxDays /\ a.on \in BOOLEAN
         /\ a.kind = "global" => a.cadence \in Cadences
<1>1. a \in Ask
  BY AsksAssumption
<1> QED BY <1>1, AsksAssumption, PolicyAssumption DEF Ask

LEMMA FallbackTyped ==
  ASSUME NEW e \in Envs, NEW g \in Global
  PROVE  Fallback(e, g) \in Policy /\ Fallback(e, g).revision = 0
<1>1. g.cadence \in Cadences /\ 0 \in 0..MaxRevision
  BY PolicyAssumption DEF Global
<1> QED BY <1>1 DEF Fallback, Policy, Bases

LEMMA CurrentTyped ==
  ASSUME PolicyTypeOK, NEW e \in Envs, NEW g \in Global
  PROVE  Current(e, g) \in Policy /\ Current(e, g).revision = policy[e].revision
<1>1. policy[e] \in Policy /\ policy[e].revision \in Int /\ policy[e].revision >= 0
  BY PolicyFields DEF PolicyTypeOK
<1> QED BY <1>1, FallbackTyped DEF Current

LEMMA NextPolicyTyped ==
  ASSUME NEW a \in Asks, NEW current \in Policy, NEW g \in Global, NEW n \in 0..MaxRevision
  PROVE  NextPolicy(a, current, g, n) \in Policy /\ NextPolicy(a, current, g, n).revision = n
<1>1. g.cadence \in Cadences
  BY DEF Global
<1>2. CASE a.kind = "mode"
  <2> DEFINE source == IF a.source = "kept" THEN current.source ELSE a.source
             base == IF a.mode = "slow_start" THEN "consumption" ELSE a.mode
             cadence == NextCadence(a, current, source, g)
  <2>1. source \in {"global", "environment"} /\ base \in Bases /\ cadence \in Cadences
    BY <1>1, AskFields, PolicyFields DEF NextCadence, Bases
  <2>2. NextPolicy(a, current, g, n) = [base |-> base, cadence |-> cadence, source |-> source, revision |-> n]
    BY <1>2 DEF NextPolicy
  <2> HIDE DEF source, base, cadence
  <2> QED BY <2>1, <2>2 DEF Policy
<1>3. CASE a.kind = "rule"
  <2>1. PICK base \in Bases : base = IF a.on THEN "rule" ELSE "persona"
    BY DEF Bases
  <2>2. NextPolicy(a, current, g, n) = [current EXCEPT !.base = base, !.revision = n]
    BY <1>3, <2>1 DEF NextPolicy
  <2> QED BY <2>2 DEF Policy
<1>4. CASE a.kind \notin {"mode", "rule"}
  <2>1. NextPolicy(a, current, g, n) = [current EXCEPT !.revision = n]
    BY <1>4 DEF NextPolicy
  <2> QED BY <2>1 DEF Policy
<1> QED BY <1>2, <1>3, <1>4

LEMMA RequestStates ==
  ASSUME NEW at \in AskStages, NEW ask \in Asks \cup {NoAsk}, NEW expected \in Int, NEW finished \in BOOLEAN,
         NEW contended \in BOOLEAN, NEW day \in Int, NEW next \in Policy \cup {None}, NEW was \in Int,
         NEW due \in Numbered, NEW marks \in SUBSET Envs, NEW rows \in Numbered, NEW shorter \in SUBSET Envs
  PROVE  [at |-> at, ask |-> ask, expected |-> expected, finished |-> finished, contended |-> contended, day |-> day,
          next |-> next, was |-> was, due |-> due, marks |-> marks, rows |-> rows, shorter |-> shorter] \in RequestState
BY DEF RequestState

LEMMA PlacedTyped ==
  ASSUME NEW x \in RequestState, NEW at \in AskStages
  PROVE  [x EXCEPT !.at = at] \in RequestState /\ [x EXCEPT !.at = at].at = at /\ [x EXCEPT !.at = at].day = x.day
BY DEF RequestState

NewRequest(at) == [NoRequest EXCEPT !.at = at]
LEMMA NoRequestTyped ==
  ASSUME NEW at \in AskStages
  PROVE  NewRequest(at) \in RequestState /\ NewRequest(at).at = at /\ NoRequest \in RequestState
<1>1. NoRows \in Numbered
  <2>1. NoRows \in [{} -> Int] /\ {} \in SUBSET Envs
    BY DEF NoRows
  <2> QED BY <2>1 DEF Numbered
<1>2. /\ FALSE \in BOOLEAN /\ None \in Policy \cup {None} /\ {} \in SUBSET Envs /\ 0 \in Int
      /\ NoAsk \in Asks \cup {NoAsk} /\ "idle" \in AskStages
  BY DEF AskStages, GlobalStages
<1>3. NoRequest \in RequestState
  BY <1>1, <1>2, RequestStates DEF NoRequest
<1> QED BY <1>3, PlacedTyped DEF NewRequest

-----------------------------------------------------------------------------
(* Frames.                                                                     *)
TablesStay ==
  /\ global' = global /\ policy' = policy /\ anchor' = anchor /\ completed' = completed /\ surface' = surface
  /\ moved' = moved /\ audits' = audits
RestStays == owners' = owners /\ sequence' = sequence /\ today' = today

(* A request takes only locks that are free.                                   *)
TakesFree(x, y) ==
  /\ \A e \in Envs : /\ HoldsPolicy(y, e) => HoldsPolicy(x, e) \/ ~PolicyLocked(e)
                     /\ HoldsEnvironment(y, e) => HoldsEnvironment(x, e) \/ ~EnvShared(e)
  /\ HoldsGlobal(y) => HoldsGlobal(x) \/ ~GlobalLocked
  /\ SharesMarks(y) => (y.marks = x.marks /\ SharesMarks(x)) \/ \A e \in y.marks : ~EnvLocked(e)

LEMMA LockMeanings ==
  ASSUME Governing, NEW r \in Requests, NEW e \in Envs
  PROVE  /\ ~PolicyLocked(e) => ~HoldsPolicy(request[r], e)
         /\ ~EnvShared(e) => ~(SharesMarks(request[r]) /\ e \in request[r].marks)
         /\ ~EnvLocked(e) => ~HoldsEnvironment(request[r], e)
         /\ ~GlobalLocked => ~HoldsGlobal(request[r])
BY DEF PolicyLocked, EnvShared, EnvLocked, GlobalLocked, HoldsPolicy, HoldsGlobal, SharesMarks, HoldsEnvironment,
       GlobalStages

LEMMA HandsStay ==
  ASSUME Governing, NEW x \in RequestState, InHand(x),
         \A e \in Envs : policy'[e] = policy[e] \/ ~HoldsPolicy(x, e),
         \A e \in Envs : owners'[e] = owners[e] \/ ~HoldsEnvironment(x, e),
         sequence \in Int, sequence' \in Int, sequence <= sequence', today \in Int, today' \in Int, today <= today'
  PROVE  InHand(x)'
<1>1. x.at \notin {"idle", "done"} => x.ask \in Asks /\ x.day <= today'
  BY DEF InHand, RequestState, GlobalStages
<1>2. x.ask \in Asks => x.ask.env \in Envs
  BY AskFields
<1>3. x.at \in {"locked", "writing"} => x.ask.user = None \/ x.ask.user \in owners'[x.ask.env]
  BY <1>1, <1>2 DEF InHand, HoldsEnvironment, GlobalStages
<1>4. x.at \in {"writing", "committed"} => x.next \in Policy /\ x.next.revision <= sequence'
  BY PolicyFields DEF InHand, GlobalStages
<1>5. x.at = "writing" => x.was = policy'[x.ask.env].revision /\ x.was < x.next.revision
  BY <1>1, <1>2 DEF InHand, HoldsPolicy, GlobalStages
<1>6. x.at \in {"spreading", "shortening"} =>
        \A e \in DOMAIN x.rows : policy'[e].revision < x.rows[e] /\ x.rows[e] <= sequence'
  <2> SUFFICES ASSUME x.at \in {"spreading", "shortening"}, NEW e \in DOMAIN x.rows
               PROVE  policy'[e].revision < x.rows[e] /\ x.rows[e] <= sequence'
    OBVIOUS
  <2>1. x.rows \in Numbered
    BY DEF RequestState
  <2>2. e \in Envs /\ x.rows[e] \in Int
    BY <2>1 DEF Numbered
  <2>3. policy'[e] = policy[e]
    BY <2>2 DEF HoldsPolicy
  <2> QED BY <2>2, <2>3 DEF InHand, GlobalStages
<1> QED BY <1>1, <1>3, <1>4, <1>5, <1>6 DEF InHand, GlobalStages

LEMMA TableFacts ==
  ASSUME Governing
  PROVE  /\ sequence \in Int /\ today \in Int
         /\ \A e \in Envs : policy[e] \in Policy /\ policy[e].revision \in Int /\ policy[e].revision <= sequence
         /\ \A r \in Requests : request[r] \in RequestState /\ InHand(request[r])
BY PolicyFields, PolicyAssumption DEF Governing, TablesTyped, PolicyTypeOK

(* A step of one request.                                                      *)
LEMMA Turns ==
  ASSUME Governing, TablesTyped', NEW r \in Requests, NEW x \in RequestState, request' = [request EXCEPT ![r] = x],
         InHand(x)', TakesFree(request[r], x),
         \A e \in Envs : policy'[e] = policy[e] \/ HoldsPolicy(request[r], e),
         owners' = owners, sequence <= sequence', today' = today
  PROVE  Governing'
<1>1. /\ request' \in [Requests -> RequestState] /\ request'[r] = x
      /\ \A q \in Requests : q # r => request'[q] = request[q]
  BY DEF Governing
<1>2. sequence' \in Int /\ today' \in Int
  BY PolicyAssumption DEF TablesTyped, PolicyTypeOK
<1>3. ASSUME NEW q \in Requests
      PROVE  InHand(request[q])'
  <2>1. PICK y \in RequestState : y = request'[q] /\ InHand(y)'
    <3>1. CASE q = r
      BY <1>1, <3>1
    <3>2. CASE q # r
      <4>1. PICK y \in RequestState : y = request[q] /\ InHand(y)
        BY TableFacts
      <4>2. \A e \in Envs : policy'[e] = policy[e] \/ ~HoldsPolicy(y, e)
        BY <3>2, <4>1 DEF Governing, Alone
      <4>3. InHand(y)'
        BY <1>2, <4>1, <4>2, TableFacts, HandsStay
      <4> QED BY <1>1, <3>2, <4>1, <4>3
    <3> QED BY <3>1, <3>2
  <2> QED BY <2>1 DEF InHand, GlobalStages
<1>4. \A q \in Requests : q # r => /\ \A e \in Envs : ~(HoldsPolicy(x, e) /\ HoldsPolicy(request[q], e))
                                   /\ ~(HoldsGlobal(x) /\ HoldsGlobal(request[q]))
  <2> SUFFICES ASSUME NEW q \in Requests, q # r
               PROVE  /\ \A e \in Envs : ~(HoldsPolicy(x, e) /\ HoldsPolicy(request[q], e))
                      /\ ~(HoldsGlobal(x) /\ HoldsGlobal(request[q]))
    OBVIOUS
  <2>1. \A e \in Envs : ~(HoldsPolicy(request[r], e) /\ HoldsPolicy(request[q], e))
    BY DEF Governing, Alone
  <2>2. ~(HoldsGlobal(request[r]) /\ HoldsGlobal(request[q]))
    BY DEF Governing, Alone
  <2>3. \A e \in Envs : ~(HoldsPolicy(x, e) /\ HoldsPolicy(request[q], e))
    BY <2>1, LockMeanings DEF TakesFree
  <2>4. ~GlobalLocked => ~HoldsGlobal(request[q])
    BY DEF GlobalLocked, HoldsGlobal, GlobalStages
  <2>5. ~(HoldsGlobal(x) /\ HoldsGlobal(request[q]))
    BY <2>2, <2>4 DEF TakesFree
  <2> QED BY <2>3, <2>5
<1>5. Alone'
  <2> SUFFICES ASSUME NEW q \in Requests, NEW p \in Requests, q # p
               PROVE  /\ \A e \in Envs : ~(HoldsPolicy(request'[q], e) /\ HoldsPolicy(request'[p], e))
                      /\ ~(HoldsGlobal(request'[q]) /\ HoldsGlobal(request'[p]))
    BY DEF Alone, HoldsPolicy, HoldsGlobal
  <2>1. CASE q = r
    BY <1>1, <1>4, <2>1
  <2>2. CASE p = r
    BY <1>1, <1>4, <2>2
  <2>3. CASE q # r /\ p # r
    BY <1>1, <2>3 DEF Governing, Alone
  <2> QED BY <2>1, <2>2, <2>3
<1>6. MarksFree'
  <2> SUFFICES ASSUME NEW q \in Requests, NEW p \in Requests, SharesMarks(request'[q]), NEW e \in request'[q].marks
               PROVE  ~HoldsEnvironment(request'[p], e)
    BY DEF MarksFree, HoldsEnvironment, SharesMarks
  <2>0. e \in Envs
    BY <1>1 DEF RequestState
  <2>1. CASE q # r /\ p # r
    BY <1>1, <2>1 DEF Governing, MarksFree
  <2>2. CASE q = r /\ p # r
    BY <1>1, <2>0, <2>2, LockMeanings DEF Governing, MarksFree, TakesFree
  <2>3. CASE q # r /\ p = r
    BY <1>1, <2>0, <2>3, LockMeanings DEF Governing, MarksFree, TakesFree
  <2>4. CASE q = r /\ p = r
    BY <1>1, <2>4 DEF SharesMarks, HoldsEnvironment
  <2> QED BY <2>1, <2>2, <2>3, <2>4
<1> QED BY <1>1, <1>3, <1>5, <1>6 DEF Governing

(* A step of no request.                                                       *)
LEMMA Rests ==
  ASSUME Governing, TablesTyped', request' = request, policy' = policy, sequence' = sequence,
         today <= today', \A e \in Envs : owners'[e] = owners[e] \/ ~EnvLocked(e)
  PROVE  Governing'
<1>1. sequence' \in Int /\ today' \in Int
  BY PolicyAssumption DEF TablesTyped, PolicyTypeOK
<1>2. ASSUME NEW q \in Requests
      PROVE  InHand(request[q])'
  <2>1. PICK y \in RequestState : y = request[q] /\ InHand(y)
    BY TableFacts
  <2>2. InHand(y)'
    BY <1>1, <2>1, TableFacts, HandsStay, LockMeanings
  <2>3. y = request'[q]
    BY <2>1
  <2> QED BY <2>2, <2>3 DEF InHand, GlobalStages
<1> QED BY <1>2 DEF Governing, Alone, MarksFree, HoldsPolicy, HoldsGlobal, SharesMarks, HoldsEnvironment

LEMMA TablesStayTyped ==
  ASSUME Governing, TablesStay, RestStays, held' \in [Processes -> Held]
  PROVE  TablesTyped'
BY DEF Governing, TablesTyped, PolicyTypeOK, TablesStay, RestStays

(* A request that ends, or only reads everything anew.                         *)
LEMMA Leaves ==
  ASSUME Governing, TablesTyped', NEW r \in Requests, NEW at \in {"done", "reloading"}, Place(r, at),
         request[r].at \notin {"idle", "done"},
         \A e \in Envs : policy'[e] = policy[e] \/ HoldsPolicy(request[r], e),
         owners' = owners, sequence <= sequence', today' = today
  PROVE  Governing'
<1>1. PICK x : x = IF at = "done" THEN NewRequest("done") ELSE [request[r] EXCEPT !.at = "reloading"]
  OBVIOUS
<1>2. request[r] \in RequestState /\ InHand(request[r])
  BY TableFacts
<1>3. "done" \in AskStages /\ "reloading" \in AskStages
  BY DEF AskStages, GlobalStages
<1>4. x \in RequestState /\ x.at = at
  BY <1>1, <1>2, <1>3, PlacedTyped, NoRequestTyped
<1>5. at = "reloading" => x.ask = request[r].ask /\ x.day = request[r].day
  BY <1>1, <1>2 DEF RequestState
<1>6. InHand(x)'
  BY <1>2, <1>4, <1>5 DEF InHand, GlobalStages
<1>7. TakesFree(request[r], x)
  BY <1>4 DEF TakesFree, HoldsPolicy, HoldsEnvironment, HoldsGlobal, SharesMarks, GlobalStages
<1>8. request' = [request EXCEPT ![r] = x]
  BY <1>1 DEF Place, NewRequest
<1> QED BY <1>4, <1>6, <1>7, <1>8, Turns

(* The tables as they are, a request that ends or reads anew.                  *)
LEMMA LeavesQuietly ==
  ASSUME Governing, TablesStay, RestStays, held' \in [Processes -> Held], NEW r \in Requests,
         NEW at \in {"done", "reloading"}, Place(r, at), request[r].at \notin {"idle", "done"}
  PROVE  Governing'
<1>1. TablesTyped'
  BY TablesStayTyped
<1>2. \A e \in Envs : policy'[e] = policy[e] \/ HoldsPolicy(request[r], e)
  BY DEF TablesStay
<1>3. owners' = owners /\ sequence <= sequence' /\ today' = today
  BY TableFacts DEF RestStays
<1> QED BY <1>1, <1>2, <1>3, Leaves

LEMMA Untouched ==
  /\ UNCHANGED <<tables, owners, sequence, today, held>> => TablesStay /\ RestStays /\ held' = held
  /\ UNCHANGED <<tables, owners, sequence, today>> => TablesStay /\ RestStays
  /\ UNCHANGED <<tables, owners, today, held>> => TablesStay /\ owners' = owners /\ today' = today /\ held' = held
BY DEF tables, TablesStay, RestStays

LEMMA HeldTyped ==
  ASSUME Governing
  PROVE  /\ held \in [Processes -> Held] /\ \A p \in Processes : held[p] \in Held
         /\ \A p \in Processes : held[p].global \in Global /\ held[p].policy \in [Envs -> Policy]
                                 /\ held[p].surface \in [Envs -> Surface]
         /\ \A r \in Requests : Serving[r] \in Processes
BY PolicyAssumption DEF Governing, TablesTyped, PolicyTypeOK, Held

LEMMA FromTablesTyped ==
  ASSUME Governing
  PROVE  FromTables \in Held
<1>1. global \in Global /\ surface \in [Envs -> Surface]
  BY DEF Governing, TablesTyped, PolicyTypeOK
<1>2. [e \in Envs |-> Current(e, global)] \in [Envs -> Policy]
  BY <1>1, CurrentTyped DEF Governing, TablesTyped
<1> QED BY <1>1, <1>2 DEF FromTables, Held

-----------------------------------------------------------------------------
(* One lemma per operation.                                                    *)
LEMMA SendGoverning ==
  ASSUME Governing, NEW r \in Requests, NEW a \in Asks, NEW p \in Processes, Send(r, a, p)
  PROVE  Governing'
<1>1. TablesStay /\ RestStays /\ held' = held
  BY Untouched DEF Send
<1>2. TablesTyped'
  BY <1>1, HeldTyped, TablesStayTyped
<1>3. PICK expected : expected = CASE a.kind = "global" -> held[p].global.revision
                                   [] a.kind = "surface" -> held[p].surface[a.env].revision
                                   [] OTHER -> held[p].policy[a.env].revision
  OBVIOUS
<1>4. expected \in Int
  <2>1. a.env \in Envs
    BY AskFields
  <2>2. held[p].global \in Global /\ held[p].policy[a.env] \in Policy /\ held[p].surface[a.env] \in Surface
    BY <2>1, HeldTyped
  <2>3. held[p].global.revision \in Int /\ held[p].surface[a.env].revision \in Int
    BY <2>2, PolicyAssumption DEF Global, Surface
  <2>4. held[p].policy[a.env].revision \in Int
    BY <2>2, PolicyFields
  <2> QED BY <1>3, <2>3, <2>4
<1>5. PICK finished \in BOOLEAN : finished = completed[a.env]
  BY AskFields DEF Governing, TablesTyped, PolicyTypeOK
<1>6. PICK contended \in BOOLEAN : contended = (Cardinality(owners[a.env]) > 1)
  <2>1. CASE Cardinality(owners[a.env]) > 1
    <3>1. (Cardinality(owners[a.env]) > 1) = TRUE
      BY <2>1
    <3> QED BY <3>1
  <2>2. CASE ~(Cardinality(owners[a.env]) > 1)
    <3>1. (Cardinality(owners[a.env]) > 1) = FALSE
      BY <2>2
    <3> QED BY <3>1
  <2> QED BY <2>1, <2>2
<1>7. NoRequest \in RequestState
  BY NoRequestTyped DEF AskStages, GlobalStages
<1>8. PICK x : x = [NoRequest EXCEPT !.at = "waiting", !.ask = a, !.day = today, !.finished = finished,
                                     !.contended = contended, !.expected = expected]
  OBVIOUS
<1>9. x \in RequestState /\ x.at = "waiting" /\ x.ask = a /\ x.day = today
  BY <1>4, <1>7, <1>8, TableFacts DEF RequestState, AskStages, GlobalStages
<1>10. InHand(x)'
  BY <1>1, <1>9, TableFacts DEF InHand, RestStays, GlobalStages
<1>11. TakesFree(request[r], x)
  BY <1>9 DEF TakesFree, HoldsPolicy, HoldsEnvironment, HoldsGlobal, SharesMarks, GlobalStages
<1>12. request' = [request EXCEPT ![r] = x]
  BY <1>3, <1>5, <1>6, <1>8 DEF Send
<1>13. \A e \in Envs : policy'[e] = policy[e] \/ HoldsPolicy(request[r], e)
  BY <1>1 DEF TablesStay
<1>14. owners' = owners /\ sequence <= sequence' /\ today' = today
  BY <1>1, TableFacts DEF RestStays
<1> QED BY <1>2, <1>9, <1>10, <1>11, <1>12, <1>13, <1>14, Turns

LEMMA RefuseGoverning ==
  ASSUME Governing, NEW r \in Requests, Refuse(r)
  PROVE  Governing'
BY Untouched, HeldTyped, LeavesQuietly DEF Refuse

LEMMA FailsGoverning ==
  ASSUME Governing, NEW r \in Requests, Fails(r)
  PROVE  Governing'
BY Untouched, HeldTyped, LeavesQuietly DEF Fails

LEMMA ReloadGoverning ==
  ASSUME Governing, NEW r \in Requests, Reload(r)
  PROVE  Governing'
<1>1. held' \in [Processes -> Held]
  BY HeldTyped, FromTablesTyped DEF Reload
<1> QED BY <1>1, Untouched, LeavesQuietly DEF Reload

LEMMA LockEnvironmentGoverning ==
  ASSUME Governing, NEW r \in Requests, LockEnvironment(r)
  PROVE  Governing'
<1>1. TablesStay /\ RestStays /\ held' = held
  BY Untouched DEF LockEnvironment
<1>2. CASE Place(r, "done")
  BY <1>1, <1>2, HeldTyped, LeavesQuietly DEF LockEnvironment
<1>3. CASE /\ request[r].ask.user = None \/ request[r].ask.user \in owners[request[r].ask.env]
           /\ Place(r, "locked")
  <2>1. PICK x : x = [request[r] EXCEPT !.at = "locked"]
    OBVIOUS
  <2>2. request[r] \in RequestState /\ InHand(request[r]) /\ "locked" \in AskStages
    BY TableFacts DEF AskStages, GlobalStages
  <2>3. x \in RequestState /\ x.at = "locked" /\ x.ask = request[r].ask /\ x.day = request[r].day
    BY <2>1, <2>2 DEF RequestState
  <2>4. InHand(x)'
    BY <1>1, <1>3, <2>2, <2>3 DEF InHand, RestStays, LockEnvironment, GlobalStages
  <2>5. TakesFree(request[r], x)
    BY <2>3 DEF TakesFree, HoldsPolicy, HoldsEnvironment, HoldsGlobal, SharesMarks, GlobalStages, LockEnvironment
  <2>6. request' = [request EXCEPT ![r] = x]
    BY <1>3, <2>1 DEF Place
  <2>7. TablesTyped'
    BY <1>1, HeldTyped, TablesStayTyped
  <2>8. \A e \in Envs : policy'[e] = policy[e] \/ HoldsPolicy(request[r], e)
    BY <1>1 DEF TablesStay
  <2>9. owners' = owners /\ sequence <= sequence' /\ today' = today
    BY <1>1, TableFacts DEF RestStays
  <2> QED BY <2>3, <2>4, <2>5, <2>6, <2>7, <2>8, <2>9, Turns
<1> QED BY <1>2, <1>3 DEF LockEnvironment

LEMMA ReadPolicyGoverning ==
  ASSUME Governing, NEW r \in Requests, ReadPolicy(r)
  PROVE  Governing'
<1>1. TablesStay /\ owners' = owners /\ today' = today /\ held' = held
  BY Untouched DEF ReadPolicy
<1>2. /\ request[r].at = "locked" /\ request[r].ask.kind \notin {"global", "surface"}
      /\ ~PolicyLocked(request[r].ask.env) /\ sequence < MaxRevision /\ sequence' = sequence + 1
  BY DEF ReadPolicy
<1>3. request[r] \in RequestState /\ InHand(request[r]) /\ "writing" \in AskStages /\ sequence \in 0..MaxRevision
  BY TableFacts DEF AskStages, Governing, TablesTyped, PolicyTypeOK, GlobalStages
<1>4. PICK a \in Asks : a = request[r].ask
  BY <1>2, <1>3 DEF InHand, GlobalStages
<1>5. PICK g \in Global : g = held[Serving[r]].global
  BY HeldTyped
<1>6. a.env \in Envs /\ sequence' \in 0..MaxRevision /\ sequence' \in Int
  BY <1>2, <1>3, AskFields, PolicyAssumption
<1>7. PICK current \in Policy : current = Current(a.env, g) /\ current.revision = policy[a.env].revision
  BY <1>6, CurrentTyped DEF Governing, TablesTyped
<1>8. PICK next \in Policy : next = NextPolicy(a, current, g, sequence + 1) /\ next.revision = sequence + 1
  BY <1>2, <1>6, NextPolicyTyped
<1>9. PICK was \in Int : was = current.revision
  BY PolicyFields
<1>10. PICK x : x = [request[r] EXCEPT !.at = "writing", !.was = was, !.next = next]
  OBVIOUS
<1>11. /\ x \in RequestState /\ x.at = "writing" /\ x.ask = request[r].ask /\ x.day = request[r].day
       /\ x.was = was /\ x.next = next
  BY <1>3, <1>10 DEF RequestState
<1>12. InHand(x)'
  <2>1. policy'[a.env] = policy[a.env] /\ policy[a.env].revision <= sequence /\ policy[a.env].revision \in Int
    BY <1>1, <1>6, TableFacts DEF TablesStay
  <2>2. x.was = policy'[x.ask.env].revision /\ x.was < x.next.revision /\ x.next.revision <= sequence'
    BY <1>2, <1>3, <1>4, <1>7, <1>8, <1>9, <1>11, <2>1, TableFacts
  <2> QED BY <1>1, <1>2, <1>3, <1>4, <1>11, <2>2 DEF InHand, GlobalStages
<1>13. TakesFree(request[r], x)
  BY <1>2, <1>11 DEF TakesFree, HoldsPolicy, HoldsEnvironment, HoldsGlobal, SharesMarks, GlobalStages
<1>14. request' = [request EXCEPT ![r] = x]
  <2>1. request' = [request EXCEPT ![r].at = "writing", ![r].was = was, ![r].next = next]
    BY <1>4, <1>5, <1>7, <1>8, <1>9 DEF ReadPolicy
  <2>2. request \in [Requests -> RequestState]
    BY DEF Governing
  <2> QED BY <1>10, <2>1, <2>2
<1>15. TablesTyped'
  BY <1>1, <1>2, <1>6, TableFacts DEF TablesTyped, PolicyTypeOK, Governing, TablesStay
<1>16. \A e \in Envs : policy'[e] = policy[e] \/ HoldsPolicy(request[r], e)
  BY <1>1 DEF TablesStay
<1>17. sequence <= sequence'
  BY <1>2, TableFacts
<1> QED BY <1>1, <1>11, <1>12, <1>13, <1>14, <1>15, <1>16, <1>17, Turns

LEMMA AnswerGoverning ==
  ASSUME Governing, NEW r \in Requests, Answer(r)
  PROVE  Governing'
<1>1. TablesStay /\ RestStays
  BY Untouched DEF Answer
<1>2. CASE Place(r, "reloading") /\ held' = held
  BY <1>1, <1>2, HeldTyped, LeavesQuietly DEF Answer
<1>3. CASE /\ Place(r, "done")
           /\ held' = [held EXCEPT ![Serving[r]].policy[request[r].ask.env] =
                         Current(request[r].ask.env, held[Serving[r]].global)]
  <2>1. PICK e \in Envs : e = request[r].ask.env
    BY TableFacts, AskFields DEF Answer, InHand, GlobalStages
  <2>2. PICK c \in Policy : c = Current(e, held[Serving[r]].global)
    BY HeldTyped, CurrentTyped DEF Governing, TablesTyped
  <2>3. held' = [held EXCEPT ![Serving[r]].policy[e] = c]
    BY <1>3, <2>1, <2>2
  <2>4. held' \in [Processes -> Held]
    BY <2>3, HeldTyped DEF Held
  <2> QED BY <1>1, <1>3, <2>4, LeavesQuietly DEF Answer
<1> QED BY <1>2, <1>3 DEF Answer

LEMMA NextAnchorTyped ==
  ASSUME Governing, NEW a \in Asks, NEW finished \in BOOLEAN
  PROVE  NextAnchor(a, finished) \in Int \cup {None} /\ NextCompleted(a, finished) \in BOOLEAN
<1>1. /\ anchor[a.env] \in Int \cup {None} /\ completed[a.env] \in BOOLEAN /\ today \in Int /\ a.day \in Int
      /\ a.on \in BOOLEAN
  BY AskFields, TableFacts DEF Governing, TablesTyped, PolicyTypeOK
<1>2. NextAnchor(a, finished) \in Int \cup {None}
  BY <1>1 DEF NextAnchor
<1>3. NextCompleted(a, finished) \in BOOLEAN
  BY <1>1 DEF NextCompleted
<1> QED BY <1>2, <1>3

LEMMA CommitPolicyGoverning ==
  ASSUME Governing, NEW r \in Requests, CommitPolicy(r)
  PROVE  Governing'
<1>1. request[r] \in RequestState /\ InHand(request[r]) /\ request[r].at = "writing" /\ "committed" \in AskStages
  BY TableFacts DEF AskStages, CommitPolicy, GlobalStages
<1>2. PICK a \in Asks : a = request[r].ask
  BY <1>1 DEF InHand, GlobalStages
<1>3. PICK n \in Policy : n = request[r].next /\ n.revision <= sequence
  BY <1>1 DEF InHand, GlobalStages
<1>4. PICK t \in Int \cup {None} : t = NextAnchor(a, request[r].finished)
  BY <1>1, NextAnchorTyped DEF RequestState
<1>5. PICK c \in BOOLEAN : c = NextCompleted(a, request[r].finished)
  BY <1>1, NextAnchorTyped DEF RequestState
<1>6. a.env \in Envs
  BY AskFields
<1>7. /\ policy' = [policy EXCEPT ![a.env] = n] /\ anchor' = [anchor EXCEPT ![a.env] = t]
      /\ completed' = [completed EXCEPT ![a.env] = c] /\ moved' = moved + 1
      /\ global' = global /\ surface' = surface /\ owners' = owners /\ sequence' = sequence /\ today' = today /\ held' = held
  BY <1>2, <1>3, <1>4, <1>5 DEF CommitPolicy
<1>8. PolicyTypeOK'
  BY <1>6, <1>7 DEF Governing, TablesTyped, PolicyTypeOK
<1>9. TablesTyped'
  BY <1>3, <1>6, <1>7, <1>8 DEF Governing, TablesTyped, PolicyTypeOK
<1>10. PICK x : x = [request[r] EXCEPT !.at = "committed"]
  OBVIOUS
<1>11. /\ x \in RequestState /\ x.at = "committed" /\ x.ask = request[r].ask /\ x.day = request[r].day
       /\ x.next = request[r].next
  BY <1>1, <1>10 DEF RequestState
<1>12. InHand(x)'
  BY <1>1, <1>7, <1>11 DEF InHand, GlobalStages
<1>13. TakesFree(request[r], x)
  BY <1>11 DEF TakesFree, HoldsPolicy, HoldsEnvironment, HoldsGlobal, SharesMarks, GlobalStages
<1>14. request' = [request EXCEPT ![r] = x]
  BY <1>10 DEF CommitPolicy, Place
<1>15. \A e \in Envs : policy'[e] = policy[e] \/ HoldsPolicy(request[r], e)
  BY <1>1, <1>2, <1>7 DEF HoldsPolicy, Governing, TablesTyped, PolicyTypeOK
<1>16. sequence <= sequence'
  BY <1>7, TableFacts
<1> QED BY <1>7, <1>9, <1>11, <1>12, <1>13, <1>14, <1>15, <1>16, Turns

LEMMA RememberGoverning ==
  ASSUME Governing, NEW r \in Requests, Remember(r)
  PROVE  Governing'
<1>1. TablesStay /\ RestStays
  BY Untouched DEF Remember
<1>2. PICK e \in Envs : e = request[r].ask.env
  BY TableFacts, AskFields DEF Remember, InHand, GlobalStages
<1>3. PICK n \in Policy : n = request[r].next
  BY TableFacts DEF Remember, InHand, GlobalStages
<1>4. held' = [held EXCEPT ![Serving[r]].policy[e] = n]
  BY <1>2, <1>3 DEF Remember
<1>5. held' \in [Processes -> Held]
  BY <1>4, HeldTyped DEF Held
<1> QED BY <1>1, <1>5, LeavesQuietly DEF Remember

LEMMA WriteSurfaceGoverning ==
  ASSUME Governing, NEW r \in Requests, WriteSurface(r)
  PROVE  Governing'
<1>1. /\ global' = global /\ policy' = policy /\ anchor' = anchor /\ completed' = completed /\ owners' = owners
      /\ sequence' = sequence /\ today' = today
  BY DEF WriteSurface
<1>2. PICK e \in Envs : e = request[r].ask.env
  BY TableFacts, AskFields DEF WriteSurface, InHand, GlobalStages
<1>3. surface[e] \in Surface /\ surface[e].revision \in 0..MaxRevision /\ surface[e].revision \in Int
  BY PolicyAssumption DEF Governing, TablesTyped, PolicyTypeOK, Surface
<1>4. PICK at \in {"done", "reloading"} : Place(r, at)
  BY DEF WriteSurface
<1>5. TablesTyped'
  <2>1. CASE surface' = surface /\ audits' = audits /\ moved' = moved /\ held' = held
    BY <1>1, <2>1 DEF Governing, TablesTyped, PolicyTypeOK
  <2>2. CASE ~(surface' = surface /\ audits' = audits /\ moved' = moved /\ held' = held)
    <3>1. PICK value \in {"feed", "reels"} : value = IF request[r].ask.on THEN "reels" ELSE "feed"
      OBVIOUS
    <3>2. surface[e].revision < MaxRevision /\ moved' = moved + 1
      BY <1>2, <2>2 DEF WriteSurface
    <3>3. PICK s : s = [value |-> value, revision |-> surface[e].revision + 1]
      OBVIOUS
    <3>4. surface[e].revision + 1 \in 0..MaxRevision
      BY <1>3, <3>2, PolicyAssumption
    <3>5. s \in Surface
      BY <3>3, <3>4 DEF Surface
    <3>6. surface' = [surface EXCEPT ![e] = s] /\ held' = [held EXCEPT ![Serving[r]].surface[e] = s]
      BY <1>2, <2>2, <3>1, <3>3 DEF WriteSurface
    <3>7. surface' \in [Envs -> Surface] /\ held' \in [Processes -> Held]
      BY <3>5, <3>6, HeldTyped DEF Held, Governing, TablesTyped, PolicyTypeOK
    <3> QED BY <1>1, <3>2, <3>7 DEF Governing, TablesTyped, PolicyTypeOK
  <2> QED BY <2>1, <2>2
<1>6. sequence <= sequence' /\ \A d \in Envs : policy'[d] = policy[d] \/ HoldsPolicy(request[r], d)
  BY <1>1, TableFacts
<1> QED BY <1>1, <1>4, <1>5, <1>6, Leaves DEF WriteSurface

(* A request goes on with what it has read.                                    *)
LEMMA ReadsOn ==
  ASSUME Governing, TablesStay, RestStays, held' = held, NEW r \in Requests, NEW x \in RequestState,
         request' = [request EXCEPT ![r] = x], InHand(x)', TakesFree(request[r], x)
  PROVE  Governing'
<1>1. TablesTyped'
  BY HeldTyped, TablesStayTyped
<1>2. \A e \in Envs : policy'[e] = policy[e] \/ HoldsPolicy(request[r], e)
  BY DEF TablesStay
<1>3. owners' = owners /\ sequence <= sequence' /\ today' = today
  BY TableFacts DEF RestStays
<1> QED BY <1>1, <1>2, <1>3, Turns

LEMMA LockGlobalGoverning ==
  ASSUME Governing, NEW r \in Requests, LockGlobal(r)
  PROVE  Governing'
<1>1. TablesStay /\ RestStays /\ held' = held
  BY Untouched DEF LockGlobal
<1>2. CASE Place(r, "reloading")
  BY <1>1, <1>2, HeldTyped, LeavesQuietly DEF LockGlobal
<1>3. CASE global.revision = request[r].expected
  <2>1. PICK due \in Numbered : due = [e \in DueAt(global.days, request[r].day) |-> policy[e].revision]
    <3>1. PICK S \in SUBSET Envs : S = DueAt(global.days, request[r].day)
      BY DEF DueAt
    <3>2. [e \in S |-> policy[e].revision] \in [S -> Int]
      BY TableFacts
    <3> QED BY <3>1, <3>2 DEF Numbered
  <2>2. request' = [request EXCEPT ![r].at = "graduating", ![r].due = due]
    BY <1>3, <2>1 DEF LockGlobal
  <2>3. request[r] \in RequestState /\ InHand(request[r]) /\ "graduating" \in AskStages
    BY TableFacts DEF AskStages, GlobalStages
  <2>4. PICK x : x = [request[r] EXCEPT !.at = "graduating", !.due = due]
    OBVIOUS
  <2>5. x \in RequestState /\ x.at = "graduating" /\ x.ask = request[r].ask /\ x.day = request[r].day
    BY <2>3, <2>4 DEF RequestState
  <2>6. InHand(x)'
    BY <1>1, <2>3, <2>5 DEF InHand, RestStays, LockGlobal, GlobalStages
  <2>7. TakesFree(request[r], x)
    BY <2>5 DEF TakesFree, HoldsPolicy, HoldsEnvironment, HoldsGlobal, SharesMarks, GlobalStages, LockGlobal
  <2>8. request' = [request EXCEPT ![r] = x]
    BY <2>2, <2>4 DEF Governing
  <2> QED BY <1>1, <2>5, <2>6, <2>7, <2>8, ReadsOn
<1> QED BY <1>2, <1>3 DEF LockGlobal

LEMMA MarkGraduatedGoverning ==
  ASSUME Governing, NEW r \in Requests, MarkGraduated(r)
  PROVE  Governing'
<1>1. TablesStay /\ RestStays /\ held' = held /\ request[r].at = "graduating"
  BY Untouched DEF MarkGraduated
<1>2. request[r] \in RequestState /\ InHand(request[r]) /\ "marking" \in AskStages
  BY TableFacts DEF AskStages, GlobalStages
<1>3. PICK marks \in SUBSET Envs : marks = Unmarked(DOMAIN request[r].due)
  <2>1. request[r].due \in Numbered
    BY <1>2 DEF RequestState
  <2>2. DOMAIN request[r].due \subseteq Envs
    BY <2>1 DEF Numbered
  <2> QED BY <2>2 DEF Unmarked
<1>4. PICK x : x = [request[r] EXCEPT !.at = "marking", !.marks = marks]
  OBVIOUS
<1>5. x \in RequestState /\ x.at = "marking" /\ x.ask = request[r].ask /\ x.day = request[r].day /\ x.marks = marks
  BY <1>2, <1>4 DEF RequestState
<1>6. InHand(x)'
  BY <1>1, <1>2, <1>5 DEF InHand, RestStays, GlobalStages
<1>7. TakesFree(request[r], x)
  BY <1>1, <1>3, <1>5 DEF TakesFree, HoldsPolicy, HoldsEnvironment, HoldsGlobal, SharesMarks, GlobalStages, MarkGraduated
<1>8. request' = [request EXCEPT ![r] = x]
  BY <1>3, <1>4 DEF Governing, MarkGraduated
<1> QED BY <1>1, <1>5, <1>6, <1>7, <1>8, ReadsOn

LEMMA SeeShorterGoverning ==
  ASSUME Governing, NEW r \in Requests, SeeShorter(r)
  PROVE  Governing'
<1>1. TablesStay /\ RestStays /\ held' = held /\ request[r].at = "spreading"
  BY Untouched DEF SeeShorter
<1>2. request[r] \in RequestState /\ InHand(request[r]) /\ "shortening" \in AskStages
  BY TableFacts DEF AskStages, GlobalStages
<1>3. PICK shorter \in SUBSET Envs : shorter = DueAt(request[r].ask.day, request[r].day)
  BY DEF DueAt
<1>4. PICK x : x = [request[r] EXCEPT !.at = "shortening", !.shorter = shorter]
  OBVIOUS
<1>5. /\ x \in RequestState /\ x.at = "shortening" /\ x.ask = request[r].ask /\ x.day = request[r].day
      /\ x.rows = request[r].rows /\ x.marks = request[r].marks
  BY <1>2, <1>4 DEF RequestState
<1>6. \A e \in DOMAIN x.rows : policy'[e].revision < x.rows[e] /\ x.rows[e] <= sequence'
  BY <1>1, <1>2, <1>5 DEF InHand, TablesStay, RestStays
<1>7. InHand(x)'
  BY <1>1, <1>2, <1>5, <1>6 DEF InHand, RestStays, GlobalStages
<1>8. TakesFree(request[r], x)
  BY <1>1, <1>5 DEF TakesFree, HoldsPolicy, HoldsEnvironment, HoldsGlobal, SharesMarks, GlobalStages
<1>9. request' = [request EXCEPT ![r] = x]
  BY <1>3, <1>4 DEF Governing, SeeShorter
<1> QED BY <1>1, <1>5, <1>7, <1>8, <1>9, ReadsOn

LEMMA LockInheritingGoverning ==
  ASSUME Governing, NEW r \in Requests, LockInheriting(r)
  PROVE  Governing'
<1> DEFINE inheriting == {e \in Envs : /\ request[r].ask.cadence # global.cadence
                                       /\ policy[e].revision > 0 /\ policy[e].source = "global"}
<1>1. TablesStay /\ owners' = owners /\ today' = today /\ held' = held
  BY Untouched DEF LockInheriting
<1>2. PICK S \in SUBSET Envs : S = inheriting
  OBVIOUS
<1>3. PICK n \in Nat : n = Cardinality(S)
  BY PolicyAssumption, FS_Subset, FS_CardinalityType
<1>4. /\ request[r].at = "marking" /\ \A e \in S : ~PolicyLocked(e)
      /\ sequence + n <= MaxRevision /\ sequence' = sequence + n
      /\ \E rows \in Numberings(S, sequence) :
           request' = [request EXCEPT ![r].at = "spreading", ![r].rows = rows]
  BY <1>2, <1>3 DEF LockInheriting
<1>5. PICK rows \in Numberings(S, sequence) : request' = [request EXCEPT ![r].at = "spreading", ![r].rows = rows]
  BY <1>4
<1>6. rows \in [S -> (sequence + 1)..(sequence + n)]
  BY <1>3 DEF Numberings
<1>7. sequence \in 0..MaxRevision /\ sequence \in Int
  BY TableFacts DEF Governing, TablesTyped, PolicyTypeOK
<1>8. rows \in [S -> Int] /\ DOMAIN rows = S
      /\ \A e \in S : rows[e] \in Int /\ sequence < rows[e] /\ rows[e] <= sequence + n
  BY <1>6, <1>7
<1>9. rows \in Numbered
  BY <1>8 DEF Numbered
<1>10. request[r] \in RequestState /\ InHand(request[r]) /\ "spreading" \in AskStages
  BY TableFacts DEF AskStages, GlobalStages
<1>11. PICK x : x = [request[r] EXCEPT !.at = "spreading", !.rows = rows]
  OBVIOUS
<1>12. /\ x \in RequestState /\ x.at = "spreading" /\ x.ask = request[r].ask /\ x.day = request[r].day
       /\ x.rows = rows /\ x.marks = request[r].marks
  BY <1>9, <1>10, <1>11 DEF RequestState
<1>13. \A e \in DOMAIN x.rows : policy'[e].revision < x.rows[e] /\ x.rows[e] <= sequence'
  <2>1. \A e \in S : policy'[e].revision <= sequence /\ policy'[e].revision \in Int
    BY <1>1, TableFacts DEF TablesStay
  <2> QED BY <1>4, <1>7, <1>8, <1>12, <2>1
<1>14. InHand(x)'
  BY <1>1, <1>4, <1>10, <1>12, <1>13 DEF InHand, GlobalStages
<1>15. TakesFree(request[r], x)
  BY <1>4, <1>8, <1>12 DEF TakesFree, HoldsPolicy, HoldsEnvironment, HoldsGlobal, SharesMarks, GlobalStages
<1>16. request' = [request EXCEPT ![r] = x]
  BY <1>5, <1>11 DEF Governing
<1>17. sequence' \in 0..MaxRevision /\ sequence <= sequence'
  BY <1>3, <1>4, <1>7, PolicyAssumption
<1>18. \A e \in Envs : policy'[e].revision <= sequence'
  BY <1>1, <1>17, TableFacts, PolicyAssumption DEF TablesStay
<1>19. TablesTyped'
  BY <1>1, <1>17, <1>18 DEF TablesTyped, PolicyTypeOK, Governing, TablesStay
<1>20. \A e \in Envs : policy'[e] = policy[e] \/ HoldsPolicy(request[r], e)
  BY <1>1 DEF TablesStay
<1> QED BY <1>1, <1>12, <1>14, <1>15, <1>16, <1>17, <1>19, <1>20, Turns

LEMMA CommitGlobalGoverning ==
  ASSUME Governing, NEW r \in Requests, CommitGlobal(r)
  PROVE  Governing'
<1>1. request[r] \in RequestState /\ InHand(request[r]) /\ request[r].at = "shortening"
  BY TableFacts DEF CommitGlobal
<1>2. PICK a \in Asks : a = request[r].ask /\ a.kind = "global"
  BY <1>1 DEF InHand, GlobalStages
<1>3. PICK rows \in Numbered : rows = request[r].rows
  BY <1>1 DEF RequestState
<1>4. PICK S \in SUBSET Envs : rows \in [S -> Int] /\ DOMAIN rows = S
  BY DEF Numbered
<1>5. \A e \in S : policy[e].revision < rows[e] /\ rows[e] <= sequence
  BY <1>1, <1>3, <1>4 DEF InHand, GlobalStages
<1>6. a.cadence \in Cadences /\ a.day \in 1..MaxDays
  BY <1>2, AskFields
<1>7. global \in Global /\ global.revision \in 0..MaxRevision /\ global.revision \in Int /\ global.revision < MaxRevision
  <2>1. global \in Global
    BY DEF Governing, TablesTyped, PolicyTypeOK
  <2>2. global.revision \in 0..MaxRevision
    BY <2>1 DEF Global
  <2>3. global.revision < MaxRevision
    BY DEF CommitGlobal
  <2> QED BY <2>1, <2>2, <2>3, PolicyAssumption
<1>8. /\ anchor' = anchor /\ surface' = surface /\ owners' = owners /\ sequence' = sequence /\ today' = today /\ held' = held
      /\ moved' = moved + 1 /\ Place(r, "reloading")
  BY DEF CommitGlobal
<1>9. global' \in Global
  <2>1. global.revision + 1 \in 0..MaxRevision
    BY <1>7, PolicyAssumption
  <2>2. global' = [cadence |-> a.cadence, days |-> a.day, revision |-> global.revision + 1]
    BY <1>2 DEF CommitGlobal
  <2> QED BY <1>6, <2>1, <2>2 DEF Global
<1>10. policy' = [e \in Envs |-> IF e \in S THEN [policy[e] EXCEPT !.cadence = a.cadence, !.revision = rows[e]]
                                 ELSE policy[e]]
  BY <1>2, <1>3, <1>4 DEF CommitGlobal
<1>11. \A e \in Envs : policy'[e] \in Policy /\ policy'[e].revision <= sequence
  <2> SUFFICES ASSUME NEW e \in Envs PROVE policy'[e] \in Policy /\ policy'[e].revision <= sequence
    OBVIOUS
  <2>1. CASE e \notin S
    BY <1>10, <2>1, TableFacts
  <2>2. CASE e \in S
    <3>1. PICK n \in Int : n = rows[e]
      BY <1>4, <2>2
    <3>2. n \in 0..MaxRevision /\ n <= sequence
      <4>1. sequence \in 0..MaxRevision
        BY DEF Governing, TablesTyped, PolicyTypeOK
      <4>2. policy[e].revision < n /\ n <= sequence /\ policy[e].revision \in Int /\ policy[e].revision >= 0
        BY <1>5, <2>2, <3>1, TableFacts, PolicyFields
      <4> QED BY <4>1, <4>2, PolicyAssumption
    <3>3. policy'[e] = [policy[e] EXCEPT !.cadence = a.cadence, !.revision = n]
      BY <1>10, <2>2, <3>1
    <3>4. policy[e] \in Policy
      BY TableFacts
    <3> QED BY <1>6, <3>2, <3>3, <3>4 DEF Policy
  <2> QED BY <2>1, <2>2
<1>12. policy' \in [Envs -> Policy]
  BY <1>10, <1>11
<1>13. completed' \in [Envs -> BOOLEAN]
  BY DEF CommitGlobal
<1>14. TablesTyped'
  BY <1>8, <1>9, <1>11, <1>12, <1>13 DEF TablesTyped, PolicyTypeOK, Governing
<1>15. \A e \in Envs : policy'[e] = policy[e] \/ HoldsPolicy(request[r], e)
  BY <1>1, <1>3, <1>4, <1>10 DEF HoldsPolicy
<1>16. sequence <= sequence'
  BY <1>8, TableFacts
<1> QED BY <1>1, <1>8, <1>14, <1>15, <1>16, Leaves

LEMMA EndOneOfGoverning ==
  ASSUME Governing, NEW g \in Requests, NEW r \in Requests, EndOneOf(g, r)
  PROVE  Governing'
<1>1. TablesStay /\ RestStays /\ held' = held
  BY Untouched DEF EndOneOf
<1>2. PICK victim \in {g, r} : Place(victim, "done")
  BY DEF EndOneOf
<1>3. victim \in Requests /\ request[victim].at \notin {"idle", "done"}
  BY DEF EndOneOf, Entangled
<1> QED BY <1>1, <1>2, <1>3, HeldTyped, LeavesQuietly

LEMMA RefreshGoverning ==
  ASSUME Governing, NEW p \in Processes, RefreshFromAuthority(p)
  PROVE  Governing'
<1>1. TablesStay /\ RestStays /\ request' = request
  BY Untouched DEF RefreshFromAuthority, tables, TablesStay, RestStays
<1>2. held' \in [Processes -> Held]
  BY HeldTyped, FromTablesTyped DEF RefreshFromAuthority
<1>3. TablesTyped'
  BY <1>1, <1>2, TablesStayTyped
<1>4. policy' = policy /\ sequence' = sequence /\ today <= today' /\ owners' = owners
  BY <1>1, TableFacts DEF TablesStay, RestStays
<1> QED BY <1>1, <1>3, <1>4, Rests

LEMMA SetSlowStartGoverning ==
  ASSUME Governing, NEW e \in Envs, NEW on \in BOOLEAN, SetEnvironmentSlowStart(e, on)
  PROVE  Governing'
<1>1. /\ global' = global /\ policy' = policy /\ surface' = surface /\ moved' = moved /\ audits' = audits
      /\ owners' = owners /\ sequence' = sequence /\ today' = today /\ held' = held /\ request' = request
  BY DEF SetEnvironmentSlowStart
<1>2. anchor[e] \in Int \cup {None} /\ completed[e] \in BOOLEAN /\ today \in Int
  BY TableFacts DEF Governing, TablesTyped, PolicyTypeOK
<1>3. PICK t \in Int \cup {None} : t = IF ~on THEN None ELSE IF completed[e] \/ anchor[e] = None THEN today ELSE anchor[e]
  BY <1>2
<1>4. anchor' = [anchor EXCEPT ![e] = t]
  BY <1>3 DEF SetEnvironmentSlowStart
<1>5. completed' \in [Envs -> BOOLEAN] /\ anchor' \in [Envs -> Int \cup {None}]
  BY <1>2, <1>4 DEF SetEnvironmentSlowStart, Governing, TablesTyped, PolicyTypeOK
<1>6. TablesTyped'
  BY <1>1, <1>5 DEF Governing, TablesTyped, PolicyTypeOK
<1>7. today <= today'
  BY <1>1, TableFacts
<1> QED BY <1>1, <1>6, <1>7, Rests

LEMMA SetOwnersGoverning ==
  ASSUME Governing, NEW e \in Envs, NEW S \in SUBSET Users, SetOwners(e, S)
  PROVE  Governing'
<1>1. TablesStay /\ sequence' = sequence /\ today' = today /\ held' = held /\ request' = request
  BY DEF SetOwners, tables, TablesStay
<1>2. owners' \in [Envs -> SUBSET Users] /\ \A d \in Envs : owners'[d] = owners[d] \/ ~EnvLocked(d)
  BY DEF SetOwners, Governing, TablesTyped, PolicyTypeOK
<1>3. TablesTyped'
  BY <1>1, <1>2 DEF Governing, TablesTyped, PolicyTypeOK, TablesStay
<1>4. today <= today' /\ policy' = policy
  BY <1>1, TableFacts DEF TablesStay
<1> QED BY <1>1, <1>2, <1>3, <1>4, Rests

LEMMA DayPassesGoverning ==
  ASSUME Governing, DayPasses
  PROVE  Governing'
<1>1. TablesStay /\ sequence' = sequence /\ owners' = owners /\ held' = held /\ request' = request
  BY DEF DayPasses, tables, TablesStay
<1>2. today \in 0..LastDay /\ today < LastDay /\ today' = today + 1
  BY DEF DayPasses, Governing, TablesTyped, PolicyTypeOK
<1>3. today' \in 0..LastDay /\ today <= today'
  BY <1>2, PolicyAssumption
<1>4. TablesTyped'
  BY <1>1, <1>3 DEF Governing, TablesTyped, PolicyTypeOK, TablesStay
<1>5. policy' = policy
  BY <1>1 DEF TablesStay
<1> QED BY <1>1, <1>3, <1>4, <1>5, Rests

LEMMA GoverningBegins == PolicyInit => Governing
<1> SUFFICES ASSUME PolicyInit PROVE Governing
  OBVIOUS
<1>1. 1 \in 0..MaxRevision /\ 1 \in 1..MaxRevision /\ 2 \in 1..MaxDays /\ 0 \in 0..LastDay /\ 0 \in 0..MaxRevision
  BY PolicyAssumption
<1>2. global \in Global
  BY <1>1, PolicyAssumption DEF PolicyInit, Global
<1>3. PICK made \in SUBSET Envs :
        policy = [e \in Envs |-> IF e \in made THEN [Fallback(e, global) EXCEPT !.revision = 1] ELSE Fallback(e, global)]
  BY DEF PolicyInit
<1>4. \A e \in Envs : policy[e] \in Policy /\ policy[e].revision <= 1
  <2> SUFFICES ASSUME NEW e \in Envs PROVE policy[e] \in Policy /\ policy[e].revision <= 1
    OBVIOUS
  <2>1. PICK f \in Policy : f = Fallback(e, global) /\ f.revision = 0
    BY <1>2, FallbackTyped
  <2>2. policy[e] = IF e \in made THEN [f EXCEPT !.revision = 1] ELSE f
    BY <1>3, <2>1
  <2>3. [f EXCEPT !.revision = 1] \in Policy /\ [f EXCEPT !.revision = 1].revision = 1
    BY <1>1 DEF Policy
  <2> QED BY <2>1, <2>2, <2>3
<1>5. policy \in [Envs -> Policy]
  BY <1>3, <1>4
<1>6. anchor \in [Envs -> Int \cup {None}] /\ completed \in [Envs -> BOOLEAN]
  BY DEF PolicyInit
<1>7. surface \in [Envs -> Surface]
  BY <1>1 DEF PolicyInit, Surface
<1>8. owners \in [Envs -> SUBSET Users]
  BY DEF PolicyInit
<1>9. held \in [Processes -> Held]
  BY <1>2, <1>5, <1>7 DEF PolicyInit, Held
<1>10. sequence \in 0..MaxRevision /\ today \in 0..LastDay /\ moved \in Nat /\ sequence = 1
  BY <1>1 DEF PolicyInit
<1>11. TablesTyped
  BY <1>2, <1>4, <1>5, <1>6, <1>7, <1>8, <1>9, <1>10 DEF TablesTyped, PolicyTypeOK
<1>12. NoRequest \in RequestState /\ NoRequest.at = "idle"
  BY NoRequestTyped DEF AskStages, NoRequest, GlobalStages
<1>13. request \in [Requests -> RequestState] /\ \A r \in Requests : request[r].at = "idle"
  BY <1>12 DEF PolicyInit
<1>14. \A r \in Requests : InHand(request[r])
  BY <1>13 DEF InHand, GlobalStages
<1>15. Alone /\ MarksFree
  BY <1>13 DEF Alone, MarksFree, HoldsPolicy, HoldsGlobal, SharesMarks, GlobalStages
<1> QED BY <1>11, <1>13, <1>14, <1>15 DEF Governing

LEMMA GoverningStutters ==
  ASSUME Governing, UNCHANGED polVars
  PROVE  Governing'
<1>1. TablesStay /\ RestStays /\ held' = held /\ request' = request
  BY DEF polVars, TablesStay, RestStays
<1>2. TablesTyped'
  BY <1>1, HeldTyped, TablesStayTyped
<1>3. policy' = policy /\ sequence' = sequence /\ today <= today' /\ owners' = owners
  BY <1>1, TableFacts DEF TablesStay, RestStays
<1> QED BY <1>1, <1>2, <1>3, Rests

LEMMA GoverningStays == Governing /\ [PolicyNext]_polVars => Governing'
BY SendGoverning, RefuseGoverning, FailsGoverning, ReloadGoverning, LockEnvironmentGoverning, ReadPolicyGoverning,
   AnswerGoverning, CommitPolicyGoverning, RememberGoverning, WriteSurfaceGoverning, LockGlobalGoverning,
   MarkGraduatedGoverning, LockInheritingGoverning, SeeShorterGoverning, CommitGlobalGoverning, EndOneOfGoverning, RefreshGoverning, SetSlowStartGoverning,
   SetOwnersGoverning, DayPassesGoverning, GoverningStutters DEF PolicyNext, OfEnvironment, OfGlobal

-----------------------------------------------------------------------------
(* The audits.                                                                 *)
Rising(S, first, last) ==
  /\ Follow(S, first, last)
  /\ \A t \in S : t.prior \in Int /\ t.new \in Int /\ t.new <= last
Audited ==
  /\ Rising(Told("global", None), 1, global.revision)
  /\ \A e \in Envs : /\ Rising(Told("policy", e), 0, policy[e].revision)
                     /\ Rising(Told("surface", e), 1, surface[e].revision)

LEMMA OneMoreTold ==
  ASSUME NEW S, NEW first, NEW last \in Int, Rising(S, first, last), NEW n \in Int, last < n,
         NEW x, x.prior = last, x.new = n
  PROVE  Rising(S \cup {x}, first, n)
<1>1. \A t \in S : /\ t.prior \in Int /\ t.new \in Int /\ t.new <= last /\ t.prior < t.new
                   /\ t.prior = first \/ \E s \in S : s.new = t.prior
  BY DEF Rising, Follow
<1>2. \A s, t \in S : s.prior = t.prior => s = t
  BY DEF Rising, Follow
<1>3. last = first \/ \E t \in S : t.new = last
  BY DEF Rising, Follow
<1>4. \A t \in S \cup {x} : t.prior < t.new /\ (t.prior = first \/ \E s \in S \cup {x} : s.new = t.prior)
  BY <1>1, <1>3
<1>5. \A s, t \in S \cup {x} : s.prior = t.prior => s = t
  <2>1. \A t \in S : t.prior # last
    BY <1>1
  <2> QED BY <1>2, <2>1
<1>6. S \cup {x} # {} /\ \E t \in S \cup {x} : t.new = n
  OBVIOUS
<1>7. \A t \in S \cup {x} : t.prior \in Int /\ t.new \in Int /\ t.new <= n
  BY <1>1
<1> QED BY <1>4, <1>5, <1>6, <1>7 DEF Rising, Follow

LEMMA AuditFields ==
  ASSUME NEW table, NEW e, NEW prior, NEW n
  PROVE  /\ Audit(table, e, prior, n).table = table /\ Audit(table, e, prior, n).env = e
         /\ Audit(table, e, prior, n).prior = prior /\ Audit(table, e, prior, n).new = n
BY DEF Audit

LEMMA RevisionTypes ==
  ASSUME Governing
  PROVE  /\ global.revision \in Int
         /\ \A e \in Envs : policy[e].revision \in Int /\ surface[e].revision \in Int
<1>1. global \in Global /\ \A e \in Envs : surface[e] \in Surface
  BY DEF Governing, TablesTyped, PolicyTypeOK
<1>2. global.revision \in 0..MaxRevision /\ \A e \in Envs : surface[e].revision \in 0..MaxRevision
  BY <1>1 DEF Global, Surface
<1> QED BY <1>2, TableFacts, PolicyAssumption

LEMMA AuditedStays ==
  ASSUME Audited, audits' = audits, global' = global, policy' = policy, surface' = surface
  PROVE  Audited'
BY DEF Audited, Told

LEMMA AuditedCommitPolicy ==
  ASSUME Governing, Audited, NEW r \in Requests, CommitPolicy(r)
  PROVE  Audited'
<1>1. InHand(request[r]) /\ request[r].at = "writing" /\ request[r].was \in Int
  BY TableFacts DEF CommitPolicy, RequestState
<1>2. PICK d \in Envs : d = request[r].ask.env
  BY <1>1, AskFields DEF InHand, GlobalStages
<1>3. PICK n \in Policy : n = request[r].next /\ n.revision \in Int
  BY <1>1, PolicyFields DEF InHand, GlobalStages
<1>4. request[r].was = policy[d].revision /\ policy[d].revision < n.revision
  BY <1>1, <1>2, <1>3 DEF InHand, GlobalStages
<1>5. PICK x : x = Audit("policy", d, policy[d].revision, n.revision)
  OBVIOUS
<1>6. x.table = "policy" /\ x.env = d /\ x.prior = policy[d].revision /\ x.new = n.revision
  BY <1>5, AuditFields
<1>7. /\ audits' = audits \cup {x} /\ policy' = [policy EXCEPT ![d] = n] /\ global' = global /\ surface' = surface
  BY <1>2, <1>3, <1>4, <1>5 DEF CommitPolicy
<1>8. /\ Told("global", None)' = Told("global", None)
      /\ \A e \in Envs : Told("surface", e)' = Told("surface", e)
      /\ \A e \in Envs : e # d => Told("policy", e)' = Told("policy", e)
      /\ Told("policy", d)' = Told("policy", d) \cup {x}
  BY <1>6, <1>7 DEF Told
<1>9. policy'[d] = n /\ \A e \in Envs : e # d => policy'[e] = policy[e]
  BY <1>7 DEF Governing, TablesTyped, PolicyTypeOK
<1>10. Rising(Told("policy", d) \cup {x}, 0, n.revision)
  BY <1>3, <1>4, <1>6, RevisionTypes, OneMoreTold DEF Audited
<1>11. \A e \in Envs : Rising(Told("policy", e)', 0, policy'[e].revision)
  BY <1>8, <1>9, <1>10 DEF Audited
<1>12. Rising(Told("global", None)', 1, global'.revision)
  BY <1>7, <1>8 DEF Audited
<1>13. \A e \in Envs : Rising(Told("surface", e)', 1, surface'[e].revision)
  BY <1>7, <1>8 DEF Audited
<1> QED BY <1>11, <1>12, <1>13 DEF Audited

LEMMA AuditedWriteSurface ==
  ASSUME Governing, Audited, NEW r \in Requests, WriteSurface(r)
  PROVE  Audited'
<1>1. CASE surface' = surface /\ audits' = audits
  BY <1>1, AuditedStays DEF WriteSurface
<1>2. CASE ~(surface' = surface /\ audits' = audits)
  <2>1. PICK d \in Envs : d = request[r].ask.env
    BY TableFacts, AskFields DEF WriteSurface, InHand, GlobalStages
  <2>2. PICK n \in Int : n = surface[d].revision + 1
    BY RevisionTypes
  <2>3. PICK s : s = [value |-> IF request[r].ask.on THEN "reels" ELSE "feed", revision |-> n]
    OBVIOUS
  <2>4. PICK x : x = Audit("surface", d, surface[d].revision, n)
    OBVIOUS
  <2>5. x.table = "surface" /\ x.env = d /\ x.prior = surface[d].revision /\ x.new = n
    BY <2>4, AuditFields
  <2>6. /\ audits' = audits \cup {x} /\ surface' = [surface EXCEPT ![d] = s] /\ global' = global /\ policy' = policy
        /\ s.revision = n
    BY <1>2, <2>1, <2>2, <2>3, <2>4 DEF WriteSurface
  <2>7. /\ Told("global", None)' = Told("global", None)
        /\ \A e \in Envs : Told("policy", e)' = Told("policy", e)
        /\ \A e \in Envs : e # d => Told("surface", e)' = Told("surface", e)
        /\ Told("surface", d)' = Told("surface", d) \cup {x}
    BY <2>5, <2>6 DEF Told
  <2>8. surface'[d] = s /\ \A e \in Envs : e # d => surface'[e] = surface[e]
    BY <2>6 DEF Governing, TablesTyped, PolicyTypeOK
  <2>9. surface[d].revision < n
    BY <2>2, RevisionTypes
  <2>10. Rising(Told("surface", d) \cup {x}, 1, n)
    BY <2>5, <2>9, RevisionTypes, OneMoreTold DEF Audited
  <2>11. \A e \in Envs : Rising(Told("surface", e)', 1, surface'[e].revision)
    BY <2>6, <2>7, <2>8, <2>10 DEF Audited
  <2>12. Rising(Told("global", None)', 1, global'.revision)
    BY <2>6, <2>7 DEF Audited
  <2>13. \A e \in Envs : Rising(Told("policy", e)', 0, policy'[e].revision)
    BY <2>6, <2>7 DEF Audited
  <2> QED BY <2>11, <2>12, <2>13 DEF Audited
<1> QED BY <1>1, <1>2

LEMMA AuditedCommitGlobal ==
  ASSUME Governing, Audited, NEW r \in Requests, CommitGlobal(r)
  PROVE  Audited'
<1>1. request[r] \in RequestState /\ InHand(request[r]) /\ request[r].at = "shortening"
  BY TableFacts DEF CommitGlobal
<1>2. PICK rows \in Numbered : rows = request[r].rows
  BY <1>1 DEF RequestState
<1>3. PICK S \in SUBSET Envs : rows \in [S -> Int] /\ DOMAIN rows = S
  BY DEF Numbered
<1>4. \A e \in S : policy[e].revision < rows[e] /\ rows[e] \in Int
  BY <1>1, <1>2, <1>3 DEF InHand, GlobalStages
<1>5. PICK n \in Int : n = global.revision + 1
  BY RevisionTypes
<1>6. PICK x : x = Audit("global", None, global.revision, n)
  OBVIOUS
<1>7. x.table = "global" /\ x.env = None /\ x.prior = global.revision /\ x.new = n
  BY <1>6, AuditFields
<1>8. PICK Xs : Xs = {Audit("policy", e, policy[e].revision, rows[e]) : e \in S}
  OBVIOUS
<1>9. audits' = audits \cup {x} \cup Xs
  BY <1>2, <1>3, <1>5, <1>6, <1>8 DEF CommitGlobal
<1>10. global'.revision = n /\ surface' = surface
  BY <1>5 DEF CommitGlobal
<1>11. \A y \in Xs : y.table = "policy" /\ y.env \in S /\ y = Audit("policy", y.env, policy[y.env].revision, rows[y.env])
  BY <1>8, AuditFields
<1>12. Told("global", None)' = Told("global", None) \cup {x}
  BY <1>7, <1>9, <1>11 DEF Told
<1>13. \A e \in Envs : Told("surface", e)' = Told("surface", e)
  BY <1>7, <1>9, <1>11 DEF Told
<1>14. Rising(Told("global", None)', 1, global'.revision)
  BY <1>5, <1>7, <1>10, <1>12, RevisionTypes, OneMoreTold DEF Audited
<1>15. ASSUME NEW e \in Envs
       PROVE  Rising(Told("policy", e)', 0, policy'[e].revision)
  <2>1. CASE e \notin S
    <3>1. Told("policy", e)' = Told("policy", e)
      BY <1>7, <1>9, <1>11, <2>1 DEF Told
    <3>2. policy'[e] = policy[e]
      BY <1>2, <1>3, <2>1 DEF CommitGlobal
    <3> QED BY <3>1, <3>2 DEF Audited
  <2>2. CASE e \in S
    <3>1. PICK y : y = Audit("policy", e, policy[e].revision, rows[e])
      OBVIOUS
    <3>2. y.table = "policy" /\ y.env = e /\ y.prior = policy[e].revision /\ y.new = rows[e] /\ y \in Xs
      BY <1>8, <2>2, <3>1, AuditFields
    <3>3. \A z \in Xs : z.env = e => z = y
      BY <1>11, <3>1
    <3>4. Told("policy", e)' = Told("policy", e) \cup {y}
      BY <1>7, <1>9, <1>11, <3>2, <3>3 DEF Told
    <3>5. policy'[e].revision = rows[e]
      <4>1. policy'[e] = [policy[e] EXCEPT !.cadence = request[r].ask.cadence, !.revision = rows[e]]
        BY <1>2, <1>3, <2>2 DEF CommitGlobal
      <4>2. policy[e] \in Policy
        BY TableFacts
      <4> QED BY <4>1, <4>2 DEF Policy
    <3>6. Rising(Told("policy", e) \cup {y}, 0, rows[e])
      BY <1>4, <2>2, <3>2, RevisionTypes, OneMoreTold DEF Audited
    <3> QED BY <3>4, <3>5, <3>6
  <2> QED BY <2>1, <2>2
<1>16. \A e \in Envs : Rising(Told("surface", e)', 1, surface'[e].revision)
  BY <1>10, <1>13 DEF Audited
<1> QED BY <1>14, <1>15, <1>16 DEF Audited

(* The steps that commit nothing leave the tables as they are, and apart from  *)
(* the start of a slow start there are no others.                              *)
LEMMA ReadsLeaveTables ==
  ASSUME NEW r \in Requests,
         \/ Refuse(r) \/ Fails(r) \/ Reload(r) \/ LockEnvironment(r) \/ ReadPolicy(r) \/ Answer(r) \/ Remember(r)
         \/ LockGlobal(r) \/ MarkGraduated(r) \/ LockInheriting(r) \/ SeeShorter(r)
  PROVE  tables' = tables
<1>1. CASE Refuse(r) \/ Fails(r)
  BY <1>1 DEF Refuse, Fails
<1>2. CASE Reload(r)
  BY <1>2 DEF Reload
<1>3. CASE LockEnvironment(r)
  BY <1>3 DEF LockEnvironment
<1>4. CASE ReadPolicy(r)
  BY <1>4 DEF ReadPolicy
<1>5. CASE Answer(r) \/ Remember(r)
  BY <1>5 DEF Answer, Remember
<1>6. CASE LockGlobal(r) \/ MarkGraduated(r)
  BY <1>6 DEF LockGlobal, MarkGraduated
<1>7. CASE LockInheriting(r) \/ SeeShorter(r)
  BY <1>7 DEF LockInheriting, SeeShorter
<1> QED BY <1>1, <1>2, <1>3, <1>4, <1>5, <1>6, <1>7

LEMMA TablesRest ==
  ASSUME [PolicyNext]_polVars, ~\E r \in Requests : CommitPolicy(r) \/ WriteSurface(r) \/ CommitGlobal(r)
  PROVE  tables' = tables \/ \E e \in Envs, on \in BOOLEAN : SetEnvironmentSlowStart(e, on)
<1>1. ASSUME NEW r \in Requests, NEW a \in Asks, NEW p \in Processes, Send(r, a, p)
      PROVE  tables' = tables
  BY <1>1 DEF Send
<1>2. \A r \in Requests : OfEnvironment(r) \/ OfGlobal(r) => tables' = tables
  BY ReadsLeaveTables DEF OfEnvironment, OfGlobal
<1>3. ASSUME NEW g \in Requests, NEW r \in Requests, EndOneOf(g, r)
      PROVE  tables' = tables
  BY <1>3 DEF EndOneOf
<1>4. ASSUME NEW p \in Processes, RefreshFromAuthority(p)
      PROVE  tables' = tables
  BY <1>4 DEF RefreshFromAuthority
<1>5. ASSUME NEW e \in Envs, NEW S \in SUBSET Users, SetOwners(e, S)
      PROVE  tables' = tables
  BY <1>5 DEF SetOwners
<1>6. DayPasses => tables' = tables
  BY DEF DayPasses
<1>7. UNCHANGED polVars => tables' = tables
  BY DEF polVars, tables
<1> QED BY <1>1, <1>2, <1>3, <1>4, <1>5, <1>6, <1>7, ReadsLeaveTables DEF PolicyNext

LEMMA TablesUnwritten ==
  ASSUME [PolicyNext]_polVars, ~\E r \in Requests : CommitPolicy(r) \/ WriteSurface(r) \/ CommitGlobal(r)
  PROVE  audits' = audits /\ global' = global /\ policy' = policy /\ surface' = surface
<1>1. tables' = tables => audits' = audits /\ global' = global /\ policy' = policy /\ surface' = surface
  BY DEF tables
<1>2. ASSUME NEW e \in Envs, NEW on \in BOOLEAN, SetEnvironmentSlowStart(e, on)
      PROVE  audits' = audits /\ global' = global /\ policy' = policy /\ surface' = surface
  BY <1>2 DEF SetEnvironmentSlowStart
<1> QED BY <1>1, <1>2, TablesRest

LEMMA AuditedNext == Governing /\ Audited /\ [PolicyNext]_polVars => Audited'
BY AuditedCommitPolicy, AuditedWriteSurface, AuditedCommitGlobal, TablesUnwritten, AuditedStays

LEMMA RisingBegins ==
  ASSUME NEW first \in Int
  PROVE  Rising({}, first, first)
BY DEF Rising, Follow

LEMMA AuditedBegins == PolicyInit => Audited
<1> SUFFICES ASSUME PolicyInit PROVE Audited
  OBVIOUS
<1>1. Governing /\ global \in Global /\ global.revision = 1
  BY GoverningBegins DEF PolicyInit, Governing, TablesTyped, PolicyTypeOK
<1>2. PICK made \in SUBSET Envs :
        /\ policy = [e \in Envs |-> IF e \in made THEN [Fallback(e, global) EXCEPT !.revision = 1] ELSE Fallback(e, global)]
        /\ audits = {Audit("policy", e, 0, 1) : e \in made}
  BY DEF PolicyInit
<1>3. \A y \in audits : y.table = "policy" /\ y.env \in made /\ y = Audit("policy", y.env, 0, 1)
  BY <1>2, AuditFields
<1>4. Told("global", None) = {} /\ \A e \in Envs : Told("surface", e) = {}
  BY <1>3 DEF Told
<1>5. \A e \in Envs : surface[e].revision = 1
  BY DEF PolicyInit
<1>6. ASSUME NEW e \in Envs
      PROVE  Rising(Told("policy", e), 0, policy[e].revision)
  <2>1. PICK f \in Policy : f = Fallback(e, global) /\ f.revision = 0
    BY <1>1, FallbackTyped
  <2>2. CASE e \notin made
    <3>1. policy[e].revision = 0 /\ Told("policy", e) = {}
      BY <1>2, <1>3, <2>1, <2>2 DEF Told
    <3> QED BY <3>1, RisingBegins
  <2>3. CASE e \in made
    <3>1. policy[e] = [f EXCEPT !.revision = 1]
      BY <1>2, <2>1, <2>3
    <3>2. policy[e].revision = 1
      BY <3>1 DEF Policy
    <3>3. PICK y : y = Audit("policy", e, 0, 1)
      OBVIOUS
    <3>4. y.table = "policy" /\ y.env = e /\ y.prior = 0 /\ y.new = 1 /\ y \in audits
      BY <1>2, <2>3, <3>3, AuditFields
    <3>5. Told("policy", e) = {} \cup {y}
      BY <1>3, <3>3, <3>4 DEF Told
    <3>6. Rising({}, 0, 0)
      BY RisingBegins
    <3>7. Rising({} \cup {y}, 0, 1)
      BY <3>4, <3>6, OneMoreTold
    <3> QED BY <3>2, <3>5, <3>7
  <2> QED BY <2>2, <2>3
<1>7. Rising({}, 1, 1)
  BY RisingBegins
<1> QED BY <1>1, <1>4, <1>5, <1>6, <1>7 DEF Audited

-----------------------------------------------------------------------------
(* What a step may not do.                                                     *)

(* What a global write saw due and nobody wrote the policy of since is marked, *)
(* or was already, once the write has marked whom it marks.                    *)
PastDays(x, e) == anchor[e] # None /\ x.day - anchor[e] >= global.days
Marked ==
  \A r \in Requests : HoldsGlobal(request[r]) =>
    \A e \in DOMAIN request[r].due :
      /\ request[r].due[e] <= policy[e].revision
      /\ policy[e].revision = request[r].due[e] /\ PastDays(request[r], e) =>
           request[r].at = "graduating" \/ completed[e] \/ e \in request[r].marks

LEMMA DayTypes ==
  ASSUME Governing
  PROVE  /\ global.days \in Int /\ 1 <= global.days
         /\ \A r \in Requests : request[r].day \in Int /\ request[r].marks \subseteq Envs
         /\ \A r \in Requests : /\ DOMAIN request[r].due \subseteq Envs
                                /\ \A e \in DOMAIN request[r].due : request[r].due[e] \in Int
         /\ \A e \in Envs : anchor[e] \in Int \cup {None} /\ completed[e] \in BOOLEAN
<1>1. global.days \in 1..MaxDays
  BY DEF Governing, TablesTyped, PolicyTypeOK, Global
<1>2. \A r \in Requests : request[r].due \in Numbered /\ request[r].day \in Int /\ request[r].marks \subseteq Envs
  BY TableFacts DEF RequestState
<1>3. \A f \in Numbered : DOMAIN f \subseteq Envs /\ \A e \in DOMAIN f : f[e] \in Int
  BY DEF Numbered
<1> QED BY <1>1, <1>2, <1>3, PolicyAssumption DEF Governing, TablesTyped, PolicyTypeOK

(* Whoever holds the global row after a step held it before, or locked it now; *)
(* the marks are made in one step.                                             *)
Carries(q) ==
  /\ HoldsGlobal(request[q]) /\ request'[q].day = request[q].day /\ request'[q].due = request[q].due
  /\ MarkGraduated(q) \/ (/\ request'[q].marks = request[q].marks
                          /\ request[q].at = "graduating" <=> request'[q].at = "graduating")
LEMMA WhoHoldsGlobal ==
  ASSUME Governing, [PolicyNext]_polVars, NEW q \in Requests, HoldsGlobal(request'[q]), ~LockGlobal(q)
  PROVE  Carries(q)
<1>0. request \in [Requests -> RequestState] /\ \A at : [NoRequest EXCEPT !.at = at].at = at
  BY NoRequestTyped DEF Governing, AskStages, RequestState
<1>1. CASE request' = request
  BY <1>1 DEF Carries
<1>2. ASSUME NEW r \in Requests, NEW at \in AskStages, at \notin GlobalStages, Place(r, at)
      PROVE  Carries(q)
  <2>1. [request[r] EXCEPT !.at = at].at = at
    BY <1>0 DEF RequestState
  <2>2. r # q
    BY <1>0, <1>2, <2>1 DEF Place, HoldsGlobal
  <2> QED BY <1>0, <1>2, <2>2 DEF Place, Carries
<1>3. ASSUME request'[q] = request[q]
      PROVE  Carries(q)
  BY <1>3 DEF Carries
<1>4. {"done", "reloading", "locked", "committed"} \subseteq AskStages \ GlobalStages
  BY DEF AskStages, GlobalStages
<1>5. ASSUME NEW r \in Requests, NEW a \in Asks, NEW p \in Processes, Send(r, a, p)
      PROVE  request'[q] = request[q]
  <2>1. CASE q # r
    BY <1>0, <1>5, <2>1 DEF Send
  <2>2. CASE q = r
    <3>1. PICK expected, finished, contended :
             request'[q] = [NoRequest EXCEPT !.at = "waiting", !.ask = a, !.day = today,
                !.finished = finished, !.contended = contended, !.expected = expected]
      BY <1>0, <1>5, <2>2 DEF Send
    <3>2. NoRequest \in RequestState
      BY NoRequestTyped DEF AskStages
    <3>3. request'[q].at = "waiting"
      BY <3>1, <3>2 DEF RequestState
    <3> QED BY <3>3 DEF HoldsGlobal, GlobalStages
  <2> QED BY <2>1, <2>2
<1>6. ASSUME NEW r \in Requests, ReadPolicy(r)
      PROVE  request'[q] = request[q]
  <2>1. CASE q # r
    BY <1>0, <1>6, <2>1 DEF ReadPolicy
  <2>2. CASE q = r
    <3>1. PICK was, next : request' = [request EXCEPT ![r].at = "writing", ![r].was = was, ![r].next = next]
      BY <1>6 DEF ReadPolicy
    <3>2. request'[q].at = "writing"
      BY <1>0, <2>2, <3>1 DEF RequestState
    <3> QED BY <3>2 DEF HoldsGlobal, GlobalStages
  <2> QED BY <2>1, <2>2
<1>7. ASSUME NEW r \in Requests, LockGlobal(r)
      PROVE  request'[q] = request[q]
  BY <1>0, <1>7 DEF LockGlobal, Place
<1>8. ASSUME NEW r \in Requests, MarkGraduated(r) \/ LockInheriting(r) \/ SeeShorter(r)
      PROVE  Carries(q)
  <2>1. CASE q # r
    <3>1. request'[q] = request[q]
      BY <1>0, <1>8, <2>1 DEF MarkGraduated, LockInheriting, SeeShorter
    <3> QED BY <1>3, <3>1
  <2>2. CASE q = r /\ MarkGraduated(r)
    <3>1. PICK marks : request' = [request EXCEPT ![r].at = "marking", ![r].marks = marks]
      BY <2>2 DEF MarkGraduated
    <3>2. request'[q].day = request[q].day /\ request'[q].due = request[q].due
      BY <1>0, <2>2, <3>1 DEF RequestState
    <3> QED BY <2>2, <3>2 DEF Carries, HoldsGlobal, GlobalStages, MarkGraduated
  <2>3. CASE q = r /\ LockInheriting(r)
    <3>1. PICK rows : request' = [request EXCEPT ![r].at = "spreading", ![r].rows = rows] /\ request[r].at = "marking"
      BY <2>3 DEF LockInheriting
    <3>2. /\ request'[q].day = request[q].day /\ request'[q].due = request[q].due /\ request'[q].marks = request[q].marks
          /\ request'[q].at = "spreading"
      BY <1>0, <2>3, <3>1 DEF RequestState
    <3> QED BY <2>3, <3>1, <3>2 DEF Carries, HoldsGlobal, GlobalStages
  <2>4. CASE q = r /\ SeeShorter(r)
    <3>1. PICK shorter : /\ request' = [request EXCEPT ![r].at = "shortening", ![r].shorter = shorter]
                         /\ request[r].at = "spreading"
      BY <2>4 DEF SeeShorter
    <3>2. /\ request'[q].day = request[q].day /\ request'[q].due = request[q].due /\ request'[q].marks = request[q].marks
          /\ request'[q].at = "shortening"
      BY <1>0, <2>4, <3>1 DEF RequestState
    <3> QED BY <2>4, <3>1, <3>2 DEF Carries, HoldsGlobal, GlobalStages
  <2> QED BY <1>8, <2>1, <2>2, <2>3, <2>4
<1>9. \/ request' = request
      \/ \E r \in Requests : \/ \E at \in {"done", "reloading", "locked", "committed"} : Place(r, at)
                             \/ \E a \in Asks, p \in Processes : Send(r, a, p)
                             \/ ReadPolicy(r) \/ LockGlobal(r)
                             \/ MarkGraduated(r) \/ LockInheriting(r) \/ SeeShorter(r)
  <2>1. ASSUME NEW r \in Requests, Refuse(r) \/ Fails(r) \/ Reload(r) \/ OfEnvironment(r) \/ CommitGlobal(r)
        PROVE  ReadPolicy(r) \/ \E at \in {"done", "reloading", "locked", "committed"} : Place(r, at)
    <3>1. CASE Refuse(r) \/ Fails(r) \/ Reload(r)
      BY <3>1 DEF Refuse, Fails, Reload
    <3>2. CASE LockEnvironment(r) \/ Answer(r)
      BY <3>2 DEF LockEnvironment, Answer
    <3>3. CASE CommitPolicy(r) \/ Remember(r)
      BY <3>3 DEF CommitPolicy, Remember
    <3>4. CASE WriteSurface(r) \/ CommitGlobal(r)
      BY <3>4 DEF WriteSurface, CommitGlobal
    <3> QED BY <2>1, <3>1, <3>2, <3>3, <3>4 DEF OfEnvironment
  <2>2. ASSUME NEW g \in Requests, NEW r \in Requests, EndOneOf(g, r)
        PROVE  \E victim \in Requests : Place(victim, "done")
    BY <2>2 DEF EndOneOf
  <2>3. ASSUME NEW e \in Envs, \/ \E on \in BOOLEAN : SetEnvironmentSlowStart(e, on)
                               \/ \E S \in SUBSET Users : SetOwners(e, S)
        PROVE  request' = request
    BY <2>3 DEF SetEnvironmentSlowStart, SetOwners
  <2>4. (\E p \in Processes : RefreshFromAuthority(p)) \/ DayPasses \/ UNCHANGED polVars => request' = request
    BY DEF RefreshFromAuthority, DayPasses, polVars
  <2> QED BY <2>1, <2>2, <2>3, <2>4 DEF PolicyNext, OfGlobal
<1> QED BY <1>1, <1>2, <1>3, <1>4, <1>5, <1>6, <1>7, <1>8, <1>9

(* What a step must leave to those who hold the global row: no revision falls, *)
(* and nobody is due anew under the policy it had.                             *)
Leaving ==
  \A e \in Envs :
    /\ policy[e].revision <= policy'[e].revision
    /\ policy'[e].revision = policy[e].revision =>
         /\ completed[e] /\ anchor'[e] # None => completed'[e] \/ anchor'[e] = today
         /\ anchor'[e] # None => anchor'[e] = anchor[e] \/ anchor'[e] = today

LEMMA MarkedStays ==
  ASSUME Governing, Marked, [PolicyNext]_polVars, global' = global, Leaving, today' = today,
         (\A e \in Envs : policy'[e].revision \in Int),
         (policy' = policy /\ anchor' = anchor /\ completed' = completed)
           \/ ~\E q \in Requests : LockGlobal(q) \/ MarkGraduated(q)
  PROVE  Marked'
<1> SUFFICES ASSUME NEW q \in Requests, HoldsGlobal(request'[q]), NEW e \in DOMAIN request'[q].due
             PROVE  /\ request'[q].due[e] <= policy'[e].revision
                    /\ policy'[e].revision = request'[q].due[e] /\ anchor'[e] # None
                         /\ request'[q].day - anchor'[e] >= global.days =>
                       request'[q].at = "graduating" \/ completed'[e] \/ e \in request'[q].marks
  BY DEF Marked, PastDays, HoldsGlobal
<1>1. CASE LockGlobal(q)
  <2>1. policy' = policy
    BY <1>1
  <2>2. request[q].at = "waiting" /\ request[q] \in RequestState
    BY <1>1, TableFacts DEF LockGlobal
  <2>3. CASE Place(q, "reloading")
    BY <2>2, <2>3 DEF Place, HoldsGlobal, Governing, RequestState, GlobalStages
  <2>4. CASE request' = [request EXCEPT ![q].at = "graduating",
                                        ![q].due = [d \in DueAt(global.days, request[q].day) |-> policy[d].revision]]
    <3>1. /\ request'[q].at = "graduating"
          /\ request'[q].due = [d \in DueAt(global.days, request[q].day) |-> policy[d].revision]
      BY <2>4 DEF Governing, RequestState
    <3>2. e \in Envs
      BY <3>1 DEF DueAt
    <3> QED BY <2>1, <3>1, <3>2, TableFacts
  <2> QED BY <1>1, <2>3, <2>4 DEF LockGlobal
<1>2. CASE ~LockGlobal(q)
  <2>1. Carries(q)
    BY <1>2, WhoHoldsGlobal
  <2>2. e \in DOMAIN request[q].due /\ e \in Envs /\ request[q].due[e] \in Int
    BY <2>1, DayTypes DEF Carries
  <2>3. request[q].due[e] <= policy[e].revision /\ policy[e].revision <= policy'[e].revision
    BY <2>1, <2>2 DEF Marked, Carries, Leaving
  <2>4. request'[q].due[e] <= policy'[e].revision
    BY <2>1, <2>2, <2>3, TableFacts DEF Carries
  <2>5. ASSUME policy'[e].revision = request'[q].due[e], anchor'[e] # None,
               request'[q].day - anchor'[e] >= global.days
        PROVE  request'[q].at = "graduating" \/ completed'[e] \/ e \in request'[q].marks
    <3>1. policy[e].revision = request[q].due[e] /\ policy'[e].revision = policy[e].revision
      BY <2>1, <2>2, <2>3, <2>5, TableFacts DEF Carries
    <3>2. request[q].day <= today /\ request[q].day \in Int /\ today \in Int /\ global.days \in Int /\ 1 <= global.days
      BY <2>1, TableFacts, DayTypes DEF InHand, HoldsGlobal, Carries, GlobalStages
    <3>3. anchor'[e] # today
      BY <2>1, <2>5, <3>2 DEF Carries
    <3>4. anchor'[e] = anchor[e] /\ (completed[e] => completed'[e])
      BY <2>2, <2>5, <3>1, <3>3 DEF Leaving
    <3>5. request[q].at = "graduating" \/ completed[e] \/ e \in request[q].marks
      BY <2>1, <2>2, <2>5, <3>1, <3>4 DEF Marked, PastDays, Carries
    <3>6. CASE MarkGraduated(q)
      <4>1. completed' = completed
        BY <3>6
      <4>2. request'[q].marks = Unmarked(DOMAIN request[q].due)
        BY <3>6 DEF MarkGraduated, Governing, RequestState
      <4> QED BY <2>2, <4>1, <4>2 DEF Unmarked
    <3>7. CASE ~MarkGraduated(q)
      BY <2>1, <3>4, <3>5, <3>7 DEF Carries
    <3> QED BY <3>6, <3>7
  <2> QED BY <2>4, <2>5
<1> QED BY <1>1, <1>2

(* A step that writes is none of a global write that only reads.               *)
LEMMA WritesAreNoReads ==
  ASSUME Governing, moved' = moved + 1, NEW q \in Requests
  PROVE  ~LockGlobal(q) /\ ~MarkGraduated(q)
<1>1. moved \in Nat
  BY DEF Governing, TablesTyped, PolicyTypeOK
<1>2. LockGlobal(q) \/ MarkGraduated(q) => moved' = moved
  BY DEF LockGlobal, MarkGraduated, tables
<1> QED BY <1>1, <1>2

LEMMA MarkedCommitPolicy ==
  ASSUME Governing, Marked, NEW r \in Requests, CommitPolicy(r)
  PROVE  Marked'
<1>1. request[r] \in RequestState /\ InHand(request[r]) /\ request[r].at = "writing"
  BY TableFacts DEF CommitPolicy
<1>2. PICK d \in Envs : d = request[r].ask.env
  BY <1>1, AskFields DEF InHand
<1>3. PICK n \in Policy : n = request[r].next /\ n.revision \in Int
  BY <1>1, PolicyFields DEF InHand
<1>4. policy[d].revision < n.revision
  BY <1>1, <1>2, <1>3 DEF InHand
<1>5. PICK t, c : anchor' = [anchor EXCEPT ![d] = t] /\ completed' = [completed EXCEPT ![d] = c]
  BY <1>2 DEF CommitPolicy
<1>6. policy' = [policy EXCEPT ![d] = n] /\ global' = global /\ today' = today
  BY <1>2, <1>3 DEF CommitPolicy
<1>7. Leaving
  <2> SUFFICES ASSUME NEW e \in Envs
               PROVE  /\ policy[e].revision <= policy'[e].revision
                      /\ policy'[e].revision = policy[e].revision =>
                           /\ completed[e] /\ anchor'[e] # None => completed'[e] \/ anchor'[e] = today
                           /\ anchor'[e] # None => anchor'[e] = anchor[e] \/ anchor'[e] = today
    BY DEF Leaving
  <2>1. CASE e = d
    BY <1>3, <1>4, <1>6, <2>1, TableFacts DEF Governing, TablesTyped, PolicyTypeOK
  <2>2. CASE e # d
    BY <1>5, <1>6, <2>2, TableFacts DEF Governing, TablesTyped, PolicyTypeOK
  <2> QED BY <2>1, <2>2
<1>8. \A e \in Envs : policy'[e].revision \in Int
  BY <1>3, <1>6, TableFacts DEF Governing, TablesTyped, PolicyTypeOK
<1>9. ~\E q \in Requests : LockGlobal(q) \/ MarkGraduated(q)
  BY WritesAreNoReads DEF CommitPolicy
<1>10. [PolicyNext]_polVars
  BY DEF PolicyNext, OfEnvironment
<1> QED BY <1>6, <1>7, <1>8, <1>9, <1>10, MarkedStays

LEMMA MarkedSetSlowStart ==
  ASSUME Governing, Marked, NEW d \in Envs, NEW on \in BOOLEAN, SetEnvironmentSlowStart(d, on)
  PROVE  Marked'
<1>1. global' = global /\ request' = request /\ policy' = policy /\ today' = today
  BY DEF SetEnvironmentSlowStart
<1>2. Leaving
  <2> SUFFICES ASSUME NEW e \in Envs
               PROVE  /\ completed[e] /\ anchor'[e] # None => completed'[e] \/ anchor'[e] = today
                      /\ anchor'[e] # None => anchor'[e] = anchor[e] \/ anchor'[e] = today
    BY <1>1, TableFacts DEF Leaving
  <2>1. CASE e # d
    BY <2>1 DEF SetEnvironmentSlowStart, Governing, TablesTyped, PolicyTypeOK
  <2>2. CASE e = d
    BY <2>2 DEF SetEnvironmentSlowStart, Governing, TablesTyped, PolicyTypeOK
  <2> QED BY <2>1, <2>2
<1>3. \A q \in Requests : ~LockGlobal(q) /\ ~MarkGraduated(q)
  <2> SUFFICES ASSUME NEW q \in Requests, LockGlobal(q) \/ MarkGraduated(q) PROVE request'[q] # request[q]
    BY <1>1
  <2>1. request[q] \in RequestState
    BY TableFacts
  <2>2. CASE LockGlobal(q)
    <3>1. request[q].at = "waiting"
      BY <2>2 DEF LockGlobal
    <3>2. request'[q].at \in {"reloading", "graduating"}
      BY <2>2 DEF LockGlobal, Place, Governing, RequestState
    <3> QED BY <3>1, <3>2
  <2>3. CASE MarkGraduated(q)
    <3>1. request[q].at = "graduating" /\ request'[q].at = "marking"
      BY <2>3 DEF MarkGraduated, Governing, RequestState
    <3> QED BY <3>1
  <2> QED BY <2>2, <2>3
<1>4. [PolicyNext]_polVars
  BY DEF PolicyNext
<1> QED BY <1>1, <1>2, <1>3, <1>4, TableFacts, MarkedStays

LEMMA MarkedCommitGlobal ==
  ASSUME Governing, Marked, NEW r \in Requests, CommitGlobal(r)
  PROVE  Marked'
<1>1. HoldsGlobal(request[r])
  BY DEF CommitGlobal, HoldsGlobal, GlobalStages
<1>2. [PolicyNext]_polVars
  BY DEF PolicyNext, OfGlobal
<1>3. ASSUME NEW q \in Requests, HoldsGlobal(request'[q])
      PROVE  FALSE
  <2>1. ~LockGlobal(q)
    BY WritesAreNoReads DEF CommitGlobal
  <2>2. HoldsGlobal(request[q])
    BY <1>2, <1>3, <2>1, WhoHoldsGlobal DEF Carries
  <2>3. q = r
    BY <1>1, <2>2 DEF Governing, Alone
  <2>4. request'[r].at = "reloading"
    BY DEF CommitGlobal, Place, Governing, RequestState
  <2> QED BY <1>3, <2>3, <2>4 DEF HoldsGlobal, GlobalStages
<1> QED BY <1>3 DEF Marked, HoldsGlobal

LEMMA MarkedNext == Governing /\ Marked /\ [PolicyNext]_polVars => Marked'
<1> SUFFICES ASSUME Governing, Marked, [PolicyNext]_polVars PROVE Marked'
  OBVIOUS
<1>1. CASE \E r \in Requests : CommitPolicy(r) \/ CommitGlobal(r)
  BY <1>1, MarkedCommitPolicy, MarkedCommitGlobal
<1>2. CASE \E e \in Envs, on \in BOOLEAN : SetEnvironmentSlowStart(e, on)
  BY <1>2, MarkedSetSlowStart
<1>3. CASE DayPasses
  <2>1. policy' = policy /\ anchor' = anchor /\ completed' = completed /\ global' = global /\ request' = request
    BY <1>3 DEF DayPasses, tables
  <2> QED BY <2>1 DEF Marked, PastDays, HoldsGlobal
<1>4. CASE /\ ~\E r \in Requests : CommitPolicy(r) \/ CommitGlobal(r)
           /\ ~\E e \in Envs, on \in BOOLEAN : SetEnvironmentSlowStart(e, on)
           /\ ~DayPasses
  <2> DEFINE unmoved == policy' = policy /\ anchor' = anchor /\ completed' = completed /\ global' = global
  <2>1. \A r \in Requests : WriteSurface(r) => unmoved
    BY DEF WriteSurface
  <2>2. tables' = tables => unmoved
    BY DEF tables
  <2> HIDE DEF unmoved
  <2>3. unmoved
    BY <1>4, <2>1, <2>2, TablesRest
  <2>4. today' = today
    BY <1>4 DEF PolicyNext, OfEnvironment, OfGlobal, Send, Refuse, Fails, Reload, LockEnvironment, ReadPolicy, Answer,
                Remember, WriteSurface, LockGlobal, MarkGraduated, LockInheriting, SeeShorter, EndOneOf,
                RefreshFromAuthority, SetOwners, polVars
  <2>5. Leaving
    BY <2>3, TableFacts DEF unmoved, Leaving
  <2> QED BY <2>3, <2>4, <2>5, TableFacts, MarkedStays DEF unmoved
<1> QED BY <1>1, <1>2, <1>3, <1>4

LEMMA MarkedBegins == PolicyInit => Marked
<1> SUFFICES ASSUME PolicyInit PROVE Marked
  OBVIOUS
<1>1. \A r \in Requests : request[r] = NoRequest /\ NoRequest.at = "idle"
  BY DEF PolicyInit, NoRequest
<1> QED BY <1>1 DEF Marked, HoldsGlobal, GlobalStages

-----------------------------------------------------------------------------
PolicyInvariant == Governing /\ Audited /\ Marked
LEMMA PolicyAlways == PolicySpec => []PolicyInvariant
<1>1. PolicyInit => PolicyInvariant
  BY GoverningBegins, AuditedBegins, MarkedBegins DEF PolicyInvariant
<1>2. PolicyInvariant /\ [PolicyNext]_polVars => PolicyInvariant'
  BY GoverningStays, AuditedNext, MarkedNext DEF PolicyInvariant
<1> QED BY <1>1, <1>2, PTL DEF PolicySpec

LEMMA PolicyPromises == PolicyInvariant => PolicyTypeOK /\ AuditsInARow
BY DEF PolicyInvariant, Governing, TablesTyped, Audited, AuditsInARow, Rising

Owning == \A r \in Requests :
  request[r].at = "writing" /\ request'[r].at = "committed" /\ request[r].ask.user # None
    => request[r].ask.user \in owners[request[r].ask.env]
Moving == policy' # policy \/ surface' # surface \/ global' # global => moved' > moved
Graduating == \A r \in Requests : request[r].at = "shortening" /\ global'.revision > global.revision =>
  \A e \in DOMAIN request[r].due :
    /\ policy[e].revision = request[r].due[e]
    /\ anchor[e] # None /\ request[r].day - anchor[e] >= global.days
    => completed'[e]

LEMMA OwningHolds == PolicyInvariant => Owning
BY TableFacts DEF PolicyInvariant, Owning, InHand, GlobalStages

LEMMA MovingHolds == PolicyInvariant /\ [PolicyNext]_polVars => Moving
<1> SUFFICES ASSUME Governing, [PolicyNext]_polVars PROVE Moving
  BY DEF PolicyInvariant
<1>1. moved \in Nat
  BY DEF Governing, TablesTyped, PolicyTypeOK
<1>2. CASE \E r \in Requests : CommitPolicy(r) \/ WriteSurface(r) \/ CommitGlobal(r)
  <2>1. PICK r \in Requests : CommitPolicy(r) \/ WriteSurface(r) \/ CommitGlobal(r)
    BY <1>2
  <2>2. moved' = moved + 1 \/ (policy' = policy /\ surface' = surface /\ global' = global)
    BY <2>1 DEF CommitPolicy, WriteSurface, CommitGlobal
  <2> QED BY <1>1, <2>2 DEF Moving
<1>3. CASE ~\E r \in Requests : CommitPolicy(r) \/ WriteSurface(r) \/ CommitGlobal(r)
  BY <1>3, TablesUnwritten DEF Moving
<1> QED BY <1>2, <1>3

LEMMA GraduatingHolds == PolicyInvariant /\ [PolicyNext]_polVars => Graduating
<1> SUFFICES ASSUME Governing, Marked, [PolicyNext]_polVars, NEW r \in Requests, request[r].at = "shortening",
                    global'.revision > global.revision, NEW e \in DOMAIN request[r].due,
                    policy[e].revision = request[r].due[e], PastDays(request[r], e)
             PROVE  completed'[e]
  BY DEF PolicyInvariant, Graduating, PastDays
<1>1. global' # global
  BY RevisionTypes
<1>2. PICK q \in Requests : CommitGlobal(q)
  BY <1>1, TablesUnwritten DEF CommitPolicy, WriteSurface
<1>3. q = r
  BY <1>2 DEF CommitGlobal, HoldsGlobal, Governing, Alone, GlobalStages
<1>4. completed[e] \/ e \in request[r].marks
  BY DEF Marked, HoldsGlobal, GlobalStages
<1>5. e \in Envs
  BY DayTypes
<1> QED BY <1>2, <1>3, <1>4, <1>5 DEF CommitGlobal

LEMMA PolicyTypes == PolicySpec => []PolicyTypeOK
BY PolicyAlways, PolicyPromises, PTL

LEMMA AuditsAlways == PolicySpec => []AuditsInARow
BY PolicyAlways, PolicyPromises, PTL

LEMMA OwnersAndVersions == PolicySpec => OwnedWhenWritten /\ ContentMovesVersion
<1>1. PolicyInvariant /\ [PolicyNext]_polVars =>
        [\A r \in Requests :
          request[r].at = "writing" /\ request'[r].at = "committed" /\ request[r].ask.user # None
          => request[r].ask.user \in owners[request[r].ask.env]]_polVars
  BY OwningHolds DEF Owning
<1>2. PolicyInvariant /\ [PolicyNext]_polVars =>
        [policy' # policy \/ surface' # surface \/ global' # global => moved' > moved]_polVars
  BY MovingHolds DEF Moving
<1> QED BY <1>1, <1>2, PolicyAlways, PTL DEF PolicySpec, OwnedWhenWritten, ContentMovesVersion

LEMMA GraduationsAreKept == PolicySpec => GraduationStays
<1>1. PolicyInvariant /\ [PolicyNext]_polVars =>
        [\A r \in Requests : request[r].at = "shortening" /\ global'.revision > global.revision =>
          \A e \in DOMAIN request[r].due :
             /\ policy[e].revision = request[r].due[e]
             /\ anchor[e] # None /\ request[r].day - anchor[e] >= global.days
             => completed'[e]]_polVars
  BY GraduatingHolds DEF Graduating
<1> QED BY <1>1, PolicyAlways, PTL DEF PolicySpec, GraduationStays

-----------------------------------------------------------------------------
(* The parts together.                                                         *)

(* Every table, request, page and message keeps its shape.                     *)
THEOREM ConsoleTypes == ConsolePartsSpec => []ConsoleTypesOK
<1>1. PolicySpec => []PolicyTypeOK
  BY PolicyTypes
<1>2. SyncSpec => []SyncTypeOK
  BY SyncTypes
<1>3. ReplySpec => []ReplyTypeOK
  BY ReplyTypes
<1>4. ConsoleSpec => []ConsoleTypeOK
  BY ConsolingAlways, ConsolingTypes, PTL
<1>5. Spec => []TypeOK
  BY LedgerTypes
<1> QED BY <1>1, <1>2, <1>3, <1>4, <1>5, PTL DEF ConsolePartsSpec, ConsoleTypesOK

(* What was sent under one cursor was one content, of no older policy than the *)
(* cursor says, and a consumer only refuses what is older than what it has     *)
(* (api-sync-read-source.ts, -checkpoint-store.ts), for any number of hosts,    *)
(* pulls and writes.                                                           *)
THEOREM SnapshotsAreAgreed == ConsolePartsSpec => []SnapshotsAgree
BY SnapshotsAgreeAlways, PTL DEF ConsolePartsSpec, SnapshotsAgree

(* The audits of a policy tell every change of it in order, whatever locks and *)
(* waits its writers went through (facebook-operation-policy-store.ts); the    *)
(* edits of a scope add up, and what answers use was checked                   *)
(* (reply-config-scope-store.ts, reply-config-resolver.ts).                    *)
THEOREM EditsAreInARow == ConsolePartsSpec => []EditsHold
<1>1. ReplySpec => [](EditsAddUp /\ ResolvedWasChecked)
  BY RepliesAlways, EditsAreKept, PTL
<1> QED BY <1>1, AuditsAlways, PTL DEF ConsolePartsSpec, EditsHold

(* No door writes a row for what is no account, and each answers what was done *)
(* (panel-server.ts).                                                          *)
THEOREM DoorsAnswerTruly == ConsolePartsSpec => []DoorsAnswer
BY ConsolingAlways, ConsolingAnswers, PTL DEF ConsolePartsSpec, DoorsAnswer

(* No step of the console writes for a customer who does not own, changes a    *)
(* policy without a new version of its mirror, replaces a younger checkpoint,  *)
(* changes a published version, or overwrites what somebody else entered.      *)
THEOREM ConsoleOverwritesNothing ==
  ConsolePartsSpec =>
    OwnedWhenWritten /\ ContentMovesVersion /\ CheckpointAdvances /\ VersionsStay /\ OthersStay
BY OwnersAndVersions, CheckpointsAdvance, VersionsAreKept, NobodyOverwrites DEF ConsolePartsSpec

(* And none takes back a graduation that a global write found, or releases a   *)
(* hold whose clean-up is not over, except where two databases' clocks mistake *)
(* the order of a note and a snapshot (client-env-binding-offboard-client.ts). *)
THEOREM ConsoleStepsAreKept == ConsolePartsSpec => ConsoleSteps
BY ConsoleOverwritesNothing, GraduationsAreKept, ReleasesAreEarned DEF ConsolePartsSpec, ConsoleSteps
=============================================================================
