--------------------------- MODULE PublishingProofs ---------------------------
(* What is proved of the execution half of publish_log: that a post held by    *)
(* the platform is confirmed once, is watched until it is settled, and is told *)
(* truly by the shadow table, whatever calls of the store are in flight, in    *)
(* whichever order their shadow writes come, lost ones included; that the      *)
(* lifecycle's generation runs write the log only as the log's own             *)
(* specification allows, so that all this holds there too; that a page, read   *)
(* while all of them move, shows of a post what was known of it; and that the  *)
(* watchdog alarms nobody without a reason.                                    *)
EXTENDS Publishing, TLAPS

(* The calls under way.  A record that is being sent is approved and waits: so *)
(* nobody else may send, reject or reconcile it, and what the executor reports *)
(* of it, which no condition guards, overwrites no later state.                *)
SentWaits ==
  \A c \in Calls : At(c, "dispatch") =>
    ruling[work[c].rec] = "dispatching" /\ log[work[c].rec].status = "pending_approval"
OneSender ==
  \A c, d \in Calls : At(c, "dispatch") /\ At(d, "dispatch") /\ work[c].rec = work[d].rec => c = d

(* What was confirmed left the queue of scheduled posts, and no state that     *)
(* leads back to it is entered again.                                          *)
UnconfirmedIsOpen ==
  \A r \in Records :
    /\ confirmed[r] <= 1
    /\ log[r].status \in {"none", "pending_approval", "scheduled"} => confirmed[r] = 0

(* A published record has a post, one that was never written has none.         *)
PostKnown ==
  \A r \in Records :
    /\ log[r].status = "published" => log[r].post
    /\ log[r].status = "none" => ~log[r].post

(* A shadow write that is still owed tells what its record has been.           *)
OwedIsTrue ==
  \A c \in Calls : At(c, "mirror") =>
    /\ work[c].copy.status \in was[work[c].rec]
    /\ work[c].copy.post => log[work[c].rec].post

Settled ==
  /\ LogTypeOK /\ SentWaits /\ OneSender /\ UnconfirmedIsOpen
  /\ ScheduledIsWatched /\ PostKnown /\ OwedIsTrue /\ ShadowTellsWhatWas

-----------------------------------------------------------------------------
(* Calls in flight: which are idle, owe a shadow write, or have a record.      *)
LEMMA CallShapes ==
  ASSUME LogTypeOK, NEW c \in Calls
  PROVE  /\ At(c, "mirror") => work[c] \in Mirroring
         /\ \A op \in {"dispatch", "reconcile", "confirm", "defer"} : At(c, op) => work[c] \in Sending
  BY DEF LogTypeOK, At, NoCall, Mirroring, Sending

LEMMA CallRecords ==
  ASSUME LogTypeOK, NEW c \in Calls,
         work[c].op \in {"mirror", "dispatch", "reconcile", "confirm", "defer"}
  PROVE  work[c].rec \in Records
  <1>1. CASE At(c, "mirror")
    <2>1. work[c] \in Mirroring  BY <1>1, CallShapes
    <2> QED  BY <2>1 DEF Mirroring
  <1>2. CASE work[c].op \in {"dispatch", "reconcile", "confirm", "defer"}
    <2>1. work[c] \in Sending  BY <1>2, CallShapes DEF At
    <2> QED  BY <2>1 DEF Sending
  <1> QED  BY <1>1, <1>2 DEF At

(* What a call owes after a statement, as OweMirror leaves it.                 *)
Owed(r, status, post, url) ==
  [op |-> "mirror", rec |-> r, copy |-> [status |-> status, post |-> post, url |-> url]]

(* The authoritative statements that write a row, in one form: the row r moves *)
(* to "row", the call is idle or owes a copy that tells the row's status and   *)
(* no post that the row does not have.                                         *)
Writes(c, r, row, w) ==
  /\ log' = [log EXCEPT ![r] = row]
  /\ was' = [was EXCEPT ![r] = @ \cup {row.status}]
  /\ work' = [work EXCEPT ![c] = w]
  /\ w = NoCall \/ \E post, url \in BOOLEAN : w = Owed(r, row.status, post, url) /\ (post => row.post)

LEMMA OweMirrorWrites ==
  ASSUME NEW c \in Calls, NEW r \in Records, NEW row \in LogRow, NEW post \in BOOLEAN, NEW url \in BOOLEAN,
         Write(c, r, row), OweMirror(c, r, row.status, post, url), post => row.post
  PROVE  \E w : Writes(c, r, row, w)
  <1>1. CASE mirrorUp
    <2>1. Writes(c, r, row, Owed(r, row.status, post, url))
      BY <1>1 DEF Writes, Write, OweMirror, Become, Owed
    <2> QED  BY <2>1
  <1>2. CASE ~mirrorUp
    <2>1. Writes(c, r, row, NoCall)  BY <1>2 DEF Writes, Write, OweMirror, Become
    <2> QED  BY <2>1
  <1> QED  BY <1>1, <1>2

(* Whatever writes a row in this form keeps the types of rows and calls, if it *)
(* keeps the row's.                                                            *)
LEMMA WritesTypes ==
  ASSUME LogTypeOK, NEW c \in Calls, NEW r \in Records, NEW row \in LogRow, row.status # "none",
         NEW w, Writes(c, r, row, w)
  PROVE  /\ log' \in [Records -> LogRow]
         /\ was' \in [Records -> SUBSET Statuses]
         /\ work' \in [Calls -> {NoCall} \cup Mirroring \cup Sending]
         /\ w.op # "dispatch"
         /\ w.op = "mirror" => w.rec = r /\ w.copy.status = row.status /\ (w.copy.post => row.post)
  <1>1. log' \in [Records -> LogRow]  BY DEF LogTypeOK, Writes
  <1>2. row.status \in Statuses  BY DEF LogRow
  <1>3. was' \in [Records -> SUBSET Statuses]  BY <1>2 DEF LogTypeOK, Writes
  <1>4. CASE w = NoCall
    <2>1. w.op = "idle"  BY <1>4 DEF NoCall
    <2>2. work' \in [Calls -> {NoCall} \cup Mirroring \cup Sending]  BY <1>4 DEF LogTypeOK, Writes
    <2> QED  BY <2>1, <2>2, <1>1, <1>3
  <1>5. ASSUME NEW post \in BOOLEAN, NEW url \in BOOLEAN, w = Owed(r, row.status, post, url), post => row.post
        PROVE  /\ work' \in [Calls -> {NoCall} \cup Mirroring \cup Sending]
               /\ w.op # "dispatch"
               /\ w.op = "mirror" => w.rec = r /\ w.copy.status = row.status /\ (w.copy.post => row.post)
    <2>1. [status |-> row.status, post |-> post, url |-> url] \in Shadow  BY <1>2 DEF Shadow
    <2>2. w \in Mirroring  BY <1>5, <2>1 DEF Owed, Mirroring
    <2>3. work' \in [Calls -> {NoCall} \cup Mirroring \cup Sending]  BY <2>2 DEF LogTypeOK, Writes
    <2> QED  BY <2>3, <1>5 DEF Owed
  <1> QED  BY <1>1, <1>3, <1>4, <1>5 DEF Writes

-----------------------------------------------------------------------------
(* A step that writes one row, from a state that was no further than the row   *)
(* says, keeps the invariant; "Leads" lists the moves the statements make.     *)
Leads(old, row) ==
  /\ row.status # "none"
  /\ old.post => row.post
  /\ row.status = "published" => row.post
  /\ row.status = "scheduled" => row.next # "null" /\ row.attempts < MaxAttempts
  /\ row.status \in {"pending_approval", "scheduled"} => old.status \in {"none", "pending_approval", "scheduled"}

(* The parts of the invariant that only rows, their history and the shadow     *)
(* know of.                                                                    *)
LEMMA WritesRows ==
  ASSUME Settled, NEW c \in Calls, NEW r \in Records, NEW row \in LogRow, NEW w,
         Writes(c, r, row, w), Leads(log[r], row),
         UNCHANGED <<shadow, confirmed>>
  PROVE  UnconfirmedIsOpen' /\ ScheduledIsWatched' /\ PostKnown' /\ ShadowTellsWhatWas' /\ OwedIsTrue'
  <1> USE DEF Settled
  <1>0. /\ \A s \in Records : log'[s] = IF s = r THEN row ELSE log[s]
        /\ \A s \in Records : was'[s] = IF s = r THEN was[s] \cup {row.status} ELSE was[s]
        /\ \A d \in Calls : work'[d] = IF d = c THEN w ELSE work[d]
    BY DEF Writes, LogTypeOK
  <1>1. UnconfirmedIsOpen'  BY <1>0 DEF UnconfirmedIsOpen, Leads
  <1>2. ScheduledIsWatched'  BY <1>0 DEF ScheduledIsWatched, Leads
  <1>3. PostKnown'  BY <1>0 DEF PostKnown, Leads
  <1>4. ShadowTellsWhatWas'  BY <1>0 DEF ShadowTellsWhatWas, Leads
  <1>5. OwedIsTrue'
    <2> SUFFICES ASSUME NEW d \in Calls, work'[d].op = "mirror"
                 PROVE  /\ work'[d].copy.status \in was'[work'[d].rec]
                        /\ work'[d].copy.post => log'[work'[d].rec].post
      BY DEF OwedIsTrue, At
    <2>1. CASE d = c
      <3>1. /\ w.op = "mirror"
            /\ w.rec = r /\ w.copy.status = row.status /\ (w.copy.post => row.post)
        BY <1>0, <2>1, WritesTypes DEF Leads
      <3>2. work'[d] = w /\ log'[r] = row /\ was'[r] = was[r] \cup {row.status}  BY <1>0, <2>1
      <3>3. work'[d].copy.status \in was'[work'[d].rec]  BY <3>1, <3>2
      <3>4. work'[d].copy.post => log'[work'[d].rec].post  BY <3>1, <3>2
      <3> QED  BY <3>3, <3>4
    <2>2. CASE d # c
      <3>1. At(d, "mirror") /\ work[d].rec \in Records  BY <1>0, <2>2, CallRecords DEF At
      <3>2. /\ work[d].copy.status \in was[work[d].rec]
            /\ work[d].copy.post => log[work[d].rec].post
        BY <3>1 DEF OwedIsTrue
      <3>3. work'[d] = work[d]  BY <1>0, <2>2
      <3>4. work[d].copy.status \in was'[work[d].rec]  BY <1>0, <3>1, <3>2
      <3>5. ASSUME work[d].copy.post
            PROVE  log'[work[d].rec].post
        <4>1. CASE work[d].rec = r
          <5>1. log[r].post  BY <3>2, <3>5, <4>1
          <5> QED  BY <1>0, <4>1, <5>1 DEF Leads
        <4>2. CASE work[d].rec # r
          <5>1. log'[work[d].rec] = log[work[d].rec]  BY <1>0, <3>1, <4>2
          <5> QED  BY <3>2, <3>5, <5>1
        <4> QED  BY <4>1, <4>2
      <3> QED  BY <3>3, <3>4, <3>5
    <2> QED  BY <2>1, <2>2
  <1> QED  BY <1>1, <1>2, <1>3, <1>4, <1>5

(* A write to a record that nobody else is sending leaves the senders alone.   *)
LEMMA WritesSenders ==
  ASSUME Settled, NEW c \in Calls, NEW r \in Records, NEW row \in LogRow, NEW w,
         Writes(c, r, row, w), row.status # "none",
         \A d \in Calls \ {c} : At(d, "dispatch") => work[d].rec # r /\ ruling'[work[d].rec] = ruling[work[d].rec]
  PROVE  SentWaits' /\ OneSender'
  <1> USE DEF Settled
  <1>0. /\ \A s \in Records : log'[s] = IF s = r THEN row ELSE log[s]
        /\ \A d \in Calls : work'[d] = IF d = c THEN w ELSE work[d]
    BY DEF Writes, LogTypeOK
  <1>1. w.op # "dispatch"  BY WritesTypes
  <1>2. ASSUME NEW d \in Calls, work'[d].op = "dispatch"
        PROVE  d # c /\ work'[d] = work[d] /\ At(d, "dispatch") /\ work[d].rec \in Records
    BY <1>0, <1>1, <1>2, CallRecords DEF At
  <1>3. SentWaits'  BY <1>0, <1>2 DEF SentWaits, At
  <1>4. OneSender'  BY <1>2 DEF OneSender, At
  <1> QED  BY <1>3, <1>4

LEMMA WritesSettled ==
  ASSUME Settled, NEW c \in Calls, NEW r \in Records, NEW row \in LogRow, NEW w,
         Writes(c, r, row, w), Leads(log[r], row),
         UNCHANGED <<shadow, mirrorUp, confirmed>>,
         platform' \in [Records -> {"nothing", "held", "public", "dropped"}],
         ruling' \in [Records -> {"none", "rejected", "pending_dispatch", "dispatching", "consumed"}],
         \A d \in Calls \ {c} : At(d, "dispatch") => work[d].rec # r /\ ruling'[work[d].rec] = ruling[work[d].rec]
  PROVE  Settled'
  <1>1. LogTypeOK'  BY WritesTypes DEF Settled, LogTypeOK, Leads
  <1> QED  BY <1>1, WritesRows, WritesSenders DEF Settled, Leads

(* A step that writes no row: calls become idle or go on, or a shadow row is   *)
(* written.                                                                    *)
LEMMA QuietSettled ==
  ASSUME Settled, NEW c \in Calls, NEW w \in {NoCall} \cup Sending, w.op # "dispatch", Become(c, w),
         UNCHANGED <<log, shadow, mirrorUp, platform, was, confirmed>>,
         ruling' \in [Records -> {"none", "rejected", "pending_dispatch", "dispatching", "consumed"}],
         \A d \in Calls \ {c} : At(d, "dispatch") => ruling'[work[d].rec] = ruling[work[d].rec]
  PROVE  Settled'
  <1> USE DEF Settled
  <1>0. \A d \in Calls : work'[d] = IF d = c THEN w ELSE work[d]  BY DEF Become, LogTypeOK
  <1>1. LogTypeOK'  BY DEF LogTypeOK, Become
  <1>2. w.op # "mirror"  BY DEF NoCall, Sending
  <1>3. SentWaits' /\ OneSender'  BY <1>0 DEF SentWaits, OneSender, At
  <1>4. OwedIsTrue'  BY <1>0, <1>2 DEF OwedIsTrue, At
  <1>5. UnconfirmedIsOpen' /\ ScheduledIsWatched' /\ PostKnown' /\ ShadowTellsWhatWas'
    BY DEF UnconfirmedIsOpen, ScheduledIsWatched, PostKnown, ShadowTellsWhatWas
  <1> QED  BY <1>1, <1>3, <1>4, <1>5

-----------------------------------------------------------------------------
(* One lemma per operation.                                                    *)
LEMMA InsertSettles ==
  ASSUME Settled, NEW c \in Calls, NEW r \in Records, NEW s \in {"pending_approval", "draft", "failed"},
         Insert(c, r, s)
  PROVE  Settled'
  <1> DEFINE row == [NoRecord EXCEPT !.status = s]
  <1>1. row \in LogRow /\ row.status = s /\ row.post = FALSE
    <2>1. 0 \in 0..MaxAttempts  BY LogAssumption
    <2>2. NoRecord \in LogRow /\ NoRecord.post = FALSE  BY <2>1 DEF NoRecord, LogRow
    <2> QED  BY <2>2 DEF LogRow, Statuses
  <1>2. PICK w : Writes(c, r, row, w)
    <2>1. Write(c, r, row) /\ OweMirror(c, r, row.status, FALSE, FALSE)  BY <1>1 DEF Insert
    <2> HIDE DEF row
    <2> QED  BY <2>1, <1>1, OweMirrorWrites
  <1>3. ~log[r].post /\ log[r].status = "none"  BY DEF Settled, PostKnown, Insert
  <1>4. Leads(log[r], row)  BY <1>1, <1>3 DEF Leads
  <1>5. \A d \in Calls : At(d, "dispatch") => work[d].rec # r
    BY <1>3 DEF Settled, SentWaits
  <1> HIDE DEF row
  <1> QED  BY <1>1, <1>2, <1>4, <1>5, WritesSettled DEF Insert, Settled, LogTypeOK

LEMMA RejectSettles ==
  ASSUME Settled, NEW c \in Calls, NEW r \in Records, RejectPendingApproval(c, r)
  PROVE  Settled'
  <1>1. CASE log[r].status = "pending_approval"
    <2> DEFINE row == [log[r] EXCEPT !.status = "needs_review"]
    <2>0. log[r] \in LogRow  BY DEF Settled, LogTypeOK
    <2>1. row \in LogRow /\ row.status = "needs_review" /\ row.post = log[r].post
      BY <2>0 DEF LogRow, Statuses
    <2>2. PICK w : Writes(c, r, row, w)
      <3>1. Write(c, r, row) /\ OweMirror(c, r, row.status, FALSE, FALSE)
        BY <1>1, <2>1 DEF RejectPendingApproval
      <3> HIDE DEF row
      <3> QED  BY <3>1, <2>1, OweMirrorWrites
    <2>3. Leads(log[r], row)  BY <2>1 DEF Leads
    <2>4. \A d \in Calls : At(d, "dispatch") => work[d].rec # r
      BY DEF Settled, SentWaits, RejectPendingApproval
    <2> HIDE DEF row
    <2> QED  BY <2>1, <2>2, <2>3, <2>4, WritesSettled DEF RejectPendingApproval, Settled, LogTypeOK
  <1>2. CASE log[r].status # "pending_approval"
    <2>1. UNCHANGED logVars  BY <1>2 DEF RejectPendingApproval, logVars
    <2> QED  BY <2>1 DEF logVars, Settled, LogTypeOK, SentWaits, OneSender, At, UnconfirmedIsOpen,
                         ScheduledIsWatched, PostKnown, OwedIsTrue, ShadowTellsWhatWas
  <1> QED  BY <1>1, <1>2

(* What the executor is sending nobody else is sending.                        *)
LEMMA ReportsAlone ==
  ASSUME Settled, NEW c \in Calls, NEW answer \in {"public", "nothing", "held"}, Reports(c, answer)
  PROVE  /\ work[c].rec \in Records
         /\ ruling' \in [Records -> {"none", "rejected", "pending_dispatch", "dispatching", "consumed"}]
         /\ platform' \in [Records -> {"nothing", "held", "public", "dropped"}]
         /\ log[work[c].rec].status = "pending_approval" /\ log[work[c].rec] \in LogRow
         /\ \A d \in Calls \ {c} : At(d, "dispatch") =>
              work[d].rec # work[c].rec /\ ruling'[work[d].rec] = ruling[work[d].rec]
  <1>1. work[c].rec \in Records  BY CallRecords DEF Reports, At, Settled
  <1>2. log[work[c].rec].status = "pending_approval"  BY DEF Settled, SentWaits, Reports
  <1>3. /\ ruling' \in [Records -> {"none", "rejected", "pending_dispatch", "dispatching", "consumed"}]
        /\ platform' \in [Records -> {"nothing", "held", "public", "dropped"}]
        /\ log[work[c].rec] \in LogRow
    BY <1>1 DEF Settled, LogTypeOK, Reports
  <1>4. ASSUME NEW d \in Calls \ {c}, At(d, "dispatch")
        PROVE  work[d].rec # work[c].rec /\ ruling'[work[d].rec] = ruling[work[d].rec]
    <2>1. work[d].rec \in Records  BY <1>4, CallRecords DEF At, Settled
    <2>2. work[d].rec # work[c].rec  BY <1>4 DEF Settled, OneSender, Reports
    <2> QED  BY <2>1, <2>2 DEF Reports, Settled, LogTypeOK
  <1> QED  BY <1>1, <1>2, <1>3, <1>4

LEMMA UpdateStatusSettles ==
  ASSUME Settled, NEW c \in Calls, NEW s \in {"submitted", "failed"}, UpdateStatus(c, s)
  PROVE  Settled'
  <1> DEFINE r == work[c].rec
             row == [log[r] EXCEPT !.status = s]
  <1>1. PICK answer \in {"public", "nothing", "held"} : Reports(c, answer)  BY DEF UpdateStatus
  <1>2. /\ r \in Records /\ log[r] \in LogRow /\ log[r].status = "pending_approval"
        /\ ruling' \in [Records -> {"none", "rejected", "pending_dispatch", "dispatching", "consumed"}]
        /\ platform' \in [Records -> {"nothing", "held", "public", "dropped"}]
        /\ \A d \in Calls \ {c} : At(d, "dispatch") =>
             work[d].rec # r /\ ruling'[work[d].rec] = ruling[work[d].rec]
    BY <1>1, ReportsAlone
  <1>3. row \in LogRow /\ row.status = s /\ row.post = log[r].post  BY <1>2 DEF LogRow, Statuses
  <1>4. Write(c, r, row) /\ OweMirror(c, r, row.status, FALSE, FALSE)  BY <1>3 DEF UpdateStatus
  <1>5. Leads(log[r], row)  BY <1>3 DEF Leads
  <1>6. UNCHANGED <<shadow, mirrorUp, confirmed>>  BY <1>1 DEF Reports
  <1> HIDE DEF row, r
  <1>7. PICK w : Writes(c, r, row, w)  BY <1>2, <1>3, <1>4, OweMirrorWrites
  <1> QED  BY <1>2, <1>3, <1>5, <1>6, <1>7, WritesSettled

LEMMA UpdatePostIdSettles ==
  ASSUME Settled, NEW c \in Calls, NEW link \in BOOLEAN, UpdatePostId(c, link)
  PROVE  Settled'
  <1> DEFINE r == work[c].rec
             row == [log[r] EXCEPT !.status = "published", !.post = TRUE, !.url = @ \/ link]
  <1>1. PICK answer \in {"public", "nothing", "held"} : Reports(c, answer)  BY DEF UpdatePostId
  <1>2. /\ r \in Records /\ log[r] \in LogRow /\ log[r].status = "pending_approval"
        /\ ruling' \in [Records -> {"none", "rejected", "pending_dispatch", "dispatching", "consumed"}]
        /\ platform' \in [Records -> {"nothing", "held", "public", "dropped"}]
        /\ \A d \in Calls \ {c} : At(d, "dispatch") =>
             work[d].rec # r /\ ruling'[work[d].rec] = ruling[work[d].rec]
    BY <1>1, ReportsAlone
  <1>3. row \in LogRow /\ row.status = "published" /\ row.post = TRUE
    <2>1. PICK url \in BOOLEAN : url = (log[r].url \/ link)  OBVIOUS
    <2>2. row = [[[log[r] EXCEPT !.status = "published"] EXCEPT !.post = TRUE] EXCEPT !.url = url]  BY <2>1
    <2>3. [log[r] EXCEPT !.status = "published"] \in LogRow  BY <1>2 DEF LogRow, Statuses
    <2> QED  BY <2>2, <2>3, <1>2 DEF LogRow
  <1>4. Write(c, r, row) /\ OweMirror(c, r, row.status, TRUE, link)  BY <1>3 DEF UpdatePostId
  <1>5. Leads(log[r], row)  BY <1>3 DEF Leads
  <1>6. UNCHANGED <<shadow, mirrorUp, confirmed>>  BY <1>1 DEF Reports
  <1> HIDE DEF row, r
  <1>7. PICK w : Writes(c, r, row, w)  BY <1>2, <1>3, <1>4, OweMirrorWrites
  <1> QED  BY <1>2, <1>3, <1>5, <1>6, <1>7, WritesSettled

LEMMA MarkScheduledSettles ==
  ASSUME Settled, NEW c \in Calls, MarkScheduled(c)
  PROVE  Settled'
  <1> DEFINE r == work[c].rec
             row == [log[r] EXCEPT !.status = "scheduled", !.attempts = 0, !.next = "later"]
  <1>1. PICK answer \in {"public", "nothing", "held"} : Reports(c, answer)  BY DEF MarkScheduled
  <1>2. /\ r \in Records /\ log[r] \in LogRow /\ log[r].status = "pending_approval"
        /\ ruling' \in [Records -> {"none", "rejected", "pending_dispatch", "dispatching", "consumed"}]
        /\ platform' \in [Records -> {"nothing", "held", "public", "dropped"}]
        /\ \A d \in Calls \ {c} : At(d, "dispatch") =>
             work[d].rec # r /\ ruling'[work[d].rec] = ruling[work[d].rec]
    BY <1>1, ReportsAlone
  <1>3. /\ row \in LogRow /\ row.status = "scheduled" /\ row.post = log[r].post
        /\ row.attempts = 0 /\ row.next = "later"
    <2>1. [log[r] EXCEPT !.status = "scheduled"] \in LogRow  BY <1>2 DEF LogRow, Statuses
    <2>2. PICK none \in 0..MaxAttempts : none = 0  BY LogAssumption
    <2>3. [[log[r] EXCEPT !.status = "scheduled"] EXCEPT !.attempts = none] \in LogRow
      BY <2>1 DEF LogRow
    <2>4. row = [[[log[r] EXCEPT !.status = "scheduled"] EXCEPT !.attempts = none] EXCEPT !.next = "later"]
      BY <2>2
    <2>5. row \in LogRow  BY <2>3, <2>4 DEF LogRow
    <2> QED  BY <2>2, <2>4, <2>5, <1>2 DEF LogRow
  <1>4. Write(c, r, row) /\ OweMirror(c, r, row.status, FALSE, FALSE)  BY <1>2, <1>3 DEF MarkScheduled
  <1>5. Leads(log[r], row)  BY <1>2, <1>3, LogAssumption DEF Leads
  <1>6. UNCHANGED <<shadow, mirrorUp, confirmed>>  BY <1>1 DEF Reports
  <1> HIDE DEF row, r
  <1>7. PICK w : Writes(c, r, row, w)  BY <1>2, <1>3, <1>4, OweMirrorWrites
  <1> QED  BY <1>2, <1>3, <1>5, <1>6, <1>7, WritesSettled

LEMMA DispatchSettles ==
  ASSUME Settled, NEW c \in Calls, NEW r \in Records, Dispatch(c, r)
  PROVE  Settled'
  <1> USE DEF Settled
  <1>0. /\ \A d \in Calls : work'[d] = IF d = c THEN [op |-> "dispatch", rec |-> r] ELSE work[d]
        /\ \A s \in Records : ruling'[s] = IF s = r THEN "dispatching" ELSE ruling[s]
    BY DEF Dispatch, Become, LogTypeOK
  <1>1. LogTypeOK'
    <2>1. [op |-> "dispatch", rec |-> r] \in Sending  BY DEF Sending
    <2> QED  BY <2>1 DEF LogTypeOK, Dispatch, Become
  <1>2. \A d \in Calls : At(d, "dispatch") => work[d].rec # r /\ work[d].rec \in Records
    BY CallRecords DEF SentWaits, Dispatch, At
  <1>3. SentWaits' /\ OneSender'  BY <1>0, <1>2 DEF SentWaits, OneSender, At, Dispatch
  <1>4. OwedIsTrue'  BY <1>0 DEF OwedIsTrue, At, Dispatch
  <1>5. UnconfirmedIsOpen' /\ ScheduledIsWatched' /\ PostKnown' /\ ShadowTellsWhatWas'
    BY DEF UnconfirmedIsOpen, ScheduledIsWatched, PostKnown, ShadowTellsWhatWas, Dispatch
  <1> QED  BY <1>1, <1>3, <1>4, <1>5

LEMMA DecideSettles ==
  ASSUME Settled, NEW r \in Records, NEW v \in {"rejected", "pending_dispatch"}, Decide(r, v)
  PROVE  Settled'
  <1> USE DEF Settled
  <1>1. LogTypeOK'  BY DEF LogTypeOK, Decide
  <1>2. \A d \in Calls : At(d, "dispatch") => work[d].rec # r /\ work[d].rec \in Records
    BY CallRecords DEF SentWaits, Decide, At
  <1>3. SentWaits' /\ OneSender'  BY <1>2 DEF SentWaits, OneSender, At, Decide, LogTypeOK
  <1>4. OwedIsTrue' /\ UnconfirmedIsOpen' /\ ScheduledIsWatched' /\ PostKnown' /\ ShadowTellsWhatWas'
    BY DEF OwedIsTrue, At, UnconfirmedIsOpen, ScheduledIsWatched, PostKnown, ShadowTellsWhatWas, Decide
  <1> QED  BY <1>1, <1>3, <1>4

LEMMA FallsDueSettles ==
  ASSUME Settled, NEW r \in Records, FallsDue(r)
  PROVE  Settled'
  <1> USE DEF Settled
  <1>0. \A s \in Records :
          /\ log[s] \in LogRow /\ log'[s] \in LogRow
          /\ log'[s].status = log[s].status /\ log'[s].post = log[s].post /\ log'[s].attempts = log[s].attempts
          /\ log'[s].next # "null" \/ log'[s].next = log[s].next
    BY DEF FallsDue, LogTypeOK, LogRow
  <1>1. LogTypeOK'  BY <1>0 DEF LogTypeOK, FallsDue
  <1>2. SentWaits' /\ OneSender'
    BY <1>0, CallRecords DEF SentWaits, OneSender, At, FallsDue
  <1>3. OwedIsTrue'
    <2> SUFFICES ASSUME NEW d \in Calls, work[d].op = "mirror"
                 PROVE  /\ work[d].copy.status \in was[work[d].rec]
                        /\ work[d].copy.post => log'[work[d].rec].post
      BY DEF OwedIsTrue, At, FallsDue
    <2>1. work[d].rec \in Records  BY CallRecords
    <2>2. log'[work[d].rec].post = log[work[d].rec].post  BY <2>1, <1>0
    <2>3. /\ work[d].copy.status \in was[work[d].rec]
          /\ work[d].copy.post => log[work[d].rec].post
      BY DEF OwedIsTrue, At
    <2> QED  BY <2>2, <2>3
  <1>4. UnconfirmedIsOpen' /\ ScheduledIsWatched'
    BY <1>0 DEF UnconfirmedIsOpen, ScheduledIsWatched, FallsDue
  <1>5. PostKnown' /\ ShadowTellsWhatWas'
    BY <1>0 DEF PostKnown, ShadowTellsWhatWas, FallsDue
  <1> QED  BY <1>1, <1>2, <1>3, <1>4, <1>5

LEMMA PlatformSettles ==
  ASSUME Settled, NEW r \in Records, NEW o \in {"public", "dropped"}, PlatformActs(r, o)
  PROVE  Settled'
  BY DEF Settled, LogTypeOK, SentWaits, OneSender, At, UnconfirmedIsOpen, ScheduledIsWatched, PostKnown,
         OwedIsTrue, ShadowTellsWhatWas, PlatformActs

LEMMA ListDueSettles ==
  ASSUME Settled, NEW c \in Calls, NEW r \in Records, ListDue(c, r)
  PROVE  Settled'
  <1>1. [op |-> "reconcile", rec |-> r] \in Sending /\ [op |-> "reconcile", rec |-> r].op # "dispatch"
    BY DEF Sending
  <1>2. PICK w \in Sending : w = [op |-> "reconcile", rec |-> r]  BY <1>1
  <1> QED  BY <1>1, <1>2, QuietSettled DEF ListDue, Settled, LogTypeOK

LEMMA LookSettles ==
  ASSUME Settled, NEW c \in Calls, Look(c)
  PROVE  Settled'
  <1>1. work[c].rec \in Records  BY CallRecords DEF Look, At, Settled
  <1>2. PICK w \in {NoCall} \cup Sending : w.op # "dispatch" /\ Become(c, w)
    <2>1. ASSUME NEW op \in {"confirm", "defer"}, Become(c, [op |-> op, rec |-> work[c].rec])
          PROVE  \E w \in {NoCall} \cup Sending : w.op # "dispatch" /\ Become(c, w)
      <3>1. /\ [op |-> op, rec |-> work[c].rec] \in Sending
            /\ [op |-> op, rec |-> work[c].rec].op # "dispatch"
        BY <1>1 DEF Sending
      <3> QED  BY <2>1, <3>1
    <2>2. NoCall.op # "dispatch"  BY DEF NoCall
    <2> QED  BY <2>1, <2>2 DEF Look
  <1> QED  BY <1>2, QuietSettled DEF Look, Settled, LogTypeOK

(* A call that finds nothing to do ends.                                       *)
LEMMA EndSettles ==
  ASSUME Settled, NEW c \in Calls, Become(c, NoCall),
         UNCHANGED <<log, shadow, mirrorUp, ruling, platform, was, confirmed>>
  PROVE  Settled'
  <1>1. NoCall.op # "dispatch"  BY DEF NoCall
  <1>2. PICK w \in {NoCall} \cup Sending : w = NoCall  OBVIOUS
  <1> QED  BY <1>1, <1>2, QuietSettled DEF Settled, LogTypeOK

(* The row after one more attempt: still open, or handed to people.            *)
LEMMA DeferredRow ==
  ASSUME NEW row \in LogRow, row.attempts < MaxAttempts
  PROVE  /\ Deferred(row) \in LogRow
         /\ Deferred(row).status \in {"scheduled", "needs_review"}
         /\ Deferred(row).post = row.post
         /\ Deferred(row).status = "scheduled" =>
              Deferred(row).next # "null" /\ Deferred(row).attempts < MaxAttempts
  <1>1. PICK n \in 0..MaxAttempts : n = row.attempts + 1  BY LogAssumption DEF LogRow
  <1>2. PICK next \in {"null", "later", "due"} : next = IF n >= MaxAttempts THEN "null" ELSE "later"
    OBVIOUS
  <1>3. PICK status \in Statuses : status = IF n >= MaxAttempts THEN "needs_review" ELSE "scheduled"
    BY DEF Statuses
  <1>4. Deferred(row) = [[[row EXCEPT !.attempts = n] EXCEPT !.next = next] EXCEPT !.status = status]
    BY <1>1, <1>2, <1>3 DEF Deferred
  <1>5. [row EXCEPT !.attempts = n] \in LogRow  BY DEF LogRow
  <1>6. [[row EXCEPT !.attempts = n] EXCEPT !.next = next] \in LogRow  BY <1>5 DEF LogRow
  <1>7. Deferred(row) \in LogRow  BY <1>4, <1>6 DEF LogRow
  <1>8. /\ Deferred(row).status = status /\ Deferred(row).next = next
        /\ Deferred(row).attempts = n /\ Deferred(row).post = row.post
    BY <1>4 DEF LogRow
  <1> QED  BY <1>2, <1>3, <1>7, <1>8, LogAssumption

LEMMA DeferSettles ==
  ASSUME Settled, NEW c \in Calls, DeferScheduledReconcile(c)
  PROVE  Settled'
  <1>1. CASE Open(work[c].rec)
    <2> DEFINE r == work[c].rec
               row == Deferred(log[r])
    <2>1. r \in Records  BY CallRecords DEF DeferScheduledReconcile, At, Settled
    <2>2. log[r] \in LogRow /\ log[r].status = "scheduled" /\ log[r].attempts < MaxAttempts
      BY <1>1, <2>1 DEF Settled, LogTypeOK, Open, ScheduledIsWatched
    <2>3. row \in LogRow /\ Leads(log[r], row)  BY <2>2, DeferredRow DEF Leads
    <2>4. Write(c, r, row) /\ OweMirror(c, r, row.status, FALSE, FALSE)  BY <1>1 DEF DeferScheduledReconcile
    <2>5. \A d \in Calls \ {c} : At(d, "dispatch") => work[d].rec # r  BY <2>2 DEF Settled, SentWaits
    <2> HIDE DEF row, r
    <2>6. PICK w : Writes(c, r, row, w)  BY <2>1, <2>3, <2>4, OweMirrorWrites
    <2> QED  BY <2>1, <2>3, <2>5, <2>6, WritesSettled DEF DeferScheduledReconcile, Settled, LogTypeOK
  <1>2. CASE ~Open(work[c].rec)
    <2>1. Become(c, NoCall) /\ UNCHANGED <<log, shadow, mirrorUp, ruling, platform, was, confirmed>>
      BY <1>2 DEF DeferScheduledReconcile
    <2> QED  BY <2>1, EndSettles
  <1> QED  BY <1>1, <1>2

(* The one statement that counts a confirmation: a scheduled row is not yet    *)
(* confirmed, and no row that is published is scheduled again.                 *)
LEMMA ConfirmSettles ==
  ASSUME Settled, NEW c \in Calls, ConfirmScheduledPublished(c)
  PROVE  Settled'
  <1>1. CASE Unconfirmed(work[c].rec)
    <2> DEFINE r == work[c].rec
               row == [log[r] EXCEPT !.status = "published", !.post = TRUE, !.url = TRUE, !.next = "null"]
    <2>1. r \in Records  BY CallRecords DEF ConfirmScheduledPublished, At, Settled
    <2>2. log[r] \in LogRow /\ log[r].status = "scheduled"
      BY <1>1, <2>1 DEF Settled, LogTypeOK, Unconfirmed
    <2>3. row \in LogRow /\ row.status = "published" /\ row.post = TRUE
      <3>1. [[log[r] EXCEPT !.status = "published"] EXCEPT !.next = "null"] \in LogRow
        BY <2>2 DEF LogRow, Statuses
      <3>2. PICK t \in BOOLEAN : t = TRUE  OBVIOUS
      <3>3. row = [[[[log[r] EXCEPT !.status = "published"] EXCEPT !.next = "null"] EXCEPT !.post = t] EXCEPT !.url = t]
        BY <3>2
      <3>4. [[[log[r] EXCEPT !.status = "published"] EXCEPT !.next = "null"] EXCEPT !.post = t] \in LogRow
        BY <3>1 DEF LogRow
      <3>5. row \in LogRow  BY <3>3, <3>4 DEF LogRow
      <3> QED  BY <3>5, <2>2 DEF LogRow
    <2>4. Write(c, r, row) /\ OweMirror(c, r, row.status, TRUE, TRUE)
      BY <1>1, <2>3 DEF ConfirmScheduledPublished
    <2>5. \A d \in Calls \ {c} : At(d, "dispatch") => work[d].rec # r  BY <2>2 DEF Settled, SentWaits
    <2>6. confirmed[r] = 0  BY <2>1, <2>2 DEF Settled, UnconfirmedIsOpen
    <2>7. /\ confirmed' = [confirmed EXCEPT ![r] = @ + 1]
          /\ UNCHANGED <<shadow, mirrorUp, ruling, platform>>
      BY <1>1 DEF ConfirmScheduledPublished
    <2>8. PICK w : Writes(c, r, row, w)
      <3> HIDE DEF row, r
      <3> QED  BY <2>1, <2>3, <2>4, OweMirrorWrites
    <2> HIDE DEF row, r
    <2> USE DEF Settled
    <2>9. LogTypeOK'
      <3>1. confirmed' \in [Records -> Nat]  BY <2>1, <2>6, <2>7 DEF LogTypeOK
      <3>2. row.status # "none"  BY <2>3
      <3>3. /\ log' \in [Records -> LogRow]
            /\ was' \in [Records -> SUBSET Statuses]
            /\ work' \in [Calls -> {NoCall} \cup Mirroring \cup Sending]
        BY <3>2, <2>1, <2>3, <2>8, WritesTypes
      <3> QED  BY <3>1, <3>3, <2>7 DEF LogTypeOK
    <2>10. SentWaits' /\ OneSender'  BY <2>1, <2>3, <2>5, <2>7, <2>8, WritesSenders
    <2>11. \A s \in Records : log'[s] = IF s = r THEN row ELSE log[s]  BY <2>1, <2>8 DEF Writes, LogTypeOK
    <2>12. UnconfirmedIsOpen'
      BY <2>3, <2>6, <2>7, <2>11 DEF UnconfirmedIsOpen, LogTypeOK
    <2>13. ScheduledIsWatched' /\ PostKnown'  BY <2>3, <2>11 DEF ScheduledIsWatched, PostKnown
    <2>14. \A s \in Records : was'[s] = IF s = r THEN was[s] \cup {row.status} ELSE was[s]
      BY <2>1, <2>8 DEF Writes, LogTypeOK
    <2>15. ShadowTellsWhatWas'  BY <2>3, <2>7, <2>11, <2>14 DEF ShadowTellsWhatWas
    <2>16. OwedIsTrue'
      <3>0. \A d \in Calls : work'[d] = IF d = c THEN w ELSE work[d]  BY <2>8 DEF Writes, LogTypeOK
      <3> SUFFICES ASSUME NEW d \in Calls, work'[d].op = "mirror"
                   PROVE  /\ work'[d].copy.status \in was'[work'[d].rec]
                          /\ work'[d].copy.post => log'[work'[d].rec].post
        BY DEF OwedIsTrue, At
      <3>1. CASE d = c
        <4>1. w.op = "mirror" /\ w.rec = r /\ w.copy.status = row.status
          BY <3>0, <3>1, <2>1, <2>3, <2>8, WritesTypes
        <4> QED  BY <3>0, <3>1, <4>1, <2>1, <2>3, <2>11, <2>14
      <3>2. CASE d # c
        <4>1. work'[d] = work[d] /\ At(d, "mirror") /\ work[d].rec \in Records
          BY <3>0, <3>2, CallRecords DEF At
        <4>2. /\ work[d].copy.status \in was[work[d].rec]
              /\ work[d].copy.post => log[work[d].rec].post
          <5> HIDE DEF Settled
          <5>1. OwedIsTrue  BY DEF Settled
          <5> QED  BY <4>1, <5>1 DEF OwedIsTrue
        <4>3. work[d].copy.status \in was'[work[d].rec]
          <5>1. PICK s \in Records : s = work[d].rec  BY <4>1
          <5>2. was[s] \subseteq was'[s]  BY <2>14
          <5> QED  BY <4>2, <5>1, <5>2
        <4>4. CASE work[d].rec = r
          <5>1. log'[r] = row  BY <2>1, <2>11
          <5>2. log'[work[d].rec].post = TRUE  BY <4>4, <5>1, <2>3
          <5> QED  BY <4>1, <4>3, <5>2
        <4>5. CASE work[d].rec # r
          <5>1. log'[work[d].rec] = log[work[d].rec]  BY <4>1, <4>5, <2>11
          <5> QED  BY <4>1, <4>2, <4>3, <5>1
        <4> QED  BY <4>4, <4>5
      <3> QED  BY <3>1, <3>2
    <2> QED  BY <2>9, <2>10, <2>12, <2>13, <2>15, <2>16
  <1>2. CASE ~Unconfirmed(work[c].rec)
    <2>1. Become(c, NoCall) /\ UNCHANGED <<log, shadow, mirrorUp, ruling, platform, was, confirmed>>
      BY <1>2 DEF ConfirmScheduledPublished
    <2> QED  BY <2>1, EndSettles
  <1> QED  BY <1>1, <1>2

(* The shadow write of whichever call comes next tells what the record has     *)
(* been by then, since it did when it was owed and the history only grows.     *)
LEMMA MirrorSettles ==
  ASSUME Settled, NEW c \in Calls, MirrorExecutionState(c)
  PROVE  Settled'
  <1> USE DEF Settled
  <1>1. work[c] \in Mirroring /\ work[c].rec \in Records
    BY CallShapes, CallRecords DEF MirrorExecutionState, At
  <1> DEFINE r == work[c].rec
             copy == work[c].copy
  <1>2. copy \in Shadow /\ copy.status \in was[r] /\ (copy.post => log[r].post) /\ shadow[r] \in Shadow
    BY <1>1 DEF Mirroring, OwedIsTrue, MirrorExecutionState, LogTypeOK
  <1>3. PICK post \in BOOLEAN, url \in BOOLEAN :
          post = (copy.post \/ shadow[r].post) /\ url = (copy.url \/ shadow[r].url)
    OBVIOUS
  <1>4. Upsert(shadow[r], copy) = [status |-> copy.status, post |-> post, url |-> url]  BY <1>3 DEF Upsert
  <1>5. Upsert(shadow[r], copy) \in Shadow  BY <1>2, <1>4 DEF Shadow
  <1>6. post => log[r].post
    <2>1. shadow[r].post => log[r].post  BY <1>1 DEF ShadowTellsWhatWas
    <2> QED  BY <1>2, <1>3, <2>1
  <1>7. \A s \in Records : shadow'[s] = IF s = r THEN Upsert(shadow[r], copy) ELSE shadow[s]
    BY <1>1 DEF MirrorExecutionState, LogTypeOK
  <1>8. LogTypeOK'  BY <1>5, <1>1 DEF LogTypeOK, MirrorExecutionState, Become
  <1>9. \A d \in Calls : work'[d] = IF d = c THEN NoCall ELSE work[d]
    BY DEF MirrorExecutionState, Become, LogTypeOK
  <1>10. SentWaits' /\ OneSender' /\ OwedIsTrue'
    BY <1>9 DEF SentWaits, OneSender, OwedIsTrue, At, NoCall, MirrorExecutionState
  <1>11. UnconfirmedIsOpen' /\ ScheduledIsWatched' /\ PostKnown'
    BY DEF UnconfirmedIsOpen, ScheduledIsWatched, PostKnown, MirrorExecutionState
  <1>12. ShadowTellsWhatWas'
    <2> HIDE DEF r, copy
    <2>1. /\ Upsert(shadow[r], copy).status = copy.status
          /\ Upsert(shadow[r], copy).post = post
      BY <1>4
    <2>2. log' = log /\ was' = was  BY DEF MirrorExecutionState
    <2> QED  BY <1>2, <1>6, <1>7, <2>1, <2>2 DEF ShadowTellsWhatWas
  <1> QED  BY <1>8, <1>10, <1>11, <1>12

-----------------------------------------------------------------------------
LEMMA LogStutters ==
  ASSUME Settled, UNCHANGED logVars
  PROVE  Settled'
  BY DEF logVars, Settled, LogTypeOK, SentWaits, OneSender, At, UnconfirmedIsOpen,
         ScheduledIsWatched, PostKnown, OwedIsTrue, ShadowTellsWhatWas

LEMMA LogKeepsSettled ==
  ASSUME Settled, [LogNext]_logVars
  PROVE  Settled'
  <1>1. ASSUME NEW c \in Calls, NEW r \in Records, NEW s \in {"pending_approval", "draft", "failed"},
               Insert(c, r, s)
        PROVE  Settled'
    BY <1>1, InsertSettles
  <1>2. ASSUME NEW r \in Records,
               \/ \E v \in {"rejected", "pending_dispatch"} : Decide(r, v)
               \/ FallsDue(r)
               \/ \E o \in {"public", "dropped"} : PlatformActs(r, o)
        PROVE  Settled'
    BY <1>2, DecideSettles, FallsDueSettles, PlatformSettles
  <1>3. ASSUME NEW c \in Calls, NEW r \in Records,
               RejectPendingApproval(c, r) \/ Dispatch(c, r) \/ ListDue(c, r)
        PROVE  Settled'
    BY <1>3, RejectSettles, DispatchSettles, ListDueSettles
  <1>4. ASSUME NEW c \in Calls,
               \/ \E s \in {"submitted", "failed"} : UpdateStatus(c, s)
               \/ \E link \in BOOLEAN : UpdatePostId(c, link)
               \/ MarkScheduled(c)
        PROVE  Settled'
    BY <1>4, UpdateStatusSettles, UpdatePostIdSettles, MarkScheduledSettles
  <1>5. ASSUME NEW c \in Calls,
               \/ Look(c) \/ DeferScheduledReconcile(c) \/ ConfirmScheduledPublished(c)
               \/ MirrorExecutionState(c) \/ MirrorFails(c)
        PROVE  Settled'
    <2>1. CASE MirrorFails(c)  BY <2>1, EndSettles DEF MirrorFails
    <2> QED  BY <1>5, <2>1, LookSettles, DeferSettles, ConfirmSettles, MirrorSettles
  <1> QED  BY <1>1, <1>2, <1>3, <1>4, <1>5, LogStutters DEF LogNext, Operate

LEMMA LogStartsSettled ==
  ASSUME LogInit
  PROVE  Settled
  <1> USE DEF LogInit
  <1>1. NoRecord \in LogRow /\ NoRecord.status = "none" /\ NoRecord.post = FALSE
    <2>1. 0 \in 0..MaxAttempts  BY LogAssumption
    <2> QED  BY <2>1 DEF NoRecord, LogRow
  <1>2. NoShadow \in Shadow /\ NoShadow.status = "none" /\ NoShadow.post = FALSE  BY DEF NoShadow, Shadow
  <1>3. NoCall.op = "idle"  BY DEF NoCall
  <1>4. LogTypeOK  BY <1>1, <1>2 DEF LogTypeOK
  <1>5. SentWaits /\ OneSender /\ OwedIsTrue  BY <1>3 DEF SentWaits, OneSender, OwedIsTrue, At
  <1>6. UnconfirmedIsOpen /\ ScheduledIsWatched /\ PostKnown
    BY <1>1 DEF UnconfirmedIsOpen, ScheduledIsWatched, PostKnown
  <1>7. ShadowTellsWhatWas  BY <1>2 DEF ShadowTellsWhatWas
  <1> QED  BY <1>4, <1>5, <1>6, <1>7 DEF Settled

(* Records, the shadow table, decisions and calls of the store keep their      *)
(* types (publish-log-store.ts).                                               *)
THEOREM LogTypes == LogSpec => []LogTypeOK
  <1>1. Settled => LogTypeOK  BY DEF Settled
  <1> QED  BY <1>1, LogStartsSettled, LogKeepsSettled, PTL DEF LogSpec

(* A held post is confirmed once, is looked at until it is settled, and its    *)
(* shadow row tells what it has been (confirmScheduledPublished,               *)
(* deferScheduledReconcile, mirrorExecutionState).                             *)
THEOREM PostsSettle == LogSpec => []PostSettles
  <1>1. Settled => PostSettles
    BY DEF Settled, PostSettles, ConfirmedOnce, UnconfirmedIsOpen
  <1> QED  BY <1>1, LogStartsSettled, LogKeepsSettled, PTL DEF LogSpec

(* Only what waits, for people or on the platform, is moved by a call of the   *)
(* store, late as the call may be.                                             *)
LEMMA OnlyWhatWaitsMoves ==
  ASSUME Settled, Operate, NEW r \in Records, log[r].status \notin {"pending_approval", "scheduled"}
  PROVE  log'[r].status = log[r].status
  <1> USE DEF Settled
  <1>1. ASSUME NEW c \in Calls, NEW s \in Records, NEW row,
               log[s].status \in {"pending_approval", "scheduled"}, Write(c, s, row)
        PROVE  log'[r].status = log[r].status
    BY <1>1 DEF Write, LogTypeOK
  <1>2. ASSUME NEW s \in Records, FallsDue(s)
        PROVE  log'[r].status = log[r].status
    BY <1>2 DEF FallsDue, LogTypeOK, LogRow
  <1>3. ASSUME NEW c \in Calls, NEW s \in Records, RejectPendingApproval(c, s)
        PROVE  log'[r].status = log[r].status
    <2>1. CASE log[s].status = "pending_approval"
      <3>1. PICK row : Write(c, s, row)  BY <1>3, <2>1 DEF RejectPendingApproval
      <3> QED  BY <1>1, <2>1, <3>1
    <2>2. CASE log[s].status # "pending_approval"  BY <1>3, <2>2 DEF RejectPendingApproval
    <2> QED  BY <2>1, <2>2
  <1>4. ASSUME NEW c \in Calls, At(c, "dispatch"), NEW row, Write(c, work[c].rec, row)
        PROVE  log'[r].status = log[r].status
    <2>1. work[c].rec \in Records /\ log[work[c].rec].status = "pending_approval"
      BY <1>4, CallRecords DEF SentWaits, At
    <2> QED  BY <1>1, <1>4, <2>1
  <1>5. ASSUME NEW c \in Calls,
               \/ \E s \in {"submitted", "failed"} : UpdateStatus(c, s)
               \/ \E link \in BOOLEAN : UpdatePostId(c, link)
               \/ MarkScheduled(c)
        PROVE  log'[r].status = log[r].status
    BY <1>4, <1>5 DEF UpdateStatus, UpdatePostId, MarkScheduled, Reports
  <1>6. ASSUME NEW c \in Calls, At(c, "defer") \/ At(c, "confirm"), NEW row,
               log[work[c].rec].status = "scheduled", Write(c, work[c].rec, row)
        PROVE  log'[r].status = log[r].status
    <2>1. work[c].rec \in Records  BY <1>6, CallRecords DEF At
    <2> QED  BY <1>1, <1>6, <2>1
  <1>7. ASSUME NEW c \in Calls, DeferScheduledReconcile(c) \/ ConfirmScheduledPublished(c)
        PROVE  log'[r].status = log[r].status
    BY <1>6, <1>7 DEF DeferScheduledReconcile, ConfirmScheduledPublished, Open, Unconfirmed
  <1>8. CASE log' = log  BY <1>8
  <1> QED
    BY <1>2, <1>3, <1>5, <1>7, <1>8
       DEF Operate, Decide, PlatformActs, Dispatch, ListDue, Look, MirrorExecutionState, MirrorFails

(* What a step does to one published row, and to one row of the shadow table   *)
(* that knows a post.                                                          *)
LEMMA LogKeepsPosts ==
  ASSUME Settled, [LogNext]_logVars, NEW r \in Records
  PROVE  /\ shadow[r].post => shadow'[r].post
         /\ log[r].status = "published" => log'[r].status = "published" /\ log'[r].post
  <1> USE DEF Settled
  <1>1. Settled'  BY LogKeepsSettled
  <1>2. shadow[r].post => shadow'[r].post
    <2>1. CASE shadow' = shadow  BY <2>1
    <2>2. ASSUME NEW c \in Calls, MirrorExecutionState(c)
          PROVE  shadow[r].post => shadow'[r].post
      <3>1. CASE r = work[c].rec
        <4>1. shadow'[r] = Upsert(shadow[r], work[c].copy)  BY <2>2, <3>1 DEF MirrorExecutionState, LogTypeOK
        <4>2. PICK p \in BOOLEAN : p = (work[c].copy.post \/ shadow[r].post)  OBVIOUS
        <4>3. shadow'[r].post = p  BY <4>1, <4>2 DEF Upsert
        <4> QED  BY <4>2, <4>3
      <3>2. CASE r # work[c].rec
        <4>1. shadow'[r] = shadow[r]  BY <2>2, <3>2 DEF MirrorExecutionState, LogTypeOK
        <4> QED  BY <4>1
      <3> QED  BY <3>1, <3>2
    <2>3. shadow' = shadow \/ \E c \in Calls : MirrorExecutionState(c)
      BY DEF LogNext, Operate, Insert, Decide, FallsDue, PlatformActs, RejectPendingApproval, Dispatch, ListDue,
             UpdateStatus, UpdatePostId, MarkScheduled, Reports, Look, DeferScheduledReconcile,
             ConfirmScheduledPublished, MirrorFails, logVars
    <2> QED  BY <2>1, <2>2, <2>3
  <1>3. ASSUME log[r].status = "published"
        PROVE  log'[r].status = "published"
    <2>1. CASE Operate  BY <1>3, <2>1, OnlyWhatWaitsMoves
    <2>2. ASSUME NEW c \in Calls, NEW s \in Records, NEW v, Insert(c, s, v)
          PROVE  log'[r].status = "published"
      BY <1>3, <2>2 DEF Insert, Write, LogTypeOK
    <2>3. CASE log' = log  BY <1>3, <2>3
    <2> QED  BY <2>1, <2>2, <2>3 DEF LogNext, logVars
  <1>4. log'[r].status = "published" => log'[r].post  BY <1>1 DEF PostKnown
  <1> QED  BY <1>2, <1>3, <1>4

(* The shadow never forgets a post that it knew, and what is published stays   *)
(* published, with its post (mirrorExecutionState, updateStatus).              *)
THEOREM PostsStay == LogSpec => PostSteps
  <1>1. Settled /\ [LogNext]_logVars =>
          [\A r \in Records : shadow[r].post => shadow'[r].post]_logVars
    BY LogKeepsPosts
  <1>2. Settled /\ [LogNext]_logVars =>
          [\A r \in Records : log[r].status = "published"
             => log'[r].status = "published" /\ log'[r].post]_logVars
    BY LogKeepsPosts
  <1> QED  BY <1>1, <1>2, LogStartsSettled, LogKeepsSettled, PTL DEF LogSpec, PostSteps, ShadowKeepsPost, PublishedStays

-----------------------------------------------------------------------------
(* Steps of the generation runs are steps of the log, or leave it alone.       *)
LEMMA LifeStepsLog == [LifeNext]_lifeVars => [LogNext]_logVars
  BY DEF LifeNext, LogNext, lifeVars, RunStarts, RoleFinishes, TextIsSentBack, RunGivesUp,
         RunIsCleared, RunEnds, RunInserts, RunNotesResult, ReadPage, PageOpens, ReadQueue,
         ReadPending, ReadRecent, ReadRulings, PageCloses, PageReads

(* The generation runs beside the log write it only by handing over a record.  *)
THEOREM RunsWriteAsTheLogAllows == LifeSpec => LogSpec
  <1>1. LifeInit => LogInit  BY DEF LifeInit
  <1> QED  BY <1>1, LifeStepsLog, PTL DEF LifeSpec, LogSpec

(* What calls of the store move a record to: it is never unwritten, and never  *)
(* waits for approval again; an approval in force stays one.                   *)
LEMMA RecordsMoveOn ==
  ASSUME Settled, Operate, NEW r \in Records
  PROVE  /\ log'[r].status = log[r].status
              \/ log'[r].status \in {"needs_review", "submitted", "failed", "published", "scheduled"}
         /\ Approved(r) => Approved(r)'
  <1> USE DEF Settled
  <1> DEFINE Moved == {"needs_review", "submitted", "failed", "published", "scheduled"}
  <1>1. ASSUME NEW c \in Calls, NEW s, NEW row, row.status \in Moved, Write(c, s, row)
        PROVE  log'[r].status = log[r].status \/ log'[r].status \in Moved
    BY <1>1 DEF Write, LogTypeOK
  <1>2. \A s \in Records : log[s] \in LogRow  BY DEF LogTypeOK
  <1>3. ASSUME NEW s \in Records, FallsDue(s)
        PROVE  log'[r].status = log[r].status
    BY <1>3, <1>2 DEF FallsDue, LogTypeOK, LogRow
  <1>4. ASSUME NEW c \in Calls, NEW s \in Records, RejectPendingApproval(c, s)
        PROVE  log'[r].status = log[r].status \/ log'[r].status \in Moved
    <2>1. CASE log[s].status = "pending_approval"
      <3>1. PICK row : row = [log[s] EXCEPT !.status = "needs_review"]  OBVIOUS
      <3>2. Write(c, s, row)  BY <1>4, <2>1, <3>1 DEF RejectPendingApproval
      <3>3. row.status = "needs_review"  BY <1>2, <3>1 DEF LogRow
      <3> QED  BY <1>1, <3>2, <3>3
    <2>2. CASE log[s].status # "pending_approval"  BY <1>4, <2>2 DEF RejectPendingApproval
    <2> QED  BY <2>1, <2>2
  <1>5. ASSUME NEW c \in Calls,
               \/ \E s \in {"submitted", "failed"} : UpdateStatus(c, s)
               \/ \E link \in BOOLEAN : UpdatePostId(c, link)
               \/ MarkScheduled(c)
        PROVE  log'[r].status = log[r].status \/ log'[r].status \in Moved
    <2>0. log[work[c].rec] \in LogRow
      <3>1. At(c, "dispatch")  BY <1>5 DEF UpdateStatus, UpdatePostId, MarkScheduled, Reports
      <3> QED  BY <3>1, <1>2, CallRecords DEF At
    <2>1. ASSUME NEW s \in {"submitted", "failed"}, UpdateStatus(c, s)
          PROVE  log'[r].status = log[r].status \/ log'[r].status \in Moved
      <3>1. PICK row : row = [log[work[c].rec] EXCEPT !.status = s]
        OBVIOUS
      <3>2. row.status = s  BY <2>0, <3>1 DEF LogRow
      <3>3. Write(c, work[c].rec, row)  BY <2>1, <3>1 DEF UpdateStatus
      <3> QED  BY <1>1, <3>2, <3>3
    <2>2. ASSUME NEW link \in BOOLEAN, UpdatePostId(c, link)
          PROVE  log'[r].status = log[r].status \/ log'[r].status \in Moved
      <3>1. PICK row : row = [log[work[c].rec] EXCEPT !.status = "published", !.post = TRUE, !.url = @ \/ link]
        OBVIOUS
      <3>2. row.status = "published"  BY <2>0, <3>1 DEF LogRow
      <3>3. Write(c, work[c].rec, row)  BY <2>2, <3>1 DEF UpdatePostId
      <3> QED  BY <1>1, <3>2, <3>3
    <2>3. CASE MarkScheduled(c)
      <3>1. PICK row : row = [log[work[c].rec] EXCEPT !.status = "scheduled", !.attempts = 0, !.next = "later"]
        OBVIOUS
      <3>2. row.status = "scheduled"  BY <2>0, <3>1 DEF LogRow
      <3>3. Write(c, work[c].rec, row) \/ log' = log  BY <2>3, <3>1 DEF MarkScheduled
      <3> QED  BY <1>1, <3>2, <3>3
    <2> QED  BY <1>5, <2>1, <2>2, <2>3
  <1>6. ASSUME NEW c \in Calls, DeferScheduledReconcile(c) \/ ConfirmScheduledPublished(c)
        PROVE  log'[r].status = log[r].status \/ log'[r].status \in Moved
    <2>0. log[work[c].rec] \in LogRow
      <3>1. At(c, "defer") \/ At(c, "confirm")  BY <1>6 DEF DeferScheduledReconcile, ConfirmScheduledPublished
      <3> QED  BY <3>1, <1>2, CallRecords DEF At
    <2>1. CASE DeferScheduledReconcile(c)
      <3>1. PICK row : row = Deferred(log[work[c].rec])  OBVIOUS
      <3>2. row.status \in {"needs_review", "scheduled"}  BY <2>0, <3>1 DEF Deferred, LogRow
      <3>3. Write(c, work[c].rec, row) \/ log' = log  BY <2>1, <3>1 DEF DeferScheduledReconcile
      <3> QED  BY <1>1, <3>2, <3>3
    <2>2. CASE ConfirmScheduledPublished(c)
      <3>1. PICK row : row = [log[work[c].rec] EXCEPT !.status = "published", !.post = TRUE,
                                                      !.url = TRUE, !.next = "null"]
        OBVIOUS
      <3>2. row.status = "published"  BY <2>0, <3>1 DEF LogRow
      <3>3. Write(c, work[c].rec, row) \/ log' = log  BY <2>2, <3>1 DEF ConfirmScheduledPublished
      <3> QED  BY <1>1, <3>2, <3>3
    <2> QED  BY <1>6, <2>1, <2>2
  <1>7. log' = log => log'[r].status = log[r].status  OBVIOUS
  <1>8. log'[r].status = log[r].status \/ log'[r].status \in Moved
    <2> HIDE DEF Moved
    <2> QED  BY <1>3, <1>4, <1>5, <1>6, <1>7
       DEF Operate, Decide, PlatformActs, Dispatch, ListDue, Look, MirrorExecutionState, MirrorFails
  <1>9. Approved(r) => Approved(r)'
    <2>1. CASE ruling' = ruling  BY <2>1 DEF Approved
    <2>2. ASSUME NEW s \in Records, NEW v \in {"rejected", "pending_dispatch"}, Decide(s, v)
          PROVE  Approved(r) => Approved(r)'
      BY <2>2 DEF Decide, Approved, LogTypeOK
    <2>3. ASSUME NEW c \in Calls, NEW s \in Records, Dispatch(c, s)
          PROVE  Approved(r) => Approved(r)'
      BY <2>3 DEF Dispatch, Approved, LogTypeOK
    <2>4. ASSUME NEW c \in Calls, NEW answer, Reports(c, answer)
          PROVE  Approved(r) => Approved(r)'
      BY <2>4 DEF Reports, Approved, LogTypeOK
    <2> QED  BY <2>1, <2>2, <2>3, <2>4
       DEF Operate, FallsDue, PlatformActs, RejectPendingApproval, ListDue, UpdateStatus, UpdatePostId, MarkScheduled,
           Look, DeferScheduledReconcile, ConfirmScheduledPublished, MirrorExecutionState, MirrorFails
  <1> QED  BY <1>8, <1>9

(* A page under way.  What it has read in order tells of each record it may    *)
(* have to show whether the record was there: a run that is no longer listed   *)
(* has left its record, or never will; what one of the lists did not find does *)
(* not come to wait any more; what was approved stays approved.                *)
ReadInOrder ==
  /\ {"pending", "recent"} \cap page.read # {} => "queue" \in page.read
  /\ "rulings" \in page.read => {"pending", "recent"} \subseteq page.read

RecordsAccounted ==
  \A r \in page.known :
    /\ run[r].status # "idle" \/ log[r].status # "none"
    /\ "queue" \in page.read /\ page.listed[r] = "none" => log[r].status # "none" \/ run[r].status = "cleared"
    /\ "recent" \in page.read /\ page.listed[r] = "none" /\ page.recent[r] = "none"
         => log[r].status = "none" /\ run[r].status = "cleared"
    /\ "pending" \in page.read /\ page.listed[r] = "none" /\ r \notin page.waiting => ~PendingApproval(r)

ApprovalsAccounted ==
  \A r \in page.approved :
    /\ Approved(r)
    /\ "rulings" \in page.read => page.verdicts[r] \in {"pending_dispatch", "dispatching", "consumed"}
    /\ "pending" \in page.read

Accounted ==
  /\ run \in [Records -> Run] /\ page \in Page
  /\ ReadInOrder /\ RecordsAccounted /\ ApprovalsAccounted

LEMMA NoRunIsRun == NoRun \in Run /\ [NoRun EXCEPT !.status = "cleared"] \in Run
  <1>1. NoRun \in Run  BY DEF NoRun, Run
  <1> QED  BY <1>1 DEF Run

LEMMA NoPageAccounts ==
  /\ NoPage \in Page /\ NoPage.read = {} /\ NoPage.known = {} /\ NoPage.approved = {}
  BY DEF NoPage, Page, Verdicts, Reads

(* A step of a run: it does not become idle, and what was cleared stays so.    *)
LEMMA RunStepsAccount ==
  ASSUME Accounted, UNCHANGED <<logVars, page>>, NEW r \in Records, NEW row \in Run,
         run' = [run EXCEPT ![r] = row], row.status # "idle",
         run[r].status = "cleared" => row.status = "cleared"
  PROVE  Accounted'
  <1>1. run' \in [Records -> Run] /\ page' \in Page /\ ReadInOrder'
    BY DEF Accounted, ReadInOrder
  <1>2. \A q \in Records : /\ run'[q].status = "idle" => run[q].status = "idle"
                           /\ run[q].status = "cleared" => run'[q].status = "cleared"
    BY DEF Accounted
  <1>3. page.known \subseteq Records  BY DEF Accounted, Page
  <1>4. RecordsAccounted'  BY <1>2, <1>3 DEF Accounted, RecordsAccounted, logVars, PendingApproval
  <1>5. ApprovalsAccounted'  BY DEF Accounted, ApprovalsAccounted, logVars, Approved
  <1> QED  BY <1>1, <1>4, <1>5 DEF Accounted

LEMMA LogStepsAccount ==
  ASSUME Settled, Accounted, Operate, UNCHANGED <<run, page>>
  PROVE  Accounted'
  <1>1. page.known \subseteq Records /\ page.approved \subseteq Records  BY DEF Accounted, Page
  <1>2. \A r \in Records :
          /\ log[r].status # "none" => log'[r].status # "none"
          /\ ~PendingApproval(r) => ~PendingApproval(r)'
          /\ log[r].status = "none" => log'[r].status = "none"
          /\ Approved(r) => Approved(r)'
    BY RecordsMoveOn, OnlyWhatWaitsMoves DEF PendingApproval
  <1>3. RecordsAccounted'  BY <1>1, <1>2 DEF Accounted, RecordsAccounted
  <1>4. ApprovalsAccounted'  BY <1>1, <1>2 DEF Accounted, ApprovalsAccounted
  <1> QED  BY <1>3, <1>4 DEF Accounted, ReadInOrder

LEMMA InsertAccounts ==
  ASSUME Settled, Accounted, NEW c \in Calls, NEW r \in Records,
         NEW s \in {"pending_approval", "draft", "failed"}, RunInserts(c, r, s)
  PROVE  Accounted'
  <1>1. page.known \subseteq Records  BY DEF Accounted, Page
  <1>2. /\ log[r].status = "none" /\ run[r].status # "cleared"
        /\ \A q \in Records \ {r} : log'[q] = log[q]
        /\ ruling' = ruling /\ run' = run /\ page' = page
    BY DEF RunInserts, Insert, Write, Settled, LogTypeOK
  <1>3. log'[r].status = s
    <2>1. [NoRecord EXCEPT !.status = s].status = s  BY DEF NoRecord
    <2> QED  BY <2>1 DEF RunInserts, Insert, Write, Settled, LogTypeOK
  <1>4. RecordsAccounted'
    <2> SUFFICES ASSUME NEW q \in page.known
                 PROVE  /\ run[q].status # "idle" \/ log'[q].status # "none"
                        /\ "queue" \in page.read /\ page.listed[q] = "none"
                             => log'[q].status # "none" \/ run[q].status = "cleared"
                        /\ "recent" \in page.read /\ page.listed[q] = "none" /\ page.recent[q] = "none"
                             => log'[q].status = "none" /\ run[q].status = "cleared"
                        /\ "pending" \in page.read /\ page.listed[q] = "none" /\ q \notin page.waiting
                             => log'[q].status # "pending_approval"
      BY <1>2 DEF RecordsAccounted, PendingApproval
    <2>1. CASE q = r
      <3>1. ~("queue" \in page.read /\ page.listed[r] = "none")  BY <1>2, <2>1 DEF Accounted, RecordsAccounted
      <3>2. {"pending", "recent"} \cap page.read # {} => "queue" \in page.read
        BY DEF Accounted, ReadInOrder
      <3> QED  BY <1>3, <2>1, <3>1, <3>2
    <2>2. CASE q # r
      <3>1. log'[q] = log[q]  BY <1>1, <1>2, <2>2
      <3> QED  BY <3>1 DEF Accounted, RecordsAccounted, PendingApproval
    <2> QED  BY <2>1, <2>2
  <1>5. ApprovalsAccounted'  BY <1>2 DEF Accounted, ApprovalsAccounted, Approved
  <1> QED  BY <1>2, <1>4, <1>5 DEF Accounted, ReadInOrder

(* The steps of the page itself.                                               *)
LEMMA PageStepsAccount ==
  ASSUME Settled, Accounted, ReadPage
  PROVE  Accounted'
  <1> USE DEF Accounted
  <1>0. page.read \subseteq Reads /\ page.known \subseteq Records /\ page.approved \subseteq Records  BY DEF Page
  <1>1. CASE PageOpens
    <2> DEFINE known == {r \in Records : Listing(run[r]) # "none" \/ log[r].status # "none"}
    <2>1. page' \in Page /\ page'.read = {} /\ page'.known = known /\ page'.approved = {}
      BY <1>1, NoPageAccounts DEF PageOpens, Page
    <2>2. \A r \in known : run[r].status # "idle" \/ log[r].status # "none"
      BY DEF Listing
    <2>3. UNCHANGED <<logVars, run>>  BY <1>1 DEF PageOpens
    <2> HIDE DEF known
    <2> QED  BY <2>1, <2>2, <2>3 DEF ReadInOrder, RecordsAccounted, ApprovalsAccounted, logVars
  <1>2. CASE ReadQueue
    <2>1. PICK listed \in [Records -> {"none", "running", "delivered"}] :
            listed = [r \in Records |-> Listing(run[r])]
      BY DEF Listing
    <2>2. page' = [page EXCEPT !.read = @ \cup {"queue"}, !.listed = listed]  BY <1>2, <2>1 DEF ReadQueue
    <2>3. page' \in Page  BY <2>2 DEF Page, Reads
    <2>4. /\ page'.read = page.read \cup {"queue"} /\ page'.listed = listed
          /\ page'.known = page.known /\ page'.approved = page.approved /\ page'.verdicts = page.verdicts
      BY <2>2 DEF Page
    <2>5. UNCHANGED <<logVars, run>> /\ "queue" \notin page.read  BY <1>2 DEF ReadQueue, PageReads
    <2>6. page'.read \cap {"pending", "recent", "rulings"} = {}  BY <2>4, <2>5 DEF ReadInOrder
    <2>7. \A r \in page.known : listed[r] = "none" => log[r].status # "none" \/ run[r].status = "cleared"
      <3> SUFFICES ASSUME NEW r \in page.known, listed[r] = "none", log[r].status = "none"
                   PROVE  run[r].status = "cleared"
        OBVIOUS
      <3>1. run[r].status \notin {"running", "failed", "timeout"}  BY <1>0, <2>1 DEF Listing
      <3>2. run[r].status # "idle"  BY DEF RecordsAccounted
      <3> QED  BY <1>0, <3>1, <3>2 DEF Run
    <2>8. RecordsAccounted'  BY <2>4, <2>5, <2>6, <2>7 DEF RecordsAccounted, logVars
    <2>9. ApprovalsAccounted' /\ ReadInOrder'
      BY <2>4, <2>5, <2>6 DEF ApprovalsAccounted, ReadInOrder, logVars, Approved
    <2> QED  BY <2>3, <2>5, <2>8, <2>9
  <1>3. CASE ReadPending
    <2>1. /\ page' \in Page
          /\ page'.read = page.read \cup {"pending"} /\ page'.known = page.known
          /\ page'.listed = page.listed /\ page'.recent = page.recent /\ page'.verdicts = page.verdicts
          /\ page'.waiting = {r \in Records : PendingApproval(r)}
          /\ page'.approved = {r \in Records : PendingApproval(r) /\ Approved(r)}
      BY <1>3 DEF ReadPending, Page, Reads
    <2>2. UNCHANGED <<logVars, run>> /\ "queue" \in page.read /\ "rulings" \notin page.read
      BY <1>3 DEF ReadPending, PageReads, ReadBefore, ReadInOrder
    <2>3. RecordsAccounted'  BY <1>0, <2>1, <2>2 DEF RecordsAccounted, logVars, PendingApproval
    <2>4. ApprovalsAccounted' /\ ReadInOrder'
      BY <2>1, <2>2 DEF ApprovalsAccounted, ReadInOrder, logVars, Approved
    <2> QED  BY <2>1, <2>2, <2>3, <2>4
  <1>4. CASE ReadRecent
    <2>1. PICK recent \in [Records -> {"none", "waiting", "settled"}] :
            recent = [r \in Records |-> IF log[r].status = "none" THEN "none"
                                        ELSE IF PendingApproval(r) THEN "waiting" ELSE "settled"]
      OBVIOUS
    <2>2. /\ page' \in Page
          /\ page'.read = page.read \cup {"recent"} /\ page'.known = page.known
          /\ page'.listed = page.listed /\ page'.recent = recent /\ page'.verdicts = page.verdicts
          /\ page'.waiting = page.waiting /\ page'.approved = page.approved
      BY <1>4, <2>1 DEF ReadRecent, Page, Reads
    <2>3. UNCHANGED <<logVars, run>> /\ "queue" \in page.read /\ "rulings" \notin page.read
      BY <1>4 DEF ReadRecent, PageReads, ReadBefore, ReadInOrder
    <2>4. RecordsAccounted'  BY <1>0, <2>1, <2>2, <2>3 DEF RecordsAccounted, logVars, PendingApproval
    <2>5. ApprovalsAccounted' /\ ReadInOrder'
      BY <2>2, <2>3 DEF ApprovalsAccounted, ReadInOrder, logVars, Approved
    <2> QED  BY <2>2, <2>3, <2>4, <2>5
  <1>5. ASSUME NEW readable \in BOOLEAN, ReadRulings(readable)
        PROVE  Accounted'
    <2>0. ruling \in [Records -> Verdicts]  BY DEF Settled, LogTypeOK, Verdicts
    <2>1. /\ page' \in Page
          /\ page'.read = page.read \cup {"rulings"} /\ page'.known = page.known
          /\ page'.listed = page.listed /\ page'.recent = page.recent /\ page'.verdicts = ruling
          /\ page'.waiting = page.waiting /\ page'.approved = page.approved
      BY <1>5, <2>0 DEF ReadRulings, Page, Reads
    <2>2. UNCHANGED <<logVars, run>> /\ {"pending", "recent"} \subseteq page.read
      BY <1>5 DEF ReadRulings, PageReads, ReadBefore
    <2>3. RecordsAccounted'  BY <2>1, <2>2 DEF RecordsAccounted, logVars, PendingApproval
    <2>4. ApprovalsAccounted' /\ ReadInOrder'
      BY <2>1, <2>2 DEF ApprovalsAccounted, ReadInOrder, logVars, Approved
    <2> QED  BY <2>1, <2>2, <2>3, <2>4
  <1>6. CASE PageCloses
    <2>1. page' = NoPage /\ UNCHANGED <<logVars, run>>  BY <1>6 DEF PageCloses
    <2> QED  BY <2>1, NoPageAccounts DEF ReadInOrder, RecordsAccounted, ApprovalsAccounted
  <1> QED  BY <1>1, <1>2, <1>3, <1>4, <1>5, <1>6 DEF ReadPage

LEMMA LifeKeepsAccounted ==
  ASSUME Settled, Accounted, [LifeNext]_lifeVars
  PROVE  Accounted'
  <1>0. \A r \in Records : run[r] \in Run  BY DEF Accounted
  <1>1. ASSUME NEW r \in Records, RunStarts(r)
        PROVE  Accounted'
    <2>1. PICK row \in Run : row = [run[r] EXCEPT !.status = "running"]  BY <1>0 DEF Run
    <2>2. row.status = "running"  BY <1>0, <2>1 DEF Run
    <2> QED  BY <1>1, <2>1, <2>2, RunStepsAccount DEF RunStarts
  <1>2. ASSUME NEW r \in Records, NEW k \in SnapshotKeys, RoleFinishes(r, k)
        PROVE  Accounted'
    <2>1. run[r] \in Run /\ run[r].status = "running" /\ UNCHANGED <<logVars, page>>
      BY <1>0, <1>2 DEF RoleFinishes, Generating
    <2>2. PICK publish \in BOOLEAN :
            run' = [run EXCEPT ![r].keys = @ \cup {k}, ![r].publish = publish]
      BY <1>2, <2>1 DEF RoleFinishes, Run
    <2>3. PICK keys \in SUBSET SnapshotKeys : keys = run[r].keys \cup {k}  BY <2>1 DEF Run
    <2>4. PICK mid \in Run : mid = [run[r] EXCEPT !.keys = keys]  BY <2>1 DEF Run
    <2>5. PICK row \in Run : row = [mid EXCEPT !.publish = publish]  BY DEF Run
    <2>6. run' = [run EXCEPT ![r] = row] /\ row.status = "running"
      BY <2>1, <2>2, <2>3, <2>4, <2>5 DEF Run
    <2> QED  BY <2>1, <2>6, RunStepsAccount
  <1>3. ASSUME NEW r \in Records, TextIsSentBack(r)
        PROVE  Accounted'
    <2>1. run[r] \in Run /\ run[r].status = "running" /\ UNCHANGED <<logVars, page>>
      BY <1>0, <1>3 DEF TextIsSentBack, Generating
    <2>2. PICK t \in BOOLEAN : t = TRUE  OBVIOUS
    <2>3. PICK row \in Run : row = [run[r] EXCEPT !.retry = t]  BY <2>1 DEF Run
    <2>4. run' = [run EXCEPT ![r] = row]  BY <1>3, <2>2, <2>3 DEF TextIsSentBack
    <2>5. row.status = "running"  BY <2>1, <2>3 DEF Run
    <2> QED  BY <2>1, <2>4, <2>5, RunStepsAccount
  <1>4. ASSUME NEW r \in Records, NEW how \in Stages \cup {"unknown", "timeout"}, RunGivesUp(r, how)
        PROVE  Accounted'
    <2>1. run[r] \in Run /\ run[r].status = "running" /\ UNCHANGED <<logVars, page>>
      BY <1>0, <1>4 DEF RunGivesUp, Generating
    <2>2. CASE how = "timeout"
      <3>1. PICK row \in Run : row = [run[r] EXCEPT !.status = "timeout"]  BY <2>1 DEF Run
      <3>2. run' = [run EXCEPT ![r] = row]  BY <1>4, <2>2, <3>1 DEF RunGivesUp
      <3>3. row.status = "timeout"  BY <2>1, <3>1 DEF Run
      <3> QED  BY <2>1, <3>2, <3>3, RunStepsAccount
    <2>3. CASE how # "timeout"
      <3>1. PICK mid \in Run : mid = [run[r] EXCEPT !.abort = how]  BY <2>1, <2>3 DEF Run
      <3>2. PICK row \in Run : row = [mid EXCEPT !.status = "failed"]  BY DEF Run
      <3>3. run' = [run EXCEPT ![r] = row]  BY <1>4, <2>3, <3>1, <3>2 DEF RunGivesUp
      <3>4. row.status = "failed"  BY <3>2 DEF Run
      <3> QED  BY <2>1, <3>3, <3>4, RunStepsAccount
    <2> QED  BY <2>2, <2>3
  <1>5. ASSUME NEW r \in Records, RunIsCleared(r) \/ RunEnds(r)
        PROVE  Accounted'
    <2>1. PICK row \in Run : row = [NoRun EXCEPT !.status = "cleared"]  BY NoRunIsRun
    <2>2. row.status = "cleared"  BY <2>1 DEF NoRun
    <2>3. run' = [run EXCEPT ![r] = row] /\ UNCHANGED <<logVars, page>>
      BY <1>5, <2>1 DEF RunIsCleared, RunEnds
    <2> QED  BY <2>2, <2>3, RunStepsAccount
  <1>6. ASSUME NEW r \in Records, RunNotesResult(r)
        PROVE  Accounted'
    <2>1. run[r] \in Run /\ run[r].status = "running" /\ UNCHANGED <<logVars, page>>
      BY <1>0, <1>6 DEF RunNotesResult, Generating
    <2>2. PICK keys \in SUBSET SnapshotKeys : keys = run[r].keys \cup {"publishResult"}
      BY <2>1 DEF Run, SnapshotKeys, PackageKeys
    <2>3. PICK row \in Run : row = [run[r] EXCEPT !.keys = keys]  BY <2>1 DEF Run
    <2>4. run' = [run EXCEPT ![r] = row] /\ row.status = "running"
      BY <1>6, <2>1, <2>2, <2>3 DEF RunNotesResult, Run
    <2> QED  BY <2>1, <2>4, RunStepsAccount
  <1>7. ASSUME NEW c \in Calls, NEW r \in Records, NEW s \in {"pending_approval", "draft", "failed"},
               RunInserts(c, r, s)
        PROVE  Accounted'
    BY <1>7, InsertAccounts
  <1>8. CASE Operate /\ UNCHANGED <<run, page>>  BY <1>8, LogStepsAccount
  <1>9. CASE ReadPage  BY <1>9, PageStepsAccount
  <1>10. CASE UNCHANGED lifeVars
    BY <1>10 DEF Accounted, ReadInOrder, RecordsAccounted, ApprovalsAccounted, lifeVars, logVars,
                 PendingApproval, Approved
  <1> QED  BY <1>1, <1>2, <1>3, <1>4, <1>5, <1>6, <1>7, <1>8, <1>9, <1>10 DEF LifeNext

LEMMA LifeStarts ==
  ASSUME LifeInit
  PROVE  Settled /\ Accounted
  <1>1. Settled  BY LogStartsSettled DEF LifeInit
  <1>2. run \in [Records -> Run]  BY NoRunIsRun DEF LifeInit
  <1>3. ReadInOrder /\ RecordsAccounted /\ ApprovalsAccounted /\ page \in Page
    BY NoPageAccounts DEF LifeInit, ReadInOrder, RecordsAccounted, ApprovalsAccounted
  <1> QED  BY <1>1, <1>2, <1>3 DEF Accounted

-----------------------------------------------------------------------------
(* What people are shown: of the stages' places, of the worst of several       *)
(* states, and of the stage a failure is entered at.                           *)
LEMMA StagePlaces ==
  /\ \A i \in 1..8 : StageKeys[i] \in Stages
  /\ \A k \in Stages : IndexOf(k) \in 1..8 /\ StageKeys[IndexOf(k)] = k
  /\ \A i \in 1..8 : IndexOf(StageKeys[i]) = i
  /\ "approval" \in Stages
  <1>1. \A i \in 1..8 : StageKeys[i] \in Stages  BY DEF Stages
  <1>2. \A k \in Stages : IndexOf(k) \in 1..8 /\ StageKeys[IndexOf(k)] = k
    <2> SUFFICES ASSUME NEW k \in Stages PROVE IndexOf(k) \in 1..8 /\ StageKeys[IndexOf(k)] = k
      OBVIOUS
    <2>1. \E i \in 1..8 : StageKeys[i] = k  BY DEF Stages
    <2> QED  BY <2>1 DEF IndexOf
  <1>3. \A i, j \in 1..8 : StageKeys[i] = StageKeys[j] => i = j
    <2> SUFFICES ASSUME NEW i \in 1..8, NEW j \in 1..8, i # j
                 PROVE  StageKeys[i] # StageKeys[j]
      OBVIOUS
    <2>1. /\ StageKeys[1] = "source" /\ StageKeys[2] = "content" /\ StageKeys[3] = "text_quality"
          /\ StageKeys[4] = "visual_plan" /\ StageKeys[5] = "image_review" /\ StageKeys[6] = "package"
          /\ StageKeys[7] = "approval" /\ StageKeys[8] = "dispatch"
      BY DEF StageKeys
    <2>2. i \in {1, 2, 3, 4, 5, 6, 7, 8} /\ j \in {1, 2, 3, 4, 5, 6, 7, 8}  OBVIOUS
    <2> QED  BY <2>1, <2>2
  <1>4. \A i \in 1..8 : IndexOf(StageKeys[i]) = i
    <2> SUFFICES ASSUME NEW i \in 1..8 PROVE IndexOf(StageKeys[i]) = i
      OBVIOUS
    <2>1. IndexOf(StageKeys[i]) \in 1..8 /\ StageKeys[IndexOf(StageKeys[i])] = StageKeys[i]  BY <1>1, <1>2
    <2> QED  BY <1>3, <2>1
  <1>5. "approval" \in Stages
    <2>1. StageKeys[7] = "approval"  BY DEF StageKeys
    <2> QED  BY <1>1, <2>1
  <1> QED  BY <1>1, <1>2, <1>4, <1>5

LEMMA WorstStates ==
  /\ AggregateState({"completed"}) = "completed"
  /\ AggregateState({"evidence_unavailable"}) = "evidence_unavailable"
  <1>1. /\ Len(Worst) = 6 /\ Worst[1] = "evidence_unavailable"
        /\ Worst[2] = "failed" /\ Worst[3] = "waiting_human" /\ Worst[4] = "retrying"
        /\ Worst[5] = "running" /\ Worst[6] = "partial"
    BY DEF Worst
  <1>2. \A i \in 1..6 : i \in {1, 2, 3, 4, 5, 6}  OBVIOUS
  <1>3. AggregateState({"completed"}) = "completed"
    <2>1. {i \in 1..Len(Worst) : Worst[i] \in {"completed"}} = {}  BY <1>1, <1>2
    <2> QED  BY <2>1 DEF AggregateState
  <1>4. AggregateState({"evidence_unavailable"}) = "evidence_unavailable"
    <2> DEFINE found == {i \in 1..Len(Worst) : Worst[i] \in {"evidence_unavailable"}}
    <2>1. found = {1}  BY <1>1, <1>2
    <2>2. (CHOOSE i \in found : \A j \in found : i <= j) = 1  BY <2>1
    <2>3. AggregateState({"evidence_unavailable"}) = Worst[CHOOSE i \in found : \A j \in found : i <= j]
      BY <2>1 DEF AggregateState
    <2> QED  BY <2>2, <2>3, <1>1
  <1> QED  BY <1>3, <1>4

(* The stage of approval stands alone in its group of the customer's app.      *)
LEMMA ApprovalAlone ==
  ASSUME NEW j
  PROVE  /\ "approval" \in DOMAIN Groups
         /\ ClientStages(j)["approval"] = Repaired("approval", AggregateState({j.stages["approval"]}), j)
  <1>1. "approval" \in DOMAIN Groups /\ Groups["approval"] = {"approval"}  BY DEF Groups
  <1>2. {j.stages[k] : k \in Groups["approval"]} = {j.stages["approval"]}  BY <1>1
  <1> QED  BY <1>1, <1>2 DEF ClientStages

(* The two entries of a record that waits for approval.                        *)
LEMMA JourneyOfWaiting ==
  ASSUME NEW d, NEW evidence, NEW inFlight \in BOOLEAN
  PROVE  LET j == RecordJourney("pending_approval", d, evidence, inFlight)
             approved == ApprovedForDispatch(d, evidence = "fresh" /\ inFlight)
         IN /\ j.status = IF approved THEN "dispatching" ELSE "waiting_approval"
            /\ j.dispatch = d.state
            /\ j.stages["approval"] =
                 IF d.state = "none" /\ evidence # "fresh" THEN "evidence_unavailable"
                 ELSE IF approved THEN "completed" ELSE "waiting_human"
  <1> DEFINE j == RecordJourney("pending_approval", d, evidence, inFlight)
             approved == ApprovedForDispatch(d, evidence = "fresh" /\ inFlight)
             two == ApprovalAndDispatch("pending_approval", approved, evidence # "fresh", d)
  <1>1. /\ j.status = IF approved THEN "dispatching" ELSE "waiting_approval"
        /\ j.dispatch = d.state
        /\ j.stages = PersistedStages("pending_approval", approved, evidence # "fresh", d)
    BY DEF RecordJourney
  <1>2. j.stages["approval"] = two[1]  BY <1>1, StagePlaces DEF PersistedStages
  <1>3. two[1] = IF d.state = "none" /\ evidence # "fresh" THEN "evidence_unavailable"
                 ELSE IF approved THEN "completed" ELSE "waiting_human"
    <2> HIDE DEF approved
    <2>1. CASE d.state = "none" /\ evidence # "fresh"  BY <2>1 DEF ApprovalAndDispatch
    <2>2. CASE ~(d.state = "none" /\ evidence # "fresh") /\ ~approved  BY <2>2 DEF ApprovalAndDispatch
    <2>3. CASE ~(d.state = "none" /\ evidence # "fresh") /\ approved /\ d.state = "pending_dispatch"
      BY <2>3 DEF ApprovalAndDispatch
    <2>4. CASE ~(d.state = "none" /\ evidence # "fresh") /\ approved /\ d.state # "pending_dispatch"
      BY <2>4 DEF ApprovalAndDispatch
    <2> QED  BY <2>1, <2>2, <2>3, <2>4
  <1> QED  BY <1>1, <1>2, <1>3

LEMMA ShownAsKnown ==
  ASSUME Accounted
  PROVE  ApprovedIsShown /\ AskedWhenKnown
  <1> USE DEF ShownWaiting
  <1>0. page \in Page /\ page.verdicts \in [Records -> Verdicts] /\ page.waiting \subseteq Records
    BY DEF Accounted, Page
  <1>1. ASSUME NEW r \in page.waiting, NEW evidence \in Evidence, NEW inFlight \in BOOLEAN,
               Shown, page.readable, r \in page.approved
        PROVE  /\ ShownWaiting(r, evidence, inFlight).status = "dispatching"
               /\ ClientStages(ShownWaiting(r, evidence, inFlight)).approval = "completed"
    <2> DEFINE d == DispatchOf(page.verdicts[r], page.readable)
               j == RecordJourney("pending_approval", d, evidence, inFlight)
    <2>0. "rulings" \in page.read  BY <1>1 DEF Shown, Reads
    <2>1. page.verdicts[r] \in {"pending_dispatch", "dispatching", "consumed"}
      BY <1>1, <2>0 DEF Accounted, ApprovalsAccounted
    <2>2. d.approved /\ d.state # "none" /\ d.state # "void"
      BY <1>1, <2>1 DEF DispatchOf
    <2>3. ApprovedForDispatch(d, evidence = "fresh" /\ inFlight)
      <3> HIDE DEF d
      <3> QED  BY <2>2 DEF ApprovedForDispatch
    <2>4. j.status = "dispatching" /\ j.stages["approval"] = "completed" /\ j.dispatch # "none"
      <3> DEFINE approved == ApprovedForDispatch(d, evidence = "fresh" /\ inFlight)
      <3>1. /\ j.status = IF approved THEN "dispatching" ELSE "waiting_approval"
            /\ j.dispatch = d.state
            /\ j.stages["approval"] =
                 IF d.state = "none" /\ evidence # "fresh" THEN "evidence_unavailable"
                 ELSE IF approved THEN "completed" ELSE "waiting_human"
        <4> HIDE DEF d
        <4> QED  BY JourneyOfWaiting
      <3>2. approved /\ d.state # "none"  BY <2>2, <2>3
      <3> HIDE DEF approved, d, j
      <3> QED  BY <3>1, <3>2
    <2>5. ClientStages(j)["approval"] = Repaired("approval", "completed", j)
      BY <2>4, ApprovalAlone, WorstStates
    <2> QED  BY <2>4, <2>5 DEF Repaired
  <1>2. ASSUME NEW r \in page.waiting, NEW evidence \in Evidence, NEW inFlight \in BOOLEAN, Shown,
               WaitsForCustomer(ShownWaiting(r, evidence, inFlight))
        PROVE  /\ page.readable => r \notin page.approved
               /\ ~page.readable \/ page.verdicts[r] = "none" => evidence = "fresh" /\ ~inFlight
    <2> DEFINE d == DispatchOf(page.verdicts[r], page.readable)
               j == RecordJourney("pending_approval", d, evidence, inFlight)
    <2>1. page.readable => r \notin page.approved  BY <1>1, <1>2 DEF WaitsForCustomer
    <2>2. ASSUME ~page.readable \/ page.verdicts[r] = "none"
          PROVE  evidence = "fresh" /\ ~inFlight
      <3>0. /\ j.status = IF ApprovedForDispatch(d, evidence = "fresh" /\ inFlight)
                            THEN "dispatching" ELSE "waiting_approval"
            /\ j.dispatch = d.state
            /\ d.state = "none" /\ evidence # "fresh" => j.stages["approval"] = "evidence_unavailable"
        <4> HIDE DEF d
        <4> QED  BY JourneyOfWaiting
      <3>1. d.state = "none"  BY <2>2 DEF DispatchOf, NoDispatch
      <3>2. ~(evidence = "fresh" /\ inFlight)
        <4>1. ~ApprovedForDispatch(d, evidence = "fresh" /\ inFlight)
          BY <1>2, <3>0 DEF WaitsForCustomer
        <4> QED  BY <3>1, <4>1 DEF ApprovedForDispatch
      <3>3. j.dispatch = "none"  BY <3>0, <3>1
      <3>4. ClientStages(j)["approval"] # "evidence_unavailable"
        BY <1>2, <3>3, ApprovalAlone DEF WaitsForCustomer
      <3>5. ASSUME evidence # "fresh"
            PROVE  FALSE
        <4>1. j.stages["approval"] = "evidence_unavailable"  BY <3>0, <3>1, <3>5
        <4>2. ClientStages(j)["approval"] = Repaired("approval", "evidence_unavailable", j)
          BY <4>1, ApprovalAlone, WorstStates
        <4> QED  BY <3>3, <3>4, <4>2 DEF Repaired
      <3> QED  BY <3>2, <3>5
    <2> QED  BY <2>1, <2>2
  <1>3. ApprovedIsShown  BY <1>1 DEF ApprovedIsShown
  <1>4. AskedWhenKnown  BY <1>2 DEF AskedWhenKnown
  <1> QED  BY <1>3, <1>4

(* A record that is neither a run nor waiting nor settled on the page waited   *)
(* when the recent ones were read, and no longer did when the waiting ones were. *)
LEMMA NothingIsMissing ==
  ASSUME Accounted
  PROVE  NothingMissing
  <1> SUFFICES ASSUME NEW r \in page.known, Shown, log[r].status # "none",
                      ~ShownAsRun(r), r \notin page.waiting, ~ShownAsRecent(r)
               PROVE  page.recent[r] = "waiting" /\ ~PendingApproval(r)
    BY DEF NothingMissing
  <1>1. r \in Records /\ page.recent[r] \in {"none", "waiting", "settled"}  BY DEF Accounted, Page
  <1>2. page.listed[r] = "none"  BY DEF ShownAsRun
  <1>3. {"queue", "pending", "recent"} \subseteq page.read  BY DEF Shown, Reads
  <1>4. page.recent[r] # "none"  BY <1>2, <1>3 DEF Accounted, RecordsAccounted
  <1>5. ~PendingApproval(r)  BY <1>2, <1>3 DEF Accounted, RecordsAccounted
  <1> QED  BY <1>1, <1>4, <1>5 DEF ShownAsRecent

(* Of the stages under way there is a first one.                               *)
LEMMA FirstStage ==
  ASSUME NEW S \in SUBSET (1..8), S # {}
  PROVE  \E i \in S : \A j \in S : i <= j
  <1>1. PICK i \in {1, 2, 3, 4, 5, 6, 7, 8} : i \in S /\ \A j \in {1, 2, 3, 4, 5, 6, 7, 8} : j < i => j \notin S
    <2>1. PICK k \in S : TRUE  OBVIOUS
    <2>2. k \in 1..8  OBVIOUS
    <2>3. k \in {1, 2, 3, 4, 5, 6, 7, 8}  BY <2>2
    <2> QED  BY <2>1, <2>3
  <1> QED  BY <1>1

LEMMA FailedKeyIsStage ==
  ASSUME NEW s, NEW stages
  PROVE  FailedKey(s, stages) \in Stages
  <1> DEFINE underWay == {i \in 1..8 : stages[StageKeys[i]] = "running"}
  <1>1. CASE s.abort \in Stages  BY <1>1 DEF FailedKey
  <1>2. CASE s.abort \notin Stages /\ underWay # {}
    <2>1. \E i \in underWay : \A j \in underWay : i <= j  BY <1>2, FirstStage
    <2>2. (CHOOSE i \in underWay : \A j \in underWay : i <= j) \in 1..8  BY <2>1
    <2>3. FailedKey(s, stages) = StageKeys[CHOOSE i \in underWay : \A j \in underWay : i <= j]
      BY <1>2 DEF FailedKey
    <2> QED  BY <2>2, <2>3, StagePlaces
  <1>3. CASE s.abort \notin Stages /\ underWay = {}
    <2>1. FailedKey(s, stages) = "package" /\ StageKeys[6] = "package"
      BY <1>3 DEF FailedKey, StageKeys
    <2> QED  BY <2>1, StagePlaces
  <1> QED  BY <1>1, <1>2, <1>3

(* Whatever a run has done, the one stage shown as failed is where its failure *)
(* was entered, and what comes behind it is done or pending.                   *)
LEMMA FailureIsTheEnd == FailureEndsRun
  <1> SUFFICES ASSUME NEW r \in Records, NEW a \in 1..8, NEW b \in 1..8, a < b,
                      StagesOfRun(run[r])[StageKeys[a]] = "failed"
               PROVE  StagesOfRun(run[r])[StageKeys[b]] \in {"pending", "completed"}
    BY DEF FailureEndsRun, RunJourney
  <1> DEFINE s == run[r]
             stages == RunStages(s)
             failed == FailedKey(s, stages)
  <1>0. StageKeys[a] \in Stages /\ StageKeys[b] \in Stages  BY StagePlaces
  <1>1. CASE Rejects(s)  BY <1>0, <1>1 DEF StagesOfRun
  <1>2. CASE ~Rejects(s) /\ HasFailed(s)
    <2>0. failed \in Stages  BY FailedKeyIsStage
    <2>1. \A k \in Stages : StagesOfRun(s)[k] =
            IF k = failed THEN "failed"
            ELSE IF IndexOf(k) > IndexOf(failed) /\ stages[k] # "completed" THEN "pending"
            ELSE stages[k]
      BY <1>2 DEF StagesOfRun, AfterFailure
    <2>2. \A k \in Stages : stages[k] # "failed"
      <3>1. \A k \in Stages : k \in {"source", "content", "text_quality", "visual_plan", "image_review",
                                     "package", "approval", "dispatch"}
        <4>1. /\ StageKeys[1] = "source" /\ StageKeys[2] = "content" /\ StageKeys[3] = "text_quality"
              /\ StageKeys[4] = "visual_plan" /\ StageKeys[5] = "image_review" /\ StageKeys[6] = "package"
              /\ StageKeys[7] = "approval" /\ StageKeys[8] = "dispatch"
          BY DEF StageKeys
        <4>2. \A i \in 1..8 : i \in {1, 2, 3, 4, 5, 6, 7, 8}  OBVIOUS
        <4> QED  BY <4>1, <4>2 DEF Stages
      <3> QED  BY <3>1 DEF RunStages
    <2>3. StageKeys[a] = failed  BY <1>0, <2>1, <2>2
    <2>4. IndexOf(StageKeys[b]) > IndexOf(failed) /\ StageKeys[b] # failed  BY <2>3, StagePlaces
    <2> QED  BY <1>0, <2>1, <2>4
  <1>3. CASE ~Rejects(s) /\ ~HasFailed(s)
    <2>1. StagesOfRun(s) = stages  BY <1>3 DEF StagesOfRun
    <2>2. stages[StageKeys[a]] # "failed"
      <3>1. StageKeys[a] \in {"source", "content", "text_quality", "visual_plan", "image_review",
                              "package", "approval", "dispatch"}
        <4>1. /\ StageKeys[1] = "source" /\ StageKeys[2] = "content" /\ StageKeys[3] = "text_quality"
              /\ StageKeys[4] = "visual_plan" /\ StageKeys[5] = "image_review" /\ StageKeys[6] = "package"
              /\ StageKeys[7] = "approval" /\ StageKeys[8] = "dispatch"
          BY DEF StageKeys
        <4>2. a \in {1, 2, 3, 4, 5, 6, 7, 8}  OBVIOUS
        <4> QED  BY <4>1, <4>2
      <3> QED  BY <3>1 DEF RunStages
    <2> QED  BY <2>1, <2>2
  <1> QED  BY <1>1, <1>2, <1>3

-----------------------------------------------------------------------------
(* The watchdog: whoever is in a sweep's list, or was alerted about, has been  *)
(* overdue without a reason at some time.                                      *)
Watched ==
  /\ DogTypeOK
  /\ AlertedWasStalled
  /\ \A q \in Approvals : stall[q] = "overdue" => q \in everStalled
  /\ \A s \in Sweeps : sweep[s].rows \subseteq everStalled

LEMMA DogKeepsWatched ==
  ASSUME Watched, [DogNext]_dogVars
  PROVE  Watched'
  <1> USE DEF Watched, AlertedWasStalled
  <1>0. \A s \in Sweeps : sweep[s] \in Sweep  BY DEF DogTypeOK
  <1>1. ASSUME NEW q \in Approvals, NEW how \in {"overdue", "explained", "gone"}, StallChanges(q, how)
        PROVE  Watched'
    BY <1>1 DEF DogTypeOK, StallChanges
  <1>2. ASSUME NEW s \in Sweeps, SweepLists(s)
        PROVE  Watched'
    <2>1. PICK w \in SUBSET Stale : sweep' = [sweep EXCEPT ![s] = [pc |-> "listed", rows |-> w]]
      BY <1>2 DEF SweepLists, Window
    <2>2. w \subseteq Approvals /\ w \subseteq everStalled  BY DEF Stale
    <2>3. [pc |-> "listed", rows |-> w] \in Sweep  BY <2>2 DEF Sweep
    <2> QED  BY <1>2, <2>1, <2>2, <2>3 DEF DogTypeOK, SweepLists
  <1>3. ASSUME NEW s \in Sweeps, ListingFails(s) \/ SweepEnds(s)
        PROVE  Watched'
    <2>1. NoSweep \in Sweep /\ NoSweep.rows = {} /\ NoSweep.pc = "idle"  BY DEF NoSweep, Sweep
    <2> QED  BY <1>3, <2>1 DEF DogTypeOK, ListingFails, SweepEnds
  <1>4. ASSUME NEW s \in Sweeps, SweepPrunes(s)
        PROVE  Watched'
    BY <1>0, <1>4 DEF DogTypeOK, SweepPrunes, Remembered, Sweep
  <1>5. ASSUME NEW s \in Sweeps, SweepAlerts(s)
        PROVE  Watched'
    <2>1. PICK q \in sweep[s].rows :
            /\ sweep[s].pc = "alerting"
            /\ sweep' = [sweep EXCEPT ![s].rows = @ \ {q}]
            /\ alerted' = alerted \cup {q}
            /\ raised' \in {raised, raised \cup {q}}
            /\ delivered' = delivered \/ (delivered' \subseteq delivered \cup {q} /\ raised' = raised \cup {q})
      BY <1>5 DEF SweepAlerts
    <2>2. UNCHANGED <<stall, everStalled>>  BY <1>5 DEF SweepAlerts
    <2>3. q \in Approvals /\ q \in everStalled  BY <1>0, <2>1 DEF Sweep
    <2> QED  BY <1>0, <2>1, <2>2, <2>3 DEF DogTypeOK, Sweep
  <1>6. CASE UNCHANGED dogVars  BY <1>6 DEF dogVars, DogTypeOK
  <1> QED  BY <1>1, <1>2, <1>3, <1>4, <1>5, <1>6 DEF DogNext

LEMMA DogStartsWatched ==
  ASSUME DogInit
  PROVE  Watched
  <1>1. NoSweep \in Sweep /\ NoSweep.rows = {} /\ NoSweep.pc = "idle"  BY DEF NoSweep, Sweep
  <1> QED  BY <1>1 DEF DogInit, Watched, DogTypeOK, AlertedWasStalled

-----------------------------------------------------------------------------
(* The record of a post, its run and the watchdog keep their types.            *)
THEOREM PublishingTypes == PublishingSpec => []PublishingTypeOK
  <1>1. Settled /\ [LifeNext]_lifeVars => Settled'  BY LifeStepsLog, LogKeepsSettled
  <1>2. LifeInit => Settled /\ Accounted  BY LifeStarts
  <1>3. Settled /\ Accounted /\ [LifeNext]_lifeVars => Accounted'  BY LifeKeepsAccounted
  <1>4. DogInit => Watched  BY DogStartsWatched
  <1>5. Watched /\ [DogNext]_dogVars => Watched'  BY DogKeepsWatched
  <1>6. Settled /\ Accounted /\ Watched => PublishingTypeOK
    BY DEF Settled, Accounted, Watched, PublishingTypeOK, LifeTypeOK
  <1> QED  BY <1>1, <1>2, <1>3, <1>4, <1>5, <1>6, PTL DEF PublishingSpec, LifeSpec, DogSpec

(* Whatever runs, records and decisions do between the reads of a page: a draft *)
(* that was approved when it was listed is not shown as waiting while decisions *)
(* can be read, the customer is asked only about what was undecided, no post   *)
(* known before is missing, nothing is under way behind a failure; and no alarm *)
(* is without a reason (viewForAccount of server.ts, publish-stage-lifecycle.ts, *)
(* client-publish-queue.ts, pending-dispatch-watchdog.ts).                     *)
THEOREM PeopleAreToldTruly == PublishingSpec => []PeopleAreTold
  <1>1. Settled /\ [LifeNext]_lifeVars => Settled'  BY LifeStepsLog, LogKeepsSettled
  <1>2. LifeInit => Settled /\ Accounted  BY LifeStarts
  <1>3. Settled /\ Accounted /\ [LifeNext]_lifeVars => Accounted'  BY LifeKeepsAccounted
  <1>4. DogInit => Watched  BY DogStartsWatched
  <1>5. Watched /\ [DogNext]_dogVars => Watched'  BY DogKeepsWatched
  <1>6. Accounted /\ Watched => PeopleAreTold
    BY ShownAsKnown, NothingIsMissing, FailureIsTheEnd DEF Watched, PeopleAreTold
  <1> QED  BY <1>1, <1>2, <1>3, <1>4, <1>5, <1>6, PTL DEF PublishingSpec, LifeSpec, DogSpec
===============================================================================
