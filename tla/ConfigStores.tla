---------------------------- MODULE ConfigStores ----------------------------
(***************************************************************************)
(* The configuration stores of the API: one row of one table, a copy of it *)
(* in every process, writes that check, await, merge a patch with the copy *)
(* and upsert the whole row, and the rounds of the refresher that load the *)
(* copy anew when the table's version has moved. The stores differ in what *)
(* they check, in where the patch is merged, in whether a reader of this   *)
(* service is registered with the refresher.                               *)
(***************************************************************************)
EXTENDS Naturals, Sequences

CONSTANTS
    Stores,        \* the kinds of table, a subset of AllStores
    Processes,     \* the API processes at one database
    Writers,       \* the requests that write, each at one process
    HomeOf,        \* the process of each writer
    Values,        \* what a field may hold
    NoValue,       \* null
    Patches,       \* what requests ask for
    MaxWrites      \* bounds the version

AllStores == {"schedule", "role", "category", "hot_lead", "model", "comment",
              "group_join", "rule_mode", "group_comment", "persona"}

ASSUME StoresAssumption ==
    /\ Stores \subseteq AllStores
    /\ HomeOf \in [Writers -> Processes]
    /\ NoValue \notin Values
    /\ MaxWrites \in Nat

VARIABLES
    store,         \* which table it is
    row,           \* the row, or NoRow
    version,       \* config_mirror_version of its key
    copy,          \* each process's copy of the row
    known,         \* the version each refresher has recorded, and the first of them
    round,         \* the refresher's round: the version read, then the row read
    writer,        \* the requests
    patched,       \* every patch that was merged, and every row that was committed
    audit          \* the revisions of the group comment policy, in the order written
storeVars == <<store, row, version, copy, known, round, writer, patched, audit>>

\* A row has a value, the provider that goes with it, and a flag; most tables
\* use the value and the flag. The group comment policy counts revisions.
Held == Values \cup {NoValue}
Row == [value : Held, provider : Held, flag : Held, revision : 0..MaxWrites]
NoRow == [value |-> NoValue, provider |-> NoValue, flag |-> NoValue, revision |-> 0]

\* A patch names the fields it carries; a field may be carried as null.
Fields == {"value", "flag"}
Patch == [carries : SUBSET Fields, value : Held, flag : Held, provider : Held,
          expected : 0..MaxWrites]

ASSUME PatchesAssumption == Patches \subseteq Patch

Merged == {"schedule", "role", "category", "hot_lead", "model", "comment"}
MergedInTable == {"group_join", "rule_mode", "persona"}
Reloaded == {"schedule", "group_comment"}     \* those with a reloader in server.ts

-----------------------------------------------------------------------------
(* What the stores make of a patch and the row they hold a copy of.        *)

Given(p, f, prev) == IF f \in p.carries THEN p[f] ELSE prev[f]

\* A field carried as null keeps the earlier value: patch.x ?? prev.x.
GivenOrKept(p, f, prev) == IF f \in p.carries /\ p[f] # NoValue THEN p[f] ELSE prev[f]

\* The schedule of an account: modes and caps keep their value, masks may be cleared.
ScheduleNext(p, prev) ==
    [prev EXCEPT !.value = GivenOrKept(p, "value", prev), !.flag = Given(p, "flag", prev)]

\* The model of a role or category: the provider goes with the model it was
\* given with, and goes when the model is cleared.
ProviderKept(p, prev) ==
    IF p.value = NoValue THEN NoValue ELSE IF prev.provider # NoValue THEN prev.provider ELSE p.provider
ProviderWith(p, prev) == IF p.value = NoValue THEN NoValue ELSE p.provider
RoleNext(p, prev) ==
    [prev EXCEPT !.value = Given(p, "value", prev),
                 !.provider = IF "value" \in p.carries THEN ProviderWith(p, prev) ELSE @,
                 !.flag = Given(p, "flag", prev)]
CategoryNext(p, prev) == RoleNext(p, prev)

\* The thresholds and the global models: what is empty keeps its value.
HotLeadNext(p, prev) ==
    [prev EXCEPT !.value = GivenOrKept(p, "value", prev), !.flag = GivenOrKept(p, "flag", prev)]
ModelNext(p, prev) ==
    [prev EXCEPT !.value = GivenOrKept(p, "value", prev), !.flag = GivenOrKept(p, "flag", prev),
                 !.provider = IF "value" \in p.carries THEN p.provider ELSE @]
\* Comments: lists are replaced, and a mode that was given counts as configured.
CommentNext(p, prev) ==
    [prev EXCEPT !.value = GivenOrKept(p, "value", prev), !.flag = GivenOrKept(p, "flag", prev)]

NextRow(p, prev) ==
    CASE store = "schedule" -> ScheduleNext(p, prev)
      [] store = "role" -> RoleNext(p, prev)
      [] store = "category" -> CategoryNext(p, prev)
      [] store = "hot_lead" -> HotLeadNext(p, prev)
      [] store = "model" -> ModelNext(p, prev)
      [] store = "comment" -> CommentNext(p, prev)
      [] OTHER -> prev

-----------------------------------------------------------------------------
(* Writes.                                                                 *)

IdleWriter == [at |-> "idle", patch |-> [carries |-> {}, value |-> NoValue, flag |-> NoValue,
                                         provider |-> NoValue, expected |-> 0],
               next |-> NoRow]
Place(w, at) == writer' = [writer EXCEPT ![w].at = at]

\* A patch that is invalid in itself never gets here. The account, the platform,
\* the contact or the model are asked for behind an await.
Request(w, p) ==
    /\ writer[w].at = "idle"
    /\ writer' = [writer EXCEPT ![w] = [@ EXCEPT !.at = "checking", !.patch = p]]
    /\ UNCHANGED <<store, row, version, copy, known, round, patched, audit>>
Refused(w) ==
    /\ writer[w].at = "checking"
    /\ Place(w, "done")
    /\ UNCHANGED <<store, row, version, copy, known, round, patched, audit>>

\* The patch is merged with the copy this process holds now.
Merge(w) ==
    /\ store \in Merged
    /\ writer[w].at = "checking"
    /\ writer' = [writer EXCEPT ![w].at = "writing",
                                ![w].next = NextRow(writer[w].patch, copy[HomeOf[w]])]
    /\ UNCHANGED <<store, row, version, copy, known, round, patched, audit>>

\* Joining groups, rule mode and persona: the statement itself says what changes.
Checked(w) ==
    /\ store \in MergedInTable
    /\ writer[w].at = "checking"
    /\ Place(w, "writing")
    /\ UNCHANGED <<store, row, version, copy, known, round, patched, audit>>

\* writeWithMirrorBump: the row and the version of its key are one transaction.
Commit(w, next) ==
    /\ version < MaxWrites
    /\ row' = next
    /\ version' = version + 1
    /\ patched' = [patches |-> patched.patches \cup {writer[w].patch}, rows |-> Append(patched.rows, next)]
    /\ writer' = [writer EXCEPT ![w].at = "answered", ![w].next = next]
    /\ UNCHANGED <<store, copy, known, round>>

Upsert(w) ==
    /\ store \in Merged
    /\ writer[w].at = "writing"
    /\ Commit(w, writer[w].next)
    /\ UNCHANGED audit

\* CASE WHEN $6 THEN EXCLUDED ... ELSE the row's own: the merge is the database's.
GroupJoinWhole(p) == [row EXCEPT !.value = p.value, !.flag = p.flag]
GroupJoinRow(p) == [row EXCEPT !.value = Given(p, "value", row), !.flag = Given(p, "flag", row)]
RuleModeRow(p) == [row EXCEPT !.value = IF p.value = NoValue THEN @ ELSE p.value]
UpsertInTable(w) ==
    /\ store \in {"group_join", "rule_mode"}
    /\ writer[w].at = "writing"
    /\ LET p == writer[w].patch
       IN Commit(w, IF store = "group_join" THEN GroupJoinRow(p) ELSE RuleModeRow(p))
    /\ UNCHANGED audit

\* The persona: written, written only where there is none, or cleared.
PersonaSet(w) ==
    /\ store = "persona"
    /\ writer[w].at = "writing"
    /\ writer[w].patch.carries = {"value"}
    /\ writer[w].patch.value # NoValue
    /\ Commit(w, [NoRow EXCEPT !.value = writer[w].patch.value])
    /\ UNCHANGED audit
MissingInCopy(w) == copy[HomeOf[w]] = NoRow
Missing(w) == row = NoRow
PersonaSetIfMissing(w) ==
    /\ store = "persona"
    /\ writer[w].at = "writing"
    /\ writer[w].patch.carries = Fields
    /\ writer[w].patch.value # NoValue
    /\ IF Missing(w)
       THEN /\ Commit(w, [NoRow EXCEPT !.value = writer[w].patch.value])
            /\ audit' = Append(audit, row)
       ELSE /\ Place(w, "done")
            /\ UNCHANGED <<store, row, version, copy, known, round, patched, audit>>
PersonaClear(w) ==
    /\ store = "persona"
    /\ writer[w].at = "writing"
    /\ writer[w].patch.carries = {"flag"}
    /\ Commit(w, NoRow)
    /\ UNCHANGED audit

\* The group comment policy: the row is locked, and a request that was made
\* against an older revision is refused and shown the current one.
Anyhow(w) == TRUE
Expected(w) == writer[w].patch.expected = row.revision
GroupCommentWrite(w) ==
    /\ store = "group_comment"
    /\ writer[w].at = "checking"
    /\ Expected(w)
    /\ Commit(w, [row EXCEPT !.value = writer[w].patch.value, !.revision = @ + 1])
    /\ audit' = Append(audit, writer[w].patch.expected)
GroupCommentConflict(w) ==
    /\ store = "group_comment"
    /\ writer[w].at = "checking"
    /\ ~Expected(w)
    /\ writer' = [writer EXCEPT ![w].at = "conflict", ![w].next = row]
    /\ UNCHANGED <<store, row, version, copy, known, round, patched, audit>>

CopiedAhead(w) ==
    /\ writer[w].at \in {"checking", "writing"}
    /\ writer' = [writer EXCEPT ![w] = IdleWriter, ![w].at = "failed"]
    /\ copy' = [copy EXCEPT ![HomeOf[w]] = writer[w].next]
    /\ UNCHANGED <<store, row, version, known, round, patched, audit>>
\* The statement fails: the transaction is rolled back and the request throws.
WriteFails(w) ==
    /\ writer[w].at \in {"checking", "writing"}
    /\ writer' = [writer EXCEPT ![w] = IdleWriter, ![w].at = "failed"]
    /\ UNCHANGED <<store, row, version, copy, known, round, patched, audit>>

\* The answer arrives: the copy of this process becomes the row it returned.
Answered(w) ==
    /\ writer[w].at \in {"answered", "conflict"}
    /\ copy' = [copy EXCEPT ![HomeOf[w]] = writer[w].next]
    /\ Place(w, "done")
    /\ UNCHANGED <<store, row, version, known, round, patched, audit>>

-----------------------------------------------------------------------------
(* The refresher of each process, seen from one store.                     *)

IdleRound == [at |-> "idle", read |-> 0, rows |-> NoRow]

\* init() loads the copy; start() reads the versions later and takes them over.
TakesVersionOver(p) ==
    /\ round[p].at = "loaded"
    /\ known' = [known EXCEPT ![p] = [now |-> version, first |-> version]]
    /\ round' = [round EXCEPT ![p] = IdleRound]
    /\ UNCHANGED <<store, row, version, copy, writer, patched, audit>>
ReadVersion(p) ==
    /\ round[p].at = "idle"
    /\ version # known[p].now
    /\ IF store \in Reloaded
       THEN /\ round' = [round EXCEPT ![p] = [IdleRound EXCEPT !.at = "reloading", !.read = version]]
            /\ UNCHANGED known
       ELSE /\ known' = [known EXCEPT ![p].now = version]
            /\ UNCHANGED round
    /\ UNCHANGED <<store, row, version, copy, writer, patched, audit>>

\* refreshFromAuthority: the table is read, the answer replaces the copy.
ReadRows(p) ==
    /\ round[p].at = "reloading"
    /\ round' = [round EXCEPT ![p].at = "read", ![p].rows = row]
    /\ UNCHANGED <<store, row, version, copy, known, writer, patched, audit>>
\* Faulty variant: the version after the one that was read is recorded.
TakesNextVersion(p) ==
    /\ round[p].at = "read"
    /\ copy' = [copy EXCEPT ![p] = round[p].rows]
    /\ known' = [known EXCEPT ![p].now = round[p].read + 1]
    /\ round' = [round EXCEPT ![p] = IdleRound]
    /\ UNCHANGED <<store, row, version, writer, patched, audit>>
TakeRows(p) ==
    /\ round[p].at = "read"
    /\ copy' = [copy EXCEPT ![p] = round[p].rows]
    /\ known' = [known EXCEPT ![p].now = round[p].read]
    /\ round' = [round EXCEPT ![p] = IdleRound]
    /\ UNCHANGED <<store, row, version, writer, patched, audit>>
RecordedAsLoaded(p) ==
    /\ round[p].at \in {"reloading", "read"}
    /\ known' = [known EXCEPT ![p].now = round[p].read]
    /\ round' = [round EXCEPT ![p] = IdleRound]
    /\ UNCHANGED <<store, row, version, copy, writer, patched, audit>>
ReloadFails(p) ==
    /\ round[p].at \in {"reloading", "read"}
    /\ round' = [round EXCEPT ![p] = IdleRound]
    /\ UNCHANGED <<store, row, version, copy, known, writer, patched, audit>>

\* A process starts again: its copy is loaded, its requests are gone.
Restart(p) ==
    /\ copy' = [copy EXCEPT ![p] = row]
    /\ round' = [round EXCEPT ![p] = [IdleRound EXCEPT !.at = "loaded"]]
    /\ writer' = [w \in Writers |-> IF HomeOf[w] = p THEN [IdleWriter EXCEPT !.at = "failed"] ELSE writer[w]]
    /\ known' = [known EXCEPT ![p] = [now |-> 0, first |-> 0]]
    /\ UNCHANGED <<store, row, version, patched, audit>>

-----------------------------------------------------------------------------
StoreInit ==
    /\ store \in Stores
    /\ row = NoRow
    /\ version = 0
    /\ copy = [p \in Processes |-> NoRow]
    /\ known = [p \in Processes |-> [now |-> 0, first |-> 0]]
    /\ round = [p \in Processes |-> [IdleRound EXCEPT !.at = "loaded"]]
    /\ writer = [w \in Writers |-> IdleWriter]
    /\ patched = [patches |-> {}, rows |-> <<NoRow>>]
    /\ audit = <<>>

Writing(w) ==
    \/ Refused(w) \/ Merge(w) \/ Checked(w) \/ Upsert(w) \/ UpsertInTable(w)
    \/ PersonaSet(w) \/ PersonaSetIfMissing(w) \/ PersonaClear(w)
    \/ GroupCommentWrite(w) \/ GroupCommentConflict(w) \/ WriteFails(w) \/ Answered(w)
    \/ \E p \in Patches : Request(w, p)
Refreshing(p) ==
    TakesVersionOver(p) \/ ReadVersion(p) \/ ReadRows(p) \/ TakeRows(p) \/ ReloadFails(p)
StoreNext ==
    \/ \E w \in Writers : Writing(w)
    \/ \E p \in Processes : Refreshing(p) \/ Restart(p)
StoreSpec == StoreInit /\ [][StoreNext]_storeVars

-----------------------------------------------------------------------------
(* Properties.                                                             *)

\* The shape of the rows, the copies and the requests.
StoreTypeOK ==
    /\ row \in Row
    /\ \A p \in Processes : copy[p] \in Row /\ known[p].now \in 0..version
    /\ \A w \in Writers : writer[w].at \in {"idle", "checking", "writing", "answered", "conflict",
                                            "done", "failed"}

\* "written first, copied after" (role-config-store.ts:155, persona-store.ts:188):
\* whatever fails, is restarted or arrives late, no process ever shows a row
\* that was not committed.
CopyWasCommitted == \A p \in Processes : \E v \in 0..version : copy[p] = patched.rows[v + 1]

\* set (role-config-store.ts:176, category-config-store.ts:160): a provider
\* stands only beside the model it was given with, although every write
\* rewrites the whole row from a copy that may be old.
ProviderBesideItsModel ==
    store \in {"role", "category"} =>
        \/ row.value = NoValue /\ row.provider = NoValue
        \/ \E p \in patched.patches : row.value = p.value /\ row.provider = p.provider

\* write (facebook-group-comment-policy-store.ts:215): each write that succeeds
\* was made by somebody who had seen the one before it.
RevisionsInARow ==
    store = "group_comment" =>
        /\ Len(audit) = row.revision
        /\ \A n \in DOMAIN audit : audit[n] = n - 1

\* setIfMissing (persona-store.ts:221): filling in never replaces a persona that
\* somebody else wrote, also where this process does not know of it yet.
PersonaNotReplaced ==
    store = "persona" => \A n \in DOMAIN audit : audit[n] = NoRow

\* setAccount (facebook-group-join-automation-store.ts:210): a field that the
\* request does not carry keeps what the row holds.
CommitsOf(w) == writer[w].at = "writing" /\ writer'[w].at = "answered"
JoinPatchIsPartial ==
    [][\A w \in Writers : (store = "group_join" /\ CommitsOf(w))
          => \A f \in Fields \ writer[w].patch.carries : row'[f] = row[f]]_storeVars

\* runOnce (mirror-refresher.ts:244): a process that only reads holds the row
\* of the version its refresher has recorded, or of a later one, once a round
\* has found a write.
ReaderHoldsRecorded ==
    \A p \in Processes \ {HomeOf[w] : w \in Writers} :
        (store \in Reloaded /\ known[p].now # known[p].first)
            => \E v \in known[p].now..version : copy[p] = patched.rows[v + 1]
=============================================================================
