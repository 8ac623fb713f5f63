----------------------------- MODULE ReplyConfig -----------------------------
(***************************************************************************)
(* The reply configuration of groups of accounts                           *)
(* (reply-config-scope-store.ts, reply-config-resolver.ts,                 *)
(* interaction-scope-internal-api.ts).                                     *)
(*                                                                         *)
(* A scope, one per group label and one for accounts without a label, has  *)
(* a head and numbered versions.  Saving copies the newest version, edits  *)
(* the copy and names it the draft, in one transaction that locks the head *)
(* and compares the version the editor saw.  Publishing checks the draft   *)
(* before its transaction, and copies the checked version to a published   *)
(* one in it.  What an account replies with is found in three reads:       *)
(* the account's label, the scope's head, the version the head names; a    *)
(* reply job keeps the scope and version it was made from.                 *)
(*                                                                         *)
(* Left out: who may edit or publish (a check at the door), the audit row  *)
(* each transaction adds, the account-level store that answers 410 to      *)
(* everyone, and what a template says: a version is the set of its items.  *)
(***************************************************************************)
EXTENDS Integers, FiniteSets

CONSTANTS
  Members,       \* accounts
  Groups,        \* group labels
  Default,       \* the source of accounts without a label
  Items,         \* templates and rules
  Faulty,        \* items that validateReplyConfig refuses
  Editors,       \* requests of the console
  Readers,       \* resolutions under way
  Nothing,       \* no scope, no version
  MaxConfig      \* bound on a scope's version

VARIABLES
  label,         \* accounts.group_label
  scopes,        \* source -> interaction_reply_config_scopes
  versionOf,     \* source -> version -> interaction_reply_scope_versions
  edit,          \* what each console request is doing
  reading,       \* what each resolution has read
  resolved       \* history: the configurations resolutions answered

replyVars == <<label, scopes, versionOf, edit, reading, resolved>>

Sources == Groups \cup {Default}
Versions == 1..MaxConfig
NoEdit == [at |-> "idle"]
Named == Versions \cup {Nothing}
Heads == [current : 0..MaxConfig, draft : Named, published : Named]
Contents == [state : {"draft", "published"}, items : SUBSET Items]

ASSUME ReplyAssumption ==
  Faulty \subseteq Items /\ MaxConfig \in Nat /\ Nothing \notin Versions \cup Heads \cup Contents

ReplyTypeOK ==
  /\ label \in [Members -> Groups \cup {Nothing}]
  /\ scopes \in [Sources -> Heads \cup {Nothing}]
  /\ versionOf \in [Sources -> [Versions -> Contents \cup {Nothing}]]
  /\ \A r \in Editors :
       edit[r] = NoEdit \/ (edit[r].at \in {"save", "publish", "checked"} /\ edit[r].source \in Sources
                            /\ edit[r].expected \in 0..MaxConfig /\ edit[r].item \in Items
                            /\ edit[r].version \in Named)
  /\ \A q \in Readers :
       reading[q] = NoEdit \/ (reading[q].member \in Members /\ reading[q].source \in Sources
                               /\ reading[q].version \in Named)
  /\ resolved \subseteq [member : Members, source : Sources, version : Versions]

ReplyInit ==
  /\ label \in [Members -> Groups \cup {Nothing}]
  /\ scopes = [s \in Sources |-> Nothing]
  /\ versionOf = [s \in Sources |-> [v \in Versions |-> Nothing]]
  /\ edit = [r \in Editors |-> NoEdit] /\ reading = [q \in Readers |-> NoEdit]
  /\ resolved = {}

SourceOf(m) == IF label[m] = Nothing THEN Default ELSE label[m]

-----------------------------------------------------------------------------
(* The console.                                                             *)

(* ensureScope: the insertion does nothing where the scope exists.           *)
EnsureScope(s) ==
  /\ scopes[s] = Nothing
  /\ scopes' = [scopes EXCEPT ![s] = [current |-> 0, draft |-> Nothing, published |-> Nothing]]
  /\ UNCHANGED <<label, versionOf, edit, reading, resolved>>

(* The console's routes: any version the editor was ever shown.             *)
AskEdit(r) ==
  /\ edit[r] = NoEdit
  /\ \E s \in Sources, at \in {"save", "publish"}, i \in Items :
       /\ scopes[s] # Nothing
       /\ \E seen \in 0..scopes[s].current :
            edit' = [edit EXCEPT ![r] = [at |-> at, source |-> s, expected |-> seen,
                                         item |-> i, version |-> Nothing]]
  /\ UNCHANGED <<label, scopes, versionOf, reading, resolved>>

Answered(r) == edit' = [edit EXCEPT ![r] = NoEdit]

BaseIsPublished(h) == IF h.published = Nothing THEN h.draft ELSE h.published
Base(h) == IF h.draft = Nothing THEN h.published ELSE h.draft
ItemsAt(s, v) == IF v = Nothing THEN {} ELSE versionOf[s][v].items

(* saveTemplate, saveRule and savePolicy put an item in, archiveTemplate    *)
(* and deleteRule take one out: either way the item's presence changes.     *)
Edited(items, i) == IF i \in items THEN items \ {i} ELSE items \cup {i}

NextVersionInPlace(h) == IF h.draft = Nothing THEN h.current + 1 ELSE h.draft
NextVersion(h) == h.current + 1

(* mutate: one transaction under the head's lock.                           *)
SaveDraft(r) ==
  LET s == edit[r].source
      h == scopes[s]
      v == NextVersion(h)
  IN /\ edit[r].at = "save"
     /\ IF h.current = edit[r].expected
        THEN /\ v \in Versions
             /\ versionOf' = [versionOf EXCEPT ![s][v] =
                  [state |-> "draft", items |-> Edited(ItemsAt(s, Base(h)), edit[r].item)]]
             /\ scopes' = [scopes EXCEPT ![s].current = v, ![s].draft = v]
        ELSE UNCHANGED <<versionOf, scopes>>
     /\ Answered(r)
     /\ UNCHANGED <<label, reading, resolved>>

(* publish: the draft is read and checked outside of the transaction.       *)
CheckDraft(r) ==
  LET s == edit[r].source
      d == scopes[s].draft
  IN /\ edit[r].at = "publish"
     /\ IF d # Nothing /\ ItemsAt(s, d) \cap Faulty = {}
        THEN edit' = [edit EXCEPT ![r].at = "checked", ![r].version = d]
        ELSE Answered(r)
     /\ UNCHANGED <<label, scopes, versionOf, reading, resolved>>

StillDraftUnread(r, h) == h.draft # Nothing
StillDraft(r, h) == h.current = edit[r].expected /\ h.draft = edit[r].version

Publish(r) ==
  LET s == edit[r].source
      h == scopes[s]
      v == h.current + 1
  IN /\ edit[r].at = "checked"
     /\ IF StillDraft(r, h)
        THEN /\ v \in Versions
             /\ versionOf' = [versionOf EXCEPT ![s][v] =
                  [state |-> "published", items |-> ItemsAt(s, edit[r].version)]]
             /\ scopes' = [scopes EXCEPT ![s] = [current |-> v, draft |-> Nothing, published |-> v]]
        ELSE UNCHANGED <<versionOf, scopes>>
     /\ Answered(r)
     /\ UNCHANGED <<label, reading, resolved>>

(* An account moves to another group (account-store.ts, setGroupLabel).     *)
MoveMember(m) ==
  /\ \E g \in Groups \cup {Nothing} : label' = [label EXCEPT ![m] = g]
  /\ UNCHANGED <<scopes, versionOf, edit, reading, resolved>>

-----------------------------------------------------------------------------
(* Resolution.                                                              *)

ReadSource(q) ==
  /\ reading[q] = NoEdit
  /\ \E m \in Members :
       reading' = [reading EXCEPT ![q] = [at |-> "head", member |-> m, source |-> SourceOf(m), version |-> Nothing]]
  /\ UNCHANGED <<label, scopes, versionOf, edit, resolved>>

InForceNewest(h) == IF h.draft = Nothing THEN h.published ELSE h.draft
InForce(h) == h.published

(* getScopeBySource; without a published version nothing is resolved.       *)
ReadHead(q) ==
  LET h == scopes[reading[q].source] IN
  /\ reading[q] # NoEdit /\ reading[q].at = "head"
  /\ reading' = [reading EXCEPT ![q] =
       IF h = Nothing \/ InForce(h) = Nothing THEN NoEdit ELSE [@ EXCEPT !.at = "snapshot", !.version = InForce(h)]]
  /\ UNCHANGED <<label, scopes, versionOf, edit, resolved>>

(* getSnapshot at the version the head named.                               *)
ReadVersion(q) ==
  /\ reading[q] # NoEdit /\ reading[q].at = "snapshot"
  /\ resolved' = resolved \cup
       {[member |-> reading[q].member, source |-> reading[q].source, version |-> reading[q].version]}
  /\ reading' = [reading EXCEPT ![q] = NoEdit]
  /\ UNCHANGED <<label, scopes, versionOf, edit>>

-----------------------------------------------------------------------------
ReplyNext ==
  \/ \E s \in Sources : EnsureScope(s)
  \/ \E r \in Editors : AskEdit(r) \/ SaveDraft(r) \/ CheckDraft(r) \/ Publish(r)
  \/ \E m \in Members : MoveMember(m)
  \/ \E q \in Readers : ReadSource(q) \/ ReadHead(q) \/ ReadVersion(q)
ReplySpec == ReplyInit /\ [][ReplyNext]_replyVars

-----------------------------------------------------------------------------
(* What an account replies with was published, and so was checked: no       *)
(* interleaving of saving, publishing and resolving lets a draft, or a      *)
(* version with an item validateReplyConfig refuses, reach an account.      *)
ResolvedWasChecked ==
  \A a \in resolved :
    LET v == versionOf[a.source][a.version]
    IN v # Nothing /\ v.state = "published" /\ v.items \cap Faulty = {}

(* A version, once written, stays: a reply job that names one finds what it *)
(* was made from (getSnapshotForJob).                                       *)
VersionsStay ==
  [][\A s \in Sources, v \in Versions :
       versionOf[s][v] # Nothing => versionOf'[s][v] = versionOf[s][v]]_replyVars

(* No edit is lost: each version is the one before it with the one change   *)
(* its editor asked for, or, when it is published, with none, and the head  *)
(* names the newest.                                                        *)
EditsAddUp ==
  \A s \in Sources : scopes[s] # Nothing =>
    /\ \A v \in 1..scopes[s].current :
         LET before == IF v = 1 THEN {} ELSE versionOf[s][v - 1].items
             changed == (before \ versionOf[s][v].items) \cup (versionOf[s][v].items \ before)
         IN Cardinality(changed) = IF versionOf[s][v].state = "published" THEN 0 ELSE 1
    /\ scopes[s].current = 0 \/ scopes[s].current = Base(scopes[s])
=============================================================================
