------------------------------- MODULE ConsoleApi -------------------------------
(***************************************************************************)
(* The operators' HTTP server (panel-server.ts): the check of the token,   *)
(* the doors to configuration, accounts, customers and commands, and what  *)
(* an operator is told.                                                    *)
(*                                                                         *)
(* An operator loads a page and saves it later, while others save theirs.  *)
(* What a save does to the fields the operator did not touch depends on    *)
(* the door: a door with a revision takes the page whole but only at the   *)
(* revision it was loaded at; a door of fields takes those that were sent, *)
(* in one statement, or merges them with a copy first and writes the whole *)
(* row; a door that replaces takes the page whole whatever is there now.   *)
(* Doors to what another process keeps can lose the answer to a write.     *)
(*                                                                         *)
(* A door is a record, and doors of one form are one door here; doors of   *)
(* one form save to one page.  The shape of requests, of their answers and *)
(* of what is read are left out; the decisions on publications and the     *)
(* edit of a draft are in DraftApproval.                                   *)
(***************************************************************************)
EXTENDS Integers, FiniteSets

CONSTANTS
  Visits,        \* requests of operators, each once
  Fields,        \* of a page
  Known0, Ghosts,\* accounts listed from the start, names that are no account
  Cards,         \* sessions of operators (tokens)
  Unset,         \* no value
  MaxSaved

ASSUME ConsoleAssumption == MaxSaved \in Nat

Subjects == Known0 \cup Ghosts

VARIABLES
  page,          \* what is saved: [revision, content] for each form
  visit,         \* what each request is doing
  card,          \* tokens in force
  torn,          \* tokens revoked, in memory
  touched,       \* accounts that have a row of commands or of risk
  left,          \* clean-ups committed whose service was not told yet
  accepted       \* risk commands and tasks the other service has taken

consoleVars == <<page, visit, card, torn, touched, left, accepted>>

-----------------------------------------------------------------------------
(* The doors. *)

Door(form) == [form |-> form, listed |-> FALSE]
Get == Door("read")
PutFields == Door("fields")
PutMerged == Door("merged")
PutAtRevision == Door("revision")
Replace == Door("replace")
Submit == Door("submit")                                 \* to another process
OfListed(door) == [door EXCEPT !.listed = TRUE]

Refresh1 == Door("refresh")
Logout1 == Door("logout")
TasksGet == Get
TaskDraft == Submit
TaskStep == PutAtRevision
EnvironmentsGet == Get
SlowStartPut == PutFields
RuleModePut == PutFields
CommentApprovalPut == PutFields
GlobalPolicyGet == Get
GlobalPolicyPut == PutAtRevision
EnvironmentPolicyGet == Get
EnvironmentPolicyPut == PutAtRevision
GroupCommentPolicyPut == PutAtRevision
CustomersGet == Get
CustomerCreate == Submit
CustomerPatch == Door("customer")
CustomerScopePut == Door("customer")
CustomerKeyRotate == Replace
DashboardGet == Get
GroupsGet == Get
GroupTemplatesPut == Submit
GroupsImport == Submit
GroupScopesPut == Submit
GroupEnabledPatch == Submit
GroupProgressGet == OfListed(Get)
MediaGet == Get
MediaUpload == Submit
MediaSetPatch == Submit
AccountCommand == OfListed(Door("command"))
GroupLabelPut == Replace
RoutesPut == Submit
GroupDeliveryPut == PutFields
ContactInfoPut == Replace
CommentConfigPut == PutMerged
RiskStatusPost == OfListed(Door("risk"))
RiskQuotaPost == OfListed(Door("risk"))
RiskOutcomeGet == Get
DispatchPost == Submit
ModelConfigPut == PutMerged
CredentialPut == Replace
RoleConfigPut == PutMerged
CategoryConfigPut == PutMerged
RolePromptGet == Get
QuotasPut == Submit
PacingPut == Submit
ScheduleGlobalPut == Replace
JoinGroupPut == PutFields
SchedulePut == PutMerged
SessionLimitsPut == Submit
HotLeadPut == PutMerged
ResumeConfigPut == Submit
RestrictedPolicyPut == Submit
PersonaPut == Replace
ContactManualPut == Replace
CuratedTask == Submit
CuratedGet == Get
CuratedDelete == Submit
AlertResolve == Submit

ConsoleDoors ==
  {Refresh1, Logout1, TasksGet, TaskDraft, TaskStep, EnvironmentsGet, SlowStartPut, RuleModePut,
   CommentApprovalPut, GlobalPolicyGet, GlobalPolicyPut, EnvironmentPolicyGet, EnvironmentPolicyPut,
   GroupCommentPolicyPut, CustomersGet, CustomerCreate, CustomerPatch, CustomerScopePut, CustomerKeyRotate,
   DashboardGet, GroupsGet, GroupTemplatesPut, GroupsImport, GroupScopesPut, GroupEnabledPatch,
   GroupProgressGet, MediaGet, MediaUpload, MediaSetPatch, AccountCommand, GroupLabelPut, RoutesPut,
   GroupDeliveryPut, ContactInfoPut, CommentConfigPut, RiskStatusPost, RiskQuotaPost, RiskOutcomeGet,
   DispatchPost, ModelConfigPut, CredentialPut, RoleConfigPut, CategoryConfigPut, RolePromptGet, QuotasPut,
   PacingPut, ScheduleGlobalPut, JoinGroupPut, SchedulePut, SessionLimitsPut, HotLeadPut, ResumeConfigPut,
   RestrictedPolicyPut, PersonaPut, ContactManualPut, CuratedTask, CuratedGet, CuratedDelete, AlertResolve}

Pages == {"revision", "fields", "merged", "replace"}
Commits == Pages \cup {"submit", "risk", "command", "customer"}     \* the forms that write

-----------------------------------------------------------------------------
(* Loading a page, and sending it back with some of its fields changed. *)

NewVisit == [at |-> "new"]
Ended(v, why) ==
  [at |-> "over", door |-> visit[v].door, fields |-> visit[v].fields, wrote |-> visit[v].wrote,
   left |-> visit[v].left, told |-> why]
End(v, why) == visit' = [visit EXCEPT ![v] = Ended(v, why)]
Stays == UNCHANGED <<card, torn>>

Load(v, form) ==
  /\ visit[v] = NewVisit /\ form \in Pages
  /\ visit' = [visit EXCEPT ![v] = [at |-> "loaded", page |-> page[form], form |-> form]]
  /\ UNCHANGED <<page, touched, left, accepted>> /\ Stays

(* The request: d the door, k its token, fs what the operator changed on the
   page it loaded, x the account it names. *)
Request(v, d, k, fs, x) ==
  [at |-> "listed", door |-> d, card |-> k, fields |-> fs, subject |-> x, wrote |-> FALSE, told |-> Unset, left |-> {}, merged |-> Unset,
   seen |-> IF visit[v] = NewVisit THEN Unset ELSE visit[v].page]

Authorized(k) == k \in card /\ k \notin torn

SendRequest(v, d, k, fs, x) ==
  /\ Authorized(k)
  /\ IF d.form \in Pages THEN visit[v].at = "loaded" /\ visit[v].form = d.form /\ fs # {}
                         ELSE visit[v] = NewVisit /\ fs = {}
  /\ visit' = [visit EXCEPT ![v] = [Request(v, d, k, fs, x) EXCEPT !.at = IF d.listed THEN "listed" ELSE "act"]]
  /\ UNCHANGED <<page, touched, left, accepted>> /\ Stays

(* assertAccountExists: the list may fail, and then nothing is let through. *)
ExistsOrUnread(v) == TRUE                                \* faulty variant: a list that fails lets the request through
Exists(v) == visit[v].subject \in Known0

AccountListed(v) ==
  /\ visit[v].at = "listed"
  /\ \/ Exists(v) /\ visit' = [visit EXCEPT ![v].at = "act"]
     \/ visit[v].subject \notin Known0 /\ End(v, "account_not_found")
     \/ End(v, "account_lookup_failed")
  /\ UNCHANGED <<page, touched, left, accepted>> /\ Stays

-----------------------------------------------------------------------------
(* What a save leaves in the page. *)

Sent(v, f) == IF f \in visit[v].fields THEN v ELSE visit[v].seen.content[f]     \* the page as the operator sees it
Whole(v, form) == [f \in Fields |-> Sent(v, f)]
FieldsAsWhole(v, form) == Whole(v, form)                 \* faulty variant: a field that was not sent is set too
FieldsSent(v, form) == [f \in Fields |-> IF f \in visit[v].fields THEN v ELSE page[form].content[f]]
Saved(v, form) ==
  CASE form = "fields" -> FieldsSent(v, form) [] form = "merged" -> visit[v].merged [] OTHER -> Whole(v, form)

AnyRevision(v, form) == TRUE                             \* faulty variant: the revision is not compared
AtRevision(v, form) == form # "revision" \/ visit[v].seen.revision = page[form].revision

(* The other process answers, or its answer is lost. *)
Done(v) == visit' = [visit EXCEPT ![v] = [Ended(v, "ok") EXCEPT !.wrote = TRUE]]
Lost(v) == visit' = [visit EXCEPT ![v] = [Ended(v, "unavailable") EXCEPT !.wrote = TRUE]]

Merge(v) ==                                              \* with the copy of the process, which others write on
  /\ visit[v].at = "act" /\ visit[v].door.form = "merged"
  /\ visit' = [visit EXCEPT ![v] = [@ EXCEPT !.at = "merged", !.merged = FieldsSent(v, "merged")]]
  /\ UNCHANGED <<page, touched, left, accepted>> /\ Stays

Save(v) ==
  LET form == visit[v].door.form IN
  /\ visit[v].at \in {"act", "merged"} /\ form \in Pages
  /\ (visit[v].at = "merged") = (form = "merged")
  /\ IF AtRevision(v, form)
       THEN /\ page[form].revision < MaxSaved
            /\ page' = [page EXCEPT ![form] = [revision |-> @.revision + 1, content |-> Saved(v, form)]]
            /\ Done(v) \/ Lost(v)
       ELSE End(v, "conflict") /\ UNCHANGED page
  /\ UNCHANGED <<touched, left, accepted>> /\ Stays

Unavailable(v) ==                                        \* not wired, or refused by the values
  /\ visit[v].at = "act" /\ End(v, "unavailable")
  /\ UNCHANGED <<page, touched, left, accepted>> /\ Stays

Read(v) ==
  /\ visit[v].at = "act" /\ visit[v].door.form = "read" /\ End(v, "ok")
  /\ UNCHANGED <<page, touched, left, accepted>> /\ Stays

SubmitCommand(v) ==                                      \* to another service: taken, and nothing said of the outcome
  /\ visit[v].at = "act" /\ visit[v].door.form \in {"submit", "risk"}
  /\ accepted' = accepted \cup {v}
  /\ touched' = IF visit[v].door.form = "risk" THEN touched \cup {visit[v].subject} ELSE touched
  /\ Done(v) \/ Lost(v)
  /\ UNCHANGED <<page, left>> /\ Stays

PauseOrResume(v) ==                                      \* inserts the row where there is none
  /\ visit[v].at = "act" /\ visit[v].door.form = "command"
  /\ touched' = touched \cup {visit[v].subject} /\ Done(v)
  /\ UNCHANGED <<page, left, accepted>> /\ Stays

(* A customer disabled or its environments taken away: the clean-ups are
   committed together, then their accounts' service is told one by one. *)
CommitCustomer(v, xs) ==
  /\ visit[v].at = "act" /\ visit[v].door.form = "customer"
  /\ left' = left \cup xs
  /\ visit' = [visit EXCEPT ![v] = [@ EXCEPT !.at = "telling", !.wrote = TRUE, !.left = xs]]
  /\ UNCHANGED <<page, touched, accepted>> /\ Stays

TellOne(v, x) ==
  /\ visit[v].at = "telling" /\ x \in visit[v].left
  /\ \/ left' = left \ {x} /\ visit' = [visit EXCEPT ![v].left = @ \ {x}]
     \/ End(v, "error") /\ UNCHANGED left               \* those after it are not told
  /\ UNCHANGED <<page, touched, accepted>> /\ Stays

ToldUnawaited(v) == TRUE                                 \* faulty variant: the answer does not wait
ToldAll(v) == visit[v].left = {}

AnswerCustomer(v) ==
  /\ visit[v].at = "telling" /\ ToldAll(v) /\ End(v, "ok")
  /\ UNCHANGED <<page, touched, left, accepted>> /\ Stays

-----------------------------------------------------------------------------
(* Sessions. *)

LogIn(k) == k \notin card /\ card' = card \cup {k} /\ UNCHANGED <<page, visit, torn, touched, left, accepted>>

RefreshCard(v, k) ==                                     \* the old one stays in force
  /\ visit[v].at = "act" /\ visit[v].door.form = "refresh"
  /\ k \notin card /\ card' = card \cup {k} /\ End(v, "ok")
  /\ UNCHANGED <<page, torn, touched, left, accepted>>

LogOut(v) ==
  /\ visit[v].at = "act" /\ visit[v].door.form = "logout"
  /\ torn' = torn \cup {visit[v].card} /\ End(v, "ok")
  /\ UNCHANGED <<page, card, touched, left, accepted>>

RestartConsole ==                                        \* requests under way and the revoked tokens are forgotten
  /\ torn' = {}
  /\ visit' = [v \in Visits |-> IF visit[v].at \in {"new", "loaded", "over"} THEN visit[v] ELSE Ended(v, "unavailable")]
  /\ UNCHANGED <<page, card, touched, left, accepted>>

-----------------------------------------------------------------------------
ConsoleInit ==
  /\ page = [form \in Pages |-> [revision |-> 0, content |-> [f \in Fields |-> Unset]]]
  /\ visit = [v \in Visits |-> NewVisit]
  /\ card = {} /\ torn = {} /\ touched = {} /\ left = {} /\ accepted = {}

ConsoleNext ==
  \/ \E k \in Cards : LogIn(k)
  \/ \E v \in Visits, form \in Pages : Load(v, form)
  \/ \E v \in Visits, d \in ConsoleDoors, k \in Cards :
       \E fs \in (IF d.form \in Pages THEN SUBSET Fields ELSE {{}}),
          x \in (IF d.listed THEN Subjects ELSE {CHOOSE y \in Subjects : TRUE}) : SendRequest(v, d, k, fs, x)
  \/ \E v \in Visits :
       \/ AccountListed(v) \/ Merge(v) \/ Save(v) \/ Unavailable(v) \/ Read(v) \/ SubmitCommand(v) \/ PauseOrResume(v)
       \/ AnswerCustomer(v) \/ LogOut(v)
       \/ \E k \in Cards : RefreshCard(v, k)
       \/ \E xs \in SUBSET Known0 : CommitCustomer(v, xs)
       \/ \E x \in Known0 : TellOne(v, x)
  \/ RestartConsole
ConsoleSpec == ConsoleInit /\ [][ConsoleNext]_consoleVars

-----------------------------------------------------------------------------
(* Requests, pages and rows keep their shape. *)
ConsoleTypeOK ==
  /\ \A form \in Pages : page[form].revision \in 0..MaxSaved /\ page[form].content \in [Fields -> Visits \cup {Unset}]
  /\ \A v \in Visits : visit[v].at \in {"new", "loaded", "listed", "act", "merged", "telling", "over"}
  /\ card \subseteq Cards /\ torn \subseteq card /\ left \subseteq Known0 /\ accepted \subseteq Visits
  /\ touched \subseteq Subjects

(* A command to pause, to resume or to change the risk of a name that is no
   account leaves no row behind, whatever became of the list of accounts. *)
NoGhostRows == touched \subseteq Known0

(* "Saved" is said when it was written, "conflict" and "no such account" only
   when nothing was; and a customer's change is only called done when the
   service of every account it takes away was told. *)
AnswersHold ==
  \A v \in Visits : visit[v].at = "over" =>
    /\ visit[v].told = "ok" /\ visit[v].door.form \in Commits => visit[v].wrote
    /\ visit[v].told \in {"conflict", "account_not_found", "account_lookup_failed"} => ~visit[v].wrote
    /\ visit[v].told = "ok" => visit[v].left = {}

(* A save changes a field that its operator changed: what others saved since
   the page was loaded stays, or the save is refused. Doors that merge
   with a copy, or replace the page whole, do not promise this. *)
OthersStay ==
  [][\A form \in {"revision", "fields"}, f \in Fields :
       page'[form].content[f] # page[form].content[f] =>
         \E v \in Visits : page'[form].content[f] = v /\ f \in visit[v].fields]_page
=============================================================================
