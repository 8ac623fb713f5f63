---------------------------- MODULE Interactions ----------------------------
(***************************************************************************)
(* The customer's door to comments and messages                            *)
(* (interaction-customer-api.ts, withAuthorizedInteractionScope of         *)
(* client-user-store.ts): one environment, one reply job, one record of    *)
(* runtime controls.                                                       *)
(*                                                                         *)
(* A request takes a connection of the process's only pool, locks in one   *)
(* transaction the customer, the environment and the right to it, and      *)
(* keeps the transaction open until what it asked for is over.  What it    *)
(* asks for happens in the automation service: the claim of the            *)
(* idempotency key, the command, the record of the answer.  Each of these  *)
(* calls may fail, and may fail after it was carried out.                  *)
(*                                                                         *)
(* External, modelled from how it is called: the claims, the job and the   *)
(* controls, each changed only at the version the caller expects.  Left    *)
(* out: paging, and the rows of accounts, which nothing here changes.      *)
(***************************************************************************)
EXTENDS Integers, FiniteSets

CONSTANTS
  Customers, IdemKeys, Requests,
  Others,        \* requests elsewhere in the process: one connection each
  Connections,   \* size of the pool
  Nobody,        \* no claim, nothing read
  MaxCalls,      \* bound on the requests that ever arrive
  MaxControls,   \* bound on the version of the controls
  MaxJob         \* bound on the version of the job

ASSUME InteractionsAssumption ==
  /\ Connections \in Nat
  /\ IsFiniteSet(Requests) /\ IsFiniteSet(Others)
  /\ {MaxCalls, MaxControls, MaxJob} \subseteq Nat
  /\ Nobody \notin [by : Nat]

VARIABLES
  reach,         \* the customers whose identity is enabled and environment theirs
  call,          \* what each request is doing
  elsewhere,     \* the other requests that hold a connection
  calls,         \* how many requests arrived
  claim,         \* automation: idempotency keys and their recorded answers
  job,           \* automation: the reply job
  controls,      \* automation: the runtime controls
  dispatching,   \* dispatches on their way, not waited for
  commands,      \* history: how often each key's command was carried out
  answers        \* history: the answers given under each key

interVars == <<reach, call, elsewhere, calls, claim, job, controls,
               dispatching, commands, answers>>

Keyed == {"command", "reset", "send"}      \* command: sync, auth/reopen, browser
Kinds == Keyed \cup {"inbox", "edit", "controls"}
Slots == Customers \X Keyed \X IdemKeys        \* claimApiRequest's actor, action, key
Open == [by |-> 0]                         \* claimed, no answer recorded
NoCall == [at |-> "idle"]
Settings == [version : 0..MaxControls, reading : BOOLEAN, paused : BOOLEAN]
Jobs == [state : {"draft", "approved", "queued", "sending", "sent"}, version : 0..MaxJob]

At(r, at) == call[r].at = at
SlotOf(c) == <<c.who, c.kind, c.key>>

(* A request that was let in holds its connection and its row locks.        *)
Inside(r) == call[r].at \notin {"idle", "connect"}
FreeAfterLeak ==
  Connections - 1 - Cardinality({r \in Requests : Inside(r)}) - Cardinality(elsewhere)
Free == Connections - Cardinality({r \in Requests : Inside(r)}) - Cardinality(elsewhere)

InteractionsTypeOK ==
  /\ reach \subseteq Customers /\ elsewhere \subseteq Others
  /\ calls \in 0..MaxCalls
  /\ \A r \in Requests :
       \/ call[r] = NoCall
       \/ /\ call[r].at \in {"connect", "scoped", "route", "act", "resync", "write", "complete", "config"}
          /\ call[r].who \in Customers /\ call[r].kind \in Kinds /\ call[r].key \in IdemKeys
          /\ call[r].expected \in Nat /\ call[r].id \in 1..MaxCalls /\ call[r].fresh \in BOOLEAN
          /\ call[r].saw \in Jobs \cup Settings \cup {Nobody}
  /\ claim \in [Slots -> [by : 0..MaxCalls] \cup {Nobody}]
  /\ job \in Jobs /\ controls \in Settings
  /\ dispatching \subseteq 0..MaxJob
  /\ commands \in [Slots -> Nat] /\ answers \in [Slots -> SUBSET (1..MaxCalls)]
  /\ Free \in 0..Connections

InteractionsInit ==
  /\ reach \in SUBSET Customers
  /\ call = [r \in Requests |-> NoCall] /\ elsewhere = {} /\ calls = 0
  /\ claim = [s \in Slots |-> Nobody]
  /\ job = [state |-> "approved", version |-> 0]
  /\ controls = [version |-> 0, reading |-> FALSE, paused |-> FALSE]
  /\ dispatching = {}
  /\ commands = [s \in Slots |-> 0] /\ answers = [s \in Slots |-> {}]

automation == <<claim, job, controls, dispatching, commands>>
Goes(r, at) == call' = [call EXCEPT ![r].at = at]
Ends(r) == call' = [call EXCEPT ![r] = NoCall]       \* the finally: connection and locks are given back

-----------------------------------------------------------------------------
(* Letting a request in.                                                    *)

Arrive(r) ==
  /\ At(r, "idle") /\ calls < MaxCalls
  /\ \E u \in Customers, kind \in Kinds, k \in IdemKeys :
     \E seen \in 0..(IF kind = "controls" THEN controls.version
                     ELSE IF kind \in {"send", "edit"} THEN job.version ELSE 0) :
       call' = [call EXCEPT ![r] = [at |-> "connect", who |-> u, kind |-> kind, key |-> k,
                                    expected |-> seen, id |-> calls + 1, fresh |-> TRUE, saw |-> Nobody]]
  /\ calls' = calls + 1
  /\ UNCHANGED <<reach, elsewhere, automation, answers>>

Connect(r) ==
  /\ At(r, "connect") /\ Free > 0
  /\ IF call[r].who \in reach THEN Goes(r, "scoped") ELSE Ends(r)
  /\ UNCHANGED <<reach, elsewhere, calls, automation, answers>>

(* boundAccountForEnv answers an account, or none, or fails.                *)
Bind(r) ==
  /\ At(r, "scoped")
  /\ Goes(r, "route") \/ Ends(r)
  /\ UNCHANGED <<reach, elsewhere, calls, automation, answers>>

(* An administrator's write to the customer, the environment or the right   *)
(* to it waits for the share locks of every request that is inside.         *)
UnlockedAlways(u) == TRUE
Unlocked(u) == \A r \in Requests : Inside(r) => call[r].who # u

Revoke(u) ==
  /\ u \in reach /\ Unlocked(u)
  /\ reach' = reach \ {u}
  /\ UNCHANGED <<call, elsewhere, calls, automation, answers>>

Grant(u) ==
  /\ u \notin reach
  /\ reach' = reach \cup {u}
  /\ UNCHANGED <<call, elsewhere, calls, automation, answers>>

(* The rest of the process borrows connections one at a time.               *)
Borrow(o) ==
  /\ o \notin elsewhere /\ Free > 0
  /\ elsewhere' = elsewhere \cup {o}
  /\ UNCHANGED <<reach, call, calls, automation, answers>>
Return(o) ==
  /\ o \in elsewhere
  /\ elsewhere' = elsewhere \ {o}
  /\ UNCHANGED <<reach, call, calls, automation, answers>>

-----------------------------------------------------------------------------
(* Keyed commands.                                                          *)

Routed(r, kinds) == At(r, "route") /\ call[r].kind \in kinds

(* Whether a claim lets the request act: refuseUnconfirmedReplay, which the *)
(* reply's sending does without.                                            *)
MayActAgain(c) == claim[SlotOf(c)] \in {Nobody, Open}
MayAct(c) == claim[SlotOf(c)] = Nobody \/ (claim[SlotOf(c)] = Open /\ c.kind = "send")

HasAnswer(slot) == claim[slot] \notin {Nobody, Open}

Claim(r) ==
  /\ Routed(r, Keyed)
  /\ LET slot == SlotOf(call[r]) IN
       /\ claim' = [claim EXCEPT ![slot] = IF @ = Nobody THEN Open ELSE @]
       /\ \/ /\ MayAct(call[r])
             /\ call' = [call EXCEPT ![r].at = "act", ![r].fresh = claim[slot] = Nobody]
             /\ UNCHANGED answers
          \/ /\ ~MayAct(call[r]) /\ Ends(r)
             /\ answers' = IF HasAnswer(slot) THEN [answers EXCEPT ![slot] = @ \cup {claim[slot].by}] ELSE answers
          \/ Ends(r) /\ UNCHANGED answers            \* claimed, and the answer is lost
  /\ UNCHANGED <<reach, elsewhere, calls, job, controls, dispatching, commands>>

(* The command reaches the automation service; its answer may be lost.      *)
Perform(r) ==
  /\ At(r, "act") /\ call[r].kind \in {"command", "reset"}
  /\ commands' = [commands EXCEPT ![SlotOf(call[r])] = @ + 1]
  /\ \/ Goes(r, IF call[r].kind = "reset" THEN "resync" ELSE "complete")
     \/ Ends(r)
  /\ UNCHANGED <<reach, elsewhere, calls, claim, job, controls, dispatching, answers>>

(* After a reset a new pull is asked for; when that fails it is noted, and  *)
(* only the note's failure ends the request.                                *)
Resync(r) ==
  /\ At(r, "resync")
  /\ Goes(r, "complete") \/ Ends(r)
  /\ UNCHANGED <<reach, elsewhere, calls, automation, answers>>

(* The version a reply is queued at is the one its customer saw.            *)
VersionOfJob(c) == job.version
VersionQueued(c) == c.expected

Under(r) == job.state \in {"queued", "sending", "sent"} /\ ~call[r].fresh

Queue(r) ==
  /\ At(r, "act") /\ call[r].kind = "send"
  /\ IF Under(r)
     THEN /\ call' = [call EXCEPT ![r].at = "complete", ![r].saw = job]
          /\ UNCHANGED <<job, commands>>
     ELSE /\ job.state = "approved" /\ job.version = VersionQueued(call[r])
          /\ job.version < MaxJob
          /\ job' = [state |-> "queued", version |-> job.version + 1]
          /\ commands' = [commands EXCEPT ![SlotOf(call[r])] = @ + 1]
          /\ \/ call' = [call EXCEPT ![r].at = "complete", ![r].saw = job']
             \/ Ends(r)
  /\ UNCHANGED <<reach, elsewhere, calls, claim, controls, dispatching, answers>>

(* A call that fails before anything was done, a refusal included.          *)
Fails(r) ==
  /\ call[r].at \in {"route", "act", "write", "complete"}
  /\ Ends(r)
  /\ UNCHANGED <<reach, elsewhere, calls, automation, answers>>

(* completeApiRequest, then the answer, then the reply's dispatch, which    *)
(* nobody waits for.  Its own answer may be lost.                           *)
Complete(r) ==
  /\ At(r, "complete")
  /\ claim' = [claim EXCEPT ![SlotOf(call[r])] = [by |-> call[r].id]]
  /\ \/ /\ answers' = [answers EXCEPT ![SlotOf(call[r])] = @ \cup {call[r].id}]
        /\ dispatching' = dispatching \cup
             (IF call[r].kind = "send" /\ call[r].saw.state = "queued" THEN {call[r].saw.version} ELSE {})
     \/ UNCHANGED <<answers, dispatching>>
  /\ Ends(r)
  /\ UNCHANGED <<reach, elsewhere, calls, job, controls, commands>>

(* Automation: a dispatch moves the job at the version it names.            *)
Dispatch(v) ==
  /\ v \in dispatching /\ dispatching' = dispatching \ {v}
  /\ IF job = [state |-> "queued", version |-> v] /\ v < MaxJob
     THEN job' = [state |-> "sending", version |-> v + 1]
     ELSE UNCHANGED job
  /\ UNCHANGED <<reach, call, elsewhere, calls, claim, controls, commands, answers>>

JobEnds ==
  /\ job.state = "sending" /\ job' = [job EXCEPT !.state = "sent"]
  /\ UNCHANGED <<reach, call, elsewhere, calls, claim, controls, dispatching, commands, answers>>

-----------------------------------------------------------------------------
(* What needs no key.                                                       *)

(* The draft is edited or generated again, or approved, at the version the  *)
(* customer saw; the answer may be lost.                                    *)
Edit(r) ==
  /\ Routed(r, {"edit"})
  /\ job.version = call[r].expected /\ job.version < MaxJob
  /\ \/ job.state \in {"draft", "approved"} /\ job' = [state |-> "draft", version |-> job.version + 1]
     \/ job.state = "draft" /\ job' = [state |-> "approved", version |-> job.version + 1]
  /\ Ends(r)
  /\ UNCHANGED <<reach, elsewhere, calls, claim, controls, dispatching, commands, answers>>

(* read-controls: the stored controls are read, and written back whole with *)
(* the two switches the customer may set.                                   *)
ReadControls(r) ==
  /\ Routed(r, {"controls"})
  /\ call' = [call EXCEPT ![r].at = "write", ![r].saw = controls]
  /\ UNCHANGED <<reach, elsewhere, calls, automation, answers>>

VersionStored(c) == controls.version
VersionWritten(c) == c.expected

WriteControls(r) ==
  /\ At(r, "write")
  /\ controls.version = VersionWritten(call[r]) /\ controls.version < MaxControls
  /\ \E on \in BOOLEAN :
       controls' = [version |-> controls.version + 1, reading |-> on, paused |-> call[r].saw.paused]
  /\ Goes(r, "config") \/ Ends(r)
  /\ UNCHANGED <<reach, elsewhere, calls, claim, job, dispatching, commands, answers>>

(* The console's write (interaction-internal-api.ts), all switches at once. *)
OperatorWrites ==
  /\ controls.version < MaxControls
  /\ \E on, pause \in BOOLEAN :
       controls' = [version |-> controls.version + 1, reading |-> on, paused |-> pause]
  /\ UNCHANGED <<reach, call, elsewhere, calls, claim, job, dispatching, commands, answers>>

ReadInbox(r) ==
  /\ Routed(r, {"inbox"}) /\ Goes(r, "config")
  /\ UNCHANGED <<reach, elsewhere, calls, automation, answers>>

(* replyConfigSummary reads the reply configuration through the same pool,  *)
(* with the request's own connection still taken.                           *)
ReadConfig(r) ==
  /\ At(r, "config") /\ Free > 0
  /\ Ends(r)
  /\ UNCHANGED <<reach, elsewhere, calls, automation, answers>>

-----------------------------------------------------------------------------
Entering(r) == Connect(r) \/ Bind(r)
Acting(r) ==
  \/ Claim(r) \/ Perform(r) \/ Resync(r) \/ Queue(r) \/ Complete(r) \/ Fails(r)
  \/ Edit(r) \/ ReadControls(r) \/ WriteControls(r) \/ ReadInbox(r) \/ ReadConfig(r)
Elsewhere ==
  \/ \E u \in Customers : Revoke(u) \/ Grant(u)
  \/ \E o \in Others : Borrow(o) \/ Return(o)
  \/ \E v \in dispatching : Dispatch(v)
  \/ JobEnds \/ OperatorWrites

InteractionsNext ==
  \/ \E r \in Requests : Arrive(r) \/ Entering(r) \/ Acting(r)
  \/ Elsewhere
InteractionsSpec == InteractionsInit /\ [][InteractionsNext]_interVars

-----------------------------------------------------------------------------
(* One command per key (refuseUnconfirmedReplay's comment, 571): whatever   *)
(* is retried, lost or overlapping, a key's command is carried out at most  *)
(* once, an answer given for a command or a reset is of one carried out,    *)
(* and every answer under such a key is the same.                           *)
OncePerKey ==
  \A s \in Slots :
    /\ commands[s] <= 1
    /\ s[2] # "send" => /\ Cardinality(answers[s]) <= 1
                        /\ answers[s] # {} => commands[s] = 1

(* A request acts only while the customer is enabled and the environment is *)
(* theirs: a withdrawal is either seen when the request is let in, or waits *)
(* until it is over.                                                        *)
ActsWhileAllowed == \A r \in Requests : Inside(r) => call[r].who \in reach

(* What a customer writes is written over what they saw: a switch never     *)
(* undoes the pause an operator set, although the whole record is written   *)
(* back from an earlier read, and a reply is queued at the version its      *)
(* customer saw, so that an edit in between makes the sending fail.         *)
WritesAsSeen ==
  [][/\ (\E r \in Requests : WriteControls(r)) => controls'.paused = controls.paused
     /\ (job.state = "approved" /\ job'.state = "queued")
          => \E r \in Requests : At(r, "act") /\ call[r].expected = job.version /\ call'[r] # call[r]
    ]_interVars

(* Every connection is held by a call that waits for a second one.  Nothing *)
(* keeps the calls fewer than the connections, and no wait times out.       *)
Starved == Cardinality({r \in Requests : At(r, "config")}) >= Connections

(* Each call ends, unless the pool is starved: until then the last free     *)
(* connection always comes back to somebody who gives up what they hold.    *)
EachCallEnds == \A r \in Requests : ~At(r, "idle") ~> (At(r, "idle") \/ Starved)
=============================================================================
