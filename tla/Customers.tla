------------------------------ MODULE Customers ------------------------------
(* Everything that happens to the customers' environments and accounts in one  *)
(* behaviour: reports, copies, switches and comment modes; intents and their   *)
(* completion; the edits of a proxy; log-ins, tokens and doors; and, apart     *)
(* from them, the table of accounts.                                           *)
EXTENDS Provisioning, ClientApi, Accounts

customersVars == <<envVars, past, provVars, apiVars, accountVars>>

(* Whoever changes the owner of an environment locks its row, as the edit of a *)
(* proxy does.                                                                 *)
OwnersUnlocked == \A e \in Envs : owner'[e] # owner[e] => rowLock[e] = None

CustomersInit ==
  /\ EnvInit /\ ProvInit /\ ApiInit /\ AccountsInit
  /\ token \in [Tokens -> Users \cup {None}]

(* Beside the requests: what reports, the console and completions do.          *)
BesideRequests ==
  /\ (EnvNext /\ OwnersUnlocked /\ UNCHANGED provVars) \/ ProvNext
  /\ UNCHANGED <<request, login, failures, token, withdrawn>>
Requesting == (LoggingIn \/ Visiting) /\ OwnersUnlocked /\ UNCHANGED provVars

CustomersNext ==
  \/ (BesideRequests \/ Requesting) /\ Remember /\ Witness /\ UNCHANGED accountVars
  \/ AccountsNext /\ UNCHANGED <<envVars, past, provVars, apiVars>>

CustomersSpec == CustomersInit /\ [][CustomersNext]_customersVars

-----------------------------------------------------------------------------
(* Each part keeps its shape.                                                  *)
CustomersTypeOK == EnvTypeOK /\ ProvTypeOK /\ ApiTypeOK /\ AccountsTypeOK

(* What a process knows of the bindings, and what the gate of a report found,  *)
(* hold but for the races that are named: an older answer assigned last, and a *)
(* report overtaken between its gate and its write or by a change of owners.   *)
BindingsHold == CopyKeepsUp /\ ContestedWhenOvertaken

(* However a completion is repeated, loses its answer or comes too late, it    *)
(* makes one environment, recognises its own, and says "done" of what the      *)
(* process that says it has in its copy.                                       *)
ProvisionedOnce == OneEnvironmentPerIntent /\ RetryRecognised /\ ToldIsLoaded

(* A door acts for its customer's accounts only, whatever changes between its  *)
(* awaits, leaves nothing behind when it refuses, and log-ins stay within      *)
(* their limit.                                                                *)
DoorsHold == AttemptsBounded /\ ActsWithinReach /\ RefusedLeavesNothing

(* What the processes remember of an account is what its row says, its         *)
(* defaults are seeded once, and a cursor names one roster.                    *)
RosterHolds == PlatformIsTheRows /\ SeededOnce /\ CursorNamesOneRoster

(* What no step may do: bring an old slow start back, change a proxy or a      *)
(* setting for somebody who does not own the environment at that moment.       *)
CustomerSteps == LegacyOnce /\ ProxyByOwner /\ SettingsByOwner
=============================================================================
