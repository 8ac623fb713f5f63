------------------------------ MODULE Accounts ------------------------------
(***************************************************************************)
(* The accounts table and what the processes remember of it                *)
(* (account-store.ts, account-state.ts).                                   *)
(*                                                                         *)
(* A row appears at an account's first handshake, with the platform the    *)
(* device declares, or at the first pause or nickname of an account nobody *)
(* registered, with the column's default.  Only the insertion itself seeds *)
(* the account's automation defaults.  Every process keeps the platforms   *)
(* it has met, fills what is missing from the table, and never reads them  *)
(* again; its copy of the pauses is loaded when it starts.                 *)
(*                                                                         *)
(* What the automation service sees of the accounts is a roster with a     *)
(* cursor, the recorded version of account_status, read in one snapshot    *)
(* (api-sync-read-source.ts).  It refuses a second roster under a cursor   *)
(* it has, so whatever the roster shows must move the version with it.     *)
(*                                                                         *)
(* Left out: the names, which no decision here reads (a process's copy of  *)
(* them follows its own writes only), contact_info, the retired account    *)
(* 'default', which every operation turns away first, the time of          *)
(* registration, which is copied as the platform is, and the deployment an *)
(* account runs at, which is read from the table every time.               *)
(***************************************************************************)
EXTENDS Integers, FiniteSets

CONSTANTS
  Rows,          \* account ids
  Platforms,     \* platforms a device may declare
  DefaultPlatform,   \* the column's default, xiaohongshu
  Labels,        \* group labels
  Servers,       \* API processes at one database
  Handshakes,    \* requests under way
  Nobody,        \* no row, no label, nothing known
  MaxStatus      \* bound on the version of account_status

ASSUME AccountsAssumption ==
  /\ DefaultPlatform \in Platforms /\ Nobody \notin Platforms
  /\ Nobody \notin [platform : Platforms, paused : BOOLEAN, group : Labels \cup {Nobody}]
  /\ IsFiniteSet(Handshakes) /\ MaxStatus \in Nat

VARIABLES
  row,           \* the accounts table
  statusVersion, \* config_mirror_version of account_status
  platformCache, \* server -> account -> platform
  paused,        \* server -> AccountStateManager.states, the paused ones
  errand,        \* what each request is doing
  seeded,        \* history: the platforms an account's defaults were seeded for
  declared,      \* history: the platforms handshakes declared
  rosters        \* history: the rosters sent

accountVars == <<row, statusVersion, platformCache, paused, errand,
                 seeded, declared, rosters>>

Waiting == [at |-> "waiting"]
Blank(p) == [platform |-> p, paused |-> FALSE, group |-> Nobody]
Here == {a \in Rows : row[a] # Nobody}
Bumped == statusVersion' = statusVersion + 1
Unbumped == statusVersion' = statusVersion

AccountsTypeOK ==
  /\ row \in [Rows -> [platform : Platforms, paused : BOOLEAN, group : Labels \cup {Nobody}] \cup {Nobody}]
  /\ statusVersion \in 0..MaxStatus
  /\ platformCache \in [Servers -> [Rows -> Platforms \cup {Nobody}]]
  /\ paused \in [Servers -> SUBSET Rows]
  /\ \A c \in Handshakes : errand[c].at \in {"waiting", "inserted", "existing", "seed", "write"}
  /\ seeded \in [Rows -> [Platforms -> 0..Cardinality(Handshakes)]]
  /\ declared \in [Rows -> SUBSET Platforms]

AccountsInit ==
  /\ row = [a \in Rows |-> Nobody]
  /\ statusVersion = 0
  /\ platformCache = [s \in Servers |-> [a \in Rows |-> Nobody]]
  /\ paused = [s \in Servers |-> {}]
  /\ errand = [c \in Handshakes |-> Waiting]
  /\ seeded = [a \in Rows |-> [p \in Platforms |-> 0]]
  /\ declared = [a \in Rows |-> {}]
  /\ rosters = {}

-----------------------------------------------------------------------------
(* A process starts: init() of the store and of the state manager. *)

Start(s) ==
  /\ \A c \in Handshakes : errand[c] # Waiting => errand[c].server # s
  /\ platformCache' = [platformCache EXCEPT ![s] = [a \in Rows |-> IF a \in Here THEN row[a].platform ELSE Nobody]]
  /\ paused' = [paused EXCEPT ![s] = {a \in Here : row[a].paused}]
  /\ UNCHANGED <<row, statusVersion, errand, seeded, declared, rosters>>

-----------------------------------------------------------------------------
(* A handshake registers the account. *)

(* The platform column: what the device declares, else the default. *)
Stored(p) == IF p = Nobody THEN DefaultPlatform ELSE p

(* The version moves whether or not a row was inserted. *)
EnsureAccount(c, s, a, p) ==
  /\ errand[c] = Waiting
  /\ row' = IF a \in Here THEN row ELSE [row EXCEPT ![a] = Blank(Stored(p))]
  /\ errand' = [errand EXCEPT ![c] = [at |-> IF a \in Here THEN "existing" ELSE "inserted", server |-> s,
                                  account |-> a, platform |-> p]]
  /\ declared' = [declared EXCEPT ![a] = @ \cup ({p} \ {Nobody})]
  /\ Bumped
  /\ UNCHANGED <<platformCache, paused, seeded, rosters>>

(* The inserted row fills the caches; defaults follow for a declared platform. *)
Inserted(c) ==
  /\ errand[c].at = "inserted"
  /\ LET s == errand[c].server  a == errand[c].account IN
     /\ platformCache' = [platformCache EXCEPT ![s][a] = Stored(errand[c].platform)]
  /\ errand' = [errand EXCEPT ![c] = IF errand[c].platform = Nobody THEN Waiting ELSE [@ EXCEPT !.at = "seed"]]
  /\ UNCHANGED <<row, statusVersion, paused, seeded, declared, rosters>>

(* The hook runs once; when it fails nothing is seeded and nothing retried. *)
Seed(c) ==
  /\ errand[c].at = "seed"
  /\ \/ seeded' = [seeded EXCEPT ![errand[c].account][Stored(errand[c].platform)] = @ + 1]
     \/ UNCHANGED seeded
  /\ errand' = [errand EXCEPT ![c] = Waiting]
  /\ UNCHANGED <<row, statusVersion, platformCache, paused, declared, rosters>>

HydrateAsDeclared(c) ==                                  \* faulty variant: believes the device, and seeds
  /\ errand[c].at = "existing"
  /\ LET s == errand[c].server  a == errand[c].account IN
     /\ platformCache' = [platformCache EXCEPT ![s][a] = IF @ = Nobody THEN Stored(errand[c].platform) ELSE @]
  /\ errand' = [errand EXCEPT ![c] = Waiting]
  /\ UNCHANGED <<row, statusVersion, paused, seeded, declared, rosters>>
HydrateAndSeed(c) ==                                     \* faulty variant: seeds an account new to this process
  /\ errand[c].at = "existing"
  /\ LET s == errand[c].server  a == errand[c].account IN
     /\ platformCache' = [platformCache EXCEPT ![s][a] = IF @ = Nobody THEN row[a].platform ELSE @]
     /\ errand' = [errand EXCEPT ![c] = IF platformCache[s][a] = Nobody /\ @.platform # Nobody
                                    THEN [@ EXCEPT !.at = "seed"] ELSE Waiting]
  /\ UNCHANGED <<row, statusVersion, paused, seeded, declared, rosters>>
(* A row that was there: only what this process does not know, and only as  *)
(* the table has it.                                                        *)
Hydrate(c) ==
  /\ errand[c].at = "existing"
  /\ LET s == errand[c].server  a == errand[c].account IN
     /\ platformCache' = [platformCache EXCEPT ![s][a] = IF @ = Nobody THEN row[a].platform ELSE @]
  /\ errand' = [errand EXCEPT ![c] = Waiting]
  /\ UNCHANGED <<row, statusVersion, paused, seeded, declared, rosters>>

(* getPlatform, getPlatformOrNull: the copy, else the table. *)
GetPlatform(s, a) ==
  /\ a \in Here /\ platformCache[s][a] = Nobody
  /\ platformCache' = [platformCache EXCEPT ![s][a] = row[a].platform]
  /\ UNCHANGED <<row, statusVersion, paused, errand, seeded, declared, rosters>>

-----------------------------------------------------------------------------
(* Names and labels. *)

(* setNickname makes the row when there is none. *)
SetNickname(a) ==
  /\ row' = IF a \in Here THEN row ELSE [row EXCEPT ![a] = Blank(DefaultPlatform)]
  /\ Bumped
  /\ UNCHANGED <<platformCache, paused, errand, seeded, declared, rosters>>

SetGroupLabelUnbumped(a, n) ==                           \* faulty variant: the label moves, the version stays
  /\ row' = IF a \in Here THEN [row EXCEPT ![a].group = n] ELSE row
  /\ Unbumped
  /\ UNCHANGED <<platformCache, paused, errand, seeded, declared, rosters>>
(* The group label is on the roster; it makes no row. *)
SetGroupLabel(a, n) ==
  /\ row' = IF a \in Here THEN [row EXCEPT ![a].group = n] ELSE row
  /\ Bumped
  /\ UNCHANGED <<platformCache, paused, errand, seeded, declared, rosters>>

-----------------------------------------------------------------------------
(* Pauses: this process's memory first, then the table. *)

RememberPause(s, a, p) == paused' = [paused EXCEPT ![s] = IF p THEN @ \cup {a} ELSE @ \ {a}]

PauseOrResume(c, s, a, p) ==
  /\ errand[c] = Waiting
  /\ RememberPause(s, a, p)
  /\ errand' = [errand EXCEPT ![c] = [at |-> "write", server |-> s, account |-> a, paused |-> p]]
  /\ UNCHANGED <<row, statusVersion, platformCache, seeded, declared, rosters>>

SetPaused(c) ==
  /\ errand[c].at = "write"
  /\ LET a == errand[c].account IN
     row' = [row EXCEPT ![a] = [(IF a \in Here THEN @ ELSE Blank(DefaultPlatform)) EXCEPT !.paused = errand[c].paused]]
  /\ errand' = [errand EXCEPT ![c] = Waiting]
  /\ Bumped
  /\ UNCHANGED <<platformCache, paused, seeded, declared, rosters>>

(* The statement fails: the memory stays as it was set. *)
SetPausedFails(c) ==
  /\ errand[c].at = "write"
  /\ errand' = [errand EXCEPT ![c] = Waiting]
  /\ UNCHANGED <<row, statusVersion, platformCache, paused, seeded, declared, rosters>>

-----------------------------------------------------------------------------
(* The roster for the automation service. *)

Roster == {[account |-> a, platform |-> row[a].platform, group |-> row[a].group, paused |-> row[a].paused] : a \in Here}

SendRoster ==
  /\ rosters' = rosters \cup {[cursor |-> statusVersion, accounts |-> Roster]}
  /\ UNCHANGED <<row, statusVersion, platformCache, paused, errand, seeded, declared>>

AccountsNext ==
  \/ \E s \in Servers : Start(s)
  \/ \E c \in Handshakes, s \in Servers, a \in Rows, p \in Platforms \cup {Nobody} :
       statusVersion < MaxStatus /\ EnsureAccount(c, s, a, p)
  \/ \E c \in Handshakes : Inserted(c) \/ Seed(c) \/ Hydrate(c) \/ SetPausedFails(c)
  \/ \E c \in Handshakes : statusVersion < MaxStatus /\ SetPaused(c)
  \/ \E s \in Servers, a \in Rows : GetPlatform(s, a)
  \/ \E a \in Rows : statusVersion < MaxStatus /\ SetNickname(a)
  \/ \E a \in Rows, n \in Labels \cup {Nobody} : statusVersion < MaxStatus /\ SetGroupLabel(a, n)
  \/ \E c \in Handshakes, s \in Servers, a \in Rows, p \in BOOLEAN : PauseOrResume(c, s, a, p)
  \/ SendRoster

AccountsSpec == AccountsInit /\ [][AccountsNext]_accountVars

-----------------------------------------------------------------------------
(* Properties. *)

\* Whatever a device declares and whichever process inserted the row, a
\* process never holds another platform than the table: the curve of a slow
\* start is chosen by it (hydrateCachesForExistingAccount).
PlatformIsTheRows ==
  \A s \in Servers, a \in Rows :
    platformCache[s][a] # Nobody => a \in Here /\ platformCache[s][a] = row[a].platform

\* Automation defaults are seeded at most once in an account's life, by the
\* request that made its row, for the row's platform, and never for one no
\* device declared, however many handshakes reach however many processes.
SeededOnce ==
  \A a \in Rows, p \in Platforms :
    /\ seeded[a][p] <= 1
    /\ seeded[a][p] > 0 => a \in Here /\ row[a].platform = p /\ p \in declared[a]

\* Two rosters with one cursor are one roster: the automation service refuses
\* the second for good when they differ (server.ts, same_cursor_payload_drift).
CursorNamesOneRoster ==
  \A x, y \in rosters : x.cursor = y.cursor => x.accounts = y.accounts
=============================================================================
