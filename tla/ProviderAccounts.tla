-------------------------- MODULE ProviderAccounts --------------------------
(***************************************************************************)
(* ProviderAccountStore with the CredentialStore and the QSettings it writes,    *)
(* the CredentialHandleBroker, and the host.credential.read handler of            *)
(* ProviderExtensionManager.  The three stores of an account, its row, its       *)
(* settings and its secret, are written one after the other: each write may       *)
(* fail, and the process may die between two.                                 *)
(*                                                                         *)
(* The desktop's secret service and QSettings are external.  A refused write of   *)
(* the secret service may have been carried out (a time-out kills secret-tool      *)
(* only), and a value QSettings could not sync is kept and synced later.         *)
(***************************************************************************)
EXTENDS Naturals, FiniteSets

CONSTANTS
  Users,         \* bound: the IDs of all the accounts ever added
  KindOf,        \* the provider of each account
  Askers,        \* provider extensions that may ask for a secret, by provider ID
  Readers,       \* those granted provider.account.read
  MaxHandles,    \* bound: handles issued
  Lifetime,      \* lifetimeSeconds
  MaxClock,      \* bound
  MaxTests,      \* bound: connection tests of an account at once
  MaxRestarts,   \* bound
  MaxTroubled    \* bound: accounts with a write that failed or was cut short

ASSUME AccountsAssumption ==
  /\ KindOf \in [Users -> Askers] /\ Readers \subseteq Askers
  /\ {MaxHandles, MaxClock, MaxTests, MaxRestarts, MaxTroubled} \subseteq Nat
  /\ Lifetime \in Nat \ {0}

VARIABLES
  accountRows,    \* m_accounts: of each ID "none", "enabled" or "disabled"
  settingsRows,   \* providers/accounts-v1 as QSettings holds it
  diskRows,       \* ... and as the settings file does
  secrets,        \* the IDs whose credential key the secret service holds
  testStatus, tests,   \* status of each row; the connection tests not answered
  handleGrants,   \* m_grants: handle, account, provider, expiry
  wallClock, restarted,
  usedIds, issueLog, disclosed, troubled   \* history

accountVars == <<accountRows, settingsRows, diskRows, secrets, testStatus, tests,
                 handleGrants, wallClock, restarted, usedIds, issueLog,
                 disclosed, troubled>>

Stored == {u \in Users : accountRows[u] # "none"}
Nobody == [u \in Users |-> "none"]
Untested == [u \in Users |-> ""]

AccountsInit ==
  /\ accountRows = Nobody /\ settingsRows = Nobody /\ diskRows = Nobody
  /\ secrets = {} /\ testStatus = Untested /\ tests = [u \in Users |-> 0]
  /\ handleGrants = {}
  /\ wallClock = 0 /\ restarted = 0
  /\ usedIds = {} /\ issueLog = <<>> /\ disclosed = {} /\ troubled = {}

-----------------------------------------------------------------------------
(* persist(): setValue(), and a sync() that succeeds or not *)
PersistAccounts(rows, ok) ==
  /\ settingsRows' = rows
  /\ diskRows' = IF ok THEN rows ELSE diskRows

Troubles(hurt) ==
  /\ troubled' = troubled \cup hurt
  /\ Cardinality(troubled') <= MaxTroubled
Trouble(u, ok) == Troubles(IF ok THEN {} ELSE {u})

KeepHandles == UNCHANGED <<handleGrants, issueLog, disclosed>>
KeepClock == UNCHANGED <<wallClock, restarted>>

(* addAccount() of valid input, under a fresh UUID *)
AddAccountUnsaved(u) ==
  /\ u \notin usedIds /\ usedIds' = usedIds \cup {u}
  /\ secrets' \in {secrets, secrets \cup {u}}
  /\ Trouble(u, FALSE)
  /\ UNCHANGED <<accountRows, settingsRows, diskRows, testStatus, tests>>
  /\ KeepHandles /\ KeepClock

AddAccount(u, ok) ==
  /\ u \notin usedIds /\ usedIds' = usedIds \cup {u}
  /\ PersistAccounts([accountRows EXCEPT ![u] = "enabled"], ok)
  /\ IF ok THEN /\ accountRows' = [accountRows EXCEPT ![u] = "enabled"]
                /\ secrets' = secrets \cup {u}
     ELSE /\ secrets' \in {secrets, secrets \cup {u}}
          /\ UNCHANGED accountRows
  /\ Trouble(u, ok)
  /\ UNCHANGED <<testStatus, tests>> /\ KeepHandles /\ KeepClock

(* removeAccount(): the secret, the handles, the row, the settings *)
RevokeAccount(u) == {g \in handleGrants : g.account # u}

RemoveAccountRefused(u) ==
  /\ u \in Stored
  /\ secrets' \in {secrets, secrets \ {u}}
  /\ Trouble(u, FALSE)
  /\ UNCHANGED <<accountRows, settingsRows, diskRows, testStatus, tests, usedIds>>
  /\ KeepHandles /\ KeepClock

RemoveAccountOnly(u, ok) ==                           \* mutant of RemoveAccount
  /\ u \in Stored
  /\ handleGrants' = RevokeAccount(u)
  /\ accountRows' = [accountRows EXCEPT ![u] = "none"]
  /\ testStatus' = [testStatus EXCEPT ![u] = ""]
  /\ PersistAccounts(accountRows', ok) /\ Trouble(u, ok)
  /\ UNCHANGED <<secrets, tests, usedIds, issueLog, disclosed>> /\ KeepClock

RemoveAccount(u, ok) ==
  /\ u \in Stored
  /\ secrets' = secrets \ {u}
  /\ handleGrants' = RevokeAccount(u)
  /\ accountRows' = [accountRows EXCEPT ![u] = "none"]
  /\ testStatus' = [testStatus EXCEPT ![u] = ""]
  /\ PersistAccounts(accountRows', ok) /\ Trouble(u, ok)
  /\ UNCHANGED <<tests, usedIds, issueLog, disclosed>> /\ KeepClock

SetAccountEnabled(u, state, ok) ==
  /\ u \in Stored /\ state # accountRows[u]
  /\ accountRows' = [accountRows EXCEPT ![u] = state]
  /\ PersistAccounts(accountRows', ok) /\ Trouble(u, ok)
  /\ UNCHANGED <<secrets, testStatus, tests, usedIds>> /\ KeepHandles /\ KeepClock

(* testConnection(): ping() and authenticate() load the secret first and fail at   *)
(* once without it; an answer for an account that is gone is ignored.            *)
TestConnection(u, loaded) ==
  /\ u \in Stored /\ tests[u] < MaxTests
  /\ loaded => u \in secrets
  /\ IF loaded
     THEN /\ testStatus' = [testStatus EXCEPT ![u] = "testing"]
          /\ tests' = [tests EXCEPT ![u] = @ + 1]
     ELSE /\ testStatus' = [testStatus EXCEPT ![u] = "answered"]
          /\ UNCHANGED tests
  /\ UNCHANGED <<accountRows, settingsRows, diskRows, secrets, usedIds, troubled>>
  /\ KeepHandles /\ KeepClock

TestAnswered(u) ==
  /\ tests[u] > 0 /\ tests' = [tests EXCEPT ![u] = @ - 1]
  /\ testStatus' = IF u \in Stored THEN [testStatus EXCEPT ![u] = "answered"] ELSE testStatus
  /\ UNCHANGED <<accountRows, settingsRows, diskRows, secrets, usedIds, troubled>>
  /\ KeepHandles /\ KeepClock

-----------------------------------------------------------------------------
(* Handles *)

Unexpired == {g \in handleGrants : g.expires > wallClock}    \* purgeExpired()

(* issueCredentialHandle(): of an enabled account of the requesting provider *)
IssueHandle(u, asker) ==
  /\ Cardinality(DOMAIN issueLog) < MaxHandles
  /\ accountRows[u] = "enabled" /\ KindOf[u] = asker
  /\ LET h == Cardinality(DOMAIN issueLog) + 1 IN
     /\ handleGrants' = Unexpired \cup
          {[handle |-> h, account |-> u, provider |-> asker, expires |-> wallClock + Lifetime]}
     /\ issueLog' = [i \in DOMAIN issueLog \cup {h} |->
          IF i = h THEN [account |-> u, provider |-> asker, at |-> wallClock] ELSE issueLog[i]]
  /\ UNCHANGED <<accountRows, settingsRows, diskRows, secrets, testStatus, tests,
                 usedIds, disclosed, troubled>>
  /\ KeepClock

(* host.credential.read: the extension's permission, the handle, its scope, then  *)
(* the secret, whose lookup may fail; a handle in scope is used up either way.     *)
InScope(g, h, u, asker) == g.handle = h /\ g.account = u /\ g.provider = asker

ConsumeKeeping(h, u, asker) == Unexpired              \* mutant of Consume
Consume(h, u, asker) == {g \in Unexpired : ~InScope(g, h, u, asker)}

ReadCredential(h, u, asker, loaded) ==
  /\ asker \in Readers
  /\ h \in DOMAIN issueLog
  /\ LET redeemed == \E g \in Unexpired : InScope(g, h, u, asker) IN
     /\ loaded => redeemed /\ u \in secrets
     /\ handleGrants' = IF redeemed THEN Consume(h, u, asker) ELSE Unexpired
     /\ disclosed' = IF ~loaded THEN disclosed
                     ELSE disclosed \cup {[handle |-> h, account |-> u, to |-> asker,
                            at |-> wallClock,
                            again |-> \E d \in disclosed : d.handle = h]}
  /\ UNCHANGED <<accountRows, settingsRows, diskRows, secrets, testStatus, tests,
                 usedIds, issueLog, troubled>>
  /\ KeepClock

-----------------------------------------------------------------------------
ClockAdvances ==
  /\ wallClock < MaxClock /\ wallClock' = wallClock + 1
  /\ UNCHANGED <<accountRows, settingsRows, diskRows, secrets, testStatus, tests,
                 restarted, usedIds, troubled>>
  /\ KeepHandles

(* QSettings syncs on its own what an earlier sync() could not write. *)
SettingsSync ==
  /\ diskRows # settingsRows /\ diskRows' = settingsRows
  /\ UNCHANGED <<accountRows, settingsRows, secrets, testStatus, tests, usedIds, troubled>>
  /\ KeepHandles /\ KeepClock

(* The process ends, in the middle of addAccount() or removeAccount() too, and is   *)
(* started again: load() reads the settings file.                              *)
RestartWith(leftSecrets, hurt) ==
  /\ restarted < MaxRestarts /\ restarted' = restarted + 1
  /\ secrets' = leftSecrets
  /\ accountRows' = diskRows /\ settingsRows' = diskRows
  /\ testStatus' = Untested /\ tests' = [u \in Users |-> 0]
  /\ handleGrants' = {}
  /\ Troubles(hurt)
  /\ UNCHANGED <<diskRows, wallClock, issueLog, disclosed>>

Restart == RestartWith(secrets, {}) /\ UNCHANGED usedIds

DieInAddAccount(u) ==
  /\ u \notin usedIds /\ usedIds' = usedIds \cup {u}
  /\ RestartWith(secrets \cup {u}, {u})

DieInRemoveAccount(u) ==
  /\ u \in Stored /\ RestartWith(secrets \ {u}, {u}) /\ UNCHANGED usedIds

AccountsNext ==
  \/ \E u \in Users, ok \in BOOLEAN :
       \/ AddAccount(u, ok) \/ RemoveAccount(u, ok)
       \/ \E state \in {"enabled", "disabled"} : SetAccountEnabled(u, state, ok)
       \/ TestConnection(u, ok)
       \/ \E asker \in Askers, h \in 1..MaxHandles : ReadCredential(h, u, asker, ok)
  \/ \E u \in Users :
       \/ AddAccountUnsaved(u) \/ RemoveAccountRefused(u) \/ TestAnswered(u)
       \/ \E asker \in Askers : IssueHandle(u, asker)
       \/ DieInAddAccount(u) \/ DieInRemoveAccount(u)
  \/ ClockAdvances \/ SettingsSync \/ Restart

AccountsSpec == AccountsInit /\ [][AccountsNext]_accountVars

-----------------------------------------------------------------------------
Rows == [Users -> {"none", "enabled", "disabled"}]

(* Every variable of the account store stays in its domain. *)
AccountsTypeOK ==
  /\ {accountRows, settingsRows, diskRows} \subseteq Rows
  /\ secrets \subseteq usedIds /\ usedIds \subseteq Users
  /\ testStatus \in [Users -> {"", "testing", "answered"}]
  /\ tests \in [Users -> 0..MaxTests]
  /\ \A g \in handleGrants : g.handle \in DOMAIN issueLog
  /\ wallClock \in 0..MaxClock
  /\ \A u \in Users : testStatus[u] = "testing" => tests[u] > 0

(* A secret is handed out once per handle, within the lifetime of the handle, to   *)
(* the provider and for the account it was issued for (docs/provider-protocol.md:  *)
(* 43-48), and never for an account that has been removed since.                *)
HandlesOneShot ==
  [][\A d \in disclosed' \ disclosed :
       /\ ~d.again
       /\ d.at < issueLog[d.handle].at + Lifetime
       /\ issueLog[d.handle].account = d.account /\ issueLog[d.handle].provider = d.to
       /\ d.account \in Stored \/ d.account \in troubled]_accountVars

(* The three stores of an account tell of the same accounts: an account is shown,   *)
(* and will be after a restart, if and only if its secret is kept, unless a write   *)
(* of this account failed or the process died in the middle of one.             *)
StoresAgree ==
  \A u \in Users \ troubled :
    /\ u \in secrets <=> u \in Stored
    /\ diskRows[u] = accountRows[u]
=============================================================================
