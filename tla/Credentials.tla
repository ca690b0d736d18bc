---------------------------- MODULE Credentials -----------------------------
(***************************************************************************)
(* Model credentials: config_store.py keeps the key a login session has    *)
(* entered in memory for a sliding lifetime under an absolute cap;         *)
(* persistent_credentials.py keeps one sealed key of the administrator in  *)
(* the database, which his sessions fall back to.  A provider call takes   *)
(* the key when it starts; its success renews what is stored when it ends. *)
(* Saving runs after the middleware authenticated the session, so it may   *)
(* come after the logout.                                                  *)
(***************************************************************************)
EXTENDS Naturals, FiniteSets

CONSTANTS
    Logins,         \* login sessions; they name the credentials in memory
    AdminLogins,    \* those of the configured administrator
    Secrets,
    MasterKeys,     \* values of the encryption key over the releases
    NoKey,
    Ttl, AbsoluteMax,   \* sliding lifetime and absolute cap
    MaxSecond, MaxCalls \* bounds of the model

ASSUME CredentialAssumption ==
    /\ AdminLogins \subseteq Logins
    /\ Ttl \in Nat \ {0} /\ AbsoluteMax \in Nat /\ Ttl <= AbsoluteMax
    /\ MaxSecond \in Nat /\ MaxCalls \in Nat

VARIABLES
    second,     \* the clock
    logins,     \* the state of each login session
    saving,     \* sessions with an authenticated request that will save a key
    store,      \* SessionConfigStore._items
    expired,    \* SessionConfigStore._expiredSessionIds
    vault,      \* the row of auth_persistent_llm_credentials
    masterKey,  \* the key the vault is opened with
    calls,      \* provider calls under way
    savedAt     \* history: when a session last saved its key

credentialVars == <<second, logins, saving, store, expired, vault, masterKey, calls, savedAt>>

Credential == [secret : Secrets, expires : Nat, absolute : Nat]
Sealed == [secret : Secrets, key : MasterKeys]
Calls == [login : Logins, secret : Secrets, from : {"SESSION", "VAULT"}]

CredentialsTypeOK ==
    /\ second \in 0..MaxSecond
    /\ logins \in [Logins -> {"new", "open", "leaving", "closed"}]
    /\ saving \subseteq Logins /\ expired \subseteq Logins
    /\ store \in [Logins -> {NoKey} \cup Credential]
    /\ vault \in {NoKey} \cup Sealed /\ masterKey \in MasterKeys
    /\ calls \subseteq Calls
    /\ savedAt \in [Logins -> 0..MaxSecond]
    /\ \A l \in expired : store[l] = NoKey

CredentialsInit ==
    /\ second = 0 /\ logins = [l \in Logins |-> "new"] /\ saving = {}
    /\ store = [l \in Logins |-> NoKey] /\ expired = {}
    /\ vault = NoKey /\ masterKey \in MasterKeys /\ calls = {}
    /\ savedAt = [l \in Logins |-> 0]

\* every access to the store drops what has expired (_purgeExpiredLocked);
\* the mark that says so lasts a day, longer than the model's time
Purged ==
    LET gone == {l \in Logins : store[l] # NoKey /\ store[l].expires <= second}
    IN  [kept |-> [l \in Logins |-> IF l \in gone THEN NoKey ELSE store[l]],
         expired |-> expired \cup gone]

Unmarked(l) == Purged.expired \ {l}

OpenLogin(l) ==
    /\ logins[l] = "new" /\ logins' = [logins EXCEPT ![l] = "open"]
    /\ UNCHANGED <<second, saving, store, expired, vault, masterKey, calls, savedAt>>

BeginSave(l) ==
    /\ logins[l] = "open" /\ saving' = saving \cup {l}
    /\ UNCHANGED <<second, logins, store, expired, vault, masterKey, calls, savedAt>>

SetConfig(l, secret) ==
    /\ l \in saving /\ saving' = saving \ {l}
    /\ store' = [Purged.kept EXCEPT ![l] = [secret |-> secret, expires |-> second + Ttl,
                                            absolute |-> second + AbsoluteMax]]
    /\ expired' = Unmarked(l)
    /\ savedAt' = [savedAt EXCEPT ![l] = second]
    /\ UNCHANGED <<second, logins, vault, masterKey, calls>>

Cleared(l) == /\ store' = [store EXCEPT ![l] = NoKey] /\ expired' = expired \ {l}

ClearConfig(l) ==
    /\ logins[l] = "open" /\ Cleared(l)
    /\ UNCHANGED <<second, logins, saving, vault, masterKey, calls, savedAt>>

\* logout clears the key, waits for the interpretations of the account to
\* be dropped, then revokes the session
BeginLogout(l) ==
    /\ logins[l] = "open" /\ logins' = [logins EXCEPT ![l] = "leaving"] /\ Cleared(l)
    /\ UNCHANGED <<second, saving, vault, masterKey, calls, savedAt>>

EndLogout(l) ==
    /\ logins[l] \in {"leaving", "open"} /\ logins' = [logins EXCEPT ![l] = "closed"]
    /\ UNCHANGED <<second, saving, store, expired, vault, masterKey, calls, savedAt>>

VaultOpens == vault # NoKey /\ vault.key = masterKey

\* getRuntimeConfig: the session's own key, else the vault for the
\* administrator; a background run may ask after its session has ended
StartCall(l) ==
    /\ logins[l] # "new" /\ Cardinality(calls) < MaxCalls
    /\ store' = Purged.kept /\ expired' = Purged.expired
    /\ \/ /\ store'[l] # NoKey
          /\ calls' = calls \cup {[login |-> l, secret |-> store'[l].secret, from |-> "SESSION"]}
       \/ /\ store'[l] = NoKey /\ l \in AdminLogins /\ VaultOpens
          /\ calls' = calls \cup {[login |-> l, secret |-> vault.secret, from |-> "VAULT"]}
       \/ /\ store'[l] = NoKey /\ ~(l \in AdminLogins /\ VaultOpens)
          /\ calls' = calls
    /\ UNCHANGED <<second, logins, saving, vault, masterKey, savedAt>>

Earlier(a, b) == IF a <= b THEN a ELSE b

Renewed(c) == [c EXCEPT !.expires = Earlier(second + Ttl, c.absolute)]

\* mutant: a success renews without purging the store
RenewUnpurged(c) ==
    /\ c \in calls /\ calls' = calls \ {c}
    /\ store' = [store EXCEPT ![c.login] = IF @ = NoKey THEN @ ELSE Renewed(@)]
    /\ UNCHANGED <<second, logins, saving, expired, vault, masterKey, savedAt>>

\* markProviderCallSucceeded: whichever key is stored by now slides on
CallSucceeded(c) ==
    /\ c \in calls /\ calls' = calls \ {c}
    /\ store' = [Purged.kept EXCEPT ![c.login] = IF @ = NoKey THEN @ ELSE Renewed(@)]
    /\ expired' = Purged.expired
    /\ UNCHANGED <<second, logins, saving, vault, masterKey, savedAt>>

CallFailed(c) ==
    /\ c \in calls /\ calls' = calls \ {c}
    /\ UNCHANGED <<second, logins, saving, store, expired, vault, masterKey, savedAt>>

\* the administrator seals a key, after his password was checked again
SaveVault(l, secret) ==
    /\ l \in AdminLogins /\ logins[l] = "open"
    /\ vault' = [secret |-> secret, key |-> masterKey]
    /\ Cleared(l)
    /\ UNCHANGED <<second, logins, saving, masterKey, calls, savedAt>>

\* updateConfiguration opens the row and seals the same key again
UpdateVault(l) ==
    /\ l \in AdminLogins /\ logins[l] = "open" /\ VaultOpens /\ vault' = vault
    /\ Cleared(l)
    /\ UNCHANGED <<second, logins, saving, masterKey, calls, savedAt>>

DeleteVault(l) ==
    /\ l \in AdminLogins /\ logins[l] = "open" /\ vault' = NoKey /\ Cleared(l)
    /\ UNCHANGED <<second, logins, saving, masterKey, calls, savedAt>>

\* the purge task of main.py, once a minute
PurgeExpired ==
    /\ store' = Purged.kept /\ expired' = Purged.expired
    /\ UNCHANGED <<second, logins, saving, vault, masterKey, calls, savedAt>>

\* a restart forgets the keys in memory; a release may change the encryption key
RestartWith(key) ==
    /\ masterKey' = key /\ store' = [l \in Logins |-> NoKey] /\ expired' = {}
    /\ saving' = {} /\ calls' = {}
    /\ UNCHANGED <<second, logins, vault, savedAt>>

TickSecond ==
    /\ second < MaxSecond /\ second' = second + 1
    /\ UNCHANGED <<logins, saving, store, expired, vault, masterKey, calls, savedAt>>

CredentialsNext ==
    \/ \E l \in Logins :
          \/ OpenLogin(l) \/ BeginSave(l) \/ ClearConfig(l) \/ StartCall(l)
          \/ BeginLogout(l) \/ EndLogout(l) \/ UpdateVault(l) \/ DeleteVault(l)
          \/ \E secret \in Secrets : SetConfig(l, secret) \/ SaveVault(l, secret)
    \/ \E c \in calls : CallSucceeded(c) \/ CallFailed(c)
    \/ PurgeExpired \/ TickSecond
    \/ \E key \in MasterKeys : RestartWith(key)

CredentialsSpec == CredentialsInit /\ [][CredentialsNext]_credentialVars
-----------------------------------------------------------------------------
\* A key in memory lives no longer than the absolute cap from the moment it
\* was entered, however many calls renew it.
CapHolds ==
    \A l \in Logins : store[l] # NoKey => store[l].expires <= savedAt[l] + AbsoluteMax

\* A key that has expired or was cleared does not come back unless it is
\* entered again: the success of a call that outlived its key renews nothing.
NeverRevived ==
    \A l \in Logins :
        /\ store'[l] # NoKey /\ store'[l].expires > second'
        /\ store[l] = NoKey \/ store[l].expires <= second
        => \E secret \in Secrets : SetConfig(l, secret)

\* A call uses a key that is in force when it starts: its session's, unexpired,
\* or the sealed one when the row was sealed under the present encryption key.
CallsUseLiveKeys ==
    \A c \in calls' \ calls :
        IF c.from = "SESSION" THEN store[c.login] # NoKey /\ store[c.login].expires > second
        ELSE vault.key = masterKey

\* A key dies when it should: renewals stop at the cap, no late success revives
\* it, and no call starts with a dead one.
KeysExpire == [][CapHolds' /\ NeverRevived /\ CallsUseLiveKeys]_credentialVars
=============================================================================
