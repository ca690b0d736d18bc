----------------------------- MODULE ServicesProofs ----------------------------
(***************************************************************************)
(* Proofs about the services behind the API: who gets in and with which    *)
(* key, Credentials for any lifetimes, secrets, sessions and number of     *)
(* calls, and Accounts for any addresses, quotas and bounds; in            *)
(* EventPackFactory for any sources, requests and revisions, that a pack   *)
(* is made of approved text and a request has its effect once; and in      *)
(* RateLimiter for any rule lists and windows, that quotas hold.           *)
(***************************************************************************)
EXTENDS MCServices, SumProofs, FiniteSetTheorems, FunctionTheorems, WellFoundedInduction,
        TLAPS

-----------------------------------------------------------------------------
(* Credentials.  A key in memory carries its absolute end, which is fixed   *)
(* when it is entered; the sliding end never passes it.                     *)

EndsFixed ==
    \A l \in Logins : store[l] # NoKey =>
        /\ store[l].absolute = savedAt[l] + AbsoluteMax
        /\ store[l].expires <= store[l].absolute

KeyInv == CredentialsTypeOK /\ EndsFixed

\* What a purge leaves is what was there and has not expired.
LEMMA PurgedFacts ==
    ASSUME CredentialsTypeOK
    PROVE  /\ Purged.kept \in [Logins -> {NoKey} \cup Credential]
           /\ Purged.expired \subseteq Logins
           /\ \A l \in Logins :
                /\ Purged.kept[l] # NoKey =>
                      Purged.kept[l] = store[l] /\ ~(store[l].expires <= second)
                /\ l \in Purged.expired => Purged.kept[l] = NoKey
<1> DEFINE gone == {l \in Logins : store[l] # NoKey /\ store[l].expires <= second}
<1>1. /\ Purged.kept = [l \in Logins |-> IF l \in gone THEN NoKey ELSE store[l]]
      /\ Purged.expired = expired \cup gone
  BY DEF Purged
<1>2. gone \subseteq Logins /\ \A l \in Logins : l \notin gone /\ store[l] # NoKey
        => ~(store[l].expires <= second)
  OBVIOUS
<1> HIDE DEF gone
<1> QED BY <1>1, <1>2 DEF CredentialsTypeOK

\* a step of the store: each key was there and still slides within its end, or was
\* entered now
LEMMA StoreStep ==
    ASSUME KeyInv, second' = second, savedAt' \in [Logins -> 0..MaxSecond],
           store' \in [Logins -> {NoKey} \cup Credential],
           \A l \in Logins : store'[l] # NoKey =>
              \/ /\ store[l] # NoKey /\ ~(store[l].expires <= second)
                 /\ store'[l].absolute = store[l].absolute
                 /\ store'[l].expires <= store[l].absolute
                 /\ savedAt'[l] = savedAt[l]
              \/ /\ \E secret \in Secrets : SetConfig(l, secret)
                 /\ store'[l].absolute = savedAt'[l] + AbsoluteMax
                 /\ store'[l].expires <= store'[l].absolute
    PROVE  EndsFixed' /\ NeverRevived
<1>1. ASSUME NEW l \in Logins, store'[l] # NoKey
      PROVE  /\ store'[l].absolute = savedAt'[l] + AbsoluteMax
             /\ store'[l].expires <= store'[l].absolute
  BY <1>1 DEF KeyInv, EndsFixed
<1>2. EndsFixed'
  BY <1>1 DEF EndsFixed
<1>3. NeverRevived
  BY DEF NeverRevived
<1> QED BY <1>2, <1>3

\* the store only loses keys
LEMMA StoreShrinks ==
    ASSUME KeyInv, UNCHANGED <<second, savedAt>>,
           store' \in [Logins -> {NoKey} \cup Credential],
           \A l \in Logins : store'[l] # NoKey => store'[l] = store[l]
    PROVE  EndsFixed' /\ NeverRevived
<1>1. EndsFixed'
  BY DEF KeyInv, EndsFixed
<1>2. second \in Nat /\ \A l \in Logins : store[l] # NoKey => store[l].expires \in Nat
  BY CredentialAssumption DEF KeyInv, CredentialsTypeOK, Credential
<1>3. NeverRevived
  BY <1>2 DEF NeverRevived
<1> QED BY <1>1, <1>3

LEMMA CapFromEnds == KeyInv => CapHolds
<1> SUFFICES ASSUME KeyInv, NEW l \in Logins, store[l] # NoKey
             PROVE  store[l].expires <= savedAt[l] + AbsoluteMax
  BY DEF CapHolds
<1>1. store[l].expires <= store[l].absolute /\ store[l].absolute = savedAt[l] + AbsoluteMax
  BY DEF KeyInv, EndsFixed
<1> QED BY <1>1

KeyStep == KeyInv' /\ NeverRevived /\ CallsUseLiveKeys

\* the steps that start no call
LEMMA NoCallStep ==
    ASSUME calls' \subseteq calls, CredentialsTypeOK', EndsFixed', NeverRevived
    PROVE  KeyStep
BY DEF KeyStep, KeyInv, CallsUseLiveKeys

LEMMA LoginSteps ==
    ASSUME KeyInv, NEW l \in Logins,
           OpenLogin(l) \/ BeginSave(l) \/ EndLogout(l)
    PROVE  KeyStep
<1> USE DEF KeyInv
<1>1. UNCHANGED <<second, store, expired, vault, masterKey, calls, savedAt>>
  BY DEF OpenLogin, BeginSave, EndLogout
<1>2. CredentialsTypeOK'
  BY <1>1 DEF CredentialsTypeOK, OpenLogin, BeginSave, EndLogout
<1>3. EndsFixed' /\ NeverRevived
  BY <1>1, StoreShrinks DEF CredentialsTypeOK
<1> QED BY <1>1, <1>2, <1>3, NoCallStep

LEMMA ClearSteps ==
    ASSUME KeyInv, NEW l \in Logins,
           \/ ClearConfig(l) \/ BeginLogout(l) \/ UpdateVault(l) \/ DeleteVault(l)
           \/ \E secret \in Secrets : SaveVault(l, secret)
    PROVE  KeyStep
<1> USE DEF KeyInv
<1>1. /\ UNCHANGED <<second, saving, masterKey, calls, savedAt>>
      /\ store' = [store EXCEPT ![l] = NoKey] /\ expired' = expired \ {l}
  BY DEF ClearConfig, BeginLogout, SaveVault, UpdateVault, DeleteVault, Cleared
<1>2. /\ logins' \in [Logins -> {"new", "open", "leaving", "closed"}]
      /\ vault' \in {NoKey} \cup Sealed
  BY DEF ClearConfig, BeginLogout, SaveVault, UpdateVault, DeleteVault, CredentialsTypeOK,
     Sealed
<1>3. store' \in [Logins -> {NoKey} \cup Credential]
  BY <1>1 DEF CredentialsTypeOK
<1>4. \A k \in Logins : store'[k] = IF k = l THEN NoKey ELSE store[k]
  BY <1>1 DEF CredentialsTypeOK
<1>5. CredentialsTypeOK'
  BY <1>1, <1>2, <1>3, <1>4 DEF CredentialsTypeOK
<1>6. EndsFixed' /\ NeverRevived
  BY <1>1, <1>3, <1>4, StoreShrinks
<1> QED BY <1>1, <1>5, <1>6, NoCallStep

LEMMA SetConfigStep ==
    ASSUME KeyInv, NEW l \in Logins, NEW secret \in Secrets, SetConfig(l, secret)
    PROVE  KeyStep
<1> USE DEF KeyInv
<1> DEFINE new == [secret |-> secret, expires |-> second + Ttl, absolute |-> second + AbsoluteMax]
<1>1. /\ store' = [Purged.kept EXCEPT ![l] = new] /\ expired' = Purged.expired \ {l}
      /\ savedAt' = [savedAt EXCEPT ![l] = second] /\ saving' = saving \ {l}
      /\ UNCHANGED <<second, logins, vault, masterKey, calls>>
  BY DEF SetConfig, Unmarked
<1>2. /\ second \in 0..MaxSecond /\ second \in Nat /\ Ttl \in Nat /\ AbsoluteMax \in Nat
      /\ Ttl <= AbsoluteMax
  BY CredentialAssumption DEF CredentialsTypeOK
<1>3. new \in Credential /\ new.absolute = second + AbsoluteMax /\ new.expires <= new.absolute
  BY <1>2 DEF Credential
<1> HIDE DEF new
<1>4. /\ store' \in [Logins -> {NoKey} \cup Credential]
      /\ \A k \in Logins : store'[k] = IF k = l THEN new ELSE Purged.kept[k]
      /\ savedAt' \in [Logins -> 0..MaxSecond]
      /\ \A k \in Logins : savedAt'[k] = IF k = l THEN second ELSE savedAt[k]
  BY <1>1, <1>2, <1>3, PurgedFacts DEF CredentialsTypeOK
<1>5. CredentialsTypeOK'
  BY <1>1, <1>4, PurgedFacts DEF CredentialsTypeOK
<1>6. ASSUME NEW k \in Logins, store'[k] # NoKey
      PROVE  \/ /\ store[k] # NoKey /\ ~(store[k].expires <= second)
                /\ store'[k].absolute = store[k].absolute
                /\ store'[k].expires <= store[k].absolute
                /\ savedAt'[k] = savedAt[k]
             \/ /\ \E s \in Secrets : SetConfig(k, s)
                /\ store'[k].absolute = savedAt'[k] + AbsoluteMax
                /\ store'[k].expires <= store'[k].absolute
  <2>1. CASE k = l
    BY <1>3, <1>4, <2>1
  <2>2. CASE k # l
    BY <1>4, <1>6, <2>2, PurgedFacts DEF EndsFixed
  <2> QED BY <2>1, <2>2
<1>7. EndsFixed' /\ NeverRevived
  BY <1>1, <1>4, <1>6, StoreStep
<1> QED BY <1>1, <1>5, <1>7, NoCallStep

LEMMA StartCallStep ==
    ASSUME KeyInv, NEW l \in Logins, StartCall(l) PROVE KeyStep
<1> USE DEF KeyInv
<1>1. /\ store' = Purged.kept /\ expired' = Purged.expired
      /\ UNCHANGED <<second, logins, saving, vault, masterKey, savedAt>>
  BY DEF StartCall
<1>2. ASSUME NEW c \in calls' \ calls
      PROVE  /\ c \in Calls
             /\ IF c.from = "SESSION"
                THEN store[c.login] # NoKey /\ store[c.login].expires > second
                ELSE vault.key = masterKey
  <2>1. CASE /\ store'[l] # NoKey
             /\ c = [login |-> l, secret |-> store'[l].secret, from |-> "SESSION"]
    <3>1. /\ store'[l] = store[l] /\ store[l] # NoKey /\ store[l] \in Credential
          /\ ~(store[l].expires <= second)
      BY <1>1, <2>1, PurgedFacts DEF CredentialsTypeOK
    <3>2. second \in Nat /\ store[l].expires \in Nat /\ store[l].secret \in Secrets
      BY <3>1, CredentialAssumption DEF CredentialsTypeOK, Credential
    <3> QED BY <2>1, <3>1, <3>2 DEF Calls
  <2>2. CASE /\ VaultOpens
             /\ c = [login |-> l, secret |-> vault.secret, from |-> "VAULT"]
    <3>1. vault \in Sealed /\ vault.key = masterKey
      BY <2>2 DEF VaultOpens, CredentialsTypeOK
    <3> QED BY <2>2, <3>1 DEF Calls, Sealed
  <2> QED BY <1>2, <2>1, <2>2 DEF StartCall
<1>3. CredentialsTypeOK'
  BY <1>1, <1>2, PurgedFacts DEF CredentialsTypeOK
<1>4. EndsFixed' /\ NeverRevived
  BY <1>1, PurgedFacts, StoreShrinks
<1>5. CallsUseLiveKeys
  BY <1>2 DEF CallsUseLiveKeys
<1> QED BY <1>3, <1>4, <1>5 DEF KeyStep

LEMMA EndCallSteps ==
    ASSUME KeyInv, NEW c \in calls, CallSucceeded(c) \/ CallFailed(c) PROVE KeyStep
<1> USE DEF KeyInv
<1> DEFINE l == c.login
<1>1. l \in Logins /\ second \in Nat /\ Ttl \in Nat
  BY CredentialAssumption DEF CredentialsTypeOK, Calls
<1>2. CASE CallFailed(c)
  <2>1. UNCHANGED <<second, store, savedAt>> /\ calls' \subseteq calls
    BY <1>2 DEF CallFailed
  <2>2. CredentialsTypeOK'
    BY <1>2 DEF CallFailed, CredentialsTypeOK
  <2>3. EndsFixed' /\ NeverRevived
    BY <2>1, StoreShrinks DEF CredentialsTypeOK
  <2> QED BY <2>1, <2>2, <2>3, NoCallStep
<1>3. CASE CallSucceeded(c)
  <2> DEFINE kept == Purged.kept
             new == IF kept[l] = NoKey THEN NoKey ELSE Renewed(kept[l])
  <2>1. /\ store' = [kept EXCEPT ![l] = new] /\ expired' = Purged.expired
        /\ calls' \subseteq calls
        /\ UNCHANGED <<second, logins, saving, vault, masterKey, savedAt>>
    BY <1>3 DEF CallSucceeded
  <2>2. ASSUME kept[l] # NoKey
        PROVE  /\ new \in Credential /\ new.absolute = store[l].absolute
               /\ new.expires <= store[l].absolute /\ kept[l] = store[l]
    <3>1. kept[l] = store[l] /\ store[l] \in Credential
      BY <1>1, <2>2, PurgedFacts DEF CredentialsTypeOK
    <3> DEFINE end == Earlier(second + Ttl, store[l].absolute)
    <3>2. end \in Nat /\ end <= store[l].absolute
      BY <1>1, <3>1 DEF Earlier, Credential
    <3>3. new = [store[l] EXCEPT !.expires = end]
      BY <2>2, <3>1 DEF Renewed
    <3> HIDE DEF end, new
    <3> QED BY <3>1, <3>2, <3>3 DEF Credential
  <2>3. kept[l] = NoKey => new = NoKey
    OBVIOUS
  <2> HIDE DEF new
  <2>4. /\ kept \in [Logins -> {NoKey} \cup Credential]
        /\ new \in {NoKey} \cup Credential
    BY <2>2, <2>3, PurgedFacts
  <2>5. /\ store' \in [Logins -> {NoKey} \cup Credential]
        /\ \A k \in Logins : store'[k] = IF k = l THEN new ELSE kept[k]
    BY <1>1, <2>1, <2>4
  <2>6. CredentialsTypeOK'
    BY <2>1, <2>3, <2>5, PurgedFacts DEF CredentialsTypeOK
  <2>7. ASSUME NEW k \in Logins, store'[k] # NoKey
        PROVE  /\ store[k] # NoKey /\ ~(store[k].expires <= second)
               /\ store'[k].absolute = store[k].absolute
               /\ store'[k].expires <= store[k].absolute
    <3>1. kept[k] # NoKey
      BY <2>3, <2>5, <2>7
    <3>2. kept[k] = store[k] /\ ~(store[k].expires <= second)
      BY <3>1, PurgedFacts
    <3> QED BY <2>2, <2>5, <3>1, <3>2 DEF EndsFixed
  <2>8. EndsFixed' /\ NeverRevived
    BY <2>1, <2>5, <2>7, StoreStep DEF CredentialsTypeOK
  <2> QED BY <2>1, <2>6, <2>8, NoCallStep
<1> QED BY <1>2, <1>3

LEMMA ClockSteps ==
    ASSUME KeyInv, NEW key \in MasterKeys, PurgeExpired \/ TickSecond \/ RestartWith(key)
    PROVE  KeyStep
<1> USE DEF KeyInv
<1>1. CASE PurgeExpired
  <2>1. /\ store' = Purged.kept /\ expired' = Purged.expired
        /\ UNCHANGED <<second, logins, saving, vault, masterKey, calls, savedAt>>
    BY <1>1 DEF PurgeExpired
  <2>2. CredentialsTypeOK'
    BY <2>1, PurgedFacts DEF CredentialsTypeOK
  <2>3. EndsFixed' /\ NeverRevived
    BY <2>1, PurgedFacts, StoreShrinks
  <2> QED BY <2>1, <2>2, <2>3, NoCallStep
<1>2. CASE TickSecond
  <2>1. /\ second' = second + 1 /\ second \in Nat /\ second' \in 0..MaxSecond
        /\ UNCHANGED <<logins, saving, store, expired, vault, masterKey, calls, savedAt>>
    BY <1>2, CredentialAssumption DEF TickSecond, CredentialsTypeOK
  <2>2. CredentialsTypeOK'
    BY <2>1 DEF CredentialsTypeOK
  <2>3. EndsFixed'
    BY <2>1 DEF EndsFixed
  <2>4. NeverRevived
    <3>1. \A l \in Logins : store[l] # NoKey => store[l].expires \in Nat
      BY DEF CredentialsTypeOK, Credential
    <3> QED BY <2>1, <3>1 DEF NeverRevived
  <2> QED BY <2>1, <2>2, <2>3, <2>4, NoCallStep
<1>3. CASE RestartWith(key)
  <2>1. /\ store' = [l \in Logins |-> NoKey] /\ expired' = {} /\ saving' = {}
        /\ calls' = {} /\ masterKey' = key /\ UNCHANGED <<second, logins, vault, savedAt>>
    BY <1>3 DEF RestartWith
  <2>2. CredentialsTypeOK'
    BY <2>1 DEF CredentialsTypeOK
  <2>3. EndsFixed' /\ NeverRevived
    BY <2>1, StoreShrinks
  <2> QED BY <2>1, <2>2, <2>3, NoCallStep
<1> QED BY <1>1, <1>2, <1>3

LEMMA CredentialsStep ==
    ASSUME KeyInv, CredentialsNext PROVE KeyStep
<1>1. CASE \E l \in Logins :
          \/ OpenLogin(l) \/ BeginSave(l) \/ EndLogout(l) \/ StartCall(l)
  BY <1>1, LoginSteps, StartCallStep
<1>2. CASE \E l \in Logins : ClearConfig(l) \/ BeginLogout(l) \/ UpdateVault(l) \/ DeleteVault(l)
  BY <1>2, ClearSteps
<1>3. CASE \E l \in Logins, secret \in Secrets : SetConfig(l, secret) \/ SaveVault(l, secret)
  BY <1>3, SetConfigStep, ClearSteps
<1>4. CASE \E c \in calls : CallSucceeded(c) \/ CallFailed(c)
  BY <1>4, EndCallSteps
<1>5. CASE PurgeExpired \/ TickSecond \/ \E key \in MasterKeys : RestartWith(key)
  BY <1>5, ClockSteps DEF KeyInv, CredentialsTypeOK
<1> QED BY <1>1, <1>2, <1>3, <1>4, <1>5 DEF CredentialsNext

LEMMA KeyInvHolds == CredentialsSpec => []KeyInv
<1>1. CredentialsInit => KeyInv
  BY CredentialAssumption DEF CredentialsInit, KeyInv, CredentialsTypeOK, EndsFixed
<1>2. KeyInv /\ [CredentialsNext]_credentialVars => KeyInv'
  <2>1. KeyInv /\ CredentialsNext => KeyInv'
    BY CredentialsStep DEF KeyStep
  <2>2. KeyInv /\ UNCHANGED credentialVars => KeyInv'
    BY DEF KeyInv, CredentialsTypeOK, EndsFixed, credentialVars
  <2> QED BY <2>1, <2>2
<1> QED BY <1>1, <1>2, PTL DEF CredentialsSpec

\* A key dies when it should: renewals stop at the cap, no late success revives it,
\* and no call starts with a dead one, whatever logins, calls, purges and restarts
\* are interleaved.
THEOREM KeysDie == CredentialsSpec => KeysExpire
<1>1. KeyInv /\ [CredentialsNext]_credentialVars
        => [CapHolds' /\ NeverRevived /\ CallsUseLiveKeys]_credentialVars
  <2>1. KeyInv' => CapHolds'
    BY CapFromEnds, PTL
  <2> QED BY <2>1, CredentialsStep DEF KeyStep
<1> QED BY <1>1, KeyInvHolds, PTL DEF CredentialsSpec, KeysExpire

-----------------------------------------------------------------------------
(* Accounts.  The rows of the two tables carry the numbers they were issued *)
(* with; a code counts its wrong guesses among its attempts and is right    *)
(* only when it is spent.                                                   *)

RowsIssued ==
    /\ \A c \in challenges : c.id <= issued.codes
    /\ \A s \in sessions : s.id <= issued.sessions /\ Exists(s.email)
    /\ \A r \in requests : r.session <= issued.sessions
    /\ \A s, t \in sessions : s.id = t.id => s = t

GuessesCounted ==
    \A c \in challenges :
        /\ c.wrong <= c.attempts /\ c.attempts <= MaxAttempts
        /\ c.right <= 1 /\ (c.right = 1 => c.used)

AccountInv ==
    /\ AccountsTypeOK /\ IsFiniteSet(challenges) /\ RowsIssued /\ GuessesCounted
    /\ SessionsMatchAccount /\ GateHolds /\ OneCodeInForce /\ HourQuotaKept

LEMMA EarnedFromInv == AccountInv => AccessIsEarned
<1> SUFFICES ASSUME AccountInv, NEW c \in challenges
             PROVE  c.wrong <= MaxAttempts /\ c.right <= 1
  BY DEF AccountInv, AccessIsEarned, CodesAreSpent
<1>1. c.wrong \in Nat /\ c.attempts \in Nat /\ MaxAttempts \in Nat
  BY AccountsAssumption DEF AccountInv, AccountsTypeOK, Challenge
<1> QED BY <1>1 DEF AccountInv, GuessesCounted

\* The image of a finite set under a function is finite and no larger.
LEMMA ImageOfFinite ==
    ASSUME NEW S, IsFiniteSet(S), NEW f
    PROVE  /\ IsFiniteSet({f[w] : w \in S})
           /\ Cardinality({f[w] : w \in S}) <= Cardinality(S)
<1> DEFINE g == [w \in S |-> f[w]]
           T == {f[w] : w \in S}
<1>1. g \in [S -> T] /\ \A t \in T : \E w \in S : g[w] = t
  OBVIOUS
<1>2. g \in Surjection(S, T)
  BY <1>1, Fun_IsSurj
<1> QED BY <1>2, FS_Surjection

\* the codes of one purpose an address got within the last hour
Recent(codes, e, purpose, now) ==
    {c \in codes : c.email = e /\ c.purpose = purpose /\ c.created + Hour >= now}

\* Rewriting codes without moving them in time adds none to an hour.
LEMMA RecentCodes ==
    ASSUME AccountInv, NEW f, NEW now \in Nat, clock <= now,
           \A c \in challenges :
              /\ f[c].email = c.email /\ f[c].purpose = c.purpose /\ f[c].created = c.created,
           NEW codes \in SUBSET {f[c] : c \in challenges}, NEW e, NEW purpose
    PROVE  /\ IsFiniteSet(codes) /\ IsFiniteSet(Recent(codes, e, purpose, now))
           /\ IsFiniteSet(Recent(challenges, e, purpose, clock))
           /\ Cardinality(Recent(codes, e, purpose, now))
                <= Cardinality(Recent(challenges, e, purpose, clock))
<1> DEFINE old == Recent(challenges, e, purpose, clock)
           image == {f[c] : c \in old}
<1>1. IsFiniteSet(codes)
  <2>1. IsFiniteSet(challenges)
    BY DEF AccountInv
  <2>2. IsFiniteSet({f[c] : c \in challenges})
    BY <2>1, ImageOfFinite
  <2> QED BY <2>2, FS_Subset
<1>2. IsFiniteSet(old)
  BY FS_Subset DEF AccountInv, Recent
<1>3. IsFiniteSet(image) /\ Cardinality(image) <= Cardinality(old)
  BY <1>2, ImageOfFinite
<1>4. Hour \in Nat /\ clock \in Nat /\ \A c \in challenges : c.created \in Nat
  BY AccountsAssumption DEF AccountInv, AccountsTypeOK, Challenge
<1>5. Recent(codes, e, purpose, now) \subseteq image
  BY <1>4 DEF Recent
<1>6. /\ IsFiniteSet(Recent(codes, e, purpose, now))
      /\ Cardinality(Recent(codes, e, purpose, now)) <= Cardinality(image)
  BY <1>3, <1>5, FS_Subset
<1>7. /\ Cardinality(image) \in Nat /\ Cardinality(old) \in Nat
      /\ Cardinality(Recent(codes, e, purpose, now)) \in Nat
  BY <1>2, <1>3, <1>6, FS_CardinalityType
<1> HIDE DEF old, image
<1>8. Cardinality(Recent(codes, e, purpose, now)) <= Cardinality(old)
  BY <1>3, <1>6, <1>7
<1> QED BY <1>1, <1>2, <1>6, <1>8 DEF old

\* the part of the invariant about codes
CodeInv == /\ challenges \subseteq Challenge /\ IsFiniteSet(challenges)
           /\ \A c \in challenges : c.id <= issued.codes
           /\ GuessesCounted /\ OneCodeInForce /\ HourQuotaKept

\* Codes rewritten one by one, none of them put back in force, keep it.
LEMMA CodesRewritten ==
    ASSUME AccountInv, NEW f, clock' \in Nat, clock <= clock', issued'.codes = issued.codes,
           challenges' \subseteq {f[c] : c \in challenges},
           \A c \in challenges :
              /\ f[c] \in Challenge /\ f[c].id = c.id
              /\ f[c].email = c.email /\ f[c].purpose = c.purpose /\ f[c].created = c.created
              /\ c.used => f[c].used
              /\ f[c].wrong <= f[c].attempts /\ f[c].attempts <= MaxAttempts
              /\ f[c].right <= 1 /\ (f[c].right = 1 => f[c].used)
    PROVE  CodeInv'
<1>1. GuessesCounted' /\ challenges' \subseteq Challenge
      /\ \A c \in challenges' : c.id <= issued'.codes
  BY DEF GuessesCounted, AccountInv, RowsIssued
<1>2. OneCodeInForce'
  BY DEF AccountInv, OneCodeInForce
<1>3. IsFiniteSet(challenges')
  BY RecentCodes
<1>4. HourQuotaKept'
  <2> SUFFICES ASSUME NEW e \in Emails, NEW purpose \in Purposes
               PROVE  Cardinality(Recent(challenges', e, purpose, clock')) <= HourQuota
    BY DEF HourQuotaKept, Recent
  <2>1. /\ IsFiniteSet(Recent(challenges', e, purpose, clock'))
        /\ IsFiniteSet(Recent(challenges, e, purpose, clock))
        /\ Cardinality(Recent(challenges', e, purpose, clock'))
             <= Cardinality(Recent(challenges, e, purpose, clock))
    BY RecentCodes
  <2>2. Cardinality(Recent(challenges, e, purpose, clock)) <= HourQuota
    BY DEF AccountInv, HourQuotaKept, Recent
  <2>3. /\ Cardinality(Recent(challenges', e, purpose, clock')) \in Nat
        /\ Cardinality(Recent(challenges, e, purpose, clock)) \in Nat /\ HourQuota \in Nat
    BY <2>1, FS_CardinalityType, AccountsAssumption
  <2> QED BY <2>1, <2>2, <2>3
<1> QED BY <1>1, <1>2, <1>3, <1>4 DEF CodeInv

\* No code is touched, while the clock may go on.
LEMMA CodesUntouched ==
    ASSUME AccountInv, clock' \in Nat, clock <= clock', issued'.codes = issued.codes,
           challenges' \subseteq challenges
    PROVE  CodeInv'
<1> DEFINE f == [c \in challenges |-> c]
<1>1. challenges' \subseteq {f[c] : c \in challenges}
  OBVIOUS
<1>2. \A c \in challenges : c \in Challenge
  BY DEF AccountInv, AccountsTypeOK
<1> QED BY <1>1, <1>2, CodesRewritten, ZenonT(60) DEF AccountInv, GuessesCounted

\* the part of the invariant about sessions and the requests made with them
SessionInv ==
    /\ sessions \subseteq Session /\ requests \subseteq [session : 1..MaxSessions, op : Ops]
    /\ \A s \in sessions : s.id <= issued.sessions /\ Exists(s.email)
    /\ \A r \in requests : r.session <= issued.sessions
    /\ \A s, t \in sessions : s.id = t.id => s = t
    /\ SessionsMatchAccount /\ GateHolds

\* what a step may leave among the requests: those there were, unless the terms have
\* changed, and new ones of a session that may pass the gate
RequestsStand ==
    \A r \in requests' :
        /\ r \in [session : 1..MaxSessions, op : Ops] /\ r.session <= issued.sessions
        /\ \/ r \in requests /\ \A s \in sessions : users[s.email].legal => users'[s.email].legal
           \/ r.op \in Exempt
           \/ \A s \in sessions : s.id = r.session => users'[s.email].legal

\* Sessions rewritten one by one, none of them opened again, keep it as long as
\* those still open fit their account.
LEMMA SessionsRewritten ==
    ASSUME AccountInv, NEW f, UNCHANGED issued,
           sessions' \subseteq {f[s] : s \in sessions},
           \A s \in sessions :
              /\ f[s] \in Session /\ f[s].id = s.id /\ f[s].email = s.email,
           \A s \in sessions' :
              /\ users'[s.email] # NoUser
              /\ ~s.revoked => /\ users'[s.email].status = "ACTIVE"
                               /\ users'[s.email].password = s.password,
           RequestsStand
    PROVE  SessionInv'
<1>1. /\ sessions' \subseteq Session /\ requests' \subseteq [session : 1..MaxSessions, op : Ops]
      /\ \A s \in sessions' : s.id <= issued'.sessions /\ users'[s.email] # NoUser
      /\ \A r \in requests' : r.session <= issued'.sessions
  BY DEF AccountInv, RowsIssued, RequestsStand
<1>2. \A s, t \in sessions' : s.id = t.id => s = t
  BY DEF AccountInv, RowsIssued
<1>3. SessionsMatchAccount'
  BY DEF SessionsMatchAccount, Exists
<1>4. GateHolds'
  <2> SUFFICES ASSUME NEW r \in requests', r.op \notin Exempt,
                      NEW s \in sessions', s.id = r.session
               PROVE  users'[s.email].legal
    BY DEF GateHolds, RowOf
  <2>1. PICK t \in sessions : t.id = r.session /\ t.email = s.email
    OBVIOUS
  <2>2. CASE r \in requests /\ \A u \in sessions : users[u.email].legal => users'[u.email].legal
    BY <2>1, <2>2 DEF AccountInv, GateHolds, RowOf
  <2>3. CASE \A u \in sessions : u.id = r.session => users'[u.email].legal
    BY <2>1, <2>3
  <2> QED BY <2>2, <2>3 DEF RequestsStand
<1> QED BY <1>1, <1>2, <1>3, <1>4 DEF SessionInv, Exists

\* No session is touched, nor what the rows of an account say of them.
LEMMA SessionsUntouched ==
    ASSUME AccountInv, UNCHANGED issued, sessions' \subseteq sessions,
           \A s \in sessions' :
              /\ users'[s.email] # NoUser
              /\ ~s.revoked => /\ users'[s.email].status = users[s.email].status
                               /\ users'[s.email].password = users[s.email].password,
           RequestsStand
    PROVE  SessionInv'
<1> DEFINE f == [s \in sessions |-> s]
<1>1. sessions' \subseteq {f[s] : s \in sessions}
  OBVIOUS
<1>2. \A s \in sessions : s \in Session
  BY DEF AccountInv, AccountsTypeOK
<1>3. \A s \in sessions' :
        ~s.revoked => /\ users'[s.email].status = "ACTIVE"
                      /\ users'[s.email].password = s.password
  BY DEF AccountInv, SessionsMatchAccount
<1> HIDE DEF f
<1>4. \A s \in sessions : f[s] = s
  BY DEF f
<1> QED BY <1>1, <1>2, <1>3, <1>4, SessionsRewritten

\* A session opened with the password of an active account keeps it.
LEMMA SessionOpened ==
    ASSUME AccountInv, NEW e \in Emails, NEW p \in Passwords, Open(e, p), UNCHANGED requests,
           users'[e].status = "ACTIVE", users'[e].password = p,
           users'[e] # NoUser,
           \A s \in sessions : users'[s.email] = users[s.email]
    PROVE  SessionInv' /\ issued'.codes = issued.codes
           /\ issued' \in [codes : 0..MaxChallenges, sessions : 0..MaxSessions]
<1> DEFINE new == [id |-> issued.sessions + 1, email |-> e, password |-> p, opened |-> clock,
                   seen |-> clock, revoked |-> FALSE]
<1>1. /\ issued.sessions < MaxSessions /\ sessions' = sessions \cup {new}
      /\ issued' = [issued EXCEPT !.sessions = issued.sessions + 1]
  BY DEF Open
<1>2. /\ issued \in [codes : 0..MaxChallenges, sessions : 0..MaxSessions]
      /\ issued.sessions \in Nat /\ MaxSessions \in Nat /\ MaxChallenges \in Nat
      /\ clock \in 0..MaxClock
  BY AccountsAssumption DEF AccountInv, AccountsTypeOK
<1>3. issued.sessions + 1 \in 1..MaxSessions
  BY <1>1, <1>2
<1>4. new \in Session
  BY <1>2, <1>3 DEF Session
<1>5. /\ issued'.sessions = issued.sessions + 1 /\ issued'.codes = issued.codes
      /\ issued' \in [codes : 0..MaxChallenges, sessions : 0..MaxSessions]
  BY <1>1, <1>2, <1>3
<1>6. /\ sessions \subseteq Session /\ requests \subseteq [session : 1..MaxSessions, op : Ops]
      /\ \A s \in sessions : s.id \in Nat /\ s.id <= issued.sessions
      /\ \A r \in requests : r.session \in Nat /\ r.session <= issued.sessions
  BY <1>2 DEF AccountInv, AccountsTypeOK, RowsIssued, Session
<1>7. new.id = issued.sessions + 1 /\ new.email = e /\ new.password = p /\ ~new.revoked
  OBVIOUS
<1> HIDE DEF new
<1>8. /\ sessions' \subseteq Session /\ requests' \subseteq [session : 1..MaxSessions, op : Ops]
      /\ \A s \in sessions' : s.id <= issued'.sessions
      /\ \A r \in requests' : r.session <= issued'.sessions
  BY <1>1, <1>2, <1>4, <1>5, <1>6, <1>7
<1>9. \A s, t \in sessions' : s.id = t.id => s = t
  <2>1. \A s \in sessions : s.id # new.id
    BY <1>2, <1>6, <1>7
  <2> QED BY <1>1, <2>1 DEF AccountInv, RowsIssued
<1>10. (\A s \in sessions' : Exists(s.email)') /\ SessionsMatchAccount'
  BY <1>1, <1>7 DEF AccountInv, RowsIssued, SessionsMatchAccount, Exists
<1>11. GateHolds'
  <2>1. \A r \in requests : r.session # new.id
    BY <1>2, <1>6, <1>7
  <2> QED BY <1>1, <2>1 DEF AccountInv, GateHolds, RowOf
<1> QED BY <1>5, <1>8, <1>9, <1>10, <1>11 DEF SessionInv

\* the rest of the invariant
LEMMA InvOfParts ==
    ASSUME CodeInv', SessionInv', clock' \in 0..MaxClock,
           users' \in [Emails -> {NoUser} \cup Account],
           mails' \subseteq 1..MaxChallenges, known' \subseteq 1..MaxChallenges,
           issued' \in [codes : 0..MaxChallenges, sessions : 0..MaxSessions]
    PROVE  AccountInv'
<1>1. AccountsTypeOK'
  BY DEF CodeInv, SessionInv, AccountsTypeOK
<1>2. RowsIssued'
  BY DEF CodeInv, SessionInv, RowsIssued
<1> QED BY <1>1, <1>2 DEF CodeInv, SessionInv, AccountInv

\* what every step finds
LEMMA AccountFacts ==
    ASSUME AccountInv
    PROVE  /\ clock \in 0..MaxClock /\ clock \in Nat /\ MaxClock \in Nat /\ clock <= clock
           /\ users \in [Emails -> {NoUser} \cup Account]
           /\ challenges \subseteq Challenge /\ sessions \subseteq Session
           /\ mails \subseteq 1..MaxChallenges /\ known \subseteq 1..MaxChallenges
           /\ issued \in [codes : 0..MaxChallenges, sessions : 0..MaxSessions]
           /\ requests \subseteq [session : 1..MaxSessions, op : Ops]
           /\ \A r \in requests : r.session <= issued.sessions
           /\ \A s \in sessions : s.email \in Emails /\ users[s.email] # NoUser
           /\ MaxChallenges \in Nat /\ MaxSessions \in Nat /\ MaxAttempts \in Nat /\ HourQuota \in Nat
           /\ \A u \in Account : u # NoUser
BY AccountsAssumption DEF AccountInv, AccountsTypeOK, RowsIssued, Session, Exists, NoUser, Account

\* Requests that only leave stand, whatever happens that keeps the acceptance of terms.
LEMMA RequestsLeave ==
    ASSUME AccountInv, requests' \subseteq requests,
           requests' = {} \/ \A s \in sessions : users[s.email].legal => users'[s.email].legal
    PROVE  RequestsStand
BY AccountFacts DEF RequestsStand

LEMMA RequestCodeKeeps ==
    ASSUME AccountInv, NEW e \in Emails, NEW purpose \in Purposes, RequestCode(e, purpose)
    PROVE  AccountInv'
<1> DEFINE id == issued.codes + 1
           new == [id |-> id, email |-> e, purpose |-> purpose, created |-> clock,
                   used |-> FALSE, attempts |-> 0, wrong |-> 0, right |-> 0]
           f == [c \in challenges |-> IF c.email = e /\ c.purpose = purpose
                                      THEN [c EXCEPT !.used = TRUE] ELSE c]
           old == {f[c] : c \in challenges}
<1>1. /\ issued.codes < MaxChallenges /\ issued' = [issued EXCEPT !.codes = issued.codes + 1]
      /\ challenges' = old \cup {new} /\ mails' \subseteq mails \cup {id}
      /\ Cardinality(Recent(challenges, e, purpose, clock)) < HourQuota
      /\ UNCHANGED <<clock, users, known, sessions, requests>>
  BY DEF RequestCode, Supersede, CodesOf, Recent
<1>2. /\ id \in 1..MaxChallenges /\ issued'.codes = id /\ issued'.sessions = issued.sessions
      /\ issued' \in [codes : 0..MaxChallenges, sessions : 0..MaxSessions]
      /\ mails' \subseteq 1..MaxChallenges /\ issued.codes \in Nat
  BY <1>1, AccountFacts
<1>3. new \in Challenge
  BY <1>2, AccountFacts DEF Challenge
<1>4. /\ new.id = id /\ new.email = e /\ new.purpose = purpose /\ new.created = clock /\ ~new.used
      /\ new.attempts = 0 /\ new.wrong = 0 /\ new.right = 0
  OBVIOUS
<1>5. \A c \in challenges :
        /\ f[c] \in Challenge /\ f[c].id = c.id
        /\ f[c].email = c.email /\ f[c].purpose = c.purpose /\ f[c].created = c.created
        /\ c.used => f[c].used
        /\ c.email = e /\ c.purpose = purpose => f[c].used
        /\ f[c].wrong = c.wrong /\ f[c].attempts = c.attempts /\ f[c].right = c.right
  BY AccountFacts DEF Challenge
<1> HIDE DEF new, f, id
<1>6. CodeInv'
  <2>1. challenges' \subseteq Challenge
    BY <1>1, <1>3, <1>5
  <2>2. \A c \in challenges' : c.id <= issued'.codes
    <3>1. \A c \in challenges : c.id \in Nat /\ c.id <= issued.codes
      BY AccountFacts DEF AccountInv, RowsIssued, Challenge
    <3>2. \A c \in challenges : c.id <= id
      BY <3>1, <1>2 DEF id
    <3> QED BY <1>1, <1>2, <1>4, <1>5, <3>2
  <2>3. GuessesCounted'
    <3>1. 0 <= 0 /\ 0 <= MaxAttempts /\ 0 <= 1 /\ 0 # 1
      BY AccountFacts
    <3>2. \A c \in old : /\ c.wrong <= c.attempts /\ c.attempts <= MaxAttempts
                         /\ c.right <= 1 /\ (c.right = 1 => c.used)
      BY <1>5 DEF AccountInv, GuessesCounted
    <3> QED BY <1>1, <1>4, <3>1, <3>2 DEF GuessesCounted
  <2>4. OneCodeInForce'
    <3>1. \A c \in old : c.email = e /\ c.purpose = purpose => c.used
      BY <1>5
    <3>2. \A c, d \in old : ~c.used /\ ~d.used /\ c.email = d.email /\ c.purpose = d.purpose => c = d
      BY <1>5 DEF AccountInv, OneCodeInForce
    <3> QED BY <1>1, <1>4, <3>1, <3>2 DEF OneCodeInForce
  <2>5. IsFiniteSet(old) /\ IsFiniteSet(challenges')
    <3>1. IsFiniteSet(challenges)
      BY DEF AccountInv
    <3>2. IsFiniteSet(old)
      BY <3>1, ImageOfFinite
    <3> QED BY <1>1, <3>2, FS_AddElement
  <2>6. HourQuotaKept'
    <3> SUFFICES ASSUME NEW a \in Emails, NEW b \in Purposes
                 PROVE  Cardinality(Recent(challenges', a, b, clock)) <= HourQuota
      BY <1>1 DEF HourQuotaKept, Recent
    <3>1. /\ IsFiniteSet(Recent(old, a, b, clock)) /\ IsFiniteSet(Recent(challenges, a, b, clock))
          /\ Cardinality(Recent(old, a, b, clock)) <= Cardinality(Recent(challenges, a, b, clock))
      <4>1. clock \in Nat /\ clock <= clock /\ old \in SUBSET {f[c] : c \in challenges}
        BY AccountFacts
      <4>2. \A c \in challenges :
              /\ f[c].email = c.email /\ f[c].purpose = c.purpose /\ f[c].created = c.created
        BY <1>5
      <4> HIDE DEF old
      <4> QED BY <4>1, <4>2, RecentCodes
    <3>2. Cardinality(Recent(challenges, a, b, clock)) <= HourQuota
      BY DEF AccountInv, HourQuotaKept, Recent
    <3>3. /\ Cardinality(Recent(old, a, b, clock)) \in Nat
          /\ Cardinality(Recent(challenges, a, b, clock)) \in Nat
      BY <3>1, FS_CardinalityType
    <3>4. CASE a = e /\ b = purpose
      <4>1. Recent(challenges', a, b, clock) \subseteq Recent(old, a, b, clock) \cup {new}
        BY <1>1 DEF Recent
      <4>2. /\ IsFiniteSet(Recent(old, a, b, clock) \cup {new})
            /\ Cardinality(Recent(old, a, b, clock) \cup {new})
                 <= Cardinality(Recent(old, a, b, clock)) + 1
        BY <3>1, <3>3, FS_AddElement
      <4>3. /\ IsFiniteSet(Recent(challenges', a, b, clock))
            /\ Cardinality(Recent(challenges', a, b, clock))
                 <= Cardinality(Recent(old, a, b, clock) \cup {new})
        BY <4>1, <4>2, FS_Subset
      <4>4. /\ Cardinality(Recent(challenges', a, b, clock)) \in Nat
            /\ Cardinality(Recent(old, a, b, clock) \cup {new}) \in Nat
        BY <4>2, <4>3, FS_CardinalityType
      <4> QED BY <1>1, <3>1, <3>3, <3>4, <4>2, <4>3, <4>4, AccountFacts
    <3>5. CASE ~(a = e /\ b = purpose)
      <4>1. Recent(challenges', a, b, clock) = Recent(old, a, b, clock)
        BY <1>1, <1>4, <3>5 DEF Recent
      <4> QED BY <3>1, <3>2, <3>3, <4>1, AccountFacts
    <3> QED BY <3>4, <3>5
  <2> QED BY <2>1, <2>2, <2>3, <2>4, <2>5, <2>6 DEF CodeInv
<1>7. SessionInv'
  BY <1>1, <1>2 DEF SessionInv, AccountInv, AccountsTypeOK, RowsIssued, SessionsMatchAccount,
     GateHolds, Exists, RowOf
<1> QED BY <1>1, <1>2, <1>6, <1>7, AccountFacts, InvOfParts

LEMMA MailKeeps ==
    ASSUME AccountInv, NEW id \in mails, MailDelivered(id) \/ MailFailed(id)
    PROVE  AccountInv'
<1> DEFINE f == [c \in challenges |-> IF c.id = id THEN [c EXCEPT !.used = TRUE] ELSE c]
<1>1. /\ mails' \subseteq mails /\ known' \subseteq known \cup {id}
      /\ challenges' = challenges \/ challenges' = {f[c] : c \in challenges}
      /\ UNCHANGED <<clock, users, sessions, requests, issued>>
  BY DEF MailDelivered, MailFailed
<1>2. \A c \in challenges :
        /\ f[c] \in Challenge /\ f[c].id = c.id
        /\ f[c].email = c.email /\ f[c].purpose = c.purpose /\ f[c].created = c.created
        /\ c.used => f[c].used
        /\ f[c].wrong = c.wrong /\ f[c].attempts = c.attempts /\ f[c].right = c.right
  BY AccountFacts, ZenonT(60) DEF Challenge
<1> HIDE DEF f
<1>3. CodeInv'
  <2>1. CASE challenges' = challenges
    BY <1>1, <2>1, AccountFacts, CodesUntouched
  <2>2. CASE challenges' = {f[c] : c \in challenges}
    <3>1. challenges' \subseteq {f[c] : c \in challenges}
      BY <2>2
    <3>2. \A c \in challenges :
            /\ f[c].wrong <= f[c].attempts /\ f[c].attempts <= MaxAttempts
            /\ f[c].right <= 1 /\ (f[c].right = 1 => f[c].used)
      BY <1>2 DEF AccountInv, GuessesCounted
    <3> QED BY <1>1, <1>2, <3>1, <3>2, AccountFacts, CodesRewritten
  <2> QED BY <1>1, <2>1, <2>2
<1>4. SessionInv'
  BY <1>1, AccountFacts, RequestsLeave, SessionsUntouched
<1> QED BY <1>1, <1>3, <1>4, AccountFacts, InvOfParts

\* A usable code may be spent or count one more wrong guess.
LEMMA CodeUsed ==
    ASSUME AccountInv, NEW c \in challenges, Usable(c), UNCHANGED clock,
           issued'.codes = issued.codes,
           \/ challenges' = Consume(c)
           \/ challenges' = (challenges \ {c}) \cup
                 {[c EXCEPT !.attempts = c.attempts + 1, !.wrong = c.wrong + 1]}
    PROVE  CodeInv'
<1> DEFINE r == c.right + 1
           a == c.attempts + 1
           w == c.wrong + 1
           spent == [c EXCEPT !.used = TRUE, !.right = r]
           tried == [c EXCEPT !.attempts = a, !.wrong = w]
<1>1. /\ c \in Challenge /\ c.attempts \in Nat /\ c.wrong \in Nat /\ c.right \in Nat
      /\ ~c.used /\ c.attempts < MaxAttempts /\ MaxAttempts \in Nat
      /\ c.wrong <= c.attempts /\ c.right <= 1 /\ c.right # 1
  BY AccountFacts DEF AccountInv, GuessesCounted, Challenge, Usable
<1>2. /\ r \in Nat /\ a \in Nat /\ w \in Nat
      /\ r <= 1 /\ w <= a /\ a <= MaxAttempts
  BY <1>1
<1>3. \/ challenges' = (challenges \ {c}) \cup {spent}
      \/ challenges' = (challenges \ {c}) \cup {tried}
  BY DEF Consume
<1> HIDE DEF r, a, w
<1>4. /\ spent \in Challenge /\ spent.id = c.id /\ spent.email = c.email
      /\ spent.purpose = c.purpose /\ spent.created = c.created /\ spent.used
      /\ spent.wrong = c.wrong /\ spent.attempts = c.attempts /\ spent.right = r
  BY <1>1, <1>2 DEF Challenge
<1>5. /\ tried \in Challenge /\ tried.id = c.id /\ tried.email = c.email
      /\ tried.purpose = c.purpose /\ tried.created = c.created /\ tried.used = c.used
      /\ tried.wrong = w /\ tried.attempts = a /\ tried.right = c.right
  BY <1>1, <1>2 DEF Challenge
<1>6. PICK k \in {spent, tried} : challenges' = (challenges \ {c}) \cup {k}
  BY <1>3
<1> DEFINE f == [d \in challenges |-> IF d = c THEN k ELSE d]
<1>7. challenges' \subseteq {f[d] : d \in challenges}
  <2>1. f[c] = k /\ \A d \in challenges \ {c} : f[d] = d
    OBVIOUS
  <2> HIDE DEF f
  <2> QED BY <1>6, <2>1
<1> HIDE DEF spent, tried
<1>8. /\ k \in Challenge /\ k.id = c.id /\ k.email = c.email /\ k.purpose = c.purpose
      /\ k.created = c.created /\ (c.used => k.used)
      /\ k.wrong <= k.attempts /\ k.attempts <= MaxAttempts
      /\ k.right <= 1 /\ (k.right = 1 => k.used)
  BY <1>1, <1>2, <1>4, <1>5
<1>9. \A d \in challenges : d \in Challenge
  BY AccountFacts
<1>10. \A d \in challenges :
        /\ f[d] \in Challenge /\ f[d].id = d.id
        /\ f[d].email = d.email /\ f[d].purpose = d.purpose /\ f[d].created = d.created
        /\ d.used => f[d].used
        /\ f[d].wrong <= f[d].attempts /\ f[d].attempts <= MaxAttempts
        /\ f[d].right <= 1 /\ (f[d].right = 1 => f[d].used)
  BY <1>8, <1>9 DEF AccountInv, GuessesCounted
<1> HIDE DEF f
<1> QED BY <1>7, <1>10, AccountFacts, CodesRewritten

LEMMA WrongCodeKeeps ==
    ASSUME AccountInv, NEW e \in Emails, NEW purpose \in Purposes, WrongCode(e, purpose)
    PROVE  AccountInv'
<1>1. PICK c \in challenges :
        /\ Usable(c)
        /\ challenges' = (challenges \ {c}) \cup
              {[c EXCEPT !.attempts = c.attempts + 1, !.wrong = c.wrong + 1]}
  BY DEF WrongCode, Latest, CodesOf
<1>2. UNCHANGED <<clock, users, mails, known, sessions, requests, issued>>
  BY DEF WrongCode
<1>3. CodeInv'
  BY <1>1, <1>2, CodeUsed
<1>4. SessionInv'
  BY <1>2, AccountFacts, RequestsLeave, SessionsUntouched
<1> QED BY <1>2, <1>3, <1>4, AccountFacts, InvOfParts

LEMMA RegisterKeeps ==
    ASSUME AccountInv, NEW e \in Emails, NEW p \in Passwords, Register(e, p)
    PROVE  AccountInv'
<1> DEFINE new == [status |-> "ACTIVE", password |-> p, legal |-> TRUE]
<1>1. PICK c \in challenges : Usable(c) /\ challenges' = Consume(c)
  BY DEF Register, Latest, CodesOf
<1>2. /\ users[e] = NoUser /\ users' = [users EXCEPT ![e] = new]
      /\ UNCHANGED <<sessions, issued>> \/ Open(e, p)
      /\ UNCHANGED <<clock, mails, known, requests>>
  BY DEF Register, Exists
<1>3. new \in Account /\ new # NoUser /\ new.status = "ACTIVE" /\ new.password = p
  BY AccountFacts DEF Account
<1> HIDE DEF new
<1>4. users' \in [Emails -> {NoUser} \cup Account]
  BY <1>2, <1>3, AccountFacts
<1>5. users'[e] = new /\ \A s \in sessions : users'[s.email] = users[s.email]
  BY <1>2, AccountFacts
<1>6. CASE UNCHANGED <<sessions, issued>>
  <2>1. CodeInv'
    BY <1>1, <1>2, <1>6, CodeUsed
  <2>2. SessionInv'
    BY <1>2, <1>5, <1>6, AccountFacts, RequestsLeave, SessionsUntouched
  <2> QED BY <1>2, <1>4, <1>6, <2>1, <2>2, AccountFacts, InvOfParts
<1>7. CASE Open(e, p)
  <2>1. /\ SessionInv' /\ issued'.codes = issued.codes
        /\ issued' \in [codes : 0..MaxChallenges, sessions : 0..MaxSessions]
    BY <1>2, <1>3, <1>5, <1>7, SessionOpened
  <2>2. CodeInv'
    BY <1>1, <1>2, <2>1, CodeUsed
  <2> QED BY <1>2, <1>4, <2>1, <2>2, AccountFacts, InvOfParts
<1> QED BY <1>2, <1>6, <1>7

LEMMA LoginKeeps ==
    ASSUME AccountInv, NEW e \in Emails, NEW p \in Passwords, Login(e, p)
    PROVE  AccountInv'
<1>1. /\ users[e] # NoUser /\ users[e].status = "ACTIVE" /\ users[e].password = p /\ Open(e, p)
      /\ UNCHANGED <<clock, users, challenges, mails, known, requests>>
  BY DEF Login, Exists
<1>2. /\ SessionInv' /\ issued'.codes = issued.codes
      /\ issued' \in [codes : 0..MaxChallenges, sessions : 0..MaxSessions]
  BY <1>1, SessionOpened
<1>3. CodeInv'
  BY <1>1, <1>2, AccountFacts, CodesUntouched
<1> QED BY <1>1, <1>2, <1>3, AccountFacts, InvOfParts

\* Closing every session of an address leaves the others as they are.
LEMMA RevokedFacts ==
    ASSUME AccountInv, NEW e \in Emails
    PROVE  \E f :
             /\ Revoked(e) = {f[s] : s \in sessions}
             /\ \A s \in sessions : /\ f[s] \in Session /\ f[s].id = s.id /\ f[s].email = s.email
                                    /\ f[s].password = s.password /\ f[s].seen = s.seen
                                    /\ ~f[s].revoked => ~s.revoked /\ s.email # e
<1> DEFINE f == [s \in sessions |-> IF s.email = e THEN [s EXCEPT !.revoked = TRUE] ELSE s]
<1>1. Revoked(e) = {f[s] : s \in sessions}
  BY DEF Revoked
<1>2. \A s \in sessions : /\ f[s] \in Session /\ f[s].id = s.id /\ f[s].email = s.email
                          /\ f[s].password = s.password /\ f[s].seen = s.seen
                          /\ ~f[s].revoked => ~s.revoked /\ s.email # e
  BY AccountFacts DEF Session
<1> HIDE DEF f
<1> QED BY <1>1, <1>2

\* An account whose sessions are closed may change as it likes, but for its terms.
LEMMA ClosedKeeps ==
    ASSUME AccountInv, NEW e \in Emails, NEW u \in Account,
           users[e] # NoUser, users' = [users EXCEPT ![e] = u], u.legal = users[e].legal,
           \/ sessions' = Revoked(e)
           \/ sessions' = sessions /\ u.password = users[e].password /\ u.status = "ACTIVE",
           UNCHANGED <<issued, requests>>
    PROVE  SessionInv' /\ users' \in [Emails -> {NoUser} \cup Account]
<1>1. users' \in [Emails -> {NoUser} \cup Account]
  BY AccountFacts
<1>2. \A a \in Emails : users'[a] = IF a = e THEN u ELSE users[a]
  BY AccountFacts
<1>3. RequestsStand
  BY <1>2, AccountFacts, RequestsLeave
<1>4. CASE sessions' = Revoked(e)
  <2>1. PICK f :
          /\ Revoked(e) = {f[s] : s \in sessions}
          /\ \A s \in sessions : /\ f[s] \in Session /\ f[s].id = s.id /\ f[s].email = s.email
                                 /\ f[s].password = s.password
                                 /\ ~f[s].revoked => ~s.revoked /\ s.email # e
    BY RevokedFacts
  <2>2. \A s \in sessions' :
          /\ users'[s.email] # NoUser
          /\ ~s.revoked => /\ users'[s.email].status = "ACTIVE"
                           /\ users'[s.email].password = s.password
    BY <1>2, <1>4, <2>1, AccountFacts DEF AccountInv, SessionsMatchAccount
  <2> QED BY <1>1, <1>3, <1>4, <2>1, <2>2, SessionsRewritten
<1>5. CASE /\ sessions' = sessions /\ u.password = users[e].password /\ u.status = "ACTIVE"
  <2> DEFINE f == [s \in sessions |-> s]
  <2>1. sessions' \subseteq {f[s] : s \in sessions}
    BY <1>5
  <2>2. \A s \in sessions : f[s] \in Session /\ f[s].id = s.id /\ f[s].email = s.email
    BY AccountFacts
  <2>3. \A s \in sessions' :
          /\ users'[s.email] # NoUser
          /\ ~s.revoked => /\ users'[s.email].status = "ACTIVE"
                           /\ users'[s.email].password = s.password
    BY <1>2, <1>5, AccountFacts DEF AccountInv, SessionsMatchAccount
  <2> HIDE DEF f
  <2> QED BY <1>1, <1>3, <2>1, <2>2, <2>3, SessionsRewritten
<1> QED BY <1>4, <1>5

LEMMA ResetKeeps ==
    ASSUME AccountInv, NEW e \in Emails, NEW p \in Passwords, ResetPassword(e, p)
    PROVE  AccountInv'
<1>1. PICK c \in challenges : Usable(c) /\ challenges' = Consume(c)
  BY DEF ResetPassword, Latest, CodesOf
<1>2. /\ UNCHANGED <<users, sessions>> \/ (/\ users[e] # NoUser /\ sessions' = Revoked(e)
                                           /\ users' = [users EXCEPT ![e].password = p])
      /\ UNCHANGED <<clock, mails, known, requests, issued>>
  BY DEF ResetPassword, Exists
<1>3. CodeInv'
  BY <1>1, <1>2, CodeUsed
<1>4. CASE UNCHANGED <<users, sessions>>
  <2>1. SessionInv'
    BY <1>2, <1>4, AccountFacts, RequestsLeave, SessionsUntouched
  <2> QED BY <1>2, <1>3, <1>4, <2>1, AccountFacts, InvOfParts
<1>5. CASE /\ users[e] # NoUser /\ sessions' = Revoked(e)
           /\ users' = [users EXCEPT ![e].password = p]
  <2> DEFINE u == [users[e] EXCEPT !.password = p]
  <2>1. u \in Account /\ u.legal = users[e].legal /\ users' = [users EXCEPT ![e] = u]
    BY <1>5, AccountFacts DEF Account
  <2> HIDE DEF u
  <2>2. SessionInv' /\ users' \in [Emails -> {NoUser} \cup Account]
    BY <1>2, <1>5, <2>1, ClosedKeeps
  <2> QED BY <1>2, <1>3, <2>2, AccountFacts, InvOfParts
<1> QED BY <1>2, <1>4, <1>5

LEMMA StatusKeeps ==
    ASSUME AccountInv, NEW e \in Emails, NEW status \in {"ACTIVE", "DISABLED"},
           SetUserStatus(e, status)
    PROVE  AccountInv'
<1> DEFINE u == [users[e] EXCEPT !.status = status]
<1>1. /\ users[e] # NoUser /\ users' = [users EXCEPT ![e] = u]
      /\ sessions' = IF status = "DISABLED" THEN Revoked(e) ELSE sessions
      /\ UNCHANGED <<clock, challenges, mails, known, requests, issued>>
  BY DEF SetUserStatus, Exists
<1>2. /\ u \in Account /\ u.legal = users[e].legal /\ u.password = users[e].password
      /\ u.status = status
  BY <1>1, AccountFacts DEF Account
<1> HIDE DEF u
<1>3. SessionInv' /\ users' \in [Emails -> {NoUser} \cup Account]
  BY <1>1, <1>2, ClosedKeeps
<1>4. CodeInv'
  BY <1>1, AccountFacts, CodesUntouched
<1> QED BY <1>1, <1>3, <1>4, AccountFacts, InvOfParts

\* The middleware touches the session and lets pass what the gate lets pass.
LEMMA AuthenticateKeeps ==
    ASSUME AccountInv, NEW s \in sessions, NEW op \in Ops, Authenticate(s, op)
    PROVE  AccountInv'
<1> DEFINE touched == [s EXCEPT !.seen = clock]
           f == [t \in sessions |-> IF t = s THEN touched ELSE t]
           new == [session |-> s.id, op |-> op]
<1>1. /\ Active(s) /\ sessions' = (sessions \ {s}) \cup {touched}
      /\ requests' = IF PassesGate(s, op) THEN requests \cup {new} ELSE requests
      /\ UNCHANGED <<clock, users, challenges, mails, known, issued>>
  BY DEF Authenticate
<1>2. /\ touched \in Session /\ touched.id = s.id /\ touched.email = s.email
      /\ touched.password = s.password /\ touched.revoked = s.revoked
  BY AccountFacts DEF Session
<1>3. /\ new \in [session : 1..MaxSessions, op : Ops] /\ new.session = s.id /\ new.op = op
      /\ s.id <= issued.sessions
  BY AccountFacts DEF Session, AccountInv, RowsIssued
<1>4. f[s] = touched /\ \A t \in sessions \ {s} : f[t] = t
  OBVIOUS
<1> HIDE DEF touched, f, new
<1>5. sessions' \subseteq {f[t] : t \in sessions}
  BY <1>1, <1>4
<1>6. \A t \in sessions : f[t] \in Session /\ f[t].id = t.id /\ f[t].email = t.email
  BY <1>2, <1>4, AccountFacts
<1>7. \A t \in sessions' :
        /\ users'[t.email] # NoUser
        /\ ~t.revoked => /\ users'[t.email].status = "ACTIVE"
                         /\ users'[t.email].password = t.password
  BY <1>1, <1>2, AccountFacts DEF AccountInv, SessionsMatchAccount
<1>8. RequestsStand
  <2>1. \A r \in requests : r \in requests' =>
          /\ r \in [session : 1..MaxSessions, op : Ops] /\ r.session <= issued.sessions
          /\ \A t \in sessions : users[t.email].legal => users'[t.email].legal
    BY <1>1, AccountFacts
  <2>2. ASSUME PassesGate(s, op)
        PROVE  new.op \in Exempt \/ \A t \in sessions : t.id = new.session => users'[t.email].legal
    BY <1>1, <1>3, <2>2 DEF PassesGate, AccountInv, RowsIssued
  <2> QED BY <1>1, <1>3, <2>1, <2>2 DEF RequestsStand
<1>9. SessionInv'
  BY <1>1, <1>5, <1>6, <1>7, <1>8, SessionsRewritten
<1>10. CodeInv'
  BY <1>1, AccountFacts, CodesUntouched
<1> QED BY <1>1, <1>9, <1>10, AccountFacts, InvOfParts

LEMMA AcceptKeeps ==
    ASSUME AccountInv, NEW r \in requests, Accept(r)
    PROVE  AccountInv'
<1>1. PICK s \in sessions : users' = [users EXCEPT ![s.email].legal = TRUE]
  BY DEF Accept, RowOf
<1>2. /\ requests' \subseteq requests
      /\ UNCHANGED <<clock, challenges, mails, known, sessions, issued>>
  BY DEF Accept, Handled
<1> DEFINE u == [users[s.email] EXCEPT !.legal = TRUE]
<1>3. /\ u \in Account /\ u # NoUser /\ u.legal /\ u.status = users[s.email].status
      /\ u.password = users[s.email].password
  BY AccountFacts, ZenonT(60) DEF Account
<1>4. users' = [users EXCEPT ![s.email] = u]
  BY <1>1
<1> HIDE DEF u
<1>5. /\ users' \in [Emails -> {NoUser} \cup Account]
      /\ \A e \in Emails : users'[e] = IF e = s.email THEN u ELSE users[e]
  BY <1>3, <1>4, AccountFacts
<1>6. SessionInv'
  <2>1. RequestsStand
    BY <1>2, <1>3, <1>5, AccountFacts, RequestsLeave
  <2> QED BY <1>2, <1>3, <1>5, <2>1, AccountFacts, SessionsUntouched
<1>7. CodeInv'
  BY <1>2, AccountFacts, CodesUntouched
<1> QED BY <1>2, <1>5, <1>6, <1>7, AccountFacts, InvOfParts

\* Endpoints that leave the tables alone, and a logout that waits: what it becomes
\* is exempt.
LEMMA RequestsKeep ==
    ASSUME AccountInv, NEW r \in requests, Work(r) \/ LogoutBegins(r)
    PROVE  AccountInv'
<1>1. UNCHANGED <<clock, users, challenges, mails, known, sessions, issued>>
  BY DEF Work, LogoutBegins
<1>2. RequestsStand
  <2>1. CASE Work(r)
    BY <1>1, <2>1, RequestsLeave DEF Work, Handled
  <2>2. CASE LogoutBegins(r)
    <3> DEFINE q == [r EXCEPT !.op = "leave"]
    <3>1. requests' = (requests \ {r}) \cup {q}
      BY <2>2 DEF LogoutBegins
    <3>2. q \in [session : 1..MaxSessions, op : Ops] /\ q.session = r.session /\ q.op \in Exempt
      BY AccountFacts DEF Ops, Exempt
    <3> HIDE DEF q
    <3> QED BY <1>1, <3>1, <3>2, AccountFacts DEF RequestsStand
  <2> QED BY <2>1, <2>2
<1>3. SessionInv'
  BY <1>1, <1>2, AccountFacts, SessionsUntouched
<1>4. CodeInv'
  BY <1>1, AccountFacts, CodesUntouched
<1> QED BY <1>1, <1>3, <1>4, AccountFacts, InvOfParts

\* Sessions closed one by one.
LEMMA RevokeKeeps ==
    ASSUME AccountInv, NEW r \in requests, NEW id, RevokeSession(r, id) \/ LogoutEnds(r)
    PROVE  AccountInv'
<1>1. /\ requests' \subseteq requests
      /\ UNCHANGED <<clock, users, challenges, mails, known, issued>>
  BY DEF RevokeSession, LogoutEnds, Handled
<1>2. PICK closed \in SUBSET sessions :
        sessions' = {IF t \in closed THEN [t EXCEPT !.revoked = TRUE] ELSE t : t \in sessions}
  <2>1. CASE RevokeSession(r, id)
    <3>1. PICK s \in sessions :
            sessions' = {IF t.id = id /\ t.email = s.email THEN [t EXCEPT !.revoked = TRUE]
                         ELSE t : t \in sessions}
      BY <2>1 DEF RevokeSession, RowOf
    <3> WITNESS {t \in sessions : t.id = id /\ t.email = s.email} \in SUBSET sessions
    <3> QED BY <3>1
  <2>2. CASE LogoutEnds(r)
    <3> WITNESS {t \in sessions : t.id = r.session} \in SUBSET sessions
    <3> QED BY <2>2 DEF LogoutEnds
  <2> QED BY <2>1, <2>2
<1> DEFINE f == [t \in sessions |-> IF t \in closed THEN [t EXCEPT !.revoked = TRUE] ELSE t]
<1>3. sessions' = {f[t] : t \in sessions}
  BY <1>2
<1>4. \A t \in sessions : /\ f[t] \in Session /\ f[t].id = t.id /\ f[t].email = t.email
                          /\ f[t].password = t.password /\ (~f[t].revoked => ~t.revoked)
  BY AccountFacts DEF Session
<1> HIDE DEF f
<1>5. \A t \in sessions' :
        /\ users'[t.email] # NoUser
        /\ ~t.revoked => /\ users'[t.email].status = "ACTIVE"
                         /\ users'[t.email].password = t.password
  BY <1>1, <1>3, <1>4, AccountFacts DEF AccountInv, SessionsMatchAccount
<1>6. SessionInv'
  <2>1. RequestsStand
    BY <1>1, RequestsLeave
  <2> QED BY <1>1, <1>3, <1>4, <1>5, <2>1, SessionsRewritten
<1>7. CodeInv'
  BY <1>1, AccountFacts, CodesUntouched
<1> QED BY <1>1, <1>6, <1>7, AccountFacts, InvOfParts

LEMMA DeleteKeeps ==
    ASSUME AccountInv, NEW r \in requests, NEW p \in Passwords, DeleteAccount(r, p)
    PROVE  AccountInv'
<1>1. requests' \subseteq requests /\ UNCHANGED <<clock, mails, known, issued>>
  BY DEF DeleteAccount, Handled
<1>2. CASE UNCHANGED <<users, sessions, challenges>>
  <2>1. SessionInv'
    BY <1>1, <1>2, AccountFacts, RequestsLeave, SessionsUntouched
  <2>2. CodeInv'
    BY <1>1, <1>2, AccountFacts, CodesUntouched
  <2> QED BY <1>1, <1>2, <2>1, <2>2, AccountFacts, InvOfParts
<1>3. ASSUME NEW e \in Emails, users' = [users EXCEPT ![e] = NoUser],
             sessions' = {t \in sessions : t.email # e},
             challenges' = {c \in challenges : c.email # e}
      PROVE  AccountInv'
  <2>1. users' \in [Emails -> {NoUser} \cup Account]
    BY <1>3, AccountFacts
  <2>2. sessions' \subseteq sessions /\ challenges' \subseteq challenges
    BY <1>3
  <2>3. \A s \in sessions' : users'[s.email] = users[s.email] /\ users[s.email] # NoUser
    BY <1>3, AccountFacts
  <2>4. SessionInv'
    <3>1. /\ sessions' \subseteq Session /\ requests' \subseteq [session : 1..MaxSessions, op : Ops]
          /\ \A r2 \in requests' : r2.session <= issued'.sessions
      BY <1>1, <2>2, AccountFacts
    <3>2. /\ \A s \in sessions' : s.id <= issued'.sessions /\ users'[s.email] # NoUser
          /\ \A s, t \in sessions' : s.id = t.id => s = t
      BY <1>1, <2>2, <2>3 DEF AccountInv, RowsIssued
    <3>3. SessionsMatchAccount' /\ GateHolds'
      BY <1>1, <2>2, <2>3 DEF AccountInv, SessionsMatchAccount, GateHolds, Exists, RowOf
    <3> QED BY <3>1, <3>2, <3>3 DEF SessionInv, Exists
  <2>5. CodeInv'
    BY <1>1, <2>2, AccountFacts, CodesUntouched
  <2> QED BY <1>1, <2>1, <2>4, <2>5, AccountFacts, InvOfParts
<1>4. PICK s \in sessions :
        \/ UNCHANGED <<users, sessions, challenges>>
        \/ /\ users' = [users EXCEPT ![s.email] = NoUser]
           /\ sessions' = {t \in sessions : t.email # s.email}
           /\ challenges' = {c \in challenges : c.email # s.email}
  BY DEF DeleteAccount, RowOf
<1> QED BY <1>2, <1>3, <1>4, AccountFacts

LEMMA RestartKeeps ==
    ASSUME AccountInv, NEW newTerms \in BOOLEAN, Restart(newTerms)
    PROVE  AccountInv'
<1>1. /\ mails' = {} /\ requests' = {}
      /\ UNCHANGED <<clock, challenges, known, sessions, issued>>
  BY DEF Restart
<1>2. \A e \in Emails :
        /\ users'[e] \in {NoUser} \cup Account
        /\ users[e] # NoUser => /\ users'[e] # NoUser
                                /\ users'[e].status = users[e].status
                                /\ users'[e].password = users[e].password
  BY AccountFacts, ZenonT(60) DEF Restart, Exists, Account
<1>3. users' \in [Emails -> {NoUser} \cup Account]
  BY <1>2 DEF Restart
<1>4. SessionInv'
  BY <1>1, <1>2, AccountFacts, RequestsLeave, SessionsUntouched
<1>5. CodeInv'
  BY <1>1, AccountFacts, CodesUntouched
<1> QED BY <1>1, <1>3, <1>4, <1>5, AccountFacts, InvOfParts

LEMMA TickKeeps ==
    ASSUME AccountInv, Tick PROVE AccountInv'
<1>1. /\ clock' \in 0..MaxClock /\ clock' \in Nat /\ clock <= clock'
      /\ UNCHANGED <<users, challenges, mails, known, sessions, requests, issued>>
  BY AccountFacts DEF Tick
<1>2. SessionInv'
  BY <1>1, AccountFacts, RequestsLeave, SessionsUntouched
<1>3. CodeInv'
  BY <1>1, CodesUntouched
<1> QED BY <1>1, <1>2, <1>3, AccountFacts, InvOfParts

LEMMA AccountInvHolds == AccountsSpec => []AccountInv
<1>1. AccountsInit => AccountInv
  <2> SUFFICES ASSUME AccountsInit PROVE AccountInv
    OBVIOUS
  <2>1. AccountsTypeOK
    BY AccountsAssumption DEF AccountsInit, AccountsTypeOK
  <2>2. IsFiniteSet(challenges) /\ HourQuotaKept
    <3>1. \A e \in Emails, purpose \in Purposes :
            {c \in challenges : c.email = e /\ c.purpose = purpose /\ c.created + Hour >= clock} = {}
      BY DEF AccountsInit
    <3>2. HourQuota \in Nat /\ HourQuota > 0
      BY AccountsAssumption
    <3> QED BY <3>1, <3>2, FS_EmptySet DEF AccountsInit, HourQuotaKept
  <2> QED BY <2>1, <2>2 DEF AccountsInit, AccountInv, RowsIssued, GuessesCounted,
        SessionsMatchAccount, GateHolds, OneCodeInForce
<1>2. AccountInv /\ [AccountsNext]_accountVars => AccountInv'
  <2> SUFFICES ASSUME AccountInv, [AccountsNext]_accountVars PROVE AccountInv'
    OBVIOUS
  <2>1. CASE CodeNext
    BY <2>1, RequestCodeKeeps, WrongCodeKeeps, MailKeeps, RegisterKeeps, ResetKeeps DEF CodeNext
  <2>2. CASE \/ \E e \in Emails, p \in Passwords : Login(e, p)
             \/ \E e \in Emails, status \in {"ACTIVE", "DISABLED"} : SetUserStatus(e, status)
             \/ \E s \in sessions, op \in Ops : Authenticate(s, op)
    BY <2>2, LoginKeeps, StatusKeeps, AuthenticateKeeps
  <2>3. CASE \E r \in requests :
               \/ Accept(r) \/ Work(r) \/ LogoutBegins(r) \/ LogoutEnds(r)
               \/ \E p \in Passwords : DeleteAccount(r, p)
               \/ \E s \in sessions : RevokeSession(r, s.id)
    BY <2>3, AcceptKeeps, RequestsKeep, RevokeKeeps, DeleteKeeps
  <2>4. CASE (\E newTerms \in BOOLEAN : Restart(newTerms)) \/ Tick
    BY <2>4, RestartKeeps, TickKeeps
  <2>5. CASE UNCHANGED accountVars
    <3>1. SessionInv'
      BY <2>5, AccountFacts, RequestsLeave, SessionsUntouched DEF accountVars
    <3>2. CodeInv'
      BY <2>5, AccountFacts, CodesUntouched DEF accountVars
    <3> QED BY <2>5, <3>1, <3>2, AccountFacts, InvOfParts DEF accountVars
  <2> QED BY <2>1, <2>2, <2>3, <2>4, <2>5 DEF AccountsNext
<1> QED BY <1>1, <1>2, PTL DEF AccountsSpec

\* An account is only reached with its present credentials, for any addresses,
\* quotas and lifetimes: no interleaving of codes, mails, logins, resets,
\* suspensions, deletions and requests under way gives a session, a code or a
\* passage of the gate that was not earned.
THEOREM AccessEarned == AccountsSpec => []AccessIsEarned
BY AccountInvHolds, EarnedFromInv, PTL

-----------------------------------------------------------------------------
(* The Event Pack Factory.                                                 *)

SourceRow ==
    [kind : {"PASTE", "SEARCH_RESULT", "READER"}, text : {0} \cup Texts,
     review : {"PENDING", "APPROVED", "REJECTED"}, included : BOOLEAN]
EntryRow ==
    [status : {"PENDING", "SUCCEEDED", "FAILED"}, expected : Revisions,
     parent : SourceIds \cup {NoSource}]
HandlerRow ==
    [request : FactoryRequests \cup {NoRow},
     step : {"none", "record", "create", "audit", "audit again", "complete", "recover", "fail"}]
Papers == SUBSET (SourceIds \X Texts)
Finders == Searches \cup Readings

HistoryOK ==
    /\ inputs \in [Materializations -> Papers]
    /\ made \in [Materializations -> Papers \cup {NoPaper}]
    /\ history \in [approvals : SUBSET (SourceIds \X ({0} \cup Texts)),
                    calls : [FactoryRequests -> Nat], recorded : [FactoryRequests -> Nat]]

\* The evidence that counts as approved was approved as it reads.
ApprovalsStand ==
    \A s \in Evidence(sources) :
        sources[s].review = "APPROVED" /\ sources[s].text # 0
            => <<s, sources[s].text>> \in history.approvals

\* The row of a request that is being served is there as long as the build is.
RowsStand ==
    build.state # "gone" =>
        /\ \A q \in FactoryRequests : awaiting[q] > 0 => entries[q] # NoRow
        /\ running # NotRunning => entries[running.request] # NoRow

\* What a materialization has read, asked, made, told and concluded.
PapersStand ==
    \A q \in Materializations :
        /\ inputs[q] \subseteq history.approvals
        /\ awaiting[q] > 0 => inputs[q] # {}
        /\ made[q] # NoPaper => made[q] # {} /\ made[q] \subseteq history.approvals
        /\ q \in audited => made[q] # NoPaper
        /\ entries[q] # NoRow /\ entries[q].status = "SUCCEEDED" => q \in audited
        /\ history.calls[q] <= 1
        /\ build.state # "gone" /\ entries[q] = NoRow => history.calls[q] = 0

\* Results that were recorded moved the build past the revision of their request.
ResultsStand ==
    \A q \in Finders :
        /\ history.recorded[q] <= 1
        /\ history.recorded[q] = 1 /\ build.state # "gone"
             => entries[q] # NoRow /\ entries[q].expected < build.revision

\* What the handler on the loop has reached.
HandlerStands ==
    running # NotRunning =>
        LET q == running.request IN
        /\ q \in FactoryRequests
        /\ running.step \in {"record", "create", "audit", "audit again", "complete", "recover", "fail"}
        /\ running.step = "record" => q \in Finders
        /\ running.step = "create" => q \in Materializations /\ inputs[q] # {}
        /\ running.step \in {"audit", "audit again", "recover"} =>
              q \in Materializations /\ made[q] # NoPaper
        /\ q \in Materializations /\ running.step \in {"complete", "recover"} => q \in audited

FactoryInv ==
    /\ FactoryTypeOK /\ HistoryOK /\ StatusTellsTheTruth /\ ApprovalsStand
    /\ RowsStand /\ PapersStand /\ ResultsStand /\ HandlerStands

\* what every step finds
LEMMA FactoryFacts ==
    ASSUME FactoryInv
    PROVE  /\ build \in [state : {"none", "open", "gone"}, revision : Revisions, ready : BOOLEAN]
           /\ sources \in [SourceIds -> {NoSource} \cup SourceRow]
           /\ entries \in [FactoryRequests -> {NoRow} \cup EntryRow] /\ NoRow \notin EntryRow
           /\ awaiting \in [FactoryRequests -> 0 .. MaxHandlers]
           /\ \A q \in FactoryRequests : awaiting[q] \in Nat
           /\ MaxRevision \in Nat /\ MaxHandlers \in Nat /\ 1 <= MaxHandlers
           /\ build.revision \in Nat /\ NoSource \notin SourceIds
           /\ \A s \in Held(sources) : s \in SourceIds /\ sources[s] \in SourceRow
           /\ \A q \in FactoryRequests : entries[q] # NoRow =>
                 entries[q] \in EntryRow /\ entries[q].expected \in Nat
           /\ Finders \cap Materializations = {} /\ FactoryRequests = Finders \cup Materializations
           /\ \A paper \in Papers : paper # NoPaper
           /\ NoRow \notin FactoryRequests
<1>1. /\ build \in [state : {"none", "open", "gone"}, revision : Revisions, ready : BOOLEAN]
      /\ sources \in [SourceIds -> {NoSource} \cup SourceRow]
      /\ entries \in [FactoryRequests -> {NoRow} \cup EntryRow]
      /\ awaiting \in [FactoryRequests -> 0 .. MaxHandlers]
  BY DEF FactoryInv, FactoryTypeOK, SourceRow, EntryRow
<1>2. /\ NoRow \notin EntryRow /\ MaxRevision \in Nat /\ MaxHandlers \in Nat /\ 1 <= MaxHandlers
      /\ NoSource \notin SourceIds /\ NoRow \notin FactoryRequests
      /\ Finders \cap Materializations = {} /\ FactoryRequests = Finders \cup Materializations
  BY FactoryAssumption DEF EntryRow, Revisions, Finders, FactoryRequests
<1>3. \A paper \in Papers : paper # NoPaper
  BY FactoryAssumption DEF Papers, Texts
<1>4. build.revision \in Nat /\ \A q \in FactoryRequests : awaiting[q] \in Nat
  BY <1>1, <1>2 DEF Revisions
<1>5. /\ \A s \in Held(sources) : s \in SourceIds /\ sources[s] \in SourceRow
      /\ \A q \in FactoryRequests : entries[q] # NoRow =>
            entries[q] \in EntryRow /\ entries[q].expected \in Nat
  <2>1. \A s \in Held(sources) : s \in SourceIds /\ sources[s] # NoSource
    BY DEF Held
  <2>2. \A row \in EntryRow : row.expected \in Nat
    BY <1>2 DEF EntryRow, Revisions
  <2> QED BY <1>1, <2>1, <2>2
<1> QED BY <1>1, <1>2, <1>3, <1>4, <1>5

\* The invariant says what the run checks of a state.
LEMMA ReviewFromInv == FactoryInv => FactoryTypeOK /\ ReviewDecides
BY DEF FactoryInv, ReviewDecides, PacksAreOfApprovedText, PapersStand

LEMMA SettledFromInv == FactoryInv => MaterializedOnce /\ RecordedOnce /\ SuccessIsBacked
BY DEF FactoryInv, MaterializedOnce, RecordedOnce, SuccessIsBacked, PapersStand, ResultsStand,
   Finders

FactoryStep == FactoryInv' /\ SuccessStays

-----------------------------------------------------------------------------
(* Sources and their review.                                               *)

\* A transaction on the sources advances the build, and its shelf is as true as
\* the one before.
LEMMA ShelfStep ==
    ASSUME FactoryInv, NEW shelf \in [SourceIds -> {NoSource} \cup SourceRow],
           AdvanceBuild(shelf), build.state = "open",
           history' \in [approvals : SUBSET (SourceIds \X ({0} \cup Texts)),
                         calls : [FactoryRequests -> Nat], recorded : [FactoryRequests -> Nat]],
           history.approvals \subseteq history'.approvals,
           history'.calls = history.calls,
           \A s \in Held(shelf) :
              /\ shelf[s].review = "REJECTED" => shelf[s].text = 0 /\ ~shelf[s].included
              /\ s \in Evidence(shelf) /\ shelf[s].review = "APPROVED" /\ shelf[s].text # 0
                   => <<s, shelf[s].text>> \in history'.approvals,
           UNCHANGED <<entries, awaiting, inputs, made, audited>>
    PROVE  /\ build' \in [state : {"none", "open", "gone"}, revision : Revisions, ready : BOOLEAN]
           /\ build'.state = "open" /\ build'.revision = build.revision + 1
           /\ sources' \in [SourceIds -> {NoSource} \cup SourceRow]
           /\ HistoryOK' /\ StatusTellsTheTruth' /\ ApprovalsStand' /\ PapersStand'
           /\ SuccessStays
<1>1. /\ build.revision < MaxRevision /\ sources' = shelf
      /\ build' = [build EXCEPT !.revision = build.revision + 1, !.ready = ReviewReady(shelf)]
  BY DEF AdvanceBuild
<1>2. ReviewReady(shelf) \in BOOLEAN
  BY DEF ReviewReady
<1> DEFINE next == build.revision + 1
           ready == ReviewReady(shelf)
<1>3. next \in Revisions
  BY <1>1, FactoryFacts DEF Revisions
<1>4. build' = [build EXCEPT !.revision = next, !.ready = ready]
  BY <1>1
<1> HIDE DEF next, ready
<1>5. /\ build' \in [state : {"none", "open", "gone"}, revision : Revisions, ready : BOOLEAN]
      /\ build'.state = "open" /\ build'.revision = next /\ build'.ready = ready
  BY <1>2, <1>3, <1>4, FactoryFacts DEF ready
<1>6. StatusTellsTheTruth'
  BY <1>1, <1>5 DEF StatusTellsTheTruth, ready
<1>7. ApprovalsStand'
  BY <1>1 DEF ApprovalsStand, Evidence
<1>8. HistoryOK'
  BY DEF FactoryInv, HistoryOK
<1>9. PapersStand'
  BY <1>5 DEF FactoryInv, PapersStand
<1>10. SuccessStays
  BY DEF SuccessStays
<1> QED BY <1>1, <1>5, <1>6, <1>7, <1>8, <1>9, <1>10 DEF next

\* A person's step on the sources.
LEMMA PersonStep ==
    ASSUME FactoryInv, Ready, NEW shelf \in [SourceIds -> {NoSource} \cup SourceRow],
           AdvanceBuild(shelf), SourcesOnly,
           NEW new \in SUBSET (SourceIds \X ({0} \cup Texts)),
           history' = [history EXCEPT !.approvals = history.approvals \cup new],
           \A s \in Held(shelf) :
              /\ shelf[s].review = "REJECTED" => shelf[s].text = 0 /\ ~shelf[s].included
              /\ s \in Evidence(shelf) /\ shelf[s].review = "APPROVED" /\ shelf[s].text # 0
                   => <<s, shelf[s].text>> \in history.approvals \cup new
    PROVE  FactoryStep
<1>1. UNCHANGED <<entries, awaiting, running, inputs, made, audited>> /\ build.state = "open"
      /\ running = NotRunning
  BY DEF SourcesOnly, Ready
<1>2. /\ history' \in [approvals : SUBSET (SourceIds \X ({0} \cup Texts)),
                       calls : [FactoryRequests -> Nat], recorded : [FactoryRequests -> Nat]]
      /\ history'.approvals = history.approvals \cup new
      /\ history'.calls = history.calls /\ history'.recorded = history.recorded
  BY DEF FactoryInv, HistoryOK
<1>3. /\ build' \in [state : {"none", "open", "gone"}, revision : Revisions, ready : BOOLEAN]
      /\ build'.state = "open" /\ build'.revision = build.revision + 1
      /\ sources' \in [SourceIds -> {NoSource} \cup SourceRow]
      /\ HistoryOK' /\ StatusTellsTheTruth' /\ ApprovalsStand' /\ PapersStand'
      /\ SuccessStays
  BY <1>1, <1>2, ShelfStep
<1>4. FactoryTypeOK'
  BY <1>1, <1>3 DEF FactoryInv, FactoryTypeOK, SourceRow
<1>5. RowsStand'
  BY <1>1 DEF FactoryInv, RowsStand
<1>6. ResultsStand'
  <2>1. \A q \in Finders : entries[q] # NoRow => entries[q].expected \in Nat
    BY FactoryFacts
  <2> QED BY <1>1, <1>2, <1>3, <2>1, FactoryFacts DEF FactoryInv, ResultsStand
<1>7. HandlerStands'
  BY <1>1 DEF HandlerStands
<1> QED BY <1>3, <1>4, <1>5, <1>6, <1>7 DEF FactoryStep, FactoryInv

LEMMA ReviewSteps ==
    ASSUME FactoryInv, ReviewStep PROVE FactoryStep
<1> PICK s \in SourceIds :
        \/ AddPasteSource(s, 1)
        \/ ApproveSource(s)
        \/ RejectSource(s)
        \/ \E included \in BOOLEAN : SetSourceSelection(s, included)
        \/ \E text \in Texts : UpdateSourceRawText(s, text)
  BY DEF ReviewStep
<1> DEFINE row == sources[s]
           Shelf(r) == [sources EXCEPT ![s] = r]
\* replacing one row by a true one leaves the shelf true
<1>1. ASSUME NEW r \in SourceRow, NEW new \in SUBSET (SourceIds \X ({0} \cup Texts)),
             Ready, AdvanceBuild(Shelf(r)), SourcesOnly,
             history' = [history EXCEPT !.approvals = history.approvals \cup new],
             r.review = "REJECTED" => r.text = 0 /\ ~r.included,
             r.kind # "SEARCH_RESULT" /\ r.review = "APPROVED" /\ r.text # 0
               => <<s, r.text>> \in history.approvals \cup new
      PROVE  FactoryStep
  <2> DEFINE shelf == Shelf(r)
  <2>1. shelf \in [SourceIds -> {NoSource} \cup SourceRow]
    BY FactoryFacts
  <2>2. shelf[s] = r /\ \A o \in SourceIds \ {s} : shelf[o] = sources[o]
    BY FactoryFacts
  <2> HIDE DEF shelf
  <2>3. ASSUME NEW o \in Held(shelf)
        PROVE /\ shelf[o].review = "REJECTED" => shelf[o].text = 0 /\ ~shelf[o].included
              /\ o \in Evidence(shelf) /\ shelf[o].review = "APPROVED" /\ shelf[o].text # 0
                   => <<o, shelf[o].text>> \in history.approvals \cup new
    <3>1. CASE o = s
      BY <1>1, <2>2, <3>1 DEF Evidence
    <3>2. CASE o # s
      <4>1. o \in Held(sources) /\ shelf[o] = sources[o]
        BY <2>2, <2>3, <3>2 DEF Held
      <4>2. o \in Evidence(shelf) => o \in Evidence(sources)
        BY <4>1 DEF Evidence
      <4> QED BY <4>1, <4>2 DEF FactoryInv, StatusTellsTheTruth, ApprovalsStand
    <3> QED BY <3>1, <3>2
  <2>4. AdvanceBuild(shelf)
    BY <1>1 DEF shelf
  <2> QED BY <1>1, <2>1, <2>3, <2>4, PersonStep
<1>2. history = [history EXCEPT !.approvals = history.approvals \cup {}]
  BY DEF FactoryInv, HistoryOK
<1>3. s \in Held(sources) => row \in SourceRow
      /\ (row.review = "REJECTED" => row.text = 0 /\ ~row.included)
      /\ (row.kind # "SEARCH_RESULT" /\ row.review = "APPROVED" /\ row.text # 0
            => <<s, row.text>> \in history.approvals)
  BY FactoryFacts DEF FactoryInv, StatusTellsTheTruth, ApprovalsStand, Evidence
<1>4. CASE AddPasteSource(s, 1)
  <2> DEFINE r == NewSource("PASTE", 1)
  <2>1. r \in SourceRow /\ r.review = "PENDING"
    BY DEF NewSource, SourceRow, Texts
  <2>2. Ready /\ AdvanceBuild(Shelf(r)) /\ SourcesOnly /\ history' = history
    BY <1>4 DEF AddPasteSource, WithEvidence
  <2> HIDE DEF r
  <2>3. history' = [history EXCEPT !.approvals = history.approvals \cup {}]
    BY <1>2, <2>2
  <2>4. {} \in SUBSET (SourceIds \X ({0} \cup Texts))
    OBVIOUS
  <2> QED BY <2>1, <2>2, <2>3, <2>4, <1>1
<1>5. CASE ApproveSource(s)
  <2> DEFINE r == [row EXCEPT !.review = "APPROVED"]
             new == {<<s, row.text>>}
  <2>1. /\ Ready /\ s \in Held(sources) /\ row.review # "REJECTED"
        /\ AdvanceBuild([sources EXCEPT ![s].review = "APPROVED"]) /\ SourcesOnly
        /\ history' = [history EXCEPT !.approvals = history.approvals \cup new]
    BY <1>5 DEF ApproveSource
  <2>2. [sources EXCEPT ![s].review = "APPROVED"] = Shelf(r)
    BY FactoryFacts
  <2>3. r \in SourceRow /\ r.text = row.text /\ r.review = "APPROVED" /\ row.text \in {0} \cup Texts
    BY <1>3, <2>1 DEF SourceRow
  <2>4. AdvanceBuild(Shelf(r))
    BY <2>1, <2>2
  <2> HIDE DEF r
  <2>5. new \in SUBSET (SourceIds \X ({0} \cup Texts)) /\ <<s, r.text>> \in new
    BY <2>3
  <2> HIDE DEF new
  <2> QED BY <2>1, <2>3, <2>4, <2>5, <1>1
<1>6. CASE RejectSource(s)
  <2> DEFINE r == [row EXCEPT !.review = "REJECTED", !.included = FALSE, !.text = 0]
  <2>1. /\ Ready /\ s \in Held(sources) /\ SourcesOnly /\ history' = history
        /\ AdvanceBuild(Shelf(r))
    BY <1>6 DEF RejectSource
  <2>2. r \in SourceRow /\ r.text = 0 /\ ~r.included /\ r.review = "REJECTED"
    BY <1>3, <2>1 DEF SourceRow
  <2> HIDE DEF r
  <2>3. history' = [history EXCEPT !.approvals = history.approvals \cup {}]
    BY <1>2, <2>1
  <2>4. {} \in SUBSET (SourceIds \X ({0} \cup Texts))
    OBVIOUS
  <2> QED BY <2>1, <2>2, <2>3, <2>4, <1>1
<1>7. ASSUME NEW included \in BOOLEAN, SetSourceSelection(s, included) PROVE FactoryStep
  <2> DEFINE r == [row EXCEPT !.included = included]
  <2>1. /\ Ready /\ s \in Held(sources) /\ SourcesOnly /\ history' = history
        /\ ~(row.review = "REJECTED" /\ included)
        /\ AdvanceBuild([sources EXCEPT ![s].included = included])
    BY <1>7 DEF SetSourceSelection
  <2>2. [sources EXCEPT ![s].included = included] = Shelf(r)
    BY FactoryFacts
  <2>3. /\ r \in SourceRow /\ r.text = row.text /\ r.included = included /\ r.review = row.review
        /\ r.kind = row.kind
    BY <1>3, <2>1 DEF SourceRow
  <2>4. AdvanceBuild(Shelf(r))
    BY <2>1, <2>2
  <2> HIDE DEF r
  <2>5. history' = [history EXCEPT !.approvals = history.approvals \cup {}]
    BY <1>2, <2>1
  <2>6. /\ r.review = "REJECTED" => r.text = 0 /\ ~r.included
        /\ r.kind # "SEARCH_RESULT" /\ r.review = "APPROVED" /\ r.text # 0
             => <<s, r.text>> \in history.approvals \cup {}
    BY <1>3, <2>1, <2>3
  <2>7. {} \in SUBSET (SourceIds \X ({0} \cup Texts))
    OBVIOUS
  <2> QED BY <2>1, <2>3, <2>4, <2>5, <2>6, <2>7, <1>1
<1>8. ASSUME NEW text \in Texts, UpdateSourceRawText(s, text) PROVE FactoryStep
  <2> DEFINE r == [row EXCEPT !.text = text, !.review = "PENDING"]
  <2>1. /\ Ready /\ s \in Held(sources) /\ SourcesOnly /\ history' = history
        /\ AdvanceBuild(Shelf(r))
    BY <1>8 DEF UpdateSourceRawText, ActiveEvidence, Evidence
  <2>2. r \in SourceRow /\ r.review = "PENDING"
    BY <1>3, <2>1 DEF SourceRow
  <2> HIDE DEF r
  <2>3. history' = [history EXCEPT !.approvals = history.approvals \cup {}]
    BY <1>2, <2>1
  <2>4. {} \in SUBSET (SourceIds \X ({0} \cup Texts))
    OBVIOUS
  <2> QED BY <2>1, <2>2, <2>3, <2>4, <1>1
<1> QED BY <1>4, <1>5, <1>6, <1>7, <1>8

-----------------------------------------------------------------------------
(* Steps that leave the sources alone.                                      *)

LEMMA Unreviewed ==
    ASSUME FactoryInv, UNCHANGED <<build, sources>>, history'.approvals = history.approvals
    PROVE  StatusTellsTheTruth' /\ ApprovalsStand'
BY DEF FactoryInv, StatusTellsTheTruth, ApprovalsStand, Held, Evidence, ReviewReady

\* The row of one request is made, or changed before it tells of a success.
RowChange(q, row) ==
    /\ entries' = [entries EXCEPT ![q] = row]
    /\ entries[q] # NoRow => /\ entries[q].status # "SUCCEEDED"
                             /\ row.expected = entries[q].expected

LEMMA RowChanged ==
    ASSUME FactoryInv, NEW q \in FactoryRequests, NEW row \in EntryRow, RowChange(q, row)
    PROVE  /\ entries' \in [FactoryRequests -> {NoRow} \cup EntryRow]
           /\ entries'[q] = row /\ row # NoRow
           /\ \A o \in FactoryRequests \ {q} : entries'[o] = entries[o]
           /\ SuccessStays
BY FactoryFacts DEF RowChange, SuccessStays

\* what became of the results of the requests
LEMMA ResultsKept ==
    ASSUME FactoryInv, UNCHANGED build, history'.recorded = history.recorded,
           \A q \in Finders : entries[q] # NoRow =>
              entries'[q] # NoRow /\ entries'[q].expected = entries[q].expected
    PROVE  ResultsStand'
BY DEF FactoryInv, ResultsStand

\* A step of the handler that holds the loop, on the row of its request.
LEMMA HandlerRowStep ==
    ASSUME FactoryInv, running # NotRunning, NEW row \in EntryRow,
           \/ RowChange(running.request, row)
           \/ entries' = entries,
           UNCHANGED <<build, sources, awaiting, inputs, made, audited, history>>,
           running.request \in Materializations /\ row.status = "SUCCEEDED"
              /\ entries' # entries => running.request \in audited,
           running' = NotRunning \/ (HandlerStands' /\ running'.request = running.request
              /\ running' \in
                 HandlerRow)
    PROVE  FactoryStep
<1> DEFINE q == running.request
<1>1. q \in FactoryRequests
  BY DEF FactoryInv, HandlerStands
<1>2. /\ entries' \in [FactoryRequests -> {NoRow} \cup EntryRow]
      /\ \A o \in FactoryRequests \ {q} : entries'[o] = entries[o]
      /\ \A o \in FactoryRequests : entries[o] # NoRow =>
            entries'[o] # NoRow /\ entries'[o].expected = entries[o].expected
      /\ SuccessStays
  <2>1. CASE RowChange(q, row)
    <3>1. /\ entries' \in [FactoryRequests -> {NoRow} \cup EntryRow]
          /\ entries'[q] = row /\ row # NoRow
          /\ \A o \in FactoryRequests \ {q} : entries'[o] = entries[o]
          /\ SuccessStays
      BY <1>1, <2>1, RowChanged
    <3> QED BY <2>1, <3>1 DEF RowChange
  <2>2. CASE entries' = entries
    BY <2>2, FactoryFacts DEF SuccessStays
  <2> QED BY <2>1, <2>2
<1>3. StatusTellsTheTruth' /\ ApprovalsStand'
  BY Unreviewed
<1>4. ResultsStand'
  BY <1>2, FactoryFacts, ResultsKept
<1>5. HandlerStands'
  BY DEF HandlerStands
<1>6. RowsStand'
  BY <1>1, <1>2 DEF FactoryInv, RowsStand
<1>7. FactoryTypeOK'
  <2>1. NotRunning \in HandlerRow
    BY DEF NotRunning, HandlerRow
  <2>2. running' \in HandlerRow
    BY <2>1
  <2> QED BY <1>2, <2>2 DEF FactoryInv, FactoryTypeOK, EntryRow, HandlerRow
<1>8. HistoryOK'
  BY DEF FactoryInv, HistoryOK
<1>9. PapersStand'
  <2> SUFFICES ASSUME NEW m \in Materializations
               PROVE  /\ entries'[m] # NoRow /\ entries'[m].status = "SUCCEEDED" => m \in audited
                      /\ entries'[m] = NoRow => entries[m] = NoRow
    BY DEF FactoryInv, PapersStand
  <2>1. m \in FactoryRequests
    BY FactoryFacts
  <2>2. entries[m] # NoRow /\ entries[m].status = "SUCCEEDED" => m \in audited
    BY DEF FactoryInv, PapersStand
  <2>3. CASE entries' = entries
    BY <2>2, <2>3
  <2>4. CASE RowChange(q, row) /\ entries' # entries
    <3>1. entries'[q] = row /\ row # NoRow
          /\ \A o \in FactoryRequests \ {q} : entries'[o] = entries[o]
      BY <1>1, <2>4, RowChanged
    <3> QED BY <2>1, <2>2, <2>4, <3>1
  <2> QED BY <2>3, <2>4
<1> QED BY <1>2, <1>3, <1>4, <1>5, <1>6, <1>7, <1>8, <1>9 DEF FactoryStep, FactoryInv

\* the types of the next step of the handler on the loop
LEMMA NextStepTyped ==
    ASSUME FactoryInv, running # NotRunning,
           NEW step \in {"record", "create", "audit", "audit again", "complete", "recover", "fail"},
           Then(step)
    PROVE  /\ running'.request = running.request /\ running'.step = step
           /\ running' \in HandlerRow
BY DEF FactoryInv, FactoryTypeOK, HandlerRow, Then

\* a row whose change the lemma above takes, whatever it is
LEMMA AnyRow == ASSUME FactoryInv PROVE \E row : row \in EntryRow
<1>1. [status |-> "PENDING", expected |-> 0, parent |-> NoSource] \in EntryRow
  BY FactoryFacts DEF EntryRow, Revisions
<1> QED BY <1>1

LEMMA CompleteStep ==
    ASSUME FactoryInv, CompleteRequest PROVE FactoryStep
<1> DEFINE q == running.request
           row == [entries[q] EXCEPT !.status = "SUCCEEDED"]
<1>1. running # NotRunning /\ running.step = "complete" /\ q \in FactoryRequests
      /\ (q \in Materializations => q \in audited)
  BY DEF CompleteRequest, Runs, NotRunning, FactoryInv, HandlerStands
<1>2. UNCHANGED <<build, sources, awaiting, inputs, made, audited, history>>
  BY DEF CompleteRequest
<1>3. CASE entries[q] # NoRow /\ entries[q].status = "PENDING"
  <2>1. entries' = [entries EXCEPT ![q] = row] /\ running' = NotRunning
    BY <1>3 DEF CompleteRequest, Ends
  <2>2. row \in EntryRow /\ row.expected = entries[q].expected
    BY <1>1, <1>3, FactoryFacts DEF EntryRow
  <2> HIDE DEF row
  <2>3. RowChange(q, row)
    BY <1>3, <2>1, <2>2 DEF RowChange
  <2> QED BY <1>1, <1>2, <2>1, <2>2, <2>3, HandlerRowStep
<1>4. CASE ~(entries[q] # NoRow /\ entries[q].status = "PENDING")
  <2>1. Then("fail") /\ entries' = entries
    BY <1>4 DEF CompleteRequest
  <2>2. /\ running'.request = q /\ running'.step = "fail"
        /\ running' \in HandlerRow
    BY <1>1, <2>1, NextStepTyped
  <2>3. HandlerStands'
    BY <1>1, <2>2 DEF HandlerStands
  <2> QED BY <1>1, <1>2, <2>1, <2>2, <2>3, AnyRow, HandlerRowStep
<1> QED BY <1>3, <1>4

LEMMA SettledRow ==
    ASSUME NEW row \in EntryRow, NEW status \in {"SUCCEEDED", "FAILED"}
    PROVE  /\ Settled(row, status) \in EntryRow
           /\ Settled(row, status).expected = row.expected
           /\ row.status = "SUCCEEDED" => Settled(row, status) = row
           /\ row.status # "SUCCEEDED" => Settled(row, "FAILED").status # "SUCCEEDED"
BY DEF Settled, EntryRow

LEMMA FailStep ==
    ASSUME FactoryInv, FailRequest PROVE FactoryStep
<1> DEFINE q == running.request
           row == Settled(entries[q], "FAILED")
<1>1. running # NotRunning /\ running.step = "fail" /\ q \in FactoryRequests
  BY DEF FailRequest, Runs, NotRunning, FactoryInv, HandlerStands
<1>2. UNCHANGED <<build, sources, awaiting, inputs, made, audited, history>>
      /\ running' = NotRunning
      /\ entries' = IF entries[q] = NoRow THEN entries ELSE [entries EXCEPT ![q] = row]
  BY DEF FailRequest, Ends
<1>3. CASE entries' = entries
  BY <1>1, <1>2, <1>3, AnyRow, HandlerRowStep
<1>4. CASE entries' # entries
  <2>1. entries[q] \in EntryRow /\ entries[q] # NoRow
    BY <1>1, <1>2, <1>4, FactoryFacts
  <2>2. row \in EntryRow /\ row.expected = entries[q].expected
        /\ (entries[q].status = "SUCCEEDED" => row = entries[q])
        /\ (entries[q].status # "SUCCEEDED" => row.status # "SUCCEEDED")
    BY <2>1, SettledRow
  <2> HIDE DEF row
  <2>3. entries' = [entries EXCEPT ![q] = row] /\ entries[q].status # "SUCCEEDED"
    BY <1>2, <1>4, <2>1, <2>2, FactoryFacts
  <2>4. RowChange(q, row)
    BY <2>2, <2>3 DEF RowChange
  <2> QED BY <1>1, <1>2, <2>2, <2>3, <2>4, HandlerRowStep
<1> QED BY <1>3, <1>4

LEMMA TransactionFailsStep ==
    ASSUME FactoryInv, TransactionFails PROVE FactoryStep
<1>1. running # NotRunning /\ Then("fail")
      /\ UNCHANGED <<build, sources, entries, awaiting, inputs, made, audited, history>>
  BY DEF TransactionFails, NotRunning
<1>2. /\ running'.request = running.request /\ running'.step = "fail"
      /\ running' \in HandlerRow
  BY <1>1, NextStepTyped
<1>3. HandlerStands'
  BY <1>1, <1>2 DEF FactoryInv, HandlerStands
<1> QED BY <1>1, <1>2, <1>3, AnyRow, HandlerRowStep

LEMMA RecoverStep ==
    ASSUME FactoryInv, RecoverRequest PROVE FactoryStep
<1> DEFINE q == running.request
           row == [entries[q] EXCEPT !.status = "SUCCEEDED"]
<1>1. running # NotRunning /\ q \in FactoryRequests /\ q \in audited
  BY DEF RecoverRequest, Runs, NotRunning, FactoryInv, HandlerStands
<1>2. UNCHANGED <<build, sources, awaiting, inputs, made, audited, history>>
      /\ running' = NotRunning
  BY DEF RecoverRequest, Ends
<1>3. CASE entries' = entries
  BY <1>1, <1>2, <1>3, AnyRow, HandlerRowStep
<1>4. CASE entries' # entries
  <2>1. /\ entries' = [entries EXCEPT ![q] = row] /\ entries[q] # NoRow
        /\ entries[q].status \in {"PENDING", "FAILED"}
    BY <1>4 DEF RecoverRequest
  <2>2. row \in EntryRow /\ row.expected = entries[q].expected
    BY <1>1, <2>1, FactoryFacts DEF EntryRow
  <2> HIDE DEF row
  <2>3. RowChange(q, row)
    BY <2>1, <2>2 DEF RowChange
  <2> QED BY <1>1, <1>2, <2>2, <2>3, HandlerRowStep
<1> QED BY <1>3, <1>4

-----------------------------------------------------------------------------
(* Searches and readings.                                                  *)

\* A request is sent: its row was not that of a success.
LEMMA ClaimCallStep ==
    ASSUME FactoryInv, NEW q \in Finders, NEW e \in Revisions,
           NEW parent \in SourceIds \cup {NoSource}, ClaimCall(q, e, parent)
    PROVE  FactoryStep
<1> DEFINE claimed == Claimed(q, e, parent)
<1>1. /\ Ready /\ (entries[q] # NoRow => entries[q].status # "SUCCEEDED")
      /\ awaiting[q] < MaxHandlers
      /\ UNCHANGED <<build, sources, running, inputs, made, audited>>
      /\ \/ /\ entries' = [entries EXCEPT ![q] = claimed]
            /\ awaiting' = [awaiting EXCEPT ![q] = awaiting[q] + 1]
            /\ history' = [history EXCEPT !.calls[q] = IF history.calls[q] = 2 THEN 2
                                                       ELSE history.calls[q] + 1]
         \/ /\ entries' = [entries EXCEPT ![q] = Settled(claimed, "FAILED")]
            /\ UNCHANGED <<awaiting, history>>
  BY DEF ClaimCall
<1>2. q \in FactoryRequests /\ q \notin Materializations
  BY FactoryFacts
<1>3. /\ claimed \in EntryRow
      /\ entries[q] # NoRow => claimed = entries[q]
      /\ claimed.status # "SUCCEEDED"
  BY <1>1, <1>2, FactoryFacts DEF Claimed, Row, EntryRow
<1> HIDE DEF claimed
<1>4. PICK row \in EntryRow : RowChange(q, row) /\ row.status # "SUCCEEDED"
        /\ entries' = [entries EXCEPT ![q] = row]
  <2>1. /\ Settled(claimed, "FAILED") \in EntryRow
        /\ Settled(claimed, "FAILED").expected = claimed.expected
        /\ Settled(claimed, "FAILED").status # "SUCCEEDED"
    BY <1>3, SettledRow
  <2> QED BY <1>1, <1>3, <2>1 DEF RowChange
<1>5. /\ entries' \in [FactoryRequests -> {NoRow} \cup EntryRow]
      /\ entries'[q] = row /\ row # NoRow
      /\ \A o \in FactoryRequests \ {q} : entries'[o] = entries[o]
      /\ SuccessStays
  BY <1>2, <1>4, RowChanged
<1>6. /\ awaiting' \in [FactoryRequests -> 0 .. MaxHandlers]
      /\ \A o \in FactoryRequests \ {q} : awaiting'[o] = awaiting[o]
  BY <1>1, <1>2, FactoryFacts
<1>7. /\ history' \in [approvals : SUBSET (SourceIds \X ({0} \cup Texts)),
                       calls : [FactoryRequests -> Nat], recorded : [FactoryRequests -> Nat]]
      /\ history'.approvals = history.approvals /\ history'.recorded = history.recorded
      /\ \A m \in Materializations : history'.calls[m] = history.calls[m]
  <2> DEFINE n == IF history.calls[q] = 2 THEN 2 ELSE history.calls[q] + 1
  <2>1. n \in Nat
    BY <1>2 DEF FactoryInv, HistoryOK
  <2>2. history' = history \/ history' = [history EXCEPT !.calls[q] = n]
    BY <1>1
  <2> HIDE DEF n
  <2> QED BY <1>2, <2>1, <2>2, FactoryFacts DEF FactoryInv, HistoryOK
<1>8. FactoryTypeOK'
  BY <1>1, <1>5, <1>6 DEF FactoryInv, FactoryTypeOK, EntryRow
<1>9. HistoryOK'
  BY <1>1, <1>7 DEF FactoryInv, HistoryOK
<1>10. StatusTellsTheTruth' /\ ApprovalsStand'
  BY <1>1, <1>7, Unreviewed
<1>11. RowsStand'
  BY <1>1, <1>5, <1>6 DEF FactoryInv, RowsStand, Ready
<1>12. PapersStand'
  <2>1. \A m \in Materializations : m \in FactoryRequests \ {q}
    BY <1>2, FactoryFacts
  <2> QED BY <1>1, <1>5, <1>6, <1>7, <2>1 DEF FactoryInv, PapersStand
<1>13. ResultsStand'
  <2>1. \A o \in Finders : entries[o] # NoRow
          => entries'[o] # NoRow /\ entries'[o].expected = entries[o].expected
    BY <1>4, <1>5, FactoryFacts DEF RowChange
  <2> QED BY <1>1, <1>7, <2>1, ResultsKept
<1>14. HandlerStands'
  BY <1>1 DEF HandlerStands, Ready
<1> QED BY <1>5, <1>8, <1>9, <1>10, <1>11, <1>12, <1>13, <1>14 DEF FactoryStep, FactoryInv

\* An answer gives the loop to the handler that awaited it.
LEMMA AnswerStep ==
    ASSUME FactoryInv, NEW q \in FactoryRequests, NEW step \in {"record", "create", "fail"},
           step = "record" => q \in Finders, step = "create" => q \in Materializations,
           ProviderAnswers(q, step)
    PROVE  FactoryStep
<1>1. /\ running = NotRunning /\ awaiting[q] > 0
      /\ awaiting' = [awaiting EXCEPT ![q] = awaiting[q] - 1]
      /\ running' = [request |-> q, step |-> step]
      /\ UNCHANGED <<build, sources, entries, inputs, made, audited, history>>
  BY DEF ProviderAnswers
<1>2. /\ awaiting' \in [FactoryRequests -> 0 .. MaxHandlers]
      /\ \A o \in FactoryRequests : awaiting'[o] > 0 => awaiting[o] > 0
  BY <1>1, FactoryFacts
<1>3. running' \in HandlerRow /\ running'.request = q /\ running'.step = step
  BY <1>1 DEF HandlerRow
<1>4. FactoryTypeOK'
  BY <1>1, <1>2, <1>3 DEF FactoryInv, FactoryTypeOK, HandlerRow
<1>5. StatusTellsTheTruth' /\ ApprovalsStand' /\ HistoryOK'
  BY <1>1, Unreviewed DEF FactoryInv, HistoryOK
<1>6. RowsStand'
  BY <1>1, <1>2, <1>3 DEF FactoryInv, RowsStand
<1>7. PapersStand'
  <2>1. \A m \in Materializations : m \in FactoryRequests
    BY FactoryFacts
  <2> QED BY <1>1, <1>2, <2>1 DEF FactoryInv, PapersStand
<1>8. ResultsStand'
  BY <1>1, ResultsKept
<1>9. HandlerStands'
  BY <1>1, <1>3 DEF FactoryInv, PapersStand, HandlerStands
<1> QED BY <1>1, <1>4, <1>5, <1>6, <1>7, <1>8, <1>9 DEF FactoryStep, FactoryInv, SuccessStays

\* Results are recorded under the revision their request named, and move past it.
LEMMA RecordStep ==
    ASSUME FactoryInv, NEW s, NEW text,
           \/ s \in SourceIds /\ text = 1
           \/ s = NoSource /\ running.request \in Searches,
           RecordResults(s, text)
    PROVE  FactoryStep
<1> DEFINE q == running.request
           found == IF q \in Searches
                    THEN IF s = NoSource THEN sources
                         ELSE [sources EXCEPT ![s] = NewSource("SEARCH_RESULT", 0)]
                    ELSE WithEvidence(s, "READER", text)
<1>1. /\ running # NotRunning /\ q \in Finders /\ q \in FactoryRequests
      /\ UNCHANGED <<entries, awaiting, inputs, made, audited>>
  BY FactoryFacts DEF RecordResults, Runs, NotRunning, FactoryInv, HandlerStands
<1>2. CASE ~(StillExpected(q) /\ WithinEvidenceLimit(found))
  <2>1. Then("fail") /\ UNCHANGED <<build, sources, history>>
    BY <1>2 DEF RecordResults
  <2>2. /\ running'.request = q /\ running'.step = "fail" /\ running' \in HandlerRow
    BY <1>1, <2>1, NextStepTyped
  <2>3. HandlerStands'
    BY <1>1, <2>2 DEF HandlerStands
  <2> QED BY <1>1, <2>1, <2>2, <2>3, AnyRow, HandlerRowStep
<1>3. CASE StillExpected(q) /\ WithinEvidenceLimit(found)
  <2>1. /\ AdvanceBuild(found) /\ Then("complete")
        /\ history' = [history EXCEPT !.recorded[q] = history.recorded[q] + 1]
        /\ build.state = "open" /\ build.revision = entries[q].expected
    BY <1>3 DEF RecordResults, StillExpected
  <2>2. entries[q] # NoRow
    BY <1>1, <2>1 DEF FactoryInv, RowsStand
  <2>3. history.recorded[q] = 0
    <3>1. entries[q].expected \in Nat /\ history.recorded[q] \in Nat
      BY <1>1, <2>2, FactoryFacts DEF FactoryInv, HistoryOK
    <3>2. history.recorded[q] <= 1 /\ history.recorded[q] # 1
      BY <1>1, <2>1, <3>1, FactoryFacts DEF FactoryInv, ResultsStand
    <3> QED BY <3>1, <3>2
  <2>4. /\ history' \in [approvals : SUBSET (SourceIds \X ({0} \cup Texts)),
                         calls : [FactoryRequests -> Nat], recorded : [FactoryRequests -> Nat]]
        /\ history'.approvals = history.approvals /\ history'.calls = history.calls
        /\ history'.recorded[q] = 1
        /\ \A o \in Finders \ {q} : history'.recorded[o] = history.recorded[o]
    <3>1. history' = [history EXCEPT !.recorded[q] = 1]
      BY <2>1, <2>3
    <3> QED BY <1>1, <3>1, FactoryFacts DEF FactoryInv, HistoryOK
  <2>5. /\ found \in [SourceIds -> {NoSource} \cup SourceRow]
        /\ \A o \in Held(found) :
              \/ o \in Held(sources) /\ found[o] = sources[o]
              \/ found[o] \in SourceRow /\ found[o].review = "PENDING"
    <3>1. /\ NewSource("SEARCH_RESULT", 0) \in SourceRow
          /\ NewSource("SEARCH_RESULT", 0).review = "PENDING"
          /\ NewSource("READER", 1) \in SourceRow /\ NewSource("READER", 1).review = "PENDING"
      BY DEF NewSource, SourceRow, Texts
    <3>2. found = sources \/ \E r \in SourceRow :
            r.review = "PENDING" /\ s \in SourceIds /\ found = [sources EXCEPT ![s] = r]
      BY <1>1, <3>1, FactoryFacts DEF WithEvidence, Finders
    <3> HIDE DEF found
    <3> QED BY <3>2, FactoryFacts DEF Held
  <2> HIDE DEF found
  <2>6. \A o \in Held(found) :
          /\ found[o].review = "REJECTED" => found[o].text = 0 /\ ~found[o].included
          /\ o \in Evidence(found) /\ found[o].review = "APPROVED" /\ found[o].text # 0
               => <<o, found[o].text>> \in history'.approvals
    BY <2>4, <2>5 DEF FactoryInv, StatusTellsTheTruth, ApprovalsStand, Evidence
  <2>7. /\ build' \in [state : {"none", "open", "gone"}, revision : Revisions, ready : BOOLEAN]
        /\ build'.state = "open" /\ build'.revision = build.revision + 1
        /\ sources' \in [SourceIds -> {NoSource} \cup SourceRow]
        /\ HistoryOK' /\ StatusTellsTheTruth' /\ ApprovalsStand' /\ PapersStand'
        /\ SuccessStays
    BY <1>1, <2>1, <2>4, <2>5, <2>6, ShelfStep
  <2>8. running'.request = q /\ running'.step = "complete" /\ running' \in HandlerRow
    BY <1>1, <2>1, NextStepTyped
  <2>9. FactoryTypeOK'
    BY <1>1, <2>7, <2>8 DEF FactoryInv, FactoryTypeOK, SourceRow, HandlerRow
  <2>10. HandlerStands'
    BY <1>1, <2>8, FactoryFacts DEF HandlerStands
  <2>11. RowsStand'
    BY <1>1, <2>1, <2>2, <2>8 DEF FactoryInv, RowsStand
  <2>12. ResultsStand'
    <3> SUFFICES ASSUME NEW o \in Finders
                 PROVE  /\ history'.recorded[o] <= 1
                        /\ history'.recorded[o] = 1
                             => entries[o] # NoRow /\ entries[o].expected < build'.revision
      BY <1>1 DEF ResultsStand
    <3>1. entries[o] # NoRow => entries[o].expected \in Nat
      BY FactoryFacts
    <3>2. CASE o = q
      BY <2>1, <2>2, <2>4, <2>7, <3>1, <3>2, FactoryFacts
    <3>3. CASE o # q
      BY <2>1, <2>4, <2>7, <3>1, <3>3, FactoryFacts DEF FactoryInv, ResultsStand
    <3> QED BY <3>2, <3>3
  <2> QED BY <2>7, <2>9, <2>10, <2>11, <2>12 DEF FactoryStep, FactoryInv
<1> QED BY <1>2, <1>3

-----------------------------------------------------------------------------
(* Materializations.                                                       *)

\* What may be packed is a paper of approved texts.
LEMMA InputsApproved ==
    ASSUME FactoryInv PROVE ApprovedInputs \in Papers /\ ApprovedInputs \subseteq history.approvals
<1> SUFFICES ASSUME NEW pair \in ApprovedInputs
             PROVE  pair \in SourceIds \X Texts /\ pair \in history.approvals
  BY DEF Papers
<1>1. PICK s \in Evidence(sources) :
        /\ sources[s].review = "APPROVED" /\ sources[s].text # 0
        /\ pair = <<s, sources[s].text>>
  BY DEF ApprovedInputs
<1>2. s \in SourceIds /\ sources[s] \in SourceRow
  BY <1>1, FactoryFacts DEF Evidence
<1>3. sources[s].text \in Texts
  BY <1>1, <1>2 DEF SourceRow
<1> QED BY <1>1, <1>2, <1>3 DEF FactoryInv, ApprovalsStand

\* A materialization reads what is approved, and asks the model for the first time.
LEMMA ClaimMaterializationStep ==
    ASSUME FactoryInv, NEW q \in Materializations, NEW e \in Revisions, NEW model \in BOOLEAN,
           ClaimMaterialization(q, e, model)
    PROVE  FactoryStep
<1>1. /\ running = NotRunning /\ build.state = "open" /\ entries[q] = NoRow
      /\ UNCHANGED <<build, sources, made, audited>>
  BY DEF ClaimMaterialization, Ready
<1>2. q \in FactoryRequests /\ q \notin Finders
      /\ \A m \in Materializations : m \in FactoryRequests
  BY FactoryFacts
<1>3. history.calls[q] = 0
  BY <1>1 DEF FactoryInv, PapersStand
<1>4. PICK row \in EntryRow : entries' = [entries EXCEPT ![q] = row] /\ row.status # "SUCCEEDED"
  <2>1. /\ Row("PENDING", e, NoSource) \in EntryRow /\ Row("FAILED", e, NoSource) \in EntryRow
        /\ Row("PENDING", e, NoSource).status # "SUCCEEDED"
        /\ Row("FAILED", e, NoSource).status # "SUCCEEDED"
    BY DEF Row, EntryRow
  <2> QED BY <2>1 DEF ClaimMaterialization
<1>5. /\ entries' \in [FactoryRequests -> {NoRow} \cup EntryRow]
      /\ entries'[q] = row /\ row # NoRow
      /\ \A o \in FactoryRequests \ {q} : entries'[o] = entries[o]
      /\ SuccessStays
  BY <1>1, <1>2, <1>4, RowChanged DEF RowChange
<1>6. /\ inputs' \in [Materializations -> Papers]
      /\ \A m \in Materializations : inputs'[m] \subseteq history.approvals
      /\ \A m \in Materializations \ {q} : inputs'[m] = inputs[m]
  <2>1. inputs' = inputs \/ inputs' = [inputs EXCEPT ![q] = ApprovedInputs]
    BY DEF ClaimMaterialization
  <2> QED BY <2>1, InputsApproved DEF FactoryInv, HistoryOK, PapersStand
<1>7. \/ UNCHANGED <<awaiting, running, history>>
      \/ /\ inputs'[q] # {} /\ awaiting' = [awaiting EXCEPT ![q] = 1] /\ running' = running
         /\ history' = [history EXCEPT !.calls[q] = 1]
      \/ /\ inputs'[q] # {} /\ UNCHANGED <<awaiting, history>>
         /\ running' = [request |-> q, step |-> "create"]
  <2>1. CASE Materializable(e)
    <3>1. inputs' = [inputs EXCEPT ![q] = ApprovedInputs] /\ ApprovedInputs # {}
      BY <2>1 DEF ClaimMaterialization, Materializable
    <3>2. inputs'[q] # {}
      BY <3>1 DEF FactoryInv, HistoryOK
    <3> QED BY <2>1, <3>2, <1>3 DEF ClaimMaterialization
  <2>2. CASE ~Materializable(e)
    BY <2>2 DEF ClaimMaterialization
  <2> QED BY <2>1, <2>2
<1>8. /\ awaiting' \in [FactoryRequests -> 0 .. MaxHandlers]
      /\ \A o \in FactoryRequests \ {q} : awaiting'[o] = awaiting[o]
  BY <1>2, <1>7, FactoryFacts
<1>9. /\ history' \in [approvals : SUBSET (SourceIds \X ({0} \cup Texts)),
                       calls : [FactoryRequests -> Nat], recorded : [FactoryRequests -> Nat]]
      /\ history'.approvals = history.approvals /\ history'.recorded = history.recorded
      /\ history'.calls[q] <= 1
      /\ \A m \in Materializations \ {q} : history'.calls[m] = history.calls[m]
  <2>1. history' = history \/ history' = [history EXCEPT !.calls[q] = 1]
    BY <1>7
  <2> QED BY <1>2, <1>3, <2>1 DEF FactoryInv, HistoryOK
<1>10. FactoryTypeOK'
  <2>1. [request |-> q, step |-> "create"] \in HandlerRow /\ running \in HandlerRow
    BY <1>2 DEF FactoryInv, FactoryTypeOK, HandlerRow
  <2>2. running' \in HandlerRow
    BY <1>7, <2>1
  <2> QED BY <1>1, <1>5, <1>8, <2>2 DEF FactoryInv, FactoryTypeOK, EntryRow, HandlerRow
<1>11. HistoryOK'
  BY <1>1, <1>6, <1>9 DEF FactoryInv, HistoryOK
<1>12. StatusTellsTheTruth' /\ ApprovalsStand'
  BY <1>1, <1>9, Unreviewed
<1>13. RowsStand'
  <2>1. running' = NotRunning \/ running'.request = q
    BY <1>1, <1>7
  <2> QED BY <1>1, <1>5, <1>8, <2>1 DEF FactoryInv, RowsStand
<1>14. PapersStand'
  <2> SUFFICES ASSUME NEW m \in Materializations
               PROVE  /\ awaiting'[m] > 0 => inputs'[m] # {}
                      /\ entries'[m] # NoRow /\ entries'[m].status = "SUCCEEDED" => m \in audited
                      /\ history'.calls[m] <= 1
                      /\ entries'[m] = NoRow => history'.calls[m] = 0
    BY <1>1, <1>6, <1>9 DEF FactoryInv, PapersStand
  <2>1. CASE m = q
    <3>1. awaiting[q] = 0
      BY <1>1, <1>2, FactoryFacts DEF FactoryInv, RowsStand
    <3>2. awaiting'[q] > 0 => inputs'[q] # {}
      BY <1>7, <3>1
    <3> QED BY <1>4, <1>5, <1>9, <2>1, <3>2
  <2>2. CASE m # q
    BY <1>1, <1>2, <1>5, <1>6, <1>8, <1>9, <2>2 DEF FactoryInv, PapersStand
  <2> QED BY <2>1, <2>2
<1>15. ResultsStand'
  <2>1. \A o \in Finders : o \in FactoryRequests \ {q}
    BY <1>2, FactoryFacts
  <2> QED BY <1>1, <1>5, <1>9, <2>1, ResultsKept
<1>16. HandlerStands'
  <2>1. CASE running' = running
    BY <1>1, <2>1 DEF HandlerStands
  <2>2. CASE inputs'[q] # {} /\ running' = [request |-> q, step |-> "create"]
    <3>1. running'.request = q /\ running'.step = "create"
      BY <2>2
    <3> QED BY <1>2, <2>2, <3>1 DEF HandlerStands
  <2> QED BY <1>7, <2>1, <2>2
<1> QED BY <1>5, <1>10, <1>11, <1>12, <1>13, <1>14, <1>15, <1>16 DEF FactoryStep, FactoryInv

\* What the handler of a materialization reads, when it holds the loop.
LEMMA PackSteps ==
    ASSUME FactoryInv, running # NotRunning,
           UNCHANGED <<build, sources, entries, awaiting, inputs, history>>,
           NEW q \in Materializations, q = running.request,
           \/ made' = made
           \/ made[q] = NoPaper /\ inputs[q] # {} /\ made' = [made EXCEPT ![q] = inputs[q]],
           \/ audited' = audited
           \/ made[q] # NoPaper /\ audited' = audited \cup {q},
           running'.request = q, running' \in HandlerRow, HandlerStands'
    PROVE  FactoryStep
<1>1. /\ made' \in [Materializations -> Papers \cup {NoPaper}]
      /\ \A m \in Materializations : made[m] # NoPaper => made'[m] = made[m]
      /\ \A m \in Materializations : made'[m] # NoPaper =>
            made'[m] # {} /\ made'[m] \subseteq history.approvals
  BY DEF FactoryInv, HistoryOK, PapersStand
<1>2. audited' \subseteq Materializations
  BY DEF FactoryInv, FactoryTypeOK
<1>3. FactoryTypeOK'
  BY <1>2 DEF FactoryInv, FactoryTypeOK, HandlerRow
<1>4. HistoryOK'
  BY <1>1 DEF FactoryInv, HistoryOK
<1>5. StatusTellsTheTruth' /\ ApprovalsStand' /\ ResultsStand'
  BY Unreviewed, ResultsKept
<1>6. RowsStand'
  BY DEF FactoryInv, RowsStand
<1>7. PapersStand'
  BY <1>1 DEF FactoryInv, PapersStand
<1> QED BY <1>3, <1>4, <1>5, <1>6, <1>7 DEF FactoryStep, FactoryInv, SuccessStays

LEMMA CreateStep ==
    ASSUME FactoryInv, CreatePack PROVE FactoryStep
<1> DEFINE q == running.request
<1>1. /\ running # NotRunning /\ q \in Materializations /\ inputs[q] # {}
      /\ UNCHANGED <<build, sources, entries, awaiting, inputs, audited, history>>
  BY DEF CreatePack, Runs, NotRunning, FactoryInv, HandlerStands
<1>2. CASE made[q] = NoPaper
  <2>1. made' = [made EXCEPT ![q] = inputs[q]] /\ Then("audit")
    BY <1>2 DEF CreatePack
  <2>2. running'.request = q /\ running'.step = "audit" /\ running' \in HandlerRow
    BY <1>1, <2>1, NextStepTyped
  <2>3. made'[q] # NoPaper
    BY <1>1, <2>1, FactoryFacts DEF FactoryInv, HistoryOK
  <2>4. HandlerStands'
    BY <1>1, <2>2, <2>3, FactoryFacts DEF HandlerStands
  <2> QED BY <1>1, <1>2, <2>1, <2>2, <2>4, PackSteps
<1>3. CASE made[q] # NoPaper
  <2>1. made' = made /\ Then("fail")
    BY <1>3 DEF CreatePack
  <2>2. running'.request = q /\ running'.step = "fail" /\ running' \in HandlerRow
    BY <1>1, <2>1, NextStepTyped
  <2>3. HandlerStands'
    BY <1>1, <2>2, FactoryFacts DEF HandlerStands
  <2> QED BY <1>1, <2>1, <2>2, <2>3, PackSteps
<1> QED BY <1>2, <1>3

LEMMA AuditStep ==
    ASSUME FactoryInv, EnsureAudit PROVE FactoryStep
<1> DEFINE q == running.request
           next == IF running.step = "audit" THEN "complete" ELSE "recover"
<1>1. /\ running # NotRunning /\ q \in Materializations /\ made[q] # NoPaper
      /\ audited' = audited \cup {q} /\ Then(next)
      /\ UNCHANGED <<build, sources, entries, awaiting, inputs, made, history>>
  <2>1. running.step \in {"audit", "audit again"}
    BY DEF EnsureAudit
  <2>2. NotRunning.step = "none"
    BY DEF NotRunning
  <2>3. running # NotRunning
    BY <2>1, <2>2
  <2> QED BY <2>1, <2>3 DEF EnsureAudit, FactoryInv, HandlerStands
<1>2. next \in {"complete", "recover"}
  OBVIOUS
<1> HIDE DEF next
<1>3. running'.request = q /\ running'.step = next /\ running' \in HandlerRow
  BY <1>1, <1>2, NextStepTyped
<1>4. HandlerStands'
  BY <1>1, <1>2, <1>3, FactoryFacts DEF HandlerStands
<1> QED BY <1>1, <1>3, <1>4, PackSteps

LEMMA RepeatStep ==
    ASSUME FactoryInv, NEW q \in Materializations, NEW e, RepeatMaterialization(q, e)
    PROVE  FactoryStep
<1>1. /\ made[q] # NoPaper /\ entries[q] # NoRow
      /\ running' = [request |-> q, step |-> "audit again"]
      /\ UNCHANGED <<build, sources, entries, awaiting, inputs, made, audited, history>>
  BY DEF RepeatMaterialization
<1>2. running' \in HandlerRow /\ running'.request = q /\ running'.step = "audit again"
  BY <1>1, FactoryFacts DEF HandlerRow
<1>3. FactoryTypeOK'
  BY <1>1, <1>2 DEF FactoryInv, FactoryTypeOK, HandlerRow
<1>4. HistoryOK' /\ StatusTellsTheTruth' /\ ApprovalsStand' /\ ResultsStand'
  BY <1>1, Unreviewed, ResultsKept DEF FactoryInv, HistoryOK
<1>5. RowsStand' /\ PapersStand'
  BY <1>1, <1>2 DEF FactoryInv, RowsStand, PapersStand
<1>6. HandlerStands'
  BY <1>1, <1>2, FactoryFacts DEF HandlerStands
<1> QED BY <1>1, <1>3, <1>4, <1>5, <1>6 DEF FactoryStep, FactoryInv, SuccessStays

LEMMA RepetitionFailsStep ==
    ASSUME FactoryInv, RepetitionFails PROVE FactoryStep
<1>1. /\ running # NotRunning /\ running' = NotRunning
      /\ UNCHANGED <<build, sources, entries, awaiting, inputs, made, audited, history>>
  <2>1. running.step \in {"audit again", "recover"}
    BY DEF RepetitionFails
  <2>2. NotRunning.step = "none"
    BY DEF NotRunning
  <2>3. running # NotRunning
    BY <2>1, <2>2
  <2> QED BY <2>3 DEF RepetitionFails, Ends
<1> QED BY <1>1, AnyRow, HandlerRowStep

-----------------------------------------------------------------------------
(* The build itself, and the process.                                      *)

LEMMA CreateBuildStep ==
    ASSUME FactoryInv, CreateBuild PROVE FactoryStep
<1>1. /\ build.state = "none" /\ build' = [build EXCEPT !.state = "open"]
      /\ UNCHANGED <<sources, entries, awaiting, running, inputs, made, audited, history>>
  BY DEF CreateBuild
<1>2. /\ build' \in [state : {"none", "open", "gone"}, revision : Revisions, ready : BOOLEAN]
      /\ build'.state = "open" /\ build'.revision = build.revision /\ build'.ready = build.ready
  BY <1>1, FactoryFacts
<1>3. FactoryTypeOK' /\ HistoryOK'
  BY <1>1, <1>2 DEF FactoryInv, FactoryTypeOK, HistoryOK
<1>4. StatusTellsTheTruth' /\ ApprovalsStand'
  BY <1>1, <1>2 DEF FactoryInv, StatusTellsTheTruth, ApprovalsStand, Held, Evidence, ReviewReady
<1>5. RowsStand' /\ PapersStand' /\ ResultsStand' /\ HandlerStands'
  BY <1>1, <1>2 DEF FactoryInv, RowsStand, PapersStand, ResultsStand, HandlerStands
<1> QED BY <1>1, <1>3, <1>4, <1>5 DEF FactoryStep, FactoryInv, SuccessStays

LEMMA ForgetStep ==
    ASSUME FactoryInv, Forget PROVE FactoryStep
<1>1. /\ running = NotRunning
      /\ build' = [state |-> "gone", revision |-> 0, ready |-> FALSE]
      /\ sources' = [s \in SourceIds |-> NoSource]
      /\ entries' = [q \in FactoryRequests |-> NoRow]
      /\ UNCHANGED <<awaiting, running, inputs, made, audited, history>>
  BY DEF Forget, Ready
<1>2. /\ build' \in [state : {"none", "open", "gone"}, revision : Revisions, ready : BOOLEAN]
      /\ build'.state = "gone" /\ build'.ready = FALSE
  BY <1>1, FactoryFacts DEF Revisions
<1>3. FactoryTypeOK' /\ HistoryOK'
  BY <1>1, <1>2 DEF FactoryInv, FactoryTypeOK, HistoryOK
<1>4. Held(sources') = {} /\ Evidence(sources') = {}
  BY <1>1 DEF Held, Evidence
<1>5. StatusTellsTheTruth' /\ ApprovalsStand'
  BY <1>2, <1>4 DEF StatusTellsTheTruth, ApprovalsStand, ReviewReady
<1>6. RowsStand' /\ ResultsStand' /\ HandlerStands'
  BY <1>1, <1>2 DEF FactoryInv, RowsStand, ResultsStand, HandlerStands
<1>7. PapersStand'
  <2>1. \A m \in Materializations : entries'[m] = NoRow
    BY <1>1, FactoryFacts
  <2> QED BY <1>1, <1>2, <2>1 DEF FactoryInv, PapersStand
<1> QED BY <1>2, <1>3, <1>5, <1>6, <1>7 DEF FactoryStep, FactoryInv, SuccessStays

LEMMA StopStep ==
    ASSUME FactoryInv, StopProcess PROVE FactoryStep
<1>1. /\ awaiting' = [q \in FactoryRequests |-> 0] /\ running' = NotRunning
      /\ UNCHANGED <<build, sources, entries, inputs, made, audited, history>>
  BY DEF StopProcess, Ends
<1>2. NotRunning \in HandlerRow /\ 0 \in 0 .. MaxHandlers
  BY FactoryFacts DEF NotRunning, HandlerRow
<1>3. FactoryTypeOK'
  BY <1>1, <1>2 DEF FactoryInv, FactoryTypeOK, HandlerRow
<1>4. HistoryOK' /\ StatusTellsTheTruth' /\ ApprovalsStand' /\ ResultsStand'
  BY <1>1, Unreviewed, ResultsKept DEF FactoryInv, HistoryOK
<1>5. \A q \in FactoryRequests : ~(awaiting'[q] > 0)
  BY <1>1
<1>6. RowsStand' /\ HandlerStands'
  BY <1>1, <1>5 DEF RowsStand, HandlerStands
<1>7. PapersStand'
  <2>1. \A m \in Materializations : ~(awaiting'[m] > 0)
    BY <1>5, FactoryFacts
  <2> QED BY <1>1, <2>1 DEF FactoryInv, PapersStand
<1> QED BY <1>1, <1>3, <1>4, <1>6, <1>7 DEF FactoryStep, FactoryInv, SuccessStays

-----------------------------------------------------------------------------
(* The theorems.                                                           *)

LEMMA FactoryInitially == FactoryInit => FactoryInv
<1> SUFFICES ASSUME FactoryInit PROVE FactoryInv
  OBVIOUS
<1> USE DEF FactoryInit
<1>1. MaxRevision \in Nat /\ MaxHandlers \in Nat /\ NoSource \notin SourceIds
  BY FactoryAssumption
<1>2. FactoryTypeOK
  BY <1>1 DEF FactoryTypeOK, Revisions, NotRunning
<1>3. HistoryOK
  BY DEF HistoryOK, Papers
<1>4. Held(sources) = {} /\ Evidence(sources) = {}
  BY DEF Held, Evidence
<1>5. StatusTellsTheTruth /\ ApprovalsStand
  BY <1>4 DEF StatusTellsTheTruth, ApprovalsStand, ReviewReady
<1>6. RowsStand /\ HandlerStands
  BY DEF RowsStand, HandlerStands
<1>7. \A q \in Materializations : q \in FactoryRequests
  BY DEF FactoryRequests
<1>8. PapersStand
  BY <1>7 DEF PapersStand
<1>9. ResultsStand
  BY DEF ResultsStand, Finders, FactoryRequests
<1> QED BY <1>2, <1>3, <1>5, <1>6, <1>8, <1>9 DEF FactoryInv

LEMMA FactoryNextStep ==
    ASSUME FactoryInv, [FactoryNext]_factoryVars PROVE FactoryStep
<1>1. CASE UNCHANGED factoryVars
  BY <1>1, ZenonT(60) DEF factoryVars, FactoryStep, SuccessStays, FactoryInv, FactoryTypeOK, HistoryOK,
     StatusTellsTheTruth, ApprovalsStand, RowsStand, PapersStand, ResultsStand, HandlerStands,
     Held, Evidence, ReviewReady
<1>2. CASE CreateBuild \/ Forget \/ StopProcess
  BY <1>2, CreateBuildStep, ForgetStep, StopStep
<1>3. CASE ReviewStep
  BY <1>3, ReviewSteps
<1>4. CASE CallStep
  <2>1. ASSUME NEW q \in Searches, NEW e \in Revisions, ClaimCall(q, e, NoSource)
        PROVE  FactoryStep
    BY <2>1, ClaimCallStep DEF Finders
  <2>2. ASSUME NEW q \in Readings, NEW e \in Revisions, NEW s \in SourceIds, ClaimCall(q, e, s)
        PROVE  FactoryStep
    BY <2>2, ClaimCallStep DEF Finders
  <2>3. ASSUME NEW q \in Searches \cup Readings, NEW step \in {"record", "fail"},
               ProviderAnswers(q, step)
        PROVE  FactoryStep
    BY <2>3, AnswerStep, FactoryFacts DEF Finders
  <2>4. ASSUME NEW s \in SourceIds \ Held(sources), RecordResults(s, 1) PROVE FactoryStep
    BY <2>4, RecordStep
  <2>5. ASSUME running.request \in Searches, RecordResults(NoSource, 0) PROVE FactoryStep
    BY <2>5, RecordStep
  <2> QED BY <1>4, <2>1, <2>2, <2>3, <2>4, <2>5 DEF CallStep
<1>5. CASE HandlerStep
  BY <1>5, CompleteStep, FailStep, TransactionFailsStep DEF HandlerStep
<1>6. CASE MaterializationStep
  <2>1. ASSUME NEW q \in Materializations, NEW e \in Revisions, NEW model \in BOOLEAN,
               ClaimMaterialization(q, e, model)
        PROVE  FactoryStep
    BY <2>1, ClaimMaterializationStep
  <2>2. ASSUME NEW q \in Materializations, NEW e \in Revisions, RepeatMaterialization(q, e)
        PROVE  FactoryStep
    BY <2>2, RepeatStep
  <2>3. ASSUME NEW q \in Materializations, NEW step \in {"create", "fail"},
               ProviderAnswers(q, step)
        PROVE  FactoryStep
    BY <2>3, AnswerStep, FactoryFacts
  <2> QED BY <1>6, <2>1, <2>2, <2>3, CreateStep, AuditStep, RecoverStep, RepetitionFailsStep
          DEF MaterializationStep
<1> QED BY <1>1, <1>2, <1>3, <1>4, <1>5, <1>6 DEF FactoryNext

LEMMA FactoryInvHolds == FactorySpec => []FactoryInv
<1>1. FactoryInv /\ [FactoryNext]_factoryVars => FactoryInv'
  BY FactoryNextStep DEF FactoryStep
<1> QED BY FactoryInitially, <1>1, PTL DEF FactorySpec

\* The rows of a build, its sources and its requests are what their tables hold.
THEOREM FactoryTypes == FactorySpec => []FactoryTypeOK
<1>1. FactoryInv => FactoryTypeOK
  BY ReviewFromInv
<1> QED BY FactoryInvHolds, <1>1, PTL

\* Whatever is revised, rejected, deleted or awaited: a pack is made of text that
\* a person approved as it is, and the status of a build tells its review.
THEOREM ReviewedTextIsPacked == FactorySpec => []ReviewDecides
<1>1. FactoryInv => ReviewDecides
  BY ReviewFromInv
<1> QED BY FactoryInvHolds, <1>1, PTL

\* However often a request is sent, fails, is recovered or outlived by the process:
\* it has its effect once, and a success that was told is backed and stays.
THEOREM SettledOnce == FactorySpec => RequestsSettleOnce
<1>0. FactoryInv' => MaterializedOnce' /\ RecordedOnce' /\ SuccessIsBacked'
  BY SettledFromInv, PTL
<1>1. FactoryInv /\ [FactoryNext]_factoryVars
        => [MaterializedOnce' /\ RecordedOnce' /\ SuccessIsBacked' /\ SuccessStays]_factoryVars
  <2> SUFFICES ASSUME FactoryInv, [FactoryNext]_factoryVars
               PROVE  MaterializedOnce' /\ RecordedOnce' /\ SuccessIsBacked' /\ SuccessStays
    OBVIOUS
  <2>1. FactoryInv' /\ SuccessStays
    BY FactoryNextStep DEF FactoryStep
  <2>2. MaterializedOnce' /\ RecordedOnce' /\ SuccessIsBacked'
    BY <1>0, <2>1
  <2> QED BY <2>1, <2>2
<1> QED BY FactoryInvHolds, <1>1, PTL DEF FactorySpec, RequestsSettleOnce

-----------------------------------------------------------------------------
(* The rate limiter.  What was let through under a key in the window is     *)
(* counted where the key is counted, in its bucket or in the table: pruning *)
(* drops what has left the window, and a bucket is dropped with its history.*)

\* where the requests of a key are counted
Counted(k) == IF k \in Persistent THEN rows[k] ELSE stamps[k]

CountsCover ==
    \A k \in LimiterKeys, T \in SUBSET Current :
        Len(Filtered(served[k], T)) <= Len(Filtered(Counted(k), T))

\* The inductive invariant of the limiter.
LimiterInv ==
    /\ LimiterTypeOK
    /\ protectedKeys \subseteq Range(order)
    /\ \A k \in LimiterKeys : k \notin Range(order) => stamps[k] = <<>>
    /\ CountsCover
    /\ WindowRespected
    /\ MemoryBounded

OneRuleAKey(seen) == \A i, j \in DOMAIN seen : seen[i].key = seen[j].key => i = j

\* A part of a rule list that a filter leaves names a key once.
LEMMA PartOfList ==
    ASSUME NEW rules \in RuleLists, NEW kept
    PROVE  /\ Filtered(rules, kept) \in Seq(Rule) /\ rules \in Seq(Rule)
           /\ Range(Filtered(rules, kept)) = Range(rules) \cap kept
           /\ OneRuleAKey(Filtered(rules, kept))
           /\ Range(rules) \subseteq Rules /\ Rules \subseteq Rule
<1>1. rules \in Seq(Rule) /\ OneRuleAKey(rules)
  BY LimiterAssumption DEF OneRuleAKey
<1>2. Range(rules) \subseteq Rules
  BY DEF Rules
<1>3. Rules \subseteq Rule
  <2>1. \A list \in RuleLists : list \in Seq(Rule)
    BY LimiterAssumption
  <2>2. \A list \in Seq(Rule) : Range(list) \subseteq Rule
    BY DEF Range
  <2> QED BY <2>1, <2>2 DEF Rules
<1>4. IsInjective(rules)
  BY <1>1 DEF OneRuleAKey, IsInjective
<1> DEFINE picked == Filtered(rules, kept)
<1>5. picked \in Seq(Rule) /\ Range(picked) = Range(rules) \cap kept /\ IsInjective(picked)
  BY <1>1, <1>4, FilteredTyped, FilteredInjective DEF SiftedIn
<1>6. \A r, other \in Range(rules) : r.key = other.key => r = other
  BY <1>1 DEF OneRuleAKey, Range
<1> HIDE DEF picked
<1>7. \A i \in DOMAIN picked : picked[i] \in Range(rules)
  BY <1>5 DEF Range
<1>8. OneRuleAKey(picked)
  BY <1>5, <1>6, <1>7 DEF OneRuleAKey, IsInjective
<1> QED BY <1>1, <1>2, <1>3, <1>5, <1>8 DEF picked

\* The keys of a request are counted in the table or in memory, whatever the request.
LEMMA KeysApart ==
    ASSUME NEW rules \in RuleLists
    PROVE  /\ MemoryRules(rules) \in Seq(Rule) /\ StoredRules(rules) \in Seq(Rule)
           /\ OneRuleAKey(MemoryRules(rules))
           /\ Range(MemoryRules(rules)) \subseteq Range(rules)
           /\ Range(StoredRules(rules)) \subseteq Range(rules)
           /\ KeysOf(MemoryRules(rules)) \cap Persistent = {}
           /\ KeysOf(StoredRules(rules)) \subseteq Persistent
           /\ KeysOf(rules) = KeysOf(MemoryRules(rules)) \cup KeysOf(StoredRules(rules))
           /\ KeysOf(rules) \subseteq LimiterKeys
           /\ Range(rules) \subseteq Rules /\ Rules \subseteq Rule
<1> DEFINE memory == MemoryRules(rules)
           stored == StoredRules(rules)
<1>1. /\ memory \in Seq(Rule) /\ stored \in Seq(Rule) /\ OneRuleAKey(memory)
      /\ Range(memory) = Range(rules) \cap (Rules \ Persisted)
      /\ Range(stored) = Range(rules) \cap Persisted
      /\ Range(rules) \subseteq Rules /\ Rules \subseteq Rule
  BY PartOfList DEF MemoryRules, StoredRules
<1> HIDE DEF memory, stored
<1>2. KeysOf(rules) = KeysOf(memory) \cup KeysOf(stored)
  BY <1>1 DEF KeysOf
<1>3. \A r \in Rules : r.key \in LimiterKeys
  BY <1>1 DEF Rule
<1>4. KeysOf(rules) \subseteq LimiterKeys
  BY <1>1, <1>3 DEF KeysOf
<1>5. ASSUME NEW r \in Range(memory), r.key \in Persistent PROVE FALSE
  <2>1. PICK other \in Rules : other.key = r.key /\ other.protected /\ hasStore
    BY <1>5 DEF Persistent, RulesOf
  <2>2. r \in Rules /\ r.protected = other.protected
    BY <1>1, <2>1, LimiterAssumption
  <2> QED BY <1>1, <2>1, <2>2 DEF Persisted
<1>6. \A r \in Range(stored) : r.key \in Persistent
  BY <1>1, <1>3 DEF Persistent, RulesOf, Persisted
<1>7. KeysOf(memory) \cap Persistent = {} /\ KeysOf(stored) \subseteq Persistent
  BY <1>5, <1>6 DEF KeysOf
<1> QED BY <1>1, <1>2, <1>4, <1>7 DEF memory, stored

\* The rules a check visits are some of its memory rules.
LEMMA VisitedRules ==
    ASSUME NEW memory \in Seq(Rule), OneRuleAKey(memory), Exhausted(memory) # {}
    PROVE  /\ Visited(memory) \in Seq(Rule) /\ OneRuleAKey(Visited(memory))
           /\ Range(Visited(memory)) \subseteq Range(memory)
<1> DEFINE E == Exhausted(memory)
           least == Min(E)
<1>1. /\ DOMAIN memory = 1..Len(memory) /\ Len(memory) \in Nat
      /\ E \subseteq DOMAIN memory
  BY DEF Exhausted
<1>2. E \subseteq Nat /\ E # {}
  BY <1>1
<1> HIDE DEF E
<1>3. PICK m \in E : \A n \in E : m <= n
  <2>1. PICK m \in E : \A n \in E : <<n, m>> \notin OpToRel(<, Nat)
    BY <1>2, NatLessThanWellFounded, WFMin
  <2>2. m \in Nat /\ \A n \in E : n \in Nat
    BY <1>2
  <2>3. \A n \in E : ~(n < m)
    BY <2>1, <2>2 DEF OpToRel
  <2> QED BY <2>2, <2>3
<1>4. least \in E
  <2>1. \E m_1 \in E : \A n \in E : m_1 <= n
    BY <1>3
  <2> QED BY <2>1 DEF Min
<1>5. least \in 1..Len(memory)
  BY <1>1, <1>4
<1> DEFINE seen == Visited(memory)
<1>6. seen = [i \in 1..least |-> memory[i]]
  BY DEF Visited, E
<1> HIDE DEF least, seen
<1>7. /\ least \in Nat /\ 1..least \subseteq DOMAIN memory
      /\ DOMAIN seen = 1..least /\ \A i \in 1..least : seen[i] = memory[i] /\ memory[i] \in Rule
  BY <1>1, <1>5, <1>6
<1>8. seen \in Seq(Rule)
  BY <1>6, <1>7
<1>9. Range(seen) \subseteq Range(memory)
  BY <1>7 DEF Range
<1>10. OneRuleAKey(seen)
  BY <1>7 DEF OneRuleAKey
<1> QED BY <1>8, <1>9, <1>10 DEF seen

\* A second look at what a window keeps.
LEMMA WindowOfWindow ==
    ASSUME NEW times \in Times
    PROVE  /\ InWindow(times) \in Times
           /\ Len(InWindow(times)) <= Len(times)
           /\ \A T \in SUBSET Current : Filtered(InWindow(times), T) = Filtered(times, T)
           /\ \A T : Filtered(times, T) \in Times /\ Len(Filtered(times, T)) \in Nat
<1>1. \A T : /\ Filtered(times, T) \in Times /\ Len(Filtered(times, T)) <= Len(times)
             /\ Len(Filtered(times, T)) \in Nat
  BY FilteredTyped DEF SiftedIn, Times
<1>2. ASSUME NEW T \in SUBSET Current PROVE Filtered(InWindow(times), T) = Filtered(times, T)
  <2>1. Filtered(Filtered(times, Current), T) = Filtered(times, Current \cap T)
    BY FilteredTwice DEF Times
  <2>2. Current \cap T = T
    OBVIOUS
  <2> QED BY <2>1, <2>2 DEF InWindow
<1> QED BY <1>1, <1>2 DEF InWindow

\* Pruning forgets nothing of the window.
LEMMA PrunedFacts ==
    ASSUME stamps \in [LimiterKeys -> Times], NEW seen
    PROVE  /\ Pruned(seen) \in [LimiterKeys -> Times]
           /\ \A k \in LimiterKeys :
                /\ Len(Pruned(seen)[k]) <= Len(stamps[k])
                /\ stamps[k] = <<>> => Pruned(seen)[k] = <<>>
                /\ \A T \in SUBSET Current : Filtered(Pruned(seen)[k], T) = Filtered(stamps[k], T)
<1> DEFINE f == Pruned(seen)
<1>1. f = [k \in LimiterKeys |-> IF k \in KeysOf(seen) THEN InWindow(stamps[k]) ELSE stamps[k]]
  BY DEF Pruned
<1> HIDE DEF f
<1>2. ASSUME NEW k \in LimiterKeys
      PROVE  /\ f[k] \in Times /\ Len(f[k]) <= Len(stamps[k])
             /\ stamps[k] = <<>> => f[k] = <<>>
             /\ \A T \in SUBSET Current : Filtered(f[k], T) = Filtered(stamps[k], T)
  <2>1. stamps[k] \in Times /\ Len(stamps[k]) \in Nat
    BY DEF Times
  <2>2. CASE k \in KeysOf(seen)
    <3>1. f[k] = InWindow(stamps[k])
      BY <1>1, <2>2
    <3>2. InWindow(<<>>) = <<>>
      BY FilteredIsEmpty DEF InWindow
    <3> QED BY <2>1, <3>1, <3>2, WindowOfWindow
  <2>3. CASE k \notin KeysOf(seen)
    BY <1>1, <2>1, <2>3
  <2> QED BY <2>2, <2>3
<1>3. f \in [LimiterKeys -> Times]
  BY <1>1, <1>2
<1> QED BY <1>2, <1>3 DEF f

\* A charge adds the moment to what is counted under each of its keys.
Charges(keys, k, T) == IF k \in keys /\ limiterTime \in T THEN 1 ELSE 0

LEMMA ChargeFacts ==
    ASSUME NEW f \in [LimiterKeys -> Times], NEW keys, limiterTime \in 0..MaxLimiterTime
    PROVE  /\ Charge(f, keys) \in [LimiterKeys -> Times]
           /\ \A k \in LimiterKeys : k \notin keys => Charge(f, keys)[k] = f[k]
           /\ \A k \in LimiterKeys : \A T :
                Len(Filtered(Charge(f, keys)[k], T)) = Len(Filtered(f[k], T)) + Charges(keys, k, T)
<1> DEFINE g == Charge(f, keys)
<1>1. g = [k \in LimiterKeys |-> IF k \in keys THEN Append(f[k], limiterTime) ELSE f[k]]
  BY DEF Charge
<1> HIDE DEF g
<1>2. ASSUME NEW k \in LimiterKeys
      PROVE  /\ g[k] \in Times
             /\ k \notin keys => g[k] = f[k]
             /\ \A T : Len(Filtered(g[k], T)) = Len(Filtered(f[k], T)) + Charges(keys, k, T)
  <2>1. f[k] \in Seq(0..MaxLimiterTime)
    BY DEF Times
  <2>2. CASE k \in keys
    <3>1. g[k] = Append(f[k], limiterTime)
      BY <1>1, <2>2
    <3>2. g[k] \in Times
      BY <2>1, <3>1 DEF Times
    <3>3. ASSUME NEW T
          PROVE  Len(Filtered(g[k], T)) = Len(Filtered(f[k], T)) + Charges(keys, k, T)
      <4> DEFINE h == Filtered(f[k], T)
      <4>1. Filtered(g[k], T) = IF limiterTime \in T THEN Append(h, limiterTime) ELSE h
        BY <2>1, <3>1, FilteredGrows
      <4>2. h \in Seq(0..MaxLimiterTime)
        BY <2>1, FilteredTyped DEF SiftedIn
      <4> HIDE DEF h
      <4>3. Len(h) \in Nat /\ Len(Append(h, limiterTime)) = Len(h) + 1
        BY <4>2
      <4>4. Len(Filtered(g[k], T)) = Len(h) + Charges(keys, k, T)
        BY <2>2, <4>1, <4>3 DEF Charges
      <4> QED BY <4>4 DEF h
    <3> QED BY <2>2, <3>2, <3>3
  <2>3. CASE k \notin keys
    <3>1. g[k] = f[k] /\ g[k] \in Times
      BY <1>1, <2>3
    <3>2. ASSUME NEW T
          PROVE  Len(Filtered(g[k], T)) = Len(Filtered(f[k], T)) + Charges(keys, k, T)
      <4>1. Len(Filtered(f[k], T)) \in Nat
        BY <2>1, FilteredTyped DEF SiftedIn
      <4>2. Charges(keys, k, T) = 0
        BY <2>3 DEF Charges
      <4> QED BY <3>1, <4>1, <4>2
    <3> QED BY <3>1, <3>2
  <2> QED BY <2>2, <2>3
<1>3. g \in [LimiterKeys -> Times]
  BY <1>1, <1>2
<1> QED BY <1>2, <1>3 DEF g

\* The keys of the rules that are looked at are listed, each once.
LEMMA ListedFacts ==
    ASSUME order \in Seq(LimiterKeys), IsInjective(order),
           NEW seen \in Seq(Rule), OneRuleAKey(seen)
    PROVE  /\ Listed(seen) \in Seq(LimiterKeys) /\ IsInjective(Listed(seen))
           /\ Range(Listed(seen)) = Range(order) \cup KeysOf(seen)
<1> DEFINE names == NamesOf(seen)
           fresh == Filtered(names, LimiterKeys \ Range(order))
<1>1. /\ DOMAIN seen = 1..Len(seen) /\ Len(seen) \in Nat
      /\ \A i \in DOMAIN seen : seen[i] \in Rule /\ seen[i].key \in LimiterKeys
  <2>1. \A r \in Rule : r.key \in LimiterKeys
    BY DEF Rule
  <2>2. /\ DOMAIN seen = 1..Len(seen) /\ Len(seen) \in Nat
        /\ \A i \in DOMAIN seen : seen[i] \in Rule
    OBVIOUS
  <2> QED BY <2>1, <2>2
<1>2. names = [i \in 1..Len(seen) |-> seen[i].key]
  BY <1>1 DEF NamesOf
<1> HIDE DEF names
<1>3. /\ names \in Seq(LimiterKeys) /\ DOMAIN names = 1..Len(seen)
      /\ \A i \in 1..Len(seen) : names[i] = seen[i].key
  BY <1>1, <1>2
<1>4. IsInjective(names)
  BY <1>1, <1>3 DEF IsInjective, OneRuleAKey
<1>5. Range(names) = KeysOf(seen)
  BY <1>1, <1>3 DEF Range, KeysOf
<1>6. /\ fresh \in Seq(LimiterKeys) /\ IsInjective(fresh)
      /\ Range(fresh) = KeysOf(seen) \cap (LimiterKeys \ Range(order))
  BY <1>3, <1>4, <1>5, FilteredTyped, FilteredInjective DEF SiftedIn
<1> HIDE DEF fresh
<1>7. KeysOf(seen) \subseteq LimiterKeys
  BY <1>1 DEF KeysOf, Range
<1>8. Range(order) \cap Range(fresh) = {}
  BY <1>6
<1>9. IsInjective(order \o fresh) /\ Range(order \o fresh) = Range(order) \cup Range(fresh)
  BY <1>6, <1>8, InjectiveConcat, ConcatFacts
<1>10. order \o fresh \in Seq(LimiterKeys)
  BY <1>6
<1>11. Range(order) \cup Range(fresh) = Range(order) \cup KeysOf(seen)
  BY <1>6, <1>7
<1> QED BY <1>9, <1>10, <1>11 DEF Listed, fresh, names

\* Bounding the dict drops no protected key, and leaves no more than the bound or
\* nothing but protected keys.
LEMMA BoundedFacts ==
    ASSUME NEW keys \in Seq(LimiterKeys), IsInjective(keys), NEW counts,
           protectedKeys' \subseteq Range(keys)
    PROVE  /\ Bounded(keys, counts) \in Seq(LimiterKeys) /\ IsInjective(Bounded(keys, counts))
           /\ Range(Bounded(keys, counts)) \subseteq Range(keys)
           /\ protectedKeys' \subseteq Range(Bounded(keys, counts))
           /\ ~Overfull(keys, counts)
              => \/ Len(Bounded(keys, counts)) <= MaxBuckets
                 \/ Range(Bounded(keys, counts)) \subseteq protectedKeys'
<1> DEFINE P == protectedKeys'
           used == InUse(counts) \cup P
           kept == Kept(keys, counts)
           rest == Removable(kept)
           few == Filtered(kept, LimiterKeys \ {Head(rest)})
<1>0. /\ Bounded(keys, counts) = IF Len(keys) <= MaxBuckets THEN keys
                                 ELSE IF Len(kept) <= MaxBuckets \/ rest = <<>> THEN kept ELSE few
      /\ Overfull(keys, counts) <=> Len(kept) > MaxBuckets + 1 /\ rest # <<>>
  BY DEF Bounded, Overfull
<1>1. kept = Filtered(keys, used) /\ rest = Filtered(kept, LimiterKeys \ P)
  BY DEF Kept, Removable
<1> HIDE DEF kept, rest
<1>2. /\ kept \in Seq(LimiterKeys) /\ IsInjective(kept) /\ Range(kept) = Range(keys) \cap used
      /\ P \subseteq used
  BY <1>1, FilteredTyped, FilteredInjective DEF SiftedIn
<1> HIDE DEF used
<1>3. rest \in Seq(LimiterKeys) /\ Range(rest) = Range(kept) \cap (LimiterKeys \ P)
  BY <1>1, <1>2, FilteredTyped DEF SiftedIn
<1>4. Range(kept) \subseteq LimiterKeys /\ Len(kept) \in Nat /\ Len(keys) \in Nat /\ MaxBuckets \in Nat
  BY <1>2, LimiterAssumption DEF Range
<1>5. P \subseteq Range(kept) /\ Range(kept) \subseteq Range(keys)
  BY <1>2
<1>6. ASSUME rest = <<>> PROVE Range(kept) \subseteq P
  <2>1. Range(rest) = {}
    BY <1>6, RangeOfEmpty
  <2> QED BY <1>3, <1>4, <2>1
<1>7. ASSUME rest # <<>>
      PROVE  /\ few \in Seq(LimiterKeys) /\ IsInjective(few)
             /\ Range(few) \subseteq Range(keys) /\ P \subseteq Range(few)
             /\ Len(few) \in Nat /\ Len(few) < Len(kept)
  <2> DEFINE h == Head(rest)
  <2>1. h \in Range(kept) /\ h \notin P
    BY <1>3, <1>7, HeadAmong
  <2> HIDE DEF h
  <2> DEFINE others == LimiterKeys \ {h}
  <2>2. ~(Range(kept) \subseteq others)
    BY <2>1
  <2>3. /\ few = Filtered(kept, others)
        /\ Range(kept) \cap others = Range(kept) \ {h}
    BY <1>4 DEF h
  <2> HIDE DEF few, others
  <2>4. few \in Seq(LimiterKeys) /\ IsInjective(few) /\ Range(few) = Range(kept) \ {h}
    BY <1>2, <2>3, FilteredTyped, FilteredInjective DEF SiftedIn
  <2>5. Len(few) < Len(kept)
    BY <1>2, <2>2, <2>3, FilteredShorter
  <2>6. Len(few) \in Nat
    BY <2>4
  <2> QED BY <1>5, <2>1, <2>4, <2>5, <2>6
<1> HIDE DEF few
<1>8. CASE Len(keys) <= MaxBuckets
  BY <1>0, <1>8
<1>9. CASE ~(Len(keys) <= MaxBuckets) /\ (Len(kept) <= MaxBuckets \/ rest = <<>>)
  BY <1>0, <1>2, <1>5, <1>6, <1>9
<1>10. CASE ~(Len(keys) <= MaxBuckets) /\ ~(Len(kept) <= MaxBuckets) /\ rest # <<>>
  BY <1>0, <1>4, <1>7, <1>10
<1> QED BY <1>8, <1>9, <1>10

\* What does not change where the requests are counted and let through, or only adds to
\* the count, keeps what is let through covered.
LEMMA LookedAt ==
    ASSUME LimiterInv, NEW seen \in Seq(Rule), OneRuleAKey(seen),
           order' = Listed(seen), protectedKeys' = protectedKeys \cup GuardedKeys(seen),
           stamps' \in [LimiterKeys -> Times],
           \A k \in LimiterKeys :
              /\ k \notin KeysOf(seen) /\ stamps[k] = <<>> => stamps'[k] = <<>>
              /\ lastCheck' = "refused" => Len(stamps'[k]) <= Len(stamps[k])
              /\ \A T \in SUBSET Current :
                    Len(Filtered(stamps[k], T)) <= Len(Filtered(stamps'[k], T)),
           UNCHANGED <<hasStore, limiterTime, rows, served>>,
           lastCheck' \in {"refused", "failed"}
    PROVE  LimiterInv' /\ ProtectedNeverEvicted /\ RefusalIsFree
<1>1. /\ LimiterTypeOK /\ protectedKeys \subseteq Range(order) /\ CountsCover /\ WindowRespected
      /\ \A k \in LimiterKeys : k \notin Range(order) => stamps[k] = <<>>
  BY DEF LimiterInv
<1>2. /\ order' \in Seq(LimiterKeys) /\ IsInjective(order')
      /\ Range(order') = Range(order) \cup KeysOf(seen)
  BY <1>1, ListedFacts DEF LimiterTypeOK
<1>3. \A r \in Range(seen) : r.key \in LimiterKeys
  <2>1. \A r \in Rule : r.key \in LimiterKeys
    BY DEF Rule
  <2> QED BY <2>1 DEF Range
<1>4. GuardedKeys(seen) \subseteq KeysOf(seen) /\ KeysOf(seen) \subseteq LimiterKeys
  BY <1>3 DEF GuardedKeys, KeysOf
<1>5. Persistent' = Persistent /\ Current' = Current
  BY DEF Persistent, Current, RulesOf
<1>6. LimiterTypeOK'
  BY <1>1, <1>2, <1>4 DEF LimiterTypeOK
<1>7. protectedKeys' \subseteq Range(order')
  BY <1>1, <1>2, <1>4
<1>8. \A k \in LimiterKeys : k \notin Range(order') => stamps'[k] = <<>>
  BY <1>1, <1>2
<1>9. CountsCover'
  <2> SUFFICES ASSUME NEW k \in LimiterKeys, NEW T \in SUBSET Current
               PROVE  Len(Filtered(served[k], T)) <= Len(Filtered(Counted(k)', T))
    BY <1>5 DEF CountsCover
  <2>1. Len(Filtered(served[k], T)) <= Len(Filtered(Counted(k), T))
    BY <1>1 DEF CountsCover
  <2>2. CASE k \in Persistent
    <3>1. Counted(k)' = rows[k] /\ Counted(k) = rows[k]
      BY <1>5, <2>2 DEF Counted
    <3> QED BY <2>1, <3>1
  <2>3. CASE k \notin Persistent
    <3>1. Counted(k)' = stamps'[k] /\ Counted(k) = stamps[k]
      BY <1>5, <2>3 DEF Counted
    <3>2. Len(Filtered(stamps[k], T)) <= Len(Filtered(stamps'[k], T))
      OBVIOUS
    <3>3. stamps[k] \in Times /\ stamps'[k] \in Times /\ served[k] \in Times
      BY <1>1 DEF LimiterTypeOK
    <3>4. /\ Len(Filtered(stamps[k], T)) \in Nat /\ Len(Filtered(stamps'[k], T)) \in Nat
          /\ Len(Filtered(served[k], T)) \in Nat
      BY <3>3, WindowOfWindow
    <3> QED BY <2>1, <3>1, <3>2, <3>4
  <2> QED BY <2>2, <2>3
<1>10. WindowRespected'
  BY <1>1, <1>5 DEF WindowRespected, InWindow, RulesOf
<1>11. MemoryBounded'
  BY DEF MemoryBounded
<1>12. ProtectedNeverEvicted
  BY <1>1, <1>2 DEF ProtectedNeverEvicted
<1>13. RefusalIsFree
  BY DEF RefusalIsFree
<1> QED BY <1>6, <1>7, <1>8, <1>9, <1>10, <1>11, <1>12, <1>13 DEF LimiterInv

LEMMA RefuseFromMemoryStep ==
    ASSUME LimiterInv, NEW rules \in RuleLists, RefuseFromMemory(rules)
    PROVE  LimiterInv' /\ ProtectedNeverEvicted /\ RefusalIsFree
<1> DEFINE memory == MemoryRules(rules)
           seen == Visited(memory)
<1>1. /\ Exhausted(memory) # {} /\ stamps' = Pruned(seen) /\ order' = Listed(seen)
      /\ protectedKeys' = protectedKeys \cup GuardedKeys(seen) /\ lastCheck' = "refused"
      /\ UNCHANGED <<hasStore, limiterTime, rows, served>>
  BY DEF RefuseFromMemory
<1>2. memory \in Seq(Rule) /\ OneRuleAKey(memory)
  BY KeysApart
<1> HIDE DEF memory
<1>3. seen \in Seq(Rule) /\ OneRuleAKey(seen)
  BY <1>1, <1>2, VisitedRules
<1> HIDE DEF seen
<1>4. stamps \in [LimiterKeys -> Times]
  BY DEF LimiterInv, LimiterTypeOK
<1>5. /\ stamps' \in [LimiterKeys -> Times]
      /\ \A k \in LimiterKeys :
            /\ k \notin KeysOf(seen) /\ stamps[k] = <<>> => stamps'[k] = <<>>
            /\ lastCheck' = "refused" => Len(stamps'[k]) <= Len(stamps[k])
            /\ \A T \in SUBSET Current :
                  Len(Filtered(stamps[k], T)) <= Len(Filtered(stamps'[k], T))
  <2> SUFFICES ASSUME NEW k \in LimiterKeys
               PROVE  /\ stamps[k] = <<>> => stamps'[k] = <<>>
                      /\ Len(stamps'[k]) <= Len(stamps[k])
                      /\ \A T \in SUBSET Current :
                            Len(Filtered(stamps[k], T)) <= Len(Filtered(stamps'[k], T))
    BY <1>1, <1>4, PrunedFacts
  <2>1. /\ stamps[k] = <<>> => stamps'[k] = <<>>
        /\ Len(stamps'[k]) <= Len(stamps[k])
        /\ \A T \in SUBSET Current : Filtered(stamps'[k], T) = Filtered(stamps[k], T)
    BY <1>1, <1>4, PrunedFacts
  <2>2. \A T : Len(Filtered(stamps[k], T)) \in Nat
    BY <1>4, WindowOfWindow
  <2> QED BY <2>1, <2>2
<1> QED BY <1>1, <1>3, <1>5, LookedAt

LEMMA RefuseFromStoreStep ==
    ASSUME LimiterInv, NEW rules \in RuleLists, RefuseFromStore(rules)
    PROVE  LimiterInv' /\ ProtectedNeverEvicted /\ RefusalIsFree
<1> DEFINE memory == MemoryRules(rules)
<1>1. /\ stamps' = Pruned(memory) /\ order' = Listed(memory)
      /\ protectedKeys' = protectedKeys \cup GuardedKeys(memory)
      /\ lastCheck' \in {"refused", "failed"}
      /\ UNCHANGED <<hasStore, limiterTime, rows, served>>
  BY DEF RefuseFromStore, PassMemory
<1>2. memory \in Seq(Rule) /\ OneRuleAKey(memory)
  BY KeysApart
<1> HIDE DEF memory
<1>3. stamps \in [LimiterKeys -> Times]
  BY DEF LimiterInv, LimiterTypeOK
<1>4. stamps' \in [LimiterKeys -> Times]
  BY <1>1, <1>3, PrunedFacts
<1>5. \A k \in LimiterKeys :
         /\ k \notin KeysOf(memory) /\ stamps[k] = <<>> => stamps'[k] = <<>>
         /\ lastCheck' = "refused" => Len(stamps'[k]) <= Len(stamps[k])
         /\ \A T \in SUBSET Current :
               Len(Filtered(stamps[k], T)) <= Len(Filtered(stamps'[k], T))
  <2> SUFFICES ASSUME NEW k \in LimiterKeys
               PROVE  /\ stamps[k] = <<>> => stamps'[k] = <<>>
                      /\ Len(stamps'[k]) <= Len(stamps[k])
                      /\ \A T \in SUBSET Current :
                            Len(Filtered(stamps[k], T)) <= Len(Filtered(stamps'[k], T))
    OBVIOUS
  <2>1. /\ stamps[k] = <<>> => stamps'[k] = <<>>
        /\ Len(stamps'[k]) <= Len(stamps[k])
        /\ \A T \in SUBSET Current : Filtered(stamps'[k], T) = Filtered(stamps[k], T)
    BY <1>1, <1>3, PrunedFacts
  <2>2. \A T : Len(Filtered(stamps[k], T)) \in Nat
    BY <1>3, WindowOfWindow
  <2> QED BY <2>1, <2>2
<1> QED BY <1>1, <1>2, <1>4, <1>5, LookedAt

\* What the buckets hold once the rules of a request have been charged.
LEMMA ChargedFacts ==
    ASSUME LimiterTypeOK, NEW memory
    PROVE  /\ Charge(Pruned(memory), KeysOf(memory)) \in [LimiterKeys -> Times]
           /\ \A k \in LimiterKeys :
                /\ k \notin KeysOf(memory) /\ stamps[k] = <<>>
                   => Charge(Pruned(memory), KeysOf(memory))[k] = <<>>
                /\ \A T \in SUBSET Current :
                      Len(Filtered(Charge(Pruned(memory), KeysOf(memory))[k], T))
                      = Len(Filtered(stamps[k], T)) + Charges(KeysOf(memory), k, T)
<1> DEFINE f == Pruned(memory)
           keys == KeysOf(memory)
<1>1. stamps \in [LimiterKeys -> Times] /\ limiterTime \in 0..MaxLimiterTime
  BY DEF LimiterTypeOK
<1>2. /\ f \in [LimiterKeys -> Times]
      /\ \A k \in LimiterKeys :
            /\ stamps[k] = <<>> => f[k] = <<>>
            /\ \A T \in SUBSET Current : Filtered(f[k], T) = Filtered(stamps[k], T)
  BY <1>1, PrunedFacts
<1> HIDE DEF f, keys
<1>3. /\ Charge(f, keys) \in [LimiterKeys -> Times]
      /\ \A k \in LimiterKeys : k \notin keys => Charge(f, keys)[k] = f[k]
      /\ \A k \in LimiterKeys : \A T :
           Len(Filtered(Charge(f, keys)[k], T)) = Len(Filtered(f[k], T)) + Charges(keys, k, T)
  BY <1>1, <1>2, ChargeFacts
<1>4. ASSUME NEW k \in LimiterKeys, NEW T \in SUBSET Current
      PROVE  Len(Filtered(Charge(f, keys)[k], T)) = Len(Filtered(stamps[k], T)) + Charges(keys, k, T)
  BY <1>2, <1>3
<1> QED BY <1>2, <1>3, <1>4 DEF f, keys

LEMMA FailToStoreStep ==
    ASSUME LimiterInv, NEW rules \in RuleLists, FailToStore(rules)
    PROVE  LimiterInv' /\ ProtectedNeverEvicted /\ RefusalIsFree
<1> DEFINE memory == MemoryRules(rules)
<1>1. /\ stamps' = Charge(Pruned(memory), KeysOf(memory)) /\ order' = Listed(memory)
      /\ protectedKeys' = protectedKeys \cup GuardedKeys(memory)
      /\ lastCheck' = "failed"
      /\ UNCHANGED <<hasStore, limiterTime, rows, served>>
  BY DEF FailToStore, PassMemory
<1>2. memory \in Seq(Rule) /\ OneRuleAKey(memory)
  BY KeysApart
<1> HIDE DEF memory
<1>3. LimiterTypeOK /\ stamps \in [LimiterKeys -> Times]
  BY DEF LimiterInv, LimiterTypeOK
<1>4. stamps' \in [LimiterKeys -> Times]
  BY <1>1, <1>3, ChargedFacts
<1>5. \A k \in LimiterKeys :
         /\ k \notin KeysOf(memory) /\ stamps[k] = <<>> => stamps'[k] = <<>>
         /\ \A T \in SUBSET Current :
               Len(Filtered(stamps[k], T)) <= Len(Filtered(stamps'[k], T))
  <2> SUFFICES ASSUME NEW k \in LimiterKeys, NEW T \in SUBSET Current
               PROVE  Len(Filtered(stamps[k], T)) <= Len(Filtered(stamps'[k], T))
    BY <1>1, <1>3, ChargedFacts
  <2>1. Len(Filtered(stamps'[k], T)) = Len(Filtered(stamps[k], T)) + Charges(KeysOf(memory), k, T)
    BY <1>1, <1>3, ChargedFacts
  <2>2. Len(Filtered(stamps[k], T)) \in Nat
    BY <1>3, WindowOfWindow
  <2>3. Charges(KeysOf(memory), k, T) \in {0, 1}
    BY DEF Charges
  <2> QED BY <2>1, <2>2, <2>3
<1>6. lastCheck' # "refused" /\ lastCheck' \in {"refused", "failed"}
  BY <1>1
<1> QED BY <1>1, <1>2, <1>4, <1>5, <1>6, LookedAt

LEMMA RestartStep ==
    ASSUME LimiterInv, LimiterRestart
    PROVE  LimiterInv' /\ ProtectedNeverEvicted /\ RefusalIsFree
<1>1. /\ order' = <<>> /\ stamps' = Nothing /\ protectedKeys' = {} /\ lastCheck' = "none"
      /\ served' = [k \in LimiterKeys |-> IF k \in Persistent THEN served[k] ELSE <<>>]
      /\ hasStore' = hasStore /\ limiterTime' = limiterTime /\ rows' = rows
  BY DEF LimiterRestart
<1>2. LimiterTypeOK /\ CountsCover /\ WindowRespected
  BY DEF LimiterInv
<1>3. Persistent' = Persistent /\ Current' = Current
  BY <1>1 DEF Persistent, Current, RulesOf
<1>4. <<>> \in Times /\ Nothing \in [LimiterKeys -> Times] /\ \A k \in LimiterKeys : Nothing[k] = <<>>
  BY DEF Times, Nothing
<1>5. LimiterTypeOK'
  <2>1. served' \in [LimiterKeys -> Times]
    BY <1>1, <1>2, <1>4 DEF LimiterTypeOK
  <2>2. <<>> \in Seq(LimiterKeys) /\ IsInjective(<<>>)
    BY DEF IsInjective
  <2> QED BY <1>1, <1>2, <1>4, <2>1, <2>2 DEF LimiterTypeOK
<1>6. CountsCover'
  <2> SUFFICES ASSUME NEW k \in LimiterKeys, NEW T \in SUBSET Current
               PROVE  Len(Filtered(served'[k], T)) <= Len(Filtered(Counted(k)', T))
    BY <1>3 DEF CountsCover
  <2>1. CASE k \in Persistent
    <3>1. Counted(k)' = rows[k] /\ Counted(k) = rows[k] /\ served'[k] = served[k]
      BY <1>1, <1>3, <2>1 DEF Counted
    <3> QED BY <1>2, <3>1 DEF CountsCover
  <2>2. CASE k \notin Persistent
    <3>1. Counted(k)' = <<>> /\ served'[k] = <<>>
      BY <1>1, <1>3, <1>4, <2>2 DEF Counted
    <3>2. Len(Filtered(<<>>, T)) \in Nat
      BY <1>4, WindowOfWindow
    <3> QED BY <3>1, <3>2
  <2> QED BY <2>1, <2>2
<1>7. WindowRespected'
  <2> SUFFICES ASSUME NEW k \in LimiterKeys, served'[k] # <<>>
               PROVE  \E r \in RulesOf(k) : Len(Filtered(served'[k], Current)) <= r.limit
    BY <1>3 DEF WindowRespected, InWindow, RulesOf
  <2>1. served'[k] = served[k]
    BY <1>1
  <2> QED BY <1>2, <2>1 DEF WindowRespected, InWindow
<1>8. MemoryBounded' /\ RefusalIsFree /\ ProtectedNeverEvicted
  BY <1>1 DEF MemoryBounded, RefusalIsFree, ProtectedNeverEvicted
<1>9. protectedKeys' \subseteq Range(order') /\ \A k \in LimiterKeys : stamps'[k] = <<>>
  BY <1>1, <1>4
<1> QED BY <1>5, <1>6, <1>7, <1>8, <1>9 DEF LimiterInv

LEMMA TickStep ==
    ASSUME LimiterInv, LimiterTick
    PROVE  LimiterInv' /\ ProtectedNeverEvicted /\ RefusalIsFree
<1>1. /\ limiterTime < MaxLimiterTime /\ limiterTime' = limiterTime + 1 /\ lastCheck' = "none"
      /\ served' = [k \in LimiterKeys |-> Filtered(served[k], Current')]
      /\ hasStore' = hasStore /\ order' = order /\ stamps' = stamps
      /\ protectedKeys' = protectedKeys /\ rows' = rows
  BY DEF LimiterTick
<1>2. LimiterTypeOK /\ CountsCover /\ WindowRespected
  BY DEF LimiterInv
<1>3. limiterTime \in 0..MaxLimiterTime /\ MaxLimiterTime \in Nat /\ Window \in Nat
  BY <1>2, LimiterAssumption DEF LimiterTypeOK
<1>4. Persistent' = Persistent
  BY <1>1 DEF Persistent, RulesOf
<1>5. Current' \subseteq Current
  BY <1>1, <1>3 DEF Current
<1> DEFINE R == Current'
<1>6. R = Current'
  OBVIOUS
<1> HIDE DEF R
<1>7. ASSUME NEW k \in LimiterKeys
      PROVE  /\ served[k] \in Times /\ served'[k] \in Times /\ served'[k] = Filtered(served[k], R)
             /\ \A T \in SUBSET R : Filtered(served'[k], T) = Filtered(served[k], T)
  <2>1. served[k] \in Times /\ served'[k] = Filtered(served[k], R)
    BY <1>1, <1>2, <1>6 DEF LimiterTypeOK
  <2>2. Filtered(served[k], R) \in Times
    BY <2>1, WindowOfWindow
  <2>3. ASSUME NEW T \in SUBSET R PROVE Filtered(Filtered(served[k], R), T) = Filtered(served[k], T)
    <3>1. Filtered(Filtered(served[k], R), T) = Filtered(served[k], R \cap T)
      BY <2>1, FilteredTwice DEF Times
    <3>2. R \cap T = T
      OBVIOUS
    <3> QED BY <3>1, <3>2
  <2> QED BY <2>1, <2>2, <2>3
<1>8. LimiterTypeOK'
  <2>1. served' \in [LimiterKeys -> Times]
    BY <1>1, <1>7
  <2>2. limiterTime' \in 0..MaxLimiterTime
    BY <1>1, <1>3
  <2> QED BY <1>1, <1>2, <2>1, <2>2 DEF LimiterTypeOK
<1>9. CountsCover'
  <2> SUFFICES ASSUME NEW k \in LimiterKeys, NEW T \in SUBSET R
               PROVE  Len(Filtered(served'[k], T)) <= Len(Filtered(Counted(k)', T))
    BY <1>6 DEF CountsCover
  <2>1. Counted(k)' = Counted(k)
    BY <1>1, <1>4 DEF Counted
  <2>2. T \in SUBSET Current
    BY <1>5, <1>6
  <2> QED BY <1>2, <1>7, <2>1, <2>2 DEF CountsCover
<1>10. WindowRespected'
  <2> SUFFICES ASSUME NEW k \in LimiterKeys, served'[k] # <<>>
               PROVE  \E r \in RulesOf(k) : Len(Filtered(served'[k], R)) <= r.limit
    BY <1>6 DEF WindowRespected, InWindow, RulesOf
  <2>1. Filtered(served'[k], R) = Filtered(served[k], R)
    BY <1>7
  <2>2. served[k] # <<>>
    BY <1>7, FilteredIsEmpty
  <2>3. PICK r \in RulesOf(k) : Len(Filtered(served[k], Current)) <= r.limit
    BY <1>2, <2>2 DEF WindowRespected, InWindow
  <2> DEFINE inside == Filtered(served[k], Current)
  <2>4. inside \in Times /\ Filtered(inside, R) = Filtered(served[k], R)
    BY <1>5, <1>6, <1>7, WindowOfWindow DEF InWindow
  <2> HIDE DEF inside
  <2>5. /\ Len(Filtered(inside, R)) <= Len(inside) /\ Len(inside) \in Nat
        /\ Len(Filtered(inside, R)) \in Nat
    BY <2>4, FilteredTyped DEF SiftedIn, Times
  <2>6. Len(inside) <= r.limit
    BY <2>3 DEF inside
  <2>7. r.limit \in Nat
    <3>1. Rules \subseteq Rule
      <4>1. \A list \in RuleLists : list \in Seq(Rule)
        BY LimiterAssumption
      <4>2. \A list \in Seq(Rule) : Range(list) \subseteq Rule
        BY DEF Range
      <4> QED BY <4>1, <4>2 DEF Rules
    <3> QED BY <3>1 DEF RulesOf, Rule
  <2>8. Len(Filtered(served'[k], R)) <= r.limit
    BY <2>1, <2>4, <2>5, <2>6, <2>7
  <2> QED BY <2>8
<1>11. MemoryBounded' /\ RefusalIsFree /\ ProtectedNeverEvicted
  BY <1>1 DEF MemoryBounded, RefusalIsFree, ProtectedNeverEvicted, LimiterInv
<1>12. protectedKeys' \subseteq Range(order') /\ \A k \in LimiterKeys : k \notin Range(order') => stamps'[k] = <<>>
  BY <1>1 DEF LimiterInv
<1> QED BY <1>8, <1>9, <1>10, <1>11, <1>12 DEF LimiterInv

\* Charging the table prunes all of it, and adds to the keys of the stored rules.
LEMMA StoredFacts ==
    ASSUME LimiterTypeOK, NEW stored,
           rows' = IF stored = <<>> THEN rows
                   ELSE Charge([k \in LimiterKeys |-> InWindow(rows[k])], KeysOf(stored))
    PROVE  /\ rows' \in [LimiterKeys -> Times]
           /\ \A k \in LimiterKeys, T \in SUBSET Current :
                Len(Filtered(rows'[k], T)) = Len(Filtered(rows[k], T)) + Charges(KeysOf(stored), k, T)
<1> DEFINE f == [k \in LimiterKeys |-> InWindow(rows[k])]
           keys == KeysOf(stored)
<1>1. rows \in [LimiterKeys -> Times] /\ limiterTime \in 0..MaxLimiterTime
  BY DEF LimiterTypeOK
<1>2. /\ f \in [LimiterKeys -> Times]
      /\ \A k \in LimiterKeys, T \in SUBSET Current : Filtered(f[k], T) = Filtered(rows[k], T)
  <2>1. ASSUME NEW k \in LimiterKeys
        PROVE  /\ f[k] \in Times
               /\ \A T \in SUBSET Current : Filtered(f[k], T) = Filtered(rows[k], T)
    BY <1>1, WindowOfWindow
  <2> QED BY <2>1
<1>3. rows' = IF stored = <<>> THEN rows ELSE Charge(f, keys)
  OBVIOUS
<1> HIDE DEF f
<1>4. CASE stored = <<>>
  <2>1. keys = {}
    BY <1>4, RangeOfEmpty DEF KeysOf
  <2>2. ASSUME NEW k \in LimiterKeys, NEW T \in SUBSET Current
        PROVE  Len(Filtered(rows'[k], T)) = Len(Filtered(rows[k], T)) + Charges(keys, k, T)
    <3>1. rows'[k] = rows[k] /\ Len(Filtered(rows[k], T)) \in Nat
      BY <1>1, <1>3, <1>4, WindowOfWindow
    <3>2. Charges(keys, k, T) = 0
      BY <2>1 DEF Charges
    <3> QED BY <3>1, <3>2
  <2> QED BY <1>1, <1>3, <1>4, <2>2
<1>5. CASE stored # <<>>
  <2> HIDE DEF keys
  <2>1. rows' = Charge(f, keys)
    BY <1>3, <1>5
  <2>2. /\ rows' \in [LimiterKeys -> Times]
        /\ \A k \in LimiterKeys : \A T :
             Len(Filtered(rows'[k], T)) = Len(Filtered(f[k], T)) + Charges(keys, k, T)
    BY <1>1, <1>2, <2>1, ChargeFacts
  <2>3. ASSUME NEW k \in LimiterKeys, NEW T \in SUBSET Current
        PROVE  Len(Filtered(rows'[k], T)) = Len(Filtered(rows[k], T)) + Charges(keys, k, T)
    BY <1>2, <2>2
  <2> QED BY <2>2, <2>3 DEF keys
<1> QED BY <1>4, <1>5

\* A key that may be charged is below the limit of one of its rules, where it is counted.
LEMMA BelowLimit ==
    ASSUME LimiterTypeOK, CountsCover, NEW rules \in RuleLists,
           Exhausted(MemoryRules(rules)) = {}, ~StoreExhausted(StoredRules(rules)),
           NEW k \in KeysOf(rules)
    PROVE  \E r \in RulesOf(k) :
              Len(Filtered(served[k], Current)) + 1 <= r.limit
<1> DEFINE memory == MemoryRules(rules)
           stored == StoredRules(rules)
<1>1. /\ memory \in Seq(Rule) /\ stored \in Seq(Rule)
      /\ Range(memory) \subseteq Rules /\ Range(stored) \subseteq Rules /\ Rules \subseteq Rule
      /\ KeysOf(memory) \cap Persistent = {} /\ KeysOf(stored) \subseteq Persistent
      /\ KeysOf(rules) = KeysOf(memory) \cup KeysOf(stored) /\ KeysOf(rules) \subseteq LimiterKeys
  BY KeysApart
<1>2. k \in LimiterKeys
  BY <1>1
<1>3. Exhausted(memory) = {} /\ ~StoreExhausted(stored)
  OBVIOUS
<1> HIDE DEF memory, stored
<1>4. \E r \in Rules : r.key = k /\ ~(Len(InWindow(Counted(k))) >= r.limit)
  <2>1. CASE k \in KeysOf(memory)
    <3>1. PICK i \in DOMAIN memory : memory[i].key = k
      BY <2>1 DEF KeysOf, Range
    <3>2. memory[i] \in Rules
      BY <1>1 DEF Range
    <3>3. ~(Len(InWindow(stamps[memory[i].key])) >= memory[i].limit)
      BY <1>3 DEF Exhausted
    <3>4. Counted(k) = stamps[k]
      BY <1>1, <2>1 DEF Counted
    <3> QED BY <3>1, <3>2, <3>3, <3>4
  <2>2. CASE k \in KeysOf(stored)
    <3>1. PICK i \in DOMAIN stored : stored[i].key = k
      BY <2>2 DEF KeysOf, Range
    <3>2. stored[i] \in Rules
      BY <1>1 DEF Range
    <3>3. ~(Len(InWindow(rows[stored[i].key])) >= stored[i].limit)
      BY <1>3 DEF StoreExhausted
    <3>4. Counted(k) = rows[k]
      BY <1>1, <2>2 DEF Counted
    <3> QED BY <3>1, <3>2, <3>3, <3>4
  <2> QED BY <1>1, <2>1, <2>2
<1>5. PICK r \in Rules : r.key = k /\ ~(Len(InWindow(Counted(k))) >= r.limit)
  BY <1>4
<1>6. r \in RulesOf(k) /\ r.limit \in Nat
  BY <1>1, <1>5 DEF RulesOf, Rule
<1>7. served[k] \in Times /\ Counted(k) \in Times
  BY <1>2 DEF LimiterTypeOK, Counted
<1>8. Len(Filtered(served[k], Current)) \in Nat /\ Len(Filtered(Counted(k), Current)) \in Nat
  BY <1>7, WindowOfWindow
<1>9. Len(Filtered(served[k], Current)) <= Len(Filtered(Counted(k), Current))
  BY <1>2 DEF CountsCover
<1>10. Len(Filtered(served[k], Current)) + 1 <= r.limit
  BY <1>5, <1>6, <1>8, <1>9 DEF InWindow
<1> QED BY <1>6, <1>10

\* What was let through is remembered where it is counted, and at most one request is added.
LEMMA ServedFacts ==
    ASSUME LimiterTypeOK, NEW counted, NEW keys,
           \/ served' = [k \in LimiterKeys |-> IF k \in counted THEN served[k] ELSE <<>>]
           \/ served' = Charge([k \in LimiterKeys |-> IF k \in counted THEN served[k] ELSE <<>>],
                              keys \cap counted)
    PROVE  /\ served' \in [LimiterKeys -> Times]
           /\ \A k \in LimiterKeys :
                /\ k \notin counted => served'[k] = <<>>
                /\ k \in counted /\ k \notin keys => served'[k] = served[k]
                /\ \A T : Len(Filtered(served'[k], T))
                          <= Len(Filtered(served[k], T)) + Charges(keys, k, T)
<1> DEFINE f == [k \in LimiterKeys |-> IF k \in counted THEN served[k] ELSE <<>>]
<1>1. served \in [LimiterKeys -> Times] /\ limiterTime \in 0..MaxLimiterTime
  BY DEF LimiterTypeOK
<1>2. <<>> \in Times /\ \A T : Filtered(<<>>, T) = <<>>
  BY FilteredIsEmpty DEF Times
<1>3. f \in [LimiterKeys -> Times]
  BY <1>1, <1>2
<1>4. \A k \in LimiterKeys : f[k] = IF k \in counted THEN served[k] ELSE <<>>
  OBVIOUS
<1>5. served' = f \/ served' = Charge(f, keys \cap counted)
  OBVIOUS
<1> HIDE DEF f
<1>6. ASSUME NEW k \in LimiterKeys, NEW T
      PROVE  /\ Len(Filtered(f[k], T)) \in Nat /\ Len(Filtered(served[k], T)) \in Nat
             /\ Len(Filtered(f[k], T)) <= Len(Filtered(served[k], T))
             /\ Charges(keys, k, T) \in {0, 1}
             /\ Charges(keys \cap counted, k, T) \in {0, 1}
             /\ Charges(keys \cap counted, k, T) <= Charges(keys, k, T)
  <2>1. Len(Filtered(f[k], T)) \in Nat /\ Len(Filtered(served[k], T)) \in Nat
    BY <1>1, <1>3, WindowOfWindow
  <2>2. Len(Filtered(f[k], T)) <= Len(Filtered(served[k], T))
    <3>1. CASE k \in counted
      BY <1>4, <2>1, <3>1
    <3>2. CASE k \notin counted
      <4>1. Filtered(f[k], T) = <<>>
        BY <1>2, <1>4, <3>2
      <4> QED BY <2>1, <4>1
    <3> QED BY <3>1, <3>2
  <2>3. /\ Charges(keys, k, T) \in {0, 1}
        /\ Charges(keys \cap counted, k, T) \in {0, 1}
        /\ Charges(keys \cap counted, k, T) <= Charges(keys, k, T)
    BY DEF Charges
  <2> QED BY <2>1, <2>2, <2>3
<1>7. CASE served' = f
  <2>1. ASSUME NEW k \in LimiterKeys, NEW T
        PROVE  Len(Filtered(served'[k], T)) <= Len(Filtered(served[k], T)) + Charges(keys, k, T)
    BY <1>6, <1>7
  <2> QED BY <1>3, <1>4, <1>7, <2>1
<1>8. CASE served' = Charge(f, keys \cap counted)
  <2> DEFINE both == keys \cap counted
  <2>1. /\ served' \in [LimiterKeys -> Times]
        /\ \A k \in LimiterKeys : k \notin both => served'[k] = f[k]
        /\ \A k \in LimiterKeys : \A T :
             Len(Filtered(served'[k], T)) = Len(Filtered(f[k], T)) + Charges(both, k, T)
    <3> HIDE DEF both
    <3>1. served' = Charge(f, both)
      BY <1>8 DEF both
    <3> QED BY <1>1, <1>3, <3>1, ChargeFacts
  <2>2. ASSUME NEW k \in LimiterKeys, NEW T
        PROVE  Len(Filtered(served'[k], T)) <= Len(Filtered(served[k], T)) + Charges(keys, k, T)
    <3>1. Len(Filtered(served'[k], T)) = Len(Filtered(f[k], T)) + Charges(both, k, T)
      BY <2>1
    <3>2. /\ Len(Filtered(f[k], T)) \in Nat /\ Len(Filtered(served[k], T)) \in Nat
          /\ Len(Filtered(f[k], T)) <= Len(Filtered(served[k], T))
          /\ Charges(keys, k, T) \in {0, 1} /\ Charges(both, k, T) \in {0, 1}
          /\ Charges(both, k, T) <= Charges(keys, k, T)
      BY <1>6
    <3> HIDE DEF both
    <3> QED BY <3>1, <3>2
  <2> QED BY <1>4, <2>1, <2>2
<1> QED BY <1>5, <1>7, <1>8

LEMMA AdmitStep ==
    ASSUME LimiterInv, NEW rules \in RuleLists, Admit(rules)
    PROVE  LimiterInv' /\ ProtectedNeverEvicted /\ RefusalIsFree
<1> DEFINE memory == MemoryRules(rules)
           stored == StoredRules(rules)
           charged == Charge(Pruned(memory), KeysOf(memory))
           listed == Listed(memory)
           counted == Persistent \cup Range(order')
           remembered == [k \in LimiterKeys |-> IF k \in counted THEN served[k] ELSE <<>>]
<1>1. /\ Exhausted(memory) = {} /\ ~StoreExhausted(stored)
      /\ protectedKeys' = protectedKeys \cup GuardedKeys(memory)
      /\ hasStore' = hasStore /\ limiterTime' = limiterTime
      /\ order' = Bounded(listed, charged)
      /\ stamps' = [k \in LimiterKeys |-> IF k \in Range(order') THEN charged[k] ELSE <<>>]
      /\ rows' = IF stored = <<>> THEN rows
                 ELSE Charge([k \in LimiterKeys |-> InWindow(rows[k])], KeysOf(stored))
      /\ IF Overfull(listed, charged)
         THEN lastCheck' = "error" /\ served' = remembered
         ELSE /\ lastCheck' = "served"
              /\ served' = Charge(remembered, KeysOf(rules) \cap counted)
  BY DEF Admit, PassMemory
<1>2. /\ memory \in Seq(Rule) /\ stored \in Seq(Rule) /\ OneRuleAKey(memory)
      /\ Range(memory) \subseteq Rules /\ Rules \subseteq Rule
      /\ KeysOf(memory) \cap Persistent = {} /\ KeysOf(stored) \subseteq Persistent
      /\ KeysOf(rules) = KeysOf(memory) \cup KeysOf(stored) /\ KeysOf(rules) \subseteq LimiterKeys
  BY KeysApart
<1>3. /\ LimiterTypeOK /\ protectedKeys \subseteq Range(order) /\ CountsCover /\ WindowRespected
      /\ \A k \in LimiterKeys : k \notin Range(order) => stamps[k] = <<>>
  BY DEF LimiterInv
<1>4. served' = remembered \/ served' = Charge(remembered, KeysOf(rules) \cap counted)
  BY <1>1
<1>5. /\ served' \in [LimiterKeys -> Times]
      /\ \A k \in LimiterKeys :
            /\ k \notin counted => served'[k] = <<>>
            /\ k \in counted /\ k \notin KeysOf(rules) => served'[k] = served[k]
            /\ \A T : Len(Filtered(served'[k], T))
                      <= Len(Filtered(served[k], T)) + Charges(KeysOf(rules), k, T)
  <2> HIDE DEF counted
  <2> QED BY <1>3, <1>4, ServedFacts
<1>6. /\ rows' \in [LimiterKeys -> Times]
      /\ \A k \in LimiterKeys, T \in SUBSET Current :
           Len(Filtered(rows'[k], T)) = Len(Filtered(rows[k], T)) + Charges(KeysOf(stored), k, T)
  <2> HIDE DEF stored
  <2> QED BY <1>1, <1>3, StoredFacts
<1>7. /\ charged \in [LimiterKeys -> Times]
      /\ \A k \in LimiterKeys, T \in SUBSET Current :
           Len(Filtered(charged[k], T)) = Len(Filtered(stamps[k], T)) + Charges(KeysOf(memory), k, T)
  <2> HIDE DEF memory
  <2> QED BY <1>3, ChargedFacts
<1>8. Range(listed) = Range(order) \cup KeysOf(memory) /\ listed \in Seq(LimiterKeys) /\ IsInjective(listed)
  <2> HIDE DEF memory
  <2> QED BY <1>2, <1>3, ListedFacts DEF LimiterTypeOK
<1> HIDE DEF memory, stored, charged, listed, remembered
<1>9. GuardedKeys(memory) \subseteq KeysOf(memory) /\ protectedKeys' \subseteq Range(listed)
  BY <1>1, <1>3, <1>8 DEF GuardedKeys, KeysOf
<1>10. /\ order' \in Seq(LimiterKeys) /\ IsInjective(order') /\ Range(order') \subseteq Range(listed)
       /\ protectedKeys' \subseteq Range(order')
       /\ ~Overfull(listed, charged)
          => Len(order') <= MaxBuckets \/ Range(order') \subseteq protectedKeys'
  BY <1>1, <1>8, <1>9, BoundedFacts
<1>11. Persistent' = Persistent /\ Current' = Current
  BY <1>1 DEF Persistent, Current, RulesOf
<1>12. /\ stamps' \in [LimiterKeys -> Times]
       /\ \A k \in LimiterKeys : stamps'[k] = IF k \in Range(order') THEN charged[k] ELSE <<>>
  <2>1. <<>> \in Times
    BY DEF Times
  <2> QED BY <1>1, <1>7, <2>1
<1>13. LimiterTypeOK'
  <2>1. protectedKeys' \subseteq LimiterKeys
    BY <1>1, <1>2, <1>3, <1>9 DEF LimiterTypeOK
  <2>2. lastCheck' \in {"none", "served", "refused", "failed", "error"}
    BY <1>1
  <2> QED BY <1>1, <1>3, <1>5, <1>6, <1>10, <1>12, <2>1, <2>2 DEF LimiterTypeOK
<1>14. CountsCover'
  <2> SUFFICES ASSUME NEW k \in LimiterKeys, NEW T \in SUBSET Current
               PROVE  Len(Filtered(served'[k], T)) <= Len(Filtered(Counted(k)', T))
    BY <1>11 DEF CountsCover
  <2>1. /\ served[k] \in Times /\ served'[k] \in Times /\ rows[k] \in Times /\ rows'[k] \in Times
        /\ stamps[k] \in Times /\ stamps'[k] \in Times
    BY <1>3, <1>5, <1>6, <1>12 DEF LimiterTypeOK
  <2>2. /\ Len(Filtered(served[k], T)) \in Nat /\ Len(Filtered(served'[k], T)) \in Nat
        /\ Len(Filtered(rows[k], T)) \in Nat /\ Len(Filtered(stamps[k], T)) \in Nat
        /\ Len(Filtered(stamps'[k], T)) \in Nat
    BY <2>1, WindowOfWindow
  <2>3. Len(Filtered(served'[k], T)) <= Len(Filtered(served[k], T)) + Charges(KeysOf(rules), k, T)
    BY <1>5
  <2>4. Len(Filtered(served[k], T)) <= Len(Filtered(Counted(k), T))
    BY <1>3 DEF CountsCover
  <2>5. Charges(KeysOf(rules), k, T) \in Nat
    BY DEF Charges
  <2>6. CASE k \in Persistent
    <3>1. Counted(k)' = rows'[k] /\ Counted(k) = rows[k]
      BY <1>11, <2>6 DEF Counted
    <3>2. Charges(KeysOf(rules), k, T) = Charges(KeysOf(stored), k, T)
      BY <1>2, <2>6 DEF Charges
    <3>3. Len(Filtered(rows'[k], T)) = Len(Filtered(rows[k], T)) + Charges(KeysOf(stored), k, T)
      BY <1>6
    <3> QED BY <2>2, <2>3, <2>4, <2>5, <3>1, <3>2, <3>3
  <2>7. CASE k \notin Persistent /\ k \in Range(order')
    <3>1. Counted(k)' = charged[k] /\ Counted(k) = stamps[k]
      BY <1>11, <1>12, <2>7 DEF Counted
    <3>2. Charges(KeysOf(rules), k, T) = Charges(KeysOf(memory), k, T)
      BY <1>2, <2>7 DEF Charges
    <3>3. Len(Filtered(charged[k], T)) = Len(Filtered(stamps[k], T)) + Charges(KeysOf(memory), k, T)
      BY <1>7
    <3> QED BY <2>2, <2>3, <2>4, <2>5, <3>1, <3>2, <3>3
  <2>8. CASE k \notin Persistent /\ k \notin Range(order')
    <3>1. Counted(k)' = <<>>
      BY <1>11, <1>12, <2>8 DEF Counted
    <3>2. served'[k] = <<>>
      BY <1>5, <2>8
    <3> QED BY <2>2, <3>1, <3>2
  <2> QED BY <2>6, <2>7, <2>8
<1>15. WindowRespected'
  <2> SUFFICES ASSUME NEW k \in LimiterKeys, served'[k] # <<>>
               PROVE  \E r \in RulesOf(k) : Len(Filtered(served'[k], Current)) <= r.limit
    BY <1>11 DEF WindowRespected, InWindow, RulesOf
  <2>1. CASE k \in KeysOf(rules)
    <3>1. PICK r \in RulesOf(k) : Len(Filtered(served[k], Current)) + 1 <= r.limit
      <4>1. Exhausted(MemoryRules(rules)) = {} /\ ~StoreExhausted(StoredRules(rules))
        BY <1>1 DEF memory, stored
      <4> QED BY <1>3, <2>1, <4>1, BelowLimit
    <3>2. Len(Filtered(served'[k], Current))
          <= Len(Filtered(served[k], Current)) + Charges(KeysOf(rules), k, Current)
      BY <1>5
    <3>3. Charges(KeysOf(rules), k, Current) \in {0, 1}
      BY DEF Charges
    <3>4. served[k] \in Times /\ served'[k] \in Times
      BY <1>3, <1>5 DEF LimiterTypeOK
    <3>5. Len(Filtered(served[k], Current)) \in Nat /\ Len(Filtered(served'[k], Current)) \in Nat
      BY <3>4, WindowOfWindow
    <3>6. r.limit \in Nat
      BY <1>2 DEF RulesOf, Rule
    <3> QED BY <3>1, <3>2, <3>3, <3>5, <3>6
  <2>2. CASE k \notin KeysOf(rules)
    <3>1. served'[k] = served[k]
      BY <1>5, <2>2
    <3> QED BY <1>3, <3>1 DEF WindowRespected, InWindow
  <2> QED BY <2>1, <2>2
<1>16. MemoryBounded'
  BY <1>1, <1>10 DEF MemoryBounded
<1>17. RefusalIsFree /\ ProtectedNeverEvicted
  BY <1>1, <1>10 DEF RefusalIsFree, ProtectedNeverEvicted
<1> QED BY <1>10, <1>12, <1>13, <1>14, <1>15, <1>16, <1>17 DEF LimiterInv

LEMMA LimiterStart == LimiterInit => LimiterInv
<1> SUFFICES ASSUME LimiterInit PROVE LimiterInv
  OBVIOUS
<1>1. /\ order = <<>> /\ protectedKeys = {} /\ stamps = Nothing /\ rows = Nothing /\ served = Nothing
      /\ lastCheck = "none" /\ hasStore \in BOOLEAN /\ limiterTime = 0
  BY DEF LimiterInit
<1>2. /\ <<>> \in Times /\ Nothing \in [LimiterKeys -> Times]
      /\ \A k \in LimiterKeys : Nothing[k] = <<>>
      /\ <<>> \in Seq(LimiterKeys) /\ IsInjective(<<>>) /\ 0 \in 0..MaxLimiterTime
  BY LimiterAssumption DEF Times, Nothing, IsInjective
<1>3. LimiterTypeOK
  BY <1>1, <1>2 DEF LimiterTypeOK
<1>4. CountsCover
  <2> SUFFICES ASSUME NEW k \in LimiterKeys, NEW T \in SUBSET Current
               PROVE  Len(Filtered(served[k], T)) <= Len(Filtered(Counted(k), T))
    BY DEF CountsCover
  <2>1. served[k] = <<>> /\ Counted(k) = <<>>
    BY <1>1, <1>2 DEF Counted
  <2>2. Len(Filtered(<<>>, T)) \in Nat
    BY <1>2, WindowOfWindow
  <2> QED BY <2>1, <2>2
<1>5. WindowRespected /\ MemoryBounded
  BY <1>1, <1>2 DEF WindowRespected, MemoryBounded
<1> QED BY <1>1, <1>2, <1>3, <1>4, <1>5 DEF LimiterInv

LEMMA LimiterStep ==
    ASSUME LimiterInv, [LimiterNext]_limiterVars
    PROVE  LimiterInv' /\ ProtectedNeverEvicted /\ RefusalIsFree
<1>1. CASE LimiterNext
  BY <1>1, RefuseFromMemoryStep, RefuseFromStoreStep, FailToStoreStep, AdmitStep,
     RestartStep, TickStep DEF LimiterNext
<1>2. CASE UNCHANGED limiterVars
  <2>1. /\ hasStore' = hasStore /\ limiterTime' = limiterTime /\ order' = order /\ stamps' = stamps
        /\ protectedKeys' = protectedKeys /\ rows' = rows /\ lastCheck' = lastCheck
        /\ served' = served
    BY <1>2 DEF limiterVars
  <2>2. Current' = Current /\ Persistent' = Persistent
    BY <2>1 DEF Current, Persistent, RulesOf
  <2>3. LimiterTypeOK' /\ MemoryBounded'
    BY <2>1 DEF LimiterInv, LimiterTypeOK, MemoryBounded
  <2>4. CountsCover'
    BY <2>1, <2>2 DEF LimiterInv, CountsCover, Counted
  <2>5. WindowRespected'
    BY <2>1, <2>2 DEF LimiterInv, WindowRespected, InWindow, RulesOf
  <2>6. /\ protectedKeys' \subseteq Range(order')
        /\ \A k \in LimiterKeys : k \notin Range(order') => stamps'[k] = <<>>
    BY <2>1 DEF LimiterInv
  <2>7. ProtectedNeverEvicted
    BY <2>1 DEF LimiterInv, ProtectedNeverEvicted
  <2>8. RefusalIsFree
    <3>1. \A k \in LimiterKeys : Len(stamps[k]) \in Nat
      BY DEF LimiterInv, LimiterTypeOK, Times
    <3> QED BY <2>1, <3>1 DEF RefusalIsFree
  <2> QED BY <2>3, <2>4, <2>5, <2>6, <2>7, <2>8 DEF LimiterInv
<1> QED BY <1>1, <1>2

\* The types of the limiter, its buckets and its table.
THEOREM LimiterTyped == LimiterSpec => []LimiterTypeOK
<1>1. LimiterInv => LimiterTypeOK
  BY DEF LimiterInv
<1> QED BY <1>1, LimiterStart, LimiterStep, PTL DEF LimiterSpec

\* For any keys, rule lists, windows and bounds: no key lets more through in a window than
\* one of its rules allows, the dict is bounded by forgetting what is not protected, and a
\* refusal costs nothing.
THEOREM QuotasHold == LimiterSpec => LimitsHold
<1>1. LimiterSpec => []LimiterInv
  BY LimiterStart, LimiterStep, PTL DEF LimiterSpec
<1>2. LimiterInv => WindowRespected /\ MemoryBounded
  BY DEF LimiterInv
<1>3. LimiterInv /\ [LimiterNext]_limiterVars => ProtectedNeverEvicted /\ RefusalIsFree
  BY LimiterStep
<1> QED BY <1>1, <1>2, <1>3, PTL DEF LimiterSpec, LimitsHold

-----------------------------------------------------------------------------
(* All of it.  A behaviour of MCServices is one of each service, which      *)
(* either takes its steps or stands still.                                  *)

LEMMA ServicesBehave ==
    Spec => AccountsSpec /\ CredentialsSpec /\ LimiterSpec /\ FactorySpec
<1>1. Init => AccountsInit /\ CredentialsInit /\ LimiterInit /\ FactoryInit
  BY DEF Init
<1>2. [Next]_serviceVars
      => /\ [AccountsNext]_accountVars /\ [CredentialsNext]_credentialVars
         /\ [LimiterNext]_limiterVars /\ [FactoryNext]_factoryVars
  <2> SUFFICES ASSUME [Next]_serviceVars
               PROVE  /\ [AccountsNext]_accountVars /\ [CredentialsNext]_credentialVars
                      /\ [LimiterNext]_limiterVars /\ [FactoryNext]_factoryVars
    OBVIOUS
  <2>1. CASE Next
    BY <2>1, Zenon DEF Next
  <2>2. CASE UNCHANGED serviceVars
    <3>1. /\ accountVars' = accountVars /\ credentialVars' = credentialVars
          /\ limiterVars' = limiterVars /\ factoryVars' = factoryVars
      BY <2>2 DEF serviceVars
    <3> QED BY <3>1
  <2> QED BY <2>1, <2>2
<1> QED BY <1>1, <1>2, PTL DEF Spec, AccountsSpec, CredentialsSpec, LimiterSpec, FactorySpec

\* The types of all services.
THEOREM ServicesTypes == Spec => []ServicesTypeOK
<1>1. KeyInv => CredentialsTypeOK
  BY DEF KeyInv
<1>2. AccountInv => AccountsTypeOK
  BY DEF AccountInv
<1> QED BY <1>1, <1>2, ServicesBehave, KeyInvHolds, AccountInvHolds, LimiterTyped, FactoryTypes,
           PTL DEF ServicesTypeOK
=============================================================================
