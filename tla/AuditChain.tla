------------------------------ MODULE AuditChain ------------------------------
(***************************************************************************)
(* The audit events, and what is saved together with them.  The events of  *)
(* one session id form a hash chain; verifyAuditChain walks every chain    *)
(* that an account owns.  A plain event takes two statements, to read the  *)
(* head of its chain and to insert the row, under a lock that only the     *)
(* threads of one process share; a pack or a draft is saved in one         *)
(* transaction with its event.  Retention deletes whole chains.            *)
(*                                                                         *)
(* An account writes the chain of its own id.  The rows of LegacySession   *)
(* are from before there were accounts.  Time is counted in days.          *)
(***************************************************************************)
EXTENDS Integers, FiniteSets

CONSTANTS
    AuditAccounts,  \* the accounts
    Administrator,  \* the one that claims the rows of LegacySession
    LegacySession,
    Packs,          \* the ids of custom Event Packs
    Threads,        \* what writes: the event loop, the worker, a command
    ServerThreads,  \* those of the server's process
    RetentionDays,  \* DEFAULT_EXPERIMENT_RETENTION_DAYS
    MaxDay, MaxEvents,  \* bounds of the model
    NoHash, NoPackRow, NoWork,
    Unowned         \* the owner of a row that nobody has claimed

ASSUME AuditAssumption ==
    /\ Administrator \in AuditAccounts /\ LegacySession \notin AuditAccounts
    /\ Unowned \notin AuditAccounts
    /\ ServerThreads \subseteq Threads
    /\ {RetentionDays, MaxDay, MaxEvents} \subseteq Nat
    /\ NoPackRow \notin Nat

VARIABLES
    events,     \* audit_events by id
    lastId,     \* the greatest id ever given: AUTOINCREMENT
    packRows,   \* custom_event_packs: updated_at by account and id
    draftRows,  \* event_pack_drafts: updated_at by account and id
    writing,    \* what each thread is about to write
    today

auditVars == <<events, lastId, packRows, draftRows, writing, today>>

AuditSessions == AuditAccounts \cup {LegacySession}
PackKeys == AuditAccounts \X Packs

\* What is written: a plain event, or an event in one transaction with a new pack, a
\* pack whose claims were extracted again, or a draft.
EventActions == {"PLAIN", "CREATED", "CLAIMS_EXTRACTED", "REVIEWED"}

\* All that a row holds goes into its hash, and no two contents share one.
EventHash(session, action, pack, previous, at) == <<session, action, pack, previous, at>>

NewEvent(session, owner, action, pack, previous, at) ==
    [session |-> session, owner |-> owner, action |-> action, pack |-> pack,
     previous |-> previous, at |-> at, hash |-> EventHash(session, action, pack, previous, at)]

\* The ids of a chain, and its head.
ChainOf(session) == {i \in DOMAIN events : events[i].session = session}

NewestRow(ids) == CHOOSE i \in ids : \A j \in ids : j <= i
HashOf(ids) == IF ids = {} THEN NoHash ELSE events[NewestRow(ids)].hash

LegacyEvent(pack, previous) == NewEvent(LegacySession, Unowned, "PLAIN", pack, previous, 0)

LegacyChain(pack) ==
    LET first == LegacyEvent(pack, NoHash) IN
    [i \in {1, 2} |-> IF i = 1 THEN first ELSE LegacyEvent(pack, first.hash)]

AuditInit ==
    /\ \/ events = [i \in {} |-> NoHash] /\ lastId = 0
       \/ \E p \in Packs : events = LegacyChain(p) /\ lastId = 2
    /\ packRows = [k \in PackKeys |-> NoPackRow]
    /\ draftRows = [k \in PackKeys |-> NoPackRow]
    /\ writing = [t \in Threads |-> NoWork]
    /\ today = 0

-----------------------------------------------------------------------------
(* Writing.                                                                *)

Busy(t) == writing[t] # NoWork

SameProcess(t, u) == (t \in ServerThreads) = (u \in ServerThreads)

\* Database.writeLock, an RLock of one process.
LockFree(t) == \A u \in Threads : (SameProcess(t, u) /\ Busy(u)) => ~writing[u].locked

\* The time of an event is read before the lock is awaited.
Ask(t, account, action, pack) ==
    /\ ~Busy(t)
    /\ lastId + Cardinality({u \in Threads : Busy(u)}) < MaxEvents
    /\ writing' = [writing EXCEPT ![t] = [account |-> account, action |-> action, pack |-> pack,
                                          at |-> today, locked |-> FALSE, previous |-> NoHash]]
    /\ UNCHANGED <<events, lastId, packRows, draftRows, today>>

\* t gets the lock for one of these.
Locks(t, actions) == Busy(t) /\ ~writing[t].locked /\ writing[t].action \in actions /\ LockFree(t)

Finished(t) == writing' = [writing EXCEPT ![t] = NoWork]

\* The row that t inserts behind previous.
RowOf(t, previous) ==
    LET w == writing[t] IN NewEvent(w.account, w.account, w.action, w.pack, previous, w.at)

InsertRow(t, previous) ==
    /\ lastId' = lastId + 1
    /\ events' = [i \in DOMAIN events \cup {lastId + 1} |->
                     IF i \in DOMAIN events THEN events[i] ELSE RowOf(t, previous)]

\* appendAuditEvent: the lock, and the head of the chain.
ReadHead(t) ==
    /\ Locks(t, {"PLAIN"})
    /\ writing' = [writing EXCEPT ![t] = [writing[t] EXCEPT
                      !.locked = TRUE, !.previous = HashOf(ChainOf(writing[t].account))]]
    /\ UNCHANGED <<events, lastId, packRows, draftRows, today>>

\* appendAuditEvent: the transaction begins with the insertion.
InsertEvent(t) ==
    /\ Busy(t) /\ writing[t].locked
    /\ InsertRow(t, writing[t].previous)
    /\ Finished(t)
    /\ UNCHANGED <<packRows, draftRows, today>>

\* _appendAuditEventInConnection, in a transaction that has already written.
InsertInTransaction(t) == InsertRow(t, HashOf(ChainOf(writing[t].account)))

\* What t writes goes into the row of its account and pack.
Upsert(t, rows) == [rows EXCEPT ![<<writing[t].account, writing[t].pack>>] = writing[t].at]

\* saveCustomEventPackWithAudit does not write over a pack.
SaveNewPack(t) ==
    /\ Locks(t, {"CREATED"})
    /\ IF packRows[<<writing[t].account, writing[t].pack>>] = NoPackRow
       THEN packRows' = Upsert(t, packRows) /\ InsertInTransaction(t)
       ELSE UNCHANGED <<packRows, events, lastId>>
    /\ Finished(t)
    /\ UNCHANGED <<draftRows, today>>

\* saveExtractedEventPackWithAudit: the pack, and a fresh draft.
SaveExtracted(t) ==
    /\ Locks(t, {"CLAIMS_EXTRACTED"})
    /\ packRows' = Upsert(t, packRows)
    /\ draftRows' = Upsert(t, draftRows)
    /\ InsertInTransaction(t)
    /\ Finished(t)
    /\ UNCHANGED today

\* saveEventPackDraftWithAudit
SaveDraft(t) ==
    /\ Locks(t, {"REVIEWED"})
    /\ draftRows' = Upsert(t, draftRows)
    /\ InsertInTransaction(t)
    /\ Finished(t)
    /\ UNCHANGED <<packRows, today>>

\* A transaction that fails, or the end of a process, leaves nothing written.
WriteFails(t) ==
    /\ Busy(t)
    /\ Finished(t)
    /\ UNCHANGED <<events, lastId, packRows, draftRows, today>>

-----------------------------------------------------------------------------
(* Ownership, deletion and retention; each is one transaction.             *)

\* claimLegacyRecords, of the command that makes the administrator.
ClaimLegacyRecords ==
    /\ \E i \in DOMAIN events : events[i].owner = Unowned
    /\ events' = [i \in DOMAIN events |->
                     [events[i] EXCEPT !.owner = IF @ = Unowned THEN Administrator ELSE @]]
    /\ UNCHANGED <<lastId, packRows, draftRows, writing, today>>

\* The event loop has the lock.
LoopHasLock == \E t \in ServerThreads : ~Busy(t) /\ LockFree(t)

KeepEvents(ids) == events' = [i \in ids |-> events[i]]
Without(rows, dropped) == [k \in PackKeys |-> IF k \in dropped THEN NoPackRow ELSE rows[k]]

\* deleteAccountData, as far as these tables go; the worker may write on.
DeleteAccountData(account) ==
    /\ LoopHasLock
    /\ KeepEvents({i \in DOMAIN events : events[i].owner # account})
    /\ packRows' = Without(packRows, {account} \X Packs)
    /\ draftRows' = Without(draftRows, {account} \X Packs)
    /\ UNCHANGED <<lastId, writing, today>>

Expired(at) == at < today - RetentionDays
ExpiredRows(rows) == {k \in PackKeys : rows[k] # NoPackRow /\ Expired(rows[k])}

\* mutant: the old events go, whatever stands on them
FreshEvents == {i \in DOMAIN events : ~Expired(events[i].at)}

\* A chain goes when its newest event is old: what is left of one could not be verified.
FreshChains ==
    {i \in DOMAIN events : \E j \in ChainOf(events[i].session) : ~Expired(events[j].at)}

\* enforceRetention does nothing while there are rows to be claimed.
EnforceRetention ==
    /\ LoopHasLock
    /\ \A i \in DOMAIN events : events[i].owner # Unowned
    /\ packRows' = Without(packRows, ExpiredRows(packRows))
    /\ draftRows' = Without(draftRows, ExpiredRows(draftRows))
    /\ KeepEvents(FreshChains)
    /\ UNCHANGED <<lastId, writing, today>>

NextDay ==
    /\ today < MaxDay
    /\ today' = today + 1
    /\ UNCHANGED <<events, lastId, packRows, draftRows, writing>>

AuditNext ==
    \/ \E t \in Threads :
          \/ \E a \in AuditAccounts, action \in EventActions, p \in Packs : Ask(t, a, action, p)
          \/ ReadHead(t) \/ InsertEvent(t)
          \/ SaveNewPack(t) \/ SaveExtracted(t) \/ SaveDraft(t)
          \/ WriteFails(t)
    \/ \E a \in AuditAccounts : DeleteAccountData(a)
    \/ ClaimLegacyRecords
    \/ EnforceRetention
    \/ NextDay

AuditSpec == AuditInit /\ [][AuditNext]_auditVars

-----------------------------------------------------------------------------

OwnerOf(e) == IF e.owner = Unowned THEN e.session ELSE e.owner

\* The rows of one chain that an account owns, as verifyAuditChain selects them.
OwnedRows(account, session) == {i \in ChainOf(session) : OwnerOf(events[i]) = account}

\* The walk over them: each row names the hash of the one before, and its own hash is
\* the hash of what it holds.
Linked(ids) ==
    \A i \in ids :
        LET e == events[i]
            previous == HashOf({j \in ids : j < i}) IN
        /\ e.previous = previous
        /\ e.hash = EventHash(e.session, e.action, e.pack, previous, e.at)

\* verifyAuditChain's valid
ChainsValid(account) == \A s \in AuditSessions : Linked(OwnedRows(account, s))

AuditTypeOK ==
    /\ lastId \in Nat /\ today \in Nat
    /\ DOMAIN events \subseteq 1 .. lastId
    /\ \A i \in DOMAIN events :
          \E s \in AuditSessions, o \in AuditAccounts \cup {Unowned}, a \in EventActions,
             p \in Packs, at \in 0 .. today :
             events[i] = NewEvent(s, o, a, p, events[i].previous, at)
    /\ packRows \in [PackKeys -> (0 .. today) \cup {NoPackRow}]
    /\ draftRows \in [PackKeys -> (0 .. today) \cup {NoPackRow}]
    /\ \A t \in DOMAIN writing : Busy(t) =>
          \E a \in AuditAccounts, action \in EventActions, p \in Packs, at \in 0 .. today,
             locked \in BOOLEAN :
             writing[t] = [account |-> a, action |-> action, pack |-> p, at |-> at,
                           locked |-> locked, previous |-> writing[t].previous]
    /\ DOMAIN writing = Threads

\* verifyAuditChain finds every chain of every account valid, whatever was deleted,
\* claimed or expired meanwhile, and however the threads that write interleave.
ChainsVerify == \A a \in AuditAccounts : ChainsValid(a)

\* An event of one of these actions about the pack k, of the day at.
Recorded(k, actions, at) ==
    \E i \in DOMAIN events :
        /\ events[i].session = k[1] /\ events[i].pack = k[2]
        /\ events[i].action \in actions /\ events[i].at = at

\* A pack or a draft that is stored has an event of its own last change: the two are
\* written together, and neither retention nor a deletion takes the event alone.
PacksHaveHistory ==
    \A k \in PackKeys :
        /\ packRows[k] # NoPackRow => Recorded(k, {"CREATED", "CLAIMS_EXTRACTED"}, packRows[k])
        /\ draftRows[k] # NoPackRow => Recorded(k, {"CLAIMS_EXTRACTED", "REVIEWED"}, draftRows[k])
=============================================================================
