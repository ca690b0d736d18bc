---------------------------- MODULE RateLimiter ----------------------------
(***************************************************************************)
(* SlidingWindowRateLimiter of rate_limit.py.  A request carries a list of *)
(* rules; a check counts the requests of the last window under every key,  *)
(* refuses the request if one of the keys is at its limit, and otherwise   *)
(* charges all of them.  The keys of protected rules are counted in a      *)
(* SQLite table when there is one, so that a restart does not forget them; *)
(* all others in a dict of at most MaxBuckets deques, oldest key first.    *)
(* The limiter's lock makes a check one step.                              *)
(***************************************************************************)
EXTENDS Integers, FiniteSets, SequencesExt, FiniteSetsExt, Functions, Filters

CONSTANTS
    LimiterKeys,    \* the keys the rules name: addresses, sessions, accounts
    RuleLists,      \* the rule lists requests carry
    Window,         \* the length of every window
    MaxBuckets,     \* soft bound on the number of buckets in memory
    MaxLimiterTime  \* bound on the clock

Rule == [key : LimiterKeys, limit : Nat \ {0}, protected : BOOLEAN]

\* the rules of all requests
Rules == UNION {Range(rules) : rules \in RuleLists}

\* A request has one rule for a key, and the requests of a key agree on its protection:
\* the prefix of a key stands for both (main.py:5030).
ASSUME LimiterAssumption ==
    /\ RuleLists \subseteq Seq(Rule)
    /\ \A rules \in RuleLists : \A i, j \in DOMAIN rules : rules[i].key = rules[j].key => i = j
    /\ \A r, other \in Rules : r.key = other.key => r.protected = other.protected
    /\ Window \in Nat \ {0} /\ MaxBuckets \in Nat /\ MaxLimiterTime \in Nat

VARIABLES
    hasStore,       \* whether persistencePath is given
    limiterTime,    \* both clocks
    order,          \* the keys of the dict of buckets, in insertion order
    stamps,         \* what the deque of each key holds
    protectedKeys,  \* the keys _boundMemory may not evict
    rows,           \* the table security_rate_limit_events, by key
    lastCheck,      \* how the last check ended
    served          \* history: the requests of the window let through under a key

limiterVars == <<hasStore, limiterTime, order, stamps, protectedKeys, rows, lastCheck, served>>

RulesOf(k) == {r \in Rules : r.key = k}
\* the keys a restart does not forget
Persistent == {k \in LimiterKeys : hasStore /\ \E r \in RulesOf(k) : r.protected}

Nothing == [k \in LimiterKeys |-> <<>>]
Times == Seq(0..MaxLimiterTime)

LimiterTypeOK ==
    /\ hasStore \in BOOLEAN /\ limiterTime \in 0..MaxLimiterTime
    /\ order \in Seq(LimiterKeys) /\ IsInjective(order)
    /\ protectedKeys \subseteq LimiterKeys
    /\ {stamps, rows, served} \subseteq [LimiterKeys -> Times]
    /\ lastCheck \in {"none", "served", "refused", "failed", "error"}

LimiterInit ==
    /\ hasStore \in BOOLEAN /\ limiterTime = 0
    /\ order = <<>> /\ stamps = Nothing /\ protectedKeys = {}
    /\ rows = Nothing /\ served = Nothing /\ lastCheck = "none"

\* the events of the window that ends now
Current == {t \in 0..MaxLimiterTime : t + Window > limiterTime}
InWindow(times) == Filtered(times, Current)

KeysOf(rules) == {r.key : r \in Range(rules)}
GuardedKeys(rules) == {r.key : r \in {r \in Range(rules) : r.protected}}
Charge(f, keys) == [k \in LimiterKeys |-> IF k \in keys THEN Append(f[k], limiterTime) ELSE f[k]]

Persisted == {r \in Rules : r.protected /\ hasStore}
MemoryRules(rules) == Filtered(rules, Rules \ Persisted)
StoredRules(rules) == Filtered(rules, Persisted)

\* the memory rules a check looks at: up to the first that is exhausted
Exhausted(memory) == {i \in DOMAIN memory :
                         Len(InWindow(stamps[memory[i].key])) >= memory[i].limit}
Visited(memory) ==
    IF Exhausted(memory) = {} THEN memory
    ELSE [i \in 1..Min(Exhausted(memory)) |-> memory[i]]

\* mutant: a rule is charged as soon as it passes
ChargedEarly(seen) == Charge(stamps, {r.key : r \in {r \in Range(seen) : Len(stamps[r.key]) < r.limit}})

\* looking at a rule creates and prunes its bucket, refused or not
Pruned(seen) == [k \in LimiterKeys |-> IF k \in KeysOf(seen) THEN InWindow(stamps[k])
                                       ELSE stamps[k]]

NamesOf(seen) == [i \in DOMAIN seen |-> seen[i].key]

\* mutant: a key is listed again on every use
Relisted(seen) == order \o NamesOf(seen)

Listed(seen) == order \o Filtered(NamesOf(seen), LimiterKeys \ Range(order))

StoreExhausted(stored) ==
    \E i \in DOMAIN stored : Len(InWindow(rows[stored[i].key])) >= stored[i].limit

\* the keys whose bucket is not empty; the others go first, unless they are protected
InUse(counts) == {k \in LimiterKeys : counts[k] # <<>>}
Kept(keys, counts) == Filtered(keys, InUse(counts) \cup protectedKeys')

Removable(keys) == Filtered(keys, LimiterKeys \ protectedKeys')

\* one key at most is evicted by _boundMemory: the second next() of the
\* generator over the dict fails, because the dict has changed its size
Bounded(keys, counts) ==
    IF Len(keys) <= MaxBuckets THEN keys
    ELSE LET kept == Kept(keys, counts)
         IN  IF Len(kept) <= MaxBuckets \/ Removable(kept) = <<>> THEN kept
             ELSE Filtered(kept, LimiterKeys \ {Head(Removable(kept))})

Overfull(keys, counts) ==
    LET kept == Kept(keys, counts)
    IN  Len(kept) > MaxBuckets + 1 /\ Removable(kept) # <<>>

\* a memory rule is exhausted: raised before the store is opened
RefuseFromMemory(rules) ==
    LET memory == MemoryRules(rules)
        seen == Visited(memory)
    IN  /\ Exhausted(memory) # {}
        /\ stamps' = Pruned(seen) /\ order' = Listed(seen)
        /\ protectedKeys' = protectedKeys \cup GuardedKeys(seen)
        /\ lastCheck' = "refused"
        /\ UNCHANGED <<hasStore, limiterTime, rows, served>>

\* all memory rules pass; then the store is asked
PassMemory(rules) ==
    LET memory == MemoryRules(rules)
    IN  /\ Exhausted(memory) = {}
        /\ protectedKeys' = protectedKeys \cup GuardedKeys(memory)
        /\ UNCHANGED <<hasStore, limiterTime>>

\* a stored rule is exhausted, or the store cannot be opened or locked
RefuseFromStore(rules) ==
    LET memory == MemoryRules(rules)
        stored == StoredRules(rules)
    IN  /\ PassMemory(rules) /\ stored # <<>>
        /\ \/ StoreExhausted(stored) /\ lastCheck' = "refused"
           \/ lastCheck' = "failed"
        /\ stamps' = Pruned(memory) /\ order' = Listed(memory)
        /\ UNCHANGED <<rows, served>>

\* the insert or the commit fails after the buckets in memory were charged
FailToStore(rules) ==
    LET memory == MemoryRules(rules)
        stored == StoredRules(rules)
    IN  /\ PassMemory(rules) /\ stored # <<>> /\ ~StoreExhausted(stored)
        /\ stamps' = Charge(Pruned(memory), KeysOf(memory)) /\ order' = Listed(memory)
        /\ lastCheck' = "failed"
        /\ UNCHANGED <<rows, served>>

\* every rule is charged, then the buckets are bounded
Admit(rules) ==
    LET memory == MemoryRules(rules)
        stored == StoredRules(rules)
        charged == Charge(Pruned(memory), KeysOf(memory))
        counted == Persistent \cup Range(order')
        remembered == [k \in LimiterKeys |-> IF k \in counted THEN served[k] ELSE <<>>]
    IN  /\ PassMemory(rules) /\ ~StoreExhausted(stored)
        /\ order' = Bounded(Listed(memory), charged)
        /\ stamps' = [k \in LimiterKeys |-> IF k \in Range(order') THEN charged[k] ELSE <<>>]
        /\ rows' = IF stored = <<>> THEN rows
                   ELSE Charge([k \in LimiterKeys |-> InWindow(rows[k])], KeysOf(stored))
        /\ IF Overfull(Listed(memory), charged)
           THEN lastCheck' = "error" /\ served' = remembered
           ELSE /\ lastCheck' = "served"
                /\ served' = Charge(remembered, KeysOf(rules) \cap counted)

LimiterRestart ==
    /\ order' = <<>> /\ stamps' = Nothing /\ protectedKeys' = {} /\ lastCheck' = "none"
    /\ served' = [k \in LimiterKeys |-> IF k \in Persistent THEN served[k] ELSE <<>>]
    /\ UNCHANGED <<hasStore, limiterTime, rows>>

LimiterTick ==
    /\ limiterTime < MaxLimiterTime /\ limiterTime' = limiterTime + 1
    /\ lastCheck' = "none"
    /\ served' = [k \in LimiterKeys |-> Filtered(served[k], Current')]
    /\ UNCHANGED <<hasStore, order, stamps, protectedKeys, rows>>

LimiterNext ==
    \/ \E rules \in RuleLists :
          \/ RefuseFromMemory(rules) \/ RefuseFromStore(rules)
          \/ FailToStore(rules) \/ Admit(rules)
    \/ LimiterRestart
    \/ LimiterTick

\* No key lets through more requests in one window than its largest rule
\* allows, whatever was pruned, evicted, restarted or rolled back in between.
\* The history of a key in memory starts anew when its bucket is dropped by
\* a restart or an eviction; that of a key in the table never does.
WindowRespected ==
    \A k \in LimiterKeys : served[k] # <<>> =>
        \E r \in RulesOf(k) : Len(InWindow(served[k])) <= r.limit

\* A protected key is forgotten by a restart without a store and by nothing
\* else: however many buckets other requests create, _boundMemory spares it.
ProtectedNeverEvicted ==
    \A k \in protectedKeys :
        k \notin Range(order') => order' = <<>> /\ protectedKeys' = {}

\* A refused request costs no quota: not under the keys that were looked at
\* before the exhausted one, and not in the table (rate_limit.py:102).
RefusalIsFree ==
    lastCheck' = "refused" =>
        /\ rows' = rows
        /\ \A k \in LimiterKeys : Len(stamps'[k]) <= Len(stamps[k])

\* After a request was let through the dict is within its bound, or what is
\* left in it is protected.
MemoryBounded ==
    lastCheck = "served" => Len(order) <= MaxBuckets \/ Range(order) \subseteq protectedKeys

\* The limiter is fair under pressure: quotas hold and cost nothing when refused,
\* though the dict stays bounded by forgetting what is not protected.
LimitsHold ==
    [][/\ WindowRespected' /\ MemoryBounded'
       /\ ProtectedNeverEvicted /\ RefusalIsFree]_limiterVars

\* A check ends with an answer to the client: served, or refused with 429.
\* (The table may fail; the eviction of buckets may not.)
NoInternalError == lastCheck # "error"

LimiterSpec == LimiterInit /\ [][LimiterNext]_limiterVars
=============================================================================
