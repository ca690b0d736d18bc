--------------------------- MODULE Interpretations ---------------------------
(***************************************************************************)
(* The saved conversations about the result of one experiment (main.py and *)
(* database.py).  A request carries its conversation and the turns it      *)
(* builds on; its answer is paid for, checked and saved as one exchange.   *)
(* The requests of the account wait for each other in its single flight,   *)
(* which SingleFlight models; here it is a queue whose head runs and a     *)
(* table of recent outcomes.  The store outlives the server, and several   *)
(* server processes may share it.                                          *)
(***************************************************************************)
EXTENDS Integers, Sequences, FiniteSets, SequencesExt, Functions, Filters

CONSTANTS
    Servers,        \* processes of the API
    Conversations,
    ClientRequests,     \* clientRequestId
    MaxTurns,       \* prior exchanges that fit the 12 messages of a request
    MaxPerOwner,    \* MAX_INTERPRETATION_EXCHANGES_PER_OWNER
    RetentionDays,
    MaxCalls,       \* bounds on the provider calls and the days and, by the number of
    MaxDay,         \* servers, on the tables of one and the streams that are about to
    TableBounds,    \* enter
    StreamBounds,
    NoRecord

ASSUME InterpretationAssumption ==
    /\ {MaxTurns, RetentionDays, MaxCalls, MaxDay} \subseteq Nat
    /\ IsFiniteSet(Servers)
    /\ {TableBounds, StreamBounds} \subseteq [1..Cardinality(Servers) -> Nat]
    /\ MaxPerOwner \in Nat \ {0}
    /\ ClientRequests \cap Conversations = {} /\ NoRecord \notin ClientRequests

VARIABLES
    running,    \* the servers of this behaviour
    exchanges,  \* the rows of result_interpretation_exchanges, oldest first
    tombstones, \* conversations with a row of result_interpretation_tombstones
    resultStands,  \* the experiment is COMPLETED, not INVALIDATED
    today,
    flights,    \* per server: the requests in its single flight, in their order
    opened,     \* streamed requests between their checks and the single flight
    recent,     \* per server: outcomes kept for a minute, see SingleFlight
    calls,      \* answers of the provider so far; an answer is named by its number
    told,       \* the outcome the last step answered a client with
    retired     \* history: answers whose exchange the retention removed

historyVars == <<running, exchanges, tombstones, resultStands, today, flights, opened, recent,
                 calls, told, retired>>

MaxInTables == TableBounds[Cardinality(running)]

Answers == 1..MaxCalls
\* a request for an answer: what requestHash digests besides owner and result
Asks == [conversation : Conversations, prior : BoundedSeq(Answers, MaxTurns)]
\* a deletion is a flight too, under a key of its own (delete-<hash>)
FlightKeys == ClientRequests \cup Conversations
Tellings == [kind : {"answer"}, answer : Answers, saved : BOOLEAN]
                \cup [kind : {"failed", "deleted"}]
Streamed == [server : Servers, key : ClientRequests, ask : Asks]
Rows == [request : ClientRequests, ask : Asks, answer : Answers, day : 0..MaxDay]

\* flights and kept outcomes; the bound keeps new requests out, not repetitions
InTables(s) == Len(flights[s]) + Cardinality({k \in FlightKeys : recent[s][k] # NoRecord})

TablesTypeOK ==
    /\ running \subseteq Servers
    /\ exchanges \in Seq(Rows) /\ Len(exchanges) <= MaxPerOwner
    /\ tombstones \subseteq Conversations /\ retired \subseteq Answers
    /\ resultStands \in BOOLEAN /\ today \in 0..MaxDay /\ calls \in 0..MaxCalls
    /\ \A s \in Servers : InTables(s) <= MaxInTables
    /\ flights \in [Servers ->
        Seq([key : FlightKeys, ask : Asks \cup {NoRecord}, calling : BOOLEAN])]
    /\ recent \in [Servers -> [FlightKeys ->
        [ask : Asks \cup {NoRecord}, outcome : Tellings] \cup {NoRecord}]]
    /\ told \in [key : FlightKeys, outcome : Tellings] \cup {NoRecord}

HistoryTypeOK == TablesTypeOK /\ opened \subseteq Streamed

HistoryInit ==
    /\ running \in (SUBSET Servers) \ {{}}
    /\ exchanges = <<>> /\ tombstones = {} /\ resultStands = TRUE /\ today = 0
    /\ flights = [s \in Servers |-> <<>>] /\ opened = {}
    /\ recent = [s \in Servers |-> [k \in FlightKeys |-> NoRecord]]
    /\ calls = 0 /\ told = NoRecord /\ retired = {}

-----------------------------------------------------------------------------
(* The store.                                                               *)

\* readers see what is within the retention
Fresh(rows) == {row \in Range(rows) : row.day + RetentionDays >= today}
Visible == Filtered(exchanges, Fresh(exchanges))

\* _pruneResultInterpretationExchangesInConnection, with one account: what has
\* expired goes, then the oldest beyond the limit
Pruned(rows) ==
    LET fresh == Filtered(rows, Fresh(rows))
        excess == IF Len(fresh) > MaxPerOwner THEN Len(fresh) - MaxPerOwner ELSE 0
    IN  SubSeq(fresh, excess + 1, Len(fresh))

\* getResultInterpretationExchangeByRequest: the row of the request, if any
SavedFor(rows, r) == {i \in DOMAIN rows : rows[i].request = r}

\* getResultInterpretationConversation: the answers of a conversation in order
OfConversation(rows, c) == {row \in Range(rows) : row.ask.conversation = c}
Thread(rows, c) ==
    LET own == Filtered(rows, OfConversation(rows, c))
    IN  [i \in DOMAIN own |-> own[i].answer]

\* validatePersistedInterpretationConversation: a conversation starts once, and a
\* follow-up brings the last turns of what is saved
FitsThread(ask) ==
    LET thread == Thread(Visible, ask.conversation)
    IN  IF ask.prior = <<>> THEN thread = <<>> ELSE IsSuffix(ask.prior, thread)

-----------------------------------------------------------------------------
(* A request comes in.  One that finds its key in flight waits for the same *)
(* outcome, and one that is refused changes nothing.                        *)

InFlight(s, k) == \E i \in DOMAIN flights[s] : flights[s][i].key = k

\* resultInterpretationContext: the conversation is not deleted, getResults has a
\* result
Admitted(c) == resultStands /\ c \notin tombstones

\* execute of the single flight: a recent outcome of the same request is told
\* again, otherwise the request waits for those before it
Enter(s, k, ask) ==
    IF recent[s][k] # NoRecord
    THEN /\ recent[s][k].ask = ask
         /\ told' = [key |-> k, outcome |-> recent[s][k].outcome]
         /\ UNCHANGED flights
    ELSE /\ ~InFlight(s, k) /\ InTables(s) < MaxInTables
         /\ flights' = [flights EXCEPT ![s] =
                Append(@, [key |-> k, ask |-> ask, calling |-> FALSE])]
         /\ told' = NoRecord

\* what a client may ask for: it knows the answers so far
Askable == {ask \in [conversation : Conversations, prior : BoundedSeq(1..calls, MaxTurns)] :
              Admitted(ask.conversation)}

\* interpretExperimentResults: nothing comes between the checks and the flight
AskFor(s, r) ==
    /\ s \in running
    /\ \E ask \in Askable : Enter(s, r, ask)
    /\ UNCHANGED <<running, exchanges, tombstones, resultStands, today, opened, recent, calls,
                   retired>>

\* streamExperimentResultInterpretation: the checks are made, the response begins with a
\* status frame
OpenStream(s, r) ==
    /\ s \in running /\ Cardinality(opened) < StreamBounds[Cardinality(running)]
    /\ \E ask \in Askable : opened' = opened \cup {[server |-> s, key |-> r, ask |-> ask]}
    /\ told' = NoRecord
    /\ UNCHANGED <<running, exchanges, tombstones, resultStands, today, flights, recent, calls,
                   retired>>

\* and the generator goes on: it enters the flight, and checks nothing again
EnterStream(w) ==
    /\ w \in opened /\ opened' = opened \ {w}
    /\ Enter(w.server, w.key, w.ask)
    /\ UNCHANGED <<running, exchanges, tombstones, resultStands, today, recent, calls, retired>>

\* or it finds its key in flight, is refused, or its client has gone
LeaveStream(w) ==
    /\ w \in opened /\ opened' = opened \ {w}
    /\ told' = NoRecord
    /\ UNCHANGED <<running, exchanges, tombstones, resultStands, today, flights, recent, calls,
                   retired>>

\* deleteResultInterpretationConversation (main.py); the experiment may be invalid
AskToDelete(s, c) ==
    /\ s \in running
    /\ Enter(s, c, NoRecord)
    /\ UNCHANGED <<running, exchanges, tombstones, resultStands, today, opened, recent, calls,
                   retired>>

-----------------------------------------------------------------------------
(* The head of the queue runs.                                              *)

Running(s) == s \in running /\ flights[s] # <<>>
Asking(s) == Running(s) /\ Head(flights[s]).key \in ClientRequests
Waits(s) == Asking(s) /\ ~Head(flights[s]).calling
Calls(s) == Asking(s) /\ Head(flights[s]).calling

\* the flight ends: its outcome is kept and told to those who wait
Land(s, outcome) ==
    LET flight == Head(flights[s])
    IN  /\ flights' = [flights EXCEPT ![s] = Tail(@)]
        /\ recent' = [recent EXCEPT ![s][flight.key] =
                [ask |-> flight.ask, outcome |-> outcome]]
        /\ told' = [key |-> flight.key, outcome |-> outcome]

Failed == [kind |-> "failed"]
Answer(n, saved) == [kind |-> "answer", answer |-> n, saved |-> saved]

\* generateResultInterpretation, up to the provider: the conversation was deleted
\* while the request waited; or the request has a saved answer, which is replayed
\* when it is for the same request; or it does not fit the saved conversation
AnswerFromStore(s) ==
    /\ Waits(s)
    /\ LET r == Head(flights[s]).key
           ask == Head(flights[s]).ask
           saved == SavedFor(Visible, r)
       IN  \/ /\ \/ ask.conversation \in tombstones
                 \/ \E i \in saved : Visible[i].ask # ask
                 \/ saved = {} /\ ~FitsThread(ask)
              /\ Land(s, Failed)
           \/ /\ ask.conversation \notin tombstones
              /\ \E i \in saved : Visible[i].ask = ask /\ Land(s, Answer(Visible[i].answer, TRUE))
    /\ UNCHANGED <<running, exchanges, tombstones, resultStands, today, opened, calls, retired>>

CallProvider(s) ==
    /\ Waits(s) /\ calls < MaxCalls
    /\ LET ask == Head(flights[s]).ask
       IN  /\ ask.conversation \notin tombstones
           /\ SavedFor(Visible, Head(flights[s]).key) = {}
           /\ FitsThread(ask)
    /\ flights' = [flights EXCEPT ![s][1].calling = TRUE]
    /\ told' = NoRecord
    /\ UNCHANGED <<running, exchanges, tombstones, resultStands, today, opened, recent, calls,
                   retired>>

\* no key is configured, or every attempt of the gateway failed
ProviderFails(s) ==
    /\ Calls(s)
    /\ Land(s, Failed)
    /\ UNCHANGED <<running, exchanges, tombstones, resultStands, today, opened, calls, retired>>

\* mutant: the transaction of the save does not look for a tombstone
StorableAnyway(ask) == resultStands

\* the checks of saveResultInterpretationExchange that raise
Storable(ask) == resultStands /\ ask.conversation \notin tombstones

\* saveResultInterpretationExchange, one transaction: an exchange that another
\* process has saved for the request stands, and a different one refuses this
Save(s, n) ==
    LET r == Head(flights[s]).key
        ask == Head(flights[s]).ask
        kept == Pruned(exchanges)
        row == [request |-> r, ask |-> ask, answer |-> n, day |-> today]
    IN  /\ Storable(ask)
        /\ \/ /\ SavedFor(kept, r) = {}
              /\ exchanges' = Pruned(Append(kept, row))
              /\ Land(s, Answer(n, TRUE))
           \/ \E i \in SavedFor(kept, r) :
                IF kept[i].ask = ask
                THEN exchanges' = kept /\ Land(s, Answer(kept[i].answer, TRUE))
                ELSE UNCHANGED exchanges /\ Land(s, Failed)

\* the answer has come: it is saved, or, when the store refuses it or fails, it is
\* told all the same because it may have been paid for
ProviderAnswers(s) ==
    /\ Calls(s) /\ calls < MaxCalls
    /\ calls' = calls + 1
    /\ \/ Save(s, calls + 1)
       \/ UNCHANGED exchanges /\ Land(s, Answer(calls + 1, FALSE))
    /\ retired' = retired \cup {row.answer : row \in Range(exchanges) \ Range(exchanges')}
    /\ UNCHANGED <<running, tombstones, resultStands, today, opened>>

\* deleteResultInterpretationConversation (database.py): a conversation that was
\* there is never written again
RunDelete(s) ==
    /\ Running(s) /\ Head(flights[s]).key \in Conversations
    /\ LET c == Head(flights[s]).key
       IN  /\ exchanges' = Filtered(exchanges, Range(exchanges) \ OfConversation(exchanges, c))
           /\ tombstones' = IF exchanges' # exchanges THEN tombstones \cup {c} ELSE tombstones
    /\ Land(s, [kind |-> "deleted"])
    /\ UNCHANGED <<running, resultStands, today, opened, calls, retired>>

-----------------------------------------------------------------------------
(* Around it.                                                               *)

\* the minute of a recent outcome is over
Forget(s, k) ==
    /\ recent[s][k] # NoRecord
    /\ recent' = [recent EXCEPT ![s][k] = NoRecord]
    /\ told' = NoRecord
    /\ UNCHANGED <<running, exchanges, tombstones, resultStands, today, flights, opened, calls,
                   retired>>

\* the process dies and starts again: what was in memory is gone, what the provider
\* was asked is lost
RestartServer(s) ==
    /\ \/ flights[s] # <<>> \/ \E k \in FlightKeys : recent[s][k] # NoRecord
       \/ \E w \in opened : w.server = s
    /\ flights' = [flights EXCEPT ![s] = <<>>]
    /\ opened' = {w \in opened : w.server # s}
    /\ recent' = [recent EXCEPT ![s] = [k \in FlightKeys |-> NoRecord]]
    /\ told' = NoRecord
    /\ UNCHANGED <<running, exchanges, tombstones, resultStands, today, calls, retired>>

NextDay ==
    /\ today < MaxDay
    /\ today' = today + 1
    /\ told' = NoRecord
    /\ UNCHANGED <<running, exchanges, tombstones, resultStands, flights, opened, recent, calls,
                   retired>>

\* invalidateCompletedExperiment
Invalidate ==
    /\ resultStands
    /\ resultStands' = FALSE
    /\ told' = NoRecord
    /\ UNCHANGED <<running, exchanges, tombstones, today, flights, opened, recent, calls,
                   retired>>

HistoryNext ==
    \/ \E s \in Servers :
        \/ \E r \in ClientRequests : AskFor(s, r) \/ OpenStream(s, r)
        \/ \E c \in Conversations : AskToDelete(s, c)
        \/ AnswerFromStore(s) \/ CallProvider(s) \/ ProviderFails(s) \/ ProviderAnswers(s)
        \/ RunDelete(s) \/ RestartServer(s)
        \/ \E k \in FlightKeys : Forget(s, k)
    \/ \E w \in opened : EnterStream(w) \/ LeaveStream(w)
    \/ NextDay \/ Invalidate

HistorySpec == HistoryInit /\ [][HistoryNext]_historyVars

-----------------------------------------------------------------------------
(* Properties.                                                              *)

\* A client that is told its answer is saved finds that very answer in its
\* history, whichever server, cache or replay told it, unless the retention has
\* removed it (historyPersisted; the checks before the cache and in the flight).
SavedMeansSaved ==
    told # NoRecord /\ told.outcome.kind = "answer" /\ told.outcome.saved =>
        \/ told.outcome.answer \in retired
        \/ \E i \in SavedFor(exchanges, told.key) : exchanges[i].answer = told.outcome.answer

\* The one exception the code leaves, for a stream: its conversation was deleted after it
\* was looked for (ensureInterpretationConversationNotDeleted) and before the table of
\* recent outcomes was.
ToldPastDeletion ==
    \E w \in opened : /\ w \notin opened' /\ told'.key = w.key
                      /\ w.ask.conversation \in tombstones

\* What was deleted stays deleted: no late answer, of this server or another,
\* brings an exchange of the conversation back.
DeletedStaysDeleted ==
    \A i \in DOMAIN exchanges : exchanges[i].ask.conversation \notin tombstones

\* With one server a conversation never forks: what is saved builds on the last
\* turns saved before it, and only one exchange starts a conversation that anybody
\* can see.
ThreadsDoNotFork ==
    LET new == exchanges'[Len(exchanges')]
    IN  running \in {{s} : s \in Servers} /\ exchanges' # <<>> /\ calls' # calls
            /\ new \notin Range(exchanges) =>
          IF new.ask.prior = <<>> THEN Thread(Visible, new.ask.conversation) = <<>>
          ELSE IsSuffix(new.ask.prior, Thread(exchanges, new.ask.conversation))

\* The history of a result can be trusted.
HistoryIsSound ==
    [][(SavedMeansSaved' \/ ToldPastDeletion) /\ DeletedStaysDeleted' /\ ThreadsDoNotFork]_historyVars

\* docs: deleting a conversation removes its questions and answers at once.
DeleteRemoves ==
    told # NoRecord /\ told.outcome.kind = "deleted" =>
        \A i \in DOMAIN exchanges : exchanges[i].ask.conversation # told.key
=============================================================================
