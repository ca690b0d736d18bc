------------------------------ MODULE EventPacks ------------------------------
(***************************************************************************)
(* The custom Event Packs and the scenarios of one owner.  A pack carries  *)
(* candidate claims that people review one by one or in bulk; it is frozen *)
(* when every claim is decided.  A model may extract the claims again,     *)
(* while reviews and the freeze go on.  A scenario names a pack and an     *)
(* intervention; it is frozen once it validates.                           *)
(*                                                                         *)
(* A record that does not exist is NoPack or NoScenario.                   *)
(***************************************************************************)
EXTENDS FiniteSets

CONSTANTS
    PackIds, ScenarioIds,
    Claims,         \* the claims an extraction may return
    RequiredClaim,  \* the first one of each extraction: isRequired
    Metadata,       \* title, summary, instrument and asOf of a pack
    Interventions,  \* parameter, baseline and intervention value
    NoBuild,        \* a pack that was not made from a Factory build
    NoPack, NoScenario

ASSUME PacksAssumption == RequiredClaim \in Claims

VARIABLES
    packs,       \* custom_event_packs with event_pack_drafts
    scenarios,
    extracting   \* the packs whose claims a model is extracting again

packVars == <<packs, scenarios, extracting>>

Decided == {"HUMAN_APPROVED", "REJECTED"}  \* EDITED counts as approved
ClaimStatuses == Decided \cup {"AI_PROPOSED", "ABSENT"}

Exists(p) == packs[p] # NoPack
Draft(p) == Exists(p) /\ ~packs[p].frozen
Frozen(p) == Exists(p) /\ packs[p].frozen

ClaimsOf(p) == {c \in Claims : packs[p].claims[c] # "ABSENT"}
InStatus(p, status) == {c \in Claims : packs[p].claims[c] = status}

\* What an extraction finds: some claims, of which the first is required.
Findings == {found \in SUBSET Claims : RequiredClaim \in found}
Proposed(found) == [c \in Claims |-> IF c \in found THEN "AI_PROPOSED" ELSE "ABSENT"]

-----------------------------------------------------------------------------

\* A model that abstains is an error: no pack is made without a claim.
CreateEventPack(p, metadata, build, found) ==
    /\ ~Exists(p)
    /\ packs' = [packs EXCEPT ![p] = [frozen |-> FALSE, metadata |-> metadata, build |-> build,
                                      claims |-> Proposed(found)]]
    /\ UNCHANGED <<scenarios, extracting>>

\* extractEventPackClaims, up to the model's answer.  Nothing refuses to begin
\* with a frozen pack; that only ends in the refusal to save.
BeginExtraction(p) ==
    /\ Draft(p)
    /\ p \notin extracting
    /\ extracting' = extracting \cup {p}
    /\ UNCHANGED <<packs, scenarios>>

\* The model abstains or fails.
ExtractionFails(p) ==
    /\ p \in extracting
    /\ extracting' = extracting \ {p}
    /\ UNCHANGED <<packs, scenarios>>

\* mutant: whether the pack is frozen was checked before the model was asked
SaveExtractedClaimsAnyway(p, found) ==
    /\ p \in extracting
    /\ extracting' = extracting \ {p}
    /\ packs' = [packs EXCEPT ![p].claims = Proposed(found)]
    /\ UNCHANGED scenarios

\* saveExtractedClaims replaces claims and reviews, unless the pack is frozen.
SaveExtractedClaims(p, found) ==
    /\ p \in extracting
    /\ extracting' = extracting \ {p}
    /\ packs' = IF Draft(p) THEN [packs EXCEPT ![p].claims = Proposed(found)] ELSE packs
    /\ UNCHANGED scenarios

\* A decision can be taken back.
ReviewClaim(p, c, status) ==
    /\ Draft(p)
    /\ c \in ClaimsOf(p)
    /\ packs' = [packs EXCEPT ![p].claims[c] = status]
    /\ UNCHANGED <<scenarios, extracting>>

\* The ids the user confirmed must be the ones that are eligible now.
ApproveAllProposedClaims(p, eligible) ==
    /\ Draft(p)
    /\ eligible # {}
    /\ eligible \subseteq InStatus(p, "AI_PROPOSED")
    /\ packs' = [packs EXCEPT ![p].claims =
                    [c \in Claims |-> IF c \in eligible THEN "HUMAN_APPROVED" ELSE @[c]]]
    /\ UNCHANGED <<scenarios, extracting>>

FreezeEventPack(p) ==
    /\ Draft(p)
    /\ InStatus(p, "AI_PROPOSED") = {}
    /\ packs[p].claims[RequiredClaim] = "HUMAN_APPROVED"
    /\ packs' = [packs EXCEPT ![p].frozen = TRUE]
    /\ UNCHANGED <<scenarios, extracting>>

-----------------------------------------------------------------------------

\* validateExperiment, as far as it depends on the pack; the rest of the
\* request may or may not validate.
Valid(config) ==
    /\ Frozen(config.pack)
    /\ InStatus(config.pack, "AI_PROPOSED") = {}

Configs == [pack : PackIds, intervention : Interventions]

SaveScenario(s, config, frozen) ==
    /\ scenarios' = [scenarios EXCEPT ![s] = [config |-> config, frozen |-> frozen]]
    /\ UNCHANGED <<packs, extracting>>

CreateScenario(s, config, frozen) ==
    /\ scenarios[s] = NoScenario
    /\ frozen => Valid(config)
    /\ SaveScenario(s, config, frozen)

UpdateScenario(s, config) ==
    /\ scenarios[s] # NoScenario
    /\ ~scenarios[s].frozen
    /\ SaveScenario(s, config, FALSE)

\* mutant: the clone takes the whole record for the request
CloneScenarioRecord(s, clone) ==
    /\ scenarios[s] # NoScenario
    /\ scenarios[clone] = NoScenario
    /\ SaveScenario(clone, scenarios[s], FALSE)

CloneScenario(s, clone) ==
    /\ scenarios[s] # NoScenario
    /\ scenarios[clone] = NoScenario
    /\ SaveScenario(clone, scenarios[s].config, FALSE)

FreezeScenario(s) ==
    /\ scenarios[s] # NoScenario
    /\ ~scenarios[s].frozen
    /\ Valid(scenarios[s].config)
    /\ SaveScenario(s, scenarios[s].config, TRUE)

DeleteScenario(s) ==
    /\ scenarios[s] # NoScenario
    /\ ~scenarios[s].frozen
    /\ scenarios' = [scenarios EXCEPT ![s] = NoScenario]
    /\ UNCHANGED <<packs, extracting>>

\* Each step but the creation of a pack, whose origin the caller knows.
PacksNext ==
    \/ \E p \in PackIds :
          \/ BeginExtraction(p)
          \/ ExtractionFails(p)
          \/ \E found \in Findings : SaveExtractedClaims(p, found)
          \/ \E c \in Claims, status \in Decided \cup {"AI_PROPOSED"} : ReviewClaim(p, c, status)
          \/ \E e \in SUBSET Claims : ApproveAllProposedClaims(p, e)
          \/ FreezeEventPack(p)
    \/ \E s \in ScenarioIds :
          \/ \E config \in Configs :
                \/ \E frozen \in BOOLEAN : CreateScenario(s, config, frozen)
                \/ UpdateScenario(s, config)
          \/ \E clone \in ScenarioIds : CloneScenario(s, clone)
          \/ FreezeScenario(s)
          \/ DeleteScenario(s)

-----------------------------------------------------------------------------

PacksTypeOK ==
    /\ packs \in [PackIds -> {NoPack} \cup
           [frozen : BOOLEAN, claims : [Claims -> ClaimStatuses], metadata : Metadata,
            build : {NoBuild} \cup {packs[p].build : p \in {q \in PackIds : Exists(q)}}]]
    /\ scenarios \in [ScenarioIds -> {NoScenario} \cup [config : Configs, frozen : BOOLEAN]]
    /\ extracting \subseteq PackIds

\* A frozen pack or scenario never changes again, not by a late extraction,
\* and never goes away.
FrozenIsImmutable ==
    /\ \A p \in PackIds : Frozen(p) => packs'[p] = packs[p]
    /\ \A s \in ScenarioIds :
          (scenarios[s] # NoScenario /\ scenarios[s].frozen) => scenarios'[s] = scenarios[s]

\* A frozen scenario runs on a frozen pack whose every claim was decided.
FrozenScenariosAreRunnable ==
    \A s \in ScenarioIds :
        (scenarios[s] # NoScenario /\ scenarios[s].frozen)
            => LET p == scenarios[s].config.pack IN
               Frozen(p) /\ InStatus(p, "AI_PROPOSED") = {}
=============================================================================
