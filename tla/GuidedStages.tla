------------------------------ MODULE GuidedStages ------------------------------
(***************************************************************************)
(* The stages of a guided workflow over the Event Packs and scenarios of   *)
(* its owner.  A person applies proposed values to the draft, links the    *)
(* artifacts and advances from stage to stage; each advance reads the      *)
(* artifacts again.  Nothing keeps the pack, the scenario and the Factory  *)
(* build from changing between two stages.                                 *)
(*                                                                         *)
(* GuidedTurns has how a proposal comes about and how a version protects   *)
(* these operations from a stale page; EventPackFactory has what happens   *)
(* in a build, which here is open, ready or gone.                          *)
(***************************************************************************)
EXTENDS EventPacks, Integers

CONSTANTS
    BuildIds,
    LibraryPack,      \* a pack its owner froze before the workflow began
    LibraryScenario,  \* and a scenario frozen on it
    LibraryMetadata, LibraryIntervention,
    Nothing           \* a field of the draft that is not set

ASSUME LibraryAssumption ==
    /\ LibraryPack \in PackIds /\ LibraryScenario \in ScenarioIds
    /\ LibraryMetadata \in Metadata /\ LibraryIntervention \in Interventions
    /\ Nothing \notin BuildIds \cup PackIds \cup ScenarioIds \cup Metadata \cup Interventions
    /\ NoPack \notin [frozen : BOOLEAN, metadata : Metadata, build : BuildIds \cup {NoBuild},
                      claims : [Claims -> ClaimStatuses]]
    /\ NoScenario \notin [config : Configs, frozen : BOOLEAN]

VARIABLES
    builds,  \* the state of each Factory build
    guide    \* stage and draft of the workflow while it is not archived

guideVars == <<packVars, builds, guide>>

StageOrder ==
    <<"EVENT_GOAL", "SOURCE_METHOD", "SOURCE_REVIEW", "CLAIM_REVIEW", "PACK_METADATA_REVIEW",
      "PACK_FREEZE_REVIEW", "SCENARIO_INTERVENTION", "SCENARIO_REVIEW", "PREFLIGHT",
      "READY_TO_SUBMIT", "COMPLETED">>

Stages == {StageOrder[i] : i \in DOMAIN StageOrder}
Place(stage) == CHOOSE i \in DOMAIN StageOrder : StageOrder[i] = stage
Past(stage) == Place(stage) < Place(guide.stage)

Methods == {"MANUAL", "PASTE"}  \* the methods other than MANUAL need a build
BuildStates == {"open", "ready", "gone"}

NoDraft == [metadata |-> Nothing, method |-> Nothing, intervention |-> Nothing,
            build |-> Nothing, pack |-> Nothing, scenario |-> Nothing]

\* With the prepared path the draft starts with the frozen artifacts.
GuideInit ==
    /\ packs = [p \in PackIds |-> IF p = LibraryPack
           THEN [frozen |-> TRUE, metadata |-> LibraryMetadata, build |-> NoBuild,
                 claims |-> [c \in Claims |-> "HUMAN_APPROVED"]]
           ELSE NoPack]
    /\ scenarios = [s \in ScenarioIds |-> IF s = LibraryScenario
           THEN [frozen |-> TRUE, config |-> [pack |-> LibraryPack,
                                              intervention |-> LibraryIntervention]]
           ELSE NoScenario]
    /\ extracting = {}
    /\ builds = [b \in BuildIds |-> "open"]
    /\ guide \in {[stage |-> "EVENT_GOAL", prepared |-> prepared, applied |-> FALSE,
                   draft |-> IF prepared
                             THEN [NoDraft EXCEPT !.pack = LibraryPack,
                                                  !.scenario = LibraryScenario]
                             ELSE NoDraft] : prepared \in BOOLEAN}

-----------------------------------------------------------------------------
(* The Factory build, from outside.                                        *)

BuildMoves(b, from, to) ==
    /\ builds[b] \in from
    /\ builds' = [builds EXCEPT ![b] = to]
    /\ UNCHANGED <<packVars, guide>>

BuildStep(b) ==
    \/ BuildMoves(b, {"open"}, "ready")
    \/ BuildMoves(b, {"ready"}, "open")
    \/ BuildMoves(b, {"open", "ready"}, "gone")

\* A pack made from a build, and the audit event that links the two.  The
\* sources were checked before the model was asked: by now the build may be in
\* any state, or gone.
Materialize(b, p, metadata, found) ==
    /\ CreateEventPack(p, metadata, b, found)
    /\ UNCHANGED <<builds, guide>>

CreateByHand(p, metadata, found) ==
    /\ CreateEventPack(p, metadata, NoBuild, found)
    /\ UNCHANGED <<builds, guide>>

-----------------------------------------------------------------------------
(* What links and advances require.                                        *)

draft == guide.draft
Missing(b) == builds[b] = "gone"
MaterializedFrom(p, b) == Exists(p) /\ packs[p].build = b

\* _assertOwnedReferences
OwnedReferences(d) ==
    /\ d.build # Nothing /\ Missing(d.build)
           => d.pack # Nothing /\ MaterializedFrom(d.pack, d.build)
    /\ d.pack # Nothing => Exists(d.pack)
    /\ d.scenario # Nothing => scenarios[d.scenario] # NoScenario

\* _assertArtifactCoherence reads the intervention of the stored draft.
ArtifactCoherence(d) ==
    d.scenario # Nothing =>
        /\ d.pack # Nothing
        /\ scenarios[d.scenario].config.pack = d.pack
        /\ draft.intervention # Nothing
               => scenarios[d.scenario].config.intervention = draft.intervention

\* _assertFactoryBuildNotReplaced, _assertArtifactNotReplaced and
\* _assertScenarioNotReplaced
NotReplaced(build, pack, scenario) ==
    /\ (build # Nothing /\ draft.build \notin {Nothing, build})
           => Missing(draft.build) /\ draft.pack = Nothing
    /\ pack # Nothing => draft.pack \in {Nothing, pack}
    /\ (scenario # Nothing /\ draft.scenario \notin {Nothing, scenario})
           => scenarios[draft.scenario] = NoScenario /\ guide.stage = "SCENARIO_INTERVENTION"

LinkedAtStage(build, pack, scenario) ==
    /\ build # Nothing => guide.stage \in {"SOURCE_METHOD", "SOURCE_REVIEW"}
    /\ pack # Nothing => guide.stage = "SOURCE_REVIEW"
    /\ scenario # Nothing => guide.stage \in {"SCENARIO_INTERVENTION", "SCENARIO_REVIEW"}

ClaimsReviewed(p) ==
    /\ ClaimsOf(p) # {}
    /\ InStatus(p, "AI_PROPOSED") = {}
    /\ InStatus(p, "HUMAN_APPROVED") # {}

MetadataMatches == draft.metadata # Nothing /\ packs[draft.pack].metadata = draft.metadata

\* A build that is gone is stood for by the audit event of the pack.
SourcesReviewed ==
    draft.method # "MANUAL" =>
        /\ draft.build # Nothing
        /\ Missing(draft.build) \/ builds[draft.build] = "ready"
        /\ MaterializedFrom(draft.pack, draft.build)

FrozenScenario == scenarios[draft.scenario] # NoScenario /\ scenarios[draft.scenario].frozen

\* assertStageCompletion, for the pack and for the scenario.
PackComplete(stage) ==
    CASE stage \in {"EVENT_GOAL", "SOURCE_METHOD"} -> TRUE
      [] stage = "SOURCE_REVIEW" -> SourcesReviewed
      [] stage = "CLAIM_REVIEW" -> ClaimsReviewed(draft.pack)
      [] stage = "PACK_METADATA_REVIEW" -> ClaimsReviewed(draft.pack) /\ MetadataMatches
      [] OTHER -> MetadataMatches /\ Frozen(draft.pack)

ScenarioComplete(stage) ==
    CASE stage = "SCENARIO_INTERVENTION" -> draft.scenario # Nothing
      [] stage = "SCENARIO_REVIEW" -> FrozenScenario
      [] stage \in {"PREFLIGHT", "READY_TO_SUBMIT"} ->
             FrozenScenario /\ Valid(scenarios[draft.scenario].config)
      [] OTHER -> TRUE

ArtifactsComplete(stage) ==
    /\ OwnedReferences(draft)
    /\ ArtifactCoherence(draft)
    /\ stage \notin {"EVENT_GOAL", "SOURCE_METHOD"} => draft.pack # Nothing
    /\ PackComplete(stage)
    /\ ScenarioComplete(stage)

\* _validateStageCompletion
DraftComplete(stage) ==
    CASE stage \in {"EVENT_GOAL", "PACK_METADATA_REVIEW"} -> draft.metadata # Nothing
      [] stage = "SOURCE_METHOD" -> draft.method # Nothing
      [] stage = "SOURCE_REVIEW" -> draft.build # Nothing \/ draft.pack # Nothing
      [] stage \in {"CLAIM_REVIEW", "PACK_FREEZE_REVIEW"} -> draft.pack # Nothing
      [] stage = "SCENARIO_INTERVENTION" -> draft.intervention # Nothing
      [] OTHER -> draft.scenario # Nothing

-----------------------------------------------------------------------------
(* The workflow's own operations.                                          *)

Changes(newGuide) == guide' = newGuide /\ UNCHANGED <<packVars, builds>>

\* validateStageAuthority: what a proposal of a stage may carry.
Proposes(stage, field, value) ==
    \/ stage \in {"EVENT_GOAL", "PACK_METADATA_REVIEW"} /\ field = "metadata" /\ value \in Metadata
    \/ stage = "SOURCE_METHOD" /\ field = "method" /\ value \in Methods
    \/ stage = "SCENARIO_INTERVENTION" /\ field = "intervention" /\ value \in Interventions

\* The history of applied proposals matters to the prepared path only, where a
\* proposal that carries nothing for the draft is applied too.
ApplyValue(field, value) ==
    /\ Proposes(guide.stage, field, value)
    /\ Changes([guide EXCEPT !.draft[field] = value, !.applied = guide.prepared])

ApplyRemark ==
    /\ guide.prepared /\ ~guide.applied
    /\ guide.stage # "COMPLETED"
    /\ Changes([guide EXCEPT !.applied = TRUE])

Link(build, pack, scenario) ==
    LET kept(new, field) == IF new # Nothing THEN new ELSE draft[field]
        linked == [draft EXCEPT !.build = kept(build, "build"), !.pack = kept(pack, "pack"),
                                !.scenario = kept(scenario, "scenario")] IN
    /\ guide.stage # "COMPLETED"
    /\ <<build, pack, scenario>> # <<Nothing, Nothing, Nothing>>
    /\ NotReplaced(build, pack, scenario)
    /\ LinkedAtStage(build, pack, scenario)
    /\ OwnedReferences(linked)
    /\ ArtifactCoherence(linked)
    /\ Changes([guide EXCEPT !.draft = linked])

\* The prepared path asks for an applied proposal of each stage instead of
\* the artifacts, which its configuration has checked.
Advance ==
    /\ guide.stage # "COMPLETED"
    /\ DraftComplete(guide.stage)
    /\ IF guide.prepared THEN guide.applied ELSE ArtifactsComplete(guide.stage)
    /\ Changes([guide EXCEPT !.stage = StageOrder[Place(guide.stage) + 1], !.applied = FALSE])

GuideNext ==
    \/ PacksNext /\ UNCHANGED <<builds, guide>>
    \/ \E b \in BuildIds : BuildStep(b)
    \/ \E p \in PackIds, m \in Metadata, found \in Findings :
          \/ \E b \in BuildIds : Materialize(b, p, m, found)
          \/ CreateByHand(p, m, found)
    \/ \E m \in Metadata : ApplyValue("metadata", m)
    \/ \E m \in Methods : ApplyValue("method", m)
    \/ \E i \in Interventions : ApplyValue("intervention", i)
    \/ ApplyRemark
    \/ \E b \in BuildIds \cup {Nothing}, p \in PackIds \cup {Nothing},
          s \in ScenarioIds \cup {Nothing} : Link(b, p, s)
    \/ Advance

GuideSpec == GuideInit /\ [][GuideNext]_guideVars

-----------------------------------------------------------------------------
(* Properties.                                                             *)

\* Types: of the workflow, and of the builds, packs and scenarios around it.
GuideTypeOK ==
    /\ PacksTypeOK
    /\ builds \in [BuildIds -> BuildStates]
    /\ guide \in
          [stage : Stages, prepared : BOOLEAN, applied : BOOLEAN,
           draft : [metadata : Metadata \cup {Nothing}, method : Methods \cup {Nothing},
                    intervention : Interventions \cup {Nothing}, build : BuildIds \cup {Nothing},
                    pack : PackIds \cup {Nothing}, scenario : ScenarioIds \cup {Nothing}]]

\* Past the freeze review the linked pack is frozen, every claim of it was
\* decided and one at least accepted, whatever was reviewed or extracted again
\* after the stage that asked for it; and it is the pack the draft describes.
PackStandsBehindStage ==
    (Past("PACK_FREEZE_REVIEW") /\ ~guide.prepared) =>
        /\ draft.pack # Nothing
        /\ Frozen(draft.pack)
        /\ ClaimsReviewed(draft.pack)
        /\ MetadataMatches

\* Past the source review the linked pack was made from the linked build, or
\* the sources were entered by hand, even when the build is long gone.
ProvenanceStands ==
    (Past("SOURCE_REVIEW") /\ ~guide.prepared /\ draft.method # "MANUAL") =>
        draft.build # Nothing /\ draft.pack # Nothing /\ MaterializedFrom(draft.pack, draft.build)

\* Past the scenario review the linked scenario exists, is frozen, and runs the
\* applied intervention on the linked pack, so that what the person reviewed
\* is what an experiment will run.
ScenarioStandsBehindStage ==
    (Past("SCENARIO_REVIEW") /\ ~guide.prepared) =>
        /\ draft.scenario # Nothing
        /\ FrozenScenario
        /\ scenarios[draft.scenario].config =
               [pack |-> draft.pack, intervention |-> draft.intervention]

\* A stage that was passed stays true: packs, builds and scenarios change and go
\* beside the workflow, and what each review established still holds.
StagesStand ==
    /\ ProvenanceStands /\ PackStandsBehindStage
    /\ ScenarioStandsBehindStage /\ FrozenScenariosAreRunnable

\* A linked pack is never exchanged, and a build or a scenario only when the
\* one before it is gone.
LinksAreKept ==
    /\ draft.pack # Nothing => guide'.draft.pack = draft.pack
    /\ (draft.build # Nothing /\ guide'.draft.build # draft.build) => Missing(draft.build)
    /\ (draft.scenario # Nothing /\ guide'.draft.scenario # draft.scenario)
          => scenarios[draft.scenario] = NoScenario
=============================================================================
