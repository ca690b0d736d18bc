--------------------------- MODULE ValidationLadder ---------------------------
(***************************************************************************)
(* The validation ladder (validation/ladder.py): levels L0, L1, ... that   *)
(* are passed bottom up on verified evidence, and lose what rested on      *)
(* evidence that is invalidated later.  The time stamps and summaries of a *)
(* record are left out; blockers are a flag.                               *)
(***************************************************************************)
EXTENDS Integers, FiniteSets

CONSTANTS TopLevel,    \* the levels are 0..TopLevel
          EvidenceIds

ASSUME TopLevelAssumption == TopLevel \in Nat

ValidationLevels == 0..TopLevel
LevelStatuses == {"NOT_STARTED", "IN_PROGRESS", "PASS", "WARN", "FAIL", "BLOCKED"}
EvidenceStatuses == {"VERIFIED", "UNVERIFIED", "INVALIDATED"}
NoEvidence == [level |-> 0, status |-> "ABSENT"]

VARIABLES levels,    \* the status of each level and whether blockers are noted
          evidence   \* where each piece of evidence is filed and what it is worth
ladderVars == <<levels, evidence>>

LadderTypeOK ==
    /\ levels \in [ValidationLevels -> [status: LevelStatuses, blocked: BOOLEAN]]
    /\ evidence \in [EvidenceIds -> [level: ValidationLevels, status: EvidenceStatuses]
                                        \cup {NoEvidence}]

LadderInit ==
    /\ levels = [l \in ValidationLevels |-> [status |-> "NOT_STARTED", blocked |-> FALSE]]
    /\ evidence = [e \in EvidenceIds |-> NoEvidence]

HasVerified(book, l) == \E e \in EvidenceIds : book[e] = [level |-> l, status |-> "VERIFIED"]

Passed(l) == levels[l].status = "PASS"

AddEvidence(l, e, status) ==
    /\ evidence[e] = NoEvidence
    /\ evidence' = [evidence EXCEPT ![e] = [level |-> l, status |-> status]]
    /\ UNCHANGED levels

\* What a status asks of the level: evidence, and for a pass every lower level.
MayBecome(l, status) ==
    /\ status \in {"PASS", "WARN"} => HasVerified(evidence, l)
    /\ status = "PASS" => \A m \in ValidationLevels : m < l => Passed(m)

\* blockers are given exactly with BLOCKED
UpdateStatus(l, status) ==
    /\ MayBecome(l, status)
    /\ levels' = [levels EXCEPT ![l] = [status |-> status, blocked |-> status = "BLOCKED"]]
    /\ UNCHANGED evidence

\* mutant: the levels above keep their pass
FailsAlone(book, at) ==
    [levels EXCEPT ![at] =
        IF @.status \in {"PASS", "WARN"} /\ ~HasVerified(book, at)
        THEN [@ EXCEPT !.status = "FAIL"] ELSE @]

\* A level that stood on the evidence alone fails, and the levels passed above it
\* are blocked.
AfterInvalidation(book, at) ==
    [l \in ValidationLevels |->
        IF l = at /\ levels[l].status \in {"PASS", "WARN"} /\ ~HasVerified(book, l)
        THEN [levels[l] EXCEPT !.status = "FAIL"]
        ELSE IF l > at /\ Passed(l) THEN [status |-> "BLOCKED", blocked |-> TRUE]
        ELSE levels[l]]

InvalidateEvidence(e) ==
    /\ evidence[e] # NoEvidence
    /\ evidence' = [evidence EXCEPT ![e].status = "INVALIDATED"]
    /\ levels' = AfterInvalidation(evidence', evidence[e].level)

LadderNext ==
    \/ \E l \in ValidationLevels, e \in EvidenceIds, s \in {"VERIFIED", "UNVERIFIED"} :
           AddEvidence(l, e, s)
    \/ \E l \in ValidationLevels, s \in LevelStatuses : UpdateStatus(l, s)
    \/ \E e \in EvidenceIds : InvalidateEvidence(e)

LadderSpec == LadderInit /\ [][LadderNext]_ladderVars

CanInterpret(l) == \A m \in 0..l : Passed(m)

\* The highest level passed without a gap below it, -1 when there is none.
HighestPassedLevel ==
    CHOOSE h \in -1..TopLevel :
        /\ \A m \in 0..h : Passed(m)
        /\ h < TopLevel => ~Passed(h + 1)

-----------------------------------------------------------------------------
\* A level that stands passed or with a warning has verified evidence of its own, and
\* a result may be interpreted at a level exactly up to the highest one passed without
\* a gap, each level below it on verified evidence: the code checks the evidence when
\* a status is set and has to repair every record when evidence is invalidated
\* (validation/ladder.py updateStatus, invalidateEvidence, canInterpret).
ClaimsRestOnEvidence ==
    /\ \A l \in ValidationLevels :
           /\ levels[l].status \in {"PASS", "WARN"} => HasVerified(evidence, l)
           /\ levels[l].blocked <=> levels[l].status = "BLOCKED"
    /\ \A l \in ValidationLevels : CanInterpret(l) <=> l <= HighestPassedLevel

\* When evidence is invalidated no level above it stays passed, however much evidence
\* of its own it has, until it is passed again.
InvalidationReachesUp ==
    \A e \in EvidenceIds :
        evidence[e].status \in {"VERIFIED", "UNVERIFIED"} /\ evidence'[e].status = "INVALIDATED"
        => \A l \in ValidationLevels : l > evidence[e].level => levels'[l].status # "PASS"
=============================================================================
