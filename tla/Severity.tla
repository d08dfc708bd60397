------------------------------ MODULE Severity ------------------------------
(* How the findings of a vulnerability scan or of an SBOM are rated and     *)
(* compared with the thresholds of a policy (internal/types/severity.go,    *)
(* finding.go). Scores are counted in tenths. A rating is a score, a        *)
(* severity, or both; a finding is an identifier with its ratings.          *)
EXTENDS Integers, FiniteSetsExt

NoScore == -1
NoThreshold == -2

Unknown == -1

SeverityRankOf(severity) ==
    CASE severity \in {"none", "info"} -> 0
      [] severity \in {"low", "negligible"} -> 1
      [] severity \in {"medium", "moderate"} -> 2
      [] severity \in {"high", "important"} -> 3
      [] severity = "critical" -> 4
      [] OTHER -> Unknown

SeverityMinimumCVSS(rank) ==
    CASE rank = 1 -> 1 [] rank = 2 -> 40 [] rank = 3 -> 70 [] rank = 4 -> 90 [] OTHER -> 0

ValidScore(score) == score \in 0..100

SeverityRankFromCVSS(score) ==
    IF ValidScore(score) THEN Max({r \in 0..4 : SeverityMinimumCVSS(r) <= score}) ELSE Unknown

\* The finding after all its ratings were added: the most severe rank and the
\* highest valid score.
Rank(finding) ==
    Max({Unknown} \union {SeverityRankOf(r.severity) : r \in finding.ratings}
                  \union {SeverityRankFromCVSS(r.score) : r \in finding.ratings})

Score(finding) ==
    Max({NoScore} \union {s \in {r.score : r \in finding.ratings} : ValidScore(s)})

EffectiveScore(finding) == Max({Score(finding), SeverityMinimumCVSS(Rank(finding))})

FindingViolates(finding, limits) ==
    \/ Rank(finding) = Unknown
    \/ limits.maxScore # NoThreshold /\ EffectiveScore(finding) > limits.maxScore
    \/ /\ limits.minSeverity # ""
       /\ Rank(finding) >= SeverityRankOf(limits.minSeverity)

\* Violation: a minimum severity the policy misspells ranks below every
\* finding, and so flags them all.
Violation(findings, limits) ==
    /\ limits.maxScore # NoThreshold \/ limits.minSeverity # ""
    /\ \E f \in findings : f.id \notin limits.ignoreCVEs /\ FindingViolates(f, limits)

-----------------------------------------------------------------------------
(* Properties *)

\* Rating a finding again, with a lower score or a lesser severity of another
\* source, never lets it through the thresholds (Finding.AddScore, AddSeverity
\* and EffectiveScore keep the most severe reading).
RatingsOnlyRaise(finding, rating, limits) ==
    Violation({finding}, limits) /\ Rank(finding) # Unknown
        => Violation({[finding EXCEPT !.ratings = @ \union {rating}]}, limits)

\* The two ways to state one threshold agree: what is at least of a severity by
\* its name exceeds every score below the lowest score of that severity.
ThresholdsAgree(finding, severity) ==
    LET lowest == SeverityMinimumCVSS(SeverityRankOf(severity))
        byName == [maxScore |-> NoThreshold, minSeverity |-> severity, ignoreCVEs |-> {}]
        byScore == [maxScore |-> lowest - 1, minSeverity |-> "", ignoreCVEs |-> {}]
    IN  SeverityRankOf(severity) > 0
            => (Violation({finding}, byName) <=> Violation({finding}, byScore))
=============================================================================
