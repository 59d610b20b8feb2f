---------------------------- MODULE MCStudyRuns -----------------------------
(* Constants of the TLC runs of StudyRuns. *)
EXTENDS StudyRuns

CONSTANTS s1, s2, s3, r1, r2, q1, q2, q3, c1

\* A question of a concept, and one that has none and is graded by hand.
Question1 == [item |-> q1, concept |-> c1, single |-> TRUE, exact |-> TRUE, difficulty |-> 1]
Question2 == [item |-> q2, concept |-> NoConcept, single |-> TRUE, exact |-> FALSE, difficulty |-> 1]
MCBank == <<Question2, Question1>>

MCExperiments == {[group |-> "C", snapshot |-> [version |-> 1, hash |-> 1]]}

\* Three questions of one concept.
MCQuestions == [i \in Items |-> [concept |-> c1, single |-> TRUE, exact |-> TRUE]]

\* Two parameter sets of one model version, and another version.
MCSnapshotOf == [s \in Sessions |-> [version |-> IF s = s3 THEN 2 ELSE 1,
                                     hash |-> IF s = s2 THEN 2 ELSE 1]]

\* Of the audit scenes, in which the bank is not read.
Symmetry == Permutations({r1, r2}) \cup Permutations({q1, q2, q3})
=============================================================================
