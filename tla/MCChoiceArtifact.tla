-------------------------- MODULE MCChoiceArtifact --------------------------
(* Three projects, of two branches that are listed concurrently, of none and *)
(* of one, at most two segments a prefix: a small container with a failing   *)
(* branch beside a running one and a cancel between two segments.            *)
EXTENDS ChoiceArtifact

MCBranchesOf == <<2, 0, 1>>
=============================================================================
