-------------------------- MODULE MCResearchRunControl --------------------------
(* Small instances of ResearchRunControl for TLC: the configurations give the *)
(* constants their values.                                                    *)
EXTENDS ResearchRunControl
=============================================================================
