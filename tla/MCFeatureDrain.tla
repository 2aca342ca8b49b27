--------------------------- MODULE MCFeatureDrain ---------------------------
(* Instances of FeatureDrain for TLC. *)
EXTENDS FeatureDrain

\* all features belong to one project
OneProject == [f \in Features |-> CHOOSE p \in Projects : TRUE]
=============================================================================
