------------------------- MODULE MCRenderAdmission -------------------------
(* Small instances of RenderAdmission for TLC. *)
EXTENDS RenderAdmission

(* A large render, a small one and one that reserves nothing (a 3D mesh). *)
MixedBytes == [j \in Jobs |-> CASE j = "large" -> 2 [] j = "small" -> 1 [] OTHER -> 0]
=============================================================================
