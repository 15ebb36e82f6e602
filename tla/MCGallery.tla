----------------------------- MODULE MCGallery -----------------------------
(* Gallery for TLC. *)
EXTENDS Gallery, TLC

Symmetry == Permutations(Session) \cup Permutations(PhotoId) \cup Permutations(Content)
=============================================================================
