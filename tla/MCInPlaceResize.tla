--------------------------- MODULE MCInPlaceResize ---------------------------
(* Profiles are only compared for equality in InPlaceResize, so a permutation
   of them changes nothing a safety property can see. *)
EXTENDS InPlaceResize, TLC

AnyProfiles == Permutations(Sizes)
==============================================================================
