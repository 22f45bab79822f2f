------------------------- MODULE MCFrontierService -------------------------
(***************************************************************************)
(* Instances of FrontierService.  The serial runs have two hosts, one with *)
(* two pages and one with one, so that requests of different hosts         *)
(* interleave in the shared reply queue; the runs with free clients have   *)
(* one host, on which two requests collide.                                *)
(***************************************************************************)
EXTENDS FrontierInvariant, TLC

CONSTANTS a, b, a1, a2, b1, s1, s2

MCUrls    == {a1, a2, b1}
MCHosts   == {a, b}
MCHostOf  == [u \in MCUrls |-> IF u = b1 THEN b ELSE a]

OneHost   == {a}
OneUrls   == {a1, a2}
OneHostOf == [u \in OneUrls |-> a]

MCSlots   == {s1, s2}
Symmetry  == Permutations(OneUrls) \cup Permutations(MCSlots)
SlotSymmetry == Permutations(MCSlots)
=============================================================================
