-------------------------------- MODULE MCSeed --------------------------------
(* Seed for TLC: files that overlap, one of which names an item twice
   and one of which has a kit. *)
EXTENDS Seed

CONSTANTS i1, i2, k1

SeedFiles == {<<i1, i1>>, <<i2, i1, k1>>}
=============================================================================
