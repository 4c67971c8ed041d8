------------------------------- MODULE MCRing -------------------------------
(***************************************************************************)
(* Ring with four servers of three points each, on a circle of 12 hashes:  *)
(* one hash function without collisions, and one in which servers collide  *)
(* with each other and with themselves.                                    *)
(***************************************************************************)
EXTENDS Ring

MCHashes == 0..11

MCHashFunctions ==
  { << <<0, 4, 8>>, <<2, 6, 5>>, <<11, 1, 9>>, <<7, 3, 10>> >>,
    << <<10, 2, 3>>, <<2, 5, 8>>, <<5, 5, 7>>, <<2, 10, 4>> >> }
=============================================================================
