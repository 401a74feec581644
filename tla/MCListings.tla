---------------------------- MODULE MCListings -----------------------------
(* Listings on small sets.                                                 *)
EXTENDS Listings
=============================================================================
