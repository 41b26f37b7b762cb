---------------------------- MODULE MCCatalogue -----------------------------
(* An instance of Catalogue.  Entries and names are interchangeable. *)
EXTENDS Catalogue, TLC

Symmetry == Permutations(Ids) \cup Permutations(Names)
=============================================================================
