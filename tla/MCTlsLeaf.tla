------------------------------ MODULE MCTlsLeaf ------------------------------
(* A small installation for TLC: an app and an instance of it. *)
EXTENDS TlsLeaf, TLC

MCKeys == {<<"site">>, <<"feature", "site">>}

TlsSymmetry ==
  Permutations(Handlers) \cup Permutations(CaKeys) \cup Permutations(LeafKeys)
=============================================================================
