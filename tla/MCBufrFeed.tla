----------------------------- MODULE MCBufrFeed -----------------------------
(* The symmetry TLC uses: nothing tells data_ids, rows or engines apart. *)
EXTENDS BufrFeed, TLC

Symmetry == Permutations(Engines) \cup Permutations(Ids) \cup Permutations(Rows)
=============================================================================
