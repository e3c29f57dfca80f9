----------------------------- MODULE MCHashMap ------------------------------
(***************************************************************************)
(* HashMap for TLC: four keys, one of which is put with two entries.  The  *)
(* hash values are neighbours, and wrap around in a table of four slots    *)
(* but not in one of eight: a nested rehash needs both.                    *)
(***************************************************************************)
EXTENDS HashMap

MCHashes == {3, 4}
MCOffers == {<<k, "e">> : k \in Keys} \union {<<"k1", "f">>}
=============================================================================
