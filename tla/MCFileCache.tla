---------------------------- MODULE MCFileCache ----------------------------
EXTENDS FileCache, TLC

CONSTANTS k1, k2, r1, r2

(* k1 is the main key; k2 the key of a variant. *)
MCVariant == [k \in Keys |-> k2]
MCKeyOf == [r \in Requests |-> k1]
(* r2 comes to a location that caches what is asked for twice. *)
MCMinUses == [r \in Requests |-> IF r = r2 THEN 2 ELSE 1]
=============================================================================
