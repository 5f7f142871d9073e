----------------------------- MODULE MCResolver -----------------------------
EXTENDS Resolver, TLC

CONSTANTS c1, c2, n1, n2, n3, a1

(* Each of n1 and n2 may be an alias of the other. *)
MCTarget == (n1 :> n2) @@ (n2 :> n1) @@ (n3 :> n1)

(* n2 is reached through an alias only. *)
MCMayAsk == (c1 :> {n1}) @@ (c2 :> {n1, n3, a1})

(* Two subrequests of one page. *)
MCMain == (c1 :> c1) @@ (c2 :> c1)
=============================================================================
