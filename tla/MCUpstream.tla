----------------------------- MODULE MCUpstream -----------------------------
EXTENDS Upstream, TLC

CONSTANTS w1, w2, r1, r2

(* Both requests at one worker, or one at each: workers are alike. *)
MCHomes == {[r \in Requests |-> w1],
            [r \in Requests |-> IF r = r1 THEN w1 ELSE w2]}
MCWeight == [p \in Servers |-> IF p = 1 THEN 2 ELSE 1]
MCMaxFails == [p \in Servers |-> 1]
MCMaxConns == [p \in Servers |-> IF p = 1 THEN 1 ELSE 0]
=============================================================================
