--------------------------- MODULE MCProjectCache ---------------------------
(* ProjectCache for TLC: two callers and three worker threads. *)
EXTENDS ProjectCache

CONSTANTS c1, c2, w1, w2, w3, nobody

Callers == {c1, c2}
Workers == {w1, w2, w3}

(* Any disk, with and without abandoned loads and failing removals. *)
Anything == World
=============================================================================
