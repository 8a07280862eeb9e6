--------------------------- MODULE MCSearchOutbox ---------------------------
(* Instances of SearchOutbox for TLC.                                      *)
EXTENDS SearchOutbox

CONSTANTS w1, w2, r1

(* One worker; two workers beside each other; a rebuild beside a worker.   *)
Deployments == {{w1}, {w1, w2}, {w1, r1}}
=============================================================================
