------------------------ MODULE MCSemanticRetrieval -------------------------
(* Instances of SemanticRetrieval for TLC.                                 *)
EXTENDS SemanticRetrieval

CONSTANTS q1, q2, r1, r2

(* Both callers are cleared for the lower band.  The first has an          *)
(* organization-wide grant of it, the second a grant of one record.        *)
LowClearance == [q \in Query |-> 1]
WideOrNone == [q \in Query |-> IF q = q1 THEN 1 ELSE 0]
NoneOrOne == [q \in Query |-> IF q = q1 THEN {} ELSE {r2}]

(* In one process, or in two.                                              *)
OneOrTwo == {[q \in Query |-> 1], [q \in Query |-> IF q = q1 THEN 1 ELSE 2]}

(* A record the engine has not indexed yet, or one above every caller.     *)
NewOrHigh ==
  LET Bands(b) == [r \in Record |-> IF r = r1 THEN 1 ELSE b]
  IN {[class |-> Bands(1), slots |-> <<r1>>],
      [class |-> Bands(2), slots |-> <<r1, r2>>]}
=============================================================================
