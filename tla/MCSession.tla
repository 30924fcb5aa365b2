----------------------------- MODULE MCSession -----------------------------
(* Two analyses whose calls for ranges interleave; or one of them, which   *)
(* may pause or die, with dv_status and stop_dv, which take ranks as       *)
(* clients do, and one simulation.  A call for ranges succeeds, fails in   *)
(* the DV after its first range, or fails in the library after it.  Both   *)
(* modes of the DV.                                                        *)
EXTENDS Session

CONSTANTS c1, c2, dv_status, stop_dv, r1, r2, long, colon

MCCalls == {<<r1, r2>>, <<r2, colon>>, <<r2, long>>}

MCTogether == {{c1, c2}, {c1, dv_status, stop_dv} \cup Job}

=============================================================================
