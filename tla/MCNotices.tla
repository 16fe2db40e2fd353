------------------------------ MODULE MCNotices ------------------------------
(* Notices: two drivers, two plugs on a circuit for one, two overlapping     *)
(* fan-outs, any initial occupancy.                                          *)
EXTENDS Notices

CONSTANTS u1, u2, p1, p2, e1, r1, r2, t1, t2

=============================================================================
