--------------------------- MODULE MCReservations ---------------------------
EXTENDS Reservations, TLC
CONSTANTS asha, ben
MCUsers == {asha, ben}
MCWindows == {<<0, 2>>, <<1, 3>>, <<2, 3>>}
Symmetry == Permutations(MCUsers)
=============================================================================
