----------------------------- MODULE MCBookings -----------------------------
(* Small instances of Bookings.  Requests are interchangeable.             *)
EXTENDS BookingsHistory, TLC

Symmetry == Permutations(Requests)

EveryOp == AllOps
=============================================================================
