--------------------------- MODULE MCGuestAttach ---------------------------
(* Four processes, two addresses.  Symmetry is left out: it is not sound     *)
(* for the liveness property.                                               *)
EXTENDS GuestAttach
=============================================================================
