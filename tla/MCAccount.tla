----------------------------- MODULE MCAccount -----------------------------
(***************************************************************************)
(* Small instances of AccountRisk: two units of money against a cap of one *)
(* half, days of nine to eighteen instants (some two to four passes).      *)
(***************************************************************************)
EXTENDS AccountRisk

NoDeposits == {}
WinsAndLosses == {-1, 0, 1}
Deep == {-3, -2, -1, 0}
Flat       == {0}
=============================================================================
