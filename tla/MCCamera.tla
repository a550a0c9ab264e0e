------------------------------ MODULE MCCamera ------------------------------
(***************************************************************************)
(* Instances of the camera applications: two exposures of the table.     *)
(***************************************************************************)
EXTENDS Camera

BothApps == {"mipi", "oneware"}
MipiApp == {"mipi"}
\* 5 ms and 59 ms, and an arbitrary word behind them.
TwoTimes == <<364, 4297>>
=============================================================================
