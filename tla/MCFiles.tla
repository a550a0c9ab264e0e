------------------------------- MODULE MCFiles ------------------------------
(***************************************************************************)
(* The file layer with the two devices of the board support package and    *)
(* few descriptors: three standard ones, one more than one to share, and   *)
(* room for EMFILE.                                                        *)
(***************************************************************************)
EXTENDS Files

BspDevices == <<"jtag_uart", "lw_uart">>
=============================================================================
