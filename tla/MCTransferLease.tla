--------------------------- MODULE MCTransferLease ---------------------------
(***************************************************************************)
(* Two sessions of two devices, with different priorities.                 *)
(***************************************************************************)
EXTENDS TransferLease, TLC

CONSTANTS d1, d2, push1, pull2

TwoDevices == {d1, d2}
TwoSessions == {push1, pull2}
DevicesOf == push1 :> d1 @@ pull2 :> d2
Priorities == push1 :> 0 @@ pull2 :> 1
=============================================================================
