------------------------------ MODULE MCScanCache ------------------------------
(* A small instance of ScanCache for TLC: two folders with a file each. *)
EXTENDS ScanCache, TLC
CONSTANTS f1, f2, d1, d2, b1, b2

TwoFolders == f1 :> d1 @@ f2 :> d2
OwnKeys == b1 :> 1 @@ b2 :> 2
=============================================================================
