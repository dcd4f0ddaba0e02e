------------------------ MODULE MCDatagramConnection ------------------------
(***************************************************************************)
(* A small instance of DatagramConnection: a bundle of three segments, so  *)
(* that one of them is neither the first nor the last, and one of two.     *)
(***************************************************************************)
EXTENDS DatagramConnection, TLC

CONSTANTS j1, j2

ThreeAndTwo == (j1 :> 3 @@ j2 :> 2)
=============================================================================
