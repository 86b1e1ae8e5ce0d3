---------------------------- MODULE MCTransfers -----------------------------
(* Finite instances of Transfers.                                          *)
EXTENDS Transfers, TLC

CONSTANTS dev0, dev1, h1, h2

(* One array distributed to two devices.                                   *)
TwoDevices == (h1 :> dev0) @@ (h2 :> dev1)

(* Buffers can be renamed, and the devices swapped together with what is   *)
(* distributed to them.                                                    *)
Swap == (dev0 :> dev1) @@ (dev1 :> dev0) @@ (h1 :> h2) @@ (h2 :> h1)
Same == [x \in DOMAIN Swap |-> x]

Symmetric == {p @@ q : p \in Permutations(DevPtrs), q \in {Same, Swap}}
=============================================================================
