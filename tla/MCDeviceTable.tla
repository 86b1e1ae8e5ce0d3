--------------------------- MODULE MCDeviceTable ----------------------------
(* Finite instances of DeviceTable.                                        *)
EXTENDS DeviceTable, SequencesExt, TLC

CONSTANTS nvidia, intel, K20Xm, M2070, xeonphi

Vendor == (K20Xm :> nvidia) @@ (M2070 :> nvidia) @@ (xeonphi :> intel)

(* One or two platforms of up to three devices, of models of the vendor or *)
(* not.                                                                    *)
NvidiaPlatforms ==
  [vendor : {nvidia}, models : BoundedSeq({K20Xm, M2070}, 3)]
OtherPlatforms ==
  [vendor : {intel, Unknown}, models : {<<>>, <<xeonphi>>, <<xeonphi, xeonphi>>}]
    \cup [vendor : {nvidia, intel}, models : {<<Unknown>>, <<xeonphi, K20Xm>>}]

Platform == NvidiaPlatforms \cup OtherPlatforms
OneOrTwo == {<<p>> : p \in Platform} \cup {<<p, q>> : p, q \in Platform}
=============================================================================
