---------------------------- MODULE PresentTable ----------------------------
(***************************************************************************)
(* What the data environments promise a program: nested scopes, each with  *)
(* the allocations made in it.  A host pointer is allocated at most once   *)
(* on a device, whatever the scope; a device buffer serves one allocation; *)
(* leaving a scope ends its allocations and no others.                     *)
(***************************************************************************)
EXTENDS Integers, Sequences

CONSTANTS Devices, HostPtrs, DevPtrs, Sizes,
          None   \* no allocation

VARIABLE scopes   \* the open scopes, the innermost one last

NoAllocation == [d \in Devices |-> [h \in HostPtrs |-> None]]

Allocation == [k1 : HostPtrs, k2 : DevPtrs, data : Sizes]

(* The scopes that hold an allocation of h on d.                           *)
Holders(d, h) == {i \in 1..Len(scopes) : scopes[i][d][h] # None}

InUse(b) ==
  \E i \in 1..Len(scopes), d \in Devices, h \in HostPtrs :
    scopes[i][d][h] # None /\ scopes[i][d][h].k2 = b

ScopesInit == scopes = <<NoAllocation>>

Enter == scopes' = Append(scopes, NoAllocation)

Allocate(d, h, b, n) ==
  /\ Holders(d, h) = {}
  /\ ~InUse(b)
  /\ scopes' = [scopes EXCEPT ![Len(scopes)][d][h] =
                  [k1 |-> h, k2 |-> b, data |-> n]]

(* Only the innermost scope gives up an allocation before it is left.      *)
Deallocate(d, h) == scopes' = [scopes EXCEPT ![Len(scopes)][d][h] = None]

(* The outermost scope is never left, only emptied.                        *)
Leave ==
  scopes' = IF Len(scopes) > 1 THEN SubSeq(scopes, 1, Len(scopes) - 1)
            ELSE <<NoAllocation>>

ScopesNext ==
  \/ Enter
  \/ \E d \in Devices, h \in HostPtrs, b \in DevPtrs, n \in Sizes :
       Allocate(d, h, b, n)
  \/ \E d \in Devices, h \in HostPtrs : Deallocate(d, h)
  \/ Leave

ScopesSpec == ScopesInit /\ [][ScopesNext]_scopes
=============================================================================
