\* Any one or two platforms, and queries that fail.
SPECIFICATION Spec
CONSTANTS
  nvidia = nvidia
  intel = intel
  K20Xm = K20Xm
  M2070 = M2070
  xeonphi = xeonphi
  Vendors = {nvidia, intel}
  Models = {K20Xm, M2070, xeonphi}
  acc_device_any = acc_device_any
  Unknown = Unknown
  VendorOf <- Vendor
  Listings <- OneOrTwo
INVARIANTS
  NumbersLeadToTheirType
  TypeCheckIsExact
  PiecesCoverPlatform
CHECK_DEADLOCK FALSE
