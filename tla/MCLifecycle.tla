---------------------------- MODULE MCLifecycle -----------------------------
(* Two devices of two types, a type that has none, and acc_device_any.     *)
EXTENDS Lifecycle

MCTypes == {"any", "cpu", "gpu", "phi"}
MCTable ==
  [type \in MCTypes |->
     CASE type = "any" -> [first |-> 0, num |-> 2]
       [] type = "cpu" -> [first |-> 0, num |-> 1]
       [] type = "gpu" -> [first |-> 1, num |-> 1]
       [] type = "phi" -> [first |-> 2, num |-> 0]]
=============================================================================
