----------------------------- MODULE MCIOManager -----------------------------
(* Small instances of IOManager for TLC. *)
EXTENDS IOManager, TLC

\* Fibre objects are interchangeable.
FiberSymmetry == Permutations(Fibers)

AllOps == {"schedule", "timer", "eventcb", "del", "cancel", "cancelAll", "wait",
           "sleep", "yield", "restart"}
==============================================================================
