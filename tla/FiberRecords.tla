---------------------------- MODULE FiberRecords ----------------------------
(* The fibers of a component, named by the addresses of their records.     *)
CONSTANTS
  Fibers,      \* addresses a fiber record, and its stack, can have
  Null         \* nullptr, and a context of zeros
=============================================================================
