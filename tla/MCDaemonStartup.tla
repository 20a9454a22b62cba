--------------------------- MODULE MCDaemonStartup ---------------------------
(***************************************************************************)
(* Small instances of DaemonStartup.  Nothing distinguishes the ports.     *)
(***************************************************************************)
EXTENDS DaemonStartup, TLC

PortSymmetry == Permutations(Ports)
==============================================================================
