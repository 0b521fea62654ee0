---------------------------- MODULE MCSysctlGuard ----------------------------
(* TLC instances of SysctlGuard.                                            *)
EXTENDS SysctlGuard, TLC

(* The sysctls play the same part.                                          *)
Symmetry == Permutations(Sysctls)
==============================================================================
