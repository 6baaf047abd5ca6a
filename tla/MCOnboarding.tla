---------------------------- MODULE MCOnboarding ----------------------------
(* One host, two host configs and two values of the managed setting.  Nothing *)
(* tells the host configs apart, nor the values.                              *)
EXTENDS Onboarding, TLC

Symmetry == Permutations(HostConfigs) \cup Permutations(Settings)
=============================================================================
