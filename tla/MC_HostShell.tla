----------------------------- MODULE MC_HostShell -----------------------------
(* Model checking instances of HostShell.                                  *)
EXTENDS HostShell

\* A callback that only listens stands for emit.
AllPolicies == {"unmount", "reopen", "callback"}
================================================================================
