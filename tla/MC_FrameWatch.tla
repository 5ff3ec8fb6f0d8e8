---------------------------- MODULE MC_FrameWatch -----------------------------
(* Model checking instances of FrameWatch.                                 *)
EXTENDS FrameWatch

AllFates == {"hide", "hideOwn", "stall", "kill", "remove", "reload"}
================================================================================
