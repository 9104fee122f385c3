-------------------------- MODULE MCUserStreamSession --------------------------
(* Instances of UserStreamSession for TLC; the constants are in the cfgs.  *)
EXTENDS UserStreamSession

================================================================================
