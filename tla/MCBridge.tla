----------------------------- MODULE MCBridge -----------------------------
(* Bridge with two panels and room for a poll that was left behind.        *)
EXTENDS Bridge
=============================================================================
