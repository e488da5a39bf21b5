------------------------------ MODULE MCAlerts ------------------------------
(* The feed of alerts with one mark, and a browser whose clock is behind the services', right or  *)
(* ahead of it.                                                                                   *)
EXTENDS AlertFeed

Skews == -1..1
=============================================================================
