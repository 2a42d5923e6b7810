----------------------------- MODULE MCWorkbench -----------------------------
(* A territory of two stores, both on today's route, and another rep's draft. *)
EXTENDS Workbench

CONSTANTS s1, s2, f1

MCStores == {s1, s2}
MCRoute == <<s1, s2>>
MCForeign == {f1}
================================================================================
