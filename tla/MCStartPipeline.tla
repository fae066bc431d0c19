-------------------------- MODULE MCStartPipeline --------------------------
(***************************************************************************)
(* StartPipeline on two projects: one with a requirements.txt, and launch  *)
(* files that come with the first commit and with a later one.             *)
(***************************************************************************)
EXTENDS StartPipeline

CONSTANTS old, new      \* launch files

MCSince == [lf \in {old, new} |-> IF lf = old THEN 1 ELSE 2]
BothVenvs == {TRUE, FALSE}
OnlyVenv == {TRUE}
=============================================================================
