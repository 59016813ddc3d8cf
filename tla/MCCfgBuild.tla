----------------------------- MODULE MCCfgBuild -----------------------------
(* The builder alone, on the shorter sample programs.                      *)
EXTENDS CfgBuild, SamplePrograms
=============================================================================
