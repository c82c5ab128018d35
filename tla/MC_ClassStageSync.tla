------------------------- MODULE MC_ClassStageSync -------------------------
(* The tables of MC_ClassSync, for the stage form of the pipeline. *)
EXTENDS ClassStageSync, TLC

CONSTANTS A, B, C

MCDeclared == 1 :> {A} @@ 2 :> {B, C}
MCCasmTables == {{B, C}, {B}}
=============================================================================
