---------------------------- MODULE MC_ClassSync ----------------------------
(* Model values and tables for checking ClassSync with TLC. *)
EXTENDS ClassSync, TLC

CONSTANTS A, B, C

\* Blocks 1..2: the Cairo class A at block 1, the Sierra classes B and C at
\* block 2.  C does not compile locally, so its casm comes from the gateway.
\* Either every casm hash is stored, or C's is missing (scenario S6).
MCDeclared == 1 :> {A} @@ 2 :> {B, C}
MCCasmTables == {{B, C}, {B}}
=============================================================================
