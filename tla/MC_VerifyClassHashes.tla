------------------------- MODULE MC_VerifyClassHashes -------------------------
EXTENDS VerifyClassHashes, TLC

CONSTANTS A, B, C, X, Y

\* Two blocks: a Cairo class A and a Sierra class B (casm X); then a
\* Sierra class C (casm Y) alone.
MCDeclStreams ==
  { << [cairo |-> {A}, sierra |-> (B :> X)],
       [cairo |-> {}, sierra |-> (C :> Y)] >> }
=============================================================================
