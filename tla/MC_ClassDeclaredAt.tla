------------------------- MODULE MC_ClassDeclaredAt -------------------------
(* Model values and tables for checking ClassDeclaredAt with TLC. *)
EXTENDS ClassDeclaredAt, TLC

CONSTANTS A, B, C

\* Blocks 1..3.  The first table is scenario S1 of the spec: A declared at
\* block 1, nothing at block 2, B and C at block 3.  The second has a
\* missing header at block 2.  In the third every block declares a class,
\* so the producer can be left with an expectation to send once the
\* matcher has returned.
MCDBs == {
  (1 :> {A} @@ 2 :> {} @@ 3 :> {B, C}),
  (1 :> {A} @@ 2 :> NoHeader @@ 3 :> {B}),
  (1 :> {A} @@ 2 :> {B} @@ 3 :> {C})
}
=============================================================================
