------------------------ MODULE MC_ClassDeclaredAtStage ------------------------
EXTENDS ClassDeclaredAtStage, TLC

CONSTANTS A, B, C

\* Block 2 declares nothing; in the second table its header is missing.
MCDBs == { (1 :> {A} @@ 2 :> {} @@ 3 :> {B, C}),
           (1 :> {A} @@ 2 :> NoHeader @@ 3 :> {B}) }
=============================================================================
