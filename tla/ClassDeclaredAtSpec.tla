------------------------- MODULE ClassDeclaredAtSpec -------------------------
(***************************************************************************)
(* What verify_declared_at promises, independent of chunking and of the    *)
(* scheduling of its producer tasks: the peer supplies a flat sequence of  *)
(* classes (or errors), and the output stream is, at every moment, a       *)
(* prefix of Matched(declared, supplied).  It grows one item at a time and *)
(* never changes what it has already emitted.                              *)
(***************************************************************************)
EXTENDS ClassSyncTypes, SequencesExt

CONSTANT DBs   \* the tables the node can start from

VARIABLES
  declared,    \* the declared-classes table
  supplied,    \* every item the peer stream has produced, flattened
  emitted      \* every item sent downstream

vars == <<declared, supplied, emitted>>

Init ==
  /\ declared \in DBs
  /\ supplied = <<>>
  /\ emitted = <<>>

\* The peer stream produces more items (one chunk or one error).
Supply ==
  /\ IsStrictPrefix(supplied, supplied')
  /\ UNCHANGED <<declared, emitted>>

\* The next item of the reference output is sent downstream.
Emit ==
  LET ideal == Matched(declared, supplied) IN
  /\ Len(emitted) < Len(ideal)
  /\ emitted' = Append(emitted, ideal[Len(emitted) + 1])
  /\ UNCHANGED <<declared, supplied>>

Next == Supply \/ Emit

Spec == Init /\ [][Next]_vars
=============================================================================
