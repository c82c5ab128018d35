--------------------------- MODULE VerifyClassHashes ---------------------------
(***************************************************************************)
(* The batch matcher VerifyClassHashes: a ProcessStage whose map() takes   *)
(* one batch of compiled classes, pulls the next DeclaredClasses item of   *)
(* its declarations stream, removes every class of the batch from it and   *)
(* accepts the batch only if nothing is left.                              *)
(*                                                                         *)
(* DeclaredClasses is [cairo: set of class hashes, sierra: function from   *)
(* Sierra class hash to casm hash]; a compiled class is its hash and the   *)
(* variant of its definition.                                              *)
(***************************************************************************)
EXTENDS Naturals, Sequences, SequencesExt

CONSTANTS
  Hashes,       \* class hashes
  CasmHashes,   \* casm hashes, the values of DeclaredClasses.sierra
  DeclStreams,  \* the declarations streams the stage can be given
  MaxBatch      \* bound on the length of a batch

CompiledClass == [hash: Hashes, kind: {"Cairo", "Sierra"}]
Batches == UNION {[1..n -> CompiledClass] : n \in 0..MaxBatch}

VARIABLES
  decls,     \* the declarations stream; the i-th map() call pulls decls[i]
  results,   \* what each map() call returned, with its batch
  stopped    \* map() returned Err; the pipeline ends

vars == <<decls, results, stopped>>

Result(kind, missing, batch) == [kind |-> kind, missing |-> missing, batch |-> batch]

\* After the loop: accept when both sets are empty, otherwise report the
\* remaining Cairo hashes chained with `sierra.into_values()`.
BatchEndAlwaysOk(cairo, sierra, batch) == Result("Ok", {}, batch)
BatchEnd(cairo, sierra, batch) ==
  IF cairo = {} /\ DOMAIN sierra = {}
  THEN Result("Ok", {}, batch)
  ELSE Result("Mismatch", cairo \cup Range(sierra), batch)

\* The `for class in input.iter()` loop from element i on: a class whose
\* hash cannot be removed returns the mismatch at once.
RECURSIVE VerifyFrom(_, _, _, _)
VerifyFrom(batch, i, cairo, sierra) ==
  IF i > Len(batch) THEN BatchEnd(cairo, sierra, batch)
  ELSE LET c == batch[i] IN
       CASE c.kind = "Cairo" /\ c.hash \in cairo ->
              VerifyFrom(batch, i + 1, cairo \ {c.hash}, sierra)
         [] c.kind = "Sierra" /\ c.hash \in DOMAIN sierra ->
              VerifyFrom(batch, i + 1, cairo,
                         Restrict(sierra, DOMAIN sierra \ {c.hash}))
         [] OTHER -> Result("Mismatch", {}, batch)

Init ==
  /\ decls \in DeclStreams
  /\ results = <<>>
  /\ stopped = FALSE

MapDefaultingDeclarations ==
  /\ ~stopped
  /\ \E batch \in Batches :
       LET d == IF Len(results) < Len(decls) THEN decls[Len(results) + 1]
                ELSE [cairo |-> {}, sierra |-> <<>>]
           r == VerifyFrom(batch, 1, d.cairo, d.sierra)
       IN results' = Append(results, r) /\ stopped' = (r.kind # "Ok")
  /\ UNCHANGED decls

\* map(input): `block_on(self.declarations.next())`, where an ended stream
\* is an error, then the removal loop.
Map ==
  /\ ~stopped
  /\ \E batch \in Batches :
       \/ /\ Len(results) = Len(decls)
          /\ results' = Append(results, Result("NoDeclarations", {}, batch))
          /\ stopped' = TRUE
       \/ /\ Len(results) < Len(decls)
          /\ LET d == decls[Len(results) + 1]
                 r == VerifyFrom(batch, 1, d.cairo, d.sierra)
             IN /\ results' = Append(results, r)
                /\ stopped' = (r.kind # "Ok")
  /\ UNCHANGED decls

\* The stage has returned an error; nothing is called again.
Done == stopped /\ UNCHANGED vars

Next == Map \/ Done

Spec == Init /\ [][Next]_vars

-----------------------------------------------------------------------------
TypeOK ==
  /\ stopped \in BOOLEAN
  /\ Len(results) <= Len(decls) + 1
  /\ \A i \in DOMAIN results :
       /\ results[i].kind \in {"Ok", "Mismatch", "NoDeclarations"}
       /\ results[i].batch \in Batches

\* Reference: the batch names every declared class exactly once and with
\* its own variant (a Sierra hash sent as Cairo does not count).
ExactlyDeclared(batch, d) ==
  /\ IsInjective([i \in DOMAIN batch |-> batch[i].hash])
  /\ {batch[i].hash : i \in {j \in DOMAIN batch : batch[j].kind = "Cairo"}} = d.cairo
  /\ {batch[i].hash : i \in {j \in DOMAIN batch : batch[j].kind = "Sierra"}} = DOMAIN d.sierra

\* map() accepts the i-th batch exactly when it lists the i-th declarations
\* item: no duplicate, no extra, no missing class, no variant mix-up.
AcceptsExactlyDeclared ==
  \A i \in DOMAIN results : i <= Len(decls) =>
    (results[i].kind = "Ok" <=> ExactlyDeclared(results[i].batch, decls[i]))

\* The spec (4.9): a mismatch reports the unmatched class identifiers.
\* The code chains the casm hashes of the unmatched Sierra classes.
MissingAreClassHashes ==
  \A i \in DOMAIN results : results[i].missing \subseteq Hashes

=============================================================================
