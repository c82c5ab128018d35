--------------------------- MODULE ClassSyncTypes ---------------------------
(***************************************************************************)
(* Values shared by the modules of the class-definition sync pipeline      *)
(* (crates/pathfinder/src/sync/class_definitions.rs).                      *)
(*                                                                         *)
(* A class is abstracted to its block number and its class hash; the bytes *)
(* of its definition do not influence any decision of the matcher.         *)
(* Stream items are Result-like records: kind "Ok" carries a value, any    *)
(* other kind names the error.                                             *)
(***************************************************************************)
EXTENDS Naturals, Sequences

CONSTANTS
  Start,     \* first block of the range, `start`
  Stop,      \* last block of the range (inclusive), `stop`
  Hashes,    \* the class hashes that can occur
  NoHeader,  \* declared_classes_at(block) returned None: header not found
  None       \* absent payload of an error item

ASSUME Start \in Nat /\ Stop \in Nat /\ Start <= Stop

Blocks == Start..Stop

\* The contents the declared-classes table can have: per block, the set of
\* class hashes the header declares, or NoHeader.
DeclaredTables == [Blocks -> SUBSET Hashes \cup {NoHeader}]

\* `Class { block_number, hash, .. }` as it travels through the matcher.
Class == [block: Blocks, hash: Hashes]

\* Result<PeerData<Class>, SyncError> items of the matcher's output stream.
Ok(c) == [kind |-> "Ok", class |-> c]
Err(k) == [kind |-> k, class |-> None]
ErrorKinds == {"UnexpectedClass", "PeerError", "ExpectationError"}
Results == {Ok(c) : c \in Class} \cup {Err(k) : k \in ErrorKinds}
IsErr(r) == r.kind # "Ok"

\* anyhow::Result<(BlockNumber, HashSet<ClassHash>)> items of the expected
\* declarations stream.
Expected(b, s) == [kind |-> "Ok", block |-> b, classes |-> s]
ExpectedErr == [kind |-> "ExpectationError", block |-> Start, classes |-> {}]

(***************************************************************************)
(* expected_declarations_stream as a pure function of the table: every     *)
(* block of start..=stop in ascending order, blocks that declare nothing   *)
(* skipped, and the stream ends with an error item at the first block      *)
(* whose header is missing.                                                *)
(***************************************************************************)
RECURSIVE ExpectedFrom(_, _)
ExpectedFrom(declared, b) ==
  IF b > Stop THEN <<>>
  ELSE IF declared[b] = NoHeader THEN <<ExpectedErr>>
  ELSE IF declared[b] = {} THEN ExpectedFrom(declared, b + 1)
  ELSE <<Expected(b, declared[b])>> \o ExpectedFrom(declared, b + 1)

ExpectedDeclarations(declared) == ExpectedFrom(declared, Start)

(***************************************************************************)
(* The matcher of verify_declared_at over an unchunked class stream: the   *)
(* reference definition that the chunked, concurrent implementation must  *)
(* agree with.  `exps` are the expectations not yet pulled, `cls` the     *)
(* classes not yet pulled, `at` and `declared` the current expectation.   *)
(* The output is what the matcher must send downstream, in order.         *)
(***************************************************************************)
RECURSIVE MatchFrom(_, _, _, _)
MatchFrom(exps, cls, at, declared) ==
  IF declared = {}
  THEN IF exps = <<>> THEN <<>>
       ELSE IF Head(exps).kind # "Ok" THEN <<Err("ExpectationError")>>
       ELSE MatchFrom(Tail(exps), cls, Head(exps).block, Head(exps).classes)
  ELSE IF cls = <<>> THEN <<>>
  ELSE LET r == Head(cls) IN
       IF IsErr(r) THEN <<r>>
       ELSE IF r.class.block # at \/ r.class.hash \notin declared
            THEN <<Err("UnexpectedClass")>>
            ELSE <<r>> \o MatchFrom(exps, Tail(cls), at, declared \ {r.class.hash})

\* The reference output for the range from..=Stop.
MatchedFrom(declared, from, cls) ==
  MatchFrom(ExpectedFrom(declared, from), cls, from, {})

Matched(declared, cls) == MatchedFrom(declared, Start, cls)
=============================================================================
