------------------------------ MODULE ClassSync ------------------------------
(***************************************************************************)
(* Repeated class-definition sync passes over start..=head, each pass one  *)
(* batch flowing through the stages of class_definitions.rs:              *)
(*   next_missing -> peer delivery -> verify_layout -> compute_hash ->     *)
(*   verify_declared_at -> compile_sierra_to_casm_or_fetch -> persist.     *)
(* A pass that fails, or whose peer stops early, ends; the next pass asks  *)
(* next_missing again, which is how sync resumes.  The node may also crash *)
(* and restart at any point: only committed writes survive.               *)
(*                                                                         *)
(* Chunking and task interleaving inside verify_declared_at are checked in *)
(* ClassDeclaredAt; here the matcher is its reference MatchedFrom.         *)
(***************************************************************************)
EXTENDS ClassSyncTypes, SequencesExt

CONSTANTS
  Declared,       \* the declared-classes table (headers all present)
  SierraHashes,   \* hashes of Sierra classes; the others are Cairo classes
  CasmTables,     \* possible sets of Sierra hashes with a casm hash at start
  CompileFails,   \* Sierra hashes that compile_to_casm rejects
  MaxBatch,       \* bound on the classes a peer delivers in one pass
  MaxCrashes,     \* bound on node crashes
  MaxOutages      \* bound on failed gateway fetches

ASSUME Declared \in [Blocks -> SUBSET Hashes]
ASSUME CasmTables \subseteq SUBSET SierraHashes /\ CompileFails \subseteq SierraHashes

\* What a peer sends: a class definition for a block, possibly malformed so
\* that its layout does not parse ("layout") or its hash computation fails
\* ("hash").  The class hash stands for the definition's content.
PeerClass == [block: Blocks, hash: Hashes, defect: {"none", "layout", "hash"}]

\* The casm a stored class carries: none for Cairo, or where it came from.
CasmSources == {"none", "local", "gateway"}

VARIABLES
  casmKnown, \* Sierra hashes whose casm hash the headers pipeline stored
  stored,    \* committed class definitions: [hash, casm] records
  pc,        \* stage of the current pass
  from,      \* first block of the pass, as next_missing returned it
  batch,     \* the classes of the pass at the current stage
  txn,       \* writes of the open persist transaction
  crashes,   \* crashes so far
  outages,   \* failed gateway fetches so far
  tail,      \* persist's `tail`: the block of the batch's last class
  returned   \* what persist last returned, Ok(tail), with the classes it wrote

vars == <<casmKnown, stored, pc, from, batch, txn, crashes, outages, tail, returned>>

DeclaredHashes(b) == Declared[b]
StoredHashes == {r.hash : r \in stored}

-----------------------------------------------------------------------------
(* next_missing *)

\* first_block_with_missing_class_definitions: the lowest block declaring a
\* class whose definition is not stored.
FirstMissing ==
  LET missing == {b \in Blocks : ~(DeclaredHashes(b) \subseteq StoredHashes)}
  IN IF missing = {} THEN None ELSE CHOOSE b \in missing : \A m \in missing : b <= m

\* The guard `Some(next_missing) if next_missing <= head`.
StartsPass(b) == b # None /\ b <= Stop

\* A missing block up to head starts a pass; otherwise sync is complete.
NextMissing ==
  /\ pc = "gap"
  /\ IF StartsPass(FirstMissing)
     THEN pc' = "fetch" /\ from' = FirstMissing
     ELSE pc' = "synced" /\ UNCHANGED from
  /\ UNCHANGED <<casmKnown, stored, batch, txn, crashes, outages, tail, returned>>

-----------------------------------------------------------------------------
(* Peer delivery (environment) *)

\* An honest peer sends every class declared in from..=head, in block order.
FetchHonest ==
  /\ pc = "fetch"
  /\ batch' = FoldLeft(LAMBDA acc, b :
                 acc \o [i \in 1..Cardinality(DeclaredHashes(b)) |->
                          [block |-> b, hash |-> SetToSeq(DeclaredHashes(b))[i],
                           defect |-> "none"]],
               <<>>, [i \in 1..(Stop - from + 1) |-> from + i - 1])
  /\ pc' = "layout"
  /\ UNCHANGED <<casmKnown, stored, from, txn, crashes, outages, tail, returned>>

\* Any peer: up to MaxBatch classes of blocks from..=head, possibly wrong,
\* misplaced or malformed; an empty delivery is a stream that ends at once.
FetchAny ==
  /\ pc = "fetch"
  /\ \E n \in 0..MaxBatch, s \in [1..MaxBatch -> PeerClass] :
       /\ \A i \in 1..n : s[i].block >= from
       /\ batch' = SubSeq(s, 1, n)
  /\ pc' = "layout"
  /\ UNCHANGED <<casmKnown, stored, from, txn, crashes, outages, tail, returned>>

-----------------------------------------------------------------------------
(* Stages *)

\* The pass ends; the next one starts with next_missing.
EndPass ==
  /\ pc' = "gap"
  /\ batch' = <<>>

\* verify_layout: a class whose definition does not parse is
\* BadClassLayout(peer), which ends the pass.
VerifyLayout ==
  /\ pc = "layout"
  /\ IF \E i \in DOMAIN batch : batch[i].defect = "layout"
     THEN EndPass
     ELSE pc' = "hash" /\ UNCHANGED batch
  /\ UNCHANGED <<casmKnown, stored, from, txn, crashes, outages, tail, returned>>

\* compute_hash: a failing hash computation hits
\* `.expect("todo fixme add error type")` on a rayon thread; the oneshot
\* sender is dropped and `rx.await.expect(..)` panics the sync task.
ComputeHash ==
  /\ pc = "hash"
  /\ IF \E i \in DOMAIN batch : batch[i].defect = "hash"
     THEN pc' = "panicked" /\ UNCHANGED batch
     ELSE pc' = "match"
          /\ batch' = [i \in DOMAIN batch |-> Ok([block |-> batch[i].block,
                                                  hash |-> batch[i].hash])]
  /\ UNCHANGED <<casmKnown, stored, from, txn, crashes, outages, tail, returned>>

\* The expectations of verify_declared_at start at the pass's first block.
MatchedAtNext(cls) == MatchedFrom(Declared, from + 1, cls)
MatchedAt(cls) == MatchedFrom(Declared, from, cls)

\* The classes that go on: everything before the first error.
PassedKeepingError(out) == out
Passed(out) == IF out # <<>> /\ IsErr(Last(out)) THEN Front(out) ELSE out

\* verify_declared_at over from..=head: the classes it passes before its
\* first error (or the end of either stream) go on; an error ends the pass
\* after them.
VerifyDeclared ==
  /\ pc = "match"
  /\ LET passed == Passed(MatchedAt(batch))
     IN /\ batch' = [i \in DOMAIN passed |-> passed[i].class]
        /\ pc' = IF passed = <<>> THEN "gap" ELSE "compile"
  /\ UNCHANGED <<casmKnown, stored, from, txn, crashes, outages, tail, returned>>

\* The casm compile_sierra_to_casm_or_fetch attaches to a class: Cairo
\* classes pass through; a Sierra class is compiled locally, or its casm is
\* fetched from the gateway when compile_to_casm fails.
Casm(h) ==
  IF h \notin SierraHashes THEN "none"
  ELSE IF h \in CompileFails THEN "gateway" ELSE "local"

NeedsGateway == \E i \in DOMAIN batch : Casm(batch[i].hash) = "gateway"

\* compile_sierra_to_casm_or_fetch when every gateway fetch it makes succeeds.
Compile ==
  /\ pc = "compile"
  /\ batch' = [i \in DOMAIN batch |-> [hash |-> batch[i].hash, block |-> batch[i].block,
                                       casm |-> Casm(batch[i].hash)]]
  /\ pc' = "persist"
  /\ UNCHANGED <<casmKnown, stored, from, txn, crashes, outages, tail, returned>>

\* A gateway fetch fails: the collected Result is an error and the pass ends.
CompileGatewayFails ==
  /\ pc = "compile"
  /\ NeedsGateway
  /\ outages < MaxOutages
  /\ outages' = outages + 1
  /\ EndPass
  /\ UNCHANGED <<casmKnown, stored, from, txn, crashes, tail, returned>>

\* `classes.last().map(|x| x.data.block_number)`.
PersistTailFirst(cls) == Head(cls).block
PersistTail(cls) == Last(cls).block

\* persist opens one transaction for the whole batch and takes its `tail`;
\* an empty batch would be "No class definitions to persist".
PersistBegin ==
  /\ pc = "persist"
  /\ batch # <<>>
  /\ pc' = "persisting"
  /\ txn' = {}
  /\ tail' = PersistTail(batch)
  /\ UNCHANGED <<casmKnown, stored, from, batch, crashes, outages, returned>>

\* `transaction.casm_hash(hash)` finds the casm hash a Sierra class needs.
HasCasmUnchecked(c) == TRUE
HasCasm(c) == c.hash \notin SierraHashes \/ c.hash \in casmKnown

RollBack == txn' = {} /\ UNCHANGED stored

\* One iteration of the loop: a Sierra class needs its casm hash
\* ("Casm hash not found" otherwise: the `?` returns and dropping the
\* transaction rolls it back), then the class is written.
PersistClass ==
  /\ pc = "persisting"
  /\ batch # <<>>
  /\ LET c == Head(batch) IN
     IF ~HasCasm(c)
     THEN EndPass /\ RollBack
     ELSE /\ txn' = txn \cup {[hash |-> c.hash, casm |-> c.casm]}
          /\ batch' = Tail(batch)
          /\ UNCHANGED <<pc, stored>>
  /\ UNCHANGED <<casmKnown, from, crashes, outages, tail, returned>>

\* transaction.commit(): the writes become durable; persist returns
\* Ok(tail) and the pass is over.
PersistCommit ==
  /\ pc = "persisting"
  /\ batch = <<>>
  /\ stored' = stored \cup txn
  /\ txn' = {}
  /\ returned' = [block |-> tail, classes |-> txn]
  /\ pc' = "gap"
  /\ UNCHANGED <<casmKnown, from, batch, crashes, outages, tail>>

\* The block-headers pipeline, running beside class sync, stores the casm
\* hash of a declared Sierra class.
CasmArrives ==
  /\ \E h \in SierraHashes \ casmKnown : casmKnown' = casmKnown \cup {h}
  /\ UNCHANGED <<stored, pc, from, batch, txn, crashes, outages, tail, returned>>

\* The node crashes and restarts: the open transaction is lost and the next
\* sync starts with next_missing.
CrashRestart ==
  /\ pc \notin {"synced", "panicked"}
  /\ crashes < MaxCrashes
  /\ crashes' = crashes + 1
  /\ EndPass
  /\ txn' = {}
  /\ UNCHANGED <<casmKnown, stored, from, outages, tail, returned>>

-----------------------------------------------------------------------------

Init ==
  /\ casmKnown \in CasmTables
  /\ stored = {}
  /\ pc = "gap"
  /\ from = Start
  /\ batch = <<>>
  /\ txn = {}
  /\ crashes = 0
  /\ outages = 0
  /\ tail = None
  /\ returned = None

\* Sync is complete, or the sync task has panicked: nothing runs any more.
Settled ==
  /\ pc \in {"synced", "panicked"}
  /\ UNCHANGED vars

Next ==
  \/ NextMissing
  \/ FetchHonest \/ FetchAny
  \/ VerifyLayout \/ ComputeHash \/ VerifyDeclared
  \/ Compile \/ CompileGatewayFails
  \/ PersistBegin \/ PersistClass \/ PersistCommit
  \/ CrashRestart \/ CasmArrives
  \/ Settled

Stages ==
  NextMissing \/ VerifyLayout \/ ComputeHash \/ VerifyDeclared \/ Compile
    \/ PersistBegin \/ PersistClass \/ PersistCommit

\* The stages run whenever they can (the gateway fails only MaxOutages
\* times).  Peers are re-requested until an honest one answers: an
\* assumption about the environment, stated as strong fairness of the
\* honest delivery.
Fairness ==
  /\ WF_vars(Stages)
  /\ SF_vars(FetchHonest)

Spec == Init /\ [][Next]_vars /\ Fairness

-----------------------------------------------------------------------------
(* Properties *)

TypeOK ==
  /\ casmKnown \subseteq SierraHashes
  /\ stored \subseteq [hash: Hashes, casm: CasmSources]
  /\ pc \in {"gap", "fetch", "layout", "hash", "match", "compile", "persist",
             "persisting", "synced", "panicked"}
  /\ from \in Blocks
  /\ pc \in {"compile"} => batch \in Seq(Class)
  /\ txn \subseteq [hash: Hashes, casm: CasmSources]
  /\ crashes \in 0..MaxCrashes
  /\ outages \in 0..MaxOutages

\* Every class definition in the database was declared in the range, and a
\* Sierra class is only written with a casm hash from the headers pipeline:
\* across passes with wrong, misplaced or partial deliveries, failed
\* fetches and crashes, only what verify_declared_at passed and persist
\* checked survives.
StoredAreDeclared ==
  \A r \in stored :
    /\ \E b \in Blocks : r.hash \in Declared[b]
    /\ r.hash \in SierraHashes => r.hash \in casmKnown

ResumePointSound ==
  returned # None =>
    /\ \A r \in returned.classes, b \in Blocks : r.hash \in Declared[b] => b <= returned.block
    /\ \A b \in Blocks : b < returned.block => Declared[b] \subseteq StoredHashes

\* Once every casm hash has arrived, sync either completes or the task
\* panics: resuming from next_missing after every incomplete pass, including
\* passes that failed on a casm hash not yet stored, makes progress.
AllCasmKnown == \A b \in Blocks : Declared[b] \cap SierraHashes \subseteq casmKnown
SyncSettles == <>AllCasmKnown => <>(pc \in {"synced", "panicked"})

\* A peer's malformed class is reported as an error attributed to the peer
\* (ClassHashComputation in section 4.5 of the spec) and never panics the
\* sync task.
NoPanicOnPeerData == pc # "panicked"
=============================================================================
