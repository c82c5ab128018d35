---------------------------- MODULE ClassStageSync ----------------------------
(***************************************************************************)
(* The stage form of the pipeline: the ProcessStage implementations        *)
(*   VerifyLayout -> ComputeHash -> VerifyDeclaredAt ->                    *)
(*   CompileSierraToCasm -> Store                                          *)
(* whose map() handles one class at a time.  Passes, peers, crashes and    *)
(* the casm-hash arrivals are those of ClassSync.  Unlike the batch form,  *)
(* a hash failure is an error (no panic) and Store commits one             *)
(* transaction per class, so a failed pass can leave a block half stored.  *)
(*                                                                         *)
(* The interleaving of VerifyDeclaredAt with its source thread is checked  *)
(* in ClassDeclaredAtStage; here the stage receives the expectations of    *)
(* ExpectedFrom(Declared, from) one by one.  Classes leave the stages in   *)
(* order and an error anywhere ends the pipeline, so running the stages    *)
(* for one class before the next loses no behaviour that affects storage, *)
(* except the abandon of classes already checked, which CrashRestart       *)
(* covers.                                                                 *)
(***************************************************************************)
EXTENDS ClassSync

VARIABLES
  current,  \* self.current of VerifyDeclaredAt: [block, classes]
  exps      \* the expectations its source has not delivered yet

stageVars == <<casmKnown, stored, pc, from, batch, txn, crashes, outages,
               tail, returned, current, exps>>

StageInit == Init /\ current = [block |-> Start, classes |-> {}] /\ exps = <<>>

StartStagesKeepingCurrent ==
  /\ pc = "layout"
  /\ pc' = "s_layout"
  /\ exps' = ExpectedFrom(Declared, from)
  /\ UNCHANGED <<casmKnown, stored, from, batch, txn, crashes, outages, current, tail, returned>>

\* A fresh pipeline for the pass, with a new ExpectedDeclarationsSource
\* starting at `from`.
StartStages ==
  /\ pc = "layout"
  /\ pc' = "s_layout"
  /\ current' = [block |-> from, classes |-> {}]
  /\ exps' = ExpectedFrom(Declared, from)
  /\ UNCHANGED <<casmKnown, stored, from, batch, txn, crashes, outages, tail, returned>>

\* The pipeline ends with an error, or its input is exhausted.
StageEnd == EndPass /\ UNCHANGED <<current, exps>>

\* VerifyLayout::map: a definition that does not parse is BadClassLayout.
LayoutStage ==
  /\ pc = "s_layout"
  /\ batch # <<>>
  /\ IF Head(batch).defect = "layout" THEN StageEnd
     ELSE pc' = "s_hash" /\ UNCHANGED <<batch, current, exps>>
  /\ UNCHANGED <<casmKnown, stored, from, txn, crashes, outages, tail, returned>>

\* The peer stream is exhausted: every stage ends, the pass is over.
InputExhausted ==
  /\ pc = "s_layout"
  /\ batch = <<>>
  /\ StageEnd
  /\ UNCHANGED <<casmKnown, stored, from, txn, crashes, outages, tail, returned>>

\* ComputeHash::map: the hash computation's error is returned with `?`.
HashStage ==
  /\ pc = "s_hash"
  /\ IF Head(batch).defect = "hash" THEN StageEnd
     ELSE pc' = "s_declared" /\ UNCHANGED <<batch, current, exps>>
  /\ UNCHANGED <<casmKnown, stored, from, txn, crashes, outages, tail, returned>>

\* The expectation map() checks against: `self.current`, or, once it is
\* exhausted, the next one received (None when the source has ended).
NextExpectation == IF current.classes # {} THEN current
                   ELSE IF exps = <<>> THEN None ELSE Head(exps)

\* VerifyDeclaredAt::map: receive if needed, compare the block, remove the
\* hash; a closed channel or a mismatch is an error.
DeclaredAtStage ==
  /\ pc = "s_declared"
  /\ LET c == Head(batch)
         e == NextExpectation
     IN /\ exps' = IF current.classes = {} /\ exps # <<>> THEN Tail(exps) ELSE exps
        /\ IF e # None /\ e.block = c.block /\ c.hash \in e.classes
           THEN current' = [e EXCEPT !.classes = @ \ {c.hash}] /\ pc' = "s_compile"
                /\ UNCHANGED batch
           ELSE EndPass /\ current' = IF e = None THEN current ELSE e
  /\ UNCHANGED <<casmKnown, stored, from, txn, crashes, outages, tail, returned>>

\* CompileSierraToCasm::map: local compilation, or the gateway fetch whose
\* failure is returned with `?`.
CompileStage ==
  /\ pc = "s_compile"
  /\ \/ pc' = "s_store" /\ UNCHANGED <<batch, outages>>
     \/ /\ Casm(Head(batch).hash) = "gateway"
        /\ outages < MaxOutages
        /\ outages' = outages + 1
        /\ EndPass
  /\ UNCHANGED <<casmKnown, stored, from, txn, crashes, current, exps, tail, returned>>

\* Store::map: one transaction for the class; a Sierra class needs its casm
\* hash ("Casm hash not found" drops the transaction); then commit and
\* return the class's block_number.
StoreCommittingUnchecked ==
  /\ pc = "s_store"
  /\ LET c == Head(batch) IN
     /\ stored' = stored \cup {[hash |-> c.hash, casm |-> Casm(c.hash)]}
     /\ batch' = Tail(batch)
     /\ pc' = "s_layout"
  /\ UNCHANGED <<casmKnown, from, txn, crashes, outages, current, exps, tail, returned>>
StoreStage ==
  /\ pc = "s_store"
  /\ LET c == Head(batch) IN
     IF ~HasCasm(c) THEN EndPass /\ UNCHANGED <<stored, returned>>
     ELSE LET r == [hash |-> c.hash, casm |-> Casm(c.hash)] IN
          /\ stored' = stored \cup {r}
          /\ returned' = [block |-> c.block, classes |-> {r}]
          /\ batch' = Tail(batch)
          /\ pc' = "s_layout"
  /\ UNCHANGED <<casmKnown, from, txn, crashes, outages, current, exps, tail>>

\* The steps of ClassSync that the stage form shares.
PassStep(A) == A /\ UNCHANGED <<current, exps>>

StageNext ==
  \/ PassStep(NextMissing) \/ PassStep(FetchHonest) \/ PassStep(FetchAny)
  \/ PassStep(CrashRestart) \/ PassStep(CasmArrives) \/ PassStep(Settled)
  \/ StartStages \/ LayoutStage \/ InputExhausted \/ HashStage
  \/ DeclaredAtStage \/ CompileStage \/ StoreStage

StageSteps ==
  PassStep(NextMissing) \/ StartStages \/ LayoutStage \/ InputExhausted \/ HashStage
    \/ DeclaredAtStage \/ CompileStage \/ StoreStage

\* As in ClassSync: the stages run whenever they can, and re-requesting
\* eventually reaches an honest peer.
StageFairness ==
  /\ WF_stageVars(StageSteps)
  /\ SF_stageVars(PassStep(FetchHonest))

StageSpec == StageInit /\ [][StageNext]_stageVars /\ StageFairness

=============================================================================
