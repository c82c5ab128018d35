------------------------- MODULE ClassDeclaredAtStage -------------------------
(***************************************************************************)
(* The stage form of the declaration matcher: the ProcessStage             *)
(* VerifyDeclaredAt, whose map() is called once per class and pulls       *)
(* expectations with blocking_recv from a capacity-1 channel, and the      *)
(* ExpectedDeclarationsSource task (spawn_blocking) that fills it.         *)
(*                                                                         *)
(* The two run on different threads.  The stage is dropped, and with it   *)
(* the receiver, when map() returns an error or when its input ends.       *)
(* A failed query (`declared_classes_at` returning Err) ends the source    *)
(* exactly like a missing header: both leave through `?` and the error is  *)
(* lost with the dropped JoinHandle, so the table's NoHeader stands for    *)
(* both.                                                                   *)
(***************************************************************************)
EXTENDS ClassSyncTypes, SequencesExt

CONSTANTS
  DBs,        \* the declared-classes tables the node can start from
  MaxItems,   \* bound on the classes fed to the stage
  ChanCap     \* capacity of mpsc::channel(1)

VARIABLES
  declared,   \* the declared-classes table
  srcAt,      \* `start` of the source task's loop
  src,        \* the source task: "run", or how it ended
  chan,       \* the expectations channel
  current,    \* self.current of the stage: [block, classes]
  stPc,       \* "idle" between map() calls, "recv" inside the loop of map(),
              \* "stopped" after map() returned Err, "finished" at end of input
  held,       \* the input of the map() call in progress
  inputs,     \* every class given to map(), in order
  out         \* every result map() returned, in order

vars == <<declared, srcAt, src, chan, current, stPc, held, inputs, out>>

\* The stage, and so the receiver, is alive.
RxOpen == stPc \in {"idle", "recv"}

Init ==
  /\ declared \in DBs
  /\ srcAt = Start
  /\ src = "run"
  /\ chan = <<>>
  /\ current = [block |-> Start, classes |-> {}]
  /\ stPc = "idle"
  /\ held = None
  /\ inputs = <<>>
  /\ out = <<>>

SkipEmpty == srcAt' = srcAt + 1 /\ UNCHANGED <<src, chan>>

\* tx.blocking_send(..).context(..)?: it waits for room while the receiver
\* lives and fails, ending the task, once the receiver is dropped.
SendUnbounded(item) ==
  \/ RxOpen /\ chan' = Append(chan, item) /\ srcAt' = srcAt + 1 /\ UNCHANGED src
  \/ ~RxOpen /\ src' = "senderr" /\ UNCHANGED <<srcAt, chan>>
SendBlockingWhenDropped(item) ==
  \/ RxOpen /\ Len(chan) < ChanCap /\ chan' = Append(chan, item)
     /\ srcAt' = srcAt + 1 /\ UNCHANGED src
  \/ ~RxOpen /\ Len(chan) < ChanCap /\ src' = "senderr" /\ UNCHANGED <<srcAt, chan>>
Send(item) ==
  \/ RxOpen /\ Len(chan) < ChanCap /\ chan' = Append(chan, item)
     /\ srcAt' = srcAt + 1 /\ UNCHANGED src
  \/ ~RxOpen /\ src' = "senderr" /\ UNCHANGED <<srcAt, chan>>

SourceStep ==
  /\ src = "run"
  /\ srcAt <= Stop
  /\ \/ declared[srcAt] = NoHeader /\ src' = "noheader" /\ UNCHANGED <<srcAt, chan>>
     \/ declared[srcAt] = {} /\ SkipEmpty
     \/ /\ declared[srcAt] # NoHeader
        /\ declared[srcAt] # {}
        /\ Send([block |-> srcAt, classes |-> declared[srcAt]])
  /\ UNCHANGED <<declared, current, stPc, held, inputs, out>>

\* The loop ends: the task returns Ok and drops the sender.
SourceEnd ==
  /\ src = "run"
  /\ srcAt > Stop
  /\ src' = "done"
  /\ UNCHANGED <<declared, srcAt, chan, current, stPc, held, inputs, out>>

(***************************************************************************)
(* The stage.  Check(c, cur) is the tail of map(): the block comparison    *)
(* and `self.current.classes.remove(&input.hash)`.                         *)
(***************************************************************************)
Check(c, cur) ==
  \/ /\ cur.block = c.block
     /\ c.hash \in cur.classes
     /\ out' = Append(out, Ok(c))
     /\ current' = [cur EXCEPT !.classes = @ \ {c.hash}]
     /\ stPc' = "idle"
  \/ /\ (cur.block # c.block \/ c.hash \notin cur.classes)
     /\ out' = Append(out, Err("UnexpectedClass"))
     /\ current' = cur
     /\ stPc' = "stopped"

\* map(input) is called.  With expected classes left it checks the input at
\* once, otherwise it enters the receive loop.
ClassArrivesAlwaysRecv ==
  /\ stPc = "idle" /\ Len(inputs) < MaxItems
  /\ \E c \in Class : inputs' = Append(inputs, c) /\ held' = c /\ stPc' = "recv"
  /\ UNCHANGED <<declared, srcAt, src, chan, current, out>>
ClassArrives ==
  /\ stPc = "idle"
  /\ Len(inputs) < MaxItems
  /\ \E c \in Class :
       /\ inputs' = Append(inputs, c)
       /\ held' = c
       /\ \/ current.classes # {} /\ Check(c, current)
          \/ current.classes = {} /\ stPc' = "recv" /\ UNCHANGED <<current, out>>
  /\ UNCHANGED <<declared, srcAt, src, chan>>

\* blocking_recv returns an expectation.  The source never sends an empty
\* set, so the loop's `continue` never fires.
Recv ==
  /\ stPc = "recv"
  /\ chan # <<>>
  /\ chan' = Tail(chan)
  /\ Check(held, Head(chan))
  /\ UNCHANGED <<declared, srcAt, src, held, inputs>>

\* blocking_recv returns None once the sender is dropped and the channel is
\* empty: `.context("Receiving expected declarations")?`.
RecvClosed ==
  /\ stPc = "recv"
  /\ chan = <<>>
  /\ src # "run"
  /\ out' = Append(out, Err("ReceiveFailed"))
  /\ stPc' = "stopped"
  /\ UNCHANGED <<declared, srcAt, src, chan, current, held, inputs>>

\* The input stream ends between two map() calls; the stage is dropped.
InputEnds ==
  /\ stPc = "idle"
  /\ stPc' = "finished"
  /\ UNCHANGED <<declared, srcAt, src, chan, current, held, inputs, out>>

\* The stage is dropped; the rest of the pipeline goes on and does not wait
\* for the source thread.
Quiescent ==
  /\ ~RxOpen
  /\ UNCHANGED vars

Next ==
  \/ SourceStep \/ SourceEnd
  \/ ClassArrives \/ Recv \/ RecvClosed \/ InputEnds
  \/ Quiescent

\* Both blocking threads are scheduled while they can run; the input side
\* is the environment and gets no fairness.
Fairness ==
  /\ WF_vars(SourceStep \/ SourceEnd)
  /\ WF_vars(Recv \/ RecvClosed)

Spec == Init /\ [][Next]_vars /\ Fairness

(***************************************************************************)
(* Reference: what a sequence of map() calls over `cls` returns when the   *)
(* expectations `exps` are received one by one, as a recursive function.   *)
(* Unlike MatchFrom, an input with no expectation left is an error.        *)
(***************************************************************************)
RECURSIVE StageFrom(_, _, _, _)
StageFrom(exps, cls, at, cur) ==
  IF cls = <<>> THEN <<>>
  ELSE IF cur = {}
  THEN IF exps = <<>> \/ Head(exps).kind # "Ok" THEN <<Err("ReceiveFailed")>>
       ELSE StageFrom(Tail(exps), cls, Head(exps).block, Head(exps).classes)
  ELSE LET c == Head(cls) IN
       IF c.block # at \/ c.hash \notin cur THEN <<Err("UnexpectedClass")>>
       ELSE <<Ok(c)>> \o StageFrom(exps, Tail(cls), at, cur \ {c.hash})

StageMatched(db, cls) == StageFrom(ExpectedDeclarations(db), cls, Start, {})

TypeOK ==
  /\ declared \in DeclaredTables
  /\ srcAt \in Start..(Stop + 1)
  /\ src \in {"run", "done", "noheader", "senderr"}
  /\ Len(chan) <= ChanCap
  /\ current \in [block: Blocks, classes: SUBSET Hashes]
  /\ stPc \in {"idle", "recv", "stopped", "finished"}
  /\ inputs \in Seq(Class) /\ Len(inputs) <= MaxItems
  /\ Len(out) <= Len(inputs)

\* The two threads, handing expectations over a one-slot channel, return
\* from map() exactly what the sequential reference returns for the same
\* inputs: a prefix while the stage runs, all of it once it is dropped.
MatchesStageReference ==
  LET ref == StageMatched(declared, inputs) IN
  /\ IsPrefix(out, ref)
  /\ ~RxOpen => out = ref

SourceReleased == ~RxOpen ~> src # "run"

\* The spec (4.3, 4.6): a missing header is a fatal error of the
\* expectation stream, and an exhausted expectation stream ends matching
\* normally.  So the error of a closed channel should only ever stand for
\* the missing header.
ReceiveErrorMeansMissingHeader ==
  \A i \in DOMAIN out : out[i] = Err("ReceiveFailed") => src = "noheader"
=============================================================================
