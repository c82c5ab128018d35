--------------------------- MODULE ClassDeclaredAt ---------------------------
(***************************************************************************)
(* The streaming declaration matcher of the class-definition sync:         *)
(*   - expected_declarations_stream, a blocking task reading the declared  *)
(*     classes of start..=stop and sending them on a bounded channel;      *)
(*   - the peer class stream, chunks of classes produced by the P2P side   *)
(*     (environment: any chunking, any hashes, errors, end of stream);     *)
(*   - verify_declared_at, the async task that dechunks the peer stream    *)
(*     with ClassDechunker and checks every class against the expected     *)
(*     declarations, sending results on a bounded channel;                *)
(*   - the downstream consumer, which receives or drops the receiver.      *)
(***************************************************************************)
EXTENDS ClassSyncTypes, SequencesExt

CONSTANTS
  DBs,          \* the tables the node can start from
  MaxItems,     \* bound on the classes and errors the peer stream produces
  MaxChunkLen,  \* bound on the length of one chunk
  ChanCap       \* capacity of the channels created by make_stream

ASSUME DBs \subseteq DeclaredTables
ASSUME MaxItems \in Nat /\ MaxChunkLen \in Nat \ {0} /\ ChanCap \in Nat \ {0}

VARIABLES
  declared,    \* the declared-classes table (fixed during a run)
  \* expected_declarations_stream
  edStart,     \* its `start` cursor
  edChan,      \* items sent and not yet received
  edDone,      \* the blocking closure has returned (sender dropped)
  \* the peer class stream
  peerChan,    \* chunks (or errors) produced and not yet pulled
  peerLog,     \* history: every item produced, flattened
  peerClosed,  \* the stream has ended
  \* verify_declared_at
  pc,          \* "expect" | "loop" | "send" | "done" | "panicked"
  declaredAt,  \* `declared_at` of the current expectation
  current,     \* `declared`: hashes of the current block not yet seen
  dechunker,   \* ClassDechunker's VecDeque
  res,         \* the result about to be sent
  edTaken,     \* history: expectation items the matcher has received
  \* output channel and its consumer
  out,         \* results sent and not yet received
  emitted,     \* history: every result sent
  rxOpen       \* the consumer still holds the receiver

edVars == <<edStart, edChan, edDone>>
peerVars == <<peerChan, peerLog, peerClosed>>
mVars == <<pc, declaredAt, current, dechunker, res, edTaken>>
outVars == <<out, emitted, rxOpen>>
vars == <<declared, edVars, peerVars, mVars, outVars>>

\* The matcher task still owns the expectation receiver and the class stream.
MatcherAlive == pc \notin {"done", "panicked"}

-----------------------------------------------------------------------------
(* expected_declarations_stream *)

\* blocking_send of a non-empty item waits for room while the receiver
\* lives; once it is dropped the send fails at once (result ignored).
SendWaitsNever(isEmpty) == TRUE
SendWaitsWhenDropped(isEmpty) == ~isEmpty => Len(edChan) < ChanCap
SendWaits(isEmpty) == (~isEmpty /\ MatcherAlive) => Len(edChan) < ChanCap

\* One iteration of `while start <= stop`: query the block, send the item
\* unless the set is empty, stop after an error.  blocking_send waits for
\* room while the receiver lives and fails (ignored) once it is dropped.
ExpectedNext ==
  /\ ~edDone
  /\ edStart <= Stop
  /\ LET item == IF declared[edStart] = NoHeader THEN ExpectedErr
                 ELSE Expected(edStart, declared[edStart])
         isEmpty == item.kind = "Ok" /\ item.classes = {}
         deliver == ~isEmpty /\ MatcherAlive
     IN /\ SendWaits(isEmpty)
        /\ edChan' = IF deliver THEN Append(edChan, item) ELSE edChan
        /\ IF item.kind # "Ok"
           THEN edDone' = TRUE /\ UNCHANGED edStart
           ELSE edStart' = edStart + 1 /\ UNCHANGED edDone
  /\ UNCHANGED <<declared, peerVars, mVars, outVars>>

\* The loop condition fails: the closure returns and drops the sender.
ExpectedEnd ==
  /\ ~edDone
  /\ edStart > Stop
  /\ edDone' = TRUE
  /\ UNCHANGED <<declared, edStart, edChan, peerVars, mVars, outVars>>

-----------------------------------------------------------------------------
(* The peer class stream (environment) *)

\* A non-empty chunk of classes of one block, blocks non-decreasing.
PeerChunk ==
  /\ ~peerClosed
  /\ \E b \in Blocks, n \in 1..MaxChunkLen :
       /\ Len(peerLog) + n <= MaxItems
       /\ \A i \in DOMAIN peerLog :
            peerLog[i].kind = "Ok" => peerLog[i].class.block <= b
       /\ \E hs \in [1..n -> Hashes] :
            LET chunk == [i \in 1..n |-> [block |-> b, hash |-> hs[i]]] IN
            /\ peerChan' = Append(peerChan, [kind |-> "Ok", chunk |-> chunk])
            /\ peerLog' = peerLog \o [i \in 1..n |-> Ok(chunk[i])]
  /\ UNCHANGED <<declared, edVars, peerClosed, mVars, outVars>>

\* An upstream stage (layout or hash verification) reports a peer error.
PeerError ==
  /\ ~peerClosed
  /\ Len(peerLog) < MaxItems
  /\ peerChan' = Append(peerChan, [kind |-> "PeerError", chunk |-> <<>>])
  /\ peerLog' = Append(peerLog, Err("PeerError"))
  /\ UNCHANGED <<declared, edVars, peerClosed, mVars, outVars>>

PeerEnd ==
  /\ ~peerClosed
  /\ peerClosed' = TRUE
  /\ UNCHANGED <<declared, edVars, peerChan, peerLog, mVars, outVars>>

-----------------------------------------------------------------------------
(* verify_declared_at *)

\* `if declared.is_empty() { break; }` before every dechunker.next().
ExpectingMoreAlways == TRUE
ExpectingMore == current # {}

\* `while let Some(expected) = expected_declarations.next().await`.  An
\* error item is handed to `tx.send(..)` whose future is never awaited, so
\* nothing is sent; the task returns.
PullExpected ==
  /\ pc = "expect"
  /\ \/ /\ edChan # <<>>
        /\ edChan' = Tail(edChan)
        /\ edTaken' = Append(edTaken, Head(edChan))
        /\ IF Head(edChan).kind = "Ok"
           THEN /\ pc' = "loop"
                /\ declaredAt' = Head(edChan).block
                /\ current' = Head(edChan).classes
           ELSE /\ pc' = "done"
                /\ UNCHANGED <<declaredAt, current>>
     \/ /\ edChan = <<>>
        /\ edDone
        /\ pc' = "done"
        /\ UNCHANGED <<edChan, edTaken, declaredAt, current>>
  /\ UNCHANGED <<declared, edStart, edDone, peerVars, dechunker, res, outVars>>

\* The current set is exhausted: break to the next expectation.
CurrentExhausted ==
  /\ pc = "loop"
  /\ ~ExpectingMore
  /\ pc' = "expect"
  /\ UNCHANGED <<declared, edVars, peerVars, declaredAt, current, dechunker,
                 res, edTaken, outVars>>

\* Faulty variant of Verdict without the block-number comparison.
VerdictIgnoringBlock(c) ==
  IF c.hash \in current THEN Ok(c) ELSE Err("UnexpectedClass")

\* The closure given to `and_then`: the class must be declared at its block.
Verdict(c) ==
  IF declaredAt # c.block THEN Err("UnexpectedClass")
  ELSE IF c.hash \in current THEN Ok(c)
  ELSE Err("UnexpectedClass")

\* Check a class obtained from the dechunker and go on to send the result.
CheckClass(c) ==
  /\ res' = Verdict(c)
  /\ current' = IF res'.kind = "Ok" THEN current \ {c.hash} ELSE current
  /\ pc' = "send"

\* `self.0.extend(chunk)` followed by `pop_front`: the rest stays buffered.
EnqueueDroppingRest(chunk) == UNCHANGED dechunker
Enqueue(chunk) == dechunker' = Tail(chunk)

\* dechunker.next() with a non-empty buffer: pop the front.
NextBuffered ==
  /\ pc = "loop"
  /\ ExpectingMore
  /\ dechunker # <<>>
  /\ dechunker' = Tail(dechunker)
  /\ CheckClass(Head(dechunker))
  /\ UNCHANGED <<declared, edVars, peerVars, declaredAt, edTaken, outVars>>

\* dechunker.next() with an empty buffer: await the next chunk, enqueue it
\* and pop its front, or pass an error item on.
NextChunk ==
  /\ pc = "loop"
  /\ ExpectingMore
  /\ dechunker = <<>>
  /\ peerChan # <<>>
  /\ peerChan' = Tail(peerChan)
  /\ LET item == Head(peerChan) IN
     IF item.kind = "Ok"
     THEN /\ Enqueue(item.chunk)
          /\ CheckClass(Head(item.chunk))
     ELSE /\ res' = Err(item.kind)
          /\ pc' = "send"
          /\ UNCHANGED <<current, dechunker>>
  /\ UNCHANGED <<declared, edVars, peerLog, peerClosed, declaredAt, edTaken,
                 outVars>>

\* dechunker.next() returns None: the class stream has ended; return.
ClassesEnded ==
  /\ pc = "loop"
  /\ ExpectingMore
  /\ dechunker = <<>>
  /\ peerChan = <<>>
  /\ peerClosed
  /\ pc' = "done"
  /\ UNCHANGED <<declared, edVars, peerVars, declaredAt, current, dechunker,
                 res, edTaken, outVars>>

\* `tx.send(res).await.expect("Receiver not to be dropped")`, then
\* short-circuit on error.
SendResult ==
  /\ pc = "send"
  /\ \/ /\ rxOpen
        /\ Len(out) < ChanCap
        /\ out' = Append(out, res)
        /\ emitted' = Append(emitted, res)
        /\ pc' = IF IsErr(res) THEN "done" ELSE "loop"
        /\ UNCHANGED rxOpen
     \/ /\ ~rxOpen
        /\ pc' = "panicked"
        /\ UNCHANGED <<out, emitted, rxOpen>>
  /\ UNCHANGED <<declared, edVars, peerVars, declaredAt, current, dechunker,
                 res, edTaken>>

-----------------------------------------------------------------------------
(* The downstream consumer (environment) *)

Receive ==
  /\ rxOpen
  /\ out # <<>>
  /\ out' = Tail(out)
  /\ UNCHANGED <<declared, edVars, peerVars, mVars, emitted, rxOpen>>

\* The consumer is dropped: the receiver and its buffered items go away.
DropReceiver ==
  /\ rxOpen
  /\ rxOpen' = FALSE
  /\ out' = <<>>
  /\ UNCHANGED <<declared, edVars, peerVars, mVars, emitted>>

-----------------------------------------------------------------------------

Init ==
  /\ declared \in DBs
  /\ edStart = Start
  /\ edChan = <<>>
  /\ edDone = FALSE
  /\ peerChan = <<>>
  /\ peerLog = <<>>
  /\ peerClosed = FALSE
  /\ pc = "expect"
  /\ declaredAt = Start
  /\ current = {}
  /\ dechunker = <<>>
  /\ res = Err("UnexpectedClass")
  /\ edTaken = <<>>
  /\ out = <<>>
  /\ emitted = <<>>
  /\ rxOpen = TRUE

\* The matcher has returned and the class stream has ended; nothing waits
\* for the producer thread any more.
Quiescent ==
  /\ ~MatcherAlive
  /\ peerClosed
  /\ (rxOpen => out = <<>>)
  /\ UNCHANGED vars

Matcher ==
  PullExpected \/ CurrentExhausted \/ NextBuffered \/ NextChunk
    \/ ClassesEnded \/ SendResult

Next ==
  \/ ExpectedNext \/ ExpectedEnd
  \/ PeerChunk \/ PeerError \/ PeerEnd
  \/ Matcher
  \/ Receive \/ DropReceiver
  \/ Quiescent

\* Tokio polls every runnable task, so the producer, the matcher and the
\* consumer's receive loop progress; the peer and the cancellation do not
\* have to.
Fairness ==
  /\ WF_vars(ExpectedNext) /\ WF_vars(ExpectedEnd)
  /\ WF_vars(Matcher)
  /\ WF_vars(Receive)

Spec == Init /\ [][Next]_vars /\ Fairness

-----------------------------------------------------------------------------
(* Properties *)

TypeOK ==
  /\ declared \in DBs
  /\ edStart \in Start..(Stop + 1)
  /\ edChan \in Seq({ExpectedErr} \cup {Expected(b, s) : b \in Blocks, s \in SUBSET Hashes})
  /\ Len(edChan) <= ChanCap
  /\ {edDone, peerClosed, rxOpen} \subseteq BOOLEAN
  /\ peerLog \in Seq({Ok(c) : c \in Class} \cup {Err("PeerError")})
  /\ Len(peerLog) <= MaxItems
  /\ pc \in {"expect", "loop", "send", "done", "panicked"}
  /\ declaredAt \in Blocks
  /\ current \in SUBSET Hashes
  /\ dechunker \in Seq(Class)
  /\ res \in Results
  /\ out \in Seq(Results) /\ Len(out) <= ChanCap
  /\ emitted \in Seq(Results)

OkClasses(s) == {s[i].class : i \in {j \in DOMAIN s : s[j].kind = "Ok"}}

\* Every class the matcher passes downstream is declared, by the trusted
\* table, at the block it claims, and no (block, hash) passes twice: the
\* block-number check and the removal from `declared` in verify_declared_at
\* hold whatever chunking and ordering the peer chooses.
OnlyDeclaredClassesPass ==
  /\ \A c \in OkClasses(emitted) :
       declared[c.block] # NoHeader /\ c.hash \in declared[c.block]
  /\ \A i, j \in DOMAIN emitted :
       (i < j /\ emitted[i].kind = "Ok") => emitted[i] # emitted[j]

\* The chunked matcher implements the unchunked reference: what it has sent
\* is always a prefix of Matched(declared, flattened peer stream), whatever
\* the chunk boundaries and however the tasks interleave (dechunker
\* invariance, ordering and early termination of verify_declared_at).
Abstract == INSTANCE ClassDeclaredAtSpec WITH supplied <- peerLog
ImplementsSpec == Abstract!Spec

\* All classes the table declares in start..=stop.
AllDeclared == {c \in Class : declared[c.block] # NoHeader
                              /\ c.hash \in declared[c.block]}

\* The peer delivered exactly the declared classes, each once, and ended.
HonestDelivery ==
  /\ peerClosed
  /\ \A b \in Blocks : declared[b] # NoHeader
  /\ \A i \in DOMAIN peerLog : peerLog[i].kind = "Ok"
  /\ OkClasses(peerLog) = AllDeclared
  /\ Len(peerLog) = Cardinality(AllDeclared)

\* When the peer delivers every declared class once, in any chunking, the
\* matcher eventually passes all of them downstream (unless the consumer
\* went away): exhausting a block mid-chunk moves on to the next
\* expectation instead of rejecting the rest of the chunk.
Completeness ==
  HonestDelivery ~> (~rxOpen \/ OkClasses(emitted) = AllDeclared)

\* Once the matcher task has returned, the producer thread still runs to
\* its end and releases its read transaction: blocking_send on the dropped
\* channel fails immediately (its result is ignored) instead of waiting for
\* room that no one will make.
ProducerReleased == ~MatcherAlive ~> edDone

\* An error of the expected-declarations stream (missing header, storage
\* failure) reaches the consumer: the matcher never ends silently after
\* receiving one.  (Section 4.3 and 7 of the spec: MissingBlockHeader is
\* fatal; the pipeline never silently drops a class.)
ExpectationErrorSurfaces ==
  (pc = "done" /\ \E i \in DOMAIN edTaken : edTaken[i].kind # "Ok")
    => \E i \in DOMAIN emitted : IsErr(emitted[i])

\* Dropping the receiver of the matcher's output makes the matcher end
\* cleanly (section 5 of the spec), never panic in its send.
CancellationIsClean == pc # "panicked"
=============================================================================
