------------------------ MODULE StorageBlockIterator ------------------------
(***************************************************************************)
(* The storage source's read path (src/unnamed/part_000, package execute) *)
(* composed with the transformation that consumes its blocks, the filter  *)
(* transformation's Process (src/functions/filter.go).                    *)
(*                                                                         *)
(* Two goroutines share one readState: the outer loop of                  *)
(* storageBlockIterator.Do, which turns every series frame into a block,  *)
(* hands it to the downstream transformation and waits on the block's     *)
(* done channel; and the transformation, which iterates the block's       *)
(* value iterator (advance) over the point frames that follow the series  *)
(* frame and closes done when it reaches the next series frame or the end *)
(* of the stream.                                                          *)
(*                                                                         *)
(* A frame is identified by its position in the stream; the data inside  *)
(* a frame is abstracted to its kind.                                      *)
(***************************************************************************)
EXTENDS Naturals, Sequences, SequencesExt, FiniteSets

CONSTANTS
  Streams,       \* the streams the service may send: sequences of ReadResponse
                 \* messages, each a nonempty sequence of frame kinds
  PointKinds,    \* the point frame kinds the service sends
  ValueColType,  \* the type of the storage block's value column (ValueCol)
  ExprErrTypes   \* value types for which the filter's compiled expression is
                 \* an error (filterTransformation.ces)

Series == "series"
FrameKinds == {Series} \cup PointKinds

ASSUME /\ Series \notin PointKinds
       /\ ValueColType \in PointKinds
       /\ \A s \in Streams : \A m \in 1..Len(s) : Len(s[m]) > 0

VARIABLES
  stream,    \* the messages of this Read call's stream, fixed in Init
  data,      \* readState: rep = ids of the frames left in the last received
             \* ReadResponse, recv = number of messages received
  rpc,       \* the Do loop: "loop", "wait" (in block.wait()) or "returned"
  blocks,    \* ids of the series frames turned into blocks, in order
  pending,   \* blocks handed to the transformation, not yet processed
  done,      \* blocks whose done channel is closed
  cpc,       \* the transformation: "idle" or "iter" (inside DoTime)
  cur,       \* the block whose value iterator the transformation runs
  consumed,  \* history: <<block, frame>> for every point frame it read
  panicked   \* a typed buffer was read as another type (process crash)

vars == <<stream, data, rpc, blocks, pending, done, cpc, cur, consumed,
          panicked>>

None == 0

-----------------------------------------------------------------------------
(* Frames of the stream, numbered by their position.                       *)

Flat == FlattenSeq(stream)
Kind(f) == Flat[f]
FrameIds == 1..Len(Flat)
PointIds == {f \in FrameIds : Kind(f) # Series}

\* the ids of the frames of the m-th message
MsgIds(m) ==
  LET offset == Len(FlattenSeq(SubSeq(stream, 1, m - 1)))
  IN  [k \in 1..Len(stream[m]) |-> offset + k]

\* the series frame a point frame belongs to: the last one before it
OwnerOf(f) ==
  LET before == {s \in 1..(f - 1) : Kind(s) = Series}
  IN  IF before = {} THEN None ELSE Max(before)

-----------------------------------------------------------------------------
(* readState.more, peek and next.  more receives the next message only   *)
(* when the last one is used up; a receive error and EOF both end the     *)
(* stream.                                                                 *)

HasMore(d) == d.rep # <<>> \/ d.recv < Len(stream)

Filled(d) ==
  IF d.rep # <<>> THEN d
  ELSE [rep |-> MsgIds(d.recv + 1), recv |-> d.recv + 1]

FrontFrame(d) == Head(Filled(d).rep)

Peek(d) == Kind(FrontFrame(d))

Taken(d) == [Filled(d) EXCEPT !.rep = Tail(@)]

-----------------------------------------------------------------------------
(* The outer loop, storageBlockIterator.Do.                                *)

\* more() is false: the loop ends.
DoReturn ==
  /\ rpc = "loop"
  /\ ~HasMore(data)
  /\ rpc' = "returned"
  /\ UNCHANGED <<stream, data, blocks, pending, done, cpc, cur, consumed,
                 panicked>>

\* the front frame is a point frame: `continue` without consuming it.
DoSkip ==
  /\ rpc = "loop"
  /\ HasMore(data)
  /\ Peek(data) # Series
  /\ data' = Filled(data)
  /\ UNCHANGED <<stream, rpc, blocks, pending, done, cpc, cur, consumed,
                 panicked>>

\* a series frame: next(), build the block, f(block) hands it downstream,
\* then block.wait().
DoDeliver ==
  LET b == FrontFrame(data)
  IN  /\ rpc = "loop"
      /\ HasMore(data)
      /\ Peek(data) = Series
      /\ data' = Taken(data)
      /\ blocks' = Append(blocks, b)
      /\ pending' = Append(pending, b)
      /\ rpc' = "wait"
      /\ UNCHANGED <<stream, done, cpc, cur, consumed, panicked>>

\* mutant: the loop goes on without waiting for the block to be read
DoWaitNoBlock ==
  /\ rpc = "wait"
  /\ rpc' = "loop"
  /\ UNCHANGED <<stream, data, blocks, pending, done, cpc, cur, consumed,
                 panicked>>

\* <-b.done returns.
DoWait ==
  /\ rpc = "wait"
  /\ Last(blocks) \in done
  /\ rpc' = "loop"
  /\ UNCHANGED <<stream, data, blocks, pending, done, cpc, cur, consumed,
                 panicked>>

-----------------------------------------------------------------------------
(* The transformation, filterTransformation.Process on a storage block.   *)

\* the compiled expression for the value column's type is an error:
\* Process returns it before touching the block's value iterator.
ProcessExprError ==
  /\ cpc = "idle"
  /\ pending # <<>>
  /\ ValueColType \in ExprErrTypes
  /\ pending' = Tail(pending)
  /\ UNCHANGED <<stream, data, rpc, blocks, done, cpc, cur, consumed,
                 panicked>>

\* b.Times().DoTime(...) starts.
ProcessStart ==
  /\ cpc = "idle"
  /\ pending # <<>>
  /\ ValueColType \notin ExprErrTypes
  /\ cur' = Head(pending)
  /\ pending' = Tail(pending)
  /\ cpc' = "iter"
  /\ UNCHANGED <<stream, data, rpc, blocks, done, consumed, panicked>>

\* advance() reads a point frame into the reusable buffers; the callback
\* evaluates the predicate row by row and copies the passing rows, reading
\* the value buffer through the accessor of the column's declared type
\* (AtFloat/AtInt) when the predicate uses _value or a row passes.
AdvancePoints ==
  LET f == FrontFrame(data)
  IN  /\ cpc = "iter"
      /\ HasMore(data)
      /\ Peek(data) # Series
      /\ data' = Taken(data)
      /\ consumed' = consumed \cup {<<cur, f>>}
      /\ \E readsValue \in BOOLEAN :
            panicked' = (panicked \/ (readsValue /\ Kind(f) # ValueColType))
      /\ UNCHANGED <<stream, rpc, blocks, pending, done, cpc, cur>>

\* mutant: advance() consumes the series frame it stops at
AdvanceAtSeriesTakes ==
  /\ cpc = "iter"
  /\ HasMore(data)
  /\ Peek(data) = Series
  /\ data' = Taken(data)
  /\ done' = done \cup {cur}
  /\ cpc' = "idle"
  /\ UNCHANGED <<stream, rpc, blocks, pending, cur, consumed, panicked>>

\* advance() peeks a series frame: false, DoTime closes done.
AdvanceAtSeries ==
  /\ cpc = "iter"
  /\ HasMore(data)
  /\ Peek(data) = Series
  /\ data' = Filled(data)
  /\ done' = done \cup {cur}
  /\ cpc' = "idle"
  /\ UNCHANGED <<stream, rpc, blocks, pending, cur, consumed, panicked>>

\* more() is false inside advance(): DoTime closes done.
AdvanceAtEnd ==
  /\ cpc = "iter"
  /\ ~HasMore(data)
  /\ done' = done \cup {cur}
  /\ cpc' = "idle"
  /\ UNCHANGED <<stream, data, rpc, blocks, pending, cur, consumed, panicked>>

-----------------------------------------------------------------------------

Init ==
  /\ stream \in Streams
  /\ data = [rep |-> <<>>, recv |-> 0]
  /\ rpc = "loop"
  /\ blocks = <<>>
  /\ pending = <<>>
  /\ done = {}
  /\ cpc = "idle"
  /\ cur = None
  /\ consumed = {}
  /\ panicked = FALSE

Finished == rpc = "returned" /\ cpc = "idle" /\ pending = <<>>

\* the read is over: nothing else happens.
Terminated == Finished /\ UNCHANGED vars

Reader == DoReturn \/ DoSkip \/ DoDeliver \/ DoWait

Transformation ==
  ProcessExprError \/ ProcessStart \/ AdvancePoints \/ AdvanceAtSeries
  \/ AdvanceAtEnd

Next == (~panicked /\ (Reader \/ Transformation)) \/ Terminated

\* Both goroutines are scheduled by the Go runtime: neither stops forever
\* while it can run.
Spec == Init /\ [][Next]_vars /\ WF_vars(~panicked /\ Reader)
                              /\ WF_vars(~panicked /\ Transformation)

-----------------------------------------------------------------------------

(* Every point frame the value iterator of a block reads belongs to that  *)
(* block: it follows the block's series frame with no other series frame  *)
(* in between.  This is what the Do loop's block.wait() and advance()'s   *)
(* stop at the next series frame guarantee together.                      *)
FramesAttributed ==
  \A p \in consumed : OwnerOf(p[2]) = p[1]

(* On a stream that opens with a series frame, as the storage service    *)
(* sends them, every point frame is eventually read by the value iterator *)
(* of the block of the series frame before it, and Do returns: no data of *)
(* the stream is lost or left unread.                                      *)
AllPointsRead ==
  (stream = <<>> \/ Head(Head(stream)) = Series) =>
  <>[](/\ rpc = "returned"
       /\ consumed = {<<OwnerOf(f), f>> : f \in {g \in PointIds : OwnerOf(g) # None}})

(* Do eventually returns: the read of the stream terminates.               *)
DoTerminates == <>(rpc = "returned")

(* No point frame is read through an accessor of another type than the    *)
(* buffer it was decoded into (the type assertion in AtFloat/AtInt).      *)
NoPanic == ~panicked

=============================================================================
