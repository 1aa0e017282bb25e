------------------------ MODULE ShardPipelineProofs ------------------------
(***************************************************************************)
(* Proofs about ShardPipeline, for every number of batches, capacity of    *)
(* the queue and patience with the sentinel, with or without a deadline.   *)
(***************************************************************************)
EXTENDS ShardPipeline, TLAPS

USE DEF Batches, None

-----------------------------------------------------------------------------
(* Type correctness.                                                       *)

\* What the position of a thread adds to the types to make them inductive: the
\* threads start after the cursor is open, the fetch thread has a batch when it
\* puts one and has not used up its tries while it runs, and the writer has a
\* batch when it writes one.
Positions ==
    /\ main \in {"start", "cursor"} => fetch = "idle" /\ write = "idle"
    /\ fetch = "put" => fetched # 0
    /\ fetch # "done" => tries < SentinelTries
    /\ write = "batch" => held # None

TypeInv == TypeOK /\ Positions

\* The empty place in the object store is a value of object.
LEMMA TypeNoObject == NoObject \in [batches : Seq(Batches), readable : BOOLEAN]
BY DEF NoObject

\* The initial state is well typed.
LEMMA TypeInit == Init => TypeInv
<1> SUFFICES ASSUME Init PROVE TypeInv
  OBVIOUS
<1>1. MainTypeOK    BY TypeNoObject DEF Init, MainTypeOK
<1>2. FetchTypeOK   BY PipelineAssumption DEF Init, FetchTypeOK
<1>3. WriteTypeOK   BY DEF Init, WriteTypeOK
<1>4. SharedTypeOK  BY PipelineAssumption DEF Init, SharedTypeOK
<1>5. FlagTypeOK    BY DEF Init, FlagTypeOK
<1>6. Positions     BY PipelineAssumption DEF Init, Positions
<1> QED  BY <1>1, <1>2, <1>3, <1>4, <1>5, <1>6 DEF TypeInv, TypeOK

\* No step of the main thread disturbs the types.
LEMMA TypeMain == TypeInv /\ Main => TypeInv'
<1> SUFFICES ASSUME TypeInv, Main PROVE TypeInv'
  OBVIOUS
<1> USE DEF TypeInv, TypeOK
<1>1. MainTypeOK'
  <2>1. object' \in [batches : Seq(Batches), readable : BOOLEAN]
    <3>1. Uploaded \in [batches : Seq(Batches), readable : BOOLEAN]
      BY DEF Uploaded, WriteTypeOK
    <3>2. object' \in {object, NoObject, Uploaded}
      BY DEF Main, OpenConnection, OpenCursor, JoinThreads, CheckErrors, CheckCancel,
             Finalize, Upload, Cleanup
    <3> QED  BY <3>1, <3>2, TypeNoObject, Zenon DEF MainTypeOK
  <2>2. /\ main' \in {main, "cursor", "join", "joined", "checked", "finalize", "upload",
                      "cleanup", "done"}
        /\ conn' \in {conn, "open", "guarded", "closed"}
        /\ outcome' \in {outcome, "uploaded", "empty", "cancelled", "raised"}
    BY DEF Main, OpenConnection, OpenCursor, JoinThreads, CheckErrors, CheckCancel,
           Finalize, Upload, Cleanup, Raise
  <2> QED  BY <2>1, <2>2 DEF MainTypeOK
<1>2. FetchTypeOK' /\ Positions'
  <2>1. /\ UNCHANGED <<tries, fetched, kept, sent, held>>
        /\ fetch' \in {fetch, "execute"} /\ write' \in {write, "get"}
        /\ fetch = "done" => fetch' = "done"
        /\ main' \in {"start", "cursor"} => fetch' = fetch /\ write' = write /\ main = "start"
    BY DEF Main, OpenConnection, OpenCursor, JoinThreads, CheckErrors, CheckCancel,
           Finalize, Upload, Cleanup, Raise, fetchVars, writeVars, Positions
  <2> QED  BY <2>1 DEF FetchTypeOK, Positions
<1>3. WriteTypeOK'
  <2>1. UNCHANGED <<held, written, file>> /\ write' \in {write, "get"}
    BY DEF Main, OpenConnection, OpenCursor, JoinThreads, CheckErrors, CheckCancel,
           Finalize, Upload, Cleanup, writeVars
  <2> QED  BY <2>1 DEF WriteTypeOK
<1>4. SharedTypeOK'
  <2>1. /\ UNCHANGED <<queue, errors>>
        /\ timer' \in {timer, "cancelled"} /\ heartbeat' \in {heartbeat, "running"}
    BY DEF Main, OpenConnection, OpenCursor, JoinThreads, CheckErrors, CheckCancel,
           Finalize, Upload, Cleanup, ctlVars
  <2> QED  BY <2>1 DEF SharedTypeOK
<1>5. FlagTypeOK'
  <2>1. /\ UNCHANGED <<cancel, eof>>
        /\ stop' \in {stop, TRUE} /\ (tmp' = tmp \/ tmp' \in BOOLEAN)
    BY DEF Main, OpenConnection, OpenCursor, JoinThreads, CheckErrors, CheckCancel,
           Finalize, Upload, Cleanup, ctlVars, fetchVars
  <2> QED  BY <2>1, Zenon DEF FlagTypeOK
<1> QED  BY <1>1, <1>2, <1>3, <1>4, <1>5

\* No step of the fetch thread disturbs the types.
LEMMA TypeFetch == TypeInv /\ Fetch => TypeInv'
<1> SUFFICES ASSUME TypeInv, Fetch PROVE TypeInv'
  OBVIOUS
<1> USE DEF TypeInv, TypeOK, FetchFrame
<1>1. MainTypeOK' /\ WriteTypeOK'
  <2>1. UNCHANGED <<main, conn, object, outcome, write, held, written, file>>
    BY DEF Fetch, FetchExecute, FetchCheck, FetchBatch, FetchEnd, FetchRaise, FetchPut,
           FetchPutFull, FetchDrain, SentinelPut, SentinelSkip, SentinelFull, mainVars, writeVars
  <2> QED  BY <2>1 DEF MainTypeOK, WriteTypeOK
<1>2. FetchTypeOK' /\ Positions'
  <2>1. UNCHANGED <<main, write, held>>
    BY DEF Fetch, FetchExecute, FetchCheck, FetchBatch, FetchEnd, FetchRaise, FetchPut,
           FetchPutFull, FetchDrain, SentinelPut, SentinelSkip, SentinelFull, mainVars, writeVars
  <2>2. CASE FetchBatch
    <3>1. fetched' \in Batches
      BY <2>2, PipelineAssumption DEF FetchBatch, FetchTypeOK
    <3>2. kept' = kept \/ kept' = Append(kept, fetched')
      BY <2>2, Zenon DEF FetchBatch
    <3>3. kept' \in Seq(Batches)
      <4>1. kept \in Seq(Batches)
        BY DEF FetchTypeOK
      <4>2. Append(kept, fetched') \in Seq(Batches)
        BY <3>1, <4>1
      <4> QED  BY <3>2, <4>1, <4>2, Zenon
    <3>4. fetch' \in {"put", "check"} /\ fetch = "fetch" /\ UNCHANGED <<tries, sent>>
      BY <2>2 DEF FetchBatch
    <3> QED  BY <2>1, <3>1, <3>3, <3>4, PipelineAssumption DEF FetchTypeOK, Positions
  <2>3. CASE FetchPut      BY <2>1, <2>3 DEF FetchPut, FetchTypeOK, Positions
  <2>4. CASE SentinelFull  BY <2>1, <2>4, PipelineAssumption DEF SentinelFull, FetchTypeOK, Positions
  <2>5. CASE ~(FetchBatch \/ FetchPut \/ SentinelFull)
    <3>1. /\ UNCHANGED <<tries, fetched, kept, sent>> /\ fetch # "idle" /\ fetch # "done"
          /\ fetch' \in {"check", "fetch", "sentinel", "drain", "done"}
      BY <2>5 DEF Fetch, FetchExecute, FetchCheck, FetchEnd, FetchRaise, FetchPutFull,
                  FetchDrain, SentinelPut, SentinelSkip
    <3> QED  BY <2>1, <3>1 DEF FetchTypeOK, Positions
  <2> QED  BY <2>2, <2>3, <2>4, <2>5
<1>3. SharedTypeOK'
  <2>1. /\ UNCHANGED <<timer, heartbeat>> /\ errors' \in {errors, errors \cup {"fetch"}}
        /\ queue' = queue \/ (queue # <<>> /\ queue' = Tail(queue))
           \/ (Len(queue) < QueueCap /\ queue' = Append(queue, None))
           \/ (Len(queue) < QueueCap /\ fetch = "put" /\ queue' = Append(queue, fetched))
    BY DEF Fetch, FetchExecute, FetchCheck, FetchBatch, FetchEnd, FetchRaise, FetchPut,
           FetchPutFull, FetchDrain, SentinelPut, SentinelSkip, SentinelFull
  <2>2. fetch = "put" => fetched \in Batches
    BY PipelineAssumption DEF FetchTypeOK, Positions
  <2>3. queue' \in Seq(Batches \cup {None}) /\ Len(queue') <= QueueCap
    <3> DEFINE Items == Batches \cup {None}
    <3>1. queue \in Seq(Items) /\ Len(queue) \in Nat /\ Len(queue) <= QueueCap /\ QueueCap \in Nat
      BY PipelineAssumption DEF SharedTypeOK
    <3>2. None \in Items /\ (fetch = "put" => fetched \in Items)
      BY <2>2
    <3> HIDE DEF Items
    <3>3. CASE queue' = queue
      BY <3>1, <3>3 DEF Items
    <3>4. CASE queue # <<>> /\ queue' = Tail(queue)
      <4>1. queue' \in Seq(Items) /\ Len(queue') = Len(queue) - 1
        BY <3>1, <3>4
      <4> QED  BY <3>1, <4>1 DEF Items
    <3>5. ASSUME NEW e \in Items, Len(queue) < QueueCap, queue' = Append(queue, e)
          PROVE  queue' \in Seq(Items) /\ Len(queue') <= QueueCap
      <4>1. queue' \in Seq(Items) /\ Len(queue') = Len(queue) + 1
        BY <3>1, <3>5
      <4> QED  BY <3>1, <3>5, <4>1
    <3> QED  BY <2>1, <3>2, <3>3, <3>4, <3>5 DEF Items
  <2> QED  BY <2>1, <2>3 DEF SharedTypeOK
<1>4. FlagTypeOK'
  <2>1. UNCHANGED <<cancel, tmp>> /\ stop' \in {stop, TRUE} /\ eof' \in {eof, TRUE}
    BY DEF Fetch, FetchExecute, FetchCheck, FetchBatch, FetchEnd, FetchRaise, FetchPut,
           FetchPutFull, FetchDrain, SentinelPut, SentinelSkip, SentinelFull, mainVars
  <2> QED  BY <2>1, Zenon DEF FlagTypeOK
<1> QED  BY <1>1, <1>2, <1>3, <1>4

\* No step of the write thread disturbs the types.
LEMMA TypeWrite == TypeInv /\ Write => TypeInv'
<1> SUFFICES ASSUME TypeInv, Write PROVE TypeInv'
  OBVIOUS
<1> USE DEF TypeInv, TypeOK, WriteFrame
<1>1. MainTypeOK' /\ FetchTypeOK'
  <2>1. UNCHANGED <<main, conn, object, outcome, fetch, tries, fetched, kept, sent>>
    BY DEF Write, WriteGet, WriteEmpty, WriteIdle, WriteBatch, WriteRaise, WriteClose,
           mainVars, fetchVars
  <2> QED  BY <2>1 DEF MainTypeOK, FetchTypeOK
<1>2. WriteTypeOK' /\ Positions' /\ SharedTypeOK'
  <2>1. UNCHANGED <<main, fetch, tries, fetched, timer, heartbeat>> /\ main \notin {"start", "cursor"}
    BY DEF Write, WriteGet, WriteEmpty, WriteIdle, WriteBatch, WriteRaise, WriteClose,
           mainVars, fetchVars, Positions
  <2>2. CASE WriteGet
    <3>1. /\ Head(queue) \in Batches \cup {None}
          /\ Tail(queue) \in Seq(Batches \cup {None}) /\ Len(Tail(queue)) <= QueueCap
      BY <2>2, PipelineAssumption DEF WriteGet, SharedTypeOK
    <3> QED  BY <2>1, <2>2, <3>1 DEF WriteGet, WriteTypeOK, SharedTypeOK, Positions
  <2>3. CASE WriteBatch  BY <2>1, <2>3 DEF WriteBatch, WriteTypeOK, SharedTypeOK, Positions
  <2>4. CASE ~(WriteGet \/ WriteBatch)
    <3>1. /\ UNCHANGED <<queue, written>> /\ held' \in {held, None}
          /\ write' \in {"get", "empty", "close", "done"}
          /\ file' \in {file, "absent", "open", "closed", "broken"}
          /\ errors' \in {errors, errors \cup {"write"}}
      BY <2>4 DEF Write, WriteEmpty, WriteIdle, WriteRaise, WriteClose
    <3> QED  BY <2>1, <3>1 DEF WriteTypeOK, SharedTypeOK, Positions
  <2> QED  BY <2>2, <2>3, <2>4
<1>3. FlagTypeOK'
  <2>1. UNCHANGED <<cancel, tmp, eof>> /\ stop' \in {stop, TRUE}
    BY DEF Write, WriteGet, WriteEmpty, WriteIdle, WriteBatch, WriteRaise, WriteClose,
           mainVars, fetchVars
  <2> QED  BY <2>1, Zenon DEF FlagTypeOK
<1> QED  BY <1>1, <1>2, <1>3

\* Nor do the heartbeat, the watchdog, the operator and a stuttering step.
LEMMA TypeOthers ==
    TypeInv /\ (HeartbeatExit \/ Watchdog \/ Cancel \/ UNCHANGED vars) => TypeInv'
<1> SUFFICES ASSUME TypeInv, HeartbeatExit \/ Watchdog \/ Cancel \/ UNCHANGED vars
             PROVE  TypeInv'
  OBVIOUS
<1>1. /\ UNCHANGED <<mainVars, fetchVars, writeVars, queue>>
      /\ heartbeat' \in {heartbeat, "done"} /\ timer' \in {timer, "expired", "fired"}
      /\ errors' \in {errors, errors \cup {"timeout"}}
  BY DEF HeartbeatExit, Watchdog, TimerExpire, TimerStop, Cancel, vars, ctlVars
<1>2. FlagTypeOK'
  <2>1. UNCHANGED <<eof, tmp>> /\ stop' \in {stop, TRUE} /\ cancel' \in {cancel, TRUE}
    BY DEF HeartbeatExit, Watchdog, TimerExpire, TimerStop, Cancel, vars, ctlVars,
           mainVars, fetchVars
  <2> QED  BY <2>1, Zenon DEF FlagTypeOK, TypeInv, TypeOK
<1>3. MainTypeOK' /\ FetchTypeOK' /\ WriteTypeOK' /\ Positions'
  BY <1>1 DEF TypeInv, TypeOK, MainTypeOK, FetchTypeOK, WriteTypeOK, Positions,
              mainVars, fetchVars, writeVars
<1>4. SharedTypeOK'
  BY <1>1 DEF TypeInv, TypeOK, SharedTypeOK
<1> QED  BY <1>2, <1>3, <1>4 DEF TypeInv, TypeOK

\* Every step keeps the types, and the positions of the two threads in the data.
LEMMA TypeStep == TypeInv /\ [Next]_vars => TypeInv'
BY TypeMain, TypeFetch, TypeWrite, TypeOthers DEF Next, Terminated

\* Every reachable state is well typed, and the queue never holds more than its
\* capacity.
THEOREM TypeCorrect == Spec => []TypeOK
<1>1. TypeInv => TypeOK
  BY DEF TypeInv
<1> QED  BY TypeInit, TypeStep, <1>1, PTL DEF Spec

-----------------------------------------------------------------------------
(* The inductive invariant.                                                *)

\* Who may be where: the threads run only while the main thread waits for them,
\* with the connection and the directory at hand, and they have ended when it
\* decides about the upload.
Control ==
    /\ (fetch \notin {"idle", "done"} \/ write \notin {"idle", "done"}) => main = "join"
    /\ main \in {"joined", "checked", "finalize", "upload"} => fetch = "done" /\ write = "done"
    /\ main = "cursor" => tmp
    /\ main = "join" => conn = "guarded" /\ tmp
    /\ main = "done" => ~tmp /\ conn # "guarded"

\* Before the join, whoever has set _stop has recorded an error first.
StopHasCause ==
    /\ stop /\ main \in {"start", "cursor", "join"} => errors # {}
    /\ timer \in {"expired", "fired"} \/ fetch = "drain" => errors # {}

\* Nothing has disturbed the stream of batches.
Quiet == errors = {} /\ ~cancel

\* Batches the writer has taken from the queue, and sentinels in the queue.
Taken == Len(written) + (IF write = "batch" THEN 1 ELSE 0)
Marker == IF queue # <<>> /\ queue[Len(queue)] = None THEN 1 ELSE 0

\* The undisturbed stream: the file, the batch in the writer's hand and the
\* queue hold, in this order, exactly what the fetch thread has put; only the
\* sentinel, the last thing in the queue, ends the writer.
FlowEnds ==
    /\ fetch \in {"sentinel", "done"} => eof
    /\ write \in {"close", "done"} => fetch = "done" /\ queue = <<>>

FlowCount == Len(sent) = Taken + Len(queue) - Marker

FlowWritten == \A i \in 1..Len(written) : written[i] = sent[i]

FlowHeld == write = "batch" => held = sent[Taken]

FlowQueue == \A i \in 1..Len(queue) : queue[i] # None => queue[i] = sent[Taken + i]

FlowMarker == \A i \in 1..Len(queue) : queue[i] = None => i = Len(queue) /\ fetch = "done"

\* There is a file once there is a batch in it, and a batch that was dropped
\* from a full queue is never the first.
FlowFile == file = "absent" <=> written = <<>>

FlowKept == sent = <<>> /\ fetch # "put" => kept = <<>>

Flow == /\ FlowEnds /\ FlowCount /\ FlowWritten /\ FlowHeld
        /\ FlowQueue /\ FlowMarker /\ FlowFile /\ FlowKept

\* The local file is the whole result, and absent only if that is empty.
Whole ==
    /\ eof /\ written = sent
    /\ file = "absent" <=> written = <<>>
    /\ sent = <<>> => kept = <<>>

\* The fetch or the write thread has recorded a failure.
ThreadFailed == errors \cap {"fetch", "write"} # {}

\* What the checks of the main thread have established, and the object and the
\* answer have kept, although a deadline or a cancel may come after them.
Checked ==
    /\ main = "checked" => ~ThreadFailed /\ (cancel \/ Whole)
    /\ main \in {"finalize", "upload"} => Whole
    /\ main = "upload" => file # "absent" /\ (ValidateParquet => file = "closed")

Undecided == main \notin {"cleanup", "done"} => outcome = "none" /\ object = NoObject

StoredWhole ==
    object # NoObject =>
        /\ fetch = "done" /\ write = "done" /\ Whole /\ object.batches = written
        /\ ValidateParquet => object.readable

EmptyAnswer ==
    outcome = "empty" => fetch = "done" /\ write = "done" /\ eof /\ kept = <<>>

Decided == Checked /\ Undecided /\ StoredWhole /\ EmptyAnswer

Inv == TypeInv /\ Control /\ StopHasCause /\ (Quiet => Flow) /\ Decided

-----------------------------------------------------------------------------
(* Who may be where, and why a stop is seen.                               *)

\* Every step keeps what the control states of the threads say of each other.
LEMMA ControlStep == TypeInv /\ Control /\ [Next]_vars => Control'
<1> SUFFICES ASSUME TypeInv, Control, [Next]_vars PROVE Control'
  OBVIOUS
<1>1. CASE Main
  <2>1. UNCHANGED <<fetch, write>> \/ OpenCursor
    BY <1>1 DEF Main, OpenConnection, JoinThreads, CheckErrors, CheckCancel, Finalize,
                Upload, Cleanup, fetchVars, writeVars
  <2>2. CASE OpenConnection  BY <2>2 DEF OpenConnection, Raise, Control, TypeInv, Positions,
                                         fetchVars, writeVars
  <2>3. CASE OpenCursor      BY <2>3 DEF OpenCursor, Raise, Control, TypeInv, Positions
  <2>4. CASE JoinThreads     BY <2>4 DEF JoinThreads, Control, fetchVars, writeVars
  <2>5. CASE CheckErrors     BY <2>5 DEF CheckErrors, Raise, Control, fetchVars, writeVars
  <2>6. CASE CheckCancel     BY <2>6 DEF CheckCancel, Control, fetchVars, writeVars
  <2>7. CASE Finalize        BY <2>7 DEF Finalize, Raise, Control, fetchVars, writeVars
  <2>8. CASE Upload          BY <2>8 DEF Upload, Raise, Control, fetchVars, writeVars
  <2>9. CASE Cleanup         BY <2>9 DEF Cleanup, Control, fetchVars, writeVars
  <2> QED  BY <1>1, <2>2, <2>3, <2>4, <2>5, <2>6, <2>7, <2>8, <2>9 DEF Main
<1>2. CASE Fetch
  <2>1. UNCHANGED mainVars /\ UNCHANGED write /\ fetch \notin {"idle", "done"}
    BY <1>2 DEF Fetch, FetchExecute, FetchCheck, FetchBatch, FetchEnd, FetchRaise, FetchPut,
                FetchPutFull, FetchDrain, SentinelPut, SentinelSkip, SentinelFull,
                FetchFrame, writeVars
  <2> QED  BY <2>1 DEF Control, mainVars
<1>3. CASE Write
  <2>1. UNCHANGED mainVars /\ UNCHANGED fetch /\ write \notin {"idle", "done"}
    BY <1>3 DEF Write, WriteGet, WriteEmpty, WriteIdle, WriteBatch, WriteRaise, WriteClose,
                WriteFrame, fetchVars
  <2> QED  BY <2>1 DEF Control, mainVars
<1>4. CASE HeartbeatExit \/ Watchdog \/ Cancel \/ UNCHANGED vars
  <2>1. UNCHANGED <<mainVars, fetch, write>>
    BY <1>4 DEF HeartbeatExit, Watchdog, TimerExpire, TimerStop, Cancel, vars, fetchVars, writeVars
  <2> QED  BY <2>1 DEF Control, mainVars
<1> QED  BY <1>1, <1>2, <1>3, <1>4 DEF Next, Terminated

\* Every step keeps that a stop before the join has an error on record.
LEMMA StopHasCauseStep ==
    TypeInv /\ Control /\ StopHasCause /\ [Next]_vars => StopHasCause'
<1> SUFFICES ASSUME TypeInv, Control, StopHasCause, [Next]_vars PROVE StopHasCause'
  OBVIOUS
<1>1. errors \subseteq errors'
  BY DEF Next, Main, OpenConnection, OpenCursor, JoinThreads, CheckErrors, CheckCancel, Finalize,
         Upload, Cleanup, Fetch, FetchExecute, FetchCheck, FetchBatch, FetchEnd, FetchRaise,
         FetchPut, FetchPutFull, FetchDrain, SentinelPut, SentinelSkip, SentinelFull, Write,
         WriteGet, WriteEmpty, WriteIdle, WriteBatch, WriteRaise, WriteClose, HeartbeatExit,
         Watchdog, TimerExpire, TimerStop, Cancel, Terminated, vars, ctlVars
<1>2. CASE Main
  <2>1. /\ timer' \in {timer, "cancelled"} /\ fetch' \in {fetch, "execute"}
        /\ main' \in {"start", "cursor", "join"} => main \in {"start", "cursor"}
        /\ main' \in {"start", "cursor", "join"} => stop' = stop
    BY <1>2 DEF Main, OpenConnection, OpenCursor, JoinThreads, CheckErrors, CheckCancel, Finalize,
                Upload, Cleanup, Raise, fetchVars, ctlVars
  <2> QED  BY <1>1, <2>1 DEF StopHasCause
<1>3. CASE Fetch
  <2>1. UNCHANGED <<main, timer>>
    BY <1>3 DEF Fetch, FetchExecute, FetchCheck, FetchBatch, FetchEnd, FetchRaise, FetchPut,
                FetchPutFull, FetchDrain, SentinelPut, SentinelSkip, SentinelFull,
                FetchFrame, mainVars
  <2>2. FetchRaise \/ (UNCHANGED stop /\ (fetch' = "drain" => fetch = "drain"))
    BY <1>3 DEF Fetch, FetchExecute, FetchCheck, FetchBatch, FetchEnd, FetchPut,
                FetchPutFull, FetchDrain, SentinelPut, SentinelSkip, SentinelFull
  <2>3. FetchRaise => errors' # {}
    BY DEF FetchRaise
  <2> QED  BY <1>1, <2>1, <2>2, <2>3 DEF StopHasCause
<1>4. CASE Write
  <2>1. UNCHANGED <<main, timer, fetch>>
    BY <1>4 DEF Write, WriteGet, WriteEmpty, WriteIdle, WriteBatch, WriteRaise, WriteClose,
                WriteFrame, mainVars, fetchVars
  <2>2. UNCHANGED stop \/ errors' # {}
    BY <1>4 DEF Write, WriteGet, WriteEmpty, WriteIdle, WriteBatch, WriteRaise, WriteClose
  <2> QED  BY <1>1, <2>1, <2>2 DEF StopHasCause
<1>5. CASE Watchdog
  <2>1. UNCHANGED <<main, fetch>>
    BY <1>5 DEF Watchdog, TimerExpire, TimerStop, mainVars, fetchVars
  <2>2. errors' # {}
    BY <1>1, <1>5 DEF Watchdog, TimerExpire, TimerStop, StopHasCause
  <2> QED  BY <2>1, <2>2 DEF StopHasCause
<1>6. CASE HeartbeatExit \/ Cancel \/ UNCHANGED vars
  <2>1. UNCHANGED <<main, fetch, stop, timer>>
    BY <1>6 DEF HeartbeatExit, Cancel, vars, mainVars, fetchVars, ctlVars
  <2> QED  BY <1>1, <2>1 DEF StopHasCause
<1> QED  BY <1>2, <1>3, <1>4, <1>5, <1>6 DEF Next, Terminated

-----------------------------------------------------------------------------
(* The stream.                                                             *)

\* Errors and the cancel are never taken back.
LEMMA QuietBefore == [Next]_vars /\ Quiet' => Quiet
BY DEF Next, Main, OpenConnection, OpenCursor, JoinThreads, CheckErrors, CheckCancel, Finalize,
       Upload, Cleanup, Fetch, FetchExecute, FetchCheck, FetchBatch, FetchEnd, FetchRaise,
       FetchPut, FetchPutFull, FetchDrain, SentinelPut, SentinelSkip, SentinelFull, FetchFrame,
       Write, WriteGet, WriteEmpty, WriteIdle, WriteBatch, WriteRaise, WriteClose, WriteFrame,
       HeartbeatExit, Watchdog, TimerExpire, TimerStop, Cancel, Terminated, vars, ctlVars, Quiet

\* While nothing is disturbed and a thread runs, nobody sees a stop.
LEMMA QuietNoStop ==
    ASSUME Control, StopHasCause, Quiet,
           fetch \notin {"idle", "done"} \/ write \notin {"idle", "done"}
    PROVE  ~ShouldStop
BY DEF Control, StopHasCause, Quiet, ShouldStop

\* The sequences of the stream, as the proofs below need them.
LEMMA Sequences ==
    ASSUME TypeInv
    PROVE  /\ queue \in Seq(Batches \cup {None}) /\ sent \in Seq(Batches)
           /\ written \in Seq(Batches) /\ held \in Batches \cup {None}
           /\ Len(queue) \in Nat /\ Len(sent) \in Nat /\ Len(written) \in Nat
           /\ Taken \in Nat /\ Taken \in {Len(written), Len(written) + 1}
BY DEF TypeInv, TypeOK, SharedTypeOK, FetchTypeOK, WriteTypeOK, Taken

\* The fetch thread keeps the order of the stream and puts the sentinel last.
LEMMA FlowFetch ==
    ASSUME TypeInv, Control, StopHasCause, Quiet, Flow, Fetch, Quiet'
    PROVE  Flow'
<1>1. ~ShouldStop
  BY QuietNoStop DEF Fetch, FetchExecute, FetchCheck, FetchBatch, FetchEnd, FetchRaise, FetchPut,
         FetchPutFull, FetchDrain, SentinelPut, SentinelSkip, SentinelFull
<1>2. /\ fetch \notin {"idle", "done"} /\ UNCHANGED <<write, held, written, file>>
      /\ Taken' = Taken
  BY DEF Fetch, FetchExecute, FetchCheck, FetchBatch, FetchEnd, FetchRaise, FetchPut,
         FetchPutFull, FetchDrain, SentinelPut, SentinelSkip, SentinelFull, FetchFrame, writeVars,
         Taken
<1>3. write \notin {"close", "done"} /\ \A i \in 1..Len(queue) : queue[i] # None
  BY <1>2 DEF Flow, FlowEnds, FlowMarker
<1>4. Marker = 0 /\ Len(sent) = Taken + Len(queue)
  BY <1>3, Sequences DEF Flow, FlowCount, Marker
<1>5. CASE FetchPut
  <2>1. /\ queue' = Append(queue, fetched) /\ sent' = Append(sent, fetched)
        /\ fetch' = "check" /\ fetched \in Batches
    BY <1>5, PipelineAssumption DEF FetchPut, TypeInv, Positions, TypeOK, FetchTypeOK
  <2>2. /\ Len(queue') = Len(queue) + 1 /\ queue'[Len(queue')] = fetched
        /\ \A i \in 1..Len(queue) : queue'[i] = queue[i]
        /\ Len(sent') = Len(sent) + 1 /\ sent'[Len(sent')] = fetched
        /\ \A i \in 1..Len(sent) : sent'[i] = sent[i]
    BY <2>1, Sequences
  <2>3. FlowEnds'
    BY <1>2, <1>3, <2>1 DEF FlowEnds
  <2>4. \A i \in 1..Len(queue') : queue'[i] # None
    BY <1>3, <2>1, <2>2, Sequences
  <2>5. FlowMarker' /\ Marker' = 0
    BY <2>4, <2>2, Sequences DEF FlowMarker, Marker
  <2>6. FlowCount'
    BY <1>2, <1>4, <2>2, <2>5, Sequences DEF FlowCount
  <2>7. FlowWritten' /\ FlowHeld'
    <3>1. 1..Len(written) \subseteq 1..Len(sent)
      BY <1>4, Sequences
    <3>2. FlowWritten'
      BY <1>2, <2>2, <3>1 DEF Flow, FlowWritten
    <3>3. write = "batch" => Taken \in 1..Len(sent)
      BY <1>4, Sequences DEF Taken
    <3> QED  BY <1>2, <2>2, <3>2, <3>3 DEF Flow, FlowHeld
  <2>8. FlowQueue'
    <3> SUFFICES ASSUME NEW i \in 1..Len(queue') PROVE queue'[i] = sent'[Taken + i]
      BY <1>2 DEF FlowQueue
    <3>1. CASE i \in 1..Len(queue)
      <4>1. queue[i] = sent[Taken + i]
        BY <1>3, <3>1 DEF Flow, FlowQueue
      <4>2. Taken + i \in 1..Len(sent)
        BY <1>4, <3>1, Sequences
      <4> QED  BY <2>2, <3>1, <4>1, <4>2
    <3>2. CASE i = Len(queue')
      BY <1>4, <2>2, <3>2, Sequences
    <3> QED  BY <2>2, <3>1, <3>2, Sequences
  <2>9. FlowFile' /\ FlowKept'
    BY <1>2, <2>2, Sequences DEF Flow, FlowFile, FlowKept
  <2> QED  BY <2>3, <2>5, <2>6, <2>7, <2>8, <2>9 DEF Flow
<1>6. CASE SentinelPut
  <2>1. /\ queue' = Append(queue, None) /\ fetch' = "done" /\ fetch = "sentinel"
        /\ UNCHANGED <<sent, kept, eof>>
    BY <1>6 DEF SentinelPut
  <2>2. /\ Len(queue') = Len(queue) + 1 /\ queue'[Len(queue')] = None
        /\ \A i \in 1..Len(queue) : queue'[i] = queue[i]
    BY <2>1, Sequences
  <2>3. FlowEnds'
    BY <1>2, <1>3, <2>1 DEF Flow, FlowEnds
  <2>4. queue' # <<>>
    BY <2>2, Sequences
  <2>5. FlowMarker' /\ Marker' = 1
    BY <1>3, <2>1, <2>2, <2>4, Sequences DEF FlowMarker, Marker
  <2>6. FlowCount'
    BY <1>2, <1>4, <2>1, <2>2, <2>5, Sequences DEF FlowCount
  <2>7. FlowWritten' /\ FlowHeld'
    BY <1>2, <2>1 DEF Flow, FlowWritten, FlowHeld
  <2>8. FlowQueue'
    BY <1>2, <2>1, <2>2, Sequences DEF Flow, FlowQueue
  <2>9. FlowFile' /\ FlowKept'
    BY <1>2, <2>1 DEF Flow, FlowFile, FlowKept
  <2> QED  BY <2>3, <2>5, <2>6, <2>7, <2>8, <2>9 DEF Flow
<1>7. CASE ~(FetchPut \/ SentinelPut)
  <2>1. UNCHANGED <<queue, sent>>
    BY <1>1, <1>7 DEF Fetch, FetchExecute, FetchCheck, FetchBatch, FetchEnd, FetchRaise,
           FetchPutFull, FetchDrain, SentinelSkip, SentinelFull, StopHasCause, Quiet
  <2>2. fetch' \in {"sentinel", "done"} => eof'
    BY <1>1, <1>7 DEF Fetch, FetchExecute, FetchCheck, FetchBatch, FetchEnd, FetchRaise,
           FetchPutFull, FetchDrain, SentinelSkip, SentinelFull, StopHasCause, Quiet, Flow, FlowEnds
  <2>3. FlowEnds'
    BY <1>2, <1>3, <2>2 DEF FlowEnds
  <2>4. FlowMarker' /\ FlowCount' /\ FlowQueue'
    BY <1>2, <1>3, <2>1 DEF Flow, FlowMarker, FlowCount, FlowQueue, Marker
  <2>5. FlowWritten' /\ FlowHeld'
    BY <1>2, <2>1 DEF Flow, FlowWritten, FlowHeld
  <2>6. FlowFile'
    BY <1>2 DEF Flow, FlowFile
  <2>7. FlowKept'
    <3>1. CASE FetchPutFull
      <4>1. Len(queue) \in Nat \ {0} /\ UNCHANGED kept
        BY <3>1, PipelineAssumption DEF FetchPutFull
      <4>2. sent # <<>>
        BY <1>4, <4>1, Sequences
      <4> QED  BY <2>1, <4>2 DEF FlowKept
    <3>2. CASE ~FetchPutFull
      <4>1. fetch # "put" /\ (fetch' = "put" \/ UNCHANGED kept)
        BY <1>7, <3>2 DEF Fetch, FetchExecute, FetchCheck, FetchBatch, FetchEnd, FetchRaise,
               FetchDrain, SentinelSkip, SentinelFull
      <4> QED  BY <2>1, <4>1 DEF Flow, FlowKept
    <3> QED  BY <3>1, <3>2
  <2> QED  BY <2>3, <2>4, <2>5, <2>6, <2>7 DEF Flow
<1> QED  BY <1>5, <1>6, <1>7

\* So does the write thread.
LEMMA FlowWrite ==
    ASSUME TypeInv, Control, StopHasCause, Quiet, Flow, Write, Quiet'
    PROVE  Flow'
<1>1. ~ShouldStop
  BY QuietNoStop DEF Write, WriteGet, WriteEmpty, WriteIdle, WriteBatch, WriteRaise, WriteClose
<1>2. UNCHANGED <<fetch, sent, kept, eof>>
  BY DEF Write, WriteGet, WriteEmpty, WriteIdle, WriteBatch, WriteRaise, WriteClose,
         WriteFrame, fetchVars
<1>3. FlowKept'
  BY <1>2 DEF Flow, FlowKept
<1>4. CASE WriteGet
  <2>1. /\ write = "get" /\ queue # <<>> /\ queue' = Tail(queue) /\ held' = queue[1]
        /\ UNCHANGED <<written, file>>
    BY <1>4, Sequences DEF WriteGet
  <2>2. /\ Len(queue) >= 1 /\ Len(queue') = Len(queue) - 1
        /\ \A i \in 1..Len(queue') : queue'[i] = queue[i + 1]
    BY <2>1, Sequences
  <2>3. Taken = Len(written)
    BY <2>1 DEF Taken
  <2>4. FlowWritten' /\ FlowFile'
    BY <1>2, <2>1 DEF Flow, FlowWritten, FlowFile
  <2>5. FlowMarker'
    <3> SUFFICES ASSUME NEW i \in 1..Len(queue'), queue'[i] = None
                 PROVE  i = Len(queue') /\ fetch = "done"
      BY <1>2 DEF FlowMarker
    <3>1. i + 1 \in 1..Len(queue) /\ queue[i + 1] = None
      BY <2>2, Sequences
    <3> QED  BY <2>2, <3>1, Sequences DEF Flow, FlowMarker
  <2>6. CASE queue[1] = None
    <3>1. write' = "close"
      BY <1>4, <2>1, <2>6 DEF WriteGet
    <3>2. Len(queue) = 1 /\ fetch = "done"
      BY <2>2, <2>6, Sequences DEF Flow, FlowMarker
    <3>3. queue' = <<>>
      BY <2>1, <3>2, Sequences
    <3>4. Taken' = Taken /\ Marker = 1 /\ Marker' = 0
      BY <2>1, <2>3, <2>6, <3>1, <3>2, <3>3 DEF Taken, Marker
    <3>5. FlowEnds'
      BY <1>2, <3>1, <3>2, <3>3 DEF Flow, FlowEnds
    <3>6. FlowCount'
      BY <1>2, <2>2, <3>4, Sequences DEF Flow, FlowCount
    <3>7. FlowHeld' /\ FlowQueue'
      BY <3>1, <3>3 DEF FlowHeld, FlowQueue
    <3> QED  BY <1>3, <2>4, <2>5, <3>5, <3>6, <3>7 DEF Flow
  <2>7. CASE queue[1] # None
    <3>1. write' = "batch"
      BY <1>4, <2>1, <2>7 DEF WriteGet
    <3>2. Taken' = Taken + 1
      BY <2>1, <2>3, <3>1 DEF Taken
    <3>3. FlowEnds'
      BY <1>2, <3>1 DEF Flow, FlowEnds
    <3>4. FlowHeld'
      BY <1>2, <2>1, <2>2, <2>7, <3>2, Sequences DEF Flow, FlowHeld, FlowQueue
    <3>5. FlowQueue'
      <4> SUFFICES ASSUME NEW i \in 1..Len(queue'), queue'[i] # None
                   PROVE  queue'[i] = sent[Taken + 1 + i]
        BY <1>2, <3>2 DEF FlowQueue
      <4>1. i + 1 \in 1..Len(queue) /\ queue'[i] = queue[i + 1]
        BY <2>2, Sequences
      <4>2. queue[i + 1] = sent[Taken + (i + 1)]
        BY <4>1 DEF Flow, FlowQueue
      <4> QED  BY <4>1, <4>2, Sequences
    <3>6. Marker' = Marker
      <4>1. CASE Len(queue) = 1
        <5>1. queue' = <<>>
          BY <2>1, <4>1, Sequences
        <5> QED  BY <2>7, <4>1, <5>1 DEF Marker
      <4>2. CASE Len(queue) # 1
        <5>1. queue' # <<>> /\ queue'[Len(queue')] = queue[Len(queue)]
          BY <2>2, <4>2, Sequences
        <5> QED  BY <2>1, <5>1 DEF Marker
      <4> QED  BY <4>1, <4>2
    <3>7. FlowCount'
      <4>1. Marker \in {0, 1}
        BY DEF Marker
      <4> QED  BY <1>2, <2>2, <3>2, <3>6, <4>1, Sequences DEF Flow, FlowCount
    <3> QED  BY <1>3, <2>4, <2>5, <3>3, <3>4, <3>5, <3>7 DEF Flow
  <2> QED  BY <2>6, <2>7
<1>5. CASE WriteBatch
  <2>1. /\ write = "batch" /\ write' = "get" /\ written' = Append(written, held)
        /\ UNCHANGED queue /\ held \in Batches /\ file' = "open"
    BY <1>5, Sequences DEF WriteBatch, TypeInv, Positions
  <2>2. /\ Len(written') = Len(written) + 1 /\ written'[Len(written')] = held
        /\ \A i \in 1..Len(written) : written'[i] = written[i]
    BY <2>1, Sequences
  <2>3. Taken' = Taken /\ Taken = Len(written')
    BY <2>1, <2>2 DEF Taken
  <2>4. FlowEnds' /\ FlowHeld'
    BY <1>2, <2>1 DEF Flow, FlowEnds, FlowHeld
  <2>5. FlowCount' /\ FlowQueue' /\ FlowMarker'
    BY <1>2, <2>1, <2>3 DEF Flow, FlowCount, FlowQueue, FlowMarker, Marker
  <2>6. FlowWritten'
    BY <1>2, <2>1, <2>2, <2>3, Sequences DEF Flow, FlowWritten, FlowHeld
  <2>7. FlowFile'
    BY <2>1, <2>2, Sequences DEF FlowFile
  <2> QED  BY <1>3, <2>4, <2>5, <2>6, <2>7 DEF Flow
<1>6. CASE ~(WriteGet \/ WriteBatch)
  <2>1. /\ UNCHANGED <<queue, written>> /\ write # "batch" /\ write' # "batch"
        /\ write' \in {"close", "done"} => write \in {"close", "done"}
        /\ file' = "absent" <=> file = "absent"
    BY <1>1, <1>6 DEF Write, WriteEmpty, WriteIdle, WriteRaise, WriteClose, Quiet
  <2>2. Taken' = Taken /\ Marker' = Marker
    BY <2>1 DEF Taken, Marker
  <2> QED
    BY <1>2, <1>3, <2>1, <2>2
       DEF Flow, FlowEnds, FlowCount, FlowWritten, FlowHeld, FlowQueue, FlowMarker, FlowFile
<1> QED  BY <1>4, <1>5, <1>6

\* Every step of a shard that nothing has disturbed keeps the flow of batches.
LEMMA FlowStep ==
    TypeInv /\ Control /\ StopHasCause /\ (Quiet => Flow) /\ [Next]_vars => (Quiet => Flow)'
<1> SUFFICES ASSUME TypeInv, Control, StopHasCause, Quiet => Flow, [Next]_vars, Quiet'
             PROVE  Flow'
  OBVIOUS
<1>1. Quiet /\ Flow
  BY QuietBefore
<1>2. CASE Fetch  BY <1>1, <1>2, FlowFetch
<1>3. CASE Write  BY <1>1, <1>3, FlowWrite
<1>4. CASE Main \/ HeartbeatExit \/ Watchdog \/ Cancel \/ UNCHANGED vars
  <2>1. /\ UNCHANGED <<queue, sent, kept, written, held, eof, file>>
        /\ UNCHANGED <<fetch, write>>
           \/ (write = "idle" /\ fetch' = "execute" /\ write' = "get")
    BY <1>4 DEF Main, OpenConnection, OpenCursor, JoinThreads, CheckErrors, CheckCancel, Finalize,
                Upload, Cleanup, HeartbeatExit, Watchdog, TimerExpire, TimerStop, Cancel, vars,
                fetchVars, writeVars, TypeInv, Positions
  <2>2. UNCHANGED fetch \/ (fetch = "idle" /\ fetch' = "execute")
    BY <1>4 DEF Main, OpenConnection, OpenCursor, JoinThreads, CheckErrors, CheckCancel, Finalize,
                Upload, Cleanup, HeartbeatExit, Watchdog, TimerExpire, TimerStop, Cancel, vars,
                fetchVars, writeVars, TypeInv, Positions
  <2>3. Taken' = Taken /\ Marker' = Marker
    BY <2>1 DEF Taken, Marker
  <2> QED
    BY <1>1, <2>1, <2>2, <2>3
       DEF Flow, FlowEnds, FlowCount, FlowWritten, FlowHeld, FlowQueue, FlowMarker, FlowFile,
           FlowKept
<1> QED  BY <1>2, <1>3, <1>4 DEF Next, Terminated

-----------------------------------------------------------------------------
(* The decision about the upload.                                          *)

\* Both threads have ended and nothing has disturbed the stream: the file is
\* the whole result.
LEMMA EndOfStream ==
    ASSUME TypeInv, Flow, fetch = "done", write = "done"
    PROVE  Whole
<1>1. eof /\ queue = <<>>
  BY DEF Flow, FlowEnds
<1>2. Taken = Len(written) /\ Marker = 0
  BY <1>1 DEF Taken, Marker
<1>3. Len(sent) = Len(written)
  BY <1>1, <1>2, Sequences DEF Flow, FlowCount
<1>4. written = sent
  <2>1. written \in Seq(Batches) /\ sent \in Seq(Batches)
    BY Sequences
  <2>2. \A i \in 1..Len(written) : written[i] = sent[i]
    BY DEF Flow, FlowWritten
  <2> QED  BY <1>3, <2>1, <2>2
<1> QED  BY <1>1, <1>4 DEF Whole, Flow, FlowFile, FlowKept

\* Once the threads have ended, what they did is settled.
LEMMA Settled ==
    ASSUME Control, [Next]_vars, fetch = "done", write = "done", main \notin {"start", "cursor"}
    PROVE  /\ UNCHANGED <<fetch, write, eof, sent, kept, written, file>>
           /\ errors' \subseteq errors \cup {"timeout"}
BY DEF Next, Main, OpenConnection, OpenCursor, JoinThreads, CheckErrors, CheckCancel, Finalize,
       Upload, Cleanup, Fetch, FetchExecute, FetchCheck, FetchBatch, FetchEnd, FetchRaise,
       FetchPut, FetchPutFull, FetchDrain, SentinelPut, SentinelSkip, SentinelFull,
       Write, WriteGet, WriteEmpty, WriteIdle, WriteBatch, WriteRaise, WriteClose,
       HeartbeatExit, Watchdog, TimerExpire, TimerStop, Cancel, Terminated, vars,
       fetchVars, writeVars, ctlVars

\* No step of the other threads disturbs what the main thread has decided.
LEMMA DecidedOthers ==
    ASSUME TypeInv, Control, Decided, [Next]_vars, ~Main
    PROVE  Decided'
<1>1. UNCHANGED <<main, object, outcome>> /\ (cancel => cancel')
  BY DEF Next, Fetch, FetchExecute, FetchCheck, FetchBatch, FetchEnd, FetchRaise, FetchPut,
         FetchPutFull, FetchDrain, SentinelPut, SentinelSkip, SentinelFull, FetchFrame, Write,
         WriteGet, WriteEmpty, WriteIdle, WriteBatch, WriteRaise, WriteClose, WriteFrame,
         HeartbeatExit, Watchdog, TimerExpire, TimerStop, Cancel, Terminated, vars, mainVars,
         ctlVars
<1>2. Undecided'
  BY <1>1 DEF Decided, Undecided, NoObject
<1>3. CASE main \in {"checked", "finalize", "upload"}
  <2>1. /\ UNCHANGED <<fetch, write, eof, sent, kept, written, file>>
        /\ errors' \subseteq errors \cup {"timeout"}
    BY <1>3, Settled DEF Control
  <2>2. Whole' = Whole /\ (ThreadFailed' => ThreadFailed)
    BY <2>1 DEF Whole, ThreadFailed
  <2>3. Checked'
    BY <1>1, <2>1, <2>2 DEF Decided, Checked
  <2>4. StoredWhole' /\ EmptyAnswer'
    BY <1>1, <1>3 DEF Decided, Undecided, StoredWhole, EmptyAnswer, NoObject
  <2> QED  BY <1>2, <2>3, <2>4 DEF Decided
<1>4. CASE main \notin {"checked", "finalize", "upload"}
  <2>1. Checked'
    BY <1>1, <1>4 DEF Checked
  <2>2. CASE object # NoObject \/ outcome = "empty"
    <3>1. UNCHANGED <<fetch, write, eof, sent, kept, written, file>>
      BY <2>2, Settled DEF Decided, Undecided, StoredWhole, EmptyAnswer
    <3>2. Whole' = Whole
      BY <3>1 DEF Whole
    <3>3. StoredWhole' /\ EmptyAnswer'
      BY <1>1, <3>1, <3>2 DEF Decided, StoredWhole, EmptyAnswer, NoObject
    <3> QED  BY <1>2, <2>1, <3>3 DEF Decided
  <2>3. CASE object = NoObject /\ outcome # "empty"
    BY <1>1, <1>2, <2>1, <2>3 DEF Decided, StoredWhole, EmptyAnswer, NoObject
  <2> QED  BY <2>2, <2>3
<1> QED  BY <1>3, <1>4

\* The checks of the main thread let only a whole result through.
LEMMA DecidedMain ==
    ASSUME TypeInv, Control, Quiet => Flow, Decided, Main
    PROVE  Decided'
<1>1. CASE main \in {"start", "cursor", "join", "joined"}
  <2>1. /\ object' = NoObject /\ outcome' \in {"none", "raised"}
        /\ main' \notin {"cleanup", "done"} => outcome' = "none"
        /\ main' \notin {"finalize", "upload"}
    BY <1>1 DEF Main, OpenConnection, OpenCursor, JoinThreads, CheckErrors, CheckCancel, Finalize,
                Upload, Cleanup, Raise, Decided, Undecided
  <2>2. Undecided' /\ StoredWhole' /\ EmptyAnswer'
    BY <2>1 DEF Undecided, StoredWhole, EmptyAnswer, NoObject
  <2>3. ASSUME main' = "checked" PROVE ~ThreadFailed' /\ (cancel' \/ Whole')
    <3>1. CheckErrors /\ errors = {} /\ fetch = "done" /\ write = "done"
      BY <1>1, <2>3 DEF Main, OpenConnection, OpenCursor, JoinThreads, CheckErrors, Raise, Control,
                        CheckCancel, Finalize, Upload, Cleanup
    <3>2. UNCHANGED <<errors, cancel, eof, sent, kept, written, file>>
      BY <3>1 DEF CheckErrors, fetchVars, writeVars, ctlVars
    <3>3. cancel \/ Whole
      BY <3>1, EndOfStream DEF Quiet
    <3> QED  BY <3>1, <3>2, <3>3 DEF ThreadFailed, Whole
  <2>4. Checked'
    BY <2>1, <2>3 DEF Checked
  <2> QED  BY <2>2, <2>4 DEF Decided
<1>2. CASE main \in {"checked", "finalize", "upload", "cleanup", "done"}
  <2>1. UNCHANGED <<fetch, write, eof, sent, kept, written, file>>
    BY <1>2 DEF Main, OpenConnection, OpenCursor, JoinThreads, CheckErrors, CheckCancel, Finalize,
                Upload, Cleanup, fetchVars, writeVars
  <2>2. Whole' = Whole
    BY <2>1 DEF Whole
  <2>3. CASE CheckCancel
    <3>1. /\ main = "checked" /\ UNCHANGED object /\ outcome' \in {"none", "cancelled"}
          /\ main' \in {"cleanup", "finalize"}
          /\ main' = "finalize" => ~cancel /\ outcome' = "none"
      BY <2>3 DEF CheckCancel, Decided, Undecided
    <3> QED  BY <2>2, <3>1
                DEF Decided, Checked, Undecided, StoredWhole, EmptyAnswer, NoObject
  <2>4. CASE Finalize
    <3>1. /\ main = "finalize" /\ object' = NoObject /\ outcome' \in {"none", "empty", "raised"}
          /\ main' \in {"cleanup", "upload"}
          /\ main' = "upload" => outcome' = "none"
      BY <2>4 DEF Finalize, Raise, Decided, Undecided
    <3>2. Whole /\ fetch = "done" /\ write = "done"
      BY <3>1 DEF Decided, Checked, Control
    <3>3. outcome' = "empty" => kept = <<>>
      BY <2>4, <3>1, <3>2 DEF Finalize, Raise, Whole, Decided, Undecided
    <3>4. EmptyAnswer'
      BY <2>1, <3>2, <3>3 DEF EmptyAnswer, Whole
    <3>5. Checked'
      BY <2>1, <2>2, <2>4, <3>1, <3>2 DEF Finalize, Raise, Checked
    <3> QED  BY <3>1, <3>4, <3>5 DEF Decided, Undecided, StoredWhole, NoObject
  <2>5. CASE Upload
    <3>1. /\ main = "upload" /\ main' = "cleanup" /\ object' \in {NoObject, Uploaded}
          /\ outcome' \in {"uploaded", "raised"}
      BY <2>5 DEF Upload, Raise
    <3>2. Whole /\ fetch = "done" /\ write = "done" /\ (ValidateParquet => file = "closed")
      BY <3>1 DEF Decided, Checked, Control
    <3>3. Uploaded.batches = written /\ Uploaded.readable = (file = "closed")
      BY DEF Uploaded
    <3>4. object' # NoObject =>
              object'.batches = written' /\ (ValidateParquet => object'.readable)
      BY <2>1, <3>1, <3>2, <3>3, Zenon
    <3>5. StoredWhole'
      BY <2>1, <2>2, <3>2, <3>4 DEF StoredWhole, NoObject
    <3> QED  BY <3>1, <3>5 DEF Decided, Checked, Undecided, EmptyAnswer
  <2>6. CASE Cleanup
    <3>1. main' = "done" /\ UNCHANGED <<object, outcome>>
      BY <2>6 DEF Cleanup
    <3> QED  BY <2>1, <2>2, <3>1
                DEF Decided, Checked, Undecided, StoredWhole, EmptyAnswer, NoObject
  <2> QED  BY <1>2, <2>3, <2>4, <2>5, <2>6
              DEF Main, OpenConnection, OpenCursor, JoinThreads, CheckErrors
<1> QED  BY <1>1, <1>2 DEF TypeInv, TypeOK, MainTypeOK

-----------------------------------------------------------------------------
(* The theorems.                                                           *)

\* The initial state satisfies the invariant.
LEMMA InvInit == Init => Inv
<1> SUFFICES ASSUME Init PROVE Inv
  OBVIOUS
<1>1. TypeInv
  BY TypeInit
<1>2. Control /\ StopHasCause
  BY DEF Init, Control, StopHasCause
<1>3. Flow
  BY DEF Init, Flow, FlowEnds, FlowCount, FlowWritten, FlowHeld, FlowQueue, FlowMarker,
         FlowFile, FlowKept, Taken, Marker
<1>4. Decided
  BY DEF Init, Decided, Checked, Undecided, StoredWhole, EmptyAnswer, NoObject
<1> QED  BY <1>1, <1>2, <1>3, <1>4 DEF Inv

\* Every step keeps the invariant.
LEMMA InvStep == Inv /\ [Next]_vars => Inv'
<1>1. TypeInv /\ Decided /\ Control /\ (Quiet => Flow) /\ [Next]_vars => Decided'
  BY DecidedMain, DecidedOthers
<1> QED  BY <1>1, TypeStep, ControlStep, StopHasCauseStep, FlowStep DEF Inv

\* The invariant holds in every reachable state.
THEOREM InvHolds == Spec => []Inv
BY InvInit, InvStep, PTL DEF Spec

\* Whatever reaches the object store is the whole result of the query, readable
\* if it was validated, for every timing of a deadline, a cancel and a failure
\* against the fetch thread, the write thread and the checks after the join.
THEOREM UploadedWhole == Spec => []UploadIsWhole
<1>1. Inv => UploadIsWhole
  BY DEF Inv, Decided, StoredWhole, Whole, UploadIsWhole
<1> QED  BY InvHolds, <1>1, PTL

\* "No data" is said only of a query without a row past the transform, although a
\* full queue drops batches.
THEOREM EmptyIsEmpty == Spec => []EmptyMeansEmpty
<1>1. Inv => EmptyMeansEmpty
  BY DEF Inv, Decided, EmptyAnswer, EmptyMeansEmpty
<1> QED  BY InvHolds, <1>1, PTL

\* No thread outlives the connection or the directory it works with.  However run()
\* ends, the directory is removed, and the connection is closed if its close was
\* registered; one whose cursor() has raised is left open.
THEOREM ReleasedSafely == Spec => []CleanupSafe
<1>1. Inv => CleanupSafe
  BY DEF Inv, Control, CleanupSafe
<1> QED  BY InvHolds, <1>1, PTL

-----------------------------------------------------------------------------
(* The pipeline implements the contract.                                   *)

\* In the object store of the contract there is nothing or the whole result,
\* before a step and after it.
LEMMA ContractObjectIs ==
    ASSUME Inv, Inv'
    PROVE  /\ ContractObject = IF object = NoObject THEN "nothing" ELSE "whole"
           /\ ContractObject' = IF object' = NoObject THEN "nothing" ELSE "whole"
<1>1. ContractObject = IF object = NoObject THEN "nothing" ELSE "whole"
  BY DEF Inv, Decided, StoredWhole, Whole, ContractObject
<1>2. ContractObject' = IF object' = NoObject THEN "nothing" ELSE "whole"
  BY DEF Inv, Decided, StoredWhole, Whole, ContractObject, NoObject
<1> QED  BY <1>1, <1>2

\* The initial state is one of the contract.
LEMMA ContractInit == Init => Contract!Init
BY DEF Init, Contract!Init, ContractPhase, ContractObject

\* A step of a thread, of the watchdog or of the operator is a failure of the
\* contract, its cancel or no step.
LEMMA ContractOthers ==
    ASSUME Inv, Inv', [Next]_vars, ~Main
    PROVE  [Contract!Next]_(Contract!vars)
<1>1. UNCHANGED <<main, outcome, object>> /\ (cancel => cancel')
  BY DEF Next, Fetch, FetchExecute, FetchCheck, FetchBatch, FetchEnd, FetchRaise, FetchPut,
         FetchPutFull, FetchDrain, SentinelPut, SentinelSkip, SentinelFull, FetchFrame, Write,
         WriteGet, WriteEmpty, WriteIdle, WriteBatch, WriteRaise, WriteClose, WriteFrame,
         HeartbeatExit, Watchdog, TimerExpire, TimerStop, Cancel, Terminated, vars, mainVars,
         ctlVars
<1>2. UNCHANGED ContractPhase
  BY <1>1 DEF ContractPhase
<1>3. UNCHANGED ContractObject
  BY <1>1, ContractObjectIs
<1>4. main # "join" => fetch \in {"idle", "done"} /\ write \in {"idle", "done"}
  BY DEF Inv, Control
<1>5. ThreadFailed' = ThreadFailed \/ (ContractPhase = "working" /\ ThreadFailed')
  <2>1. CASE errors' \subseteq errors \cup {"timeout"} /\ errors \subseteq errors'
    BY <2>1 DEF ThreadFailed
  <2>2. CASE FetchRaise \/ WriteRaise
    BY <1>4, <2>2 DEF FetchRaise, WriteRaise, ContractPhase, ThreadFailed
  <2>3. errors' = errors \/ errors' = errors \cup {"timeout"} \/ FetchRaise \/ WriteRaise
    BY DEF Next, Fetch, FetchExecute, FetchCheck, FetchBatch, FetchEnd, FetchPut,
           FetchPutFull, FetchDrain, SentinelPut, SentinelSkip, SentinelFull, Write,
           WriteGet, WriteEmpty, WriteIdle, WriteBatch, WriteClose,
           HeartbeatExit, Watchdog, TimerExpire, TimerStop, Cancel, Terminated, vars, ctlVars
  <2> QED  BY <2>1, <2>2, <2>3
<1>6. cancel' = cancel \/ (cancel' = TRUE)
  BY DEF Next, Fetch, FetchExecute, FetchCheck, FetchBatch, FetchEnd, FetchRaise, FetchPut,
         FetchPutFull, FetchDrain, SentinelPut, SentinelSkip, SentinelFull, FetchFrame, Write,
         WriteGet, WriteEmpty, WriteIdle, WriteBatch, WriteRaise, WriteClose, WriteFrame,
         HeartbeatExit, Watchdog, TimerExpire, TimerStop, Cancel, Terminated, vars, ctlVars
<1>7. UNCHANGED cancel \/ UNCHANGED errors
  BY DEF Next, Fetch, FetchExecute, FetchCheck, FetchBatch, FetchEnd, FetchRaise, FetchPut,
         FetchPutFull, FetchDrain, SentinelPut, SentinelSkip, SentinelFull, FetchFrame, Write,
         WriteGet, WriteEmpty, WriteIdle, WriteBatch, WriteRaise, WriteClose, WriteFrame,
         HeartbeatExit, Watchdog, TimerExpire, TimerStop, Cancel, Terminated, vars, ctlVars
<1> QED
  BY <1>2, <1>3, <1>5, <1>6, <1>7
     DEF Contract!Next, Contract!Fail, Contract!Cancel, Contract!vars, ThreadFailed

\* What the steps of the main thread are to the operator.
LEMMA ContractMain ==
    ASSUME Inv, Inv', Main
    PROVE  [Contract!Next]_(Contract!vars)
<1> USE DEF Contract!Next, Contract!vars, ctlVars
<1>1. ThreadFailed' = ThreadFailed /\ cancel' = cancel
  BY DEF Main, OpenConnection, OpenCursor, JoinThreads, CheckErrors, CheckCancel, Finalize,
         Upload, Cleanup, ThreadFailed
<1>2. CASE ~Upload
  <2>1. UNCHANGED object
    BY <1>2 DEF Main, OpenConnection, OpenCursor, JoinThreads, CheckErrors, CheckCancel, Finalize,
                Cleanup
  <2>2. UNCHANGED ContractObject
    BY <2>1, ContractObjectIs
  <2>3. CASE OpenConnection \/ OpenCursor \/ JoinThreads \/ CheckErrors
    <3>1. ContractPhase = "working" /\ ContractPhase' \in {"working", "raised"}
      BY <2>3 DEF OpenConnection, OpenCursor, JoinThreads, CheckErrors, Raise, ContractPhase
    <3> QED  BY <1>1, <2>2, <3>1 DEF Contract!AnswerRaised, Contract!Answers, ThreadFailed
  <2>4. CASE CheckCancel
    <3>1. ~ThreadFailed /\ ContractPhase = "working"
      BY <2>4 DEF CheckCancel, Inv, Decided, Checked, ContractPhase
    <3>2. IF cancel THEN ContractPhase' = "cancelled" ELSE ContractPhase' = "committed"
      BY <2>4 DEF CheckCancel, ContractPhase
    <3> QED  BY <1>1, <2>2, <3>1, <3>2 DEF Contract!AnswerCancelled, Contract!Commit, ThreadFailed
  <2>5. CASE Finalize
    <3>1. ContractPhase = "committed" /\ ContractPhase' \in {"committed", "empty", "raised"}
      BY <2>5 DEF Finalize, Raise, ContractPhase
    <3> QED  BY <1>1, <2>2, <3>1
                DEF Contract!AnswerEmpty, Contract!AnswerRaised, Contract!Answers, ThreadFailed
  <2>6. CASE Cleanup
    <3>1. UNCHANGED ContractPhase
      BY <2>6 DEF Cleanup, ContractPhase
    <3> QED  BY <1>1, <2>2, <3>1 DEF ThreadFailed
  <2> QED  BY <1>2, <2>3, <2>4, <2>5, <2>6 DEF Main
<1>3. CASE Upload
  <2>1. ContractPhase = "committed" /\ ContractObject = "nothing"
    BY <1>3, ContractObjectIs DEF Upload, ContractPhase, Inv, Decided, Undecided
  <2>2. Uploaded # NoObject
    <3>1. Whole /\ file # "absent"
      BY <1>3 DEF Upload, Inv, Decided, Checked
    <3> QED  BY <3>1 DEF Whole, Uploaded, NoObject
  <2>3. \/ ContractPhase' = "raised" /\ ContractObject' \in {"nothing", "whole"}
        \/ ContractPhase' = "uploaded" /\ ContractObject' = "whole"
    BY <1>3, <2>2, ContractObjectIs DEF Upload, Raise, ContractPhase
  <2> QED  BY <1>1, <2>1, <2>3 DEF Contract!Upload, ThreadFailed
<1> QED  BY <1>2, <1>3

\* Every run of the pipeline is, to the operator, a run of the contract: it
\* commits only unfailed and uncancelled, answers "cancelled" only when it was
\* and a failure did not come first, and puts all of its result or nothing.
THEOREM PipelineImplementsContract == Spec => ImplementsContract
<1>1. Inv /\ Inv' /\ [Next]_vars => [Contract!Next]_(Contract!vars)
  BY ContractMain, ContractOthers
<1> QED  BY ContractInit, InvHolds, <1>1, PTL DEF Spec, ImplementsContract, Contract!Spec

-----------------------------------------------------------------------------
(* Nobody waits for ever but for a lost sentinel.                          *)

\* When the fetch thread has ended, the writer will end too: it is about to, a stop will
\* end it at the next empty queue, or the sentinel is the last thing it takes from the
\* queue; unless the sentinel was given up.
WriterWillEnd ==
    fetch = "done" =>
        \/ write \in {"close", "done"}
        \/ stop \/ cancel
        \/ queue # <<>> /\ queue[Len(queue)] = None
        \/ tries = SentinelTries

LEMMA WriterWillEndStep == Inv /\ WriterWillEnd /\ [Next]_vars => WriterWillEnd'
<1> SUFFICES ASSUME Inv, WriterWillEnd, [Next]_vars, fetch' = "done"
             PROVE  \/ write' \in {"close", "done"}
                    \/ stop' \/ cancel'
                    \/ queue' # <<>> /\ queue'[Len(queue')] = None
                    \/ tries' = SentinelTries
  BY DEF WriterWillEnd
<1>1. /\ queue \in Seq(Batches \cup {None}) /\ Len(queue) \in Nat
      /\ tries \in Nat /\ SentinelTries \in Nat /\ (fetch # "done" => tries < SentinelTries)
  BY PipelineAssumption DEF Inv, TypeInv, TypeOK, FetchTypeOK, SharedTypeOK, Positions
<1>2. CASE Main
  <2>1. /\ UNCHANGED <<tries, cancel, queue>>
        /\ fetch = "done" /\ write' = write /\ (stop => stop')
    BY <1>2 DEF Main, OpenConnection, OpenCursor, JoinThreads, CheckErrors, CheckCancel, Finalize,
                Upload, Cleanup, fetchVars, writeVars, ctlVars, Inv, TypeInv, Positions
  <2> QED  BY <2>1 DEF WriterWillEnd
<1>3. CASE Fetch
  <2>1. CASE SentinelPut
    <3>1. queue' = Append(queue, None)
      BY <2>1 DEF SentinelPut
    <3> QED  BY <1>1, <3>1
  <2>2. CASE SentinelSkip
    BY <2>2 DEF SentinelSkip, ShouldStop, FetchFrame
  <2>3. CASE SentinelFull
    BY <1>1, <2>3 DEF SentinelFull
  <2> QED  BY <1>3, <2>1, <2>2, <2>3 DEF Fetch, FetchExecute, FetchCheck, FetchBatch, FetchEnd,
              FetchRaise, FetchPut, FetchPutFull, FetchDrain
<1>4. CASE Write
  <2>1. fetch = "done" /\ tries' = tries /\ cancel' = cancel /\ (stop => stop')
    BY <1>4 DEF Write, WriteGet, WriteEmpty, WriteIdle, WriteBatch, WriteRaise, WriteClose,
                WriteFrame, fetchVars
  <2>2. CASE WriteGet /\ held' # None
    <3>1. queue # <<>> /\ queue' = Tail(queue) /\ Head(queue) # None
      BY <2>2 DEF WriteGet
    <3>2. ASSUME queue[Len(queue)] = None PROVE queue' # <<>> /\ queue'[Len(queue')] = None
      <4>1. Len(queue) > 1 /\ Len(queue') = Len(queue) - 1
        BY <1>1, <3>1, <3>2
      <4>2. queue'[Len(queue) - 1] = queue[Len(queue)]
        BY <1>1, <3>1, <4>1
      <4> QED  BY <1>1, <3>2, <4>1, <4>2
    <3> QED  BY <2>1, <2>2, <3>2 DEF WriterWillEnd, WriteGet
  <2>3. CASE WriteGet /\ held' = None
    BY <2>3 DEF WriteGet
  <2>4. CASE ~WriteGet
    BY <1>4, <2>1, <2>4 DEF WriterWillEnd, Write, WriteEmpty, WriteIdle, WriteBatch, WriteRaise,
                            WriteClose
  <2> QED  BY <2>2, <2>3, <2>4
<1>5. CASE HeartbeatExit \/ Watchdog \/ Cancel \/ UNCHANGED vars
  <2>1. UNCHANGED <<fetch, write, queue, tries>> /\ (stop => stop') /\ (cancel => cancel')
    BY <1>5 DEF HeartbeatExit, Watchdog, TimerExpire, TimerStop, Cancel, vars, ctlVars, fetchVars,
                writeVars
  <2> QED  BY <2>1 DEF WriterWillEnd
<1> QED  BY <1>2, <1>3, <1>4, <1>5 DEF Next, Terminated

\* run() can only be left waiting for its writer by a fetch thread that has given up on
\* the sentinel (_safe_put_sentinel).
THEOREM WriterIsTold == Spec => []WriterWillEnd
<1>1. Init => WriterWillEnd
  BY DEF Init, WriterWillEnd
<1> QED  BY InvHolds, WriterWillEndStep, <1>1, PTL DEF Spec
=============================================================================
