--------------------------- MODULE ShardPipeline ---------------------------
(***************************************************************************)
(* One shard of an export, from the database to the object store:         *)
(* `ShardWorker.run` (parquet_io.py).                                      *)
(*                                                                         *)
(* The main thread opens a connection, starts three threads (fetch, write, *)
(* heartbeat), joins the first two and then decides whether the local      *)
(* Parquet file is uploaded.  A daemon timer may set a deadline and the    *)
(* operator may cancel the shard from outside while all this runs.  The    *)
(* fetch and write threads share a bounded `queue.Queue` that is closed    *)
(* with a sentinel; everybody shares the `_stop` event and `_errors`.      *)
(*                                                                         *)
(* A batch of rows is named by the position at which it was fetched.  The  *)
(* contents of a batch, the schema alignment and the Parquet encoding are  *)
(* abstracted.                                                             *)
(***************************************************************************)
EXTENDS Integers, Sequences

CONSTANTS
    MaxBatches,       \* most chunks the query can return (bounds the model)
    QueueCap,         \* maxsize of the batch queue (2 in the code)
    SentinelTries,    \* puts tried before the sentinel is given up (60 in the code)
    HasTimeout,       \* ShardOptions.timeout may be set
    HasCancel,        \* a cancel event is shared with the siblings (mode "threads")
    ValidateParquet   \* the validate_parquet option

ASSUME PipelineAssumption ==
    /\ MaxBatches \in Nat
    /\ QueueCap \in Nat \ {0}
    /\ SentinelTries \in Nat \ {0}
    /\ HasTimeout \in BOOLEAN
    /\ HasCancel \in BOOLEAN
    /\ ValidateParquet \in BOOLEAN

VARIABLES
    main,       \* what the thread that called run() does next
    fetch,      \* what the fetch thread does next
    write,      \* what the write thread does next
    heartbeat,  \* the heartbeat thread
    timer,      \* the watchdog: armed, expired (error recorded), fired (_stop set)
    stop,       \* _stop
    cancel,     \* _cancel, set by the operator when a sibling fails
    errors,     \* who has appended to _errors
    queue,      \* _queue
    held,       \* the batch the writer took from the queue and has not written
    tries,      \* timed-out puts of the sentinel
    fetched,    \* batches the cursor has returned
    kept,       \* the fetched batches that the transform did not filter out
    eof,        \* the cursor has returned an empty batch
    sent,       \* batches put in the queue, in order
    written,    \* batches in the local file (_rows_written counts their rows)
    file,       \* the local Parquet file
    conn,       \* the connection; "guarded" once its close is on the exit stack
    tmp,        \* the temporary directory exists
    object,     \* what the object store holds at remote_path
    outcome     \* how run() ended

mainVars  == <<main, conn, tmp, object, outcome>>
fetchVars == <<fetch, tries, fetched, kept, eof, sent>>
writeVars == <<write, held, written, file>>
ctlVars   == <<stop, cancel, errors, timer>>
vars == <<mainVars, fetchVars, writeVars, ctlVars, heartbeat, queue>>

None == 0                       \* Python's None: the sentinel, or no batch
Batches == 1..MaxBatches
NoObject == [batches |-> <<>>, readable |-> FALSE]

-----------------------------------------------------------------------------
(* Initial state: run() has just armed its watchdog, nothing else exists.  *)

Init ==
    /\ main = "start" /\ fetch = "idle" /\ write = "idle" /\ heartbeat = "idle"
    /\ timer \in IF HasTimeout THEN {"armed", "off"} ELSE {"off"}
    /\ stop = FALSE /\ cancel = FALSE /\ errors = {}
    /\ queue = <<>> /\ held = None /\ tries = 0
    /\ fetched = 0 /\ kept = <<>> /\ eof = FALSE /\ sent = <<>>
    /\ written = <<>> /\ file = "absent"
    /\ conn = "none" /\ tmp = FALSE
    /\ object = NoObject /\ outcome = "none"

ShouldStop == stop \/ cancel

-----------------------------------------------------------------------------
(* The main thread.                                                        *)

\* An exception in the main thread: the exit stack unwinds next.
Raise == main' = "cleanup" /\ outcome' = "raised"

\* mkdtemp and the adapter factory.  Either may raise; the directory stays
\* behind for the exit stack once it exists.
OpenConnection ==
    /\ main = "start"
    /\ \/ main' = "cursor" /\ tmp' = TRUE /\ conn' = "open" /\ UNCHANGED outcome
       \/ Raise /\ tmp' \in BOOLEAN /\ UNCHANGED conn
    /\ UNCHANGED <<object, fetchVars, writeVars, ctlVars, heartbeat, queue>>

\* adapter.cursor(), then the close of the adapter is put on the exit stack
\* and the threads start.  If cursor() raises nothing closes the connection.
OpenCursor ==
    /\ main = "cursor"
    /\ \/ /\ main' = "join" /\ conn' = "guarded"
          /\ fetch' = "execute" /\ write' = "get" /\ heartbeat' = "running"
          /\ UNCHANGED outcome
       \/ Raise /\ UNCHANGED <<conn, fetch, write, heartbeat>>
    /\ UNCHANGED <<tmp, object, tries, fetched, kept, eof, sent, held, written,
                   file, ctlVars, queue>>

\* Faulty variant of JoinThreads: only the fetch thread is joined.
JoinFetchOnly ==
    /\ main = "join" /\ fetch = "done"
    /\ main' = "joined" /\ stop' = TRUE
    /\ UNCHANGED <<conn, tmp, object, outcome, fetchVars, writeVars, cancel,
                   errors, timer, heartbeat, queue>>

\* t_fetch.join(); t_write.join(); _stop.set().  The joins have no timeout, so
\* the is_alive() test that follows them never succeeds.
JoinThreads ==
    /\ main = "join" /\ fetch = "done" /\ write = "done"
    /\ main' = "joined" /\ stop' = TRUE
    /\ UNCHANGED <<conn, tmp, object, outcome, fetchVars, writeVars, cancel,
                   errors, timer, heartbeat, queue>>

\* t_hb.join(timeout=2) has returned, with or without the thread; the first
\* recorded error is raised.
CheckErrors ==
    /\ main = "joined"
    /\ IF errors # {} THEN Raise ELSE main' = "checked" /\ UNCHANGED outcome
    /\ UNCHANGED <<conn, tmp, object, fetchVars, writeVars, ctlVars, heartbeat, queue>>

\* Faulty variant of CheckCancel: the cancel is not looked at before the upload.
CheckCancelForgotten ==
    /\ main = "checked" /\ main' = "finalize"
    /\ UNCHANGED <<conn, tmp, object, outcome, fetchVars, writeVars, ctlVars, heartbeat, queue>>

\* A shard cancelled from outside returns an empty result.
CheckCancel ==
    /\ main = "checked"
    /\ IF cancel THEN main' = "cleanup" /\ outcome' = "cancelled"
                 ELSE main' = "finalize" /\ UNCHANGED outcome
    /\ UNCHANGED <<conn, tmp, object, fetchVars, writeVars, ctlVars, heartbeat, queue>>

\* Digest and validation of the local file.  No file means no data; a file
\* without a readable footer fails the validation, which may also fail for a
\* reason of its own.
Finalize ==
    /\ main = "finalize"
    /\ \/ /\ file = "absent"
          /\ main' = "cleanup" /\ outcome' = "empty"
       \/ /\ file # "absent"
          /\ ValidateParquet => file = "closed"
          /\ main' = "upload" /\ UNCHANGED outcome
       \/ file # "absent" /\ Raise
    /\ UNCHANGED <<conn, tmp, object, fetchVars, writeVars, ctlVars, heartbeat, queue>>

Uploaded == [batches |-> written, readable |-> file = "closed"]

\* upload_fn returned a URI, or it raised: the object may be there even so.
Upload ==
    /\ main = "upload"
    /\ \/ object' = Uploaded /\ main' = "cleanup" /\ outcome' = "uploaded"
       \/ object' \in {NoObject, Uploaded} /\ Raise
    /\ UNCHANGED <<conn, tmp, fetchVars, writeVars, ctlVars, heartbeat, queue>>

\* The exit stack closes the adapter, if it was registered, and removes the
\* directory; run() cancels its watchdog.
Cleanup ==
    /\ main = "cleanup"
    /\ main' = "done" /\ tmp' = FALSE
    /\ conn' = IF conn = "guarded" THEN "closed" ELSE conn
    /\ timer' = IF timer = "armed" THEN "cancelled" ELSE timer
    /\ UNCHANGED <<object, outcome, fetchVars, writeVars, stop, cancel, errors,
                   heartbeat, queue>>

Main == \/ OpenConnection \/ OpenCursor \/ JoinThreads \/ CheckErrors
        \/ CheckCancel \/ Finalize \/ Upload \/ Cleanup

-----------------------------------------------------------------------------
(* The fetch thread.                                                       *)

FetchFrame == UNCHANGED <<mainVars, writeVars, cancel, timer, heartbeat>>

\* cursor.execute(sql)
FetchExecute ==
    /\ fetch = "execute" /\ fetch' = "check"
    /\ UNCHANGED <<tries, fetched, kept, eof, sent, stop, errors, queue>> /\ FetchFrame

\* The condition of the fetch loop.
FetchCheck ==
    /\ fetch = "check"
    /\ fetch' = IF ShouldStop THEN "sentinel" ELSE "fetch"
    /\ UNCHANGED <<tries, fetched, kept, eof, sent, stop, errors, queue>> /\ FetchFrame

\* The cursor returns a batch.  The transform may filter all its rows, and the
\* loop goes on with the next one.
FetchBatch ==
    /\ fetch = "fetch" /\ fetched < MaxBatches
    /\ fetched' = fetched + 1
    /\ \/ fetch' = "put" /\ kept' = Append(kept, fetched')
       \/ fetch' = "check" /\ UNCHANGED kept
    /\ UNCHANGED <<tries, eof, sent, stop, errors, queue>> /\ FetchFrame

\* The cursor returns no row: the result set is exhausted.
FetchEnd ==
    /\ fetch = "fetch"
    /\ eof' = TRUE /\ fetch' = "sentinel"
    /\ UNCHANGED <<tries, fetched, kept, sent, stop, errors, queue>> /\ FetchFrame

\* The query, the cursor, the decoding or the transform raises.  The order of
\* append and set is not observable: the others read _errors after the join.
FetchRaise ==
    /\ fetch \in {"execute", "fetch"}
    /\ errors' = errors \cup {"fetch"} /\ stop' = TRUE /\ fetch' = "drain"
    /\ UNCHANGED <<tries, fetched, kept, eof, sent, queue>> /\ FetchFrame

\* Faulty variant of FetchPut: a queue without maxsize.
FetchPutUnbounded ==
    /\ fetch = "put"
    /\ queue' = Append(queue, fetched) /\ sent' = Append(sent, fetched)
    /\ fetch' = "check"
    /\ UNCHANGED <<tries, fetched, kept, eof, stop, errors>> /\ FetchFrame

\* queue.put(tbl, timeout=2) finds room.
FetchPut ==
    /\ fetch = "put" /\ Len(queue) < QueueCap
    /\ queue' = Append(queue, fetched) /\ sent' = Append(sent, fetched)
    /\ fetch' = "check"
    /\ UNCHANGED <<tries, fetched, kept, eof, stop, errors>> /\ FetchFrame

\* queue.put(tbl, timeout=2) raises queue.Full: the loop shrinks the chunk and
\* goes on with the next fetch, without the batch.
FetchPutFull ==
    /\ fetch = "put" /\ Len(queue) = QueueCap
    /\ fetch' = IF ShouldStop THEN "sentinel" ELSE "check"
    /\ UNCHANGED <<tries, fetched, kept, eof, sent, stop, errors, queue>> /\ FetchFrame

\* _drain_queue: get_nowait until it raises.  The writer may get in between.
FetchDrain ==
    /\ fetch = "drain"
    /\ IF queue = <<>> THEN fetch' = "sentinel" /\ UNCHANGED queue
                       ELSE queue' = Tail(queue) /\ UNCHANGED fetch
    /\ UNCHANGED <<tries, fetched, kept, eof, sent, stop, errors>> /\ FetchFrame

\* _safe_put_sentinel: either kind of put finds room.
SentinelPut ==
    /\ fetch = "sentinel" /\ Len(queue) < QueueCap
    /\ queue' = Append(queue, None) /\ fetch' = "done"
    /\ UNCHANGED <<tries, fetched, kept, eof, sent, stop, errors>> /\ FetchFrame

\* The queue is full and a stop is seen: the put_nowait fails silently.
SentinelSkip ==
    /\ fetch = "sentinel" /\ Len(queue) = QueueCap /\ ShouldStop
    /\ fetch' = "done"
    /\ UNCHANGED <<tries, fetched, kept, eof, sent, stop, errors, queue>> /\ FetchFrame

\* Faulty variant of SentinelFull: put_nowait, so one full queue loses the sentinel.
SentinelFullOnce ==
    /\ fetch = "sentinel" /\ Len(queue) = QueueCap
    /\ tries' = tries + 1 /\ fetch' = "done"
    /\ UNCHANGED <<fetched, kept, eof, sent, stop, errors, queue>> /\ FetchFrame

\* The blocking put times out; the loop gives up at its own deadline and the
\* thread ends without a sentinel.
SentinelFull ==
    /\ fetch = "sentinel" /\ Len(queue) = QueueCap
    /\ tries' = tries + 1
    /\ fetch' = IF tries' < SentinelTries THEN "sentinel" ELSE "done"
    /\ UNCHANGED <<fetched, kept, eof, sent, stop, errors, queue>> /\ FetchFrame

Fetch == \/ FetchExecute \/ FetchCheck \/ FetchBatch \/ FetchEnd \/ FetchRaise
         \/ FetchPut \/ FetchPutFull \/ FetchDrain
         \/ SentinelPut \/ SentinelSkip \/ SentinelFull

-----------------------------------------------------------------------------
(* The write thread.                                                       *)

WriteFrame == UNCHANGED <<mainVars, fetchVars, cancel, timer, heartbeat>>

\* queue.get(timeout=5) returns a batch or the sentinel.
WriteGet ==
    /\ write = "get" /\ queue # <<>>
    /\ held' = Head(queue) /\ queue' = Tail(queue)
    /\ write' = IF held' = None THEN "close" ELSE "batch"
    /\ UNCHANGED <<written, file, stop, errors>> /\ WriteFrame

\* queue.get(timeout=5) raises queue.Empty ...
WriteEmpty ==
    /\ write = "get" /\ queue = <<>> /\ write' = "empty"
    /\ UNCHANGED <<held, written, file, stop, errors, queue>> /\ WriteFrame

\* Faulty variant of WriteIdle: an empty queue is polled whatever the flags say.
WriteIdleDeaf ==
    /\ write = "empty" /\ write' = "get"
    /\ UNCHANGED <<held, written, file, stop, errors, queue>> /\ WriteFrame

\* ... and the stop flags are read only then.
WriteIdle ==
    /\ write = "empty"
    /\ write' = IF ShouldStop THEN "close" ELSE "get"
    /\ UNCHANGED <<held, written, file, stop, errors, queue>> /\ WriteFrame

\* The first batch creates the ParquetWriter; write_table appends the batch.
WriteBatch ==
    /\ write = "batch"
    /\ written' = Append(written, held) /\ held' = None
    /\ file' = "open" /\ write' = "get"
    /\ UNCHANGED <<stop, errors, queue>> /\ WriteFrame

\* Faulty variant of WriteRaise: the exception is not recorded.
WriteRaiseUnrecorded ==
    /\ write = "batch" /\ stop' = TRUE
    /\ held' = None /\ write' = "close"
    /\ file' \in IF file = "absent" THEN {"absent", "open", "broken"} ELSE {file}
    /\ UNCHANGED <<written, errors, queue>> /\ WriteFrame

\* Creating the writer, casting or writing raises.  A constructor that fails
\* may leave a file without a writer.
WriteRaise ==
    /\ write = "batch"
    /\ errors' = errors \cup {"write"} /\ stop' = TRUE
    /\ held' = None /\ write' = "close"
    /\ file' \in IF file = "absent" THEN {"absent", "open", "broken"} ELSE {file}
    /\ UNCHANGED <<written, queue>> /\ WriteFrame

\* finally: writer.close() writes the footer.  An exception there ends the
\* thread and is recorded nowhere.
WriteClose ==
    /\ write = "close" /\ write' = "done"
    /\ file' \in IF file = "open" THEN {"closed", "broken"} ELSE {file}
    /\ UNCHANGED <<held, written, stop, errors, queue>> /\ WriteFrame

Write == \/ WriteGet \/ WriteEmpty \/ WriteIdle \/ WriteBatch \/ WriteRaise
         \/ WriteClose

-----------------------------------------------------------------------------
(* Heartbeat, watchdog and operator.                                       *)

\* The heartbeat changes nothing that is shared; it ends when it sees a stop.
HeartbeatExit ==
    /\ heartbeat = "running" /\ ShouldStop /\ heartbeat' = "done"
    /\ UNCHANGED <<mainVars, fetchVars, writeVars, ctlVars, queue>>

\* Faulty variant of TimerExpire: the deadline only stops the threads.
TimerExpireUnrecorded ==
    /\ timer = "armed" /\ timer' = "expired" /\ UNCHANGED errors
    /\ UNCHANGED <<mainVars, fetchVars, writeVars, stop, cancel, heartbeat, queue>>

\* _on_deadline records the error before it sets _stop: a thread that sees the
\* stop runs with the error on record.
TimerExpire ==
    /\ timer = "armed" /\ timer' = "expired" /\ errors' = errors \cup {"timeout"}
    /\ UNCHANGED <<mainVars, fetchVars, writeVars, stop, cancel, heartbeat, queue>>

\* Faulty variant of TimerStop: the deadline only records its error.
TimerStopForgotten ==
    /\ timer = "expired" /\ timer' = "fired" /\ UNCHANGED stop
    /\ UNCHANGED <<mainVars, fetchVars, writeVars, cancel, errors, heartbeat, queue>>

TimerStop ==
    /\ timer = "expired" /\ timer' = "fired" /\ stop' = TRUE
    /\ UNCHANGED <<mainVars, fetchVars, writeVars, cancel, errors, heartbeat, queue>>

Watchdog == TimerExpire \/ TimerStop

\* The operator sets the shared event after a sibling has failed.
Cancel ==
    /\ HasCancel /\ ~cancel /\ main # "done" /\ cancel' = TRUE
    /\ UNCHANGED <<mainVars, fetchVars, writeVars, stop, errors, timer, heartbeat, queue>>

\* run() has returned and its threads have ended.
Terminated ==
    /\ main = "done" /\ heartbeat # "running" /\ timer # "expired"
    /\ UNCHANGED vars

Next == Main \/ Fetch \/ Write \/ HeartbeatExit \/ Watchdog \/ Cancel \/ Terminated

\* Every call of a driver, of the file system and of the storage client returns,
\* and the operating system runs every thread.
Fairness ==
    /\ WF_vars(Main) /\ WF_vars(Fetch) /\ WF_vars(Write)
    /\ WF_vars(HeartbeatExit) /\ WF_vars(Watchdog)

Spec == Init /\ [][Next]_vars /\ Fairness

-----------------------------------------------------------------------------
(* Properties.                                                             *)

MainTypeOK ==
    /\ main \in {"start", "cursor", "join", "joined", "checked", "finalize",
                 "upload", "cleanup", "done"}
    /\ conn \in {"none", "open", "guarded", "closed"}
    /\ object \in [batches : Seq(Batches), readable : BOOLEAN]
    /\ outcome \in {"none", "uploaded", "empty", "cancelled", "raised"}

FetchTypeOK ==
    /\ fetch \in {"idle", "execute", "check", "fetch", "put", "drain", "sentinel", "done"}
    /\ tries \in 0..SentinelTries
    /\ fetched \in 0..MaxBatches
    /\ kept \in Seq(Batches) /\ sent \in Seq(Batches)

WriteTypeOK ==
    /\ write \in {"idle", "get", "empty", "batch", "close", "done"}
    /\ held \in Batches \cup {None}
    /\ written \in Seq(Batches)
    /\ file \in {"absent", "open", "closed", "broken"}

SharedTypeOK ==
    /\ queue \in Seq(Batches \cup {None}) /\ Len(queue) <= QueueCap
    /\ errors \subseteq {"fetch", "write", "timeout"}
    /\ timer \in {"off", "armed", "expired", "fired", "cancelled"}
    /\ heartbeat \in {"idle", "running", "done"}

FlagTypeOK ==
    stop \in BOOLEAN /\ cancel \in BOOLEAN /\ eof \in BOOLEAN /\ tmp \in BOOLEAN

\* Every variable keeps its type, and the queue its capacity.
TypeOK == MainTypeOK /\ FetchTypeOK /\ WriteTypeOK /\ SharedTypeOK /\ FlagTypeOK

\* Whatever is in the object store is the whole result: the reader saw the end
\* of the data, every batch it queued is in the file in order, and a validated
\* file is readable.  No stop, timeout, cancel or failure, however it is timed
\* against the join and the checks after it, lets a truncated file through.
UploadIsWhole ==
    object # NoObject =>
        /\ eof /\ object.batches = sent
        /\ ValidateParquet => object.readable

\* "No data" is only said of a query that returned no row past the transform,
\* although a full queue drops batches and the absence of the local file is
\* the only evidence the code has.
EmptyMeansEmpty == outcome = "empty" => eof /\ kept = <<>>

\* Neither the cursor nor the local file is used after it is released: while the
\* fetch or the write thread runs, the connection and the directory are there;
\* when run() is over, however it ended, the directory and every connection
\* whose close was registered are not.  The close is registered after cursor(): of
\* a connection whose cursor() has raised nothing is said, and it stays open.
CleanupSafe ==
    /\ (fetch \notin {"idle", "done"} \/ write \notin {"idle", "done"})
           => conn = "guarded" /\ tmp
    /\ main = "done" => ~tmp /\ conn # "guarded"

\* A stop or a cancel ends run() from whatever point the three threads are at:
\* full queue, empty queue, lost sentinel.
StopEndsShard == (stop \/ cancel) ~> (main = "done")

\* With a deadline set, run() always returns, even after the sentinel was lost,
\* and its threads with it.
Termination == timer # "off" => <>[](main = "done" /\ heartbeat # "running")

\* Without one, run() can only wait forever for a writer that nobody tells to
\* end, after the fetch thread gave up on the sentinel.
HangOnlyAfterGiveUp ==
    <>(main = "done") \/ <>[](fetch = "done" /\ tries = SentinelTries /\ main = "join")

\* The promise the operator relies on (ShardContract): the commit is the step
\* past both checks, and the object is the shard's whole content.
ContractPhase ==
    CASE main \in {"start", "cursor", "join", "joined", "checked"} -> "working"
      [] main \in {"finalize", "upload"} -> "committed"
      [] OTHER -> outcome

ContractObject ==
    IF object = NoObject THEN "nothing"
    ELSE IF eof /\ object.batches = sent THEN "whole" ELSE "partial"

Contract == INSTANCE ShardContract
    WITH phase <- ContractPhase, failed <- (errors \cap {"fetch", "write"} # {}),
         cancelled <- cancel, object <- ContractObject

ImplementsContract == Contract!Spec

-----------------------------------------------------------------------------
(* What the documentation says and the code does not do (see README).      *)

\* docs/explanation/streaming-pipeline.md:31: the row groups of the file are the
\* chunks fetched from the database.
UploadedComplete == object # NoObject => object.batches = kept

\* docs/explanation/streaming-pipeline.md:53: a reader that finishes makes the
\* writer exit its loop.
ReaderEndsWriter == (fetch = "done") ~> (write = "done")
=============================================================================
