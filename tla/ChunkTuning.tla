---------------------------- MODULE ChunkTuning ----------------------------
(***************************************************************************)
(* How many rows the fetch thread asks for and what that costs in memory   *)
(* (`ShardWorker._memory_budget`, `_auto_tune_chunk`, `_fetch` and         *)
(* `_write`, parquet_io.py).  ShardPipeline follows the same threads and   *)
(* leaves the sizes out; here only the sizes are left.                     *)
(*                                                                         *)
(* A unit of memory is 32 bytes, the least that the code takes a row for.  *)
(* What counts is the table of a batch; copies made on the way to the file *)
(* are abstracted.  A table is held as long as a variable refers to it:    *)
(* `tbl` of the fetch thread until the next fetch has returned, even when  *)
(* the batch was dropped, and `tbl` of the writer until the next get.      *)
(***************************************************************************)
EXTENDS Integers, Sequences, FiniteSets

CONSTANTS
    MemoryLimit,    \* memory_limit_mb
    MaxWorkers,     \* max_workers
    ChunkRows,      \* chunk_rows
    Widths,         \* average rows that batches can have, in units
    MaxBatches      \* batches of the result (bounds the model)

ASSUME TuningAssumption ==
    /\ MemoryLimit \in Nat \ {0} /\ MaxWorkers \in Nat \ {0}
    /\ ChunkRows \in Nat \ {0}
    /\ Widths \subseteq Nat \ {0} /\ IsFiniteSet(Widths)
    /\ MaxBatches \in Nat

MB == 32768
Larger(a, b) == IF a >= b THEN a ELSE b
Smaller(a, b) == IF a <= b THEN a ELSE b

\* _memory_budget.
Budget == Larger((MemoryLimit * MB * 4) \div (5 * MaxWorkers), 128 * MB)

\* Faulty variant of Target: a half.
TargetHalf == Budget \div 2

\* A quarter of it for one batch.
Target == Budget \div 4

\* _auto_tune_chunk for rows of width w, when it succeeds.
Tuned(w) == Larger(10000, Smaller(Target \div w, 500000))

\* After a full queue.  A tuned chunk gets smaller; one that could not be tuned may
\* have been below the least size and grow to it.
Shrunk(c) == Larger(1000, (c * 7) \div 10)

VARIABLES
    at,         \* what the fetch thread does next: "fetch", "take", "put", "end"
    chunk,      \* chunk_rows
    tuned,      \* the local variable of _fetch
    base,       \* the batch that the chunk was tuned for, if that did not fail
    count,      \* batches fetched
    new,        \* the batch that fetchmany builds
    tbl,        \* the fetch thread's tbl
    queue,      \* _queue
    held        \* the writer's tbl

vars == <<at, chunk, tuned, base, count, new, tbl, queue, held>>

None == [id |-> 0, rows |-> 0, width |-> 0]
Batches == [id : 1..MaxBatches, rows : Nat \ {0}, width : Widths]

Init ==
    /\ at = "fetch" /\ chunk = ChunkRows /\ tuned = FALSE /\ base = None /\ count = 0
    /\ new = None /\ tbl = None /\ queue = <<>> /\ held = None

\* _fetch_one_batch: as many rows as asked for, or fewer at the end.
Fetch ==
    /\ at = "fetch" /\ count < MaxBatches
    /\ count' = count + 1
    /\ \E w \in Widths, r \in {1, chunk} :
            new' = [id |-> count', rows |-> r, width |-> w]
    /\ at' = "take" /\ UNCHANGED <<chunk, tuned, base, tbl, queue, held>>

\* There is no further row.
FetchEnd ==
    /\ at = "fetch" /\ at' = "end"
    /\ UNCHANGED <<chunk, tuned, base, count, new, tbl, queue, held>>

\* tbl is assigned.  The transform may filter every row; the first batch that is
\* left tunes the chunk, or fails to (the except of _auto_tune_chunk) and leaves it
\* as it is for good.
Take ==
    /\ at = "take" /\ new' = None
    /\ \/ tbl' = None /\ at' = "fetch" /\ UNCHANGED <<chunk, tuned, base>>
       \/ /\ tbl' = new /\ at' = "put" /\ tuned' = TRUE
          /\ \/ ~tuned /\ base' = new /\ chunk' = Tuned(new.width)
             \/ UNCHANGED <<base, chunk>>
    /\ UNCHANGED <<count, queue, held>>

\* Faulty variant of Put: the queue has no bound.
PutUnbounded ==
    /\ at = "put" /\ at' = "fetch"
    /\ queue' = Append(queue, tbl)
    /\ UNCHANGED <<chunk, tuned, base, count, new, tbl, held>>

\* The queue has room (maxsize=2).
Put ==
    /\ at = "put" /\ Len(queue) < 2 /\ at' = "fetch"
    /\ queue' = Append(queue, tbl)
    /\ UNCHANGED <<chunk, tuned, base, count, new, tbl, held>>

\* It has had none for two seconds: the batch is dropped, but not yet its table.
PutFull ==
    /\ at = "put" /\ Len(queue) = 2 /\ at' = "fetch"
    /\ chunk' = Shrunk(chunk)
    /\ UNCHANGED <<tuned, base, count, new, tbl, queue, held>>

\* The writer's next get.
Get ==
    /\ queue # <<>> /\ held' = Head(queue) /\ queue' = Tail(queue)
    /\ UNCHANGED <<at, chunk, tuned, base, count, new, tbl>>

\* The writer has ended on a sentinel, or the fetch thread's function returns.
Release ==
    /\ at = "end" /\ tbl' = None
    /\ held' = IF queue = <<>> THEN None ELSE held
    /\ UNCHANGED <<at, chunk, tuned, base, count, new, queue>>

Next == Fetch \/ FetchEnd \/ Take \/ Put \/ PutFull \/ Get \/ Release

Spec == Init /\ [][Next]_vars

-----------------------------------------------------------------------------
(* Properties.                                                             *)

\* What the tables take that the threads refer to, each counted as often as it is
\* referred to: the rows of later batches that are no wider than those the chunk
\* was tuned for.
Size(b) == IF b.id > base.id /\ b.width <= base.width THEN b.rows * b.width ELSE 0
Queued(i) == IF i \in DOMAIN queue THEN Size(queue[i]) ELSE 0
Peak == Size(new) + Size(tbl) + Queued(1) + Queued(2) + Size(held)

\* Every variable keeps its type.
TypeOK ==
    /\ at \in {"fetch", "take", "put", "end"}
    /\ chunk \in Nat \ {0} /\ tuned \in BOOLEAN /\ count \in 0..MaxBatches
    /\ {base, new, tbl, held} \subseteq Batches \cup {None}
    /\ queue \in Seq(Batches) /\ Len(queue) <= 2

\* However the threads run, and if the chunk could be tuned, the tables of batches
\* with rows no wider than those it was tuned for take no more than five quarters of
\* the shard's budget, unless 10000 rows take more: two are in the queue, one each
\* in the hands of the writer and of fetchmany, and one may have been dropped and
\* not yet let go.  When the tuning has failed nothing bounds them but chunk_rows.
PeakBounded == base # None => 4 * Peak <= 5 * Larger(Budget, 4 * 10000 * base.width)
=============================================================================
