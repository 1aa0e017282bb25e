----------------------------- MODULE ShardPool -----------------------------
(***************************************************************************)
(* All the shards of one export: `_run_shards` (operator.py) and           *)
(* `execute_shard` (shard_task.py) on a pool of `concurrent.futures`.      *)
(*                                                                         *)
(* The operator submits the shards in order, waits for the first           *)
(* exception, then cancels what it can and waits for the rest.  A shard    *)
(* first looks whether its object is already there (skip_if_exists) and    *)
(* then behaves as ShardContract allows.  The pool belongs to the standard *)
(* library; it is modelled by the states of its futures:                   *)
(*                                                                         *)
(*   pending    in the pool's work queue, can still be cancelled           *)
(*   running    handed to a worker, or already in the call queue of the    *)
(*              worker processes; cancel() has no effect any more          *)
(*   cancelled  cancel() came first, no worker has seen it yet             *)
(*   dropped    a worker has taken it from the queue and thrown it away    *)
(*   result, exception                                                     *)
(***************************************************************************)
EXTENDS Integers, FiniteSets

CONSTANTS
    NumShards,      \* len(shards); shard s is submitted as number s
    MaxWorkers      \* largest ShardOptions.max_workers

ASSUME PoolAssumption ==
    /\ NumShards \in Nat \ {0}
    /\ MaxWorkers \in Nat \ {0}

Shards == 1..NumShards

VARIABLES
    threads,        \* execution_mode is "threads", otherwise "processes"
    workers,        \* ShardOptions.max_workers
    skipIfExists,   \* the skip_if_exists option
    operator,   \* what _run_shards does next
    interrupts, \* exceptions raised from outside in _run_shards: at most two
    submitted,  \* shards submitted so far
    future,     \* the future of each shard
    shard,      \* how far each shard is
    cancel,     \* the shared event ("threads" only)
    done,       \* the futures that the first wait() returned as done
    toCancel,   \* not_done futures whose cancel() has not been called yet
    broken,     \* a worker process has died and the pool with it
    present,    \* shards whose object is in the store
    put         \* shards whose object this run has put there

config == <<threads, workers, skipIfExists>>
runVars == <<config, operator, interrupts, submitted, cancel, done, toCancel>>
vars == <<runVars, future, shard, broken, present, put>>

Active == {"probe", "working", "committed"}     \* execute_shard is running
Settled == {"none", "result", "exception", "dropped"}
Running == {s \in Shards : shard[s] \in Active}

\* Calls that the processes pool takes out of its work queue ahead of its
\* workers: the size of its call queue.
Lookahead == IF threads THEN 0 ELSE workers + 1
HandedOver == {s \in Shards : future[s] = "running" /\ shard[s] = "idle"}

Init ==
    /\ threads \in BOOLEAN /\ workers \in 1..MaxWorkers /\ skipIfExists \in BOOLEAN
    /\ operator = "submit" /\ interrupts = 0 /\ submitted = 0
    /\ future = [s \in Shards |-> "none"] /\ shard = [s \in Shards |-> "idle"]
    /\ cancel = FALSE /\ done = {} /\ toCancel = {} /\ broken = FALSE
    /\ present \in SUBSET Shards /\ put = {}

-----------------------------------------------------------------------------
(* The operator: _run_shards.                                              *)

ShardFrame == UNCHANGED <<config, shard, broken, present, put>>

\* The loop of pool.submit.  A broken pool refuses.
Submit ==
    /\ operator = "submit"
    /\ \/ /\ submitted < NumShards /\ ~broken
          /\ submitted' = submitted + 1
          /\ future' = [future EXCEPT ![submitted'] = "pending"]
          /\ UNCHANGED operator
       \/ /\ submitted < NumShards /\ broken
          /\ operator' = "failing"
          /\ UNCHANGED <<submitted, future>>
       \/ /\ submitted = NumShards
          /\ operator' = "wait"
          /\ UNCHANGED <<submitted, future>>
    /\ UNCHANGED <<interrupts, cancel, done, toCancel>> /\ ShardFrame

\* wait(..., FIRST_EXCEPTION) returns and its done set is searched for an
\* exception.
WaitReturns ==
    /\ operator = "wait"
    /\ \/ \E s \in Shards : future[s] = "exception"
       \/ \A s \in Shards : future[s] \in Settled
    /\ done' = {s \in Shards : future[s] \in {"result", "exception"}}
    /\ operator' = IF \E s \in done' : future[s] = "exception" THEN "cancel" ELSE "collect"
    /\ UNCHANGED <<interrupts, submitted, future, cancel, toCancel>> /\ ShardFrame

\* cancel.set(), in threads mode.
SetCancel ==
    /\ operator = "cancel" /\ operator' = "cancelFutures"
    /\ cancel' = threads /\ toCancel' = Shards \ done
    /\ UNCHANGED <<interrupts, submitted, future, done>> /\ ShardFrame

\* f.cancel() for each future of not_done.
CancelFuture ==
    /\ operator = "cancelFutures"
    /\ \E s \in toCancel :
          /\ toCancel' = toCancel \ {s}
          /\ future' = IF future[s] = "pending" THEN [future EXCEPT ![s] = "cancelled"]
                                                ELSE future
    /\ UNCHANGED <<operator, interrupts, submitted, cancel, done>> /\ ShardFrame

\* Faulty variant of Drained: the results of the survivors are returned.
DrainedAndCollected ==
    /\ operator = "cancelFutures" /\ toCancel = {}
    /\ \A s \in Shards \ done : future[s] \in Settled
    /\ operator' = "returning"
    /\ UNCHANGED <<interrupts, submitted, future, cancel, done, toCancel>> /\ ShardFrame

\* Faulty variant of Drained: it waits for a result of every shard, which a
\* cancelled future never has.
DrainedOfResults ==
    /\ operator = "cancelFutures" /\ toCancel = {}
    /\ \A s \in Shards \ done : future[s] \in {"result", "exception"}
    /\ operator' = "failing"
    /\ UNCHANGED <<interrupts, submitted, future, cancel, done, toCancel>> /\ ShardFrame

\* wait(not_done) returns and the first exception is raised.
Drained ==
    /\ operator = "cancelFutures" /\ toCancel = {}
    /\ \A s \in Shards \ done : future[s] \in Settled
    /\ operator' = "failing"
    /\ UNCHANGED <<interrupts, submitted, future, cancel, done, toCancel>> /\ ShardFrame

\* Results and metrics are collected; result() raises for a failed future.
Collect ==
    /\ operator = "collect"
    /\ operator' = IF \E s \in Shards : future[s] = "exception" THEN "failing" ELSE "returning"
    /\ UNCHANGED <<interrupts, submitted, future, cancel, done, toCancel>> /\ ShardFrame

\* Airflow's timeout or a signal raises in the main thread.  Nothing on this path
\* sets the cancel event.  The finally then waits in pool.shutdown(), and a second
\* exception raised there ends the run, while the pool goes on with its queue.
Interrupt ==
    /\ operator \notin {"returned", "raised"}
    /\ operator' = IF operator \in {"returning", "failing"} THEN "raised" ELSE "failing"
    /\ interrupts' = interrupts + 1
    /\ UNCHANGED <<submitted, future, cancel, done, toCancel>> /\ ShardFrame

\* Faulty variant of Shutdown: shutdown(wait=False).
ShutdownAtOnce ==
    /\ operator \in {"returning", "failing"}
    /\ operator' = IF operator = "returning" THEN "returned" ELSE "raised"
    /\ UNCHANGED <<interrupts, submitted, future, cancel, done, toCancel>> /\ ShardFrame

\* finally: pool.shutdown(wait=True), which lets the workers empty the queue.
Shutdown ==
    /\ operator \in {"returning", "failing"}
    /\ \A s \in Shards : future[s] \in Settled
    /\ operator' = IF operator = "returning" THEN "returned" ELSE "raised"
    /\ UNCHANGED <<interrupts, submitted, future, cancel, done, toCancel>> /\ ShardFrame

Operator == \/ Submit \/ WaitReturns \/ SetCancel \/ CancelFuture \/ Drained
            \/ Collect \/ Shutdown

-----------------------------------------------------------------------------
(* The pool.                                                               *)

\* The oldest entry of the work queue.
IsNext(s) ==
    /\ future[s] \in {"pending", "cancelled"}
    /\ \A t \in 1..(s - 1) : future[t] \notin {"pending", "cancelled"}

\* A cancelled entry is taken from the queue and thrown away.
Drop(s) ==
    /\ IsNext(s) /\ future[s] = "cancelled" /\ ~broken
    /\ threads => Cardinality(Running) < workers
    /\ future' = [future EXCEPT ![s] = "dropped"]
    /\ UNCHANGED <<runVars, shard, broken, present, put>>

\* processes: an entry moves to the call queue, from where it cannot be
\* cancelled.
HandOver(s) ==
    /\ ~threads /\ IsNext(s) /\ future[s] = "pending" /\ ~broken
    /\ Cardinality(HandedOver) < Lookahead
    /\ future' = [future EXCEPT ![s] = "running"]
    /\ UNCHANGED <<runVars, shard, broken, present, put>>

\* Faulty variant of Start: the size of the pool is ignored.
StartUnbounded(s) ==
    /\ IF threads THEN IsNext(s) /\ future[s] = "pending"
                  ELSE s \in HandedOver /\ \A t \in HandedOver : s <= t
    /\ ~broken
    /\ future' = [future EXCEPT ![s] = "running"]
    /\ shard' = [shard EXCEPT ![s] = "probe"]
    /\ UNCHANGED <<runVars, broken, present, put>>

\* A free worker calls execute_shard.
Start(s) ==
    /\ IF threads THEN IsNext(s) /\ future[s] = "pending"
                  ELSE s \in HandedOver /\ \A t \in HandedOver : s <= t
    /\ Cardinality(Running) < workers /\ ~broken
    /\ future' = [future EXCEPT ![s] = "running"]
    /\ shard' = [shard EXCEPT ![s] = "probe"]
    /\ UNCHANGED <<runVars, broken, present, put>>

\* A worker process dies under its shard: the pool terminates the others and
\* fails every open future with BrokenProcessPool.  An upload that was under way
\* may have landed.  A death while a cancelled future is still in the queue is
\* left out: whether the library settles that one depends on its version.
BreakPool ==
    /\ ~threads /\ Running # {} /\ ~broken /\ broken' = TRUE
    /\ \A s \in Shards : future[s] # "cancelled"
    /\ future' = [s \in Shards |->
                    IF future[s] \in {"pending", "running"} THEN "exception" ELSE future[s]]
    /\ shard' = [s \in Shards |-> IF s \in Running THEN "killed" ELSE shard[s]]
    /\ \E landed \in SUBSET {s \in Shards : shard[s] = "committed"} :
          present' = present \cup landed /\ put' = put \cup landed
    /\ UNCHANGED runVars

-----------------------------------------------------------------------------
(* One shard: execute_shard.                                               *)

\* The shard goes on in phase p; a phase that ends it settles its future.
Goes(s, p) ==
    /\ shard' = [shard EXCEPT ![s] = p]
    /\ future' = CASE p = "raised" -> [future EXCEPT ![s] = "exception"]
                   [] p \in Active -> future
                   [] OTHER        -> [future EXCEPT ![s] = "result"]

\* The hook and the uploader are resolved, then the existence of the object is
\* probed.  A probe that fails counts as "not there".  The cancel event is not
\* looked at.
Probe(s) ==
    /\ shard[s] = "probe" /\ ~broken
    /\ \/ Goes(s, "raised")
       \/ Goes(s, "working")
       \/ skipIfExists /\ s \in present /\ Goes(s, "skipped")
    /\ UNCHANGED <<runVars, broken, present, put>>

\* Faulty variant of Work: the cancel event does not reach the worker.
WorkUncancelled(s) ==
    /\ shard[s] = "working" /\ ~broken
    /\ \/ Goes(s, "raised")
       \/ Goes(s, "committed")
    /\ UNCHANGED <<runVars, broken, present, put>>

\* ShardWorker.run until both of its checks are passed (ShardContract).
Work(s) ==
    /\ shard[s] = "working" /\ ~broken
    /\ \/ Goes(s, "raised")
       \/ cancel /\ Goes(s, "cancelled")
       \/ ~cancel /\ Goes(s, "committed")
    /\ UNCHANGED <<runVars, broken, present, put>>

\* The rest of it: no data, or an upload that may fail after it has landed.
UploadShard(s) ==
    /\ shard[s] = "committed" /\ ~broken
    /\ \/ Goes(s, "empty") /\ UNCHANGED <<present, put>>
       \/ Goes(s, "raised") /\ UNCHANGED <<present, put>>
       \/ /\ Goes(s, "uploaded") \/ Goes(s, "raised")
          /\ present' = present \cup {s} /\ put' = put \cup {s}
    /\ UNCHANGED <<runVars, broken>>

Worker(s) == Probe(s) \/ Work(s) \/ UploadShard(s)

Terminated ==
    operator \in {"returned", "raised"} /\ UNCHANGED vars

Next ==
    \/ Operator \/ Interrupt \/ BreakPool \/ Terminated
    \/ \E s \in Shards : Drop(s) \/ HandOver(s) \/ Start(s) \/ Worker(s)

\* The main thread runs, the pool serves its queue, a running shard comes to an
\* end (ShardPipeline: with a timeout it always does).
Fairness ==
    /\ WF_vars(Operator)
    /\ \A s \in Shards : WF_vars(Drop(s) \/ HandOver(s) \/ Start(s)) /\ WF_vars(Worker(s))

Spec == Init /\ [][Next]_vars /\ Fairness

-----------------------------------------------------------------------------
(* Properties.                                                             *)

Phases == Active \cup {"idle", "skipped", "uploaded", "empty", "cancelled", "raised", "killed"}

\* Every variable keeps its type; a future has a result or a running call only
\* if the shard agrees, and the pool never runs more shards than it has workers.
TypeOK ==
    /\ threads \in BOOLEAN /\ workers \in 1..MaxWorkers /\ skipIfExists \in BOOLEAN
    /\ operator \in {"submit", "wait", "cancel", "cancelFutures", "collect", "returning",
                     "failing", "returned", "raised"}
    /\ interrupts \in 0..2
    /\ submitted \in 0..NumShards
    /\ future \in [Shards -> Settled \cup {"pending", "running", "cancelled"}]
    /\ shard \in [Shards -> Phases]
    /\ cancel \in BOOLEAN /\ broken \in BOOLEAN
    /\ done \subseteq Shards /\ toCancel \subseteq Shards
    /\ present \subseteq Shards /\ put \subseteq present
    /\ Cardinality(Running) <= workers

\* A list of results is returned only if every shard is accounted for: its
\* object was put by this run or found by the probe, or its query had no row.
\* No failed, cancelled, killed or never started shard is in a success.
ReturnIsComplete ==
    operator = "returned" =>
        \A s \in Shards : \/ shard[s] = "uploaded" /\ s \in put
                          \/ shard[s] = "skipped" /\ s \in present
                          \/ shard[s] = "empty"

\* After _run_shards has ended, whether it returned, failed or was interrupted at
\* any point, no shard runs and none is left in the queue to touch the store later;
\* unless it was interrupted twice, the second time out of the shutdown that the
\* first one had to wait for.
NothingOutlivesRun ==
    operator \in {"returned", "raised"} /\ interrupts < 2 =>
        Running = {} /\ \A s \in Shards : future[s] \in Settled

\* The failure of a shard makes the run fail, whatever the siblings are doing
\* and wherever they are in the queue.
FailureEndsRun ==
    (\E s \in Shards : future[s] = "exception") ~> (operator = "raised")

\* The run ends: no combination of cancelled, dropped and finished futures
\* leaves the operator in one of its three waits.
Termination == <>(operator \in {"returned", "raised"})

\* Each shard behaves to the pool as ShardContract allows, so that what holds of
\* the pool holds of it with ShardPipeline inside.
ContractPhase(s) ==
    CASE shard[s] \in {"idle", "probe", "working", "skipped"} -> "working"
      [] shard[s] = "committed"                              -> "committed"
      [] shard[s] = "killed"                                 -> "raised"
      [] OTHER                                               -> shard[s]

ShardOf(s) == INSTANCE ShardContract
    WITH phase <- ContractPhase(s), failed <- FALSE, cancelled <- cancel,
         object <- IF s \in put THEN "whole" ELSE "nothing"

ShardsKeepContract ==
    /\ \A s \in Shards : ShardOf(s)!Init
    /\ [][\A s \in Shards : ShardOf(s)!Next \/ UNCHANGED ShardOf(s)!vars]_vars
=============================================================================
