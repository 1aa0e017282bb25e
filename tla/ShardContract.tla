--------------------------- MODULE ShardContract ---------------------------
(***************************************************************************)
(* What the operator may rely on when it runs one shard, whatever happens  *)
(* inside `ShardWorker.run` (parquet_io.py):                               *)
(*                                                                         *)
(*   - the object store is touched only after the shard has committed, and *)
(*     then it receives the complete file or nothing;                      *)
(*   - a shard commits only if no thread of it has failed and it has not   *)
(*     been cancelled;                                                     *)
(*   - "cancelled" is the answer only of a shard that was cancelled and    *)
(*     did not fail by itself: a failure is always reported as one.        *)
(***************************************************************************)
VARIABLES
    phase,      \* working, committed, or the answer that run() has given
    failed,     \* a thread of the shard has recorded a failure
    cancelled,  \* the operator has cancelled the shard
    object      \* what this run has put in the object store

vars == <<phase, failed, cancelled, object>>

Answers == {"uploaded", "empty", "cancelled", "raised"}

Init ==
    /\ phase = "working" /\ failed = FALSE /\ cancelled = FALSE
    /\ object = "nothing"

Fail ==
    /\ phase = "working" /\ failed' = TRUE
    /\ UNCHANGED <<phase, cancelled, object>>

Cancel ==
    /\ cancelled' = TRUE
    /\ UNCHANGED <<phase, failed, object>>

Commit ==
    /\ phase = "working" /\ ~failed /\ ~cancelled
    /\ phase' = "committed"
    /\ UNCHANGED <<failed, cancelled, object>>

Upload ==
    /\ phase = "committed"
    /\ \/ phase' = "uploaded" /\ object' = "whole"
       \/ phase' = "raised" /\ object' \in {"nothing", "whole"}
    /\ UNCHANGED <<failed, cancelled>>

\* A query without rows has nothing to upload.
AnswerEmpty ==
    /\ phase = "committed" /\ phase' = "empty"
    /\ UNCHANGED <<failed, cancelled, object>>

AnswerCancelled ==
    /\ phase = "working" /\ cancelled /\ ~failed
    /\ phase' = "cancelled"
    /\ UNCHANGED <<failed, cancelled, object>>

AnswerRaised ==
    /\ phase \notin Answers
    /\ phase' = "raised"
    /\ UNCHANGED <<failed, cancelled, object>>

Next == \/ Fail \/ Cancel \/ Commit \/ Upload
        \/ AnswerEmpty \/ AnswerCancelled \/ AnswerRaised

Spec == Init /\ [][Next]_vars
=============================================================================
