---------------------------- MODULE UploadRetry ----------------------------
(***************************************************************************)
(* Uploads of one remote path: `_UploadHost.upload` (shard_task.py) under  *)
(* `with_retries` (retry.py), on the built-in backends (uploaders/).       *)
(*                                                                         *)
(* A writer is one call of upload() for this path: a try of the task, the  *)
(* zombie of an earlier one that still runs, or a second shard with the    *)
(* same path.  Every request may reach the store and lose its answer, and  *)
(* a writer may be killed between two requests.                            *)
(*                                                                         *)
(* The store is external.  A put (S3, GCS, small Azure files) replaces the *)
(* object at once.  For large files the Azure uploader stages blocks under *)
(* ids 0, 1, 2, ..., the same for every writer, and commits their list:    *)
(* the service takes for each id the staged block if there is one, else    *)
(* the one of the committed object, and forgets the other staged blocks.   *)
(***************************************************************************)
EXTENDS Integers, Sequences

CONSTANTS
    NumWriters,     \* calls of upload() for the path
    MaxBlocks,      \* largest file, in blocks
    SimpleLimit,    \* Azure files below this size are put at once
    UploadRetries   \* RetryOptions.upload_retries

ASSUME UploadAssumption ==
    /\ NumWriters \in Nat \ {0} /\ MaxBlocks \in Nat \ {0}
    /\ SimpleLimit \in Nat /\ UploadRetries \in Nat

Writers == 1..NumWriters
Nobody == 0

VARIABLES
    backend,    \* azure, s3 or gcs
    overwrite,  \* the overwrite option
    skipIfExists,
    size,       \* blocks of each writer's file
    at,         \* what each writer does next
    attempt,    \* failed attempts of each writer
    next,       \* blocks that the current attempt has staged
    object,     \* who wrote each block of the object; <<>>: no object
    inBlocks,   \* the object was committed from a block list
    staged,     \* who staged each uncommitted block
    landed,     \* writers whose upload has taken effect
    overlapped  \* two block uploads have been under way at the same time

config == <<backend, overwrite, skipIfExists, size>>
store == <<object, inBlocks, staged, landed>>
vars == <<config, at, attempt, next, store, overlapped>>

NothingStaged == [b \in 1..MaxBlocks |-> Nobody]
Whole(w) == [b \in 1..size[w] |-> w]
InFlight == {"attempt", "put", "stage", "backoff"}

Init ==
    /\ backend \in {"azure", "s3", "gcs"}
    /\ overwrite \in BOOLEAN /\ skipIfExists \in BOOLEAN
    /\ size \in [Writers -> 1..MaxBlocks]
    /\ at = [w \in Writers |-> "idle"]
    /\ attempt = [w \in Writers |-> 0] /\ next = [w \in Writers |-> 0]
    /\ object = <<>> /\ inBlocks = FALSE /\ staged = NothingStaged
    /\ landed = {} /\ overlapped = FALSE

-----------------------------------------------------------------------------
(* The probe and the retry loop.                                           *)

Exists == object # <<>>

\* execute_shard asks exists(), which answers "no" when it fails.
Probe(w) ==
    /\ at[w] = "idle"
    /\ \/ at' = [at EXCEPT ![w] = "attempt"]
       \/ skipIfExists /\ Exists /\ at' = [at EXCEPT ![w] = "skipped"]
    /\ UNCHANGED <<config, attempt, next, store, overlapped>>

Returns(w) == at' = [at EXCEPT ![w] = "returned"] /\ UNCHANGED attempt

\* Faulty variant of Fails: the last exception is logged, not raised.
FailsQuietly(w) ==
    /\ attempt' = [attempt EXCEPT ![w] = @ + 1]
    /\ at' = [at EXCEPT ![w] = IF attempt'[w] > UploadRetries THEN "returned" ELSE "backoff"]

\* Faulty variant of Fails: an attempt too many.
FailsLate(w) ==
    /\ attempt' = [attempt EXCEPT ![w] = @ + 1]
    /\ at' = [at EXCEPT ![w] = IF attempt'[w] > UploadRetries + 1 THEN "raised" ELSE "backoff"]

\* Faulty variant of Fails: the attempts are not counted.
FailsForever(w) ==
    /\ at' = [at EXCEPT ![w] = "backoff"]
    /\ UNCHANGED attempt

\* The attempt raises: upload() raises too or sleeps before the next one.
Fails(w) ==
    /\ attempt' = [attempt EXCEPT ![w] = @ + 1]
    /\ at' = [at EXCEPT ![w] = IF attempt'[w] > UploadRetries THEN "raised" ELSE "backoff"]

Wake(w) ==
    /\ at[w] = "backoff" /\ at' = [at EXCEPT ![w] = "attempt"]
    /\ UNCHANGED <<config, attempt, next, store, overlapped>>

-----------------------------------------------------------------------------
(* One attempt.                                                            *)

Simple(w) == backend # "azure" \/ size[w] < SimpleLimit

\* Faulty variant of Attempt: a retry goes on after the last block it staged.
AttemptResumed(w) ==
    /\ at[w] = "attempt"
    /\ IF Simple(w)
       THEN at' = [at EXCEPT ![w] = "put"] /\ UNCHANGED <<next, overlapped>>
       ELSE /\ at' = [at EXCEPT ![w] = "stage"] /\ UNCHANGED next
            /\ overlapped' = (overlapped \/ \E v \in Writers \ {w} : at[v] = "stage")
    /\ UNCHANGED <<config, attempt, store>>

\* The hook is resolved and the size chooses the way.  Resolving may raise.
Attempt(w) ==
    /\ at[w] = "attempt"
    /\ \/ /\ Simple(w)
          /\ at' = [at EXCEPT ![w] = "put"]
          /\ UNCHANGED <<attempt, next, overlapped>>
       \/ /\ ~Simple(w)
          /\ at' = [at EXCEPT ![w] = "stage"] /\ next' = [next EXCEPT ![w] = 0]
          /\ overlapped' = (overlapped \/ \E v \in Writers \ {w} : at[v] = "stage")
          /\ UNCHANGED attempt
       \/ Fails(w) /\ UNCHANGED <<next, overlapped>>
    /\ UNCHANGED <<config, store>>

\* The store replaces the object, with or without an answer, or it does not.
PutObject(w) ==
    /\ \/ /\ object' = Whole(w) /\ inBlocks' = FALSE
          /\ staged' = NothingStaged /\ landed' = landed \cup {w}
          /\ Returns(w) \/ Fails(w)
       \/ Fails(w) /\ UNCHANGED store
    /\ UNCHANGED <<config, next, overlapped>>

\* Azure's upload_blob: refused for an object that is there, unless `overwrite`.
PutBlob(w) ==
    /\ at[w] = "put" /\ backend = "azure"
    /\ IF overwrite \/ object = <<>> THEN PutObject(w)
       ELSE Fails(w) /\ UNCHANGED <<config, next, store, overlapped>>

\* boto3's upload_file, whatever `overwrite` says.
UploadFile(w) == at[w] = "put" /\ backend = "s3" /\ PutObject(w)

\* GCSHook.upload or Blob.upload_from_filename, whatever `overwrite` says.
UploadGcs(w) == at[w] = "put" /\ backend = "gcs" /\ PutObject(w)

\* stage_block of the next block.
StageBlock(w) ==
    /\ at[w] = "stage" /\ next[w] < size[w]
    /\ \/ /\ staged' = [staged EXCEPT ![next[w] + 1] = w]
          /\ \/ next' = [next EXCEPT ![w] = @ + 1] /\ UNCHANGED <<at, attempt>>
             \/ Fails(w) /\ UNCHANGED next
       \/ Fails(w) /\ UNCHANGED <<next, staged>>
    /\ UNCHANGED <<config, object, inBlocks, landed, overlapped>>

\* The block that the service finds for an id.
Latest(b) ==
    IF staged[b] # Nobody THEN staged[b]
    ELSE IF inBlocks /\ b <= Len(object) THEN object[b] ELSE Nobody

\* commit_block_list, whatever `overwrite` says.  An unknown id is refused.
Commit(w) ==
    /\ at[w] = "stage" /\ next[w] = size[w]
    /\ \/ /\ \A b \in 1..size[w] : Latest(b) # Nobody
          /\ object' = [b \in 1..size[w] |-> Latest(b)] /\ inBlocks' = TRUE
          /\ staged' = NothingStaged /\ landed' = landed \cup {w}
          /\ Returns(w) \/ Fails(w)
       \/ Fails(w) /\ UNCHANGED store
    /\ UNCHANGED <<config, next, overlapped>>

\* The task or its worker process is killed.
Kill(w) ==
    /\ at[w] \in InFlight /\ at' = [at EXCEPT ![w] = "killed"]
    /\ UNCHANGED <<config, attempt, next, store, overlapped>>

Upload(w) ==
    \/ Attempt(w) \/ PutBlob(w) \/ UploadFile(w) \/ UploadGcs(w)
    \/ StageBlock(w) \/ Commit(w) \/ Wake(w)

Ended == {"returned", "raised", "skipped", "killed"}

Terminated == (\A w \in Writers : at[w] \in Ended) /\ UNCHANGED vars

Next == (\E w \in Writers : Probe(w) \/ Upload(w) \/ Kill(w)) \/ Terminated

\* Every request of a storage client returns or raises, and sleep() returns.
Fairness == \A w \in Writers : WF_vars(Upload(w))

Spec == Init /\ [][Next]_vars /\ Fairness

-----------------------------------------------------------------------------
(* Properties.                                                             *)

\* Every variable keeps its type, and no writer tries more often than allowed.
TypeOK ==
    /\ backend \in {"azure", "s3", "gcs"}
    /\ overwrite \in BOOLEAN /\ skipIfExists \in BOOLEAN
    /\ size \in [Writers -> 1..MaxBlocks]
    /\ at \in [Writers -> InFlight \cup Ended \cup {"idle"}]
    /\ attempt \in [Writers -> 0..UploadRetries + 1]
    /\ next \in [Writers -> 0..MaxBlocks]
    /\ object \in Seq(Writers) /\ Len(object) <= MaxBlocks
    /\ inBlocks \in BOOLEAN /\ overlapped \in BOOLEAN
    /\ staged \in [1..MaxBlocks -> Writers \cup {Nobody}]
    /\ landed \subseteq Writers

\* The object is always the whole file of one writer, although a lost answer
\* repeats the upload, a killed writer leaves staged blocks behind, and all
\* writers use the same block ids.  The one exception is two block uploads of
\* the path that are under way at the same time.
OneVersion ==
    overlapped \/ object = <<>> \/ \E w \in landed : object = Whole(w)

\* A URI is returned only for a file that has reached the store; if no other
\* upload of the path has, it is still there.
ReturnedIsThere ==
    \A w \in Writers : at[w] = "returned" =>
        w \in landed /\ (landed = {w} => overlapped \/ object = Whole(w))

\* A lost or refused upload never makes the retries go on for ever, whatever the
\* other writers do to the staged blocks: upload() returns, raises or is killed.
UploadEnds == \A w \in Writers : at[w] = "attempt" ~> at[w] \in Ended
=============================================================================
