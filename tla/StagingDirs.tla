---------------------------- MODULE StagingDirs ----------------------------
(***************************************************************************)
(* The local directories of exports that share one `tmp_dir`.              *)
(*                                                                         *)
(* Each shard writes its Parquet file in a directory of its own            *)
(* (`ShardWorker._run_inner`, parquet_io.py) and removes it at the end.  A *)
(* killed worker leaves its directory behind; therefore every execute()    *)
(* first removes the directories that have not changed for a day           *)
(* (`_clean_old_tmp_dirs`, operator.py), whoever has made them.            *)
(*                                                                         *)
(* An export is an execute() on this machine, of any task, with one shard  *)
(* at a time.  Of the file system the model knows what the code relies on: *)
(* a directory's mtime is that of its last new or removed entry, a file    *)
(* whose directory has gone can still be written to but not opened.        *)
(***************************************************************************)
EXTENDS Integers

CONSTANTS
    NumExports,     \* exports with this tmp_dir
    MaxDirs,        \* directory names (bounds the model)
    MaxFaults,      \* kills, failed removals and aborted cleanings (bounds the model)
    Day             \* 24 h, in ticks

ASSUME StagingAssumption ==
    /\ NumExports \in Nat \ {0} /\ MaxFaults \in Nat /\ Day \in Nat
    /\ MaxDirs \in Nat

Exports == 1..NumExports
Dirs == 1..MaxDirs
None == 0

VARIABLES
    at,         \* what each export does next
    todo,       \* directories its cleaner has listed and not looked at
    aged,       \* directories with an mtime more than a day before its `now`
    old,        \* the directory its cleaner is about to remove
    dir,        \* the directory of its running shard
    life,       \* how long the shard has had it
    rows,       \* its writer has been opened: the query had rows
    there,      \* the directories in tmp_dir
    age,        \* time since the mtime of each, up to a tick over a day
    file,       \* the directories with a Parquet file in them
    faults      \* what has gone wrong so far

disk == <<there, age, file>>
vars == <<at, todo, aged, old, dir, life, rows, disk, faults>>

Leftovers == {d \in there : \A e \in Exports : dir[e] # d}
Later(t) == IF t > Day THEN t ELSE t + 1

Init ==
    /\ at = [e \in Exports |-> "idle"]
    /\ todo = [e \in Exports |-> {}] /\ aged = todo
    /\ old = [e \in Exports |-> None]
    /\ dir = [e \in Exports |-> None] /\ life = [e \in Exports |-> 0]
    /\ rows = [e \in Exports |-> FALSE]
    /\ there = {} /\ age = [d \in Dirs |-> 0] /\ file = {} /\ faults = 0

Goes(e, p) == at' = [at EXCEPT ![e] = p]

Fault == faults < MaxFaults /\ faults' = faults + 1

\* d has a new mtime, or none.
Touched(d) ==
    /\ age' = [age EXCEPT ![d] = 0]
    /\ aged' = [e \in Exports |-> aged[e] \ {d}]

\* d is gone with what it holds.
Removed(d) == there' = there \ {d} /\ file' = file \ {d} /\ Touched(d)

\* shutil.rmtree(d, ignore_errors=True): it may get nowhere, or only as far as
\* the file.
RmTree(d) ==
    \/ Removed(d) /\ UNCHANGED faults
    \/ Fault /\ UNCHANGED <<aged, disk>>
    \/ /\ Fault /\ d \in file /\ file' = file \ {d}
       /\ Touched(d) /\ UNCHANGED there

\* Whatever d was.
Gone(d) == IF d \in there THEN RmTree(d) ELSE UNCHANGED <<aged, disk, faults>>

-----------------------------------------------------------------------------
(* The cleaner.                                                            *)

\* Faulty variant of Old: off by one tick.
OldEarly == {d \in there : age[d] >= Day}

\* now - getmtime(d) > 24 * 3600.
Old == {d \in there : age[d] > Day}

\* execute() begins: time.time() and os.listdir(tmp_dir).
StartExport(e) ==
    /\ at[e] = "idle" /\ Goes(e, "clean")
    /\ todo' = [todo EXCEPT ![e] = there] /\ aged' = [aged EXCEPT ![e] = Old]
    /\ UNCHANGED <<old, dir, life, rows, disk, faults>>

\* isdir() and getmtime() of a listed item.
CleanLook(e, d) ==
    /\ at[e] = "clean" /\ d \in todo[e]
    /\ todo' = [todo EXCEPT ![e] = @ \ {d}] /\ aged' = [aged EXCEPT ![e] = @ \ {d}]
    /\ IF d \in aged[e]
       THEN Goes(e, "remove") /\ old' = [old EXCEPT ![e] = d]
       ELSE UNCHANGED <<at, old>>
    /\ UNCHANGED <<dir, life, rows, disk, faults>>

\* An item that vanishes between the two calls ends the whole loop.
CleanAbort(e) ==
    /\ at[e] = "clean" /\ todo[e] \ there # {}
    /\ todo' = [todo EXCEPT ![e] = {}] /\ aged' = [aged EXCEPT ![e] = {}]
    /\ Fault /\ UNCHANGED <<at, old, dir, life, rows, disk>>

\* Faulty variant of CleanRemove: os.rmdir, which refuses what is not empty.
CleanRemoveEmpty(e, d) ==
    /\ at[e] = "remove" /\ d = old[e] /\ Goes(e, "clean")
    /\ IF d \in there \ file THEN Removed(d) /\ UNCHANGED faults
       ELSE UNCHANGED <<aged, disk, faults>>
    /\ old' = [old EXCEPT ![e] = None]
    /\ UNCHANGED <<todo, dir, life, rows>>

\* Its removal, without another look.
CleanRemove(e, d) ==
    /\ at[e] = "remove" /\ d = old[e] /\ Goes(e, "clean")
    /\ Gone(d)
    /\ old' = [old EXCEPT ![e] = None]
    /\ UNCHANGED <<todo, dir, life, rows>>

Cleaner(e) == \/ StartExport(e) \/ CleanAbort(e)
              \/ \E d \in Dirs : CleanLook(e, d) \/ CleanRemove(e, d)

-----------------------------------------------------------------------------
(* The shard.                                                              *)

\* Faulty variant of Fresh: a name of its own is not asked for.
FreshAny == Dirs

\* Names are random: not one that somebody still knows.
Fresh == Dirs \ (there \cup UNION {todo[e] \cup {old[e], dir[e]} : e \in Exports})

\* The loop of the cleaner is over; the health checks and all else before the
\* shard's tempfile.mkdtemp(dir=tmp_dir), and that call too, may raise.
MakeDir(e) ==
    /\ at[e] = "clean" /\ todo[e] = {}
    /\ \/ \E d \in Fresh :
             /\ \A f \in Fresh : d <= f
             /\ there' = there \cup {d} /\ dir' = [dir EXCEPT ![e] = d]
             /\ Goes(e, "fetch")
       \/ Goes(e, "idle") /\ UNCHANGED <<dir, there>>
    /\ UNCHANGED <<todo, aged, old, life, rows, age, file, faults>>

\* The first batch of the query opens the file, a new entry of the directory.
OpenWriter(e) ==
    /\ at[e] = "fetch" /\ dir[e] \in there /\ Goes(e, "write")
    /\ file' = file \cup {dir[e]} /\ Touched(dir[e])
    /\ rows' = [rows EXCEPT ![e] = TRUE]
    /\ UNCHANGED <<todo, old, dir, life, there, faults>>

\* The query is at its end, with or without a row; the rows have needed no more
\* than the open file.  _finalize takes a file that is not there for "no data".
LookForFile(e) ==
    /\ at[e] \in {"fetch", "write"}
    /\ IF dir[e] \in file THEN Goes(e, "upload") ELSE Goes(e, "empty")
    /\ UNCHANGED <<todo, aged, old, dir, life, rows, disk, faults>>

\* Size, MD5, validation and upload all open it.
UploadFile(e) ==
    /\ at[e] = "upload" /\ dir[e] \in file /\ Goes(e, "done")
    /\ UNCHANGED <<todo, aged, old, dir, life, rows, disk, faults>>

\* A step of the shard raises.
Fail(e) ==
    /\ at[e] \in {"fetch", "write", "upload"} /\ Goes(e, "done")
    /\ UNCHANGED <<todo, aged, old, dir, life, rows, disk, faults>>

\* The shard is over and forgets its directory.
Forget(e) ==
    /\ Goes(e, "idle") /\ dir' = [dir EXCEPT ![e] = None]
    /\ life' = [life EXCEPT ![e] = 0] /\ rows' = [rows EXCEPT ![e] = FALSE]

\* The exit stack.
Cleanup(e) ==
    /\ at[e] \in {"done", "empty"} /\ Forget(e)
    /\ Gone(dir[e])
    /\ UNCHANGED <<todo, old>>

Shard(e) == \/ MakeDir(e) \/ OpenWriter(e) \/ LookForFile(e) \/ UploadFile(e)
            \/ Fail(e) \/ Cleanup(e)

\* The worker is killed.
Kill(e) ==
    /\ dir[e] # None /\ Fault /\ Forget(e)
    /\ UNCHANGED <<todo, aged, old, disk>>

\* A shard runs as long as its query does.
Tick ==
    /\ age' = [d \in Dirs |-> IF d \in there THEN Later(age[d]) ELSE 0]
    /\ life' = [e \in Exports |-> IF dir[e] = None THEN 0 ELSE Later(life[e])]
    /\ UNCHANGED <<at, todo, aged, old, dir, rows, there, file, faults>>

Next == Tick \/ \E e \in Exports : Cleaner(e) \/ Shard(e) \/ Kill(e)

\* Time passes, the schedule goes on and every call returns.  None for faults, of
\* which there are MaxFaults.
Fairness == WF_vars(Tick) /\ \A e \in Exports : WF_vars(Cleaner(e)) /\ WF_vars(Shard(e))

Spec == Init /\ [][Next]_vars /\ Fairness

-----------------------------------------------------------------------------
(* Properties.                                                             *)

\* Every variable keeps its type, a running shard has a directory and no two
\* have the same.
TypeOK ==
    /\ at \in [Exports -> {"idle", "clean", "remove", "fetch", "write", "upload",
                           "done", "empty"}]
    /\ todo \in [Exports -> SUBSET Dirs] /\ aged \in [Exports -> SUBSET Dirs]
    /\ \A e \in Exports : aged[e] \subseteq todo[e] \cap there
    /\ old \in [Exports -> Dirs \cup {None}]
    /\ dir \in [Exports -> Dirs \cup {None}]
    /\ life \in [Exports -> 0..Day + 1] /\ rows \in [Exports -> BOOLEAN]
    /\ there \subseteq Dirs /\ file \subseteq there
    /\ age \in [Dirs -> 0..Day + 1] /\ faults \in 0..MaxFaults
    /\ \A e, f \in Exports : e # f /\ dir[e] # None => dir[e] # dir[f]

\* A shard that has run for no more than a day has its directory, and its file
\* once it has one, whatever the cleaners of other exports have listed and read
\* when; it says "no data" only of a query without rows.
SafeForADay ==
    \A e \in Exports : dir[e] # None /\ life[e] <= Day =>
        /\ dir[e] \in there
        /\ rows[e] => dir[e] \in file /\ at[e] # "empty"

\* Nothing that a killed worker or a failed removal leaves behind stays for ever,
\* even if cleaners race each other.
LeftoversGo == \A d \in Dirs : []<>(d \notin Leftovers)

-----------------------------------------------------------------------------
(* What the documentation says and the code does not do (see README).      *)

\* The docstring at operator.py:586: the cleaner removes leftovers.
OnlyLeftovers == \A e \in Exports : dir[e] # None => dir[e] \in there
=============================================================================
