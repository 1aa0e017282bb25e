----------------------------- MODULE RunReport -----------------------------
(***************************************************************************)
(* What an export says about itself when its shards are done: the manifest *)
(* at its default path (manifest.py, `_write_manifest` in operator.py) and *)
(* the totals that execute() returns (metrics.py).                         *)
(*                                                                         *)
(* Several exports write to one bucket, each an operator object of its     *)
(* own.  An object keeps its metrics, and one process may call execute()   *)
(* of it more than once (`dag.test()` with retries).  A path is the        *)
(* sequence of its characters.                                             *)
(***************************************************************************)
EXTENDS Integers, Sequences, SequencesExt

CONSTANTS
    Exports,
    Paths,          \* remote paths of shards, as render_path_template returns them
    MaxRows,        \* rows of one call
    MaxCalls        \* calls of execute() altogether (bounds the model)

VARIABLES
    paths,      \* the remote paths of each export's shards
    at,         \* what each export does next
    rows,       \* total over the results of the current call
    recorded,   \* total over _metrics.shards
    kept,       \* that of earlier calls
    answer,     \* total_rows that the last call has returned
    calls,
    object      \* the manifests in the bucket, by path

vars == <<paths, at, rows, recorded, kept, answer, calls, object>>

Slash == "/"

-----------------------------------------------------------------------------
(* manifest.py.                                                            *)

\* Faulty variant of CommonRemoteDir: the common prefix as it is.
CommonRemotePrefix(P) == LongestCommonPrefix(P)

\* common_remote_dir: the common prefix up to its last slash.
CommonRemoteDir(P) ==
    LET common == LongestCommonPrefix(P)
        slashes == {i \in DOMAIN common : common[i] = Slash}
    IN  IF slashes = {} THEN <<>>
        ELSE SubSeq(common, 1, (CHOOSE i \in slashes : \A j \in slashes : j <= i) - 1)

\* resolve_manifest_path without manifest_path, but for the file's name.
ManifestPath(e) == CommonRemoteDir(paths[e])

-----------------------------------------------------------------------------

Begin(p) ==
    /\ paths = p /\ at = [e \in Exports |-> "idle"]
    /\ rows = [e \in Exports |-> 0] /\ recorded = rows /\ kept = rows
    /\ answer = rows
    /\ calls = 0 /\ object = [p1 \in {} |-> <<>>]

Init ==
    \E p \in [Exports -> {{p1, p2} : p1 \in Paths, p2 \in Paths}] : Begin(p)

\* A call whose shards have all answered: their metrics are merged.  A call with
\* a failed shard records nothing.
RunShards(e) ==
    /\ at[e] = "idle" /\ calls < MaxCalls /\ calls' = calls + 1
    /\ \E n \in 0..MaxRows :
          /\ rows' = [rows EXCEPT ![e] = n]
          /\ kept' = [kept EXCEPT ![e] = recorded[e]]
          /\ recorded' = [recorded EXCEPT ![e] = @ + n]
    /\ at' = [at EXCEPT ![e] = "manifest"]
    /\ UNCHANGED <<paths, answer, object>>

\* Faulty variant of WriteManifest: it takes its total from the metrics.
WriteManifestOfMetrics(e) ==
    /\ at[e] = "manifest"
    /\ object' = [p \in DOMAIN object \cup {ManifestPath(e)} |->
            IF p = ManifestPath(e) THEN [of |-> e, total |-> recorded[e]] ELSE object[p]]
    /\ at' = [at EXCEPT ![e] = "return"]
    /\ UNCHANGED <<paths, rows, recorded, kept, answer, calls>>

\* build_manifest over the results of this call, and its upload, which may fail.
WriteManifest(e) ==
    /\ at[e] = "manifest"
    /\ \/ /\ object' = [p \in DOMAIN object \cup {ManifestPath(e)} |->
                IF p = ManifestPath(e) THEN [of |-> e, total |-> rows[e]] ELSE object[p]]
          /\ at' = [at EXCEPT ![e] = "return"]
       \/ at' = [at EXCEPT ![e] = "idle"] /\ UNCHANGED object
    /\ UNCHANGED <<paths, rows, recorded, kept, answer, calls>>

\* summary() and the return of execute().
Return(e) ==
    /\ at[e] = "return" /\ at' = [at EXCEPT ![e] = "idle"]
    /\ answer' = [answer EXCEPT ![e] = recorded[e]]
    /\ UNCHANGED <<paths, rows, recorded, kept, calls, object>>

Next == \E e \in Exports : RunShards(e) \/ WriteManifest(e) \/ Return(e)

Spec == Init /\ [][Next]_vars

-----------------------------------------------------------------------------
(* Properties.                                                             *)

\* Every variable keeps its type.
TypeOK ==
    /\ at \in [Exports -> {"idle", "manifest", "return"}] /\ calls \in 0..MaxCalls
    /\ \A total \in {rows, recorded, kept, answer} : total \in [Exports -> Nat]
    /\ \A p \in DOMAIN object : object[p].of \in Exports /\ object[p].total \in Nat

\* The directories that a path is in, the whole bucket apart.
Above(p) == {SubSeq(p, 1, i - 1) : i \in {j \in DOMAIN p : p[j] = Slash}}

\* The deepest directory that all files of P are in; <<>> is the whole bucket.
DeepestDir(P) ==
    LET common == {d \in UNION {Above(p) : p \in P} : \A p \in P : d \in Above(p)}
    IN  IF common = {} THEN <<>>
        ELSE CHOOSE d \in common : \A c \in common : Len(c) <= Len(d)

\* Where a manifest is written, all files it lists are below, in no deeper
\* directory, and it stays that of its export until one with files below the
\* same deepest directory writes its own: not one that only shares the beginning
\* of a name.
ManifestApart ==
    \A e \in Exports :
        at[e] = "return" =>
            LET d == DeepestDir(paths[e]) IN
            /\ d \in DOMAIN object
            /\ object[d].of # e => DeepestDir(paths[object[d].of]) = d

\* What a manifest lists is what this call adds to the total that execute() is
\* about to return: the total is true of the first call of an object only.
TotalsAgree ==
    \A e \in Exports : at[e] = "return" /\ object[ManifestPath(e)].of = e =>
        object[ManifestPath(e)].total = recorded[e] - kept[e]
=============================================================================
