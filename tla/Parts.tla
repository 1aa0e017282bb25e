------------------------------- MODULE Parts -------------------------------
(***************************************************************************)
(* The small components side by side, each with variables of its own, and  *)
(* what is said of them.  ChunkTuning keeps its names; the others have     *)
(* prefixes.                                                               *)
(***************************************************************************)
EXTENDS ChunkTuning

CONSTANTS
    \* of Preflight
    Names,
    \* of RunReport
    Exports, Paths, ReportRows, ReportCalls,
    \* of Templating
    SqlParams, Contexts, ShardMaps, TemplateCalls

ASSUME PartsAssumption ==
    /\ ReportRows \in Nat /\ ReportCalls \in Nat /\ TemplateCalls \in Nat
    /\ \A p \in Paths : p \in Seq(STRING)
    /\ \A m \in SqlParams \cup Contexts \cup ShardMaps : \A p \in DOMAIN m :
          p \in Seq(Seq(STRING)) \ {<<>>}

VARIABLES
    a_at, a_hook, a_conn, a_cursor, a_state, a_offers, a_closable,
    p_at, p_hook, p_named, p_rights, p_plugins, p_registry, p_next, p_uploader,
    p_probe, p_fault,
    r_paths, r_at, r_rows, r_recorded, r_kept, r_answer, r_calls, r_object,
    t_mode, t_shard, t_sqlParams, t_at, t_context, t_window, t_env

Adapter == INSTANCE DbAdapter WITH at <- a_at, hook <- a_hook, conn <- a_conn,
    cursor <- a_cursor, state <- a_state, offers <- a_offers, closable <- a_closable

Pre == INSTANCE Preflight WITH at <- p_at, hook <- p_hook, named <- p_named,
    rights <- p_rights, plugins <- p_plugins, registry <- p_registry, next <- p_next,
    uploader <- p_uploader, probe <- p_probe, fault <- p_fault

\* Names tell the plugins from each other and from what is built in.
ASSUME NamesAssumption ==
    /\ Names \in Seq(STRING)
    /\ \A i, j \in DOMAIN Names : Names[i] = Names[j] => i = j
    /\ \A i \in DOMAIN Names : Names[i] \notin DOMAIN Pre!BuiltIn \cup {Pre!None}

Report == INSTANCE RunReport WITH MaxRows <- ReportRows, MaxCalls <- ReportCalls,
    paths <- r_paths, at <- r_at, rows <- r_rows, recorded <- r_recorded,
    kept <- r_kept, answer <- r_answer, calls <- r_calls, object <- r_object

Templates == INSTANCE Templating WITH MaxCalls <- TemplateCalls,
    mode <- t_mode, shard <- t_shard, sqlParams <- t_sqlParams,
    at <- t_at, context <- t_context, window <- t_window, env <- t_env

\* Every variable of the five components keeps its type, the bound of the queue among
\* them.
PartsTypeOK == TypeOK /\ Adapter!TypeOK /\ Pre!TypeOK /\ Report!TypeOK /\ Templates!TypeOK

\* A shard that got its cursor has closed what can be closed, but for a connection of
\* the hook that was rejected (UniversalDbAdapter.close).
Released == Adapter!Released

\* Plugins never replace or disturb a built-in uploader (resolve_uploader).
PluginsOnlyAdd == Pre!PluginsOnlyAdd

\* What credentials pass and fail a health check.
VerdictMeans == Pre!VerdictMeans

\* A health check removes its probe object if it can.
ProbeRemoved == Pre!ProbeRemoved

\* A default manifest is where its files are, and no other export's files bring
\* another one there (common_remote_dir).
ManifestApart == Report!ManifestApart

\* Manifest and returned total agree but for earlier calls (ExportMetrics).
TotalsAgree == Report!TotalsAgree

\* Every SQL and path is rendered with the window of its own call
\* (_prepare_incremental_context).
WindowInEffect == Templates!WindowInEffect

\* No value takes another one's name (flatten_and_render_params).
NamesApart == Templates!NamesApart
=============================================================================
