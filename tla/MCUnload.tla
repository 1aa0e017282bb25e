------------------------------ MODULE MCUnload ------------------------------
(***************************************************************************)
(* In a behaviour one of UnloadRun and UnloadWindows runs and the other    *)
(* stays in an initial state.                                              *)
(***************************************************************************)
EXTENDS Unloads

VARIABLE part

wvars == <<w_options, w_source, w_at, w_tries, w_prev, w_now, w_result, w_object, w_manifest,
           w_xcom, w_strategy, w_perFile>>
mcvars == <<part, vars, wvars>>

MCOptions == {{"watermark_query"}, {}}

MCInit ==
    /\ Init /\ Windows!WInit
    /\ \/ part = "files" /\ w_strategy = "redshift" /\ w_options = {}
       \/ part = "rows" /\ manifestInside /\ ~unloadManifest /\ strategy = "redshift"

MCNext ==
    /\ UNCHANGED part
    /\ \/ part = "files" /\ Next /\ UNCHANGED wvars
       \/ part = "rows" /\ Windows!WNext /\ UNCHANGED vars

MCSpec == MCInit /\ [][MCNext]_mcvars
=============================================================================
