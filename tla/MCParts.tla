------------------------------ MODULE MCParts ------------------------------
(***************************************************************************)
(* The small components for TLC: in a behaviour one of them runs and the   *)
(* others stay in an initial state.                                        *)
(***************************************************************************)
EXTENDS Parts

VARIABLE part

TwoNames == <<"plugin1", "plugin2">>

\* Names that share beginnings, and directories in directories.
SomePaths == {<<"a">>, <<"a", "b">>, <<"a", "/", "a">>, <<"a", "/", "b">>,
              <<"a", "b", "/", "a">>, <<"a", "/", "a", "/", "a">>,
              <<"a", "/", "a", "/", "b">>, <<"a", "/", "a", "b", "/", "a">>}

X == <<"x">>
XY == <<"x", "y">>
P(v) == [value |-> v, ref |-> <<>>]
ToWindow == [value |-> 0, ref |-> <<"window">>]
One(p, v) == [q \in {p} |-> v]

\* A key in several layers, a nested key with the name of a plain one, names that
\* the operator gives itself, a template, and a nesting that is too deep.
MCSqlParams == {One(<<X>>, P(10)), One(<<XY>>, P(11)), One(<<<<"window">>>>, P(12)),
                One(<<X, <<"y">>>>, P(13)), One(<<XY>>, ToWindow)}
MCContexts == {One(<<X>>, P(20)), One(<<X, <<"y">>>>, P(21)),
               One(<<<<"params">>, X>>, P(22)), One(<<<<"window">>>>, P(23))}
MCShardMaps == {One(<<X>>, P(30)), One(<<<<"window">>>>, P(31)),
                One(<<<<"shard">>, <<"index">>>>, P(32)), One([i \in 1..11 |-> X], P(33))}

avars == <<a_at, a_hook, a_conn, a_cursor, a_state, a_offers, a_closable>>
pvars == <<p_at, p_hook, p_named, p_rights, p_plugins, p_registry, p_next, p_uploader,
           p_probe, p_fault>>
rvars == <<r_paths, r_at, r_rows, r_recorded, r_kept, r_answer, r_calls, r_object>>
tvars == <<t_mode, t_shard, t_sqlParams, t_at, t_context, t_window, t_env>>
mcvars == <<part, vars, avars, pvars, rvars, tvars>>

AdapterIdle == Adapter!Begin("cursor", {})
PreIdle == Pre!Begin("s3", TRUE, {}, <<>>)
ReportIdle == Report!Begin([e \in {1, 2} |-> {<<"a">>}])
TemplatesIdle == Templates!Begin("stream", One(<<X>>, P(30)), One(<<X>>, P(10)))

MCInit ==
    /\ Init
    /\ \/ part = "tuning" /\ AdapterIdle /\ PreIdle /\ ReportIdle /\ TemplatesIdle
       \/ part = "adapter" /\ Adapter!Init /\ PreIdle /\ ReportIdle /\ TemplatesIdle
       \/ part = "preflight" /\ AdapterIdle /\ Pre!Init /\ ReportIdle /\ TemplatesIdle
       \/ part = "report" /\ AdapterIdle /\ PreIdle /\ Report!Init /\ TemplatesIdle
       \/ part = "templating" /\ AdapterIdle /\ PreIdle /\ ReportIdle /\ Templates!Init

MCNext ==
    /\ UNCHANGED part
    /\ \/ part = "tuning" /\ Next /\ UNCHANGED <<avars, pvars, rvars, tvars>>
       \/ part = "adapter" /\ Adapter!Next /\ UNCHANGED <<vars, pvars, rvars, tvars>>
       \/ part = "preflight" /\ Pre!Next /\ UNCHANGED <<vars, avars, rvars, tvars>>
       \/ part = "report" /\ Report!Next /\ UNCHANGED <<vars, avars, pvars, tvars>>
       \/ part = "templating" /\ Templates!Next /\ UNCHANGED <<vars, avars, pvars, rvars>>

MCSpec == MCInit /\ [][MCNext]_mcvars
=============================================================================
