----------------------------- MODULE Templating -----------------------------
(***************************************************************************)
(* Which value a name has when SQL, paths and the watermark query are      *)
(* rendered (templating.py and its callers in operator.py): four layers of *)
(* variables, nested ones under names joined with "_", over the calls of   *)
(* execute() that one process makes of one operator object.                *)
(*                                                                         *)
(* A name is the sequence of its words, <<"shard", "index">> for           *)
(* "shard_index".  A mapping is a function from the paths of its leaves,   *)
(* which are sequences of keys, a key being a name; lists are mappings     *)
(* from indices.  A leaf has a value or is a template "{{ ref }}".  The    *)
(* window stands for watermark_prev and watermark_now together; without an *)
(* IncrementalConfig there is no such name, and all else is the same.      *)
(***************************************************************************)
EXTENDS Integers, Sequences, SequencesExt

CONSTANTS
    SqlParams,      \* mappings that sql_params can be
    Contexts,       \* mappings that Airflow's context can be
    ShardMaps,      \* mappings that an element of `shards` can be
    MaxCalls        \* calls of execute() (bounds the model)

VARIABLES
    mode,       \* "stream" or "unload"
    shard,      \* the element of `shards`
    sqlParams,  \* self.sql_params, kept from call to call
    at,         \* what execute() does next
    context,    \* of this call
    window,     \* watermarks of this call, those of the n-th being n
    env         \* what the last template has seen, by name

vars == <<mode, shard, sqlParams, at, context, window, env>>

NoRef == <<>>
Leaf(v) == [value |-> v, ref |-> NoRef]
Window == <<"window">>
ShardIndex == <<"shard", "index">>
Empty == [p \in {} |-> Leaf(0)]

Keys(m) == {Head(p) : p \in DOMAIN m}

\* {**a, **b}.
Merge(a, b) ==
    [p \in {q \in DOMAIN a : Head(q) \notin Keys(b)} \cup DOMAIN b |->
        IF p \in DOMAIN b THEN b[p] ELSE a[p]]

With(m, name, v) == Merge(m, [p \in {<<name>>} |-> Leaf(v)])

\* ctx["params"].
Params(ctx) ==
    [p \in {Tail(q) : q \in {r \in DOMAIN ctx : Head(r) = <<"params">>}} |->
        ctx[<<<<"params">>>> \o p]]

-----------------------------------------------------------------------------
(* flatten_and_render_params and render_template.                          *)

MaxDepth == 10

\* The mapping that is flattened.
Flattened(ctx) == Merge(Merge(Params(ctx), sqlParams), ctx)

Name(p) == FlattenSeq(p)

\* Faulty variant of Ambiguous: a later leaf replaces an earlier one.
AmbiguousNever(m) == FALSE

\* "Duplicate flattened key".
Ambiguous(m) == \E p, q \in DOMAIN m : p # q /\ Name(p) = Name(q)

\* The other reasons to raise: nesting, and StrictUndefined in a leaf.
Unrenderable(ctx, m) ==
    \E p \in DOMAIN m :
        Len(p) > MaxDepth \/ (m[p].ref # NoRef /\ m[p].ref \notin Keys(ctx))

\* A leaf that is a template is rendered once, with the unflattened context.
Rendered(ctx, leaf) ==
    IF leaf.ref # NoRef /\ <<leaf.ref>> \in DOMAIN ctx THEN ctx[<<leaf.ref>>] ELSE leaf

\* What a template rendered with ctx sees, or an exception.
Render(ctx, then) ==
    LET m == Flattened(ctx) IN
    IF Ambiguous(m) \/ Unrenderable(ctx, m)
    THEN at' = "idle" /\ UNCHANGED env
    ELSE /\ at' = then
         /\ env' = [n \in {Name(p) : p \in DOMAIN m} |->
                        Rendered(ctx, m[CHOOSE p \in DOMAIN m : Name(p) = n])]

-----------------------------------------------------------------------------
(* One call of execute().                                                  *)

Begin(m, s, sp) ==
    /\ mode = m /\ shard = s /\ sqlParams = sp
    /\ at = "idle" /\ context = Empty /\ window = 0 /\ env = [n \in {} |-> Leaf(0)]

Init == \E m \in {"stream", "unload"}, s \in ShardMaps, sp \in SqlParams : Begin(m, s, sp)

Execute ==
    /\ at = "idle" /\ window < MaxCalls
    /\ context' \in Contexts /\ window' = window + 1 /\ at' = "query"
    /\ UNCHANGED <<mode, shard, sqlParams, env>>

\* The watermark query or template, before the window is known.
RenderQuery ==
    /\ at = "query" /\ Render(context, "inject")
    /\ UNCHANGED <<mode, shard, sqlParams, context, window>>

\* Faulty variant of InjectWindow: the context alone.
InjectWindowInContext ==
    /\ at = "inject" /\ at' = "render"
    /\ context' = With(context, Window, window)
    /\ UNCHANGED <<mode, shard, sqlParams, window, env>>

\* _prepare_incremental_context puts the window into the context and sql_params.
InjectWindow ==
    /\ at = "inject" /\ at' = "render"
    /\ context' = With(context, Window, window)
    /\ sqlParams' = With(sqlParams, Window, window)
    /\ UNCHANGED <<mode, shard, window, env>>

\* shard_ctx of execute(), or the context itself in _run_unload.
TemplateContext ==
    IF mode = "unload" THEN context
    ELSE With(Merge(Merge(context, sqlParams), shard), ShardIndex, 0)

\* SQL and paths.
RenderTemplates ==
    /\ at = "render" /\ Render(TemplateContext, "rendered")
    /\ UNCHANGED <<mode, shard, sqlParams, context, window>>

\* The export itself, which may fail.
Export ==
    /\ at = "rendered" /\ at' = "idle"
    /\ UNCHANGED <<mode, shard, sqlParams, context, window, env>>

Next == Execute \/ RenderQuery \/ InjectWindow \/ RenderTemplates \/ Export

Spec == Init /\ [][Next]_vars

-----------------------------------------------------------------------------
(* Properties.                                                             *)

Leaves == (UNION {{m[p] : p \in DOMAIN m} : m \in SqlParams \cup Contexts \cup ShardMaps})
          \cup {Leaf(n) : n \in 0..MaxCalls}

\* Every variable keeps its type.
TypeOK ==
    /\ mode \in {"stream", "unload"} /\ shard \in ShardMaps
    /\ at \in {"idle", "query", "inject", "render", "rendered"}
    /\ window \in 0..MaxCalls
    /\ \A m \in {sqlParams, context} : \A p \in DOMAIN m : m[p] \in Leaves
    /\ \A n \in DOMAIN env : env[n] \in Leaves

\* SQL and paths see the window of this call, although sql_params keeps that of
\* an earlier call and may have such a name of its own; only a shard's own key
\* replaces it.
WindowInEffect ==
    at = "rendered" /\ (mode = "stream" => Window \notin Keys(shard)) =>
        Window \in DOMAIN env /\ env[Window] = Leaf(window)

\* Where a name can come from, the strongest first: sql_params beats Airflow's
\* context in a shard, and gives way to it in an unload.
Layers == IF mode = "stream"
          THEN <<[p \in {<<ShardIndex>>} |-> Leaf(0)], shard, sqlParams, context,
            Params(TemplateContext)>>
          ELSE <<context, sqlParams, Params(TemplateContext)>>

\* When rendering succeeds, every value has its name to itself: what a key of a
\* layer holds, nested or not, is replaced by the same key of a stronger layer
\* only, and never by another path with the same flattened name.
NamesApart ==
    at = "rendered" =>
        \A i \in DOMAIN Layers : \A p \in DOMAIN Layers[i] :
            /\ \A j \in 1..(i - 1) : Head(p) \notin Keys(Layers[j])
            /\ Layers[i][p].ref = NoRef
            => Name(p) \in DOMAIN env /\ env[Name(p)] = Layers[i][p]
=============================================================================
