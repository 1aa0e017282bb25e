----------------------------- MODULE Preflight -----------------------------
(***************************************************************************)
(* What an export does to the object store before it moves any data: it    *)
(* finds the uploader of the storage hook among the built-in ones and the  *)
(* plugins (uploaders/base.py), and has it probe what the credentials      *)
(* allow (`_health_checks`, operator.py; `health_check` of the backends).  *)
(*                                                                         *)
(* The store is external.  It answers a request as the rights of the       *)
(* credentials say, or it fails; an upload that fails may have landed.     *)
(***************************************************************************)
EXTENDS Naturals, Sequences

CONSTANT Names      \* what the plugins are called here; their number bounds that of plugins

VARIABLES
    at,         \* what execute() does next
    hook,       \* the type of the storage hook
    named,      \* the container or bucket is given
    rights,     \* requests that the credentials allow
    plugins,    \* the entry points: whether each loads, and the hooks it matches
    registry,   \* the uploaders found so far, in the order of their priority
    next,       \* the next entry point
    uploader,   \* the uploader of this export
    probe,      \* the probe object is in the store
    fault       \* a connection or a request has failed that was allowed

vars == <<at, hook, named, rights, plugins, registry, next, uploader, probe, fault>>
env == <<hook, named, rights, plugins>>

Hooks == {"wasb", "s3", "aws", "gcs", "other"}
Requests == {"write", "delete", "list", "meta"}
None == "none"

\* The hooks that each built-in uploader matches.
BuiltIn == [azure |-> {"wasb"}, s3 |-> {"s3", "aws"}, gcs |-> {"gcs"}]

Plugins == [loads : {"good", "alien", "raises"}, serves : {{"other"}, Hooks}]

Begin(h, n, r, p) ==
    /\ at = "discover" /\ hook = h /\ named = n /\ rights = r /\ plugins = p
    /\ registry = <<"azure", "s3", "gcs">> /\ next = 1 /\ uploader = None
    /\ probe = FALSE /\ fault = FALSE

\* Plugins vary with one choice of the rest.
Init ==
    \E h \in Hooks :
        \/ \E n \in BOOLEAN, r \in SUBSET Requests : Begin(h, n, r, <<>>)
        \/ \E k \in 1..Len(Names) : \E p \in [1..k -> Plugins] : Begin(h, TRUE, Requests, p)

Goes(p) == at' = p

-----------------------------------------------------------------------------
(* get_registry and resolve_uploader.                                      *)

\* Faulty variant of Discover: plugins come before what is built in.
DiscoverFirst ==
    /\ at = "discover" /\ next <= Len(plugins) /\ next' = next + 1
    /\ registry' = IF plugins[next].loads = "good" THEN <<Names[next]>> \o registry
                                                   ELSE registry
    /\ UNCHANGED <<env, at, uploader, probe, fault>>

\* An entry point that raises or makes something else is skipped.
Discover ==
    /\ at = "discover" /\ next <= Len(plugins) /\ next' = next + 1
    /\ registry' = IF plugins[next].loads = "good" THEN Append(registry, Names[next])
                                                   ELSE registry
    /\ UNCHANGED <<env, at, uploader, probe, fault>>

Matches(u) == IF u \in DOMAIN BuiltIn THEN hook \in BuiltIn[u]
              ELSE \E i \in DOMAIN plugins : u = Names[i] /\ hook \in plugins[i].serves

\* How the check of an uploader begins.  The one for the generic AWS hook does
\* nothing; a plugin does as it likes.
FirstCheck(u) ==
    CASE u \in {"azure", "gcs"} -> IF named THEN {"write"} ELSE {"bad"}
      [] u = "s3" /\ hook = "s3" -> IF named THEN {"meta"} ELSE {"bad"}
      [] u = "s3" /\ hook = "aws" -> {"ok"}
      [] OTHER -> {"ok", "bad"}

\* The first one of the registry that matches.
Resolve ==
    /\ at = "discover" /\ next > Len(plugins)
    /\ \/ \E i \in DOMAIN registry :
             /\ Matches(registry[i]) /\ \A j \in 1..(i - 1) : ~Matches(registry[j])
             /\ uploader' = registry[i] /\ at' \in FirstCheck(registry[i])
       \/ /\ \A i \in DOMAIN registry : ~Matches(registry[i])
          /\ Goes("unsupported") /\ UNCHANGED uploader
    /\ UNCHANGED <<env, registry, next, probe, fault>>

-----------------------------------------------------------------------------
(* health_check of the built-in uploaders.                                 *)

CheckFrame == UNCHANGED <<env, registry, next, uploader>>

\* A request is answered, refused, or fails.  One that fails may have had its
\* effect, which p tells.
Answered(right) == right \in rights /\ UNCHANGED fault
Refused(right) == right \notin rights /\ UNCHANGED <<probe, fault>>
Failed(right, p) == right \in rights /\ fault' = TRUE /\ probe' \in {probe, p}

NotWritten == IF uploader = "azure" THEN "list" ELSE "meta"

\* get_conn() raises outside of every try, before the first request to Azure or S3.
NoClient ==
    /\ <<uploader, at>> \in {<<"azure", "write">>, <<"s3", "meta">>}
    /\ Goes("bad") /\ fault' = TRUE /\ CheckFrame /\ UNCHANGED probe

\* Azure and GCS: the upload of a probe object.
Write ==
    /\ at = "write" /\ CheckFrame
    /\ \/ Answered("write") /\ probe' = TRUE /\ Goes("delete")
       \/ (Refused("write") \/ Failed("write", TRUE)) /\ Goes(NotWritten)

\* Faulty variant of Delete: Azure's except does not lead to the other checks.
DeleteOrFail ==
    /\ at = "delete" /\ CheckFrame
    /\ \/ Answered("delete") /\ probe' = FALSE /\ Goes("ok")
       \/ /\ Refused("delete") \/ Failed("delete", FALSE)
          /\ Goes(IF uploader = "azure" THEN "bad" ELSE "ok")

\* Faulty variant of Delete: there is none.
DeleteForgotten == at = "delete" /\ Goes("ok") /\ CheckFrame /\ UNCHANGED <<probe, fault>>

\* Its removal.  On Azure it counts for the verdict, on GCS it does not.
Delete ==
    /\ at = "delete" /\ CheckFrame
    /\ \/ Answered("delete") /\ probe' = FALSE /\ Goes("ok")
       \/ /\ Refused("delete") \/ Failed("delete", FALSE)
          /\ Goes(IF uploader = "azure" THEN "list" ELSE "ok")

\* Azure: the first page of the listing.
List ==
    /\ at = "list" /\ CheckFrame
    /\ \/ Answered("list") /\ Goes("ok") /\ UNCHANGED probe
       \/ (Refused("list") \/ Failed("list", probe)) /\ Goes("meta")

\* The properties of the container or bucket; S3 asks for nothing else.
Meta ==
    /\ at = "meta" /\ CheckFrame
    /\ \/ Answered("meta") /\ Goes("ok") /\ UNCHANGED probe
       \/ (Refused("meta") \/ Failed("meta", probe)) /\ Goes("bad")

Next == Discover \/ Resolve \/ NoClient \/ Write \/ Delete \/ List \/ Meta

Spec == Init /\ [][Next]_vars

-----------------------------------------------------------------------------
(* Properties.                                                             *)

Uploaders == DOMAIN BuiltIn \cup
    {Names[i] : i \in {j \in DOMAIN plugins : plugins[j].loads = "good"}}

\* Every variable keeps its type; only uploaders are in the registry.
TypeOK ==
    /\ at \in {"discover", "unsupported", "write", "delete", "list", "meta", "ok", "bad"}
    /\ registry \in Seq(Uploaders) /\ uploader \in Uploaders \cup {None}
    /\ next \in 1..(Len(plugins) + 1)
    /\ probe \in BOOLEAN /\ fault \in BOOLEAN

\* Plugins that serve the hook and load.
Able == {i \in DOMAIN plugins : plugins[i].loads = "good" /\ hook \in plugins[i].serves}

\* Plugins only add: whatever is installed and however it fails to load, a
\* built-in hook has the built-in uploader, and another hook the first plugin
\* that serves it, if there is one.
PluginsOnlyAdd ==
    /\ uploader # None =>
          IF hook # "other" THEN uploader \in DOMAIN BuiltIn /\ hook \in BuiltIn[uploader]
          ELSE \E i \in Able : uploader = Names[i] /\ \A j \in Able : i <= j
    /\ at = "unsupported" => hook = "other" /\ Able = {}

\* What the verdict means.  A check of a named container or bucket that passes
\* shows some access.  One that fails without a fault of the store or of the way
\* to it shows that the properties cannot be read, and but for S3 that there is no right to write, or,
\* on Azure, none to remove the probe: there credentials that can only write are
\* refused.
VerdictMeans ==
    uploader \in DOMAIN BuiltIn /\ hook # "aws" =>
        /\ at = "ok" => rights # {}
        /\ at = "bad" /\ named /\ ~fault =>
              /\ "meta" \notin rights
              /\ uploader = "gcs" => "write" \notin rights
              /\ uploader = "azure" =>
                    "list" \notin rights /\ ~({"write", "delete"} \subseteq rights)

\* A probe object stays behind only if it may not be removed or a request fails.
ProbeRemoved == at \in {"ok", "bad"} /\ probe => "delete" \notin rights \/ fault
=============================================================================
