----------------------------- MODULE DbAdapter -----------------------------
(***************************************************************************)
(* `UniversalDbAdapter` (db_adapter.py) in the hands of one shard          *)
(* (`ShardWorker._run_inner`, parquet_io.py): where its connection comes   *)
(* from, and what is still open when the shard is over.                    *)
(*                                                                         *)
(* The hook of the Airflow connection gives a connection, or what it gives *)
(* cannot be used and one of four drivers is asked instead.  Whether the   *)
(* objects have a close method depends on the providers.                   *)
(***************************************************************************)
VARIABLES
    at,         \* what the shard does next
    hook,       \* _hook
    conn,       \* conn
    cursor,     \* _cursor
    state,      \* what has become of each object
    offers,     \* what the hook's connection can do: "cursor", "execute", "nothing"
    closable    \* the objects that have a close method

vars == <<at, hook, conn, cursor, state, offers, closable>>

None == "none"
Conns == {"hookConn", "driverConn"}
Objects == Conns \cup {"hook", "cursor"}

Begin(o, c) ==
    /\ at = "load" /\ hook = None /\ conn = None /\ cursor = None
    /\ state = [x \in Objects |-> "unborn"]
    /\ offers = o /\ closable = c

Init == \E o \in {"cursor", "execute", "nothing"}, c \in SUBSET Objects : Begin(o, c)

Goes(p) == at' = p
Env == UNCHANGED <<offers, closable>>

Opens(x) == state' = [state EXCEPT ![x] = "open"]

\* close() returns or raises; without such a method it raises too.
Closes(x) ==
    \/ x \in closable /\ state' = [state EXCEPT ![x] = "closed"]
    \/ state' = [state EXCEPT ![x] = IF @ = "closed" THEN @ ELSE "failed"]

-----------------------------------------------------------------------------
(* _resolve_connection.                                                    *)

LoadHook ==
    /\ at = "load" /\ Env /\ UNCHANGED <<conn, cursor>>
    /\ \/ Opens("hook") /\ hook' = "hook" /\ Goes("getConn")
       \/ Goes("connect") /\ UNCHANGED <<hook, state>>

\* get_conn() is missing, raises, or answers.  An answer that can do nothing is
\* dropped.
GetConn ==
    /\ at = "getConn" /\ Env /\ UNCHANGED <<hook, cursor>>
    /\ \/ /\ Opens("hookConn")
          /\ IF offers = "nothing" THEN Goes("connect") /\ UNCHANGED conn
                                   ELSE Goes("cursor") /\ conn' = "hookConn"
       \/ Goes("connect") /\ UNCHANGED <<conn, state>>

\* _build_manual_conn: the driver of the connection's type, if there is one.
BuildManualConn ==
    /\ at = "connect" /\ Env /\ UNCHANGED <<hook, cursor>>
    /\ \/ Opens("driverConn") /\ conn' = "driverConn" /\ Goes("cursor")
       \/ Goes("raised") /\ UNCHANGED <<conn, state>>

-----------------------------------------------------------------------------
(* cursor() and close().                                                   *)

HasCursor(c) == c = "driverConn" \/ (c = "hookConn" /\ offers = "cursor")

\* The first call; the shard registers close() only when it has returned.
OpenCursor ==
    /\ at = "cursor" /\ Env /\ UNCHANGED <<hook, conn>>
    /\ IF HasCursor(conn)
       THEN \/ Opens("cursor") /\ cursor' = "cursor" /\ Goes("use")
            \/ Goes("raised") /\ UNCHANGED <<cursor, state>>
       ELSE cursor' = conn /\ Goes("use") /\ UNCHANGED state

\* The shard has ended, in whatever way.
EndUse ==
    /\ at = "use" /\ Goes("closeCursor")
    /\ UNCHANGED <<hook, conn, cursor, state, offers, closable>>

\* Faulty variant of CloseCursor: its exception leaves close().
CloseCursorUnguarded ==
    /\ at = "closeCursor" /\ Env /\ UNCHANGED <<hook, conn>>
    /\ Closes(cursor) /\ cursor' = None
    /\ Goes(IF state'[cursor] = "closed" THEN "closeConn" ELSE "closed")

CloseCursor ==
    /\ at = "closeCursor" /\ Env /\ UNCHANGED <<hook, conn>>
    /\ Closes(cursor) /\ cursor' = None
    /\ Goes("closeConn")

CloseConn ==
    /\ at = "closeConn" /\ Env /\ UNCHANGED <<hook, cursor>>
    /\ IF conn \in closable THEN Closes(conn) /\ conn' = None
                            ELSE UNCHANGED <<conn, state>>
    /\ Goes("closeHook")

CloseHook ==
    /\ at = "closeHook" /\ Env /\ UNCHANGED <<conn, cursor>>
    /\ IF hook \in closable THEN Closes(hook) /\ hook' = None
                            ELSE UNCHANGED <<hook, state>>
    /\ Goes("closed")

Close == CloseCursor \/ CloseConn \/ CloseHook

Next == LoadHook \/ GetConn \/ BuildManualConn \/ OpenCursor \/ EndUse \/ Close

Spec == Init /\ [][Next]_vars

-----------------------------------------------------------------------------
(* Properties.                                                             *)

\* Every variable keeps its type.
TypeOK ==
    /\ at \in {"load", "getConn", "connect", "cursor", "use", "closeCursor",
               "closeConn", "closeHook", "closed", "raised"}
    /\ hook \in {None, "hook"} /\ conn \in Conns \cup {None}
    /\ cursor \in Conns \cup {None, "cursor"}
    /\ state \in [Objects -> {"unborn", "open", "closed", "failed"}]

\* The hook's answer that could not be used.
Rejected(x) == x = "hookConn" /\ offers = "nothing"

\* A shard that has got its cursor leaves nothing open that can be closed, whatever
\* raises on the way, but for what the hook gave and the adapter rejected; and a
\* connection is closed after its cursor.
Released ==
    /\ at = "closed" =>
          \A x \in closable : state[x] = "open" => Rejected(x)
    /\ state["cursor"] = "open" => \A x \in Conns : state[x] \in {"unborn", "open"}
=============================================================================
