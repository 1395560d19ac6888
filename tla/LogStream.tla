----------------------------- MODULE LogStream -----------------------------
(***************************************************************************)
(* The live log (web/api/logs_stream.py): one connection of a browser, its *)
(* server side polling log_entries for ids above the last one it has sent, *)
(* above the pipeline that fills the table.  Connections share nothing, so *)
(* one at a time, reopened at will, stands for any number; each opening    *)
(* takes a stream token (WebAccess).                                       *)
(*                                                                         *)
(* In the code as it stands the stream ends at its first row: the session  *)
(* that read it has committed and expired it (session.py:87, 102), and the *)
(* error path calls a method the logger does not have (logs_stream.py:150, *)
(* 175).  "expiring" says whether a behaviour is of this build or of one   *)
(* whose sessions keep their rows, like the sessions of the unit tests.    *)
(***************************************************************************)
EXTENDS LogPipeline, WebAccess, FiniteSetsExt

CONSTANTS Newest,  \* rows of the initial sync
          Batch    \* rows of a poll

ASSUME LimitsAssumption == Newest \in Nat \ {0} /\ Batch \in Nat \ {0}

VARIABLES
    conn,     \* state of the connection, its filter and last_id
    got,      \* ids sent on it, in this order
    late,     \* history: ids committed when last_id had passed them
    expiring  \* whether a session expires its rows at the commit

streamVars == <<conn, got, late, expiring>>
vars == <<logVars, accessVars, streamVars>>

Closed == [state |-> "closed", filter |-> {}, last |-> 0]

InitStream ==
    /\ Init /\ InitAccess /\ bound.demand = demand
    /\ conn = Closed /\ got = <<>> /\ late = {}
    /\ expiring \in BOOLEAN

\* A filter stands for a category: those of one process, or all.
Filters == {{p} : p \in Procs} \cup {Procs}

\* Rows a query of the stream sees: committed, and of its category.
Seen == {i \in DOMAIN rows : rows[i].state = "committed" /\ rows[i].proc \in conn.filter}

Lowest(S, n) == {i \in S : Cardinality({j \in S : j < i}) < n}
Highest(S, n) == {i \in S : Cardinality({j \in S : j > i}) < n}
Ascending(S) ==
    CHOOSE s \in [1..Cardinality(S) -> S] : \A k, l \in DOMAIN s : k < l => s[k] < s[l]

\* GET /api/logs/stream; since_id is a parameter of the request.
Open(c, t) ==
    /\ conn.state = "closed"
    /\ Present(c, t) /\ reply'.kind = "accepted"
    /\ \E f \in Filters, since \in {0, Len(rows)} :
          conn' = [state |-> "sync", filter |-> f, last |-> since]
    /\ got' = <<>> /\ late' = {}
    /\ UNCHANGED <<logVars, expiring>>

\* Any other request: a token is refused, or its stream is not looked at here,
\* or the stream's parameters are invalid and the token is spent.
Access ==
    /\ AccessNext
    /\ UNCHANGED <<logVars, streamVars>>

\* The generator ends: the client has left, a query failed, or a row expired.
Close ==
    /\ conn.state # "closed"
    /\ conn' = Closed /\ got' = <<>> /\ late' = {}
    /\ UNCHANGED <<logVars, accessVars, expiring>>

Send(ids) == got' = got \o Ascending(ids)

\* The initial sync sends the newest rows, whatever since_id says.
Sync ==
    /\ conn.state = "sync"
    /\ LET newest == Highest(Seen, Newest) IN
          IF newest # {} /\ expiring
          THEN conn' = Closed /\ got' = <<>> /\ late' = {}
          ELSE /\ Send(newest)
               /\ conn' = [conn EXCEPT !.state = "poll",
                               !.last = IF newest = {} THEN @ ELSE Max(newest \cup {@})]
               /\ UNCHANGED late
    /\ UNCHANGED <<logVars, accessVars, expiring>>

\* Mutants: the newest rows of the backlog first; the limit before the filter.
Poll_newestFirst ==
    /\ conn.state = "poll"
    /\ LET batch == Highest({i \in Seen : i > conn.last}, Batch) IN
          /\ batch # {} /\ ~expiring
          /\ Send(batch)
          /\ conn' = [conn EXCEPT !.last = Max(batch)]
    /\ UNCHANGED <<logVars, accessVars, late, expiring>>

Poll_limitFirst ==
    /\ conn.state = "poll"
    /\ LET batch == Seen \cap Lowest({i \in Committed : i > conn.last}, Batch) IN
          /\ batch # {}
          /\ IF expiring
             THEN conn' = Closed /\ got' = <<>> /\ late' = {}
             ELSE /\ Send(batch)
                  /\ conn' = [conn EXCEPT !.last = Max(batch)]
                  /\ UNCHANGED late
    /\ UNCHANGED <<logVars, accessVars, expiring>>

\* Every second: the next rows above last_id, in the order of their ids.
Poll ==
    /\ conn.state = "poll"
    /\ LET batch == Lowest({i \in Seen : i > conn.last}, Batch) IN
          /\ batch # {}
          /\ IF expiring
             THEN conn' = Closed /\ got' = <<>> /\ late' = {}
             ELSE /\ Send(batch)
                  /\ conn' = [conn EXCEPT !.last = Max(batch)]
                  /\ UNCHANGED late
    /\ UNCHANGED <<logVars, accessVars, expiring>>

\* A step of the pipeline; a row that commits below last_id is late.
Pipeline ==
    /\ LogNext
    /\ late' = late \cup {i \in Committed' \ Committed : i <= conn.last}
    /\ UNCHANGED <<accessVars, conn, got, expiring>>

Opens == \E c \in demand.clients, t \in DOMAIN issued : Open(c, t)

Next == Pipeline \/ Access \/ Opens \/ Close \/ Sync \/ Poll

StreamSpec == InitStream /\ [][Next]_vars /\ LogFairness /\ WF_vars(Sync \/ Poll)

-----------------------------------------------------------------------------
(* Properties. *)

Sent == {got[k] : k \in DOMAIN got}

\* A stream sends its rows in the order of their ids, each once, and between the
\* first and the last it leaves out no row of its category but one that was
\* committed after a later row was sent (logs_stream.py:133-172).
StreamComplete ==
    /\ \A k, l \in DOMAIN got : k < l => got[k] < got[l]
    /\ got # <<>> => \A i \in Seen : got[1] < i /\ i <= conn.last => i \in Sent \cup late

\* A row of the category that is committed above last_id is sent, unless the
\* stream ends first (logs_stream.py:153-183).
StreamCatchesUp ==
    (conn.state = "poll" /\ \E i \in Seen : i > conn.last)
        ~> (conn.state # "poll" \/ \A i \in Seen : i <= conn.last)

=============================================================================
