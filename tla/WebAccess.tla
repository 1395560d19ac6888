----------------------------- MODULE WebAccess -----------------------------
(***************************************************************************)
(* What the web process remembers of its clients: the failed logins of the *)
(* last minute by address (web/api/auth.py) and the stream tokens that are *)
(* still to be presented (web/api/logs_stream.py).  The handlers run one   *)
(* after the other on one event loop, and both stores die with the         *)
(* process.  The JWT of a login leaves nothing behind: any client may have *)
(* one and ask for a stream token.                                         *)
(*                                                                         *)
(* A token is its number among those issued.                               *)
(***************************************************************************)
EXTENDS Integers, Sequences, FiniteSets

CONSTANTS Clients,      \* addresses
          MaxAttempts,  \* _MAX_ATTEMPTS
          Window,       \* _WINDOW_SECS
          TokenTTL,     \* _TOKEN_TTL_SECONDS
          MaxTokens,    \* _TOKEN_MAX_ENTRIES
          Demands       \* bounds of a behaviour: clients, failures of each,
                        \* tokens issued, and time

ASSUME LimitAssumption ==
    /\ MaxAttempts \in Nat \ {0} /\ MaxTokens \in Nat \ {0}
    /\ Window \in Nat /\ TokenTTL \in Nat
ASSUME DemandsAssumption ==
    Demands \subseteq [clients : SUBSET Clients, failures : Nat, issues : Nat, time : Nat]

VARIABLES
    now,      \* time.monotonic()
    failed,   \* _failed_attempts: times of failures, oldest first
    store,    \* the tokens in _tokens
    issued,   \* address and time of each token
    demand,   \* the bounds of this behaviour
    \* history
    failures, \* times of all failures of an address
    presented,\* tokens that have been presented
    reply     \* the last answer

accessVars == <<now, failed, store, issued, demand, failures, presented, reply>>

NoReply == [kind |-> "none", client |-> "none", at |-> 0, token |-> 0, first |-> FALSE]

InitAccess ==
    /\ now = 0 /\ demand \in Demands
    /\ failed = [c \in Clients |-> <<>>] /\ failures = [c \in Clients |-> <<>>]
    /\ store = {} /\ issued = <<>> /\ presented = {} /\ reply = NoReply

Answer(kind, c) == [NoReply EXCEPT !.kind = kind, !.client = c, !.at = now]

-----------------------------------------------------------------------------
(* Login. *)

\* The failures that still count, once those that have expired are popped from
\* the left.
Popped(times) == {i \in DOMAIN times : \A j \in 1..i : now - times[j] > Window}
Recent(times) == SubSeq(times, Cardinality(Popped(times)) + 1, Len(times))

\* _check_rate_limit: too many recent failures are answered 429.
Limited(c) ==
    /\ Len(Recent(failed[c])) >= MaxAttempts
    /\ failed' = [failed EXCEPT ![c] = Recent(@)]
    /\ reply' = Answer("limited", c)
    /\ UNCHANGED <<now, store, issued, demand, failures, presented>>

\* The right password; earlier failures still count.
LoggedIn(c) ==
    /\ Len(Recent(failed[c])) < MaxAttempts
    /\ failed' = [failed EXCEPT ![c] = Recent(@)]
    /\ reply' = Answer("ok", c)
    /\ UNCHANGED <<now, store, issued, demand, failures, presented>>

\* Mutant: the limit is off by one.
WrongPassword_offByOne(c) ==
    /\ Len(Recent(failed[c])) <= MaxAttempts
    /\ Len(failures[c]) < demand.failures
    /\ now' \in {now, now + 1} /\ now' <= demand.time
    /\ failed' = [failed EXCEPT ![c] = Append(Recent(@), now')]
    /\ failures' = [failures EXCEPT ![c] = Append(@, now')]
    /\ reply' = Answer("wrong", c)
    /\ UNCHANGED <<store, issued, demand, presented>>

\* The wrong one: _record_failure reads the clock again.
WrongPassword(c) ==
    /\ Len(Recent(failed[c])) < MaxAttempts
    /\ Len(failures[c]) < demand.failures
    /\ now' \in {now, now + 1} /\ now' <= demand.time
    /\ failed' = [failed EXCEPT ![c] = Append(Recent(@), now')]
    /\ failures' = [failures EXCEPT ![c] = Append(@, now')]
    /\ reply' = Answer("wrong", c)
    /\ UNCHANGED <<store, issued, demand, presented>>

-----------------------------------------------------------------------------
(* Stream tokens. *)

\* _purge_expired.
Live == {t \in store : now - issued[t].at <= TokenTTL}

\* The oldest entry, the first in the order of the dict when several are.
Oldest(tokens) ==
    {t \in tokens : \A u \in tokens \ {t} :
        \/ issued[t].at < issued[u].at
        \/ issued[t].at = issued[u].at /\ t < u}

\* POST /api/logs/stream-token; a full store gives up its oldest token.
Issue(c) ==
    /\ Len(issued) < demand.issues
    /\ LET kept == IF Cardinality(Live) >= MaxTokens THEN Live \ Oldest(Live) ELSE Live
       IN  store' = kept \cup {Len(issued) + 1}
    /\ issued' = Append(issued, [ip |-> c, at |-> now])
    /\ UNCHANGED <<now, failed, demand, failures, presented, reply>>

\* Mutant: the token of another address stays in the store.
Present_otherKept(c, t) ==
    /\ t \in DOMAIN issued
    /\ store' = IF issued[t].ip = c THEN Live \ {t} ELSE Live
    /\ LET kind == IF t \in Live /\ issued[t].ip = c THEN "accepted" ELSE "refused"
       IN  reply' = [Answer(kind, c) EXCEPT !.token = t, !.first = t \notin presented]
    /\ presented' = presented \cup {t}
    /\ UNCHANGED <<now, failed, issued, demand, failures>>

\* _consume_token: whoever presents a token, it is gone.
Present(c, t) ==
    /\ t \in DOMAIN issued
    /\ store' = Live \ {t}
    /\ LET kind == IF t \in Live /\ issued[t].ip = c THEN "accepted" ELSE "refused"
       IN  reply' = [Answer(kind, c) EXCEPT !.token = t, !.first = t \notin presented]
    /\ presented' = presented \cup {t}
    /\ UNCHANGED <<now, failed, issued, demand, failures>>

Pass ==
    /\ now < demand.time /\ now' = now + 1
    /\ UNCHANGED <<failed, store, issued, demand, failures, presented, reply>>

Login(c) == Limited(c) \/ LoggedIn(c) \/ WrongPassword(c)

AccessNext ==
    \/ Pass
    \/ \E c \in demand.clients : Login(c) \/ Issue(c)
    \/ \E c \in demand.clients, t \in DOMAIN issued : Present(c, t)

AccessSpec == InitAccess /\ [][AccessNext]_accessVars

-----------------------------------------------------------------------------
(* Properties. *)

\* Failures of an address in the window that ends at time t, the first n of them.
Within(c, n, t) == {i \in 1..n : t - failures[c][i] <= Window}

\* Of an address no MaxAttempts + 1 failures fall into one window, although check
\* and record read the clock one after the other; and nobody is turned away
\* without MaxAttempts failures in the window that ends then (auth.py:70-88, 163-184).
LoginLimit ==
    /\ \A c \in Clients : \A i \in 1..(Len(failures[c]) - MaxAttempts) :
          failures[c][i + MaxAttempts] - failures[c][i] > Window
    /\ reply.kind = "limited" =>
          Cardinality(Within(reply.client, Len(failures[reply.client]), reply.at)) >= MaxAttempts

\* A token opens a stream for its own address, in its time, and only for the first
\* who presents it; one that meets all this is refused only when MaxTokens tokens
\* were issued after it (logs_stream.py:67-102).
TokenExact ==
    LET t == reply.token
        valid == reply.first /\ issued[t].ip = reply.client
                 /\ reply.at - issued[t].at <= TokenTTL
    IN  /\ reply.kind = "accepted" => valid
        /\ reply.kind = "refused" => ~valid \/ Len(issued) - t >= MaxTokens

=============================================================================
