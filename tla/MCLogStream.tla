---------------------------- MODULE MCLogStream ----------------------------
(* The log pipeline, the live log and its clients on small instances. *)
EXTENDS LogStream, TLC

CONSTANTS bot, web, office, home

NoRecords == [p \in Procs |-> 0]
NoAccess == [clients |-> {}, failures |-> 0, issues |-> 0, time |-> 0]

\* The end of the bot, the end of the web API, both writing under a stream, and
\* the logins and tokens of two clients.
MCBounds == {
    [records |-> [NoRecords EXCEPT ![bot] = 4], ending |-> {bot}, demand |-> NoAccess],
    [records |-> [NoRecords EXCEPT ![web] = 4], ending |-> {web}, demand |-> NoAccess],
    [records |-> (bot :> 2 @@ web :> 1), ending |-> {},
     demand |-> [NoAccess EXCEPT !.clients = {office}, !.issues = 1]],
    [records |-> NoRecords, ending |-> {},
     demand |-> [clients |-> {office, home}, failures |-> 0, issues |-> 3, time |-> 2]],
    [records |-> NoRecords, ending |-> {},
     demand |-> [clients |-> {office}, failures |-> 5, issues |-> 0, time |-> 5]]}

MCDemands == {b.demand : b \in MCBounds}

=============================================================================
