----------------------------- MODULE MCDatabase -----------------------------
(* Bounded instances of Database for TLC. *)
EXTENDS Database, TLC

CONSTANTS marc, laia

\* Two of the users of crearBBDD.sql.
TwoUsers == {[id |-> 1, nom |-> marc, actiu |-> TRUE], [id |-> 2, nom |-> laia, actiu |-> TRUE]}

\* A login, a deregistration, sign-ups with a name that fits, one that is too long and one
\* with a quote, a game that laia wins, a draw with a user who is not in the table, and the
\* readers.  A second sign-up meets a known name, a login after the deregistration fails,
\* and with the quote a deregistration goes on with a row that another call has left.
AllCalls ==
    [op : {"login", "deregister"}, nom : {marc}, right : {TRUE}]
        \cup [op : {"deregister"}, nom : {"quote"}, right : {FALSE}]
        \cup [op : {"signup"}, nom : {"new", "long", "quote"}]
        \cup {[op |-> "scores", nom |-> "new", players |-> <<1, 2>>, winner |-> 2],
              [op |-> "scores", nom |-> "new", players |-> <<2, 3>>, winner |-> 7]}
        \cup [op : {"results", "time"}, nom : {marc}]
        \cup [op : {"opponents", "interval"}, id : {1}]
        \cup [op : {"ranking"}] \cup [op : {"characters"}, game : {2}]

\* Two logins.
Logins == [op : {"login"}, nom : {marc, laia}, right : {TRUE}]

Symmetry == Permutations(Threads)
=============================================================================
