------------------------------- MODULE MCLogin -------------------------------
(* A small instance of Login for TLC.                                       *)
EXTENDS Login

CONSTANTS u1, u2, p1, p2

\* One account can be used, the other cannot.
OneEnabled ==
    [u \in Users |-> [status |-> IF u = u1 THEN "enabled" ELSE "disabled",
                     password |-> p1]]

\* Passwords matter only by being equal or not: one is typed, and accounts
\* have it or the other.
OnePassword == [user : Users, password : {p1}]
==============================================================================
