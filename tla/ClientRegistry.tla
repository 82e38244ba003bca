---------------------------- MODULE ClientRegistry ----------------------------
(***************************************************************************)
(* What a Listener's list of clients promises, with no socket, no thread   *)
(* and no order of handlers left: every client is listed at most once in   *)
(* its life, a report of a client takes that client off the list and no    *)
(* other, and nothing else does.  A report that comes before its client is *)
(* listed has no effect: the client will be listed all the same.           *)
(***************************************************************************)
CONSTANT Clients

VARIABLES status,    \* "new", "listed" or "gone"
          reported   \* the clients reported lost or disconnected

vars == << status, reported >>

Init == /\ status = [ c \in Clients |-> "new" ]
        /\ reported = { }

List(c) == /\ status[c] = "new"
           /\ status' = [ status EXCEPT ![c] = "listed" ]
           /\ UNCHANGED reported

Report(c) == /\ status' = [ status EXCEPT ![c] =
                             IF @ = "listed" THEN "gone" ELSE @ ]
             /\ reported' = reported \cup { c }

Next == \E c \in Clients : List(c) \/ Report(c)

Spec == Init /\ [][Next]_vars
===============================================================================
