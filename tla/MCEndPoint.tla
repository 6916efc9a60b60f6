------------------------------ MODULE MCEndPoint ------------------------------
(* Instances of EndPoint for TLC. *)
EXTENDS EndPoint

Get(p, q) == [method |-> "GET", query |-> q, path |-> p, length |-> None, blocks |-> 0]
Post(p, length, blocks) ==
    [method |-> "POST", query |-> FALSE, path |-> p, length |-> length, blocks |-> blocks]

\* Plain and CGI requests for a page and for a directory, bodies announced as
\* sent, too short, too long, not at all and by a negative number.
MCClients == {Get("page", FALSE), Get("page", TRUE), Get("dir", FALSE), Get("dir/", FALSE)}
               \cup {Post("page", length, 1) : length \in {None, -1, 1, 2}}
               \cup {[Get("page", FALSE) EXCEPT !.method = "OTHER"]}

File(size_, exec_) == [size |-> size_, exec |-> exec_]
\* An int goes to 4, so the size 6 becomes -4 and 14 becomes 4; one sendfile moves 3.
MCEntries == {Missing, File(3, FALSE), File(6, FALSE), File(14, FALSE), File(1, TRUE)}

\* The one of page and index that the client does not name is missing at first.
MCInit == Init /\ \A name \in {"page", "index"} \ {Chosen(client.path)} : www[name] = Missing
MCSpec == MCInit /\ [][Next]_vars /\ WF_vars(Worker)
==============================================================================
