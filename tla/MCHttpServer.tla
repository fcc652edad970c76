---------------------------- MODULE MCHttpServer ----------------------------
(* Clients and requests for HttpServer.                                    *)
EXTENDS HttpServer

CONSTANTS c1, c2, c3

MCClients2 == {c1, c2}
MCClients3 == {c1, c2, c3}

Get         == [method |-> "GET",  header |-> "missing", length |-> 0, sent |-> 0, utf8 |-> TRUE]
PostOK      == [method |-> "POST", header |-> "number", length |-> 2, sent |-> 2, utf8 |-> TRUE]
PostNoLen   == [method |-> "POST", header |-> "missing", length |-> 0, sent |-> 1, utf8 |-> TRUE]
PostLatin1  == [method |-> "POST", header |-> "number", length |-> 1, sent |-> 1, utf8 |-> FALSE]
\* Content-Length: 2, one byte sent
PostShort   == [method |-> "POST", header |-> "number", length |-> 2, sent |-> 1, utf8 |-> TRUE]
\* Content-Length: -1
PostNegative == [method |-> "POST", header |-> "number", length |-> -1, sent |-> 1, utf8 |-> TRUE]

AllRequests == {Get, PostOK, PostNoLen, PostLatin1, PostShort, PostNegative}
StallRequests == {Get, PostShort}
=============================================================================
