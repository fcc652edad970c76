------------------------------ MODULE HttpServer ------------------------------
(***************************************************************************)
(* examples/raw_http_chat/simple_http_server.py: an HTTPServer (one        *)
(* thread, serve_forever) with SimpleHTTPRequestHandler.  The server       *)
(* accepts one connection at a time from the listen backlog, reads one     *)
(* request (the handler keeps protocol_version "HTTP/1.0", so the          *)
(* connection is closed after it), and runs do_GET or do_POST.  An         *)
(* exception in the handler is caught by socketserver's handle_error: the  *)
(* connection is closed without a response and the loop goes on.           *)
(*                                                                         *)
(* Clients connect, then send one request and wait for the response; a     *)
(* client may send nothing, and may shut down its sending side (the server *)
(* then reads EOF).  The handler's readline of the request line and        *)
(* headers (BaseHTTPRequestHandler.handle_one_request) blocks like the     *)
(* body read; the server sets no timeout on either.  A request  *)
(* is abstracted to its method, its Content-Length header, the number of   *)
(* body bytes the client actually sends and whether they are UTF-8.        *)
(***************************************************************************)
EXTENDS Integers, Sequences

CONSTANTS
    Clients,   \* client processes, one connection each
    Requests,  \* requests a client may send
    None       \* no connection being handled

\* header: the Content-Length header is a "number", "missing" or "invalid"
Request == [method : {"GET", "POST"},
            header : {"number", "missing", "invalid"},
            length : Int,
            sent   : Nat,
            utf8   : BOOLEAN]

ASSUME Requests \subseteq Request /\ None \notin Clients

VARIABLES
    cstate,   \* cstate[c]: "idle", "waiting", "answered" or "dropped"
    req,      \* req[c]: the request c sent
    sent,     \* sent[c]: c has sent its request line, headers and body bytes
    eof,      \* eof[c]: c has shut down its sending side
    backlog,  \* connections queued on the listening socket, in order
    conn,     \* the connection the handler is serving, or None
    step      \* the server: "accept", "headers", "request" (headers read) or "body"

vars == <<cstate, req, sent, eof, backlog, conn, step>>

-----------------------------------------------------------------------------
\* Mutant: int(self.headers.get('content-length', -1)), a default instead of
\* the exception for a missing header.
ContentLengthDefault(r) ==
    [ok |-> r.header # "invalid",
     n  |-> IF r.header = "missing" THEN -1 ELSE r.length]

\* Line 24: int(self.headers['content-length']); int(None) and int("abc")
\* raise (ok is FALSE).
ContentLength(r) == [ok |-> r.header = "number", n |-> r.length]

\* Mutant: a loop that reads until it has n bytes, never giving up at EOF.
BodyAvailableNoEOF(r, closed) ==
    ContentLength(r).n >= 0 /\ r.sent >= ContentLength(r).n

\* Line 25: self.rfile.read(n) returns once n bytes have arrived or at EOF;
\* read(-1) for a negative length reads until EOF.
BodyAvailable(r, closed) ==
    \/ closed
    \/ ContentLength(r).n >= 0 /\ r.sent >= ContentLength(r).n

\* what read returns
BodyGot(r) ==
    IF ContentLength(r).n >= 0 /\ r.sent >= ContentLength(r).n
    THEN ContentLength(r).n ELSE r.sent

\* Lines 26-27: post_data.decode('utf-8').
Decodes(r, n) == r.utf8 \/ n = 0

-----------------------------------------------------------------------------
\* Lines 35-39: run() binds the socket and enters serve_forever.
Init ==
    /\ cstate = [c \in Clients |-> "idle"]
    /\ req = [c \in Clients |-> CHOOSE r \in Requests : TRUE]
    /\ sent = [c \in Clients |-> FALSE]
    /\ eof = [c \in Clients |-> FALSE]
    /\ backlog = <<>>
    /\ conn = None
    /\ step = "accept"

\* A client connects; the kernel queues the connection on the listening
\* socket.  r is the request it is going to send.
Connect(c, r) ==
    /\ cstate[c] = "idle"
    /\ cstate' = [cstate EXCEPT ![c] = "waiting"]
    /\ req' = [req EXCEPT ![c] = r]
    /\ backlog' = Append(backlog, c)
    /\ UNCHANGED <<sent, eof, conn, step>>

\* The client sends its request line, headers and req[c].sent body bytes.
SendRequest(c) ==
    /\ cstate[c] = "waiting" /\ ~sent[c] /\ ~eof[c]
    /\ sent' = [sent EXCEPT ![c] = TRUE]
    /\ UNCHANGED <<cstate, req, eof, backlog, conn, step>>

\* A waiting client calls shutdown(SHUT_WR): the server's reads see EOF.
Shutdown(c) ==
    /\ cstate[c] = "waiting" /\ ~eof[c]
    /\ eof' = [eof EXCEPT ![c] = TRUE]
    /\ UNCHANGED <<cstate, req, sent, backlog, conn, step>>

\* The handler has finished with conn: the client's outcome, and the
\* server closes the connection and goes back to accepting.
Finish(outcome) ==
    /\ cstate' = [cstate EXCEPT ![conn] = outcome]
    /\ conn' = None
    /\ step' = "accept"

\* Line 39: serve_forever accepts the oldest queued connection and calls
\* the handler, which blocks reading the request line.
Accept ==
    /\ step = "accept" /\ backlog # <<>>
    /\ conn' = Head(backlog)
    /\ backlog' = Tail(backlog)
    /\ step' = "headers"
    /\ UNCHANGED <<cstate, req, sent, eof>>

\* The request line and headers have arrived; the handler dispatches to
\* do_GET or do_POST.
ReadHeaders ==
    /\ step = "headers" /\ sent[conn]
    /\ step' = "request"
    /\ UNCHANGED <<cstate, req, sent, eof, backlog, conn>>

\* The client shut down before sending a request: readline returns b'',
\* and the handler closes the connection with no response.
NoRequest ==
    /\ step = "headers" /\ ~sent[conn] /\ eof[conn]
    /\ Finish("dropped")
    /\ UNCHANGED <<req, sent, eof, backlog>>

\* Lines 5-15: do_GET answers 200 "GET request received".
DoGET ==
    /\ step = "request" /\ req[conn].method = "GET"
    /\ Finish("answered")
    /\ UNCHANGED <<req, sent, eof, backlog>>

\* Line 24: the Content-Length is missing or not a number; the exception
\* reaches handle_error and the connection is closed with no response.
LengthRaises ==
    /\ step = "request" /\ req[conn].method = "POST"
    /\ ~ContentLength(req[conn]).ok
    /\ Finish("dropped")
    /\ UNCHANGED <<req, sent, eof, backlog>>

\* Line 24-25: a number; the handler blocks in rfile.read.
StartBody ==
    /\ step = "request" /\ req[conn].method = "POST"
    /\ ContentLength(req[conn]).ok
    /\ step' = "body"
    /\ UNCHANGED <<cstate, req, sent, eof, backlog, conn>>

\* Lines 25-33: read returns, the body decodes, 200 "POST request received".
BodyAnswered ==
    /\ step = "body"
    /\ BodyAvailable(req[conn], eof[conn])
    /\ Decodes(req[conn], BodyGot(req[conn]))
    /\ Finish("answered")
    /\ UNCHANGED <<req, sent, eof, backlog>>

\* Lines 25-26: read returns and decode raises UnicodeDecodeError; no
\* response.
BodyRaises ==
    /\ step = "body"
    /\ BodyAvailable(req[conn], eof[conn])
    /\ ~Decodes(req[conn], BodyGot(req[conn]))
    /\ Finish("dropped")
    /\ UNCHANGED <<req, sent, eof, backlog>>

ServerNext == Accept \/ ReadHeaders \/ NoRequest \/ DoGET \/ LengthRaises \/ StartBody \/ BodyAnswered \/ BodyRaises

Next ==
    \/ ServerNext
    \/ \E c \in Clients :
           SendRequest(c) \/ Shutdown(c) \/ \E r \in Requests : Connect(c, r)

\* serve_forever's thread runs as long as the process does; the clients
\* owe nothing (a client may wait forever without closing).
Spec == Init /\ [][Next]_vars /\ WF_vars(ServerNext)

-----------------------------------------------------------------------------
TypeOK ==
    /\ cstate \in [Clients -> {"idle", "waiting", "answered", "dropped"}]
    /\ req \in [Clients -> Requests]
    /\ sent \in [Clients -> BOOLEAN]
    /\ eof \in [Clients -> BOOLEAN]
    /\ backlog \in Seq(Clients)
    /\ conn \in Clients \cup {None}
    /\ step \in {"accept", "headers", "request", "body"}
    /\ (step = "accept") <=> (conn = None)

\* A request the handler can complete on its own: a GET, or a POST whose
\* declared body has been sent in full as UTF-8.
WellFormed(r) ==
    \/ r.method = "GET"
    \/ /\ r.header = "number" /\ r.length >= 0
       /\ r.sent >= r.length /\ r.utf8

\* The client on conn has not shut down and owes the handler what it is
\* blocked reading: its request line and headers, or fewer body bytes than
\* rfile.read waits for (a negative length waits for EOF).
ClientStalls ==
    /\ step \in {"headers", "body"} /\ ~eof[conn]
    /\ \/ step = "headers" /\ ~sent[conn]
       \/ step = "body" /\ (req[conn].length < 0 \/ req[conn].sent < req[conn].length)

\* Every client that has connected is eventually answered or has its
\* connection closed, unless the server is held by a client that still owes
\* it its headers or body bytes: a client that shuts down early, or a handler exception (missing or invalid Content-Length,
\* undecodable body) does not stop serve_forever from serving the
\* connections queued behind it, and nothing else blocks the loop.
ServedUnlessClientStalls ==
    \A c \in Clients :
        cstate[c] = "waiting" ~> (cstate[c] # "waiting" \/ ClientStalls)

\* A well-formed request, once sent, is eventually answered, whatever
\* other clients do.
WellFormedAnswered ==
    \A c \in Clients :
        (cstate[c] = "waiting" /\ sent[c] /\ WellFormed(req[c])) ~> cstate[c] = "answered"
=============================================================================
