\* Three clients sending every kind of request: well-formed, without or
\* with an invalid Content-Length, non-UTF-8, short, negative length.
CONSTANTS
    c1 = c1
    c2 = c2
    c3 = c3
    None = None
    Clients <- MCClients3
    Requests <- AllRequests
SPECIFICATION Spec
PROPERTIES ServedUnlessClientStalls
CHECK_DEADLOCK FALSE
