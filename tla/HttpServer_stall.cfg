\* A client that sends less than its Content-Length and a GET client.
CONSTANTS
    c1 = c1
    c2 = c2
    c3 = c3
    None = None
    Clients <- MCClients2
    Requests <- StallRequests
SPECIFICATION Spec
PROPERTY WellFormedAnswered
CHECK_DEADLOCK FALSE
