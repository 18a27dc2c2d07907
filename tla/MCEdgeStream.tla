---- MODULE MCEdgeStream ----
EXTENDS EdgeStream
Request(k, c, h, l, b, m) == [kind |-> k, carrier |-> c, head |-> h, len |-> l, body |-> b, max |-> m]
MCRequests ==
  {Request("proxy", "websocket", FALSE, 2, 0, 2), Request("proxy", "h2", FALSE, 1, 1, 1),
   Request("proxy", "h2", TRUE, 0, 0, 0), Request("file", "h2", FALSE, 2, 0, 1),
   Request("file", "h2", FALSE, 1, 0, 1),
   Request("file", "websocket", TRUE, 0, 0, 0)}
====
