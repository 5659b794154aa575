---------------------------- MODULE MCHTTPFraming ----------------------------
(* Clients for the framing: with a limit of 6, a header of 4 is complete in  *)
(* two or three pieces of up to 5 bytes, and one of 9 can reach the limit.   *)
EXTENDS HTTPFraming

Request(header, declares, body) ==
    [header |-> header, declares |-> declares, chunked |-> FALSE, body |-> body]

\* Requests that say how long the body is, if only that there is none, and
\* two that the server refuses.
TheRequests ==
    {Request(4, TRUE, 0), Request(3, TRUE, 4), Request(6, TRUE, 1), Request(9, TRUE, 0),
     [Request(3, TRUE, 0) EXCEPT !.chunked = TRUE]}
=============================================================================
