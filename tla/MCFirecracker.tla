---------------------------- MODULE MCFirecracker ----------------------------
(* Constants for the model checking of FirecrackerBackend. *)
EXTENDS FirecrackerBackend

\* Each kind of call; requests that fit the socket, the transport's buffer, neither
\* of them, and one that no agent accepts.
MCRequests == {<<"read", "small">>, <<"exec", "medium">>, <<"write", "large">>,
               <<"write", "oversize">>}
=============================================================================
