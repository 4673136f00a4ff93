------------------------------ MODULE MCTCPMux ------------------------------
(* Small instances of TCPMux for TLC. *)
EXTENDS TCPMux

\* As neofrp uses a session once the control stream is open: the server opens
\* a stream for each user connection and accepts no more, the client accepts.
ServerOnly == [client |-> 0, server |-> 1]
ServerPair == [client |-> 0, server |-> 2]
AcceptAll == [client |-> 4, server |-> 0]

\* Both ends open, until the client has used up its IDs.
OpenBoth == [client |-> 2, server |-> 1]
=============================================================================
