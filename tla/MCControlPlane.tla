--------------------------- MODULE MCControlPlane ---------------------------
(* Instances of ControlPlane: server configurations and clients. *)
EXTENDS ControlPlane, TLC

CONSTANTS alpha, beta    \* two tokens

Tcp == [type |-> "tcp", port |-> 8080]
Udp == [type |-> "udp", port |-> 9090]
Tcp2 == [type |-> "tcp", port |-> 8081]

Number(n) == [form |-> "number", port |-> n]
Object(n, tokens) == [form |-> "object", port |-> n, tokens |-> tokens]
Other == [form |-> "other"]

\* alpha may use every port, beta only the UDP one
Global == [tokens |-> {alpha}, tcp |-> <<Object(8080, {alpha})>>, udp |-> <<Object(9090, {beta})>>]
\* alpha is gone, the TCP port is open to every known token
PerPort == [tokens |-> {}, tcp |-> <<Number(8080)>>, udp |-> <<Object(9090, {beta})>>]
\* items that are passed over: no UDP port is left, and beta is not known
Mistyped == [tokens |-> {}, tcp |-> <<Other, Object(8080, {alpha})>>,
             udp |-> <<Object(99090, {beta}), Number(70000)>>]
\* not valid: no token at all; a port without a number, or null
NoTokens == [tokens |-> {}, tcp |-> <<Number(8080)>>, udp |-> <<>>]
NoPort == [tokens |-> {alpha}, tcp |-> <<Object(0, {alpha})>>, udp |-> <<Number(0)>>]

\* alpha is gone, and a TCP port was added that had no listener at start
Added == [tokens |-> {}, tcp |-> <<Object(8080, {beta}), Number(8081)>>, udp |-> <<Object(9090, {beta})>>]

TwoFiles == {Global, Added}
AllFiles == {Global, PerPort, Mistyped, NoTokens, NoPort}

Client(version, token, ports) == [version |-> version, token |-> token, ports |-> ports]

\* Clients with everything granted, with one port denied, with a port that is
\* not there, with a negative one, and with one that is not valid.
AllClients ==
    {Client(3, alpha, <<Tcp, Udp>>), Client(3, beta, <<Udp, Tcp>>), Client(3, beta, <<Tcp2>>),
     Client(3, alpha, <<Udp, [Tcp EXCEPT !.port = -1]>>), Client(3, alpha, <<[Tcp EXCEPT !.port = 0]>>)}
\* Without a token, of another version, with another type of port.
OldClients ==
    {Client(3, EmptyToken, <<Tcp>>), Client(2, alpha, <<Tcp>>),
     Client(3, alpha, <<[Tcp EXCEPT !.type = "sctp"], Tcp>>)}
TwoClients == {Client(3, alpha, <<Tcp, Udp>>), Client(3, beta, <<Udp, Tcp2>>)}
NoClients == {}

SessionSymmetry == Permutations(Sessions)
=============================================================================
