---------------------------- MODULE ServerConfig ----------------------------
(***************************************************************************)
(* What a server configuration grants: how common/config/config.go reads   *)
(* it and looks things up in it, the checks of common/parser/parser.go,    *)
(* and the two decisions that server/control.go takes from them, whether a *)
(* token may connect and what a requested port is answered.                *)
(*                                                                         *)
(* A configuration is a record                                             *)
(*     [tokens : SUBSET Token, tcp : Entries, udp : Entries]               *)
(* where a port list maps places to [port : Int, tokens : SUBSET Token].   *)
(* Only the order of a port list matters (the first entry of a port wins), *)
(* so an entry keeps the place it has in the file; of token lists not even *)
(* the order does.  A requested port is a TaggedPort                       *)
(*     [type : {"tcp", "udp"} or another tag, port : Nat].                 *)
(*                                                                         *)
(* A file has, in place of an Entry, an item of JSON: a number, an object, *)
(* or something else,                                                      *)
(*     [form |-> "number", port |-> n],                                    *)
(*     [form |-> "object", port |-> n, tokens |-> T], [form |-> "other"].  *)
(* A port that an object does not name is 0, and so is null for a number.  *)
(***************************************************************************)
EXTENDS Integers, Sequences

PortTypes == {"tcp", "udp"}
MaxPort == 65535    \* PortType has 16 bits

\* PortConfigList.UnmarshalJSON: a number, or else an object, with a port that
\* fits its 16 bits; any other item is passed over without an error.
Readable(item) == item.form \in {"number", "object"} /\ item.port \in 0..MaxPort
PortConfig(item) ==
    [port |-> item.port, tokens |-> IF item.form = "object" THEN item.tokens ELSE {}]
UnmarshalPorts(items) ==
    [i \in {j \in DOMAIN items : Readable(items[j])} |-> PortConfig(items[i])]

ParseServerConfig(file) ==
    [tokens |-> file.tokens, tcp |-> UnmarshalPorts(file.tcp), udp |-> UnmarshalPorts(file.udp)]

Entries(cfg, type) == {cfg[type][i] : i \in DOMAIN cfg[type]}
AllEntries(cfg) == Entries(cfg, "tcp") \cup Entries(cfg, "udp")

\* GetAllTCPPorts, GetAllUDPPorts
GetAllPorts(cfg, type) == {e.port : e \in Entries(cfg, type)}

\* GetPortConfig: the first entry of the port, for a port that has one.
GetPortConfig(cfg, type, port) ==
    LET at == {i \in DOMAIN cfg[type] : cfg[type][i].port = port}
    IN  cfg[type][CHOOSE i \in at : \A j \in at : i <= j]

\* Handshake: a global token, or the token of any port.
Recognized(cfg, token) ==
    token \in cfg.tokens \/ \E e \in AllEntries(cfg) : token \in e.tokens

\* tokenHasPortAccess
TokenHasPortAccess(cfg, token, type, port) ==
    \/ token \in cfg.tokens
    \/ /\ port \in GetAllPorts(cfg, type)
       /\ LET allowed == GetPortConfig(cfg, type, port).tokens
          IN  allowed = {} \/ token \in allowed

ReplyAnyToken(cfg, token, tp) ==    \* mutant: any known token gets any port
    IF tp.type \notin PortTypes THEN "OtherError"
    ELSE IF tp.port \in GetAllPorts(cfg, tp.type) THEN "Accepted" ELSE "PortInUse"

\* Negotiate: the return code for one requested port.
Reply(cfg, token, tp) ==
    IF tp.type \notin PortTypes THEN "OtherError"
    ELSE IF /\ tp.port \in GetAllPorts(cfg, tp.type)
            /\ TokenHasPortAccess(cfg, token, tp.type, tp.port)
         THEN "Accepted" ELSE "PortInUse"

\* The keys SetupPorts puts in the port map.
TaggedPorts(cfg) ==
    UNION {{[type |-> type, port |-> port] : port \in GetAllPorts(cfg, type)} : type \in PortTypes}

ValidatePortsOnly(cfg) ==    \* mutant: a configuration without a token passes
    \A e \in AllEntries(cfg) : e.port \in 1..MaxPort

\* ValidateServerConfig, but for the transport settings, which a reload does
\* not apply.
ValidateServerConfig(cfg) ==
    /\ cfg.tokens # {} \/ \E e \in AllEntries(cfg) : e.tokens # {}
    /\ \A e \in AllEntries(cfg) : e.port \in 1..MaxPort

\* ValidateClientConfig, but for the transport settings.  The bound is from
\* above only.
ValidateClientConfig(c, emptyToken) ==
    /\ c.token # emptyToken
    /\ \A i \in DOMAIN c.ports :
          /\ c.ports[i].type \in PortTypes
          /\ c.ports[i].port # 0 /\ c.ports[i].port <= MaxPort

\* A port of the client's configuration as the server reads it from the two
\* bytes that the client's Negotiate sends.
OnWire(tp) == [tp EXCEPT !.port = @ % (MaxPort + 1)]
=============================================================================
