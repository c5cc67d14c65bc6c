-------------------------------- MODULE Sockets --------------------------------
(***************************************************************************)
(* The assertion about the security of the connection between the test     *)
(* client and the test server, framework/xds_k8s_testcase.py: it reads the *)
(* client's socket, then the server's sockets until one matches, and       *)
(* compares the certificates.  Connections come and go in the meantime,    *)
(* and the server has other clients.                                       *)
(***************************************************************************)
EXTENDS Retryers, Sequences

CONSTANTS
  Ports,       \* local ports of clients
  MaxConns     \* bound: connections to the server

ASSUME SocketConstants == MaxConns \in Nat

VARIABLES
  asked,       \* the arguments of the assertion, and who reports its own
               \* certificate to channelz
  conns,       \* connections, in the order of their sockets' ids
  clientEnds,  \* connections that are open at their client
  serverEnds,  \* connections that are open at the server
  looked,      \* the connection of the client's socket; 0: none
  matched      \* the connection of the server's socket; 0: none

socketVars == <<asked, conns, clientEnds, serverEnds, looked, matched>>

Modes == {"MTLS", "TLS", "PLAINTEXT"}
Hosts == {"client", "other"}
Certificates == {"server", "client", "other", "none"}

Conn == [host : Hosts, port : Ports, mode : Modes]
ClientConns == {i \in DOMAIN conns : conns[i].host = "client"}

\* --check_local_certs is for languages that report them.
Asked == [mode : Modes, check_local_certs : BOOLEAN, match_only_port : BOOLEAN,
          reports : SUBSET {"client", "server"}]
Reasonable(a) == a.check_local_certs => a.reports = {"client", "server"}

SocketInit ==
  /\ asked \in {a \in Asked : Reasonable(a)}
  /\ conns = <<>>
  /\ clientEnds = {} /\ serverEnds = {}
  /\ looked = 0 /\ matched = 0
  /\ pc = "look" /\ looks = 0

-------------------------------------------------------------------------------
(* What channelz says of the ends of connection i: the model of its security,
   and the certificates of that end and of the other one. *)

client_security(i) ==
  LET c == conns[i] IN
  [tls    |-> c.mode # "PLAINTEXT",
   remote |-> IF c.mode # "PLAINTEXT" THEN "server" ELSE "none",
   local  |-> IF c.mode = "MTLS" /\ "client" \in asked.reports
              THEN c.host ELSE "none"]

server_security(i) ==
  LET c == conns[i] IN
  [tls    |-> c.mode # "PLAINTEXT",
   remote |-> IF c.mode = "MTLS" THEN c.host ELSE "none",
   local  |-> IF c.mode # "PLAINTEXT" /\ "server" \in asked.reports
              THEN "server" ELSE "none"]

assertSecurityMtls(client, server) ==
  /\ client.tls /\ server.tls
  /\ client.remote # "none"
  /\ asked.check_local_certs =>
       server.local # "none" /\ server.local = client.remote
  /\ server.remote # "none"
  /\ asked.check_local_certs =>
       client.local # "none" /\ server.remote = client.local

assertSecurityTls(client, server) ==
  /\ client.tls /\ server.tls
  /\ client.remote # "none"
  /\ asked.check_local_certs =>
       server.local # "none" /\ server.local = client.remote
  /\ server.remote = "none"
  /\ client.local = "none"

assertSecurityPlaintext(client, server) ==
  server.local = "none" /\ client.local = "none" /\ server.remote = "none"

assertTestAppSecurity(client, server) ==
  \/ asked.mode = "MTLS"      /\ assertSecurityMtls(client, server)
  \/ asked.mode = "TLS"       /\ assertSecurityTls(client, server)
  \/ asked.mode = "PLAINTEXT" /\ assertSecurityPlaintext(client, server)

\* Slip: hosts are never compared.
SamePort(i, j) == conns[i].port = conns[j].port

\* Addresses are compared, or only ports, where the network translates hosts.
SameAddress(i, j) ==
  /\ conns[i].port = conns[j].port
  /\ asked.match_only_port \/ conns[i].host = conns[j].host

find_server_socket_matching_client(i) ==
  LET found == {j \in serverEnds : SameAddress(i, j)}
  IN  IF found = {} THEN 0
      ELSE CHOOSE j \in found : \A k \in found : j <= k

-------------------------------------------------------------------------------
(* assertTestAppSecurityWithRetry *)

SecurityRetryer ==
  exponential_retryer_with_timeout(_build_retry_conditions(Errors, FALSE))

worldOfSockets == <<asked, conns, clientEnds, serverEnds>>

SecurityBegins ==
  /\ AttemptBegins("socket")
  /\ looked' = 0 /\ matched' = 0
  /\ UNCHANGED worldOfSockets

get_active_server_channel_socket ==
  /\ pc = "socket"
  /\ \E i \in ClientConns \cap clientEnds :
       looked' = i /\ pc' = "match"
  /\ UNCHANGED <<looks, worldOfSockets, matched>>

NoClientSocket ==
  /\ pc = "socket" /\ ClientConns \cap clientEnds = {}
  /\ AttemptEnds(SecurityRetryer, "NotFound")
  /\ UNCHANGED socketVars

get_server_socket_matching_client ==
  /\ pc = "match"
  /\ matched' = find_server_socket_matching_client(looked)
  /\ AttemptEnds(SecurityRetryer,
       IF matched' = 0 THEN "NotFound"
       ELSE IF assertTestAppSecurity(client_security(looked),
                                     server_security(matched'))
            THEN "accepted" ELSE "AssertionError")
  /\ UNCHANGED <<worldOfSockets, looked>>

\* A request to channelz fails; a socket is gone when it is asked for.
SocketRpcFails ==
  /\ pc \in {"socket", "match"}
  /\ AttemptEnds(SecurityRetryer, "RpcError")
  /\ UNCHANGED socketVars

SecurityStep ==
  \/ SecurityBegins \/ get_active_server_channel_socket \/ NoClientSocket
  \/ get_server_socket_matching_client \/ SocketRpcFails

-------------------------------------------------------------------------------
(* The two applications, and other clients of the server.  No address is used
   again while the assertion runs. *)

Connects(conn) ==
  /\ pc \notin Ends /\ Len(conns) < MaxConns
  /\ \A i \in DOMAIN conns :
       conns[i].host # conn.host \/ conns[i].port # conn.port
  /\ conn.host = "client" => ClientConns \cap clientEnds = {}
  /\ conns' = Append(conns, conn)
  /\ clientEnds' = clientEnds \cup {Len(conns) + 1}
  /\ serverEnds' = serverEnds \cup {Len(conns) + 1}
  /\ UNCHANGED <<pc, looks, asked, looked, matched>>

Disconnects(i) ==
  /\ pc \notin Ends
  /\ \/ clientEnds' = clientEnds \ {i} /\ UNCHANGED serverEnds
     \/ serverEnds' = serverEnds \ {i} /\ UNCHANGED clientEnds
  /\ UNCHANGED <<pc, looks, asked, conns, looked, matched>>

SocketWorld ==
  \/ \E conn \in Conn : Connects(conn)
  \/ \E i \in clientEnds \cup serverEnds : Disconnects(i)

-------------------------------------------------------------------------------
(* Properties *)

SocketTypeOK ==
  /\ pc \in {"look", "socket", "match"} \cup Ends
  /\ asked \in Asked /\ Reasonable(asked)
  /\ conns \in Seq(Conn) /\ Len(conns) <= MaxConns
  /\ clientEnds \cup serverEnds \subseteq DOMAIN conns
  /\ {looked, matched} \subseteq {0} \cup DOMAIN conns

\* The client is "using the expected security configuration"
\* (xds_k8s_testcase.py:1539) on the connection that was found, whatever other
\* connections the server has and however the client reconnects meanwhile.
\* Two things are not told apart, and this is all of them: where hosts are
\* translated the other end may be of another client, and TLS passes for
\* plaintext when the server does not report its own certificate, for the
\* client's view of it is not looked at (xds_k8s_testcase.py:1725-1730 repeats
\* the check of its local certificate).
SecurityIsTrue ==
  pc = "passed" /\ matched # 0 /\ ~asked.match_only_port =>
    \/ conns[looked].mode = asked.mode
    \/ /\ asked.mode = "PLAINTEXT" /\ conns[looked].mode = "TLS"
       /\ "server" \notin asked.reports
===============================================================================
