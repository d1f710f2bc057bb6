------------------------------ MODULE Listeners ------------------------------
(***************************************************************************)
(* One listener of the load balancer, of any protocol, with the pool it    *)
(* serves.  run (cmd/lb/main.go) looks at the listener's protocol and      *)
(* starts a server of the module TCPServer (tcp and tls_passthrough),      *)
(* UDPSessions or HTTPRequests; each reads its pool from the snapshot of   *)
(* the moment (poolGetter, sniRouter, RouteTableGetter), which updates     *)
(* replace.  The state of the two modules that the protocol does not       *)
(* choose stays as it is in Init.                                          *)
(***************************************************************************)
EXTENDS TCPServer, UDPSessions, HTTPRequests

listenerVars == <<poolVars, tcpOwnVars, udpOwnVars, httpOwnVars>>

(* What a listener is configured with matters to its own protocol only.    *)
Init ==
  /\ PoolInit /\ TCPInit /\ UDPInit /\ HTTPInit
  /\ protocol \notin Stream => maxConn = CHOOSE n \in Limits : TRUE
  /\ protocol # "http" => ~retries

startTCPProxy ==
  /\ protocol = "tcp"
  /\ TCPNext /\ UNCHANGED <<udpOwnVars, httpOwnVars>>

startTLSPassthroughProxy ==
  /\ protocol = "tls_passthrough"
  /\ TCPNext /\ UNCHANGED <<udpOwnVars, httpOwnVars>>

startUDPProxy ==
  /\ protocol = "udp"
  /\ UDPNext /\ UNCHANGED <<tcpOwnVars, httpOwnVars>>

startHTTPProxy ==
  /\ protocol = "http"
  /\ HTTPNext /\ UNCHANGED <<tcpOwnVars, udpOwnVars>>

Next == startTCPProxy \/ startTLSPassthroughProxy \/ startUDPProxy \/ startHTTPProxy

(* A module that is not chosen has no fair action that is enabled.         *)
Spec == Init /\ [][Next]_listenerVars /\ TCPFairness /\ UDPFairness
=============================================================================
