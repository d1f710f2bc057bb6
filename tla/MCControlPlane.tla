--------------------------- MODULE MCControlPlane ---------------------------
(* Small configurations for the control plane: two pools, "web" and "api", *)
(* and two backend addresses.                                              *)
EXTENDS ControlPlane, TLC

CONSTANTS web, api, a, b

L1 == [name |-> "l1", address |-> "x", protocol |-> "http", tlsMode |-> "terminate"]
L1Moved == [L1 EXCEPT !.address = "z"]
L2 == [name |-> "l2", address |-> "y", protocol |-> "http", tlsMode |-> "terminate"]

Checked(bs) == [discovery |-> FALSE, backends |-> bs, healthCheck |-> TRUE, retry |-> TRUE]
Plain(bs)   == [Checked(bs) EXCEPT !.healthCheck = FALSE]
Dynamic     == [discovery |-> TRUE, backends |-> {}, healthCheck |-> TRUE, retry |-> FALSE]

Config(pools, listener, cert) ==
  [pools |-> pools, listeners |-> {listener, L2}, certs |-> [l \in {"l1", "l2"} |-> cert]]

(* A pool with health checks and one without; a health check for the other *)
(* one too, and new certificates; and other backends with a listener on    *)
(* another address, which a reload has to refuse.                          *)
Base    == Config(web :> Checked({a}) @@ api :> Plain({a}), L1, 1)
Renewed == Config(web :> Checked({a}) @@ api :> Checked({a}), L1, 2)
Moved   == Config(web :> Checked({b}) @@ api :> Plain({a}), L1Moved, 1)

(* A discovery-driven pool beside a static one.                            *)
Both == Config(web :> Checked({a}) @@ api :> Dynamic, L1, 1)

AdminConfigs == {Base, Renewed, Moved}
OnlyBoth     == {Both}

Call(op, p, s) == [op |-> op, pool |-> p, server |-> s]
MembershipCalls == {Call("add", web, b), Call("remove", api, a)}
DrainCalls      == {Call("drain", web, a), Call("undrain", web, a)}

TwoTLS == <<"l1", "l2">>
NoTLS  == <<>>
OnlyA    == {{a}}
OneOfTwo == {{a}, {b}}
=============================================================================
