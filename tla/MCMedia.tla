------------------------------ MODULE MCMedia ------------------------------
(***************************************************************************)
(* Media for TLC, with four states of the kernel's tables: a route to the  *)
(* peer next to a default; without it and its interface, but with two      *)
(* defaults, one a multipath route; the peer over the loopback; and no     *)
(* route that newMedia can use.                                            *)
(***************************************************************************)
EXTENDS Media

CONSTANTS eth0, eth1, lo, peer, gw

To(addrs, out) ==
    [to |-> addrs, default |-> FALSE, limited |-> FALSE, prio |-> 0,
     out |-> out, gateway |-> NoGateway]

Default(prio, out, limited) ==
    [to |-> {}, default |-> TRUE, limited |-> limited, prio |-> prio,
     out |-> out, gateway |-> gw]

MCWired == {eth0, eth1}

MCKernels ==
    { [routes |-> {To({peer}, eth1), Default(1, eth0, FALSE)},
       links |-> {eth0, eth1}, neighbours |-> {peer, gw}],
      [routes |-> {Default(1, eth0, FALSE), Default(0, NoLink, FALSE)},
       links |-> {eth0}, neighbours |-> {gw}],
      [routes |-> {To({peer}, lo)},
       links |-> {eth0, lo}, neighbours |-> {peer}],
      [routes |-> {Default(0, eth0, TRUE)},
       links |-> {eth0}, neighbours |-> {}] }
=============================================================================
