-------------------- MODULE MCClusterTopologyMonitor --------------------
(* ClusterTopologyMonitor for TLC: one handle more than there are pointers *)
(* to hold them, so that an allocation always finds a free one.            *)
EXTENDS ClusterTopologyMonitor

CONSTANTS h1, h2

MCHandles == {n + 1 : n \in 0 .. Cardinality(HandleSlots)}

Scenario(hosts, kinds, calls) ==
    [hosts |-> hosts, faults |-> 1, kinds |-> kinds, calls |-> calls]

(* One host, and another that may join; both, of which a reader may fail   *)
(* to tell its role; and both without clients, with a failure of any kind. *)
MCSafety == {Scenario({h1}, {"scale", "break", "connect", "role"}, {"verify", "hdbc"}),
             Scenario({h1, h2}, {"role"}, {"verify", "hdbc"}),
             Scenario({h1, h2}, {"failover", "break", "connect", "role"}, {})}
MCLive == {Scenario({h1, h2}, {"connect"}, {"noverify"})}
=============================================================================
