----------------------------- MODULE MCProxyCache -----------------------------
(* Instances of ProxyCache for TLC.  Times to live in ticks.  A section sets both
   options, so that a message leaves a page alone for its first tick, or only a
   ttl smaller than the default that refresh_ttl then has. *)
EXTENDS ProxyCache

TwoTicks == [k \in Keys \ {"messages"} |-> 2]
Both == {[ttl |-> 3, refresh_ttl |-> 1]}
BothOrTtl == Both \cup {[ttl |-> 2, refresh_ttl |-> Absent]}
==============================================================================
