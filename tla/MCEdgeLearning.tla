--------------------------- MODULE MCEdgeLearning ----------------------------
(***************************************************************************)
(* A ring for TLC: two ways from every node to every other one, the longer *)
(* of which may be a trusted path of three links.                          *)
(***************************************************************************)
EXTENDS EdgeLearning

Ring == 0..4
RingAdj == [n \in Ring |-> {(n + 1) % 5, (n + 4) % 5}]
None == {}

\* What a packet that reached node without meeting dst has visited: an arc.
Arcs(node) == {{(node + k * i) % 5 : i \in 0..len} : k \in {1, 4}, len \in 0..3}
\* Packets to 3 on their way from 0, over 1 and 2 or over 4, and strays.
RingPackets ==
  UNION {{[node |-> n, dst |-> d, visited |-> v, ttl |-> t] :
            d \in {3} \ v, t \in {1, 2}} : <<n, v>> \in UNION {{<<m, a>> : a \in Arcs(m)} : m \in Ring}}

Towards3 == {<<0, 1>>, <<1, 2>>, <<2, 3>>, <<0, 4>>, <<4, 3>>}
OneDown == {{}, {1}, {3}}

SimAndNode == {Shared, 0}
FewCalls == [o \in SimAndNode |-> IF o = Shared THEN 3 ELSE 5]
=============================================================================
