-------------------------- MODULE MCReputationLedger -------------------------
(***************************************************************************)
(* A ring of four for TLC: 1 may be an anchor, 3 and 4 praise one another. *)
(***************************************************************************)
EXTENDS ReputationLedger

Square == 1..4
SquareAdj == [n \in Square |-> {m \in Square : (n - m) % 2 = 1}]
None == {}

Both == {"eigentrust", "repulink"}
AnchorOrNot == {{}, {1}}

Vouching(edges) == [e \in {f \in Square \X Square : f[1] # f[2]} |->
                      IF e \in edges THEN 100 ELSE 0]
NoneChainOrCycle ==
  {Vouching({}), Vouching({<<1, 2>>, <<2, 3>>}), Vouching({<<2, 3>>, <<3, 2>>, <<2, 1>>})}

Later == {<<<<1, 3>>, 50>>, <<<<1, 4>>, 50>>}
Signed ==
  {[pair |-> <<1, 4>>, confidence |-> 20 * x + 40, issued |-> 2, expires |-> x, authentic |-> a] :
     x \in {2, 3}, a \in BOOLEAN}
OneTrusted == {1}
Presented == {1, 2, 3}

Flow == {<<1, 2>>, <<2, 3>>, <<3, 4>>, <<4, 3>>}
OneDown == {{}, {2}}
RingPackets == [node : {1}, dst : {3}, visited : {{1}, {1, 2}, {1, 4}}]
                 \cup [node : {2}, dst : {3}, visited : {{2}, {1, 2}}]
=============================================================================
