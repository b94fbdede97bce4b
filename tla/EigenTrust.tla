------------------------------ MODULE EigenTrust -----------------------------
(***************************************************************************)
(* GlobalTrustLedger (solvers.py): one round of the power iteration that   *)
(* turns rows of local trust into one global vector, exactly.              *)
(*                                                                         *)
(* A trust vector is a function to naturals, up to a common factor: what   *)
(* it stands for is each value over the sum of all of them.                *)
(***************************************************************************)
EXTENDS TrustRows, FiniteSetsExt

\* damping, as 3/20.
Damping == 3
Damped == 20

Pretrust(b) ==
  [n \in Node |-> IF b.anchors = {} \/ n \in b.anchors THEN 1 ELSE 0]
Uniform == [n \in Node |-> 1]

\* local_trust: a node without positive evidence trusts who is trusted beforehand.
LocalTrustDangling(b, s) == Scores(b, s)                  \* mutant: no fallback
LocalTrustUniform(b, s) == IF ScoreTotal(b, s) > 0 THEN Scores(b, s) ELSE Uniform \* mutant
LocalTrust(b, s) == IF ScoreTotal(b, s) > 0 THEN Scores(b, s) ELSE Pretrust(b)

\* recompute, one iteration: (1 - damping) of the trust flows along the rows, the
\* rest comes from the pretrust. The factor parts makes every share whole.
Parts(b) ==
  ProductSet(({Total(LocalTrust(b, s)) : s \in Node} \cup {Total(Pretrust(b))}) \ {0})
Share(parts, row, t) ==
  IF row[t] = 0 THEN 0 ELSE row[t] * (parts \div Total(row))

Spread(b, v) ==
  LET parts == Parts(b)
      mass == Total(v)
      rows == [s \in Node |-> LocalTrust(b, s)]
  IN [t \in Node |-> Damping * mass * Share(parts, Pretrust(b), t)
        + (Damped - Damping)
            * Total([s \in Node |-> v[s] * Share(parts, rows[s], t)])]

\* Normalised: the same vector in lowest terms.
Gcd[p \in Nat \X Nat] == IF p[2] = 0 THEN p[1] ELSE Gcd[<<p[2], p[1] % p[2]>>]
Reduced(v) ==
  LET d == FoldFunctionOnSet(LAMBDA x, y : Gcd[<<x, y>>], 0, v, Node)
  IN IF d = 0 THEN v ELSE [n \in Node |-> v[n] \div d]

EigenStep(b, v) == Reduced(Spread(b, v))
=============================================================================
