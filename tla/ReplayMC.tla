------------------------------ MODULE ReplayMC ------------------------------
(* Replay over three names, ranked a, b, c.  The cadence of the failure     *)
(* marker reviews on any day, that of the proposals once a week.            *)
EXTENDS Replay

CONSTANTS a, b, c

\* a may be in demand while it is stopped out, b turns from BUY to SELL, and c
\* is in reach of the relaxed fallback.
AbcMarkets ==
  {[signal |-> s, order |-> <<a, b, c>>, near |-> {c}, stopped |-> stopped, entry |-> {a, b, c}] :
     s \in {f \in [{a, b, c} -> {"BUY", "SELL", "HOLD"}] : f[a] # "SELL" /\ f[b] # "HOLD" /\ f[c] # "SELL"},
     stopped \in {{}, {a}}}

\* No answer, one decision, one on a and one on b, buys of c and b, and an
\* answer with two orders to buy c.
Opinions == {Decision(t, action, 0) : t \in {a, b, c}, action \in {"BUY", "SELL", "HOLD"}}
Answers ==
  {<<>>} \cup {<<d>> : d \in Opinions} \cup {<<Decision(c, "BUY", 1)>>, <<Decision(a, "SELL", 1)>>}
  \cup {r \in {<<d, e>> : d \in Opinions, e \in Opinions} :
          <<r[1].ticker, r[2].ticker>> = <<a, b>>}
  \cup {<<Decision(c, "BUY", 0), Decision(b, "BUY", 0)>>,
        <<Decision(c, "BUY", 1), Decision(b, "BUY", 0), Decision(c, "BUY", 0)>>}

NoneOrB == {{}, {b}}

AllSetups ==
  {[strategy |-> "deterministic", cadence |-> "weekly"],
   [strategy |-> "llm", cadence |-> "weekly"]}
  \cup [strategy: {"hybrid"}, cadence: {"marker", "failure"}]
=============================================================================
