------------------------------- MODULE SimMC -------------------------------
(* Sim over two names, ranked a, b, with room for one or two positions.     *)
EXTENDS Sim

CONSTANTS a, b

Market(s) == [signal |-> s, order |-> <<a, b>>, near |-> {}, stopped |-> {}, entry |-> {a, b}]

\* Both in demand; a to be sold for b; only a in demand.
AbMarkets == {Market((a :> "BUY") @@ (b :> "BUY")), Market((a :> "SELL") @@ (b :> "BUY"))}
MarketOfA == {Market((a :> "BUY") @@ (b :> "HOLD"))}

AbReplies ==
  {<<Decision(a, "HOLD", 0), Decision(b, "BUY", 0)>>, <<Decision(a, "SELL", 0), Decision(b, "BUY", 0)>>}

\* The proposal for a is confirmed, b is the LLM's own.
AdditionOfB == {<<Decision(a, "BUY", 0), Decision(b, "BUY", 0)>>}

Action(t, action, size, reserve) == [ticker |-> t, action |-> action, size |-> size, reserve |-> reserve]
AbChats == {<<Action(a, "SELL", 1, FALSE)>>, <<Action(b, "BUY", 0, TRUE)>>}

\* The run goes on until a commit has overwritten another one.
UntilRaced == ~history.raced
=============================================================================
