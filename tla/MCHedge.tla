------------------------------- MODULE MCHedge -------------------------------
(* An instance of HedgeBetting for TLC: bets on both sides of two rounds.    *)
EXTENDS HedgeBetting

CONSTANTS onBanker, onPlayer, nextBanker, nextPlayer, r1, r2, banker, player

\* A group lists the selections that oppose each other.
Groups == {{banker, player}}

Bets ==
  [b \in Bet |->
     CASE b = onBanker   -> [round |-> r1, selection |-> banker, amount |-> 2]
       [] b = onPlayer   -> [round |-> r1, selection |-> player, amount |-> 2]
       [] b = nextBanker -> [round |-> r2, selection |-> banker, amount |-> 1]
       [] b = nextPlayer -> [round |-> r2, selection |-> player, amount |-> 1]]
=============================================================================
