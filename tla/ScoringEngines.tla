--------------------------- MODULE ScoringEngines ---------------------------
(* The decision rules and the stores the engines ask, put together: they share no state, so that  *)
(* they are taken one at a time: "engine" is chosen at the start and is the one that moves.       *)
EXTENDS MCScoring, VelocityStore, HedgeBetting, AmlBlocklist, IpIntelligence

VARIABLE engine

Engines == {"rules", "velocity", "hedge", "blocklist", "ip"}

enginesVars == <<engine, facts, vars, hedgeVars, blocklistVars, ipVars>>

EnginesInit ==
  /\ engine \in Engines
  /\ Init /\ HedgeInit /\ BlocklistInit /\ IpInit
  /\ engine # "velocity" => redis
  /\ engine # "blocklist" => published = Wallet
  /\ engine # "ip" => anonymous.is /\ ipIntel.failOpen /\ ipIntel.ttl = LongestTtl
  /\ IF engine = "rules" THEN RulesInit
     ELSE type = "player.login" /\ device = "trusted" /\ score = 1 /\ signals = {} /\ stepUp = FALSE

EnginesNext ==
  /\ UNCHANGED engine
  /\ \/ engine = "rules" /\ RulesNext
        /\ UNCHANGED <<vars, hedgeVars, blocklistVars, ipVars>>
     \/ engine = "velocity" /\ Next
        /\ UNCHANGED <<facts, hedgeVars, blocklistVars, ipVars>>
     \/ engine = "hedge" /\ HedgeNext
        /\ UNCHANGED <<facts, vars, blocklistVars, ipVars>>
     \/ engine = "blocklist" /\ BlocklistNext
        /\ UNCHANGED <<facts, vars, hedgeVars, ipVars>>
     \/ engine = "ip" /\ IpNext
        /\ UNCHANGED <<facts, vars, hedgeVars, blocklistVars>>

EnginesSpec == EnginesInit /\ [][EnginesNext]_enginesVars

\* Type invariants of the velocity store and of the hedge store (evaluate_bet), each key with its kind
\* of value.
EnginesTypeOK == TypeOK /\ HedgeTypeOK
=============================================================================
