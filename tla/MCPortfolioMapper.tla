-------------------------- MODULE MCPortfolioMapper --------------------------
EXTENDS PortfolioMapper

CONSTANTS a1, a2

(* Two chain keys of the table and a chain id that is not in it.          *)
MCChainKeys == [ethereum |-> "1", gnosis |-> "100"]

MCChainIds == {"1", "100", "10"}

(* Positions: regular ones with and without assets; complex ones with no  *)
(* entries, with entries whose lists are all empty, absent or undefined,  *)
(* and with entries holding assets of several types.                      *)
E0 == [assets |-> <<>>]
E1 == [assets |-> <<>>, borrowAssets |-> Undefined, supplyAssets |-> <<>>]
E2 == [assets |-> <<a1>>, dexAssets |-> <<a2>>]
E3 == [assets |-> <<>>, rewardAssets |-> <<a2>>]

MCPositions ==
    { [assets |-> <<>>], [assets |-> <<a1, a2>>],
      [protocolPositions |-> <<>>], [protocolPositions |-> <<E0, E1>>],
      [protocolPositions |-> <<E2>>], [protocolPositions |-> <<E3, E0>>] }

MCPositionLists ==
    {<<>>} \cup {<<p>> : p \in MCPositions}
    \cup {<< [assets |-> <<a1, a2>>], [protocolPositions |-> <<E0, E1>>] >>}

MCProtocols ==
    {[chains |-> (k :> l)] : k \in {"ethereum", "gnosis"}, l \in MCPositionLists}
    \cup {[chains |-> ("ethereum" :> l) @@ ("gnosis" :> <<[assets |-> <<a2>>]>>)] :
            l \in MCPositionLists}

MCPortfolios ==
    {<<>>} \cup {<<p>> : p \in MCProtocols} \cup {<<p, q>> : p, q \in MCProtocols}
==============================================================================
