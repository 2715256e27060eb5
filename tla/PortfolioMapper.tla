---------------------------- MODULE PortfolioMapper ----------------------------
(***************************************************************************)
(* PortfolioMapper.mapChainPortfolio                                       *)
(* (src/routes/portfolio/mappers/portfolio.mapper.ts): the portfolio of a  *)
(* Safe, as the portfolio provider returns it for all chains, is reduced   *)
(* to one chain.                                                           *)
(*                                                                         *)
(* A portfolio is the sequence of its protocols (Object.values of          *)
(* assetByProtocols); a protocol's chains map a chain key to the sequence  *)
(* of its protocol positions.  A position is regular (a list of assets) or *)
(* complex (a list of protocol positions, each with assets and the         *)
(* optional borrow, dex, reward and supply lists).  Records here are       *)
(* functions, so an absent optional field is a field outside DOMAIN, and   *)
(* `'protocolPositions' in position` is a DOMAIN test.  Names, values and  *)
(* logos are copied through unchanged and left out; an asset is a model    *)
(* value.                                                                  *)
(***************************************************************************)
EXTENDS Naturals, Sequences, FiniteSets, SequencesExt

CONSTANTS
    ChainKeys,      \* PortfolioMapper.ChainKeys: chain key -> chain id
    ChainIds,       \* chain ids a request may name
    Portfolios,     \* the provider's portfolios a request may carry
    Undefined       \* the JavaScript value undefined

VARIABLES
    req,            \* the request being mapped: chain id and portfolio
    resp            \* what mapChainPortfolio returned or threw

vars == <<req, resp>>

(* The PortfolioAssetType members, in the order of the assetTypes object  *)
(* literal, which is the order Object.entries yields them in.             *)
AssetTypeOrder == <<"General", "Borrow", "Dex", "Rewards", "Supply">>

(* The domain field holding each asset type's list.                        *)
AssetField == [General |-> "assets", Borrow |-> "borrowAssets",
               Dex |-> "dexAssets", Rewards |-> "rewardAssets",
               Supply |-> "supplyAssets"]

(* getChainKey: the first entry of ChainKeys whose chain id matches;       *)
(* undefined when there is none (the caller then throws).                  *)
Supported(chainId) == \E k \in DOMAIN ChainKeys : ChainKeys[k] = chainId

(* Mutant: the entry's chain id is returned instead of its key (chain[1]). *)
GetChainKeyId(chainId) == chainId

GetChainKey(chainId) == CHOOSE k \in DOMAIN ChainKeys : ChainKeys[k] = chainId

(* isComplexPosition: 'protocolPositions' in position.                     *)
IsComplexPosition(position) == "protocolPositions" \in DOMAIN position

(* mapPositionAsset: the asset, tagged with its type.                      *)
MapPositionAsset(type, asset) == [type |-> type, asset |-> asset]

(* mapRegularPosition: every asset becomes a General one.                  *)
MapRegularPosition(position) ==
    [assets |-> [i \in DOMAIN position.assets |->
                    MapPositionAsset("General", position.assets[i])]]

(* The list of one asset type of a complex position's entry: assets as it  *)
(* is, the optional lists with `?? []`.                                    *)
AssetList(position, type) ==
    LET f == AssetField[type] IN
    IF type = "General" THEN position[f]
    ELSE IF f \in DOMAIN position /\ position[f] # Undefined THEN position[f]
    ELSE <<>>

(* mapComplexPositionProtocolPosition: Object.entries(assetTypes).flatMap, *)
(* each list mapped with its type, in the order of AssetTypeOrder.         *)
MapComplexPositionProtocolPosition(position) ==
    LET typed(t) == LET l == AssetList(position, t) IN
                    [i \in DOMAIN l |-> MapPositionAsset(t, l[i])]
    IN [assets |-> FlattenSeq([n \in DOMAIN AssetTypeOrder |-> typed(AssetTypeOrder[n])])]

(* The `this` that mapComplexPositionProtocolPosition runs with: it is     *)
(* handed to Array.prototype.map unbound (lines 171-173), and class bodies *)
(* are strict code, so `this` is undefined inside it.                      *)
ComplexCallbackThis == Undefined

(* `this.mapPositionAsset` inside that callback reads a property of        *)
(* undefined, a TypeError, as soon as one asset of any type is mapped.     *)
ComplexPositionThrows(position) ==
    /\ ComplexCallbackThis = Undefined
    /\ \E n \in DOMAIN position.protocolPositions :
          \E t \in {AssetTypeOrder[i] : i \in DOMAIN AssetTypeOrder} :
             AssetList(position.protocolPositions[n], t) # <<>>

(* mapComplexPosition.                                                     *)
MapComplexPosition(position) ==
    [positions |-> [n \in DOMAIN position.protocolPositions |->
                       MapComplexPositionProtocolPosition(position.protocolPositions[n])]]

MapPosition(position) ==
    IF IsComplexPosition(position) THEN MapComplexPosition(position)
    ELSE MapRegularPosition(position)

(* The protocols present on the chain of key (the `continue` on a missing  *)
(* chain).                                                                 *)
ProtocolsOnChain(portfolio, key) ==
    SelectSeq(portfolio, LAMBDA p : key \in DOMAIN p.chains)

(* mapChainPortfolio: getChainKey throws first for an unsupported chain;   *)
(* otherwise the first complex position with an asset throws the          *)
(* TypeError; otherwise the page lists one item per protocol on the chain, *)
(* with its positions mapped, count = results.length, no pagination.       *)
MapChainPortfolio(chainId, portfolio) ==
    IF ~Supported(chainId) THEN [error |-> "NotSupported"]
    ELSE
      LET key == GetChainKey(chainId)
          onChain == ProtocolsOnChain(portfolio, key)
          positionsOf(p) == p.chains[key]
      IN IF \E i \in DOMAIN onChain :
               \E j \in DOMAIN positionsOf(onChain[i]) :
                  LET pos == positionsOf(onChain[i])[j] IN
                  IsComplexPosition(pos) /\ ComplexPositionThrows(pos)
         THEN [error |-> "TypeError"]
         ELSE [results |-> [i \in DOMAIN onChain |->
                  [protocolPositions |->
                      [j \in DOMAIN positionsOf(onChain[i]) |->
                          MapPosition(positionsOf(onChain[i])[j])]]],
               count |-> Len(onChain)]

(* A GET of the portfolio of a Safe on one chain, with the provider's     *)
(* answer for it.                                                          *)
Init ==
    /\ req \in [chainId: ChainIds, portfolio: Portfolios]
    /\ resp = Undefined

(* The answer is mapped in one synchronous call, which returns or throws.  *)
Map ==
    /\ resp = Undefined
    /\ resp' = MapChainPortfolio(req.chainId, req.portfolio)
    /\ UNCHANGED req

Next == Map

Spec == Init /\ [][Next]_vars

-----------------------------------------------------------------------------
(* PROPERTIES                                                              *)

(* Reference: the n-th protocol of the portfolio present on the chain of   *)
(* key, found by counting rather than by filtering.                        *)
RefOnChainIndex(portfolio, key, n) ==
    CHOOSE i \in DOMAIN portfolio :
        /\ key \in DOMAIN portfolio[i].chains
        /\ n = Len(SelectSeq([m \in 1 .. i |-> portfolio[m]],
                             LAMBDA p : key \in DOMAIN p.chains))

(* The assets of one type in a mapped list, untagged.                      *)
AssetsOfType(mapped, t) ==
    LET sel == SelectSeq(mapped, LAMBDA a : a.type = t) IN
    [i \in DOMAIN sel |-> sel[i].asset]

(* A mapped position carries the input position's assets: a regular one   *)
(* all as General, a complex one, entry by entry, each type's list (an     *)
(* absent or undefined optional list as none).                             *)
PositionPreserved(in, out) ==
    IF "protocolPositions" \in DOMAIN in
    THEN /\ DOMAIN out.positions = DOMAIN in.protocolPositions
         /\ \A n \in DOMAIN in.protocolPositions,
               tf \in {<<"General", "assets">>, <<"Borrow", "borrowAssets">>,
                       <<"Dex", "dexAssets">>, <<"Rewards", "rewardAssets">>,
                       <<"Supply", "supplyAssets">>} :
               LET e == in.protocolPositions[n]
                   t == tf[1]
                   f == tf[2]
               IN AssetsOfType(out.positions[n].assets, t) =
                     IF f \in DOMAIN e /\ e[f] # Undefined THEN e[f] ELSE <<>>
    ELSE /\ AssetsOfType(out.assets, "General") = in.assets
         /\ Len(out.assets) = Len(in.assets)

(* The page of mapChainPortfolio is the requested chain's part of the      *)
(* portfolio: one item per protocol present on that chain, in order, whose *)
(* positions carry exactly the chain's assets, each under the type of the  *)
(* list it came from; count is the number of items.                        *)
PageMatchesChain ==
    (resp # Undefined /\ "results" \in DOMAIN resp) =>
      LET key == CHOOSE k \in DOMAIN ChainKeys : ChainKeys[k] = req.chainId
          port == req.portfolio
          items == {i \in DOMAIN port : key \in DOMAIN port[i].chains}
      IN /\ resp.count = Cardinality(items)
         /\ DOMAIN resp.results = 1 .. resp.count
         /\ \A n \in 1 .. resp.count :
               LET src == port[RefOnChainIndex(port, key, n)].chains[key]
                   dst == resp.results[n].protocolPositions
               IN /\ DOMAIN dst = DOMAIN src
                  /\ \A j \in DOMAIN src : PositionPreserved(src[j], dst[j])

(* Every portfolio of a supported chain is mapped: mapChainPortfolio       *)
(* throws only for a chain id missing from ChainKeys.                      *)
SupportedChainMapped ==
    (resp # Undefined /\ Supported(req.chainId)) => "results" \in DOMAIN resp

=============================================================================
