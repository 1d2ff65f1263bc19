----------------------------- MODULE GenesisMerge -----------------------------
(***************************************************************************)
(* GenesisStateMerger of generate_unified.mjs: the genesis states of the   *)
(* chains are merged into one, section by section, the first being the     *)
(* base.  Where entries clash the configuration's default holds,           *)
(* evm_priority: the base keeps its entry.                                 *)
(***************************************************************************)
EXTENDS EvmGenesis

\* An entry whose identifier base has already is dropped; the others are added.
MergeById(base, additional, id(_)) ==
    base \cup {x \in additional : \A y \in base : id(y) # id(x)}

\* An operator of both has the lists of its assets concatenated.
MergeOperatorAssets(base, additional) == base \cup additional

\* Tokens are the same if both the chain and the address are.
SameToken(t) == t.asset
SameAddress(t) == t.asset.address
MergeByAddress(base, additional) == MergeById(base, additional, SameAddress)
MergeTokens(base, additional) == MergeById(base, additional, SameToken)

\* mergeAssetsModule.  The gateways among its parameters stay those of base.
MergeAssetsModule(base, additional) ==
    [clientChains |-> base.clientChains \cup additional.clientChains,
     tokens |-> MergeTokens(base.tokens, additional.tokens),
     deposits |-> base.deposits \cup additional.deposits,
     operatorAssets |-> MergeOperatorAssets(base.operatorAssets,
                                            additional.operatorAssets)]

\* mergeDelegationModule: every list is concatenated.
MergeDelegationModule(base, additional) ==
    [associations |-> base.associations \cup additional.associations,
     states |-> base.states \cup additional.states,
     stakersByOperator |->
         base.stakersByOperator \cup additional.stakersByOperator]

\* A validator of both has its powers summed; a new one is added.
MergeValidator(valSet, validator) ==
    LET at == {i \in DOMAIN valSet : valSet[i].publicKey = validator.publicKey}
    IN  IF at = {} THEN Append(valSet, validator)
        ELSE [valSet EXCEPT ![CHOOSE i \in at : TRUE].power =
                 @ + validator.power]
ConcatValSet(base, additional) == base \o additional
MergeValSet(base, additional) == FoldLeft(MergeValidator, base, additional)

\* mergeDogfoodModule: sorted again; nothing limits its length.
MergeDogfoodModule(base, additional) ==
    LET valSet == SortedByPower(MergeValSet(base.valSet, additional.valSet))
    IN  [assetIds |-> base.assetIds \cup additional.assetIds,
         valSet |-> valSet,
         lastTotalPower |-> IF valSet # <<>> THEN TotalPower(valSet)
                                             ELSE base.lastTotalPower]

\* mergeOracleModule: tokens by name, chain_id and address, feeders and prices
\* by token_id.  A clash keeps base, but a price is appended to its list.
MergeSeq(base, additional, id(_)) ==
    FoldLeft(LAMBDA merged, x :
                 IF \E i \in DOMAIN merged : id(merged[i]) = id(x)
                 THEN merged ELSE Append(merged, x),
             base, additional)
MergePrices(base, additional) ==
    LET clash(i) == {j \in DOMAIN additional :
                        additional[j].tokenId = base[i].tokenId}
        merged == [i \in DOMAIN base |->
                      IF clash(i) = {} THEN base[i]
                      ELSE [base[i] EXCEPT !.list =
                               @ \o additional[CHOOSE j \in clash(i) : TRUE].list]]
    IN  MergeSeq(merged, additional, LAMBDA p : p.tokenId)
MergeOracleModule(base, additional) ==
    [chains |-> base.chains \o additional.chains,
     tokens |-> MergeSeq(base.tokens, additional.tokens,
                         LAMBDA t : <<t.name, t.chainId>>),
     feeders |-> MergeSeq(base.feeders, additional.feeders, LAMBDA f : f),
     prices |-> MergePrices(base.prices, additional.prices)]

\* mergeSimple, for x/operator: arrays are concatenated, keys or no keys.
MergeSimple(base, additional) ==
    [records |-> base.records \cup additional.records,
     assetUsdValues |-> base.assetUsdValues \cup additional.assetUsdValues]

\* mergeTwo: the genesis time is that of the state merged last.
MergeTwo(base, additional) ==
    [genesisTime |-> additional.genesisTime,
     assets |-> MergeAssetsModule(base.assets, additional.assets),
     delegation |-> MergeDelegationModule(base.delegation, additional.delegation),
     operator |-> MergeSimple(base.operator, additional.operator),
     dogfood |-> MergeDogfoodModule(base.dogfood, additional.dogfood),
     oracle |-> MergeOracleModule(base.oracle, additional.oracle)]

\* merge: the states one after the other.
Merge(states) ==
    LET merged[n \in 1..Len(states)] ==
            IF n = 1 THEN states[1] ELSE MergeTwo(merged[n - 1], states[n])
    IN  merged[Len(states)]
==============================================================================
