------------------------------ MODULE EvmGenesis ------------------------------
(***************************************************************************)
(* The sections generate.mjs writes for the operators of a Bootstrap       *)
(* contract on an EVM chain: their values, the validator set, the tokens   *)
(* and the oracle.  The amounts are those the contract holds, rounded as   *)
(* Decimals are; what the beacon chain takes from them is the subject of   *)
(* module Genesis.                                                         *)
(*                                                                         *)
(* boot is what the contract and the script's constants hold:              *)
(*   tokens       the whitelisted tokens in order, each with its address,  *)
(*                its name for the oracle, whether it is native restaking, *)
(*                and the value of one unit of it, in parts of RateUnit    *)
(*                to the dollar                                            *)
(*   deposits     records of a staker, a token, an amount                  *)
(*   delegations  records of a staker, an operator, a token, an amount     *)
(*   self         every operator's own account                             *)
(*   invalid      operators whose address fails the check of bech32, which *)
(*                the contract does not make                               *)
(* The entries of Imuachain's own chain and token are left out.            *)
(***************************************************************************)
EXTENDS StakeGenesis, Decimals

CONSTANTS
    RateUnit,
    MinSelfDelegation,      \* dogfood's parameter, in USD
    BaseOracleTokens        \* the oracle's tokens in the base genesis

\* A power of ten: decimals per token times those of the exchange rates.  A
\* value in parts has then the digits of the value itself.
ASSUME RateUnitAssumption == \E k \in 0..PartDigits : RateUnit = Scale[k]

EvmAsset(token) == [address |-> token.address, chain |-> "EVM"]
TokenAt(boot, address) ==
    CHOOSE t \in ToSet(boot.tokens) : t.address = address

\* The deposits that satisfy a condition, summed.
Deposited(boot, included(_)) ==
    SumFunction([d \in {e \in boot.deposits : included(e)} |-> d.amount])

\* The delegations that satisfy a condition, summed; and that sum less what is
\* slashed of it, here nothing, which rounds it.
Delegated(boot, included(_)) ==
    SumFunction([d \in {e \in boot.delegations : included(e)} |-> d.amount])
DelegationValue(boot, included(_)) == Minus(Delegated(boot, included), 0)

\* The USD value of what is delegated of every token, and of all tokens in the
\* order of their list, in parts of RateUnit.
UsdValue(boot, t, included(_)) ==
    Times(DelegationValue(boot, LAMBDA d : d.token = t.address /\ included(d)),
          t.rate)
TotalUsdValue(boot, included(_)) ==
    RoundedSum([i \in DOMAIN boot.tokens |->
                   UsdValue(boot, boot.tokens[i], included)])

TotalUsd(boot, v) == TotalUsdValue(boot, LAMBDA d : d.operator = v)
SelfUsd(boot, v) ==
    TotalUsdValue(boot, LAMBDA d : d.operator = v /\ d.staker = boot.self[v])

\* Operators with an invalid address are skipped, but not in x/assets.
Kept(boot, operators) == operators \ boot.invalid
KeptDelegations(boot) == {d \in boot.delegations : d.operator \notin boot.invalid}

\* Only operators with enough delegated by themselves become validators.
OptedIn(boot, operators) ==
    {v \in Kept(boot, operators) :
        SelfUsd(boot, v) >= MinSelfDelegation * RateUnit}

\* toFixed(0) of a power: to the nearest integer, half up.
ToFixed0(usd) == (2 * usd + RateUnit) \div (2 * RateUnit)

-----------------------------------------------------------------------------
(* x/assets, x/delegation *)

EvmAssets(boot, operators) ==
    [clientChains |-> {"EVM"},
     tokens |-> {[asset |-> EvmAsset(t),
                  total |-> Deposited(boot, LAMBDA d : d.token = t.address)] :
                    t \in ToSet(boot.tokens)},
     deposits |-> {[staker |-> StakerId(d.staker, "EVM"),
                    asset |-> EvmAsset(TokenAt(boot, d.token)),
                    total |-> d.amount] : d \in boot.deposits},
     operatorAssets |-> {[operator |-> v, asset |-> EvmAsset(t),
                          total |-> DelegationValue(boot, LAMBDA d :
                              d.operator = v /\ d.token = t.address)] :
                           v \in operators, t \in ToSet(boot.tokens)}]

EvmDelegation(boot, operators) ==
    [associations |-> {[staker |-> StakerId(boot.self[v], "EVM"),
                        operator |-> v] : v \in Kept(boot, operators)},
     states |-> {[staker |-> StakerId(d.staker, "EVM"),
                  asset |-> EvmAsset(TokenAt(boot, d.token)),
                  operator |-> d.operator, share |-> Minus(d.amount, 0)] :
                    d \in KeptDelegations(boot)},
     stakersByOperator |->
         {[operator |-> d.operator, asset |-> EvmAsset(TokenAt(boot, d.token)),
           stakers |-> {StakerId(e.staker, "EVM") : e \in
               {f \in boot.delegations :
                   f.operator = d.operator /\ f.token = d.token}}] :
            d \in KeptDelegations(boot)}]

-----------------------------------------------------------------------------
(* x/operator, x/dogfood *)

\* The consensus keys of those opted in, and the value of every asset, in parts
\* of RateUnit.
EvmOperator(boot, operators) ==
    [records |-> {[operator |-> v, consensusKey |-> ConsensusKey[v]] :
                     v \in OptedIn(boot, operators)},
     assetUsdValues |-> {[operator |-> v, asset |-> EvmAsset(t),
                          amount |-> UsdValue(boot, t, LAMBDA d :
                              d.operator = v)] :
                           v \in Kept(boot, operators), t \in ToSet(boot.tokens)}]

EvmValSet(boot, operators) ==
    LET all == {[publicKey |-> ConsensusKey[v], power |-> TotalUsd(boot, v)] :
                   v \in OptedIn(boot, operators)}
        sorted == SortedByPower(SetToSeq(all))
        kept == IF Len(sorted) < MaxValidators THEN Len(sorted) ELSE MaxValidators
    IN  [i \in 1..kept |-> [sorted[i] EXCEPT !.power = ToFixed0(@)]]
EvmDogfood(boot, operators) ==
    LET valSet == EvmValSet(boot, operators)
    IN  [assetIds |-> {EvmAsset(t) : t \in ToSet(boot.tokens)},
         valSet |-> valSet, lastTotalPower |-> TotalPower(valSet)]

-----------------------------------------------------------------------------
(* x/oracle *)

OracleToken(t) == [name |-> t.name, chainId |-> 1, assets |-> {EvmAsset(t)}]
PositionOf(tokens, name) ==
    {i \in DOMAIN tokens : tokens[i].name = name}

\* A feeder whose position is counted from one.
AddOracleTokenFromOne(oracle, t) ==
    LET at == PositionOf(oracle.tokens, t.name)
    IN  IF at # {}
        THEN [oracle EXCEPT !.tokens[CHOOSE i \in at : TRUE].assets =
                 @ \cup {EvmAsset(t)}]
        ELSE [tokens |-> Append(oracle.tokens, OracleToken(t)),
              feeders |-> Append(oracle.feeders, Len(oracle.tokens) + 1)]
\* A token whose name the oracle has already is added to that entry; a new one
\* gets a feeder with the position it takes, counted from zero.
AddOracleToken(oracle, t) ==
    LET at == PositionOf(oracle.tokens, t.name)
    IN  IF at # {}
        THEN [oracle EXCEPT !.tokens[CHOOSE i \in at : TRUE].assets =
                 @ \cup {EvmAsset(t)}]
        ELSE [tokens |-> Append(oracle.tokens, OracleToken(t)),
              feeders |-> Append(oracle.feeders, Len(oracle.tokens))]

\* The native restaking token is priced as the token it restakes, which is
\* given an entry if it has none.
BindNative(oracle, boot) ==
    LET natives == {t \in ToSet(boot.tokens) : t.native}
        t == CHOOSE n \in natives : TRUE
        at == PositionOf(oracle.tokens, t.remainder)
    IN  IF natives = {} THEN oracle
        ELSE IF at # {}
        THEN [oracle EXCEPT !.tokens[CHOOSE i \in at : TRUE].assets =
                 @ \cup {EvmAsset(t)}]
        ELSE [tokens |-> Append(oracle.tokens,
                                [OracleToken(t) EXCEPT !.name = t.remainder]),
              feeders |-> Append(oracle.feeders, Len(boot.tokens) + 1)]

OracleTokens(boot) ==
    BindNative(FoldLeft(AddOracleToken,
                        [tokens |-> BaseOracleTokens, feeders |-> <<>>],
                        boot.tokens), boot)

\* One price for every entry but the placeholder at position zero and the
\* native token of Imuachain; none if an entry has no exchange rate, which
\* ends the script before it writes.
PricesKnown(boot) ==
    LET named == {t.name : t \in ToSet(boot.tokens)}
        tokens == OracleTokens(boot).tokens
    IN  \A i \in 2..Len(tokens) : tokens[i].name \in named \cup {"IMUA"}
AddPrice(prices, token) ==
    IF token.position = 0 \/ token.name = "IMUA" THEN prices
    ELSE Append(prices, [tokenId |-> token.position, list |-> <<token.name>>])
EvmPrices(boot) ==
    LET tokens == OracleTokens(boot).tokens
    IN  FoldLeft(AddPrice, <<>>,
                 [i \in DOMAIN tokens |->
                     [position |-> i - 1, name |-> tokens[i].name]])

EvmOracle(boot) ==
    [chains |-> <<"-", ChainName["EVM"]>>,
     tokens |-> OracleTokens(boot).tokens,
     feeders |-> OracleTokens(boot).feeders,
     prices |-> EvmPrices(boot)]

EvmGenesisState(boot, operators) ==
    [genesisTime |-> GenesisTime["EVM"],
     assets |-> EvmAssets(boot, operators),
     delegation |-> EvmDelegation(boot, operators),
     operator |-> EvmOperator(boot, operators),
     dogfood |-> EvmDogfood(boot, operators),
     oracle |-> EvmOracle(boot)]
==============================================================================
