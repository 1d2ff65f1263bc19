----------------------------- MODULE StakeGenesis -----------------------------
(***************************************************************************)
(* What bitcoin_genesis.ts and xrp_genesis.ts write into the genesis of    *)
(* Imuachain for a list of stakes.  The lists of a genesis file whose      *)
(* order carries no meaning are sets of records, a nested list is          *)
(* flattened, a composite key is a record's fields; the validator set and  *)
(* the lists of the oracle, whose positions are identifiers, are           *)
(* sequences.                                                              *)
(***************************************************************************)
EXTENDS Integers, Sequences, FiniteSets, SequencesExt, FiniteSetsExt

CONSTANTS
    Senders,            \* addresses on the two chains, in lower case
    ImAddresses,        \* accounts of Imuachain
    Validators,         \* operators of Imuachain
    ConsensusKey,       \* the key each registered with Bootstrap
    KeyRank,            \* the order of keys, as localeCompare gives it
    Price,              \* per chain, USD for Unit[chain]
    Unit,               \* satoshis in a bitcoin, drops in an XRP
    MaxValidators,
    GenesisTime,        \* per chain, the time its genesis carries
    NoAddress, NoSender, NoFile, Partial, Null

\* Bootstrap registers a consensus key once (consensusPublicKeyInUse).
ASSUME KeysAssumption ==
    /\ \A v \in Validators : KeyRank[ConsensusKey[v]] \in Nat
    /\ \A v, w \in Validators : ConsensusKey[v] = ConsensusKey[w] => v = w

ASSUME PricesAssumption ==
    /\ \A c \in {"Bitcoin", "XRP"} : Price[c] \in Nat /\ Unit[c] \in Nat \ {0}
    /\ MaxValidators \in Nat

UtxoChains == {"Bitcoin", "XRP"}
Chains == {"EVM"} \cup UtxoChains

\* BTC and XRP are given one virtual address; the chain tells them apart.
AssetId(c) == [address |-> "0xbb", chain |-> c]
StakerId(a, c) == [account |-> a, chain |-> c]

-----------------------------------------------------------------------------
(* Amounts of stakes *)

SumOf(stakes, included(_)) ==
    SumFunction([i \in {j \in DOMAIN stakes : included(stakes[j])} |->
                    stakes[i].amount])

Fields(stakes, field(_)) == {field(stakes[i]) : i \in DOMAIN stakes}
ValidatorsOf(stakes) == Fields(stakes, LAMBDA k : k.validatorAddress)
StakersOf(stakes) == Fields(stakes, LAMBDA k : k.imuachainAddress)

StakedWith(stakes, v) == SumOf(stakes, LAMBDA k : k.validatorAddress = v)
StakedBy(stakes, a) == SumOf(stakes, LAMBDA k : k.imuachainAddress = a)
StakedByWith(stakes, a, v) ==
    SumOf(stakes, LAMBDA k : k.imuachainAddress = a /\ k.validatorAddress = v)

\* The USD value of an amount, rounded down: its vote power.
BitcoinPower(amount) == (amount * Price["Bitcoin"]) \div Unit["Bitcoin"]
XrpPower(amount) == (amount * Price["XRP"]) \div Unit["XRP"]
Power(c, amount) == IF c = "Bitcoin" THEN BitcoinPower(amount) ELSE XrpPower(amount)

\* What a sort may return, whatever the comparator.
Reorderings(list) ==
    {[i \in DOMAIN list |-> list[p[i]]] : p \in Bijection(DOMAIN list, DOMAIN list)}

\* The comparator of both generators and of the merge.
Stronger(a, b) ==
    a.power > b.power
    \/ (a.power = b.power /\ KeyRank[a.publicKey] < KeyRank[b.publicKey])
\* Array.sort: one of the reorderings in which none is stronger than one before
\* it.  The list is bound first, so that it is evaluated once.
SortedByPower(valSet) ==
    CHOOSE sorted \in UNION {Reorderings(list) : list \in {valSet}} :
        \A i, j \in DOMAIN sorted : i < j => ~Stronger(sorted[j], sorted[i])
TotalPower(valSet) ==
    SumFunction([i \in DOMAIN valSet |-> valSet[i].power])

-----------------------------------------------------------------------------
(* The modules of a genesis *)

\* x/assets: one deposit per staker; each operator's total.
Assets(c, stakes) ==
    [clientChains |-> {c},
     tokens |-> {[asset |-> AssetId(c),
                  total |-> SumOf(stakes, LAMBDA k : TRUE)]},
     deposits |-> {[staker |-> StakerId(a, c), asset |-> AssetId(c),
                    total |-> StakedBy(stakes, a)] : a \in StakersOf(stakes)},
     operatorAssets |-> {[operator |-> v, asset |-> AssetId(c),
                          total |-> StakedWith(stakes, v)] :
                            v \in ValidatorsOf(stakes)}]

\* x/delegation: stakes of one staker with one operator are added up.
Delegation(c, stakes) ==
    [associations |-> {},
     states |-> {[staker |-> StakerId(k.imuachainAddress, c),
                  asset |-> AssetId(c), operator |-> k.validatorAddress,
                  share |-> StakedByWith(stakes, k.imuachainAddress,
                                         k.validatorAddress)] :
                    k \in ToSet(stakes)},
     stakersByOperator |->
         {[operator |-> v, asset |-> AssetId(c),
           stakers |-> {StakerId(a, c) : a \in
               {b \in StakersOf(stakes) : StakedByWith(stakes, b, v) > 0}}] :
            v \in ValidatorsOf(stakes)}]

\* x/operator: the value delegated to every operator.
Operator(c, stakes) ==
    [records |-> {},
     assetUsdValues |-> {[operator |-> v, asset |-> AssetId(c),
                          amount |-> Power(c, StakedWith(stakes, v))] :
                            v \in ValidatorsOf(stakes)}]

\* x/dogfood: the strongest MaxValidators of the operators staked with.
ValSet(c, stakes) ==
    LET all == {[publicKey |-> ConsensusKey[v],
                 power |-> Power(c, StakedWith(stakes, v))] :
                   v \in ValidatorsOf(stakes)}
        sorted == SortedByPower(SetToSeq(all))
    IN  SubSeq(sorted, 1, IF Len(sorted) < MaxValidators
                              THEN Len(sorted) ELSE MaxValidators)
Dogfood(c, stakes) ==
    LET valSet == ValSet(c, stakes)
    IN  [assetIds |-> {AssetId(c)}, valSet |-> valSet,
         lastTotalPower |-> TotalPower(valSet)]

\* x/oracle: one chain, one token, one feeder and one price, under identifiers
\* the scripts have as literals.
ChainName == [Bitcoin |-> "Bitcoin", XRP |-> "XRP Ledger", EVM |-> "Ethereum"]
OracleOf(c, symbol, chainId, tokenId) ==
    [chains |-> <<ChainName[c]>>,
     tokens |-> <<[name |-> symbol, chainId |-> chainId, assets |-> {AssetId(c)}]>>,
     feeders |-> <<tokenId>>,
     prices |-> <<[tokenId |-> tokenId, list |-> <<symbol>>]>>]
BitcoinOracle == OracleOf("Bitcoin", "BTC", 1, 4)
XrpOracle == OracleOf("XRP", "XRP", 2, 5)

-----------------------------------------------------------------------------
(* generateGenesisState, generateXRPGenesisState *)

BitcoinGenesisState(stakes) ==
    [genesisTime |-> GenesisTime["Bitcoin"],
     assets |-> Assets("Bitcoin", stakes),
     delegation |-> Delegation("Bitcoin", stakes),
     operator |-> Operator("Bitcoin", stakes),
     dogfood |-> Dogfood("Bitcoin", stakes),
     oracle |-> BitcoinOracle]

XrpGenesisState(stakes) ==
    [genesisTime |-> GenesisTime["XRP"],
     assets |-> Assets("XRP", stakes),
     delegation |-> Delegation("XRP", stakes),
     operator |-> Operator("XRP", stakes),
     dogfood |-> Dogfood("XRP", stakes),
     oracle |-> XrpOracle]

GenesisState(c, stakes) ==
    IF c = "Bitcoin" THEN BitcoinGenesisState(stakes) ELSE XrpGenesisState(stakes)
==============================================================================
