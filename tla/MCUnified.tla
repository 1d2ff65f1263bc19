------------------------------ MODULE MCUnified ------------------------------
(***************************************************************************)
(* Instances of UnifiedGenesis for TLC.  Three families of behaviours: a   *)
(* rich ledger of one chain, read by its generator alone, and one ledger   *)
(* of each, read by the whole script under faults.                         *)
(***************************************************************************)
EXTENDS UnifiedGenesis

CONSTANTS bob, carol, alice, dave, op1, op2, op3, key1, key2, key3

\* A legacy address and its lower case, and one that is in lower case already.
MCLowerCase == [s \in {"1Bob", "carol"} |-> IF s = "1Bob" THEN bob ELSE carol]
Keys == op1 :> key1 @@ op2 :> key2 @@ op3 :> key3
Ranks == key1 :> 1 @@ key2 :> 2 @@ key3 :> 3
Prices == [Bitcoin |-> 3, XRP |-> 2]
Units == [Bitcoin |-> 2, XRP |-> 2]
Minimum == [Bitcoin |-> 2, XRP |-> 2]
GenesisTimes == [EVM |-> 1, Bitcoin |-> 2, XRP |-> 2]
MCTips == <<2, 3>>

OpReturn(form, a, v) ==
    [form |-> form, imuachainAddress |-> a, validatorAddress |-> v]
BitcoinTx(sender, outputs, opReturns) ==
    [sender |-> sender, fromVault |-> FALSE, vaultOutputs |-> outputs,
     opReturns |-> opReturns]
Memo(form, type, a, v) ==
    [form |-> form, type |-> type, imuachainAddress |-> a, validatorAddress |-> v]
XrpTx(sender, amount, memos) ==
    [sender |-> sender, fromVault |-> FALSE, toVault |-> TRUE,
     result |-> "tesSUCCESS", destinationTag |-> 9999, currency |-> "XRP",
     amount |-> amount, memos |-> memos]

\* The transactions of a ledger: two in the first block, the others in the second.
Ledger(txs) ==
    [i \in DOMAIN txs |->
        txs[i] @@ [txid |-> <<"tx", i>>, index |-> i,
                   height |-> IF i <= 2 THEN 1 ELSE 2]]

MCSenders == {"1Bob", "carol"}
Operators == {op1, op2}

\* Stakes of two senders for two accounts with a registered validator or not,
\* and transactions that are not stakes, each for one reason.
BitcoinStake(s, a, v) == BitcoinTx(s, <<2>>, <<OpReturn("6a3d", a, v)>>)
FirstBitcoin == {BitcoinStake("1Bob", alice, v) : v \in Operators}
GoodBitcoin == {BitcoinStake(s, a, v) :
                   s \in MCSenders, a \in ImAddresses, v \in Operators}
OddBitcoin ==
    LET good == BitcoinTx("carol", <<3>>, <<OpReturn("6a3d", alice, op1)>>)
    IN  {[good EXCEPT !.fromVault = TRUE],
         [good EXCEPT !.vaultOutputs = <<1>>],
         [good EXCEPT !.vaultOutputs = <<2, 2>>],
         [good EXCEPT !.vaultOutputs = <<1, 2>>],
         [good EXCEPT !.opReturns = <<>>],
         [good EXCEPT !.opReturns = @ \o @],
         [good EXCEPT !.opReturns[1].form = "OTHER"],
         [good EXCEPT !.opReturns[1].validatorAddress = "NOT_BECH32"]}
XrpStake(s, a, v) == XrpTx(s, 2, <<Memo("40+41", "Description", a, v)>>)
FirstXrp == {XrpStake("1Bob", alice, v) : v \in Operators}
GoodXrp == {XrpStake(s, a, v) :
               s \in MCSenders, a \in ImAddresses, v \in Operators}
OddXrp ==
    LET good == XrpTx("carol", 3, <<Memo("40+41", "Description", alice, op1)>>)
        other == Memo("40+41", "text", dave, op1)
    IN  {[good EXCEPT !.fromVault = TRUE],
         [good EXCEPT !.toVault = FALSE],
         [good EXCEPT !.result = "tecPATH_DRY"],
         [good EXCEPT !.destinationTag = 1],
         [good EXCEPT !.currency = "token"],
         [good EXCEPT !.amount = 1],
         [good EXCEPT !.memos = <<>>],
         [good EXCEPT !.memos = <<other>>],
         [good EXCEPT !.memos = <<other>> \o @],
         [good EXCEPT !.memos = Append(@, [other EXCEPT !.form = "MALFORMED"])],
         [good EXCEPT !.memos[1].validatorAddress = "NOT_BECH32"]}

\* Senders are interchangeable and accounts are: those of the first stake are
\* fixed.
Rich(first, good, odd) ==
    {Ledger(<<t, u, w>>) : t \in first, u \in good, w \in good}
    \cup {Ledger(<<t, u>>) : t \in odd, u \in good}

OneBitcoin == Ledger(<<BitcoinTx("1Bob", <<3>>, <<OpReturn("6a3d", alice, op2)>>)>>)
OneXrp == Ledger(<<XrpTx("carol", 2, <<Memo("40+41", "Description", dave, op1)>>)>>)

BitcoinLedgers ==
    {[Bitcoin |-> l, XRP |-> <<>>] : l \in Rich(FirstBitcoin, GoodBitcoin, OddBitcoin)}
XrpLedgers ==
    {[Bitcoin |-> <<>>, XRP |-> l] : l \in Rich(FirstXrp, GoodXrp, OddXrp)}
BothLedgers == {[Bitcoin |-> OneBitcoin, XRP |-> OneXrp]}
MCLedgers == BitcoinLedgers \cup XrpLedgers \cup BothLedgers

\* The tokens of the script's constants: ETH, priced through an LST, and native
\* restaking; 1.5 and 1 USD.
Tokens ==
    <<[address |-> "0xexo", name |-> "ETH", native |-> FALSE, remainder |-> "",
       rate |-> 15],
      [address |-> "0xeee", name |-> "nstETH", native |-> TRUE, remainder |-> "ETH",
       rate |-> 10]>>
Delegates(staker, v, token, amount) ==
    [staker |-> staker, operator |-> v, token |-> token, amount |-> amount]
Deposits(staker, token, amount) ==
    [staker |-> staker, token |-> token, amount |-> amount]
Boot(deposits, delegations, invalid) ==
    [tokens |-> Tokens, self |-> op1 :> "eth1" @@ op2 :> "eth2" @@ op3 :> "eth3",
     deposits |-> deposits, delegations |-> delegations, invalid |-> invalid]
NoBoot == Boot({}, {}, {})
\* op1 and op3 have enough delegated by themselves, op2 has not; the address of
\* op3 is valid or not.  Amounts of 112 have more digits than are kept.
ThreeOperators(n, invalid) ==
    Boot({Deposits("eth1", "0xexo", n), Deposits("eth1", "0xeee", 3 * n),
          Deposits("eth3", "0xeee", 2 * n), Deposits("eth3", "0xexo", 2 * n)},
         {Delegates("eth1", op1, "0xexo", n), Delegates("eth3", op1, "0xeee", 2 * n),
          Delegates("eth1", op1, "0xeee", n),
          Delegates("eth1", op2, "0xeee", 2 * n), Delegates("eth3", op3, "0xexo", 2 * n)},
         invalid)
MCBootStates == {NoBoot, ThreeOperators(1, {}), ThreeOperators(112, {op3})}

Placeholder(name) == [name |-> name, chainId |-> 0, assets |-> {}]
OracleBase == <<Placeholder("-"), Placeholder("IMUA")>>

-----------------------------------------------------------------------------
\* Which ledgers go with which chains.
MCInit ==
    /\ UnifiedInit
    /\ \/ /\ enabled = {"Bitcoin"} /\ ledger \in BitcoinLedgers
          /\ boot = NoBoot /\ registered = {op1}
       \/ /\ enabled = {"XRP"} /\ ledger \in XrpLedgers
          /\ boot = NoBoot /\ registered = {op1}
       \/ /\ enabled = Chains /\ ledger \in BothLedgers
          /\ boot # NoBoot /\ registered = Validators

\* Alone, a generator meets blocks and unanswered lookups, at its first attempt.
Alone ==
    /\ pc' \notin {"killed", "hung"}
    /\ runner' # "idle"
    /\ pc' = "exited" => pc \in {"genesis", "exited"}
    /\ runs' <= 1
    /\ attempt' <= 1

\* The whole script meets every fault; one of its chains grows.
MCNext ==
    /\ UnifiedNext
    /\ enabled # Chains => Alone
    /\ boot.invalid # {} => runs' <= 1 /\ pc' # "killed" /\ runner' # "idle"
    /\ LET grown == Head(InOrder(enabled \cap UtxoChains))
       IN  \A c \in UtxoChains \ {grown} : tip'[c] = tip[c]
MCSpec ==
    /\ MCInit
    /\ [][MCNext]_vars
    /\ WF_vars(RunnerStep)
    /\ WF_vars(ScanStepOfChild)
==============================================================================
