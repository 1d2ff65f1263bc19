# Verification of the Imuachain restaking contracts

TLA+ models of the contracts under `src/src` and of the scripts under
`src/script` that deploy them and carry a bootstrap over into Imuachain, checked
with TLC on small instances and proved with TLAPS where a proof for every instance
is in reach.

## 1. The system

Imuachain is a chain on which assets of other chains are restaked. The
repository holds the contracts at both ends of that bridge.

| component | state | operations |
|---|---|---|
| `ClientChainGateway` (client chain; inherits `LSTRestakingController`, `NativeRestakingController`, `BaseRestakingController`, `ClientGatewayLzReceiver`) | whitelist, registry of requests that await a response, inbound nonce, capsules by owner, pause flag | `deposit`, `depositThenDelegateTo`, `delegateTo`, `undelegateFrom`, `claimPrincipalFromImuachain`, `withdrawPrincipal`, `stake`, `createImuaCapsule`, `verifyAndDepositNativeStake`, `claimNSTFromImuachain`, beacon withdrawal requests, `updateTvlLimit`, pause, `lzReceive` |
| `Vault`, one per LST | deposited, unlocked and withdrawable principal per staker, TVL limit and consumption | `deposit`, `unlockPrincipal`, `withdraw`, `setTvlLimit`, all called by the gateway |
| `ImuaCapsule`, one per native restaker | ETH, withdrawable balance, claim flag, time of the last claim, registered validators, mode | `verifyDepositProof`, `startClaimNST`, `endClaimNST`, `unlockETHPrincipal`, `withdraw`, beacon withdrawal requests |
| `ImuachainGateway` (Imuachain) | inbound nonce per client chain, pause flag, native balance that pays for responses | `lzReceive` with the deposit, withdrawal and delegation handlers, `addWhitelistToken`, `markBootstrap`, configuration of client chains, operator association, pause |
| LayerZero base contracts (`lzApp`, `GatewayStorage`, `ActionAttributes`) | peers, nonces | `_lzSend`, `lzReceive`, `_verifyAndUpdateNonce` |
| ASSETS, DELEGATION precompiles (outside the repository) | positions of stakers | deposit, withdraw, delegate, undelegate, register tokens |
| `UTXOGateway` (Imuachain) | stake messages with their proofs, witnesses, address registry, peg-out queue | proof submission, stake processing, delegation, withdrawal, peg-out |
| `Bootstrap` (client chain, before Imuachain starts; becomes `ClientChainGateway` by an upgrade) | validators with their keys and commissions; deposits, withdrawable amounts and delegations with their totals and lists; spawn time and offset; whitelist; pause flag | `registerValidator`, `replaceKey`, `updateRate`, `deposit`, `claimPrincipalFromImuachain`, `withdrawPrincipal`, `delegateTo`, `undelegateFrom`, `depositThenDelegateTo`, native restaking, the owner's schedule, whitelist and pause, `lzReceive` with `markBootstrapped` |
| `script/bootstrap/generate.mjs` (off chain) | none | reads `Bootstrap` and the beacon chain, writes Imuachain's genesis |
| `bitcoin_genesis.ts`, `xrp_genesis.ts` (off chain) | the bindings of senders and accounts during one run; two files per chain | read what the vault received on the chain, write the entries `UTXOGateway` imports and the chain's genesis |
| `generate_unified.mjs` (off chain) | queue of chains, attempts; the unified genesis | runs the three generators, merges what they wrote |
| `importBootstrapData.ts` (off chain) | the batch it is at | sends the entries to `bootstrapHistoricalData`, checks the nonces |
| `deploy-and-setup-utxogateway.script.js`, `set-authorized-gateways.script.js` | `deployedContracts.json`, a deployment record | deploy `UTXOGateway`, authorize it, activate its chains; repair the authorizations |
| `RewardVault`, `CombinedFaucet`, `CustomTimelockController`, proof libraries | | |

**How they interact.** A transaction on one chain is atomic. What is
concurrent is the two chains, joined by two LayerZero paths (one per direction),
each an ordered stream of messages with nonces 1, 2, ... The client gateway
sends requests; a withdrawal request is also stored in `_registeredRequests`
under its nonce. `ImuachainGateway` executes requests in nonce order, calls the
precompiles, and answers withdrawals (only) with a `RESPOND` message carrying
the nonce, which the client gateway executes in turn: it unlocks principal in
the vault or the capsule and deletes the request.

`UTXOGateway` stands on Imuachain alone and serves chains that have no
contracts. Witnesses watch such a chain: for a transaction that pays the bridge
they sign a stake message, and the gateway credits the stake to the Imuachain
address registered for the sender. Stakers ask for withdrawals there; the
witnesses fetch them in order, pay on the client chain, and report the payment.

`Bootstrap` is what the contract of a client chain runs before there is an
Imuachain. It locks `offsetDuration` before `spawnTime`; the genesis of Imuachain
is generated from its storage; Imuachain starts and sends a mark-bootstrap
message, on which the contract upgrades itself to `ClientChainGateway` and goes
on with the same vaults, capsules, whitelist and nonce.

Before the start, stakes of Bitcoin and XRP are payments to a vault with the
account and the validator in them. A generator per chain scans those payments and
writes two files: the entries (transaction, sender, account), which the import
replays into `UTXOGateway` once that is deployed, and a genesis, which the unified
script merges with those of the other chains. What a staker is credited with at
the start and what the gateway knows of the staker afterwards therefore come from
two files, two scripts and two chains, and must agree.

**What is hard.** A transaction that reverts leaves its message where it was,
and, since nonces must be consecutive, every message behind it: a message that
*always* reverts stops a path for ever. The correctness of the bridge therefore
includes that none of a list of `revert` statements is reachable from a message
(`UnexpectedResponse`, `DepositRequestShouldNotFail`,
`VaultTotalUnlockPrincipalExceedsDeposit`,
`ClientChainGatewayAlreadyWhitelisted`), which depends on both contracts and on
all that is in flight. Further: claims of many stakers overlap in flight; checks
made when a claim starts (the ETH of the capsule, the interval between claims)
must still be true when its response arrives; gateways pause, and the gateway
that pays for responses can run dry, with messages on their way. In
`UTXOGateway`, proofs of many witnesses for competing messages interleave with
windows that expire, thresholds that move, and witnesses that are removed and
added again; the same transaction may be signed for two nonces, proved and
imported; a sender and an account may each be registered without the other. In
the life of `Bootstrap`, the genesis is a snapshot that must still be true at the
upgrade, owners on both chains send messages meanwhile, a mark may come too early
by the other chain's clock, and an upgrade may fail and be tried again. The
scripts are interrupted between any two steps and run again over what they left: a
file half written, a transaction sent and mined later, a contract deployed and not
recorded. A lookup that fails drops a stake without a word; the generator of the EVM
chain is started by an `import` and not awaited; that of XRP keeps its connection,
and its process, after an error; and while the import looks at nonces, everybody
else uses the gateway.

**What makes each part correct.**

- *Paths*: every message is executed at most once, in order, and eventually.
- *Registry*: each registered request is on its way, or has exactly one response
  on its way; a response is applied to the request that caused it.
- *Vaults*: principal is conserved over vault, messages, Imuachain and back; a
  vault can pay whatever it has unlocked or may be asked to unlock.
- *Capsules*: the claim flag is up exactly while a claim is outstanding; the ETH
  covers withdrawable balance and outstanding claim; claims are spaced.
- *Whitelist*: both chains agree on tokens far enough that no deposit and no
  whitelist message has to revert.
- *UTXOGateway*: nonces and credited transactions in bijection, a quorum of
  distinct witnesses within the proof window for what is credited under
  consensus, registries that are inverse to each other, peg-outs that are served
  in order, paid to the requester's own address and settled once.
- *Bootstrap*: the totals per staker, validator and token agree with the
  positions and with the books of the vaults; the lists the genesis is found from
  miss nothing; keys, names and beacon chain validators are used once; the lock is
  final; a mark that is due leads to the upgrade.
- *Genesis*: restakers enter with what the beacon chain says they have, operators
  with power that is backed; what the contract holds as principal is what the two
  chains then conserve.
- *Generators*: whoever paid the vault correctly is credited, with the account named
  first, whatever the order of answers; what is exported can be registered; entries
  and genesis of a chain are of the same scan.
- *Unified genesis*: amounts and powers of operators of several chains are added,
  nothing is lost or counted twice, identifiers fit the merged lists, and the script
  ends.
- *Import and deployment*: a success that is reported is one; a run can be repeated
  after any interruption; what is recorded as deployed is ready.

## 2. Modules

```
Assets                      constants of all modules
 |- Vault                   the vaults                         core/Vault.sol
 |- ImuaCapsule             the capsules, beacon chain, time   core/ImuaCapsule.sol
 |- BootstrapStorage        with the above: what a client chain's contract keeps
 |                          over its upgrade                   storage/BootstrapStorage.sol
 |- LzMessaging             paths, nonces, actions             lzApp/*, GatewayStorage, ActionAttributes
 |- ClientChainGateway      with BootstrapStorage              core/ClientChainGateway.sol and its bases
 |- ImuachainGateway        with the ledger of the precompiles core/ImuachainGateway.sol
 '- RestakingBridge         both gateways: Spec, properties
     |- BridgeAccounting    sums over the bridge, refinement of RestakingLedger
     |   |- MCBridge        instances for TLC
     |   '- BridgeAccounting_proofs   (with RestakingBridge_proofs and SumTheorems)
     '- RestakingBridge_proofs
RestakingLedger             abstract specification: five places principal can be in
SumTheorems                 lemmas about sums, products and decimals, for every module that has some

ValidatorRegistry           validators before the start        core/Bootstrap.sol (IValidatorRegistry)
 '- Bootstrap               with BootstrapStorage              core/Bootstrap.sol
     '- GenesisAccounting   sums over stakers and operators
         '- Genesis         with Decimals: the genesis file    script/bootstrap/generate.mjs
             |- Bootstrap_proofs      (with SumTheorems)
             |- Lifecycle   with BridgeAccounting: Bootstrap,  core/BootstrapLzReceiver.sol, CustomProxyAdmin.sol,
             |   |          genesis, upgrade, and the bridge   ClientChainGateway.initialize
             |   |          from there on
             |   |- MCLifecycle       (with MCOffers)
             |   '- Lifecycle_proofs  (with Bootstrap_proofs and BridgeAccounting_proofs)
             '- MCOffers              what the two instances share
                 '- MCBootstrap

StakeGenesis                a genesis from stakes            bitcoin_genesis.ts, xrp_genesis.ts
 |- StakeScan               the run of a generator           bitcoin_genesis.ts, xrp_genesis.ts
 '- EvmGenesis              with Decimals: operators, oracle, validators    generate.mjs
     '- GenesisMerge        GenesisStateMerger               generate_unified.mjs
         '- UnifiedGenesis  with StakeScan: processes, files generate_unified.mjs
             |- MCUnified
             '- UnifiedGenesis_proofs

Decimals                    rounding to significant digits   decimal.js, as generate.mjs uses it

UTXOGateway                 one client chain                 core/UTXOGateway.sol, UTXOGatewayStorage
 |- UTXOBridge              refinement of PegLedger, backing, fairness
 |   |- MCUTXO              instances for TLC
 |   '- UTXOBridge_proofs   (with SumTheorems)
 '- BootstrapImport         batches of the owner             importBootstrapData.ts
     '- UTXOLaunch          with GatewayDeployment: from the first script to the running gateway
         |- MCLaunch        (with MCUTXO)
         '- UTXOLaunch_proofs   (with UTXOBridge_proofs)
GatewayDeployment           scripts, files, authorizations   deploy-and-setup-utxogateway, set-authorized-gateways
PegLedger                   abstract specification: credits, peg-outs, payments
```

One action is one external function, with every call it makes: a transaction is
atomic, so `deposit` moves tokens into the vault, updates its accounts, sends
the message and registers the request in one step, and a `revert` is an action
that is not enabled. The operators of `Vault` and `ImuaCapsule` are the external
functions only the gateway may call; the actions of `ClientChainGateway` conjoin
them. `Next` is the interleaving of the two chains.

| in the model | in the code |
|---|---|
| `toImua`, `toClient` | the log of every message sent on a path; the index is LayerZero's nonce. Nothing is removed: the endpoint may present any message, again and in any order, and `IsExpectedNonce` alone decides what is executed |
| `imuaInboundNonce`, `clientInboundNonce` | `inboundNonce[srcEid][sender]` for the one peer |
| `registeredRequests` | `_registeredRequests` and `_registeredRequestActions`, which are always written together |
| `whitelistedTokens` | `isWhitelistedToken`; a vault exists for each LST in it |
| `withdrawableBalances[t][s]`, `totalDepositedPrincipalAmount`, ... | the mappings of the vault of `t` |
| `ethBalance[s]` | `address(capsule).balance` |
| `credentials` | whose capsule the beacon chain pays a validator's withdrawals to |
| `freeBalance`, `delegatedAmount`, `unbondingAmount`, `slashedAmount` | positions held by the precompiles (external) |
| `funds` | native balance of `ImuachainGateway`, counted in response fees |

And for `UTXOGateway`:

| in the model | in the code |
|---|---|
| `transactions[m]` | `transactions[messageHash]` with its `witnessTime`, by the message: hashes do not collide |
| `authorizedWitnesses`, `authorizedWitnessCount` | the mapping and the counter the code keeps next to it |
| `inboundNonce`, `clientTxIdToNonce`, `nonceToClientTxId`, `inboundRegistry`, `outboundRegistry`, `pegOutNonce`, `outboundNonce`, `pegOutRequests`, `pegOutTxIds` | the mappings of these names, at the one client chain |
| `now` | `block.timestamp`; `Tick` advances it |
| `staked`, `withdrawable`, `tokenActivated` | positions kept by ASSETS and DELEGATION (external): a deposit or a delegation may fail, where the code lets it |

Only the witnesses, the threshold and the fee are shared by the client chains,
and no operation touches two chains, so one chain is modelled. A signature is
its verdict: a message is signed by the witness the action names.
In `UTXOGateway`, `bootstrapHistoricalData` takes one entry per step: a longer call is
several such steps in a row. `BootstrapImport` has the call of a whole batch, which
changes nothing if one entry fails. The loop over the batch is stated by what it comes
to: the entries take the next nonces in their order (`RecordBatch`), and an entry
registers its addresses if neither is registered, be it by an entry before it
(`Registers`, which determines the set of these entries). Lists of witnesses are added and removed as sets,
since an element that repeats reverts the whole call.

For `Bootstrap` and what follows it, the variables have the names of
`BootstrapStorage`; `validatorList` is `registeredValidators` (a name the capsules
have too). Further:

| in the model | in the code |
|---|---|
| `validators[o]` | the struct of an operator address; the empty name is how the code, too, tells that there is none |
| `whitelistedTokens`, `clientPaused`, vault and capsule variables, `clientInboundNonce` | storage that the contract keeps over the upgrade, so Bootstrap and gateway share the variable |
| `bootstrapped` | which implementation the proxy runs; `initialize` sets the flag in the same call |
| `logicWorks` | whether `clientChainGatewayLogic` with its data can be upgraded to; the owner may replace it |
| `genesisTime`, and `registeredTokens`, `freeBalance`, `delegatedAmount` set by `GenerateGenesis` | the genesis, which is Imuachain's state when it starts |

`Lifecycle` extends both sides, which share the variables of `BootstrapStorage`
(functions that Bootstrap and the gateway both have carry the prefix `Bootstrap` in
the former): its steps are those of `Bootstrap` before the upgrade, those of Imuachain
(`Imua`) once the spawn time is reached by Imuachain's clock, which runs up to
`ClockSkew` ahead, and those of the client gateway (`Client`) after it. `GenerateGenesis` reads all of the
contract at one moment, no earlier than the lock: the script reads state at one
block height, and that it is run after the lock is up to whoever runs it (the
mutant that runs it earlier loses principal). `addWhitelistTokens` takes each token
of a call at most once, since a token that repeats reverts. `customProxyAdmin` is
taken to be set up as the proxy's admin.

`generate.mjs` computes with decimal.js, which keeps 20 significant digits of every
result: an amount of 10^20 wei (100 tokens of 18 decimals) or more loses its last
digits in a subtraction, even of zero. `Decimals` has this arithmetic over integers:
`Rounded` keeps `Precision` digits of a number, half away from zero, `Plus`, `Minus`,
`Times` and `Quotient` round their result, and what has a fraction (a proportion and a
slash) is counted in `Parts` of a unit. `Genesis` and `EvmGenesis` apply it where the
script computes: to the loss and its two branches, to the proportion and the slash of
each staker, to their sum in the order of the depositors, to every total of an operator,
delegation and USD value. What the script only reads and writes with `toFixed` stays
as it is. Sums of balances are whole Gwei and are never that large. `LastDigit(n)`
is the unit of the last digit kept of `n`, and 0 where nothing is lost; the
properties of the genesis, of the principal over the upgrade and of the merged books
are stated up to a number of last digits, and so are exact for amounts that are written
in full. `bitcoin_genesis.ts`, `xrp_genesis.ts` and the merge compute with `BigInt` or
with numbers they do not round.

For the scripts, a process is a program counter and a file a variable that survives
it:

| in the model | in the code |
|---|---|
| `pc`, `chain` | where the generator of Bitcoin or XRP is, between two requests or file writes; `hung` is a process that only its open connection keeps alive |
| `ledger`, `tip`, `registered` | the vault's transactions, the height of the chain and the validators of `Bootstrap` (external) |
| `fetched`, `todo`, `valid` | `confirmedTxs` as the indexer gave them, newest first; those still to be validated; those to be credited |
| `addressMappings`, `reverseMappings`, `validatorInfoCache` | the maps of the generator, new in each run |
| `dataFile[c]`, `genesisFile[c]` | `<chain>_bootstrap_data.json`, the genesis of the chain. `Partial` is a file that was opened and not yet written |
| `unanswered` | history: stakes whose validator could not be looked up |
| `runner`, `queue`, `attempt`, `genesisStates`, `output` | `generate`, its chains, `executeWithRetry`, the loaded states, `genesis_unified.json` |
| `evm` | the imported `generate.mjs`, which runs beside the script |
| `importer`, `initialNonce`, `processedEntries`, `mempool` | `bootstrapInBatches` and the owner's transactions that were sent and not mined |
| `step`, `memory`, `deployedContracts`, `deploymentInfo` | the deployment script: its next step, the file as it read it at the start, the two files |
| `proxy`, `create3`, `authorizedGateways`, `activated`, `authority` | what is deployed; the gateways and chains of ASSETS; whether ASSETS obeys the deployer (external) |

Lists of a genesis file whose order carries no meaning are sets; the validator set
and the oracle's lists, whose positions are identifiers, are sequences. The filter
for confirmations follows the loop in the code; in the model it is applied when a
transaction is validated, which changes nothing the loop reads: a young
transaction binds and is not credited in both. The sort is any reordering the
comparator allows. What bech32, UTF-8 and hexadecimal decoding say of a payload is
the field `form` of an output or a memo. The merge is the one of the default
configuration, `merge` with `evm_priority`.

Left to data abstraction: amounts are small naturals (no overflow: Solidity 0.8
reverts, and LST supplies are far below 2^256); operators and recipients are not
tracked because neither gateway keeps anything about them; Merkle proofs are
their verdict; encodings keep the fields the receiver reads.

`Init` is the state right after `ClientChainGateway.initialize` with an empty
bootstrap phase: the same genesis tokens are known on both chains, and the
mark-bootstrap message that caused the upgrade is not counted in the path. `Init`
of `UTXOGateway` is `initialize` with any admissible witnesses and threshold.

## 3. What is checked

| run | module | what it asks |
|---|---|---|
| `principal` | `MCBridge` | two stakers, requests that overlap: `RegistryInv`, by which no response is unexpected and no request is registered without one to come; `LstPrincipalConserved`: what a staker ever deposited is in flight, staked, slashed, granted or unlocked, message by message; `VaultSolvent`; `ImplementsLedger`: every step is one step of `RestakingLedger` or none |
| `nst` | `MCBridge` | `ClaimFlagIsExact`, `CapsuleSolvent`, `ClaimsAreSpaced` of a capsule whose claims race with payouts, withdrawals, pauses and missing fees; liveness: `ClaimsAreAnswered`, `RequestsAreExecuted` |
| `utxo_launch` | `MCLaunch` | the gateway from its first script on. The scripts stopped at every step and repeated: `SavedMeansReady`, a recorded gateway is authorized and activated; `RerunNeverFails`. The import in batches that are mined late or never, among everybody's stakes and the owner's own imports: `SuccessIsExact`, `ImportRegistersStakers`; and, over every pairing of senders and accounts, `NonceTxBijection`, `RegistryConsistent`, `PegOutPaysRequester`. Three witnesses who prove, leave and rejoin while the threshold moves, below and above their number, and windows expire and reopen: `ProofsAreCounted`, `QuorumWithinWindow` |
| `utxo_pegout` | `MCUTXO` | `ImplementsPegLedger`, `PegOutQueueIntact`, `CreditsAreBacked`: stakes and withdrawals are covered by distinct transactions; liveness: `PegOutsAreServed` |
| `bootstrap` | `MCBootstrap` | three families of behaviours. Two stakers of an LST and two operators: `BooksAgree` (deposits, delegations, totals and the vault's books), `GenesisListsAreComplete`. All registrations, key replacements and rate changes while the owner moves the schedule, pauses and adds tokens: `ValidatorsAreDistinct`, `RateKeepsPromise`, `LockIsFinal`. Native restakers: `PubkeysAreDistinct`; `GenesisDepositIsEffective`, `GenesisPowerIsBacked` for every report of the beacon chain, up to the last digits |
| `lifecycle` | `MCLifecycle` | `PrincipalSurvivesUpgrade`: from the genesis on, principal is conserved and the vaults can pay, up to the last digits of what the genesis writes; `TokensSurviveUpgrade`: so do `DepositsAreAccepted` and `TokensAreNew`, by which neither a deposit nor a whitelist message reverts for ever; liveness: `MarkLeadsToUpgrade` |
| `utxo_genesis` | `MCUnified` | every ledger of three stakes, or of a stake and something that is none, read by its generator: `ExportMatchesLedger` (an order-free statement of who is credited by the rule the scripts state), `ExportedPairsRegister`. The whole script with generators that fail, hang, are killed or are slow, a crash and a second start: `ExportMatchesGenesis`, `TotalsSurviveMerge`, `PowerAddsUp`, `FeedersFollowTokens`; liveness: `RunEnds` |
| `utxo_depositor` | `MCUTXO` | violation: `StakesGoToRegistered` |
| `genesis_others` | `MCBootstrap` | violation: `OthersKeepTheirDelegations` |
| `lifecycle_blocked` | `MCLifecycle` | violation: `MessagesAreExecuted` |
| `oracle_chains` | `MCUnified` | violation: `OracleTokensNameTheirChain` |
| `utxo_format` | `MCUnified` | violation: `StakesFollowFormat` |

**Disagreements of code and comments.**

- `utxo_depositor`. `_processStakeMsg` registers sender and account only if
  neither is registered, then credits `inboundRegistry[clientAddress]`. If the
  account of the message is registered to another sender and this sender is
  not, that is `address(0)`. The comment at `UTXOGateway.sol:934` calls the
  depositor the registered Imuachain address.
- `genesis_others`. `generate.mjs:1091` collects the slashing of an operator's
  stakers by token and operator and subtracts all of it from the delegation of
  *each* staker, whereas the comment at line 599 has it applied to the slashed
  staker. `x/assets` of the same genesis (`operator_assets`) is right:
  `GenesisPowerIsBacked` holds, so the delegations add up to less than the
  operator's total.  The instance has small amounts: nothing is rounded in it.
- `lifecycle_blocked`. `Bootstrap` rejects every message but mark-bootstrap, and
  `addWhitelistToken` may send one before; `docs/cross-chain-communication-model.md:28`
  requires that every message can be executed. The client chain then never becomes
  a gateway. `MarkLeadsToUpgrade` is therefore stated for marks with nothing but
  marks ahead of them.

- `oracle_chains`. The generators give the oracle's tokens the chain identifiers 1
  (Bitcoin, `config.ts:9`) and 2 (XRP, `config.ts:19`), and the merge concatenates the
  lists of chains to `-`, Ethereum, Bitcoin, XRP Ledger. `generate.mjs:1188` says that
  the identifier is the index in this list, by which BTC is on Ethereum and XRP
  on Bitcoin.
- `utxo_format`. `docs/bitcoin-bootstrap-tx-format-spec.md` rules two kinds of stakes
  out that `bitcoin_genesis.ts` credits, and the property, which has a clause for each,
  is violated by either clause alone. By lines 54-58 and 75-77 a later stake that names another
  Imuachain address than the first is ignored; the script keeps the first address
  (lines 327-336, which say so) and credits the later stake to it. By line 21
  exactly one output to the vault is allowed; the script counts those of at least
  `minAmount` only (line 281), and credits the first output to the vault (line 375),
  be it one below the minimum. `ExportMatchesLedger` and its theorem state the rule in
  the comments of the scripts, not that of the document.

One more thing the models follow the code in: `verifyAndDepositNativeStake` has no
`beforeLocked`, unlike every other deposit, so `LockIsFinal` excludes native
deposits. A genesis generated at the lock does not hold one that comes later, and
the capsule refuses its validator afterwards.

**Bounds.** `MaxRequests` (2 or 3 messages of the client), `MaxOwnerMessages`,
`MaxFunds` (fees held at once), `MaxEth`, `MaxNST`, `MaxTime` cap what grows for
ever; they appear as guards of the actions that grow it and each cfg says what
its instance contains. Three requests are what it takes for a claim to be
answered while another is executed and a third is on its way. Deadlock is not
checked because a bounded bridge stops when its callers have used up their
messages. For `UTXOGateway`, `MaxNonce`, `MaxPegOuts` and `MaxTime` cap nonces,
peg-out requests and time, `StakeMsgs` and `BootstrapEntries` are what witnesses
may sign and the owner may import. The families of `utxo_launch` differ in what
they leave out. The one of the witnesses has three of them, every threshold they can
meet, a window of two and time for a second window to open, with two messages that
compete for the first nonce, after one deployment that nothing disturbs: what a stale
proof, a rejoined witness, an early expiry or a switch to one signature and back needs.
The other two have one witness and a threshold of two, hence stakes by one
signature: their subject is the order of stakes and imports, and witnesses change
nothing of that. `utxo_launch` has two senders and
two accounts in every pairing, with one step more than it takes to register both
crosswise; files of up to three entries in batches of two, and `MaxImports` (two)
runs of the import, so that a batch of the first can be mined during the second;
`MaxRuns` (three) runs of the deployment scripts, the first two of which stop
anywhere. For `Bootstrap`, `MaxDeposited` caps what a staker ever deposits of a
token (two deposits: one part can be delegated while the other is withdrawn),
`MaxListLength` the list of validators (two: both operators, or one twice) and
`MaxTime` the clock, which passes the lock, and in `Lifecycle` the spawn time.
The families of `bootstrap` differ in what they leave out: before the lock no owner
call; while the schedule moves no delegation; with native restaking no LST and no
undelegation, two validators with up to 3600 each, so that a loss may exceed what is
withdrawable and be split over both operators with a remainder. In the first and the
last family the operators register before anything else. Of the amounts in the instance,
of four digits, three are kept: every rounding of the script happens, up and down. In
`lifecycle` 126 is written as 130, in `utxo_genesis` one state of `Bootstrap` has
amounts of few digits and one has more than are kept.
`utxo_genesis` gives a rich ledger to one generator at a time, with two of three
transactions in the first block (`Tips` are two heights, and the third transaction is too
young at the first),
and the whole script one transaction per chain, `Attempts` as in the code (three) and
`MaxRuns` (two) starts: three attempts are what it takes for a child to fail, to be
killed and to succeed. Addresses, accounts and operators of the ledgers are those it
takes for a sender to name two accounts and for two senders to want the same one.
`lifecycle` allows two requests after the upgrade, one of which can claim
what was deposited before it, and two messages of the owner of `ImuachainGateway`:
two marks, the first of which may come too early or fail, or a mark and a token.

**Fairness** (`FairSpec`). Strong fairness of the two deliveries: LayerZero's
executor, or anyone, may present a message until it succeeds, and a pause only
disables it for a while. Weak fairness of unpausing and of funding the gateway:
duties of the operators which the code does not enforce; without them a paused
gateway answers nobody. No fairness is assumed of stakers, of the ledger's
decisions or of owners' other actions. In `UTXOBridge`: weak fairness of
unpausing, again a duty of the owner, and strong fairness of
`ProcessNextPegOutRequest` by some witness, because witnesses poll for requests
and a pause, or the removal of one of them, only interrupts the polling. In
`Lifecycle`, the same two conditions on either side of the upgrade: strong fairness
of the delivery to `Bootstrap` and then to the gateway, weak fairness of unpausing.
In `UnifiedGenesis`, weak fairness of the script and of the child process: they run,
and a request is answered or fails. Nothing is assumed of the imported generator,
which the script only polls for. Nothing in the code ends a child that hangs, so
`RunEnds` says that the script ends or the child hangs.

**Hazards without a property** are four: a generator of XRP whose connection stays open
hangs, which `RunEnds` exempts; the merged validator set is sorted but not
cut to `max_validators`; an import that stopped half way cannot be completed with the
script, because the next run stops at `TxTagAlreadyProcessed`; and
`deployedContracts.json` is written from what was read at the start of the script.
No document of the repository says what should hold there.

## 4. What is proved

Every sum of the models is `SumFunctionOnSet` of the community modules, which is
defined by a recursive function. `SumTheorems` states what is needed of it once: the
sum of naturals is a natural (`SumType`), a table that changes at one place changes
its sum by as much (`SumAdded`), and the sums by keys add up to the sum (`SumGroups`). The induction this takes is over the subsets of a
finite set, stated for a set of good subsets (`SetInduction`) and not for a predicate,
so that it comes from the library's well-founded induction without an operator as
parameter; the sum is shown to be the cardinality of a set of units, and the rest
follows from the cardinality theorems.

The lemmas on decimals hold for any radix and precision (`DecimalsAssumption`): the unit of
the last digit is a power of the radix (`UlpIsScale`) that no smaller number exceeds
(`UlpMonotone`), a result and a quotient are off by at most half of it (`RoundedFacts`,
`QuotientFacts`), and a sum rounded after each addition by half of it for each addition
(`RoundedSumNear`). The theorems about `generate.mjs` carry these errors through its
calculations; where a property allows for rounding, it says by how much.

`RestakingBridge_proofs` proves, for any sets of stakers,
tokens and validators and any bounds, from the assumptions on the constants
named in `Assets` and `ImuaCapsule`:

- `BridgeTypeCorrect`: `Spec => []TypeOK`. With naturals as the type of balances
  this says that no subtraction goes below zero.
- `RegistryCorrect`: `Spec => []RegistryInv`, the inductive invariant of
  request/response correlation: the registry caches what was sent
  (`CachedIsSent`), undelivered withdrawals are registered, responses on their
  way are for registered and executed requests, no two for the same, and none is
  missing. `ResponsesAreExpected` alone is not inductive: that a second response
  for the same request cannot exist needs uniqueness, which needs that a request
  is executed only once, which is the nonce check.
- From it `NoUnexpectedResponse` and `AnsweredOnce`.
- `TokensNeverBlock`: `Spec => [](DepositsAreAccepted /\ TokensAreNew)`. The
  inductive invariant (`TokensInv`) relates the two chains' sets with what is in
  flight: the client chain knows only tokens that Imuachain knows, a whitelist message
  on its way (`AwaitedTokens`) is for one that the client chain does not know yet and
  the only one for it, and a deposit on its way is of a token that Imuachain knows.
- `CapsulesCorrect`: `ClaimFlagIsExact /\ CapsuleSolvent /\ ClaimsAreSpaced`,
  which are inductive only together and on top of `RegistryInv`: a granted
  response moves `withdrawableBalance` and `lastClaimTimestamp`, which is safe
  because the flag made its claim the only one.

The argument first sorts every step into a few kinds (`StepKinds`,
`CapsuleKinds`): for the registry, for instance, a step is silent, sends an
ordinary request, sends and registers one, executes one with or without an
answer, lets the owner send, or executes an owner message or a response at the
client. There is one preservation lemma per kind.

`BridgeAccounting_proofs` adds the principal, for any finite set of stakers
(`StakersAssumption`):

- `PrincipalConserved` (`LstPrincipalConserved`), `VaultsCanPay` (`VaultSolvent`),
  `BridgeImplementsLedger` (`ImplementsLedger`). All three follow from one fact about
  the steps, `AccountsNext`: each step moves an amount of one staker and one token in one
  of six ways between the five places (`Deposited`, `Credited`, `Debited`, `Unlocked`,
  `Withdrawn`, `SlashedBy`) or moves nothing. What makes it true is not local to a
  handler: a request counts as in flight until its nonce is executed, so the nonce
  check must make it count once (`ExecuteCounts`); a response counts as a grant of the
  amount the *registry* holds for it, which `RegistryInv` says is the one that was sent
  (`RespondCounts`, `ReceiveCounts`); and that a message about an LST names an LST
  (`MessagesInv`) is another invariant. `VaultSolvent` then needs that a withdrawal
  moves no more than is unlocked, and sums over all stakers.

`UTXOBridge_proofs` proves, for any witnesses, addresses, messages, timeout and
bounds, from the assumptions named in `UTXOGateway`:

- `TypeCorrect`: `Spec => [](TypeOK /\ LedgerOK)`, where `LedgerOK` says that an
  account has no more withdrawable than staked: without it a withdrawal could
  take `staked` below zero.
- `NoncesCorrect`: `NonceTxBijection`, inductive on top of `TypeOK`.
- `RegistryCorrect`: `RegistryConsistent`, strengthened by `NobodyUnregistered`
  (nothing is ever registered to `address(0)`).
- `QueueCorrect` and `PayeeCorrect` from one invariant, `PegOutInv`: requests
  are made of registered accounts, and a registration is final.
- `ProofsCountedRight` and `QuorumReached`. The first is the invariant that the
  count is the number of distinct witnesses with a proof in the open window
  (`QuorumInv`, which adds `WindowInv`: the window opened no longer than
  `ProofTimeout` ago and no proof is from the future). The second is an action
  property: the step that credits has, with its own proof, `requiredProofs`
  witnesses that proved within `ProofTimeout`. It needs the cardinality theorems
  for the one witness a step adds.
- `Refinement`: `Spec => ImplementsPegLedger`. Nothing but `RecordTx` extends the
  credited log, and `NonceTxBijection` makes the new entry one the log does not hold;
  requests are appended where `PegOutInv` says the payment is still empty; a settled
  request was served.
- `StakesAreBacked` (`CreditsAreBacked`): what is staked and what is pegged out is at
  most what the credited transactions paid in. The invariant adds `UnusedSlots`: the
  queue is empty behind its last request, so that a new request adds its amount to the
  sum and replaces nothing. `BackingSteps` sorts the steps into credits, withdrawals
  and what the ledger of Imuachain does on its own; a credit adds one transaction to
  the sum because its nonce was zero. Assumed is that the client transactions and the
  bounds are finite (`WordsAssumption`).

`UTXOLaunch_proofs` proves, over `LaunchSpec` and from `ContractAssumption`, for any
number of runs of the scripts and any others who authorize gateways, deploy or use
this one:

- `RecordedGatewayIsReady`: `[]SavedMeansReady`. A record is made by the last step, of
  a script that stops at any failure; so the invariant (`DeployInv`) follows the script:
  from a step on there is a proxy (`ProxyExists`), from the first activation on
  the chains behind it are activated (`ChainsActivated`), and an activation that
  passed had the authorization, which only a run of a script replaces.
- `ScriptsCanBeRepeated`: `[]RerunNeverFails`. If ASSETS obeys the deployer, the script
  that activates has authorized the gateway before (`MayCall`), and the proxy of an
  earlier run is found, not deployed again.
- `ReportedImportsAreExact` (`SuccessIsExact`), for any data files and batch sizes. The
  script compares numbers only, so the invariant (`ImportInv`) is a count: each entry it
  has counted has a nonce no lower than the one it should have, and as many entries as
  follow it have theirs above it (`CountedEntries`). Whoever else takes a nonce only
  pushes the last one up; if the last one is where the script expects it, there is no
  slack left and every entry is in place. A batch that was sent by an earlier run and
  is mined now may be counted for the present one: it is the same entries of the same
  file, and the contract takes each transaction once.
- `ImportedStakersAreRegistered` (`ImportRegistersStakers`), for data files that pair
  client addresses and accounts one to one (`PairsAreBound`; what `ExportsRegister`
  below says of the files the generators write, stated as a hypothesis because the
  import is modelled with any files). While the nonces are those of the import, the
  registry holds the file's pairs only (`OnlyFilePairs`).
- `LaunchedGatewayIsSound`: the theorems of `UTXOBridge_proofs` on nonces, registry and
  peg-outs hold over `LaunchSpec` too, where a call imports a whole batch: its entries
  take consecutive nonces (`BatchNonces`), and the registry stays inverse to
  itself although several entries register at once.

`UnifiedGenesis_proofs` proves, over `UnifiedSafety`, for any ledgers, tips, validators and
numbers of attempts, from the assumptions named in `StakeScan` (a ledger is in chain order
and its transactions have identifiers of their own; what reads as a stake names an address
on either side; no list of entries is one of the markers of an absent or unfinished file):

- `ExportsRegister` (`ExportedPairsRegister`). The two maps of the generator are not
  inverse to each other: a sender who names a second account takes it and keeps the first.
  What is inductive (`ScanInv`) is that an account a sender is bound to is taken by this
  sender (`MappingsInverse`), that whoever is credited is bound (`StakersAreBound`), and
  that the files written so far are one to one (`FilesRegister`), by whichever run.
- `EntriesMatchLedger` (`ExportMatchesLedger`). The generator works forward through a
  sorted list, the property speaks of first transactions in sets. The invariant
  (`ReadInv`) says of each prefix what the property says of the whole: the transactions
  done are earlier than those to do (`ScanOrder`), the owner of an account is the sender of
  the first stake done that names it (`OwnersAreFirst`), the home of a sender is the first
  account of an accepted stake (`HomesAreFirst`), and the list to credit has every accepted
  stake that is deep enough, once (`ValidIsAccepted`). One step ignores, refuses or accepts
  a transaction (`ValidateDoes`); as it is later than all before it, it is nobody's first
  unless it is the only one, and what was accepted stays so (`AcceptedStays`).
- `FilesOfOneScan` (`ExportMatchesGenesis`). Entries and genesis of a chain are two files,
  written by a process that may die between them. The invariant (`ExportInv`): a process
  that will write entries has no complete genesis before it, and one that is about to write
  the genesis has its own entries on disk (`FilesInv`); hence no step touches a chain whose
  genesis is complete (`Frozen`), although a generator is run again after any failure.
  A genesis is `Sound` if its deposits match the entries on disk; `Frozen` keeps loaded
  states sound, `MergeTwoSound` says that merging two sound states gives one, and `MergeSound`
  carries it through the recursion of `Merge` with `RangeInduction` of `SumTheorems`.
- `BooksSurviveMerge` (`TotalsSurviveMerge`), from `BootAssumption`: Bootstrap whitelists a
  token once, keeps a number per staker, token and operator, and delegates no more than was
  deposited, and an address a transaction names has passed the check of bech32. The books of
  each file balance: a generator adds up one list of stakes by account, by operator and by
  both (`StakesBalanced`), `generate.mjs` lists deposits one by one and adds up delegations by
  operator, whether it keeps the operator or not, and rounds each by itself: the three agree
  to within half a last digit for each rounded entry (`RoundsWithin`, `EvmBalanced`); that a sum by keys is the
  sum is `SumGroups` of `SumTheorems`. `Balanced` also says which chain the entries are of:
  states of different chains merge into a balanced one (`MergeTwoBalanced`), states that share
  a chain do not, for the merge concatenates deposits and drops the second token. The
  invariant (`TotalsInv`) therefore keeps the loaded states in the order of the chains
  (`InRank`, hence `Apart`) and before the chains still in the queue, over retries,
  crashes and runs on existing files.
- `PowersOfAllChains` (`PowerAddsUp`), from the same and `KeysAssumption` (no two validators
  have one key), `PricesAssumption`, `RateUnitAssumption` and
  `RegistrationsAssumption`, for any number of validators that fits the set. A file of one
  chain, and whatever was merged so far, is `Powered`: its keys are distinct and in order
  of power, and each is given (`Gives`) the rounded value on the EVM chain and the
  truncated one of the other chains. The sort is a choice among permutations, so the proof
  first shows that there is one to choose: what the comparator leaves equal is ordered by
  position, and in a total order every element has a place (`OrderExists`, `SortKeeps`).
  `generate.mjs` sorts before it rounds, which is right only because rounding keeps the
  order (`RoundingKeepsOrder`). The merge is a fold: its defining equation over subsets is shown to have a solution (`FoldSolution`) and unrolled into one
  step per element (`FoldSteps`), so that a key of both sets has both powers and one of
  the second alone is appended (`MergeOne`, `MergeValSetAdds`, `MergeTwoPowered`).
- `FeedersFitTokens` (`FeedersFollowTokens`), from `OracleAssumption`: the base genesis and
  Bootstrap have four tokens with different names, none of them BTC or XRP, and
  the native one is priced as one of the others. `generate.mjs` gives each new token the
  position it takes (`TokensAdd`), binding the native one changes no name (`AssetAdds`), and
  the oracle `Fits` its four tokens (`EvmOracleFits`). Merging the token of another chain
  keeps it so only if the literal is the number of tokens before it (`OracleAdds`). That
  Bitcoin's 4 is used with four tokens and XRP's 5 with five is a matter of order: if all
  chains are there, the states are exactly three, EVM, Bitcoin and XRP (`ThreeStates`, from
  `InRank`), whichever of them were retried, or left by an earlier run.

`Bootstrap_proofs` proves, for any stakers, operators, names, keys, commissions and
schedules, from the assumptions named in `ValidatorRegistry`, `Bootstrap`,
`ImuaCapsule`, `Assets`, and for the two about the genesis `Decimals` and `Genesis`:

- `ValidatorsDistinct`: `BootstrapSpec => []ValidatorsAreDistinct`. The property
  speaks of sets of keys and names; the inductive invariant `ValidatorsInv` says the
  same element by element (`OwnersInv`, `ListInv`, `KeysInv`, `NamesInv`) on top of
  the registry's types. `replaceKey` is the delicate call: the old key may be
  freed because `KeysInv` says that no other validator has it.
- `RatesKeepPromise`: `RateKeepsPromise` is inductive with the types. `updateRate`
  compares with the current rate, and the invariant says that this is the
  registered one as long as the validator is not in `commissionEdited`.
- `LockFinal`: `BootstrapSpec => LockIsFinal`. `LockedSteps` shows what `beforeLocked`
  leaves possible (`AfterLock`: the pauses, native deposits, the passing of time);
  that the lock stays needs the clock and the schedule to be numbers (`LockInv`,
  preserved because every step is a `BooksStep`).
- `BooksBalance`: `BootstrapSpec => []BooksAgree`, type correctness included, for any
  finite sets of stakers and operators. Each of the seven calls that touch the books is
  shown to be a `BookMove`: withdrawable principal, a delegation and what is unlocked
  change at one staker, one token and at most one operator, by as much as the guards
  can afford (`Affordable`), and every table follows. That such a move keeps all five
  equations between tables and sums is proved once (`MoveKeepsBooks`).
- `GenesisListsComplete`: from the same moves, since whoever gains a position is put on
  the lists in the same call (`Listed`). A lost entry is what `ListsInv` excludes:
  entries are appended only, and an operator who was delegated to stays registered.
- `PubkeysDistinct`: what is inductive (`PubkeysInv`) is that a listed validator is
  registered in its staker's capsule, and has that capsule for its withdrawal
  credentials, which are set once; so no other capsule takes it, nor the same one twice.

Only three calls disturb the registry, which `RegistrySteps` proves once; the
invariants of validators and rates are then proved for those three.

The genesis is a function of the contract's books, so two more theorems follow from
those and from what `SumTheorems` says of sums and products:

- `GenesisDepositsEffective` (`GenesisDepositIsEffective`): from `BooksAgree`, a
  restaker's deposit is what is withdrawable and what is delegated (`RestakerBooks`),
  so each branch of the slashing takes the loss once (`SlashFacts`). Each result is
  rounded by at most half the unit of its last digit, and no result has a larger
  unit than the deposit: four roundings are at most two last digits.
  The hypothesis that the deposit itself is written in full (`DepositIsExact`)
  is one of the property, and true of deposits in whole Gwei.
- `GenesisPowerBacked` (`GenesisPowerIsBacked`), for any number of stakers and
  operators. A staker that is slashed loses the same proportion of each delegation, but
  for the error of each product; summed over its operators that is its pending
  slash, and what remains is its deposit of the genesis. An operator loses the rounded sum
  of its stakers' slashes, which needs that `SlashedStakers`, found from the lists, misses
  nobody who delegates (`GenesisListsAreComplete`). Rows and columns are swapped
  (`SumSwap`), and the errors are added up: for each operator one of every slash, of
  every addition, of the subtraction and of the truncation, for each staker those of the
  deposit (`SlackOfPower`). That the additions of many stakers cannot lift the unit of
  the last digit above that of twice the total is where `FewStakersAssumption` is used.

`Lifecycle_proofs` joins the two developments, with no assumption but theirs:

- `PrincipalSurvives` (`PrincipalSurvivesUpgrade`) and `TokensSurvive`
  (`TokensSurviveUpgrade`). The inductive invariant (`LifeInv`) has the invariant of
  Bootstrap until the upgrade, those of the bridge from the genesis on, and both in
  between, where the contract is locked. `GenesisKeepsLife` is where principal crosses
  over: the vaults' books, which `BooksAgree` ties to positions and delegations, become
  what `LstPrincipalConserved` adds up. From then on Imuachain moves what it holds while
  Bootstrap is still there, and the lock is what keeps the contract from moving the
  other half; a mark that fails moves nothing but the nonce; the upgrade resets only
  what the gateway does not use. The genesis writes delegations rounded, so that the two
  sides of each equation differ from then on, by at most the last digits of the staker's
  delegations (`RoundedWithin`, `PrincipalStaysWithin`); what keeps them from drifting
  further is that every step of the bridge moves equal amounts on both sides
  (`PrincipalFollows`) and never adds to what is owed without backing (`ShortfallStays`).

**Only model-checked**: liveness (fairness is out of the prover's reach here). Every
invariant and every action property of the runs has a theorem.

## 5. Plan

1. Core bridge: modules above. Done.
2. `UTXOGateway`: stake messages, witnesses, registry, peg-outs, with proofs and
   the refinement of `PegLedger`. Done.
3. `Bootstrap`, the genesis generator and the life of a client chain over the
   upgrade. Done, the validators and the lock with proofs.
4. The genesis generators of Bitcoin and XRP, the unified genesis, the import and the
   deployment of `UTXOGateway`. Done, with the theorems above.
5. More theorems: the books of `Bootstrap`, the powers of the genesis, principal and
   tokens over both chains and over the upgrade, the backing of stakes and the import are
   done, and the entries of the generators, their agreement with the genesis, and the sums,
   the validator set and the oracle of the merged genesis. Done.
6. Native restaking over the upgrade in `Lifecycle`; `RewardVault` and `CombinedFaucet`.

**Not modelled.**

- `RewardVault`: no contract calls its deposits or withdrawals, the reward functions of
  the gateways revert. `CombinedFaucet`: a rate limit on test networks.
- `updateWhitelistToken`, the operator association functions and
  `registerOrUpdateClientChain` of `ImuachainGateway`, which forward to a precompile.
- `generate.mjs`: layout and order of the file, meta data of operators and chains, the
  entries of Imuachain's own chain and token, and the checks of the base genesis that
  end the script before it writes.
- Of a payment of XRP the amount that was delivered and the `DeliverMax` field are taken
  to be the same; entries of zero in `stakers_by_operator` are left out.
- `generate_unified.mjs`: conflict resolutions other than the default, validation of the
  configuration.
- The deployment of `UTXOGateway`: funding of accounts, and the logic and admin contracts
  a rerun deploys beside a proxy that exists already.
- The Solidity deployment scripts, each one simulated run of forge that sends its
  transactions; `CustomTimelockController`, whose base is in a submodule; the beacon chain
  proof libraries, pure functions over hashes, of which a proof's verdict is modelled;
  interfaces, constants, errors, proxies, mocks and tests.
