---------------------------- MODULE UnifiedGenesis ----------------------------
(***************************************************************************)
(* generate_unified.mjs: the generators of the enabled chains are run one  *)
(* after the other, each up to Attempts times, and what they wrote is      *)
(* merged into one genesis.  The generator of the EVM chain is imported:   *)
(* it runs once in the process of the script, concurrently with it, and    *)
(* the script only waits a while for its file.  Those of Bitcoin and XRP   *)
(* are processes of their own.  The machine may crash and the operator may *)
(* start the script again; the files stay.                                 *)
(***************************************************************************)
EXTENDS StakeScan, GenesisMerge

CONSTANTS
    BootStates,     \* what Bootstrap may hold, see EvmGenesis
    EnabledChains,  \* the sets of chains a configuration may enable
    Attempts,       \* retries of executeWithRetry: 3
    MaxRuns         \* bound on how often the script is started

\* Bootstrap whitelists a token once and keeps a number per staker, token and
\* operator, and no more is delegated than deposited.  An address that parses in
\* a transaction passed the check of bech32 that the invalid ones fail.
ASSUME BootAssumption ==
    \A b \in BootStates :
        /\ IsFiniteSet(b.deposits) /\ IsFiniteSet(b.delegations)
        /\ b.tokens \in Seq(ToSet(b.tokens))
        /\ \A t, u \in ToSet(b.tokens) : t.address = u.address => t = u
        /\ \A t \in ToSet(b.tokens) : t.rate \in Nat
        /\ \A d \in b.deposits \cup b.delegations :
               d.amount \in Nat /\ \E t \in ToSet(b.tokens) : d.token = t.address
        /\ \A d, e \in b.deposits :
               d.staker = e.staker /\ d.token = e.token => d = e
        /\ \A d, e \in b.delegations :
               /\ d.staker = e.staker /\ d.token = e.token
               /\ d.operator = e.operator
               => d = e
        /\ \A t \in ToSet(b.tokens) :
               Delegated(b, LAMBDA d : d.token = t.address)
                   <= Deposited(b, LAMBDA d : d.token = t.address)
        /\ \A l \in Ledgers : \A c \in UtxoChains : \A tx \in ToSet(l[c]) :
               ReadTx(c, tx) # Null =>
                   ReadTx(c, tx).validatorAddress \notin b.invalid

ASSUME RegistrationsAssumption ==
    \A r \in Registrations : r \subseteq Validators /\ IsFiniteSet(r)

\* generate.mjs takes as many tokens as its constants name, ETH and nstETH, which
\* is priced as ETH; the base genesis of Imuachain has a placeholder and its own
\* token: what the literals 4 and 5 of Bitcoin and XRP count on.
ASSUME OracleAssumption ==
    /\ BaseOracleTokens \in Seq(ToSet(BaseOracleTokens))
    /\ \A b \in BootStates :
        LET named == {t.name : t \in ToSet(b.tokens)}
        IN  /\ Len(BaseOracleTokens) + Len(b.tokens) = 4
            /\ \A i, j \in DOMAIN b.tokens : b.tokens[i].name = b.tokens[j].name => i = j
            /\ {t.name : t \in ToSet(BaseOracleTokens)} \cap named = {}
            /\ {"BTC", "XRP"} \cap (named \cup {t.name : t \in ToSet(BaseOracleTokens)}) = {}
            /\ \A t \in ToSet(b.tokens) : t.native => t.remainder \in named

VARIABLES
    boot,           \* the stakes of the Bootstrap contract
    enabled,        \* the chains of the configuration
    evm,            \* where the imported generator is
    runner,         \* where the script is
    queue,          \* chains not yet run, the first being run
    attempt,
    genesisStates,  \* the genesis states loaded so far
    output,         \* genesis_unified.json
    runs

runnerVars == <<runner, queue, attempt, genesisStates, output, runs>>
vars == <<stakeScanVars, boot, enabled, evm, runnerVars>>

InOrder(S) ==
    LET only(c) == IF c \in S THEN <<c>> ELSE <<>>
    IN  only("EVM") \o only("Bitcoin") \o only("XRP")

UnifiedInit ==
    /\ ScanInit
    /\ boot \in BootStates
    /\ \A d \in boot.delegations : d.operator \in registered
    /\ enabled \in EnabledChains
    /\ evm = "idle"
    /\ runner = "idle"
    /\ queue = <<>>
    /\ attempt = 0
    /\ genesisStates = <<>>
    /\ output = NoFile
    /\ runs = 0

-----------------------------------------------------------------------------
(* generate *)

\* A finished script is alive until the imported generator ends.
MayStart ==
    /\ runner \in {"idle", "failed", "done"}
    /\ evm \in {"idle", "ended"}
    /\ runs < MaxRuns

Start ==
    /\ MayStart
    /\ runs' = runs + 1
    /\ queue' = InOrder(enabled)
    /\ attempt' = 1
    /\ genesisStates' = <<>>
    /\ evm' = "idle"
    /\ runner' = IF queue' = <<>> THEN "merge" ELSE "attempt"
    /\ UNCHANGED <<stakeScanVars, boot, enabled, output>>

\* The next chain of the queue, or the merge.
NextChain ==
    /\ queue' = Tail(queue)
    /\ attempt' = 1
    /\ runner' = IF Len(queue) > 1 THEN "attempt" ELSE "merge"

\* runChainGenesis found a complete file: it is parsed, checked to have an
\* app_state and kept.
Load(c) ==
    /\ Complete(genesisFile[c])
    /\ genesisStates' = Append(genesisStates, genesisFile[c])
    /\ NextChain
    /\ UNCHANGED <<stakeScanVars, boot, enabled, evm, output, runs>>

\* executeWithRetry: after the last attempt the chain is left out.
RetryForever ==
    /\ runner' = "attempt"
    /\ UNCHANGED <<queue, attempt>>
Retry ==
    IF attempt < Attempts
    THEN /\ attempt' = attempt + 1
         /\ runner' = "attempt"
         /\ UNCHANGED queue
    ELSE NextChain
FailAttempt ==
    /\ Retry
    /\ UNCHANGED <<stakeScanVars, boot, enabled, evm, genesisStates, output, runs>>

\* runChainGenesis up to the generator: a file that exists is used, and one
\* that cannot be parsed fails the attempt.
LoadExisting ==
    /\ runner = "attempt"
    /\ Load(Head(queue))
UnreadableFile ==
    /\ runner = "attempt"
    /\ genesisFile[Head(queue)] = Partial
    /\ FailAttempt

\* A chain is generated only if it has no file.
GeneratesAgain(c) == genesisFile[c] # Partial
Generates(c) == genesisFile[c] = NoFile

\* import() of generate.mjs: the module starts when it is first imported and
\* is not run again.
ImportEvm ==
    /\ runner = "attempt"
    /\ Head(queue) = "EVM"
    /\ Generates("EVM")
    /\ evm' = IF evm = "idle" THEN "running" ELSE evm
    /\ runner' = "poll"
    /\ UNCHANGED <<stakeScanVars, boot, enabled, queue, attempt, genesisStates,
                   output, runs>>

\* runWithTsx: a child process runs generateBootstrapGenesis.
Spawn ==
    /\ runner = "attempt"
    /\ Head(queue) \in UtxoChains
    /\ Generates(Head(queue))
    /\ StartScan(Head(queue))
    /\ runner' = "child"
    /\ UNCHANGED <<boot, enabled, evm, queue, attempt, genesisStates, output, runs>>

\* The child prints its errors and exits with 0; killed, it exits otherwise.
ChildExits ==
    /\ runner = "child"
    /\ pc = "exited"
    /\ runner' = "poll"
    /\ UNCHANGED <<stakeScanVars, boot, enabled, evm, queue, attempt,
                   genesisStates, output, runs>>
ChildKilled ==
    /\ runner = "child"
    /\ pc = "killed"
    /\ FailAttempt

\* The file is polled for 3 s; the generator may be slower.
PollFindsFile ==
    /\ runner = "poll"
    /\ Load(Head(queue))
PollTimesOut ==
    /\ runner = "poll"
    /\ ~Complete(genesisFile[Head(queue)])
    /\ FailAttempt

MergeStates ==
    /\ runner = "merge"
    /\ IF genesisStates = <<>>
       THEN /\ runner' = "failed"
            /\ evm' = "ended"
            /\ UNCHANGED output
       ELSE /\ runner' = "write"
            /\ output' = Partial
            /\ UNCHANGED evm
    /\ UNCHANGED <<stakeScanVars, boot, enabled, queue, attempt,
                   genesisStates, runs>>
WriteOutput ==
    /\ runner = "write"
    /\ output' = Merge(genesisStates)
    /\ runner' = "done"
    /\ UNCHANGED <<stakeScanVars, boot, enabled, evm, queue, attempt,
                   genesisStates, runs>>

\* USE_EXISTING_FILES: the files of the enabled chains are merged as they are;
\* a missing one is left out, one that cannot be parsed ends the script.
MergeExistingFiles ==
    /\ MayStart
    /\ runs' = runs + 1
    /\ LET present == {c \in enabled : genesisFile[c] # NoFile}
           order == InOrder(present)
       IN  IF \E c \in present : genesisFile[c] = Partial
           THEN /\ runner' = "failed"
                /\ UNCHANGED genesisStates
           ELSE /\ runner' = "merge"
                /\ genesisStates' = [i \in DOMAIN order |-> genesisFile[order[i]]]
    /\ evm' = "idle"
    /\ UNCHANGED <<stakeScanVars, boot, enabled, queue, attempt, output>>

-----------------------------------------------------------------------------
(* The imported generator, and the machine *)

\* updateGenesisFile: an error is printed, and no file is written.
EvmFails ==
    /\ evm = "running"
    /\ evm' = "ended"
    /\ UNCHANGED <<stakeScanVars, boot, enabled, runnerVars>>
EvmOpensFile ==
    /\ evm = "running"
    /\ PricesKnown(boot)
    /\ evm' = "writing"
    /\ genesisFile' = [genesisFile EXCEPT !["EVM"] = Partial]
    /\ UNCHANGED <<scanVars, worldVars, dataFile, boot, enabled, runnerVars>>
EvmWritesFile ==
    /\ evm = "writing"
    /\ evm' = "ended"
    /\ genesisFile' = [genesisFile EXCEPT !["EVM"] =
                          EvmGenesisState(boot, registered)]
    /\ UNCHANGED <<scanVars, worldVars, dataFile, boot, enabled, runnerVars>>

\* The machine stops: what was not written is lost.
Crash ==
    /\ runner \notin {"idle", "failed", "done"}
    /\ runs < MaxRuns
    /\ runner' = "idle"
    /\ evm' = "ended"
    /\ pc' = "off"
    /\ UNCHANGED <<worldVars, fileVars, chain, fetched, todo, height,
                   addressMappings, reverseMappings, validatorInfoCache, valid, unanswered,
                   boot, enabled, queue, attempt, genesisStates, output, runs>>

ScanStepOfChild ==
    /\ ScanStep
    /\ UNCHANGED <<boot, enabled, evm, runnerVars>>
KillChild ==
    /\ Kill
    /\ UNCHANGED <<boot, enabled, evm, runnerVars>>
ChainGrows ==
    /\ \E c \in UtxoChains : Grow(c)
    /\ UNCHANGED <<boot, enabled, evm, runnerVars>>

RunnerStep ==
    \/ LoadExisting \/ UnreadableFile
    \/ ImportEvm \/ Spawn
    \/ ChildExits \/ ChildKilled
    \/ PollFindsFile \/ PollTimesOut
    \/ MergeStates \/ WriteOutput
EvmStep == EvmFails \/ EvmOpensFile \/ EvmWritesFile

UnifiedNext ==
    \/ Start \/ MergeExistingFiles
    \/ RunnerStep
    \/ ScanStepOfChild
    \/ EvmStep
    \/ KillChild \/ Crash
    \/ ChainGrows

UnifiedSafety == UnifiedInit /\ [][UnifiedNext]_vars

\* The script and the child run; requests are answered or fail.  Nothing is
\* assumed of the imported generator, whose file is only waited for.
UnifiedSpec ==
    /\ UnifiedSafety
    /\ WF_vars(RunnerStep)
    /\ WF_vars(ScanStepOfChild)

-----------------------------------------------------------------------------
(* Properties of the unified genesis, once it is written *)

Merged == output.assets.clientChains
Total(S, asset, amount(_)) ==
    SumFunction([x \in {y \in S : y.asset = asset} |-> amount(x)])

\* The deposits of a chain in the unified genesis belong to the accounts of the
\* entries exported for the chain, although the two are separate files, written
\* one after the other, and the script may have died and been started between:
\* whoever is credited at genesis will be registered by the import, and nobody
\* else.
ExportMatchesGenesis ==
    Complete(output) =>
        \A c \in UtxoChains \cap Merged :
            /\ Complete(dataFile[c])
            /\ {d.staker : d \in {e \in output.assets.deposits :
                                      e.asset = AssetId(c)}}
                   = {StakerId(e.imuachainAddress, c) : e \in ToSet(dataFile[c])}

\* Every amount of an EVM chain that is stated of something delegated was
\* rounded; those of Bitcoin and XRP are exact.
SlackOfBooks(t, rounded) ==
    IF t.asset.chain = "EVM" THEN Cardinality(rounded) * LastDigit(t.total) ELSE 0

\* Of every asset the genesis states how much there is as the token's total and
\* as the deposits, how much of it is delegated as the operators' assets and as
\* the delegations.  The merge leaves the first two equal and the other two no
\* further apart than the roundings of each can bring them, half a last digit
\* for every entry: on Bitcoin and XRP all is delegated, and an operator that
\* was skipped is listed with its assets alone (mergeAssetsModule,
\* mergeDelegationModule, generate.mjs:707 and 1105).
TotalsSurviveMerge ==
    Complete(output) =>
        LET tokens == output.assets.tokens
        IN  /\ {d.asset : d \in output.assets.deposits} \subseteq {t.asset : t \in tokens}
            /\ \A t \in tokens :
                /\ Total(output.assets.deposits, t.asset, LAMBDA d : d.total) = t.total
                /\ LET listed == {a \in output.assets.operatorAssets :
                                      a.asset = t.asset /\ a.operator \notin boot.invalid}
                       states == {d \in output.delegation.states : d.asset = t.asset}
                       delegated == Total(listed, t.asset, LAMBDA a : a.total)
                       shared == Total(states, t.asset, LAMBDA d : d.share)
                   IN  /\ 2 * (shared - delegated) <= SlackOfBooks(t, listed \cup states)
                       /\ 2 * (delegated - shared) <= SlackOfBooks(t, listed \cup states)
                       /\ 2 * (delegated - t.total) <= SlackOfBooks(t, listed)
                       /\ t.asset.chain \in UtxoChains => delegated = t.total
                /\ \A u \in tokens : u.asset = t.asset => u = t

\* The validator set has every key once, strongest first, under the sum of the
\* powers the chains give it, and its total is their sum; said where no chain
\* cut its set short (mergeDogfoodModule).
PowerAddsUp ==
    Complete(output) /\ Cardinality(registered) <= MaxValidators =>
        LET valSet == output.dogfood.valSet
            evmPower(v) == IF "EVM" \in Merged /\ v \in OptedIn(boot, registered)
                               THEN ToFixed0(TotalUsd(boot, v)) ELSE 0
            onUtxo(v) == {a \in output.operator.assetUsdValues :
                             a.operator = v /\ a.asset.chain \in UtxoChains}
            utxoPower(v) == SumFunction([a \in onUtxo(v) |-> a.amount])
        IN  /\ \A i, j \in DOMAIN valSet :
                   i < j => /\ valSet[i].publicKey # valSet[j].publicKey
                            /\ valSet[i].power >= valSet[j].power
            /\ output.dogfood.lastTotalPower = TotalPower(valSet)
            /\ \A v \in registered :
                   LET at == {i \in DOMAIN valSet :
                                 valSet[i].publicKey = ConsensusKey[v]}
                   IN  SumFunction([i \in at |-> valSet[i].power])
                           = evmPower(v) + utxoPower(v)

\* If every chain is there, the feeders and the prices carry the positions of
\* the tokens they are for (generate.mjs:388 "the order is related for the token
\* objects and the token feeders"), the literals 4 and 5 included.
FeedersFollowTokens ==
    Complete(output) /\ Merged = Chains =>
        LET fed == Len(BaseOracleTokens)..Len(output.oracle.tokens) - 1
        IN  /\ ToSet(output.oracle.feeders) = fed
            /\ \A i \in DOMAIN output.oracle.prices :
                   LET p == output.oracle.prices[i]
                   IN  p.list = <<output.oracle.tokens[p.tokenId + 1].name>>

\* A started script comes to an end, whatever its generators do: attempts are
\* counted and the wait for a file is bounded (executeWithRetry).  Nothing bounds
\* the wait for a child, and the one that hangs must be killed by hand.
RunEnds ==
    runner = "attempt" ~> runner \in {"done", "failed", "idle"} \/ pc = "hung"

\* What generate.mjs says of the oracle, line 1188: the chain of a token is the
\* index of its chain among the oracle's chains; said of a genesis that has all
\* chains.
OracleTokensNameTheirChain ==
    Complete(output) /\ Merged = Chains =>
        \A i \in DOMAIN output.oracle.tokens :
            \A asset \in output.oracle.tokens[i].assets :
                output.oracle.chains[output.oracle.tokens[i].chainId + 1]
                    = ChainName[asset.chain]
==============================================================================
