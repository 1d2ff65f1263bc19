------------------------- MODULE UnifiedGenesis_proofs -------------------------
(***************************************************************************)
(* Proofs about the generators of Bitcoin and XRP, for any ledgers, any    *)
(* number of attempts and whatever fails, is killed or is run again.       *)
(***************************************************************************)
EXTENDS UnifiedGenesis, SequenceTheorems, SumTheorems

\* Sequences of at most one element.
LEMMA ShortSeq ==
    \A A : <<>> \in Seq(A) /\ \A x \in A : <<x>> \in Seq(A)
  OBVIOUS

USE AddressesAssumption

\* What is read of the transactions a run was given.
Txs == ToSet(ledger[chain])

ScanTypeOK ==
    /\ chain \in UtxoChains
    /\ ledger \in Ledgers
    /\ fetched \in Seq(Txs)
    /\ todo \in Seq(Txs)
    /\ valid \in Seq(Txs)
    /\ addressMappings \in [Senders -> ImAddresses \cup {NoAddress}]
    /\ reverseMappings \in [ImAddresses -> Senders \cup {NoSender}]

\* An account that a sender is credited to is taken from all others.
MappingsInverse ==
    \A s \in Senders :
        addressMappings[s] # NoAddress => reverseMappings[addressMappings[s]] = s

\* Whoever made a stake that is credited is bound to an account.
StakersAreBound ==
    \A i \in DOMAIN valid :
        /\ Sender(valid[i]) \in Senders
        /\ addressMappings[Sender(valid[i])] # NoAddress

\* The part of ExportedPairsRegister about one file.
PairsRegister(file) ==
    \A i, j \in DOMAIN file :
        file[i].clientAddress = file[j].clientAddress
        <=> file[i].imuachainAddress = file[j].imuachainAddress

FilesRegister ==
    /\ dataFile = [c \in UtxoChains |-> dataFile[c]]
    /\ \A c \in UtxoChains : Complete(dataFile[c]) => PairsRegister(dataFile[c])

ScanInv == ScanTypeOK /\ MappingsInverse /\ StakersAreBound /\ FilesRegister

LEMMA ScanInvImplies == ScanInv => ExportedPairsRegister
  BY DEF ScanInv, FilesRegister, PairsRegister, ExportedPairsRegister

------------------------------------------------------------------------------
(* The steps of a generator.                                               *)

\* A run begins with nothing; so does the first.
LEMMA FreshMappings ==
    /\ [s \in Senders |-> NoAddress] \in [Senders -> ImAddresses \cup {NoAddress}]
    /\ [a \in ImAddresses |-> NoSender] \in [ImAddresses -> Senders \cup {NoSender}]
  OBVIOUS

LEMMA InitHolds == ScanInit => ScanInv
<1> SUFFICES ASSUME ScanInit PROVE ScanInv
  OBVIOUS
<1>1. ScanTypeOK
  <2>1. \A S : <<>> \in Seq(S)
    OBVIOUS
  <2> QED
    BY <2>1, FreshMappings DEF ScanInit, ScanTypeOK, UtxoChains
<1>2. MappingsInverse
  BY DEF ScanInit, MappingsInverse
<1>3. StakersAreBound
  BY DEF ScanInit, StakersAreBound
<1>4. FilesRegister
  BY DEF ScanInit, FilesRegister, Complete
<1> QED
  BY <1>1, <1>2, <1>3, <1>4 DEF ScanInv

LEMMA StartHolds ==
    ASSUME ScanInv, NEW c \in UtxoChains, StartScan(c)
    PROVE  ScanInv'
<1>1. /\ fetched' = <<>> /\ todo' = <<>> /\ valid' = <<>>
      /\ chain' = c
      /\ addressMappings' = [s \in Senders |-> NoAddress]
      /\ reverseMappings' = [a \in ImAddresses |-> NoSender]
      /\ UNCHANGED <<ledger, dataFile>>
  BY DEF StartScan, NoMappings, worldVars, fileVars
<1>2. ScanTypeOK'
  <2>1. \A S : <<>> \in Seq(S)
    OBVIOUS
  <2> QED
    BY <1>1, <2>1, FreshMappings DEF ScanInv, ScanTypeOK
<1>3. MappingsInverse'
  BY <1>1 DEF MappingsInverse
<1>4. StakersAreBound'
  BY <1>1 DEF StakersAreBound
<1>5. FilesRegister'
  BY <1>1 DEF ScanInv, FilesRegister
<1> QED
  BY <1>2, <1>3, <1>4, <1>5 DEF ScanInv

\* What the steps below leave alone.
MappingsKept ==
    UNCHANGED <<ledger, chain, addressMappings, reverseMappings, valid>>

LEMMA MappingsKeptHolds ==
    ASSUME ScanInv, MappingsKept, fetched' \in Seq(Txs), todo' \in Seq(Txs)
    PROVE  ScanTypeOK' /\ MappingsInverse' /\ StakersAreBound'
  BY DEF ScanInv, MappingsKept, ScanTypeOK, MappingsInverse, StakersAreBound, Txs

LEMMA FetchHolds ==
    ASSUME ScanInv, FetchTransactions
    PROVE  ScanInv'
<1>1. PICK n \in 0..Len(ledger[chain]) :
          fetched' = Reverse(SubSeq(ledger[chain], 1, n))
  BY DEF FetchTransactions
<1>2. ledger[chain] \in Seq(Txs)
  BY LedgersAssumption DEF ScanInv, ScanTypeOK, Txs
<1>3. PICK public \in Seq(Txs) : public = SubSeq(ledger[chain], 1, n)
  <2>1. Len(ledger[chain]) \in Nat
    BY <1>2
  <2>2. 1 \in Int /\ n \in Int /\ \A i \in 1..n : ledger[chain][i] \in Txs
    BY <1>2, <2>1
  <2> QED
    BY <2>2, SubSeqProperties
<1>4. Reverse(public) \in Seq(Txs)
  <2>1. \A i \in 1..Len(public) : (Len(public) - i) + 1 \in 1..Len(public)
    OBVIOUS
  <2> QED
    BY <2>1 DEF Reverse
<1>5. MappingsKept /\ UNCHANGED <<todo, dataFile>>
  BY DEF FetchTransactions, MappingsKept, worldVars, fileVars
<1>6. ScanTypeOK' /\ MappingsInverse' /\ StakersAreBound'
  BY <1>1, <1>3, <1>4, <1>5, MappingsKeptHolds DEF ScanInv, ScanTypeOK
<1> QED
  BY <1>5, <1>6 DEF ScanInv, FilesRegister

LEMMA ReadHeightHolds ==
    ASSUME ScanInv, ReadHeight
    PROVE  ScanInv'
<1>1. todo' \in Reorderings(fetched)
  BY DEF ReadHeight, SortedTxs
<1>2. PICK p \in [DOMAIN fetched -> DOMAIN fetched] :
          todo' = [i \in DOMAIN fetched |-> fetched[p[i]]]
  BY <1>1 DEF Reorderings, Bijection, Injection
<1>3. todo' \in Seq(Txs)
  <2>1. DOMAIN fetched = 1..Len(fetched) /\ Len(fetched) \in Nat
    BY DEF ScanInv, ScanTypeOK
  <2>2. ASSUME NEW i \in 1..Len(fetched)
        PROVE  fetched[p[i]] \in Txs
    <3>1. p[i] \in 1..Len(fetched)
      BY <1>2, <2>1
    <3>2. \A j \in 1..Len(fetched) : fetched[j] \in Txs
      BY <2>1 DEF ScanInv, ScanTypeOK
    <3> QED
      BY <3>1, <3>2
  <2> QED
    BY <1>2, <2>1, <2>2
<1>4. MappingsKept /\ UNCHANGED <<fetched, dataFile>>
  BY DEF ReadHeight, MappingsKept, worldVars, fileVars
<1>5. ScanTypeOK' /\ MappingsInverse' /\ StakersAreBound'
  BY <1>3, <1>4, MappingsKeptHolds DEF ScanInv, ScanTypeOK
<1> QED
  BY <1>4, <1>5 DEF ScanInv, FilesRegister

\* A binding that the checks allow keeps the two maps inverse, unbinds nobody
\* and leaves the sender bound.
LEMMA BindHolds ==
    ASSUME ScanInv, NEW s \in Senders, NEW a \in ImAddresses,
           MayBind(s, a), Bind(s, a)
    PROVE  /\ addressMappings' \in [Senders -> ImAddresses \cup {NoAddress}]
           /\ reverseMappings' \in [ImAddresses -> Senders \cup {NoSender}]
           /\ MappingsInverse'
           /\ addressMappings'[s] # NoAddress
           /\ \A u \in Senders : addressMappings[u] # NoAddress
                  => addressMappings'[u] # NoAddress
<1> DEFINE A == addressMappings
           R == reverseMappings
<1>0. /\ A \in [Senders -> ImAddresses \cup {NoAddress}]
      /\ R \in [ImAddresses -> Senders \cup {NoSender}]
      /\ \A u \in Senders : A[u] # NoAddress => R[A[u]] = u
  BY DEF ScanInv, ScanTypeOK, MappingsInverse
<1>1. R[a] = NoSender \/ R[a] = s
  BY DEF MayBind
<1>2. /\ addressMappings' \in [Senders -> ImAddresses \cup {NoAddress}]
      /\ \A u \in Senders \ {s} : addressMappings'[u] = A[u]
      /\ addressMappings'[s] = IF A[s] = NoAddress THEN a ELSE A[s]
  BY <1>0 DEF Bind
<1>3. /\ reverseMappings' \in [ImAddresses -> Senders \cup {NoSender}]
      /\ \A b \in ImAddresses \ {a} : reverseMappings'[b] = R[b]
      /\ reverseMappings'[a] = s
  BY <1>0, <1>1 DEF Bind
<1>4. ASSUME NEW u \in Senders, addressMappings'[u] # NoAddress
      PROVE  reverseMappings'[addressMappings'[u]] = u
  <2>1. CASE u = s
    BY <1>0, <1>2, <1>3, <2>1
  <2>2. CASE u # s
    <3>1. addressMappings'[u] = A[u] /\ A[u] \in ImAddresses /\ R[A[u]] = u
      BY <1>0, <1>2, <1>4, <2>2
    <3>2. A[u] # a
      BY <1>1, <2>2, <3>1
    <3> QED
      BY <1>3, <3>1, <3>2
  <2> QED
    BY <2>1, <2>2
<1>5. MappingsInverse'
  BY <1>4 DEF MappingsInverse
<1> QED
  BY <1>0, <1>2, <1>3, <1>5

LEMMA ValidateHolds ==
    ASSUME ScanInv, NEW answered \in BOOLEAN, ValidateTx(answered)
    PROVE  ScanInv'
<1> DEFINE tx == Head(todo)
           s == Sender(tx)
           a == ReadTx(chain, tx).imuachainAddress
<1>1. tx \in Txs /\ Tail(todo) \in Seq(Txs)
  BY DEF ScanInv, ScanTypeOK, ValidateTx
<1>2. /\ todo' = Tail(todo)
      /\ UNCHANGED <<ledger, chain, fetched, dataFile>>
  BY DEF ValidateTx, worldVars, fileVars
<1>3. CASE UNCHANGED <<addressMappings, reverseMappings, valid>>
  <2>1. ScanTypeOK' /\ MappingsInverse' /\ StakersAreBound'
    BY <1>1, <1>2, <1>3, MappingsKeptHolds DEF MappingsKept, ScanInv, ScanTypeOK
  <2> QED
    BY <1>2, <2>1 DEF ScanInv, FilesRegister
<1>4. CASE ~ UNCHANGED <<addressMappings, reverseMappings, valid>>
  <2>1. /\ ReadTx(chain, tx) # Null
        /\ MayBind(s, a) /\ Bind(s, a)
        /\ valid' = IF DeepEnough(tx) THEN Append(valid, tx) ELSE valid
    BY <1>4 DEF ValidateTx
  <2>2. s \in Senders /\ a \in ImAddresses
    BY <1>1, <2>1, LedgersAssumption DEF ScanInv, ScanTypeOK, Txs
  <2>3. /\ addressMappings' \in [Senders -> ImAddresses \cup {NoAddress}]
        /\ reverseMappings' \in [ImAddresses -> Senders \cup {NoSender}]
        /\ MappingsInverse'
        /\ addressMappings'[s] # NoAddress
        /\ \A u \in Senders : addressMappings[u] # NoAddress
               => addressMappings'[u] # NoAddress
    BY <2>1, <2>2, BindHolds
  <2>4. valid' \in Seq(Txs)
    BY <1>1, <2>1 DEF ScanInv, ScanTypeOK
  <2>5. ScanTypeOK'
    BY <1>1, <1>2, <2>3, <2>4 DEF ScanInv, ScanTypeOK, Txs
  <2>6. StakersAreBound'
    <3>1. ASSUME NEW i \in DOMAIN valid'
          PROVE  /\ Sender(valid'[i]) \in Senders
                 /\ addressMappings'[Sender(valid'[i])] # NoAddress
      <4>1. valid'[i] = tx \/ (i \in DOMAIN valid /\ valid'[i] = valid[i])
        BY <2>1, <3>1 DEF ScanInv, ScanTypeOK
      <4>2. CASE valid'[i] = tx
        BY <2>2, <2>3, <4>2
      <4>3. CASE i \in DOMAIN valid /\ valid'[i] = valid[i]
        BY <2>3, <4>3 DEF ScanInv, StakersAreBound
      <4> QED
        BY <4>1, <4>2, <4>3
    <3> QED
      BY <3>1 DEF StakersAreBound
  <2> QED
    BY <1>2, <2>3, <2>5, <2>6 DEF ScanInv, FilesRegister
<1> QED
  BY <1>3, <1>4

\* A file of entries is open, and closed: accounts are given one to one.
LEMMA EntriesRegister ==
    ASSUME ScanInv
    PROVE  PairsRegister(BootstrapData(Stakes(chain)))
<1> DEFINE data == BootstrapData(Stakes(chain))
<1>1. /\ DOMAIN data = DOMAIN valid
      /\ \A i \in DOMAIN valid :
             /\ data[i].clientAddress = Sender(valid[i])
             /\ data[i].imuachainAddress = addressMappings[Sender(valid[i])]
  BY DEF BootstrapData, Stakes, ToStake
<1>2. ASSUME NEW i \in DOMAIN valid, NEW j \in DOMAIN valid,
             addressMappings[Sender(valid[i])] = addressMappings[Sender(valid[j])]
      PROVE  Sender(valid[i]) = Sender(valid[j])
  BY <1>2 DEF ScanInv, StakersAreBound, MappingsInverse
<1> QED
  BY <1>1, <1>2 DEF PairsRegister

LEMMA WriteHolds ==
    ASSUME ScanInv, OpenDataFile \/ ExportBootstrapData \/ WriteGenesis
    PROVE  ScanInv'
<1>1. MappingsKept /\ UNCHANGED <<fetched, todo>>
  BY DEF OpenDataFile, ExportBootstrapData, WriteGenesis, MappingsKept, worldVars
<1>2. ScanTypeOK' /\ MappingsInverse' /\ StakersAreBound'
  BY <1>1, MappingsKeptHolds DEF ScanInv, ScanTypeOK
<1>3. FilesRegister'
  <2>1. CASE OpenDataFile
    <3>1. dataFile' = [dataFile EXCEPT ![chain] = Partial]
      BY <2>1 DEF OpenDataFile
    <3> QED
      BY <3>1 DEF ScanInv, FilesRegister, Complete
  <2>2. CASE ExportBootstrapData
    <3>1. PICK data : data = BootstrapData(Stakes(chain))
      OBVIOUS
    <3>2. dataFile' = [dataFile EXCEPT ![chain] = data]
      BY <2>2, <3>1 DEF ExportBootstrapData
    <3>3. PairsRegister(data)
      BY <3>1, EntriesRegister
    <3> QED
      BY <3>2, <3>3 DEF ScanInv, FilesRegister
  <2>3. CASE WriteGenesis
    <3>1. UNCHANGED dataFile
      BY <2>3 DEF WriteGenesis
    <3> QED
      BY <3>1 DEF ScanInv, FilesRegister
  <2> QED
    BY <2>1, <2>2, <2>3
<1> QED
  BY <1>2, <1>3 DEF ScanInv

------------------------------------------------------------------------------
(* Everybody else.                                                         *)

\* What ScanInv is about.
ScanParts == <<ledger, chain, fetched, todo, valid, addressMappings,
               reverseMappings, dataFile>>

LEMMA OthersHold ==
    ASSUME ScanInv, UNCHANGED ScanParts
    PROVE  ScanInv'
<1>1. MappingsKept /\ UNCHANGED <<fetched, todo, dataFile>>
  BY DEF ScanParts, MappingsKept
<1>2. ScanTypeOK' /\ MappingsInverse' /\ StakersAreBound'
  BY <1>1, MappingsKeptHolds DEF ScanInv, ScanTypeOK
<1> QED
  BY <1>1, <1>2 DEF ScanInv, FilesRegister

LEMMA ScanStepHolds ==
    ASSUME ScanInv, ScanStep
    PROVE  ScanInv'
<1>1. CASE RequestFails
  BY <1>1, OthersHold DEF RequestFails, worldVars, fileVars, ScanParts
<1> QED
  BY <1>1, FetchHolds, ReadHeightHolds, ValidateHolds, WriteHolds DEF ScanStep

LEMMA RunnerParts ==
    ASSUME RunnerStep, ~ Spawn
    PROVE  UNCHANGED ScanParts
<1> USE DEF stakeScanVars, scanVars, worldVars, fileVars, ScanParts
<1>1. CASE LoadExisting
  BY <1>1 DEF LoadExisting, Load
<1>2. CASE UnreadableFile
  BY <1>2 DEF UnreadableFile, FailAttempt
<1>3. CASE ImportEvm
  BY <1>3 DEF ImportEvm
<1>4. CASE ChildExits
  BY <1>4 DEF ChildExits
<1>5. CASE ChildKilled
  BY <1>5 DEF ChildKilled, FailAttempt
<1>6. CASE PollFindsFile
  BY <1>6 DEF PollFindsFile, Load
<1>7. CASE PollTimesOut
  BY <1>7 DEF PollTimesOut, FailAttempt
<1>8. CASE MergeStates
  BY <1>8 DEF MergeStates
<1>9. CASE WriteOutput
  BY <1>9 DEF WriteOutput
<1> QED
  BY <1>1, <1>2, <1>3, <1>4, <1>5, <1>6, <1>7, <1>8, <1>9 DEF RunnerStep

LEMMA StepHolds ==
    ASSUME ScanInv, UnifiedNext
    PROVE  ScanInv'
<1>1. CASE Start \/ MergeExistingFiles
  BY <1>1, OthersHold DEF Start, MergeExistingFiles, stakeScanVars, scanVars,
                          worldVars, fileVars, ScanParts
<1>2. CASE Spawn
  <2>1. PICK c \in UtxoChains : StartScan(c)
    BY <1>2 DEF Spawn
  <2> QED
    BY <2>1, StartHolds
<1>3. CASE RunnerStep /\ ~ Spawn
  BY <1>3, RunnerParts, OthersHold
<1>4. CASE ScanStepOfChild
  BY <1>4, ScanStepHolds DEF ScanStepOfChild
<1>5. CASE EvmStep
  BY <1>5, OthersHold DEF EvmStep, EvmFails, EvmOpensFile, EvmWritesFile,
                          stakeScanVars, scanVars, worldVars, fileVars, ScanParts
<1>6. CASE KillChild
  BY <1>6, OthersHold DEF KillChild, Kill, worldVars, fileVars, ScanParts
<1>7. CASE Crash
  BY <1>7, OthersHold DEF Crash, worldVars, fileVars, ScanParts
<1>8. CASE ChainGrows
  BY <1>8, OthersHold DEF ChainGrows, Grow, scanVars, fileVars, ScanParts
<1> QED
  BY <1>1, <1>2, <1>3, <1>4, <1>5, <1>6, <1>7, <1>8 DEF UnifiedNext

\* The bindings are inverse and who is credited is bound, in every state of the
\* script: what makes ExportedPairsRegister inductive.
THEOREM BindingsCorrect == UnifiedSafety => []ScanInv
<1>1. UnifiedInit => ScanInv
  BY InitHolds DEF UnifiedInit
<1>2. ScanInv /\ [UnifiedNext]_vars => ScanInv'
  BY StepHolds, OthersHold
     DEF vars, stakeScanVars, scanVars, worldVars, fileVars, ScanParts
<1> QED
  BY <1>1, <1>2, PTL DEF UnifiedSafety

\* generateGenesisStakes of both generators: every file of entries that was
\* written can be registered pair by pair in UTXOGateway, whatever the senders
\* wrote into their transactions and whichever lookups failed.
THEOREM ExportsRegister == UnifiedSafety => []ExportedPairsRegister
  BY BindingsCorrect, ScanInvImplies, PTL

------------------------------------------------------------------------------
(* Entries and genesis of a chain are of the same scan.                    *)

\* The deposits of chain c are of the accounts in its entries.
EntriesMatch(c, deposits) ==
    /\ Complete(dataFile[c])
    /\ {d.staker : d \in {e \in deposits : e.asset = AssetId(c)}}
           = {StakerId(e.imuachainAddress, c) : e \in ToSet(dataFile[c])}

\* What a genesis state must be, be it of a chain or merged: its deposits of a
\* chain match the entries, whose files are not written again.
Sound(state) ==
    \A c \in UtxoChains :
        IF c \in state.assets.clientChains
        THEN /\ Complete(genesisFile[c])
             /\ EntriesMatch(c, state.assets.deposits)
        ELSE \A d \in state.assets.deposits : d.asset # AssetId(c)

\* The recursion of Merge, on the first k states.
MergedEq(f, states, k) ==
    f = [n \in 1..k |-> IF n = 1 THEN states[1]
                        ELSE MergeTwo(f[n - 1], states[n])]

LEMMA MergeUnfold ==
    ASSUME NEW states
    PROVE  Merge(states) =
               (CHOOSE f : MergedEq(f, states, Len(states)))[Len(states)]
  BY DEF Merge, MergedEq

LEMMA MergeSolution ==
    ASSUME NEW states, Len(states) \in Nat
    PROVE  \E f : MergedEq(f, states, Len(states)) /\ Merge(states) = f[Len(states)]
<1> DEFINE G == {k \in 0..Len(states) : \E f : MergedEq(f, states, k)}
<1>1. 0 \in G
  <2>1. MergedEq([n \in 1..0 |-> IF n = 1 THEN states[1]
                                 ELSE MergeTwo(0, states[n])], states, 0)
    BY DEF MergedEq
  <2> QED
    BY <2>1
<1>2. ASSUME NEW k \in 0..Len(states), k # 0, k - 1 \in G
      PROVE  k \in G
  <2>1. PICK f : MergedEq(f, states, k - 1)
    BY <1>2
  <2> DEFINE h == [n \in 1..k |-> IF n = 1 THEN states[1]
                                  ELSE MergeTwo(f[n - 1], states[n])]
  <2>2. ASSUME NEW n \in 1..k, n # 1
        PROVE  h[n - 1] = f[n - 1]
    <3>1. n - 1 \in 1..(k - 1) /\ n - 1 \in 1..k
      BY <2>2
    <3> QED
      BY <2>1, <3>1 DEF MergedEq
  <2>3. h = [n \in 1..k |-> IF n = 1 THEN states[1]
                            ELSE MergeTwo(h[n - 1], states[n])]
    <3> HIDE DEF h
    <3>1. h = [n \in 1..k |-> IF n = 1 THEN states[1]
                              ELSE MergeTwo(f[n - 1], states[n])]
      BY DEF h
    <3> QED
      BY <2>2, <3>1
  <2>4. MergedEq(h, states, k)
    BY <2>3 DEF MergedEq
  <2> QED
    BY <1>2, <2>4
<1>3. Len(states) \in G
  <2> HIDE DEF G
  <2> QED
    BY <1>1, <1>2, RangeInduction
<1> QED
  BY <1>3, MergeUnfold

\* Merging two states that match the entries gives one that does.
LEMMA MergeTwoSound ==
    ASSUME NEW base, NEW additional, Sound(base), Sound(additional)
    PROVE  Sound(MergeTwo(base, additional))
<1> DEFINE merged == MergeTwo(base, additional)
           Of(deposits, c) == {e \in deposits : e.asset = AssetId(c)}
<1>1. /\ merged.assets.clientChains =
             base.assets.clientChains \cup additional.assets.clientChains
      /\ merged.assets.deposits =
             base.assets.deposits \cup additional.assets.deposits
  BY DEF MergeTwo, MergeAssetsModule
<1> HIDE DEF merged
<1>2. ASSUME NEW c \in UtxoChains, c \in merged.assets.clientChains
      PROVE  /\ Complete(genesisFile[c])
             /\ EntriesMatch(c, merged.assets.deposits)
  <2>1. Of(merged.assets.deposits, c) =
            Of(base.assets.deposits, c) \cup Of(additional.assets.deposits, c)
    BY <1>1
  <2>2. CASE c \in base.assets.clientChains /\ c \in additional.assets.clientChains
    BY <2>1, <2>2 DEF Sound, EntriesMatch
  <2>3. CASE c \notin base.assets.clientChains
    <3>1. Of(base.assets.deposits, c) = {}
      BY <2>3 DEF Sound
    <3> QED
      BY <1>1, <1>2, <2>1, <2>3, <3>1 DEF Sound, EntriesMatch
  <2>4. CASE c \notin additional.assets.clientChains
    <3>1. Of(additional.assets.deposits, c) = {}
      BY <2>4 DEF Sound
    <3> QED
      BY <1>1, <1>2, <2>1, <2>4, <3>1 DEF Sound, EntriesMatch
  <2> QED
    BY <1>1, <1>2, <2>2, <2>3, <2>4
<1>3. ASSUME NEW c \in UtxoChains, c \notin merged.assets.clientChains,
             NEW d \in merged.assets.deposits
      PROVE  d.asset # AssetId(c)
  BY <1>1, <1>3 DEF Sound
<1>4. Sound(merged)
  BY <1>2, <1>3 DEF Sound
<1> QED
  BY <1>4 DEF merged

LEMMA MergeSound ==
    ASSUME NEW states, Len(states) \in Nat \ {0},
           \A i \in 1..Len(states) : Sound(states[i])
    PROVE  Sound(Merge(states))
<1>1. PICK f : MergedEq(f, states, Len(states)) /\ Merge(states) = f[Len(states)]
  BY MergeSolution
<1> DEFINE G == {k \in 0..Len(states) : k # 0 => Sound(f[k])}
<1>2. 0 \in G
  OBVIOUS
<1>3. ASSUME NEW k \in 0..Len(states), k # 0, k - 1 \in G
      PROVE  k \in G
  <2>1. f[k] = IF k = 1 THEN states[1] ELSE MergeTwo(f[k - 1], states[k])
    BY <1>1, <1>3 DEF MergedEq
  <2>2. CASE k = 1
    BY <1>3, <2>1, <2>2
  <2>3. CASE k # 1
    <3>1. Sound(f[k - 1]) /\ Sound(states[k])
      BY <1>3, <2>3
    <3>2. Sound(f[k])
      BY <2>1, <2>3, <3>1, MergeTwoSound
    <3> QED
      BY <1>3, <3>2
  <2> QED
    BY <2>2, <2>3
<1>4. Len(states) \in G
  <2> HIDE DEF G
  <2> QED
    BY <1>2, <1>3, RangeInduction
<1> QED
  BY <1>1, <1>4

\* A chain's genesis is opened by its own scan and after its entries are
\* written, and a file that is complete is not generated again.
FilesInv ==
    /\ genesisFile = [c \in Chains |-> genesisFile[c]]
    /\ pc \in {"fetch", "height", "validate", "export"} =>
           ~ Complete(genesisFile[chain])
    /\ pc = "genesis" => /\ ~ Complete(genesisFile[chain])
                         /\ dataFile[chain] = BootstrapData(Stakes(chain))
    /\ \A c \in Chains : Complete(genesisFile[c]) => Sound(genesisFile[c])

\* The queue never holds what is not a chain, and is not empty while one of its
\* chains is worked on.
QueueInv ==
    /\ queue \in Seq(Chains)
    /\ runner \in {"attempt", "child", "poll"} => queue # <<>>

\* Only sound states are loaded and merged.
LoadedInv ==
    /\ QueueInv
    /\ runner = "write" => genesisStates # <<>>
    /\ \E S : genesisStates \in Seq(S)
    /\ \A i \in DOMAIN genesisStates : Sound(genesisStates[i])
    /\ Complete(output) => Sound(output)

ExportInv == ScanInv /\ FilesInv /\ LoadedInv

LEMMA ExportInvImplies == ExportInv => ExportMatchesGenesis
<1> SUFFICES ASSUME ExportInv, Complete(output), NEW c \in UtxoChains, c \in Merged
             PROVE  EntriesMatch(c, output.assets.deposits)
  BY DEF ExportMatchesGenesis, EntriesMatch
<1> QED
  BY DEF ExportInv, LoadedInv, Sound, Merged

\* Both files of a chain stay when its genesis is complete.
Frozen ==
    \A c \in UtxoChains : Complete(genesisFile[c]) =>
        genesisFile'[c] = genesisFile[c] /\ dataFile'[c] = dataFile[c]

LEMMA FrozenSound ==
    ASSUME Frozen, NEW state, Sound(state)
    PROVE  Sound(state)'
<1>1. ASSUME NEW c \in UtxoChains, c \in state.assets.clientChains
      PROVE  /\ Complete(genesisFile[c])'
             /\ EntriesMatch(c, state.assets.deposits)'
  <2>1. Complete(genesisFile[c]) /\ EntriesMatch(c, state.assets.deposits)
    BY <1>1 DEF Sound
  <2>2. genesisFile'[c] = genesisFile[c] /\ dataFile'[c] = dataFile[c]
    BY <2>1 DEF Frozen
  <2>3. Complete(genesisFile[c])' /\ Complete(dataFile[c])'
    BY <2>1, <2>2 DEF Complete, EntriesMatch
  <2> QED
    BY <2>1, <2>2, <2>3 DEF EntriesMatch
<1>2. ASSUME NEW c \in UtxoChains, c \notin state.assets.clientChains,
             NEW d \in state.assets.deposits
      PROVE  d.asset # AssetId(c)
  BY <1>2 DEF Sound
<1> QED
  BY <1>1, <1>2 DEF Sound

\* The genesis of a scan has the deposits of its entries.
LEMMA ScanSound ==
    ASSUME ScanInv, dataFile[chain] = BootstrapData(Stakes(chain))
    PROVE  EntriesMatch(chain, GenesisState(chain, Stakes(chain)).assets.deposits)
<1> DEFINE stakes == Stakes(chain)
           data == BootstrapData(stakes)
           deposits == GenesisState(chain, stakes).assets.deposits
<1>0. chain \in UtxoChains /\ ledger \in Ledgers /\ valid \in Seq(Txs)
  BY DEF ScanInv, ScanTypeOK
<1>1. /\ DOMAIN stakes = DOMAIN valid /\ DOMAIN data = DOMAIN valid
      /\ \A i \in DOMAIN valid :
             /\ stakes[i].imuachainAddress = addressMappings[Sender(valid[i])]
             /\ data[i] = [clientTxId |-> valid[i].txid,
                           clientAddress |-> Sender(valid[i]),
                           imuachainAddress |-> addressMappings[Sender(valid[i])]]
  BY DEF BootstrapData, Stakes, ToStake
<1>2. data \in Seq(Entries)
  <2>1. ASSUME NEW i \in DOMAIN valid  PROVE data[i] \in Entries
    <3>1. valid[i] \in ToSet(ledger[chain])
      BY <1>0 DEF Txs
    <3>2. valid[i].txid \in TxIds
      <4>1. ToSet(ledger[chain]) \in {ToSet(l[c]) : l \in Ledgers, c \in UtxoChains}
        BY <1>0
      <4>2. valid[i] \in UNION {ToSet(l[c]) : l \in Ledgers, c \in UtxoChains}
        BY <3>1, <4>1
      <4> QED
        BY <4>2 DEF TxIds
    <3>3. /\ Sender(valid[i]) \in Senders
          /\ addressMappings[Sender(valid[i])] \in ImAddresses \cup {NoAddress}
      BY DEF ScanInv, StakersAreBound, ScanTypeOK
    <3> QED
      BY <1>1, <3>2, <3>3 DEF Entries
  <2>2. DOMAIN valid = 1..Len(valid) /\ Len(valid) \in Nat
    BY <1>0
  <2>3. data = [i \in 1..Len(valid) |-> data[i]]
    BY <1>1, <2>2 DEF BootstrapData
  <2> HIDE DEF data
  <2> QED
    BY <2>1, <2>2, <2>3
<1>3. Complete(dataFile[chain])
  BY <1>2, MarkersAssumption DEF Complete
<1>4. deposits = {[staker |-> StakerId(a, chain), asset |-> AssetId(chain),
                   total |-> StakedBy(stakes, a)] : a \in StakersOf(stakes)}
  BY <1>0 DEF GenesisState, BitcoinGenesisState, XrpGenesisState, Assets, UtxoChains
<1> HIDE DEF stakes, data, deposits
<1>5. /\ \A e \in ToSet(data) : e.imuachainAddress \in StakersOf(stakes)
      /\ \A a \in StakersOf(stakes) :
             \E e \in ToSet(data) : e.imuachainAddress = a
  <2>1. StakersOf(stakes) = {stakes[i].imuachainAddress : i \in DOMAIN stakes}
    BY DEF StakersOf, Fields
  <2>2. ToSet(data) = {data[i] : i \in DOMAIN data}
    BY DEF ToSet
  <2>3. \A i \in DOMAIN valid :
            data[i].imuachainAddress = stakes[i].imuachainAddress
    BY <1>1
  <2>4. DOMAIN stakes = DOMAIN valid /\ DOMAIN data = DOMAIN valid
    BY <1>1
  <2> QED
    BY <2>1, <2>2, <2>3, <2>4
<1>6. {d.staker : d \in {e \in deposits : e.asset = AssetId(chain)}} =
          {StakerId(a, chain) : a \in StakersOf(stakes)}
  <2>1. ASSUME NEW d \in deposits
        PROVE  /\ d.asset = AssetId(chain)
               /\ d.staker \in {StakerId(a, chain) : a \in StakersOf(stakes)}
    BY <1>4
  <2>2. ASSUME NEW a \in StakersOf(stakes)
        PROVE  \E d \in deposits :
                   d.staker = StakerId(a, chain) /\ d.asset = AssetId(chain)
    <3> DEFINE d == [staker |-> StakerId(a, chain), asset |-> AssetId(chain),
                     total |-> StakedBy(stakes, a)]
    <3>1. d \in deposits
      BY <1>4
    <3>2. d.staker = StakerId(a, chain) /\ d.asset = AssetId(chain)
      OBVIOUS
    <3> QED
      BY <3>1, <3>2
  <2> QED
    BY <2>1, <2>2
<1>7. dataFile[chain] = data
  BY DEF data, stakes
<1>8. EntriesMatch(chain, deposits)
  <2>1. {d.staker : d \in {e \in deposits : e.asset = AssetId(chain)}} =
            {StakerId(e.imuachainAddress, chain) : e \in ToSet(data)}
    <3>1. ASSUME NEW a \in StakersOf(stakes)
          PROVE  StakerId(a, chain) \in
                     {StakerId(e.imuachainAddress, chain) : e \in ToSet(data)}
      <4>1. PICK e \in ToSet(data) : e.imuachainAddress = a
        BY <1>5
      <4> QED
        BY <4>1
    <3>2. \A e \in ToSet(data) : StakerId(e.imuachainAddress, chain) \in
              {StakerId(a, chain) : a \in StakersOf(stakes)}
      BY <1>5
    <3>3. {StakerId(a, chain) : a \in StakersOf(stakes)} =
              {StakerId(e.imuachainAddress, chain) : e \in ToSet(data)}
      BY <3>1, <3>2
    <3> QED
      BY <1>6, <3>3
  <2> QED
    BY <1>3, <1>7, <2>1 DEF EntriesMatch
<1> QED
  BY <1>8 DEF deposits, stakes

\* What a generator states is of its chain alone.
LEMMA StatesOfOneChain ==
    /\ \A c \in UtxoChains : \A stakes :
           /\ GenesisState(c, stakes).assets.clientChains = {c}
           /\ \A d \in GenesisState(c, stakes).assets.deposits :
                  d.asset = AssetId(c)
    /\ \A contract, operators :
           /\ EvmGenesisState(contract, operators).assets.clientChains = {"EVM"}
           /\ \A d \in EvmGenesisState(contract, operators).assets.deposits :
                  d.asset.chain = "EVM"
<1>1. ASSUME NEW c \in UtxoChains, NEW stakes
      PROVE  /\ GenesisState(c, stakes).assets.clientChains = {c}
             /\ \A d \in GenesisState(c, stakes).assets.deposits :
                    d.asset = AssetId(c)
  BY DEF GenesisState, BitcoinGenesisState, XrpGenesisState, Assets, UtxoChains
<1>2. ASSUME NEW contract, NEW operators
      PROVE  /\ EvmGenesisState(contract, operators).assets.clientChains = {"EVM"}
             /\ \A d \in EvmGenesisState(contract, operators).assets.deposits :
                    d.asset.chain = "EVM"
  <2>1. EvmGenesisState(contract, operators).assets = EvmAssets(contract, operators)
    BY DEF EvmGenesisState
  <2>2. EvmAssets(contract, operators).clientChains = {"EVM"}
    BY DEF EvmAssets
  <2>3. EvmAssets(contract, operators).deposits =
            {[staker |-> StakerId(d.staker, "EVM"),
              asset |-> EvmAsset(TokenAt(contract, d.token)),
              total |-> d.amount] : d \in contract.deposits}
    BY DEF EvmAssets
  <2>4. \A t : EvmAsset(t).chain = "EVM"
    BY DEF EvmAsset
  <2>5. ASSUME NEW d \in EvmAssets(contract, operators).deposits
        PROVE  d.asset.chain = "EVM"
    <3>1. PICK e \in contract.deposits :
              d = [staker |-> StakerId(e.staker, "EVM"),
                   asset |-> EvmAsset(TokenAt(contract, e.token)),
                   total |-> e.amount]
      BY <2>3
    <3>2. d.asset = EvmAsset(TokenAt(contract, e.token))
      BY <3>1
    <3> QED
      BY <2>4, <3>2
  <2> QED
    BY <2>1, <2>2, <2>5
<1> QED
  BY <1>1, <1>2

------------------------------------------------------------------------------
(* The steps, as they touch the files.                                     *)

\* Where no file is written, the generator may only move on or stop.
NoFileWritten ==
    /\ UNCHANGED <<dataFile, genesisFile>>
    /\ \/ pc' \in {"off", "exited", "killed", "hung"}
       \/ UNCHANGED pc /\ (pc = "genesis" => UNCHANGED <<valid, addressMappings>>)
          /\ UNCHANGED chain
       \/ /\ pc \in {"fetch", "height", "validate"}
          /\ pc' \in {"height", "validate"} /\ UNCHANGED chain
       \/ pc' = "fetch" /\ genesisFile[chain'] = NoFile

LEMMA NothingWritten ==
    ASSUME FilesInv, NoFileWritten
    PROVE  FilesInv' /\ Frozen
<1>1. Frozen
  BY DEF Frozen, NoFileWritten
<1>2. genesisFile' = [c \in Chains |-> genesisFile'[c]]
  BY DEF FilesInv, NoFileWritten
<1>3. \A c \in Chains : Complete(genesisFile'[c]) => Sound(genesisFile[c])'
  <2>1. ASSUME NEW c \in Chains, Complete(genesisFile'[c])
        PROVE  Sound(genesisFile[c])'
    <3>1. PICK state : state = genesisFile[c]
      OBVIOUS
    <3>2. genesisFile'[c] = state
      BY <3>1 DEF NoFileWritten
    <3>3. Sound(state)
      BY <2>1, <3>1, <3>2 DEF FilesInv
    <3>4. Sound(state)'
      BY <1>1, <3>3, FrozenSound
    <3> QED
      BY <3>2, <3>4 DEF Sound
  <2> QED
    BY <2>1
<1>4. pc' \in {"fetch", "height", "validate", "export"} =>
          ~ Complete(genesisFile'[chain'])
  BY DEF FilesInv, NoFileWritten, Complete
<1>5. pc' = "genesis" =>
          /\ ~ Complete(genesisFile'[chain'])
          /\ dataFile'[chain'] = BootstrapData(Stakes(chain))'
  BY DEF FilesInv, NoFileWritten, BootstrapData, Stakes, ToStake
<1>6. \A c \in Chains : Complete(genesisFile[c])' => Sound(genesisFile[c])'
  BY <1>3 DEF Complete
<1> QED
  BY <1>1, <1>2, <1>4, <1>5, <1>6 DEF FilesInv, Complete

\* A step that writes files of one chain, whose genesis is not complete if it
\* has entries, and leaves it sound if it completes it.
Writes(c) ==
    /\ c \in UtxoChains => ~ Complete(genesisFile[c])
    /\ genesisFile' = [genesisFile EXCEPT ![c] = genesisFile'[c]]
    /\ c \in UtxoChains => dataFile' = [dataFile EXCEPT ![c] = dataFile'[c]]
    /\ c \notin UtxoChains => UNCHANGED dataFile
    /\ Complete(genesisFile'[c]) => Sound(genesisFile[c])'

LEMMA WritesSound ==
    ASSUME ScanInv, FilesInv, NEW c \in Chains, Writes(c)
    PROVE  /\ Frozen
           /\ genesisFile' = [d \in Chains |-> genesisFile'[d]]
           /\ \A d \in Chains : Complete(genesisFile[d])' => Sound(genesisFile[d])'
<1>1. /\ genesisFile' = [d \in Chains |-> genesisFile'[d]]
      /\ \A d \in Chains \ {c} : genesisFile'[d] = genesisFile[d]
  BY DEF FilesInv, Writes
<1>2. \A d \in UtxoChains \ {c} : dataFile'[d] = dataFile[d]
  BY DEF ScanInv, FilesRegister, Writes
<1>3. Frozen
  BY <1>1, <1>2 DEF Frozen, Writes, Chains, UtxoChains
<1>4. ASSUME NEW d \in Chains, Complete(genesisFile'[d])
      PROVE  Sound(genesisFile[d])'
  <2>1. CASE d = c
    BY <1>4, <2>1 DEF Writes
  <2>2. CASE d # c
    <3>1. PICK state : state = genesisFile[d]
      OBVIOUS
    <3>2. genesisFile'[d] = state
      BY <1>1, <2>2, <3>1
    <3>3. Sound(state)
      BY <1>4, <3>1, <3>2 DEF FilesInv
    <3>4. Sound(state)'
      BY <1>3, <3>3, FrozenSound
    <3> QED
      BY <3>2, <3>4 DEF Sound
  <2> QED
    BY <2>1, <2>2
<1> QED
  BY <1>1, <1>3, <1>4 DEF Complete

LEMMA ScanWrites ==
    ASSUME ScanInv, FilesInv, OpenDataFile \/ ExportBootstrapData \/ WriteGenesis
    PROVE  FilesInv' /\ Frozen
<1>0. /\ chain \in UtxoChains /\ chain \in Chains
      /\ UNCHANGED <<chain, valid, addressMappings>>
      /\ genesisFile = [c \in Chains |-> genesisFile[c]]
      /\ dataFile = [c \in UtxoChains |-> dataFile[c]]
      /\ Stakes(chain)' = Stakes(chain)
  BY DEF OpenDataFile, ExportBootstrapData, WriteGenesis, ScanInv, ScanTypeOK,
         FilesInv, FilesRegister, Chains, Stakes, ToStake, worldVars
<1>1. CASE OpenDataFile
  <2>1. /\ pc' = "export" /\ UNCHANGED genesisFile
        /\ dataFile' = [dataFile EXCEPT ![chain] = Partial]
        /\ ~ Complete(genesisFile[chain])
    BY <1>1 DEF OpenDataFile, FilesInv
  <2>2. Writes(chain)
    BY <1>0, <2>1 DEF Writes, Complete
  <2> QED
    BY <1>0, <2>1, <2>2, WritesSound DEF FilesInv, Complete
<1>2. CASE ExportBootstrapData
  <2>1. /\ pc' = "genesis"
        /\ genesisFile' = [genesisFile EXCEPT ![chain] = Partial]
        /\ dataFile' = [dataFile EXCEPT ![chain] = BootstrapData(Stakes(chain))]
        /\ ~ Complete(genesisFile[chain])
    BY <1>2 DEF ExportBootstrapData, FilesInv
  <2>2. /\ ~ Complete(genesisFile'[chain])
        /\ dataFile'[chain] = BootstrapData(Stakes(chain))
    BY <1>0, <2>1 DEF Complete
  <2>3. Writes(chain)
    BY <1>0, <2>1, <2>2 DEF Writes
  <2>4. BootstrapData(Stakes(chain))' = BootstrapData(Stakes(chain))
    BY <1>0 DEF BootstrapData
  <2>5. ~ Complete(genesisFile[chain])'
    BY <1>0, <2>1 DEF Complete
  <2> QED
    BY <1>0, <2>1, <2>2, <2>3, <2>4, <2>5, WritesSound DEF FilesInv
<1>3. CASE WriteGenesis
  <2>1. PICK state : state = GenesisState(chain, Stakes(chain))
    OBVIOUS
  <2>2. /\ pc' = "exited" /\ UNCHANGED dataFile
        /\ genesisFile' = [genesisFile EXCEPT ![chain] = state]
        /\ ~ Complete(genesisFile[chain])
        /\ dataFile[chain] = BootstrapData(Stakes(chain))
    BY <1>3, <2>1 DEF WriteGenesis, FilesInv
  <2>3. genesisFile'[chain] = state
    BY <1>0, <2>2
  <2>4. /\ state.assets.clientChains = {chain}
        /\ \A d \in state.assets.deposits : d.asset = AssetId(chain)
        /\ EntriesMatch(chain, state.assets.deposits)
    BY <1>0, <2>1, <2>2, StatesOfOneChain, ScanSound
  <2>5. \A c \in UtxoChains : c # chain => AssetId(c) # AssetId(chain)
    BY DEF AssetId
  <2>6. EntriesMatch(chain, state.assets.deposits)'
    <3>1. chain' = chain /\ dataFile' = dataFile
      BY <1>0, <2>2
    <3> QED
      BY <2>4, <3>1 DEF EntriesMatch, Complete
  <2>7. ASSUME Complete(genesisFile'[chain])
        PROVE  Sound(genesisFile[chain])'
    <3>1. \A c \in UtxoChains : c \in state.assets.clientChains =>
              c = chain /\ Complete(genesisFile[c])' /\ EntriesMatch(c, state.assets.deposits)'
      BY <1>0, <2>4, <2>6, <2>7 DEF Complete
    <3>2. Sound(state)'
      BY <2>4, <2>5, <3>1 DEF Sound
    <3> QED
      BY <1>0, <2>3, <3>2 DEF Sound
  <2>8. Writes(chain)
    BY <1>0, <2>2, <2>3, <2>7 DEF Writes
  <2> QED
    BY <1>0, <2>2, <2>8, WritesSound DEF FilesInv
<1> QED
  BY <1>1, <1>2, <1>3

LEMMA EvmWrites ==
    ASSUME ScanInv, FilesInv, EvmOpensFile \/ EvmWritesFile
    PROVE  FilesInv' /\ Frozen
<1>0. /\ UNCHANGED <<scanVars, worldVars, dataFile>> /\ chain # "EVM"
      /\ UNCHANGED <<chain, valid, addressMappings, pc>>
      /\ Stakes(chain)' = Stakes(chain)
      /\ genesisFile = [c \in Chains |-> genesisFile[c]]
      /\ "EVM" \in Chains /\ "EVM" \notin UtxoChains
  BY DEF EvmOpensFile, EvmWritesFile, scanVars, ScanInv, ScanTypeOK, FilesInv,
         Chains, UtxoChains, Stakes, ToStake, worldVars
<1>1. PICK file :
          /\ genesisFile' = [genesisFile EXCEPT !["EVM"] = file]
          /\ Complete(file) => file = EvmGenesisState(boot, registered)
  BY DEF EvmOpensFile, EvmWritesFile, Complete
<1>2. genesisFile'["EVM"] = file /\ genesisFile'[chain] = genesisFile[chain]
  BY <1>0, <1>1
<1>3. ASSUME Complete(file)  PROVE Sound(genesisFile["EVM"])'
  <2>1. file.assets.clientChains = {"EVM"} /\ \A d \in file.assets.deposits : d.asset.chain = "EVM"
    BY <1>1, <1>3, StatesOfOneChain
  <2>2. \A c \in UtxoChains, d \in file.assets.deposits : d.asset # AssetId(c)
    BY <1>0, <2>1 DEF AssetId
  <2>3. Sound(file)'
    BY <1>0, <2>1, <2>2 DEF Sound
  <2> QED
    BY <1>2, <2>3 DEF Sound
<1>4. Writes("EVM")
  BY <1>0, <1>1, <1>2, <1>3 DEF Writes
<1>5. BootstrapData(Stakes(chain))' = BootstrapData(Stakes(chain))
  BY <1>0 DEF BootstrapData
<1>6. Complete(genesisFile[chain])' = Complete(genesisFile[chain])
  BY <1>0, <1>2 DEF Complete
<1> QED
  BY <1>0, <1>4, <1>5, <1>6, WritesSound DEF FilesInv

------------------------------------------------------------------------------
(* The whole script.                                                       *)

LEMMA OrderedChains ==
    ASSUME NEW S
    PROVE  InOrder(S) \in Seq(Chains) /\ \A i \in DOMAIN InOrder(S) : InOrder(S)[i] \in S
<1> DEFINE only(c) == IF c \in S THEN <<c>> ELSE <<>>
<1>1. ASSUME NEW c \in Chains  PROVE only(c) \in Seq(Chains \cap S)
  BY ShortSeq
<1>2. "EVM" \in Chains /\ "Bitcoin" \in Chains /\ "XRP" \in Chains
  BY DEF Chains, UtxoChains
<1> HIDE DEF only
<1>3. only("EVM") \o only("Bitcoin") \o only("XRP") \in Seq(Chains \cap S)
  <2>1. \A s, u \in Seq(Chains \cap S) : s \o u \in Seq(Chains \cap S)
    OBVIOUS
  <2> QED
    BY <1>1, <1>2, <2>1
<1>4. InOrder(S) \in Seq(Chains \cap S)
  BY <1>3 DEF InOrder, only
<1> QED
  BY <1>4

\* What a step does to the files, once and for all actions.
LEMMA FilesStep ==
    ASSUME ScanInv, FilesInv, LoadedInv, UnifiedNext
    PROVE  FilesInv' /\ Frozen
<1>1. CASE Start \/ MergeExistingFiles \/ (RunnerStep /\ ~ Spawn)
  <2>1. UNCHANGED <<dataFile, genesisFile, pc, chain, valid, addressMappings>>
    <3>1. CASE Start \/ MergeExistingFiles
      BY <3>1 DEF Start, MergeExistingFiles, stakeScanVars, scanVars, fileVars
    <3>2. CASE RunnerStep /\ ~ Spawn
      BY <3>2 DEF RunnerStep, LoadExisting, Load, UnreadableFile, FailAttempt,
          ImportEvm, ChildExits, ChildKilled, PollFindsFile, PollTimesOut,
          MergeStates, WriteOutput, stakeScanVars, scanVars, fileVars
    <3> QED
      BY <1>1, <3>1, <3>2
  <2> QED
    BY <2>1, NothingWritten DEF NoFileWritten
<1>2. CASE Spawn
  <2>1. /\ pc' = "fetch" /\ chain' = Head(queue)
        /\ UNCHANGED <<dataFile, genesisFile>>
        /\ genesisFile[Head(queue)] = NoFile
    BY <1>2 DEF Spawn, StartScan, Generates, fileVars
  <2> QED
    BY <2>1, NothingWritten DEF NoFileWritten
<1>3. CASE ScanStepOfChild
  <2>1. CASE FetchTransactions
    BY <2>1, NothingWritten DEF FetchTransactions, NoFileWritten, fileVars
  <2>2. CASE ReadHeight
    BY <2>2, NothingWritten DEF ReadHeight, NoFileWritten, fileVars
  <2>3. CASE RequestFails
    <3>1. pc' \in {"exited", "hung"} /\ UNCHANGED <<dataFile, genesisFile>>
      BY <2>3 DEF RequestFails, fileVars
    <3> QED
      BY <3>1, NothingWritten DEF NoFileWritten
  <2>4. CASE \E answered \in BOOLEAN : ValidateTx(answered)
    <3>1. /\ pc = "validate"
          /\ UNCHANGED <<dataFile, genesisFile, pc, chain>>
      BY <2>4 DEF ValidateTx, fileVars
    <3> QED
      BY <3>1, NothingWritten DEF NoFileWritten
  <2> QED
    BY <1>3, <2>1, <2>2, <2>3, <2>4, ScanWrites DEF ScanStepOfChild, ScanStep
<1>4. CASE EvmStep
  <2>1. CASE EvmFails
    BY <2>1, NothingWritten DEF EvmFails, NoFileWritten, stakeScanVars, scanVars,
                                fileVars
  <2> QED
    BY <1>4, <2>1, EvmWrites DEF EvmStep
<1>5. CASE KillChild \/ Crash
  BY <1>5, NothingWritten DEF KillChild, Kill, Crash, NoFileWritten, fileVars
<1>6. CASE ChainGrows
  BY <1>6, NothingWritten DEF ChainGrows, Grow, NoFileWritten, fileVars, scanVars
<1> QED
  BY <1>1, <1>2, <1>3, <1>4, <1>5, <1>6 DEF UnifiedNext

\* The queue.
LEMMA NextChainKeepsQueue ==
    ASSUME QueueInv, queue # <<>>, NextChain
    PROVE  QueueInv'
<1>1. queue' = Tail(queue) /\ runner' = IF Len(queue) > 1 THEN "attempt" ELSE "merge"
  BY DEF NextChain
<1>2. Tail(queue) \in Seq(Chains) /\ (Len(queue) > 1 => Tail(queue) # <<>>)
  <2>1. queue \in Seq(Chains) /\ queue # <<>>
    BY DEF QueueInv
  <2>2. Tail(queue) \in Seq(Chains) /\ Len(Tail(queue)) = Len(queue) - 1
    BY <2>1
  <2>3. Len(queue) > 1 => Len(Tail(queue)) # 0
    BY <2>1, <2>2
  <2>4. Len(<<>>) = 0
    OBVIOUS
  <2> QED
    BY ONLY <2>2, <2>3, <2>4
<1> QED
  BY <1>1, <1>2 DEF QueueInv

LEMMA QueueStep ==
    ASSUME QueueInv, UnifiedNext
    PROVE  QueueInv'
<1>1. CASE Start
  <2>1. queue' = InOrder(enabled) /\ (queue' = <<>> => runner' = "merge")
    BY <1>1 DEF Start
  <2> QED
    BY <2>1, OrderedChains DEF QueueInv
<1>2. CASE LoadExisting \/ PollFindsFile
  BY <1>2, NextChainKeepsQueue DEF LoadExisting, PollFindsFile, Load, QueueInv
<1>3. CASE UnreadableFile \/ ChildKilled \/ PollTimesOut
  <2>1. queue # <<>> /\ FailAttempt
    BY <1>3 DEF UnreadableFile, ChildKilled, PollTimesOut, QueueInv
  <2>2. CASE UNCHANGED queue
    BY <2>1, <2>2 DEF QueueInv
  <2> QED
    BY <2>1, <2>2, NextChainKeepsQueue DEF FailAttempt, Retry
<1>4. CASE ImportEvm \/ Spawn \/ ChildExits
  BY <1>4 DEF ImportEvm, Spawn, ChildExits, QueueInv
<1>5. CASE MergeStates \/ WriteOutput \/ MergeExistingFiles
  BY <1>5 DEF MergeStates, WriteOutput, MergeExistingFiles, QueueInv
<1>6. CASE ScanStepOfChild \/ KillChild \/ ChainGrows \/ EvmStep
  <2>1. UNCHANGED <<queue, runner>>
    BY <1>6 DEF ScanStepOfChild, KillChild, ChainGrows, EvmStep, EvmFails,
                EvmOpensFile, EvmWritesFile, runnerVars
  <2> QED
    BY <2>1 DEF QueueInv
<1>7. CASE Crash
  BY <1>7 DEF Crash, QueueInv
<1> QED
  BY <1>1, <1>2, <1>3, <1>4, <1>5, <1>6, <1>7 DEF UnifiedNext, RunnerStep

\* What was loaded or merged before stays sound.
LEMMA LoadedStays ==
    ASSUME LoadedInv, Frozen
    PROVE  /\ UNCHANGED genesisStates =>
                  \A i \in DOMAIN genesisStates' : Sound(genesisStates[i])'
           /\ UNCHANGED output => (Complete(output) => Sound(output))'
<1>1. ASSUME UNCHANGED genesisStates, NEW i \in DOMAIN genesisStates'
      PROVE  Sound(genesisStates[i])'
  <2>1. PICK state : state = genesisStates[i]
    OBVIOUS
  <2>2. genesisStates'[i] = state /\ Sound(state)
    BY <1>1, <2>1 DEF LoadedInv
  <2>3. Sound(state)'
    BY <2>2, FrozenSound
  <2> QED
    BY <2>2, <2>3 DEF Sound
<1>2. ASSUME UNCHANGED output, Complete(output)'
      PROVE  Sound(output)'
  <2>1. PICK state : state = output
    OBVIOUS
  <2>2. output' = state /\ Sound(state)
    BY <1>2, <2>1 DEF LoadedInv, Complete
  <2>3. Sound(state)'
    BY <2>2, FrozenSound
  <2> QED
    BY <2>2, <2>3 DEF Sound
<1> QED
  BY <1>1, <1>2

LEMMA LoadStep ==
    ASSUME FilesInv, LoadedInv, Frozen, UNCHANGED genesisFile,
           NEW c \in Chains, Load(c)
    PROVE  /\ \E S : genesisStates' \in Seq(S)
           /\ \A i \in DOMAIN genesisStates' : Sound(genesisStates[i])'
<1>1. PICK state : state = genesisFile[c]
  OBVIOUS
<1>2. genesisStates' = Append(genesisStates, state) /\ Sound(state)
  BY <1>1 DEF Load, FilesInv
<1>3. Sound(state)'
  BY <1>2, FrozenSound
<1>4. PICK S : genesisStates \in Seq(S)
  BY DEF LoadedInv
<1>5. /\ genesisStates \in Seq(S \cup {state})
      /\ genesisStates' \in Seq(S \cup {state})
  BY <1>2, <1>4
<1>6. ASSUME NEW i \in DOMAIN genesisStates'
      PROVE  Sound(genesisStates[i])'
  <2>1. genesisStates'[i] = state \/
            (i \in DOMAIN genesisStates /\ genesisStates'[i] = genesisStates[i])
    BY <1>2, <1>5
  <2>2. CASE genesisStates'[i] = state
    BY <1>3, <2>2 DEF Sound
  <2>3. CASE i \in DOMAIN genesisStates /\ genesisStates'[i] = genesisStates[i]
    <3>1. PICK old : old = genesisStates[i]
      OBVIOUS
    <3>2. Sound(old)
      BY <2>3, <3>1 DEF LoadedInv
    <3>3. Sound(old)'
      BY <3>2, FrozenSound
    <3> QED
      BY <2>3, <3>1, <3>3 DEF Sound
  <2> QED
    BY <2>1, <2>2, <2>3
<1> QED
  BY <1>5, <1>6

\* mergeExistingFiles takes the complete files of the enabled chains.
LEMMA ExistingFilesStep ==
    ASSUME FilesInv, LoadedInv, Frozen, UNCHANGED genesisFile,
           MergeExistingFiles, ~ UNCHANGED genesisStates
    PROVE  /\ \E S : genesisStates' \in Seq(S)
           /\ \A i \in DOMAIN genesisStates' : Sound(genesisStates[i])'
<1> DEFINE present == {c \in enabled : genesisFile[c] # NoFile}
           order == InOrder(present)
<1>1. /\ \A c \in present : genesisFile[c] # Partial
      /\ genesisStates' = [i \in DOMAIN order |-> genesisFile[order[i]]]
  BY DEF MergeExistingFiles
<1>2. order \in Seq(Chains) /\ \A i \in DOMAIN order : order[i] \in present
  <2> HIDE DEF present
  <2> QED
    BY OrderedChains
<1>3. \A c \in present : Complete(genesisFile[c])
  BY <1>1 DEF Complete
<1> HIDE DEF present, order
<1>4. ASSUME NEW i \in DOMAIN genesisStates'
      PROVE  Sound(genesisStates[i])'
  <2>1. PICK state : state = genesisFile[order[i]]
    OBVIOUS
  <2>2. i \in DOMAIN order /\ genesisStates'[i] = state
    BY <1>1, <1>4, <2>1
  <2>3. Sound(state)
    BY ONLY <1>2, <1>3, <2>1, <2>2, FilesInv DEF FilesInv
  <2>4. Sound(state)'
    BY <2>3, FrozenSound
  <2> QED
    BY <2>2, <2>4 DEF Sound
<1>5. genesisStates' \in Seq({genesisFile[c] : c \in Chains})
  BY <1>1, <1>2
<1> QED
  BY <1>4, <1>5

LEMMA LoadedStep ==
    ASSUME ScanInv, FilesInv, LoadedInv, Frozen, UnifiedNext
    PROVE  LoadedInv'
<1>1. QueueInv'
  BY QueueStep DEF LoadedInv
<1>2. /\ runner' = "write" => genesisStates' # <<>>
      /\ \E S : genesisStates' \in Seq(S)
      /\ \A i \in DOMAIN genesisStates' : Sound(genesisStates[i])'
  <2>1. CASE (LoadExisting \/ PollFindsFile)
    <3>1. queue # <<>> /\ Head(queue) \in Chains
      BY <2>1 DEF LoadExisting, PollFindsFile, LoadedInv, QueueInv
    <3>2. Load(Head(queue)) /\ UNCHANGED genesisFile /\ runner' # "write"
      BY <2>1 DEF LoadExisting, PollFindsFile, Load, stakeScanVars, fileVars, NextChain
    <3> QED
      BY <3>1, <3>2, LoadStep
  <2>2. CASE MergeExistingFiles /\ ~ UNCHANGED genesisStates
    <3>1. UNCHANGED genesisFile /\ runner' # "write"
      BY <2>2 DEF MergeExistingFiles, stakeScanVars, fileVars
    <3> QED
      BY <2>2, <3>1, ExistingFilesStep
  <2>3. CASE Start
    <3>1. genesisStates' = <<>> /\ runner' # "write"
      BY <2>3 DEF Start
    <3>2. <<>> \in Seq({}) /\ DOMAIN <<>> = {}
      OBVIOUS
    <3> QED
      BY <3>1, <3>2
  <2>4. CASE UNCHANGED genesisStates
    <3>1. runner' = "write" => genesisStates # <<>>
      <4>1. CASE MergeStates
        BY <4>1 DEF MergeStates
      <4>2. CASE UNCHANGED runner
        BY <4>2 DEF LoadedInv
      <4>3. CASE ~ MergeStates /\ ~ UNCHANGED runner
        BY <4>3 DEF UnifiedNext, Start, MergeExistingFiles, RunnerStep,
            LoadExisting, Load, NextChain, UnreadableFile, FailAttempt, Retry,
            ImportEvm, Spawn, ChildExits, ChildKilled, PollFindsFile,
            PollTimesOut, WriteOutput, ScanStepOfChild, EvmStep, EvmFails,
            EvmOpensFile, EvmWritesFile, KillChild, Crash, ChainGrows, runnerVars
      <4> QED
        BY <4>1, <4>2, <4>3
    <3>2. \A i \in DOMAIN genesisStates' : Sound(genesisStates[i])'
      BY <2>4, LoadedStays
    <3> QED
      BY <2>4, <3>1, <3>2 DEF LoadedInv
  <2>5. \/ LoadExisting \/ PollFindsFile \/ MergeExistingFiles \/ Start
        \/ UNCHANGED genesisStates
    BY DEF UnifiedNext, RunnerStep, UnreadableFile, FailAttempt, ImportEvm, Spawn,
           ChildExits, ChildKilled, PollTimesOut, MergeStates, WriteOutput,
           ScanStepOfChild, EvmStep, EvmFails, EvmOpensFile, EvmWritesFile,
           KillChild, Crash, ChainGrows, runnerVars
  <2> QED
    BY <2>1, <2>2, <2>3, <2>4, <2>5
<1>3. (Complete(output) => Sound(output))'
  <2>1. CASE WriteOutput
    <3>1. PICK states : states = genesisStates
      OBVIOUS
    <3>2. PICK merged : merged = Merge(states)
      OBVIOUS
    <3>3. output' = merged /\ runner = "write"
      BY <2>1, <3>1, <3>2 DEF WriteOutput
    <3>4. /\ Len(states) \in Nat \ {0}
          /\ \A i \in 1..Len(states) : Sound(states[i])
      <4>1. PICK S : states \in Seq(S)
        BY <3>1 DEF LoadedInv
      <4>2. states # <<>>
        BY <3>1, <3>3 DEF LoadedInv
      <4>3. DOMAIN states = 1..Len(states) /\ Len(states) \in Nat \ {0}
        BY <4>1, <4>2
      <4> QED
        BY <3>1, <4>3 DEF LoadedInv
    <3>5. Sound(merged)
      BY <3>2, <3>4, MergeSound
    <3>6. Sound(merged)'
      BY <3>5, FrozenSound
    <3> QED
      BY <3>3, <3>6 DEF Sound
  <2>2. CASE MergeStates /\ output' = Partial
    BY <2>2 DEF Complete
  <2>3. CASE UNCHANGED output
    BY <2>3, LoadedStays
  <2>4. WriteOutput \/ (MergeStates /\ output' = Partial) \/ UNCHANGED output
    BY DEF UnifiedNext, Start, MergeExistingFiles, RunnerStep, LoadExisting,
           Load, UnreadableFile, FailAttempt, ImportEvm, Spawn,
           ChildExits, ChildKilled, PollFindsFile, PollTimesOut, MergeStates,
           ScanStepOfChild, EvmStep, EvmFails, EvmOpensFile, EvmWritesFile,
           KillChild, Crash, ChainGrows, runnerVars
  <2> QED
    BY <2>1, <2>2, <2>3, <2>4
<1> QED
  BY <1>1, <1>2, <1>3 DEF LoadedInv, Complete

LEMMA ExportInit == UnifiedInit => ExportInv
<1> SUFFICES ASSUME UnifiedInit PROVE ExportInv
  OBVIOUS
<1>1. ScanInv
  BY InitHolds DEF UnifiedInit
<1>2. FilesInv
  BY DEF UnifiedInit, ScanInit, FilesInv, Complete
<1>3. LoadedInv
  <2>1. <<>> \in Seq(Chains) /\ <<>> \in Seq({}) /\ DOMAIN <<>> = {}
    OBVIOUS
  <2> QED
    BY <2>1 DEF UnifiedInit, LoadedInv, QueueInv, Complete
<1> QED
  BY <1>1, <1>2, <1>3 DEF ExportInv

LEMMA ExportStep == ExportInv /\ [UnifiedNext]_vars => ExportInv'
<1>1. ASSUME ExportInv, UnifiedNext
      PROVE  ExportInv'
  <2>1. ScanInv /\ FilesInv /\ LoadedInv
    BY <1>1 DEF ExportInv
  <2>2. ScanInv'
    BY <1>1, <2>1, StepHolds
  <2>3. FilesInv' /\ Frozen
    BY <1>1, <2>1, FilesStep
  <2>4. LoadedInv'
    BY <1>1, <2>1, <2>3, LoadedStep
  <2> QED
    BY <2>2, <2>3, <2>4 DEF ExportInv
<1>2. ASSUME ExportInv, UNCHANGED vars
      PROVE  ExportInv'
  <2>1. /\ UNCHANGED ScanParts
        /\ UNCHANGED <<dataFile, genesisFile, pc, chain, valid, addressMappings>>
        /\ UNCHANGED <<queue, runner, genesisStates, output>>
    BY <1>2 DEF vars, stakeScanVars, scanVars, worldVars, fileVars, ScanParts, runnerVars
  <2>2. ScanInv'
    BY <1>2, <2>1, OthersHold DEF ExportInv
  <2>3. FilesInv' /\ Frozen
    BY <1>2, <2>1, NothingWritten DEF ExportInv, NoFileWritten
  <2>4. LoadedInv'
    <3>1. /\ \A i \in DOMAIN genesisStates' : Sound(genesisStates[i])'
          /\ (Complete(output) => Sound(output))'
      BY <1>2, <2>1, <2>3, LoadedStays DEF ExportInv
    <3> QED
      BY <1>2, <2>1, <3>1 DEF ExportInv, LoadedInv, QueueInv
  <2> QED
    BY <2>2, <2>3, <2>4 DEF ExportInv
<1> QED
  BY <1>1, <1>2

\* generate_unified.mjs: whoever a complete unified genesis credits on Bitcoin
\* or XRP is in the file of entries of the chain and the other way round,
\* whenever a generator was killed, failed or was run again, whatever file was
\* there before, and in whatever order the chains were merged.
THEOREM FilesOfOneScan == UnifiedSafety => []ExportMatchesGenesis
<1>1. UnifiedInit => ExportInv
  BY ExportInit
<1>2. ExportInv /\ [UnifiedNext]_vars => ExportInv'
  BY ExportStep
<1>3. ExportInv => ExportMatchesGenesis
  BY ExportInvImplies
<1> QED
  BY <1>1, <1>2, <1>3, PTL DEF UnifiedSafety

------------------------------------------------------------------------------
(* The entries of a chain are those its ledger calls for.                  *)

\* The transactions validated so far, and those of them that count: stakes with
\* a registered validator that could be looked up.
Done == ToSet(fetched) \ ToSet(todo)
IsStake(tx) ==
    ReadTx(chain, tx) # Null /\ ReadTx(chain, tx).validatorAddress \in registered
Known == {tx \in Done \ unanswered : IsStake(tx)}

\* Of these, the stakes that name an account, those that the owner of the
\* account made, and those of one sender.
Named(tx) == ReadTx(chain, tx).imuachainAddress
Naming(a) == {tx \in Known : Named(tx) = a}
Accepted == {tx \in Known : reverseMappings[Named(tx)] = Sender(tx)}
AcceptedOf(s) == {tx \in Accepted : Sender(tx) = s}

IsFirst(tx, S) == tx \in S /\ \A u \in S : u = tx \/ Earlier(tx, u)

\* A transaction is read once.
Once(txs) == \A i, j \in DOMAIN txs : txs[i] = txs[j] => i = j

\* The mappings are of the transactions before those to do.
ScanOrder ==
    /\ \A i, j \in DOMAIN todo : i < j => Earlier(todo[i], todo[j])
    /\ \A t \in Done, u \in ToSet(todo) : Earlier(t, u)
    /\ ToSet(todo) \subseteq ToSet(fetched)
    /\ unanswered \subseteq Done
    /\ \A tx \in ToSet(fetched) : tx.height <= height

\* An account is its first namer's, and a sender's home is the first account
\* that is the sender's.
OwnersAreFirst ==
    \A a \in ImAddresses :
        \/ reverseMappings[a] = NoSender /\ Naming(a) = {}
        \/ \E tx \in Naming(a) :
               IsFirst(tx, Naming(a)) /\ reverseMappings[a] = Sender(tx)
HomesAreFirst ==
    \A s \in Senders :
        \/ addressMappings[s] = NoAddress /\ AcceptedOf(s) = {}
        \/ \E tx \in AcceptedOf(s) :
               IsFirst(tx, AcceptedOf(s)) /\ addressMappings[s] = Named(tx)
ValidIsAccepted ==
    /\ Once(valid)
    /\ ToSet(valid) = {tx \in Accepted : DeepEnough(tx)}

Sorted == pc \in {"validate", "export", "genesis"}

ReadInv ==
    /\ tip \in [UtxoChains -> Nat]
    /\ pc \in {"fetch", "height"} =>
           /\ addressMappings = [s \in Senders |-> NoAddress]
           /\ reverseMappings = [a \in ImAddresses |-> NoSender]
           /\ valid = <<>> /\ unanswered = {}
    /\ pc = "height" => /\ Once(fetched)
                        /\ \A tx \in ToSet(fetched) : tx.height <= tip[chain]
    /\ Sorted => ScanOrder /\ OwnersAreFirst /\ HomesAreFirst /\ ValidIsAccepted
    /\ pc \in {"export", "genesis"} => todo = <<>>

\* Of two transactions of a chain one is earlier, and they differ in their ids.
LEMMA TxOrder ==
    ASSUME ScanInv
    PROVE  /\ \A t, u \in Txs :
                  /\ t = u \/ Earlier(t, u) \/ Earlier(u, t)
                  /\ ~ (Earlier(t, u) /\ Earlier(u, t))
                  /\ t.txid = u.txid => t = u
           /\ \A t \in Txs : t.height \in Nat
<1> DEFINE L == ledger[chain]
<1>1. /\ \A i, j \in DOMAIN L : i < j => Earlier(L[i], L[j]) /\ L[i].txid # L[j].txid
      /\ \A t \in Txs : t.height \in Nat /\ t.index \in Nat
      /\ \E S : L \in Seq(S)
  BY LedgersAssumption DEF ScanInv, ScanTypeOK, Txs
<1>2. DOMAIN L = 1..Len(L) /\ Len(L) \in Nat
  BY <1>1
<1>3. ASSUME NEW t \in Txs, NEW u \in Txs
      PROVE  /\ t = u \/ Earlier(t, u) \/ Earlier(u, t)
             /\ t.txid = u.txid => t = u
  <2>1. PICK i \in DOMAIN L, j \in DOMAIN L : t = L[i] /\ u = L[j]
    BY DEF Txs, ToSet
  <2>2. i = j \/ i < j \/ j < i
    BY <1>2
  <2> QED
    BY <1>1, <2>1, <2>2
<1>4. ASSUME NEW t \in Txs, NEW u \in Txs
      PROVE  ~ (Earlier(t, u) /\ Earlier(u, t))
  BY <1>1 DEF Earlier
<1> QED
  BY <1>1, <1>3, <1>4

\* What first of ExpectedEntries chooses.
LEMMA FirstIsChosen ==
    ASSUME ScanInv, NEW S \in SUBSET Txs, NEW tx, IsFirst(tx, S)
    PROVE  (CHOOSE t \in S : \A u \in S : u = t \/ Earlier(t, u)) = tx
<1>1. \A t \in S : (\A u \in S : u = t \/ Earlier(t, u)) => t = tx
  BY TxOrder DEF IsFirst
<1>2. tx \in S /\ \A u \in S : u = tx \/ Earlier(tx, u)
  BY DEF IsFirst
<1> QED
  BY <1>1, <1>2

LEMMA FetchReads ==
    ASSUME ScanInv, FetchTransactions
    PROVE  Once(fetched') /\ \A tx \in ToSet(fetched') : tx.height <= tip[chain]
<1> DEFINE L == ledger[chain]
<1>1. PICK n \in 0..Len(L) :
          /\ \A i \in DOMAIN L : L[i].height <= tip[chain] <=> i <= n
          /\ fetched' = Reverse(SubSeq(L, 1, n))
  BY DEF FetchTransactions
<1>2. /\ L \in Seq(Txs)
      /\ \A i, j \in DOMAIN L : i < j => L[i].txid # L[j].txid
  BY LedgersAssumption DEF ScanInv, ScanTypeOK, Txs
<1>3. DOMAIN L = 1..Len(L) /\ Len(L) \in Nat /\ n \in Nat /\ 1..n \subseteq DOMAIN L
  BY <1>2
<1>4. /\ DOMAIN fetched' = 1..n
      /\ \A i \in 1..n : fetched'[i] = L[n - i + 1] /\ n - i + 1 \in 1..n
  <2>1. PICK public : public = SubSeq(L, 1, n)
    OBVIOUS
  <2>2. Len(public) = n /\ \A i \in 1..n : public[i] = L[i]
    BY <1>2, <1>3, <2>1
  <2>3. fetched' = [i \in 1..n |-> public[n - i + 1]]
    BY <1>1, <2>1, <2>2 DEF Reverse
  <2> QED
    BY <1>3, <2>2, <2>3
<1>5. ASSUME NEW i \in 1..n, NEW j \in 1..n, i # j
      PROVE  fetched'[i] # fetched'[j]
  <2>1. PICK k \in 1..n, l \in 1..n : k = n - i + 1 /\ l = n - j + 1
    BY <1>4
  <2>2. k < l \/ l < k
    BY <1>3, <1>5, <2>1
  <2>3. L[k] # L[l]
    BY <1>2, <1>3, <2>2
  <2> QED
    BY <1>4, <2>1, <2>3
<1>6. ASSUME NEW i \in 1..n
      PROVE  fetched'[i].height <= tip[chain]
  <2>1. PICK k \in 1..n : fetched'[i] = L[k]
    BY <1>4
  <2> QED
    BY <1>1, <1>3, <2>1
<1> QED
  BY <1>4, <1>5, <1>6 DEF Once, ToSet

\* The sort loses nothing, and as no two transactions are of one place it
\* leaves one order.
LEMMA SortReads ==
    ASSUME ScanInv, ReadHeight, Once(fetched)
    PROVE  /\ ToSet(todo') = ToSet(fetched)
           /\ \A i, j \in DOMAIN todo' : i < j => Earlier(todo'[i], todo'[j])
<1>1. PICK p \in Bijection(DOMAIN fetched, DOMAIN fetched) :
          todo' = [i \in DOMAIN fetched |-> fetched[p[i]]]
  BY DEF ReadHeight, SortedTxs, Reorderings
<1>2. /\ p \in [DOMAIN fetched -> DOMAIN fetched]
      /\ \A i, j \in DOMAIN fetched : p[i] = p[j] => i = j
      /\ \A k \in DOMAIN fetched : \E i \in DOMAIN fetched : p[i] = k
  BY <1>1 DEF Bijection, Injection, Surjection, IsInjective
<1>3. DOMAIN todo' = DOMAIN fetched /\ DOMAIN fetched \subseteq Int
  BY <1>1 DEF ScanInv, ScanTypeOK
<1>4. ToSet(todo') = ToSet(fetched)
  <2>1. \A i \in DOMAIN fetched : todo'[i] = fetched[p[i]] /\ p[i] \in DOMAIN fetched
    BY <1>1, <1>2
  <2>2. \A k \in DOMAIN fetched : \E i \in DOMAIN fetched : fetched[k] = todo'[i]
    BY <1>2, <2>1
  <2>3. ASSUME NEW tx \in ToSet(todo') PROVE tx \in ToSet(fetched)
    <3>1. PICK i \in DOMAIN fetched : tx = todo'[i]
      BY <1>3, <2>3 DEF ToSet
    <3> QED
      BY <2>1, <3>1 DEF ToSet
  <2>4. ASSUME NEW tx \in ToSet(fetched) PROVE tx \in ToSet(todo')
    <3>1. PICK k \in DOMAIN fetched : tx = fetched[k]
      BY <2>4 DEF ToSet
    <3> QED
      BY <1>3, <2>2, <3>1 DEF ToSet
  <2> QED
    BY <2>3, <2>4
<1>5. ASSUME NEW i \in DOMAIN todo', NEW j \in DOMAIN todo', i < j
      PROVE  Earlier(todo'[i], todo'[j])
  <2>1. ~ Earlier(todo'[j], todo'[i])
    BY <1>5 DEF ReadHeight, SortedTxs
  <2>2. PICK k \in DOMAIN fetched, l \in DOMAIN fetched :
            todo'[i] = fetched[k] /\ todo'[j] = fetched[l] /\ k # l
    <3>1. p[i] # p[j]
      BY <1>2, <1>3, <1>5
    <3> QED
      BY <1>1, <1>2, <1>3, <3>1
  <2>3. fetched[k] # fetched[l] /\ fetched[k] \in Txs /\ fetched[l] \in Txs
    BY <2>2 DEF Once, ScanInv, ScanTypeOK
  <2> QED
    BY <2>1, <2>2, <2>3, TxOrder
<1> QED
  BY <1>4, <1>5

LEMMA ReadHeightReads ==
    ASSUME ScanInv, ReadInv, ReadHeight
    PROVE  ReadInv'
<1>1. /\ todo' \in Seq(Txs) /\ fetched \in Seq(Txs) /\ chain \in UtxoChains
      /\ UNCHANGED <<tip, ledger, chain, registered, fetched, addressMappings,
                     reverseMappings, valid, unanswered>>
      /\ height' = tip[chain] /\ pc' = "validate" /\ pc = "height"
  BY ReadHeightHolds DEF ScanInv, ScanTypeOK, Txs, ReadHeight, worldVars
<1>2. /\ ToSet(todo') = ToSet(fetched)
      /\ \A i, j \in DOMAIN todo' : i < j => Earlier(todo'[i], todo'[j])
  BY <1>1, SortReads DEF ReadInv
<1>3. /\ addressMappings = [s \in Senders |-> NoAddress]
      /\ reverseMappings = [a \in ImAddresses |-> NoSender]
      /\ valid = <<>> /\ unanswered = {}
      /\ \A tx \in ToSet(fetched) : tx.height <= tip[chain]
      /\ tip \in [UtxoChains -> Nat]
  BY <1>1 DEF ReadInv
<1>4. Done' = {} /\ Known' = {} /\ Accepted' = {}
  BY <1>1, <1>2 DEF Done, Known, Accepted
<1>5. ScanOrder'
  BY <1>1, <1>2, <1>3, <1>4 DEF ScanOrder
<1>6. OwnersAreFirst' /\ HomesAreFirst'
  BY <1>1, <1>3, <1>4 DEF OwnersAreFirst, HomesAreFirst, Naming, AcceptedOf
<1>7. ValidIsAccepted'
  <2>1. Once(<<>>) /\ ToSet(<<>>) = {}
    BY DEF Once, ToSet
  <2> QED
    BY <1>1, <1>3, <1>4, <2>1 DEF ValidIsAccepted, Once, ToSet
<1> QED
  BY <1>1, <1>3, <1>5, <1>6, <1>7 DEF ReadInv

\* The head of the queue is later than what is done and earlier than the rest.
LEMMA HeadIsNext ==
    ASSUME ScanInv, ScanOrder, todo # <<>>, NEW tx, tx = Head(todo),
           todo' = Tail(todo), UNCHANGED fetched
    PROVE  /\ tx \in Txs /\ tx \notin Done /\ Done \subseteq Txs
           /\ Done' = Done \cup {tx}
           /\ \A t \in Done : Earlier(t, tx)
           /\ \A i, j \in DOMAIN todo' : i < j => Earlier(todo'[i], todo'[j])
           /\ \A t \in Done', u \in ToSet(todo') : Earlier(t, u)
           /\ ToSet(todo') \subseteq ToSet(fetched)
<1>1. /\ todo \in Seq(Txs) /\ fetched \in Seq(Txs)
      /\ Len(todo) \in Nat \ {0} /\ DOMAIN todo = 1..Len(todo)
  BY DEF ScanInv, ScanTypeOK
<1>2. /\ tx = todo[1] /\ 1 \in DOMAIN todo
      /\ DOMAIN todo' = 1..(Len(todo) - 1)
      /\ \A i \in DOMAIN todo' : todo'[i] = todo[i + 1] /\ i + 1 \in DOMAIN todo
  BY <1>1
<1>3. tx \in Txs /\ tx \in ToSet(todo) /\ Done \subseteq Txs
  BY <1>1, <1>2 DEF ToSet, Done
<1>4. \A u \in ToSet(todo') : u \in ToSet(todo) /\ u \in Txs /\ Earlier(tx, u)
  <2>1. ASSUME NEW u \in ToSet(todo')
        PROVE  u \in ToSet(todo) /\ u \in Txs /\ Earlier(tx, u)
    <3>1. PICK i \in DOMAIN todo' : u = todo'[i]
      BY <2>1 DEF ToSet
    <3>2. PICK k \in DOMAIN todo : u = todo[k] /\ 1 < k
      BY <1>1, <1>2, <3>1
    <3>3. u \in ToSet(todo) /\ u \in Txs
      BY <1>1, <3>2 DEF ToSet
    <3>4. Earlier(todo[1], todo[k])
      BY <1>2, <3>2 DEF ScanOrder
    <3> QED
      BY <1>2, <3>2, <3>3, <3>4
  <2> QED
    BY <2>1
<1>5. tx \notin ToSet(todo')
  BY <1>3, <1>4, TxOrder
<1>6. \A u \in ToSet(todo) : u = tx \/ u \in ToSet(todo')
  <2>1. ASSUME NEW u \in ToSet(todo), u # tx
        PROVE  u \in ToSet(todo')
    <3>1. PICK k \in DOMAIN todo : u = todo[k] /\ k # 1
      BY <1>2, <2>1 DEF ToSet
    <3>2. PICK i \in DOMAIN todo' : i + 1 = k
      <4>1. k - 1 \in DOMAIN todo' /\ (k - 1) + 1 = k
        BY <1>1, <1>2, <3>1
      <4> QED
        BY <4>1
    <3>3. u = todo'[i]
      BY <1>2, <3>1, <3>2
    <3> QED
      BY <3>3 DEF ToSet
  <2> QED
    BY <2>1
<1>7. Done' = Done \cup {tx}
  BY <1>3, <1>4, <1>5, <1>6 DEF Done, ScanOrder
<1>8. tx \notin Done /\ \A t \in Done : Earlier(t, tx)
  BY <1>3 DEF Done, ScanOrder
<1>9. \A i, j \in DOMAIN todo' : i < j => Earlier(todo'[i], todo'[j])
  <2>1. ASSUME NEW i \in DOMAIN todo', NEW j \in DOMAIN todo', i < j
        PROVE  Earlier(todo'[i], todo'[j])
    <3>1. PICK k \in DOMAIN todo, l \in DOMAIN todo :
              todo'[i] = todo[k] /\ todo'[j] = todo[l] /\ k < l
      BY <1>1, <1>2, <2>1
    <3> QED
      BY <3>1 DEF ScanOrder
  <2> QED
    BY <2>1
<1>10. \A t \in Done', u \in ToSet(todo') : Earlier(t, u)
  BY <1>4, <1>7 DEF ScanOrder
<1> QED
  BY <1>3, <1>4, <1>7, <1>8, <1>9, <1>10 DEF ScanOrder

\* What validating tx may do.
Ignores(tx) ==
    /\ Known' = Known
    /\ UNCHANGED <<addressMappings, reverseMappings, valid>>
Counts(tx) ==
    /\ Known' = Known \cup {tx}
    /\ Sender(tx) \in Senders /\ Named(tx) \in ImAddresses
Refuses(tx) ==
    /\ Counts(tx)
    /\ ~ MayBind(Sender(tx), Named(tx))
    /\ UNCHANGED <<addressMappings, reverseMappings, valid>>
Accepts(tx) ==
    /\ Counts(tx)
    /\ MayBind(Sender(tx), Named(tx))
    /\ Bind(Sender(tx), Named(tx))
    /\ valid' = IF DeepEnough(tx) THEN Append(valid, tx) ELSE valid

LEMMA ValidateDoes ==
    ASSUME ScanInv, ScanOrder, NEW answered \in BOOLEAN, ValidateTx(answered),
           NEW tx, tx = Head(todo)
    PROVE  /\ Ignores(tx) \/ Refuses(tx) \/ Accepts(tx)
           /\ unanswered' \subseteq Done'
           /\ UNCHANGED <<ledger, tip, registered, pc, chain, fetched, height>>
<1>1. /\ todo # <<>> /\ todo' = Tail(todo)
      /\ UNCHANGED <<ledger, tip, registered, pc, chain, fetched, height>>
  BY DEF ValidateTx, worldVars
<1>2. /\ tx \in Txs /\ tx \notin Done /\ Done' = Done \cup {tx}
      /\ unanswered \subseteq Done
  BY <1>1, HeadIsNext DEF ScanOrder
<1>3. ReadTx(chain, tx) # Null =>
          Sender(tx) \in Senders /\ Named(tx) \in ImAddresses
  BY <1>2, LedgersAssumption DEF ScanInv, ScanTypeOK, Txs, Named
<1>4. /\ \A t : IsStake(t)' = IsStake(t)
      /\ \A t : Named(t)' = Named(t)
  BY <1>1 DEF IsStake, Named
<1>5. CASE ReadTx(chain, tx) = Null
  <2>1. UNCHANGED <<addressMappings, reverseMappings, valid, unanswered>>
    BY <1>5 DEF ValidateTx
  <2>2. Known' = Known
    BY <1>2, <1>4, <1>5, <2>1 DEF Known, IsStake
  <2> QED
    BY <1>1, <1>2, <2>1, <2>2 DEF Ignores
<1>6. CASE ReadTx(chain, tx) # Null
  <2> DEFINE v == ReadTx(chain, tx).validatorAddress
  <2>1. unanswered' = IF answered \/ v \in validatorInfoCache
                      THEN unanswered ELSE unanswered \cup {tx}
    BY <1>6 DEF ValidateTx
  <2>2. IF LookUp(v, answered) /\ MayBind(Sender(tx), Named(tx))
        THEN /\ Bind(Sender(tx), Named(tx))
             /\ valid' = IF DeepEnough(tx) THEN Append(valid, tx) ELSE valid
        ELSE UNCHANGED <<addressMappings, reverseMappings, valid>>
    BY <1>6 DEF ValidateTx, Named
  <2>3. Known' = IF LookUp(v, answered) THEN Known \cup {tx} ELSE Known
    BY <1>2, <1>4, <1>6, <2>1 DEF Known, IsStake, LookUp
  <2> QED
    BY <1>1, <1>2, <1>3, <1>6, <2>1, <2>2, <2>3
       DEF Ignores, Refuses, Accepts, Counts
<1> QED
  BY <1>5, <1>6

\* A later transaction does not come first.
LEMMA FirstStays ==
    ASSUME NEW S, NEW T, NEW t, NEW tx
    PROVE  /\ IsFirst(t, S) /\ Earlier(t, tx) /\ T = S \cup {tx} => IsFirst(t, T)
           /\ S = {} /\ T = S \cup {tx} => IsFirst(tx, T)
  BY DEF IsFirst

LEMMA KnownStakes ==
    ASSUME ScanInv, NEW t \in Known
    PROVE  /\ t \in Txs /\ t \in Done
           /\ Sender(t) \in Senders /\ Named(t) \in ImAddresses
<1>1. t \in Txs /\ t \in Done /\ ReadTx(chain, t) # Null
  BY DEF Known, Done, IsStake, ScanInv, ScanTypeOK, ToSet
<1> QED
  BY <1>1, LedgersAssumption DEF ScanInv, ScanTypeOK, Txs, Named

\* The owner of an account is set once, by the first who names it.
LEMMA OwnersStay ==
    ASSUME ScanInv, OwnersAreFirst, UNCHANGED chain, NEW tx,
           \A t \in Done : Earlier(t, tx),
           Ignores(tx) \/ Refuses(tx) \/ Accepts(tx)
    PROVE  OwnersAreFirst'
<1> DEFINE R == reverseMappings
<1>0. /\ \A t : Named(t)' = Named(t)
      /\ R \in [ImAddresses -> Senders \cup {NoSender}]
      /\ NoSender \notin Senders
  BY DEF Named, ScanInv, ScanTypeOK
<1>1. ASSUME NEW a \in ImAddresses, NEW S, S = Naming(a), NEW T, T = Naming(a)'
      PROVE  \/ R'[a] = NoSender /\ T = {}
             \/ \E t \in T : IsFirst(t, T) /\ R'[a] = Sender(t)
  <2>1. \/ R[a] = NoSender /\ S = {}
        \/ \E t \in S : IsFirst(t, S) /\ R[a] = Sender(t)
    BY <1>1 DEF OwnersAreFirst
  <2>2. CASE T = S /\ R'[a] = R[a]
    BY <2>1, <2>2
  <2>3. CASE (Refuses(tx) \/ Accepts(tx)) /\ a = Named(tx)
    <3>1. T = S \cup {tx} /\ Sender(tx) \in Senders
      BY <1>0, <1>1, <2>3 DEF Refuses, Accepts, Counts, Naming
    <3>2. CASE S = {} /\ R[a] = NoSender
      <4>1. R'[a] = Sender(tx)
        BY <1>0, <2>3, <3>2 DEF Refuses, Accepts, MayBind, Bind
      <4> QED
        BY <3>1, <3>2, <4>1, FirstStays
    <3>3. CASE \E t \in S : IsFirst(t, S) /\ R[a] = Sender(t)
      <4>1. PICK t \in S : IsFirst(t, S) /\ R[a] = Sender(t)
        BY <3>3
      <4>2. Earlier(t, tx) /\ R[a] # NoSender
        BY <1>0, <1>1, <4>1, KnownStakes DEF Naming
      <4>3. R'[a] = R[a]
        BY <1>0, <2>3, <4>2 DEF Refuses, Accepts, Bind
      <4>4. IsFirst(t, T) /\ t \in T
        BY <3>1, <4>1, <4>2, FirstStays
      <4> QED
        BY <4>1, <4>3, <4>4
    <3> QED
      BY <2>1, <3>2, <3>3
  <2>4. \/ (T = S /\ R'[a] = R[a])
        \/ (Refuses(tx) \/ Accepts(tx)) /\ a = Named(tx)
    <3>1. CASE Ignores(tx)
      BY <1>0, <1>1, <3>1 DEF Ignores, Naming
    <3>2. CASE (Refuses(tx) \/ Accepts(tx)) /\ a # Named(tx)
      <4>1. T = S
        BY <1>0, <1>1, <3>2 DEF Refuses, Accepts, Counts, Naming
      <4>2. R'[a] = R[a]
        BY <1>0, <3>2 DEF Refuses, Accepts, Bind
      <4> QED
        BY <4>1, <4>2
    <3> QED
      BY <3>1, <3>2
  <2> QED
    BY <2>2, <2>3, <2>4
<1>2. ASSUME NEW a \in ImAddresses
      PROVE  \/ R'[a] = NoSender /\ Naming(a)' = {}
             \/ \E t \in Naming(a)' : IsFirst(t, Naming(a)') /\ R'[a] = Sender(t)
  <2>1. PICK T : T = Naming(a)'
    OBVIOUS
  <2> HIDE DEF R
  <2> QED
    BY <1>1, <2>1
<1> QED
  BY <1>2 DEF OwnersAreFirst

\* What is accepted stays so.
LEMMA AcceptedStays ==
    ASSUME ScanInv, OwnersAreFirst, UNCHANGED chain, NEW tx,
           Ignores(tx) \/ Refuses(tx) \/ Accepts(tx)
    PROVE  Accepted' = IF Accepts(tx) THEN Accepted \cup {tx} ELSE Accepted
<1> DEFINE R == reverseMappings
<1>0. /\ \A t : Named(t)' = Named(t)
      /\ R \in [ImAddresses -> Senders \cup {NoSender}]
      /\ NoSender \notin Senders
  BY DEF Named, ScanInv, ScanTypeOK
<1>1. \A t \in Known : R[Named(t)] # NoSender
  <2>1. ASSUME NEW t \in Known
        PROVE  R[Named(t)] # NoSender
    <3>1. Named(t) \in ImAddresses /\ t \in Naming(Named(t))
      BY <2>1, KnownStakes DEF Naming
    <3>2. PICK u \in Naming(Named(t)) : R[Named(t)] = Sender(u)
      BY <3>1 DEF OwnersAreFirst
    <3>3. Sender(u) \in Senders
      BY <3>2, KnownStakes DEF Naming
    <3> QED
      BY <1>0, <3>2, <3>3
  <2> QED
    BY <2>1
<1>2. CASE Accepts(tx)
  <2>1. Known' = Known \cup {tx} /\ Named(tx) \in ImAddresses
    BY <1>2 DEF Accepts, Counts
  <2>2. /\ R'[Named(tx)] = Sender(tx)
        /\ \A a \in ImAddresses : R[a] # NoSender => R'[a] = R[a]
    BY <1>0, <1>2, <2>1 DEF Accepts, MayBind, Bind
  <2>3. \A t \in Known : R'[Named(t)] = R[Named(t)]
    BY <1>1, <2>2, KnownStakes
  <2> QED
    BY <1>0, <1>2, <2>1, <2>2, <2>3 DEF Accepted
<1>3. CASE Refuses(tx) /\ ~ Accepts(tx)
  <2>1. R[Named(tx)] # Sender(tx)
    BY <1>3 DEF Refuses, MayBind
  <2> QED
    BY <1>0, <1>3, <2>1 DEF Refuses, Counts, Accepted
<1>4. CASE Ignores(tx) /\ ~ Accepts(tx)
  BY <1>0, <1>4 DEF Ignores, Accepted
<1> QED
  BY <1>2, <1>3, <1>4

\* A sender's home is set once, by the first stake of the sender's that is
\* accepted.
LEMMA HomesStay ==
    ASSUME ScanInv, OwnersAreFirst, HomesAreFirst, UNCHANGED chain, NEW tx,
           \A t \in Done : Earlier(t, tx),
           Ignores(tx) \/ Refuses(tx) \/ Accepts(tx)
    PROVE  HomesAreFirst'
<1> DEFINE A == addressMappings
<1>0. /\ \A t : Named(t)' = Named(t)
      /\ A \in [Senders -> ImAddresses \cup {NoAddress}]
      /\ NoAddress \notin ImAddresses
      /\ Accepted' = IF Accepts(tx) THEN Accepted \cup {tx} ELSE Accepted
  BY AcceptedStays DEF Named, ScanInv, ScanTypeOK
<1>1. ASSUME NEW s \in Senders, NEW S, S = AcceptedOf(s), NEW T, T = AcceptedOf(s)'
      PROVE  \/ A'[s] = NoAddress /\ T = {}
             \/ \E t \in T : IsFirst(t, T) /\ A'[s] = Named(t)
  <2>1. \/ A[s] = NoAddress /\ S = {}
        \/ \E t \in S : IsFirst(t, S) /\ A[s] = Named(t)
    BY <1>1 DEF HomesAreFirst
  <2>2. CASE T = S /\ A'[s] = A[s]
    BY <2>1, <2>2
  <2>3. CASE Accepts(tx) /\ s = Sender(tx)
    <3>1. T = S \cup {tx} /\ Named(tx) \in ImAddresses
      BY <1>0, <1>1, <2>3 DEF Accepts, Counts, AcceptedOf
    <3>2. CASE S = {} /\ A[s] = NoAddress
      <4>1. A'[s] = Named(tx)
        BY <1>0, <2>3, <3>2 DEF Accepts, Bind
      <4> QED
        BY <3>1, <3>2, <4>1, FirstStays
    <3>3. CASE \E t \in S : IsFirst(t, S) /\ A[s] = Named(t)
      <4>1. PICK t \in S : IsFirst(t, S) /\ A[s] = Named(t)
        BY <3>3
      <4>2. Earlier(t, tx) /\ A[s] # NoAddress
        BY <1>0, <1>1, <4>1, KnownStakes DEF AcceptedOf, Accepted
      <4>3. A'[s] = A[s]
        BY <1>0, <2>3, <4>2 DEF Accepts, Bind
      <4>4. IsFirst(t, T) /\ t \in T
        BY <3>1, <4>1, <4>2, FirstStays
      <4> QED
        BY <4>1, <4>3, <4>4
    <3> QED
      BY <2>1, <3>2, <3>3
  <2>4. (T = S /\ A'[s] = A[s]) \/ (Accepts(tx) /\ s = Sender(tx))
    <3>1. CASE ~ Accepts(tx)
      BY <1>0, <1>1, <3>1 DEF Ignores, Refuses, AcceptedOf
    <3>2. CASE Accepts(tx) /\ s # Sender(tx)
      <4>1. T = S
        BY <1>0, <1>1, <3>2 DEF AcceptedOf
      <4>2. A'[s] = A[s]
        BY <1>0, <3>2 DEF Accepts, Bind
      <4> QED
        BY <4>1, <4>2
    <3> QED
      BY <3>1, <3>2
  <2> QED
    BY <2>2, <2>3, <2>4
<1>2. ASSUME NEW s \in Senders
      PROVE  \/ A'[s] = NoAddress /\ AcceptedOf(s)' = {}
             \/ \E t \in AcceptedOf(s)' :
                    IsFirst(t, AcceptedOf(s)') /\ A'[s] = Named(t)
  <2>1. PICK T : T = AcceptedOf(s)'
    OBVIOUS
  <2> HIDE DEF A
  <2> QED
    BY <1>1, <2>1
<1> QED
  BY <1>0, <1>2 DEF HomesAreFirst

LEMMA ValidStays ==
    ASSUME ScanInv, OwnersAreFirst, ValidIsAccepted, UNCHANGED <<chain, height>>,
           NEW tx, tx \notin Done, Ignores(tx) \/ Refuses(tx) \/ Accepts(tx)
    PROVE  ValidIsAccepted'
<1>1. /\ Accepted' = IF Accepts(tx) THEN Accepted \cup {tx} ELSE Accepted
      /\ \A t : DeepEnough(t)' = DeepEnough(t)
      /\ valid \in Seq(Txs)
  BY AcceptedStays DEF DeepEnough, ScanInv, ScanTypeOK
<1>2. CASE UNCHANGED valid
  <2>1. ~ Accepts(tx) \/ ~ DeepEnough(tx)
    BY <1>1, <1>2 DEF Accepts
  <2> QED
    BY <1>1, <1>2, <2>1 DEF ValidIsAccepted, Once
<1>3. CASE Accepts(tx) /\ DeepEnough(tx) /\ valid' = Append(valid, tx)
  <2>1. tx \notin ToSet(valid)
    BY DEF ValidIsAccepted, Accepted, Known
  <2>2. /\ DOMAIN valid = 1..Len(valid) /\ Len(valid) \in Nat
        /\ DOMAIN valid' = 1..(Len(valid) + 1)
        /\ \A i \in 1..Len(valid) : valid'[i] = valid[i] /\ valid[i] # tx
        /\ valid'[Len(valid) + 1] = tx
    BY <1>1, <1>3, <2>1 DEF ToSet
  <2>3. Once(valid')
    BY <2>2 DEF ValidIsAccepted, Once
  <2>4. ToSet(valid') = ToSet(valid) \cup {tx}
    <3>1. \A t \in ToSet(valid') : t \in ToSet(valid) \cup {tx}
      BY <2>2 DEF ToSet
    <3>2. \A t \in ToSet(valid) : t \in ToSet(valid')
      BY <2>2 DEF ToSet
    <3>3. tx \in ToSet(valid')
      <4>1. Len(valid) + 1 \in DOMAIN valid'
        BY <2>2
      <4> QED
        BY <2>2, <4>1 DEF ToSet
    <3> QED
      BY <3>1, <3>2, <3>3
  <2> QED
    BY <1>1, <1>3, <2>3, <2>4 DEF ValidIsAccepted
<1> QED
  BY <1>2, <1>3 DEF Ignores, Refuses, Accepts

LEMMA ValidateReads ==
    ASSUME ScanInv, ReadInv, NEW answered \in BOOLEAN, ValidateTx(answered)
    PROVE  ReadInv'
<1>1. PICK tx : tx = Head(todo)
  OBVIOUS
<1>2. /\ pc = "validate" /\ todo # <<>> /\ todo' = Tail(todo)
      /\ UNCHANGED <<ledger, tip, registered, pc, chain, fetched, height>>
      /\ tip \in [UtxoChains -> Nat]
      /\ ScanOrder /\ OwnersAreFirst /\ HomesAreFirst /\ ValidIsAccepted
  BY DEF ValidateTx, worldVars, ReadInv, Sorted
<1>3. /\ Ignores(tx) \/ Refuses(tx) \/ Accepts(tx)
      /\ unanswered' \subseteq Done'
  BY <1>1, <1>2, ValidateDoes
<1>4. /\ tx \notin Done /\ \A t \in Done : Earlier(t, tx)
      /\ ScanOrder'
  BY <1>1, <1>2, <1>3, HeadIsNext DEF ScanOrder
<1>5. OwnersAreFirst' /\ HomesAreFirst' /\ ValidIsAccepted'
  BY <1>2, <1>3, <1>4, OwnersStay, HomesStay, ValidStays
<1> QED
  BY <1>2, <1>4, <1>5 DEF ReadInv, Sorted

LEMMA FetchRead ==
    ASSUME ScanInv, ReadInv, FetchTransactions
    PROVE  ReadInv'
<1>1. Once(fetched') /\ \A tx \in ToSet(fetched') : tx.height <= tip[chain]
  BY FetchReads
<1> QED
  BY <1>1 DEF FetchTransactions, ReadInv, Sorted, worldVars

\* What the invariant is about, the tip and the place in the program aside.
ReadParts == <<ledger, registered, chain, fetched, todo, height,
               addressMappings, reverseMappings, valid, unanswered>>

\* The steps that leave it alone: the tip only grows, and the process goes on to
\* its files once all is validated, or ends.
LEMMA ReadStays ==
    ASSUME ScanInv, ReadInv, UNCHANGED ReadParts,
           UNCHANGED tip \/ \E c \in UtxoChains : tip' = [tip EXCEPT ![c] = @ + 1],
           \/ UNCHANGED pc
           \/ pc' \in {"off", "exited", "killed", "hung"}
           \/ pc = "validate" /\ todo = <<>> /\ pc' = "export"
           \/ pc = "export" /\ pc' = "genesis"
    PROVE  ReadInv'
<1>1. tip \in [UtxoChains -> Nat] /\ chain \in UtxoChains
  BY DEF ReadInv, ScanInv, ScanTypeOK
<1>2. tip' \in [UtxoChains -> Nat] /\ tip'[chain] >= tip[chain]
  <2>1. CASE UNCHANGED tip
    BY <1>1, <2>1
  <2>2. CASE \E c \in UtxoChains : tip' = [tip EXCEPT ![c] = @ + 1]
    <3>1. PICK c \in UtxoChains : tip' = [tip EXCEPT ![c] = @ + 1]
      BY <2>2
    <3> QED
      BY <1>1, <3>1
  <2> QED
    BY <2>1, <2>2
<1>3. /\ ScanOrder' = ScanOrder /\ OwnersAreFirst' = OwnersAreFirst
      /\ HomesAreFirst' = HomesAreFirst /\ ValidIsAccepted' = ValidIsAccepted
  BY DEF ReadParts, ScanOrder, OwnersAreFirst, HomesAreFirst, ValidIsAccepted,
         Naming, AcceptedOf, Accepted, Known, Done, IsStake, Named, DeepEnough
<1>4. pc' = "height" =>
          /\ Once(fetched)
          /\ \A tx \in ToSet(fetched) : tx.height <= tip'[chain]
  <2>1. \A tx \in ToSet(fetched) : tx.height \in Nat
    BY TxOrder DEF ScanInv, ScanTypeOK, ToSet
  <2>2. tip[chain] \in Nat /\ tip'[chain] \in Nat
    BY <1>1, <1>2
  <2> QED
    BY <1>2, <2>1, <2>2 DEF ReadInv
<1> QED
  BY <1>2, <1>3, <1>4 DEF ReadInv, ReadParts, Sorted

LEMMA StartReads ==
    ASSUME ReadInv, NEW c \in UtxoChains, StartScan(c)
    PROVE  ReadInv'
  BY DEF StartScan, NoMappings, ReadInv, Sorted, worldVars

LEMMA ReadInit == ScanInit => ReadInv
<1> SUFFICES ASSUME ScanInit PROVE ReadInv
  OBVIOUS
<1>1. Tips[1] \in Nat
  BY TipsAssumption
<1> QED
  BY <1>1 DEF ScanInit, ReadInv, Sorted

LEMMA ScanStepReads ==
    ASSUME ScanInv, ReadInv, ScanStep
    PROVE  ReadInv'
<1>1. CASE RequestFails \/ OpenDataFile \/ ExportBootstrapData \/ WriteGenesis
  BY <1>1, ReadStays
     DEF RequestFails, OpenDataFile, ExportBootstrapData, WriteGenesis, worldVars,
         ReadParts
<1> QED
  BY <1>1, FetchRead, ReadHeightReads, ValidateReads DEF ScanStep

LEMMA ReadStep ==
    ASSUME ScanInv, ReadInv, UnifiedNext
    PROVE  ReadInv'
<1> USE DEF stakeScanVars, scanVars, worldVars, fileVars, ReadParts
<1>1. CASE Spawn
  BY <1>1, StartReads DEF Spawn
<1>2. CASE ScanStepOfChild
  BY <1>2, ScanStepReads DEF ScanStepOfChild
<1>3. CASE ChainGrows
  BY <1>3, ReadStays DEF ChainGrows, Grow
<1>4. CASE KillChild \/ Crash
  BY <1>4, ReadStays DEF KillChild, Kill, Crash
<1>5. CASE Start \/ MergeExistingFiles \/ EvmStep
  BY <1>5, ReadStays DEF Start, MergeExistingFiles, EvmStep, EvmFails,
                         EvmOpensFile, EvmWritesFile
<1>6. CASE RunnerStep /\ ~ Spawn
  <2>1. UNCHANGED ReadParts /\ UNCHANGED <<tip, pc>>
    BY <1>6 DEF RunnerStep, LoadExisting, Load, UnreadableFile, FailAttempt,
                ImportEvm, ChildExits, ChildKilled, PollFindsFile, PollTimesOut,
                MergeStates, WriteOutput
  <2> QED
    BY <2>1, ReadStays
<1> QED
  BY <1>1, <1>2, <1>3, <1>4, <1>5, <1>6 DEF UnifiedNext

LEMMA ReadAlways == ExportInv /\ ReadInv /\ [UnifiedNext]_vars => ReadInv'
<1>1. ASSUME ExportInv, ReadInv, UNCHANGED vars PROVE ReadInv'
  BY <1>1, ReadStays DEF ExportInv, vars, stakeScanVars, scanVars, worldVars, ReadParts
<1>2. ASSUME ExportInv, ReadInv, UnifiedNext PROVE ReadInv'
  BY <1>2, ReadStep DEF ExportInv
<1> QED
  BY <1>1, <1>2

\* The entry of a transaction.
Entry(tx) ==
    [clientTxId |-> tx.txid, clientAddress |-> Sender(tx),
     imuachainAddress |-> addressMappings[Sender(tx)]]

\* The reference is defined by the mappings, when all is validated.
LEMMA ExpectedIsAccepted ==
    ASSUME ScanInv, ReadInv, Sorted, todo = <<>>
    PROVE  ExpectedEntries(chain) = {Entry(tx) : tx \in {u \in Accepted : DeepEnough(u)}}
<1> DEFINE first(S) == CHOOSE tx \in S : \A u \in S : u = tx \/ Earlier(tx, u)
           owner(a) == Sender(first(Naming(a)))
           accepted == {tx \in Known : owner(Named(tx)) = Sender(tx)}
           home(s) == Named(first({tx \in accepted : Sender(tx) = s}))
           entry(tx) == [clientTxId |-> tx.txid, clientAddress |-> Sender(tx),
                         imuachainAddress |-> home(Sender(tx))]
           deep == {u \in accepted : height - u.height + 1 >= MinConfirmations}
<1>1. Done = ToSet(fetched)
  BY DEF Done, ToSet
<1>2. ExpectedEntries(chain) = {entry(tx) : tx \in deep}
  BY <1>1 DEF ExpectedEntries, Naming, Known, IsStake, Named
<1>3. OwnersAreFirst /\ HomesAreFirst /\ ScanOrder
  BY DEF ReadInv
<1>4. \A t \in Known : owner(Named(t)) = reverseMappings[Named(t)]
  <2>1. ASSUME NEW t \in Known, NEW a, a = Named(t)
        PROVE  owner(a) = reverseMappings[a]
    <3>1. a \in ImAddresses /\ t \in Naming(a)
      BY <2>1, KnownStakes DEF Naming
    <3>2. PICK u \in Naming(a) : IsFirst(u, Naming(a)) /\ reverseMappings[a] = Sender(u)
      BY <1>3, <3>1 DEF OwnersAreFirst
    <3>3. Naming(a) \in SUBSET Txs
      BY KnownStakes DEF Naming
    <3>4. first(Naming(a)) = u
      BY <3>2, <3>3, FirstIsChosen
    <3> QED
      BY <3>2, <3>4
  <2> QED
    BY <2>1
<1>5. accepted = Accepted
  BY <1>4 DEF Accepted
<1>6. \A t \in Accepted : home(Sender(t)) = addressMappings[Sender(t)]
  <2>1. ASSUME NEW t \in Accepted, NEW s, s = Sender(t)
        PROVE  home(s) = addressMappings[s]
    <3>1. s \in Senders /\ t \in AcceptedOf(s)
      BY <2>1, KnownStakes DEF AcceptedOf, Accepted
    <3>2. PICK u \in AcceptedOf(s) :
              IsFirst(u, AcceptedOf(s)) /\ addressMappings[s] = Named(u)
      BY <1>3, <3>1 DEF HomesAreFirst
    <3>3. AcceptedOf(s) \in SUBSET Txs
      BY KnownStakes DEF AcceptedOf, Accepted
    <3>4. first(AcceptedOf(s)) = u
      BY <3>2, <3>3, FirstIsChosen
    <3>5. AcceptedOf(s) = {tx \in accepted : Sender(tx) = s}
      BY <1>5 DEF AcceptedOf
    <3> QED
      BY <3>2, <3>4, <3>5
  <2> QED
    BY <2>1
<1>7. deep = {u \in Accepted : DeepEnough(u)}
  <2>1. \A u \in Accepted : u.height <= height
    BY <1>1, <1>3, KnownStakes DEF ScanOrder, Accepted
  <2> QED
    BY <1>5, <2>1 DEF DeepEnough
<1>8. \A t \in deep : entry(t) = Entry(t)
  BY <1>5, <1>6 DEF Entry
<1> HIDE DEF entry, deep
<1> QED
  BY <1>2, <1>7, <1>8

\* The entries written are those expected, each once.
LEMMA ReadInvImplies ==
    ASSUME ScanInv, ReadInv, FilesInv
    PROVE  ExportMatchesLedger
<1> SUFFICES ASSUME pc = "genesis"
             PROVE  /\ ToSet(dataFile[chain]) = ExpectedEntries(chain)
                    /\ Len(dataFile[chain]) = Cardinality(ExpectedEntries(chain))
  BY DEF ExportMatchesLedger
<1>1. PICK data : data = dataFile[chain]
  OBVIOUS
<1>2. /\ valid \in Seq(Txs) /\ Once(valid)
      /\ ToSet(valid) = {tx \in Accepted : DeepEnough(tx)}
      /\ ExpectedEntries(chain) = {Entry(tx) : tx \in ToSet(valid)}
  BY ExpectedIsAccepted DEF ReadInv, Sorted, ScanInv, ScanTypeOK, ValidIsAccepted
<1>3. DOMAIN valid = 1..Len(valid) /\ Len(valid) \in Nat
  BY <1>2
<1>4. data = [i \in 1..Len(valid) |-> Entry(valid[i])]
  BY <1>1, <1>3 DEF FilesInv, BootstrapData, Stakes, ToStake, Entry
<1>5. DOMAIN data = 1..Len(valid) /\ Len(data) = Len(valid)
  BY <1>3, <1>4
<1>6. ToSet(data) = ExpectedEntries(chain)
  <2>1. ASSUME NEW e \in ToSet(data) PROVE e \in ExpectedEntries(chain)
    <3>1. PICK i \in 1..Len(valid) : e = Entry(valid[i])
      BY <1>4, <1>5, <2>1 DEF ToSet
    <3>2. valid[i] \in ToSet(valid)
      BY <1>3 DEF ToSet
    <3> QED
      BY <1>2, <3>1, <3>2
  <2>2. ASSUME NEW e \in ExpectedEntries(chain) PROVE e \in ToSet(data)
    <3>1. PICK tx \in ToSet(valid) : e = Entry(tx)
      BY <1>2, <2>2
    <3>2. PICK i \in 1..Len(valid) : tx = valid[i]
      BY <1>3, <3>1 DEF ToSet
    <3>3. data[i] = e
      BY <1>4, <3>1, <3>2
    <3> QED
      BY <1>5, <3>3 DEF ToSet
  <2> QED
    BY <2>1, <2>2
<1>7. Cardinality(ExpectedEntries(chain)) = Len(valid)
  <2>1. \A i, j \in 1..Len(valid) : data[i] = data[j] => i = j
    <3>1. ASSUME NEW i \in 1..Len(valid), NEW j \in 1..Len(valid), data[i] = data[j]
          PROVE  i = j
      <4>1. valid[i] \in Txs /\ valid[j] \in Txs
        BY <1>2, <1>3
      <4>2. valid[i].txid = valid[j].txid
        BY <1>4, <3>1 DEF Entry
      <4>3. valid[i] = valid[j]
        BY <4>1, <4>2, TxOrder
      <4> QED
        BY <1>2, <1>3, <4>3 DEF Once
    <3> QED
      BY <3>1
  <2>2. data \in Bijection(1..Len(valid), ExpectedEntries(chain))
    <3>1. \A i \in 1..Len(valid) : data[i] \in ExpectedEntries(chain)
      BY <1>5, <1>6 DEF ToSet
    <3>2. \A e \in ExpectedEntries(chain) : \E i \in 1..Len(valid) : data[i] = e
      BY <1>5, <1>6 DEF ToSet
    <3>3. data \in [1..Len(valid) -> ExpectedEntries(chain)]
      BY <1>4, <3>1
    <3> QED
      BY <2>1, <3>2, <3>3 DEF Bijection, Injection, Surjection, IsInjective
  <2> QED
    BY <1>3, <2>2, FS_CountingElements DEF ExistsBijection
<1> QED
  BY <1>1, <1>5, <1>6, <1>7

\* bitcoin_genesis.ts and xrp_genesis.ts: the entries a generator exports are
\* those the ledger calls for, each once, for whatever ledger, tip and validators,
\* in whatever order the transactions were handed over and whichever lookups
\* failed.
THEOREM EntriesMatchLedger == UnifiedSafety => []ExportMatchesLedger
<1> DEFINE Inv == ExportInv /\ ReadInv
<1>1. UnifiedInit => Inv
  BY ExportInit, ReadInit DEF UnifiedInit
<1>2. Inv /\ [UnifiedNext]_vars => Inv'
  BY ExportStep, ReadAlways
<1>3. Inv => ExportMatchesLedger
  BY ReadInvImplies DEF ExportInv
<1> QED
  BY <1>1, <1>2, <1>3, PTL DEF UnifiedSafety

------------------------------------------------------------------------------
(* The totals of the merged genesis.                                       *)

\* What a genesis state says of an asset: its deposits, what is delegated with
\* the operators listed, and the delegations.
Listed(state) ==
    {a \in state.assets.operatorAssets : a.operator \notin boot.invalid}
DepositsOf(state, asset) ==
    Total(state.assets.deposits, asset, LAMBDA d : d.total)
DelegatedOf(state, asset) == Total(Listed(state), asset, LAMBDA a : a.total)
SharesOf(state, asset) ==
    Total(state.delegation.states, asset, LAMBDA d : d.share)

\* The entries whose amounts were rounded.
ListedOf(state, asset) == {a \in Listed(state) : a.asset = asset}
StatesOf(state, asset) == {d \in state.delegation.states : d.asset = asset}

\* The part of TotalsSurviveMerge about one token.
TokenBalanced(state, t) ==
    /\ DepositsOf(state, t.asset) = t.total
    /\ 2 * (SharesOf(state, t.asset) - DelegatedOf(state, t.asset)) <=
           SlackOfBooks(t, ListedOf(state, t.asset) \cup StatesOf(state, t.asset))
    /\ 2 * (DelegatedOf(state, t.asset) - SharesOf(state, t.asset)) <=
           SlackOfBooks(t, ListedOf(state, t.asset) \cup StatesOf(state, t.asset))
    /\ 2 * (DelegatedOf(state, t.asset) - t.total) <=
           SlackOfBooks(t, ListedOf(state, t.asset))
    /\ t.asset.chain \in UtxoChains => DelegatedOf(state, t.asset) = t.total

\* A state speaks of the assets of its chains, and its books balance.
Balanced(state) ==
    /\ \A x \in state.assets.tokens \cup state.assets.deposits
                \cup state.assets.operatorAssets \cup state.delegation.states :
           x.asset.chain \in state.assets.clientChains
    /\ \A d \in state.assets.deposits :
           \E t \in state.assets.tokens : d.asset = t.asset
    /\ \A t, u \in state.assets.tokens : u.asset = t.asset => u = t
    /\ \A t \in state.assets.tokens : TokenBalanced(state, t)

LEMMA BalancedImplies ==
    ASSUME Complete(output) => Balanced(output)
    PROVE  TotalsSurviveMerge
<1> SUFFICES ASSUME Complete(output)
             PROVE  /\ {d.asset : d \in output.assets.deposits}
                           \subseteq {t.asset : t \in output.assets.tokens}
                    /\ \A t \in output.assets.tokens :
                           /\ TokenBalanced(output, t)
                           /\ \A u \in output.assets.tokens :
                                  u.asset = t.asset => u = t
  <2>1. ASSUME NEW t
        PROVE  LET listed == {a \in output.assets.operatorAssets :
                                 a.asset = t.asset /\ a.operator \notin boot.invalid}
               IN  /\ listed = ListedOf(output, t.asset)
                   /\ Total(listed, t.asset, LAMBDA a : a.total)
                          = DelegatedOf(output, t.asset)
    <3> DEFINE listed == {a \in output.assets.operatorAssets :
                             a.asset = t.asset /\ a.operator \notin boot.invalid}
    <3>1. /\ listed = ListedOf(output, t.asset)
          /\ {a \in listed : a.asset = t.asset} =
                 {a \in Listed(output) : a.asset = t.asset}
      BY DEF ListedOf, Listed
    <3> HIDE DEF listed
    <3>2. Total(listed, t.asset, LAMBDA a : a.total) = DelegatedOf(output, t.asset)
      BY <3>1 DEF DelegatedOf, Total
    <3> QED
      BY <3>1, <3>2 DEF listed
  <2>2. ASSUME NEW t
        PROVE  LET states == {d \in output.delegation.states : d.asset = t.asset}
               IN  /\ states = StatesOf(output, t.asset)
                   /\ Total(states, t.asset, LAMBDA d : d.share)
                          = SharesOf(output, t.asset)
    <3> DEFINE states == {d \in output.delegation.states : d.asset = t.asset}
    <3>1. /\ states = StatesOf(output, t.asset)
          /\ {d \in states : d.asset = t.asset} = states
      BY DEF StatesOf
    <3> HIDE DEF states
    <3>2. Total(states, t.asset, LAMBDA d : d.share) = SharesOf(output, t.asset)
      BY <3>1 DEF SharesOf, Total, states
    <3> QED
      BY <3>1, <3>2 DEF states
  <2> QED
    BY Zenon, <2>1, <2>2 DEF TotalsSurviveMerge, TokenBalanced, DepositsOf
<1> QED
  BY DEF Balanced

\* Two states of different chains have no asset in common, and what one says of
\* an asset the merged one says.
LEMMA MergeTwoBalanced ==
    ASSUME NEW base, NEW additional, Balanced(base), Balanced(additional),
           base.assets.clientChains \cap additional.assets.clientChains = {}
    PROVE  Balanced(MergeTwo(base, additional))
<1> DEFINE merged == MergeTwo(base, additional)
<1>1. /\ merged.assets.clientChains =
             base.assets.clientChains \cup additional.assets.clientChains
      /\ merged.assets.tokens = MergeTokens(base.assets.tokens, additional.assets.tokens)
      /\ merged.assets.deposits = base.assets.deposits \cup additional.assets.deposits
      /\ merged.assets.operatorAssets =
             base.assets.operatorAssets \cup additional.assets.operatorAssets
      /\ merged.delegation.states =
             base.delegation.states \cup additional.delegation.states
  BY DEF MergeTwo, MergeAssetsModule, MergeDelegationModule, MergeOperatorAssets
<1>2. /\ base.assets.tokens \subseteq merged.assets.tokens
      /\ merged.assets.tokens \subseteq base.assets.tokens \cup additional.assets.tokens
      /\ \A x \in additional.assets.tokens :
             \E t \in merged.assets.tokens : t.asset = x.asset
  BY <1>1 DEF MergeTokens, MergeById, SameToken
<1>3. ASSUME NEW part \in {base, additional}, NEW t \in part.assets.tokens
      PROVE  /\ DepositsOf(merged, t.asset) = DepositsOf(part, t.asset)
             /\ DelegatedOf(merged, t.asset) = DelegatedOf(part, t.asset)
             /\ SharesOf(merged, t.asset) = SharesOf(part, t.asset)
             /\ ListedOf(merged, t.asset) = ListedOf(part, t.asset)
             /\ StatesOf(merged, t.asset) = StatesOf(part, t.asset)
  <2>1. t.asset.chain \in part.assets.clientChains
    BY DEF Balanced
  <2>2. /\ {d \in merged.assets.deposits : d.asset = t.asset} =
               {d \in part.assets.deposits : d.asset = t.asset}
        /\ {a \in Listed(merged) : a.asset = t.asset} =
               {a \in Listed(part) : a.asset = t.asset}
        /\ {d \in merged.delegation.states : d.asset = t.asset} =
               {d \in part.delegation.states : d.asset = t.asset}
    <3> HIDE DEF merged
    <3> QED
      BY <1>1, <2>1 DEF Balanced, Listed
  <2> HIDE DEF merged
  <2> QED
    BY <2>2 DEF DepositsOf, DelegatedOf, SharesOf, Total, ListedOf, StatesOf
<1> HIDE DEF merged
<1>4. \A t \in merged.assets.tokens : TokenBalanced(merged, t)
  <2>1. ASSUME NEW t \in merged.assets.tokens
        PROVE  TokenBalanced(merged, t)
    <3>1. PICK part \in {base, additional} : t \in part.assets.tokens
      BY <1>2
    <3>2. TokenBalanced(part, t)
      BY <3>1 DEF Balanced
    <3> QED
      BY <1>3, <3>1, <3>2 DEF TokenBalanced
  <2> QED
    BY <2>1
<1>5. \A t, u \in merged.assets.tokens : u.asset = t.asset => u = t
  BY <1>2 DEF Balanced
<1>6. \A d \in merged.assets.deposits :
          \E t \in merged.assets.tokens : d.asset = t.asset
  BY <1>1, <1>2 DEF Balanced
<1>7. \A x \in merged.assets.tokens \cup merged.assets.deposits
               \cup merged.assets.operatorAssets \cup merged.delegation.states :
          x.asset.chain \in merged.assets.clientChains
  BY <1>1, <1>2 DEF Balanced
<1> QED
  BY <1>4, <1>5, <1>6, <1>7 DEF Balanced, merged

\* The amounts of stakes.
Amounts(stakes) == [i \in DOMAIN stakes |-> stakes[i].amount]

LEMMA SumOfStakes ==
    ASSUME NEW stakes, IsFiniteSet(DOMAIN stakes),
           \A i \in DOMAIN stakes : stakes[i].amount \in Nat,
           NEW T \in SUBSET DOMAIN stakes
    PROVE  SumFunction([i \in T |-> stakes[i].amount]) =
               SumFunctionOnSet(Amounts(stakes), T)
<1> DEFINE g == [i \in T |-> stakes[i].amount]
<1>1. \A i \in T : Amounts(stakes)[i] \in Nat /\ g[i] = Amounts(stakes)[i]
  BY DEF Amounts
<1>2. IsFiniteSet(T)
  BY FS_Subset
<1>3. DOMAIN g = T
  OBVIOUS
<1> HIDE DEF g
<1>4. SumFunctionOnSet(g, T) = SumFunctionOnSet(Amounts(stakes), T)
  BY <1>1, <1>2, SumSame
<1> QED
  BY <1>3, <1>4 DEF g, SumFunction

LEMMA StakedSums ==
    ASSUME NEW stakes, IsFiniteSet(DOMAIN stakes),
           \A i \in DOMAIN stakes : stakes[i].amount \in Nat
    PROVE  /\ SumOf(stakes, LAMBDA k : TRUE) =
                  SumFunctionOnSet(Amounts(stakes), DOMAIN stakes)
           /\ \A a : StakedBy(stakes, a) =
                  SumFunctionOnSet(Amounts(stakes),
                      {i \in DOMAIN stakes : stakes[i].imuachainAddress = a})
           /\ \A v : StakedWith(stakes, v) =
                  SumFunctionOnSet(Amounts(stakes),
                      {i \in DOMAIN stakes : stakes[i].validatorAddress = v})
           /\ \A a, v : StakedByWith(stakes, a, v) =
                  SumFunctionOnSet(Amounts(stakes),
                      {i \in DOMAIN stakes : /\ stakes[i].imuachainAddress = a
                                             /\ stakes[i].validatorAddress = v})
<1> DEFINE D == DOMAIN stakes
           At(T) == SumFunction([i \in T |-> stakes[i].amount])
<1>1. /\ SumOf(stakes, LAMBDA k : TRUE) = At(D)
      /\ \A a : StakedBy(stakes, a) = At({i \in D : stakes[i].imuachainAddress = a})
      /\ \A v : StakedWith(stakes, v) = At({i \in D : stakes[i].validatorAddress = v})
      /\ \A a, v : StakedByWith(stakes, a, v) =
             At({i \in D : stakes[i].imuachainAddress = a
                           /\ stakes[i].validatorAddress = v})
  <2>1. {j \in D : TRUE} = D
    OBVIOUS
  <2> QED
    BY <2>1 DEF SumOf, StakedBy, StakedWith, StakedByWith
<1>2. \A T \in SUBSET D : At(T) = SumFunctionOnSet(Amounts(stakes), T)
  BY SumOfStakes
<1> HIDE DEF At
<1> QED
  BY <1>1, <1>2

\* A generator credits every stake once to its account, once to its operator
\* and once to the two together.
LEMMA StakesBalanced ==
    ASSUME NEW c \in UtxoChains, NEW stakes, IsFiniteSet(DOMAIN stakes),
           \A i \in DOMAIN stakes : /\ stakes[i].amount \in Nat
                                    /\ stakes[i].validatorAddress \notin boot.invalid
    PROVE  Balanced(GenesisState(c, stakes))
<1> DEFINE state == GenesisState(c, stakes)
           D == DOMAIN stakes
           asset == AssetId(c)
           all == SumFunctionOnSet(Amounts(stakes), D)
           a(i) == stakes[i].imuachainAddress
           v(i) == stakes[i].validatorAddress
           deposit(i) == [staker |-> StakerId(a(i), c), asset |-> asset,
                          total |-> StakedBy(stakes, a(i))]
           held(i) == [operator |-> v(i), asset |-> asset,
                       total |-> StakedWith(stakes, v(i))]
           share(i) == [staker |-> StakerId(a(i), c), asset |-> asset,
                        operator |-> v(i),
                        share |-> StakedByWith(stakes, a(i), v(i))]
           Deposits == {deposit(i) : i \in D}
           Held == {held(i) : i \in D}
           Shares == {share(i) : i \in D}
<1>0. /\ \A b : StakedBy(stakes, b) =
             SumFunctionOnSet(Amounts(stakes), {i \in D : a(i) = b})
      /\ \A w : StakedWith(stakes, w) =
             SumFunctionOnSet(Amounts(stakes), {i \in D : v(i) = w})
      /\ \A b, w : StakedByWith(stakes, b, w) =
             SumFunctionOnSet(Amounts(stakes), {i \in D : a(i) = b /\ v(i) = w})
  BY StakedSums
<1>1. /\ state.assets = Assets(c, stakes)
      /\ state.delegation = Delegation(c, stakes)
  BY DEF GenesisState, BitcoinGenesisState, XrpGenesisState, UtxoChains
<1>2. /\ state.assets.clientChains = {c}
      /\ state.assets.tokens =
             {[asset |-> asset, total |-> SumOf(stakes, LAMBDA k : TRUE)]}
      /\ state.assets.deposits = Deposits
      /\ state.assets.operatorAssets = Held
      /\ state.delegation.states = Shares
  <2> HIDE DEF state
  <2>1. /\ state.assets.deposits =
               {[staker |-> StakerId(b, c), asset |-> asset,
                 total |-> StakedBy(stakes, b)] : b \in StakersOf(stakes)}
        /\ state.assets.operatorAssets =
               {[operator |-> w, asset |-> asset,
                 total |-> StakedWith(stakes, w)] : w \in ValidatorsOf(stakes)}
        /\ state.delegation.states =
               {[staker |-> StakerId(k.imuachainAddress, c), asset |-> asset,
                 operator |-> k.validatorAddress,
                 share |-> StakedByWith(stakes, k.imuachainAddress,
                                        k.validatorAddress)] : k \in ToSet(stakes)}
    BY <1>1 DEF Assets, Delegation
  <2>2. /\ StakersOf(stakes) = {a(i) : i \in D}
        /\ ValidatorsOf(stakes) = {v(i) : i \in D}
        /\ ToSet(stakes) = {stakes[i] : i \in D}
    BY DEF StakersOf, ValidatorsOf, Fields, ToSet
  <2>3. state.assets.deposits = Deposits
    BY <2>1, <2>2
  <2>4. state.assets.operatorAssets = Held
    BY <2>1, <2>2
  <2>5. state.delegation.states = Shares
    BY <2>1, <2>2
  <2> QED
    BY <1>1, <2>3, <2>4, <2>5 DEF Assets
<1>3. \A i \in D : Amounts(stakes)[i] \in Nat
  BY DEF Amounts
<1>4. /\ {d \in Deposits : d.asset = asset} = Deposits
      /\ {d \in Held : d.asset = asset} = Held
      /\ {d \in Shares : d.asset = asset} = Shares
  OBVIOUS
<1>5. SumFunctionOnSet([d \in Deposits |-> d.total], Deposits) = all
  <2> DEFINE key == [i \in D |-> deposit(i)]
             g == [d \in Deposits |-> d.total]
  <2>1. /\ \A i \in D : key[i] \in Deposits
        /\ \A r \in Deposits : \E i \in D : key[i] = r
    OBVIOUS
  <2>2. ASSUME NEW r \in Deposits
        PROVE  g[r] = SumFunctionOnSet(Amounts(stakes), Group(D, key, r))
    <3>0. PICK i \in D : r = deposit(i)
      OBVIOUS
    <3>1. Group(D, key, r) = {j \in D : a(j) = a(i)}
      BY <3>0 DEF StakerId, Group
    <3>2. g[r] = StakedBy(stakes, a(i))
      BY <3>0
    <3>3. StakedBy(stakes, a(i)) = SumFunctionOnSet(Amounts(stakes), {j \in D : a(j) = a(i)})
      BY ONLY <1>0
    <3> QED
      BY ONLY <3>1, <3>2, <3>3
  <2> HIDE DEF Deposits, key, g
  <2>3. IsFiniteSet(Deposits)
    BY <2>1, KeysFinite
  <2>4. SumsByKey(g, Deposits, key, Amounts(stakes), D)
    BY <1>3, <2>1, <2>2, <2>3 DEF SumsByKey
  <2>5. SumFunctionOnSet(g, Deposits) = SumFunctionOnSet(Amounts(stakes), D)
    BY <2>4, SumGroups
  <2> QED
    BY <2>5 DEF g
<1>6. SumFunctionOnSet([d \in Held |-> d.total], Held) = all
  <2> DEFINE key == [i \in D |-> held(i)]
             g == [d \in Held |-> d.total]
  <2>1. /\ \A i \in D : key[i] \in Held
        /\ \A r \in Held : \E i \in D : key[i] = r
    OBVIOUS
  <2>2. ASSUME NEW r \in Held
        PROVE  g[r] = SumFunctionOnSet(Amounts(stakes), Group(D, key, r))
    <3>0. PICK i \in D : r = held(i)
      OBVIOUS
    <3>1. Group(D, key, r) = {j \in D : v(j) = v(i)}
      BY <3>0 DEF StakerId, Group
    <3>2. g[r] = StakedWith(stakes, v(i))
      BY <3>0
    <3>3. StakedWith(stakes, v(i)) = SumFunctionOnSet(Amounts(stakes), {j \in D : v(j) = v(i)})
      BY ONLY <1>0
    <3> QED
      BY ONLY <3>1, <3>2, <3>3
  <2> HIDE DEF Held, key, g
  <2>3. IsFiniteSet(Held)
    BY <2>1, KeysFinite
  <2>4. SumsByKey(g, Held, key, Amounts(stakes), D)
    BY <1>3, <2>1, <2>2, <2>3 DEF SumsByKey
  <2>5. SumFunctionOnSet(g, Held) = SumFunctionOnSet(Amounts(stakes), D)
    BY <2>4, SumGroups
  <2> QED
    BY <2>5 DEF g
<1>7. SumFunctionOnSet([d \in Shares |-> d.share], Shares) = all
  <2> DEFINE key == [i \in D |-> share(i)]
             g == [d \in Shares |-> d.share]
  <2>1. /\ \A i \in D : key[i] \in Shares
        /\ \A r \in Shares : \E i \in D : key[i] = r
    OBVIOUS
  <2>2. ASSUME NEW r \in Shares
        PROVE  g[r] = SumFunctionOnSet(Amounts(stakes), Group(D, key, r))
    <3>0. PICK i \in D : r = share(i)
      OBVIOUS
    <3>1. Group(D, key, r) = {j \in D : a(j) = a(i) /\ v(j) = v(i)}
      BY <3>0 DEF StakerId, Group
    <3>2. g[r] = StakedByWith(stakes, a(i), v(i))
      BY <3>0
    <3>3. StakedByWith(stakes, a(i), v(i)) = SumFunctionOnSet(Amounts(stakes), {j \in D : a(j) = a(i) /\ v(j) = v(i)})
      BY ONLY <1>0
    <3> QED
      BY ONLY <3>1, <3>2, <3>3
  <2> HIDE DEF Shares, key, g
  <2>3. IsFiniteSet(Shares)
    BY <2>1, KeysFinite
  <2>4. SumsByKey(g, Shares, key, Amounts(stakes), D)
    BY <1>3, <2>1, <2>2, <2>3 DEF SumsByKey
  <2>5. SumFunctionOnSet(g, Shares) = SumFunctionOnSet(Amounts(stakes), D)
    BY <2>4, SumGroups
  <2> QED
    BY <2>5 DEF g
<1>8. Listed(state) = Held
  <2> HIDE DEF state
  <2> QED
    BY <1>2 DEF Listed
<1>9. all \in Nat
  BY <1>3, SumType
<1>10. /\ DepositsOf(state, asset) = all
       /\ DelegatedOf(state, asset) = all
       /\ SharesOf(state, asset) = all
  <2> HIDE DEF state, Deposits, Held, Shares, all
  <2> QED
    BY <1>2, <1>4, <1>5, <1>6, <1>7, <1>8
       DEF DepositsOf, DelegatedOf, SharesOf, Total, SumFunction
<1>11. \A t \in state.assets.tokens : t.asset = asset /\ t.total = all
  <2> HIDE DEF state
  <2> QED
    BY <1>2, StakedSums
<1>12. \A t \in state.assets.tokens : TokenBalanced(state, t)
  <2>1. asset.chain # "EVM"
    BY DEF AssetId, UtxoChains
  <2> HIDE DEF state, all
  <2> QED
    BY <1>9, <1>10, <1>11, <2>1 DEF TokenBalanced, SlackOfBooks
<1>13. \A x \in state.assets.tokens \cup state.assets.deposits
                \cup state.assets.operatorAssets \cup state.delegation.states :
           x.asset = asset
  <2> HIDE DEF state
  <2> QED
    BY <1>2
<1>14. asset.chain = c
  BY DEF AssetId
<1> HIDE DEF state
<1>15. \A t, u \in state.assets.tokens : u.asset = t.asset => u = t
  BY <1>2
<1>16. \E t \in state.assets.tokens : t.asset = asset
  BY <1>2
<1> QED
  BY <1>2, <1>12, <1>13, <1>14, <1>15, <1>16 DEF Balanced, state

\* Sums of amounts by a key, every sum rounded.
RoundsByKey(h, R, key, f, S) ==
    /\ IsFiniteSet(S) /\ IsFiniteSet(R)
    /\ \A x \in S : f[x] \in Nat /\ key[x] \in R
    /\ \A r \in R : h[r] = Rounded(SumFunctionOnSet(f, Group(S, key, r)))

\* a is b but for the roundings of n numbers below m.
WithinDigits(a, b, n, m) ==
    /\ a \in Int
    /\ 2 * (a - b) <= n * LastDigit(m)
    /\ 2 * (b - a) <= n * LastDigit(m)

LEMMA RoundsWithin ==
    ASSUME NEW S, NEW R, NEW f, NEW key, NEW h, RoundsByKey(h, R, key, f, S),
           NEW m \in Nat, SumFunctionOnSet(f, S) <= m
    PROVE  WithinDigits(SumFunctionOnSet(h, R), SumFunctionOnSet(f, S),
                        Cardinality(R), m)
<1> DEFINE g == [r \in R |-> SumFunctionOnSet(f, Group(S, key, r))]
           twice == [r \in R |-> g[r] * 2]
<1>1. /\ IsFiniteSet(S) /\ IsFiniteSet(R)
      /\ \A x \in S : f[x] \in Nat /\ key[x] \in R
      /\ \A r \in R : g[r] = SumFunctionOnSet(f, Group(S, key, r))
      /\ \A r \in R : h[r] = Rounded(g[r])
  BY DEF RoundsByKey
<1>2. \A r \in R : g[r] \in Nat
  <2>1. ASSUME NEW r \in R
        PROVE  SumFunctionOnSet(f, Group(S, key, r)) \in Nat
    <3>1. /\ IsFiniteSet(Group(S, key, r))
          /\ \A x \in Group(S, key, r) : f[x] \in Nat
      BY <1>1, FS_Subset DEF Group
    <3> QED
      BY <3>1, SumType
  <2> QED
    BY <2>1
<1>3. \A r \in R : twice[r] = g[r] * 2
  OBVIOUS
<1> HIDE DEF g, twice
<1>4. SumFunctionOnSet(g, R) = SumFunctionOnSet(f, S)
  BY <1>1, SumGroups DEF SumsByKey
<1>5. SumFunctionOnSet(twice, R) = SumFunctionOnSet(g, R) * 2
  BY <1>1, <1>2, <1>3, SumScale
<1>6. PICK e \in Nat : e = LastDigit(m)
  BY UlpType DEF LastDigit
<1>7. ASSUME NEW r \in R
      PROVE  /\ h[r] \in Int /\ twice[r] \in Nat
             /\ h[r] * 2 - twice[r] <= e /\ twice[r] - h[r] * 2 <= e
  <2>1. PICK n \in Nat : n = g[r] /\ n <= m
    <3>1. g[r] <= SumFunctionOnSet(g, R) /\ SumFunctionOnSet(g, R) \in Nat
      BY <1>1, <1>2, SumRemove, SumType
    <3> QED
      BY <1>2, <1>4, <3>1
  <2>2. PICK q \in Nat, u \in Nat, v \in Nat :
            /\ q = Rounded(n) /\ u = Ulp[n] /\ v = Ulp[m] /\ u <= v
            /\ Near(q, n, u) /\ (n < Exact => q = n)
    BY <2>1, RoundedFacts, UlpType, UlpMonotone
  <2>3. Exact \in Nat
    BY ExactFacts
  <2>4. e = IF m < Exact THEN 0 ELSE v
    BY <1>6, <2>2 DEF LastDigit
  <2> QED
    BY <1>1, <1>3, <2>1, <2>2, <2>3, <2>4 DEF Near
<1>8. PICK k \in Int : k = SumFunctionOnSet(h, R)
                       /\ k * 2 - SumFunctionOnSet(twice, R) <= Cardinality(R) * e
                       /\ SumFunctionOnSet(twice, R) - k * 2 <= Cardinality(R) * e
  BY <1>1, <1>6, <1>7, SumWithin
<1>9. PICK n \in Nat, b \in Nat : n = Cardinality(R) * e /\ b = SumFunctionOnSet(g, R)
  <2>1. Cardinality(R) \in Nat
    BY <1>1, FS_CardinalityType
  <2>2. SumFunctionOnSet(g, R) \in Nat
    BY <1>1, <1>2, SumType
  <2> QED
    BY <1>6, <2>1, <2>2
<1>10. 2 * (k - b) <= n /\ 2 * (b - k) <= n
  BY <1>5, <1>8, <1>9
<1> QED
  BY <1>4, <1>6, <1>8, <1>9, <1>10 DEF WithinDigits

LEMMA MinusZero ==
    ASSUME NEW n \in Nat
    PROVE  Minus(n, 0) = Rounded(n)
BY DEF Minus

\* What generate.mjs writes for Bootstrap: every deposit is an entry, and an
\* operator's assets are the sum of the delegations to it, rounded.
LEMMA EvmBalanced ==
    ASSUME boot \in BootStates, registered \in Registrations,
           \A d \in boot.delegations : d.operator \in registered
    PROVE  Balanced(EvmGenesisState(boot, registered))
<1> DEFINE state == EvmGenesisState(boot, registered)
           Tokens == ToSet(boot.tokens)
           Evm(address) == [address |-> address, chain |-> "EVM"]
           amount(S) == [d \in S |-> d.amount]
           deposit(d) == [staker |-> StakerId(d.staker, "EVM"),
                          asset |-> Evm(d.token), total |-> d.amount]
           share(d) == [staker |-> StakerId(d.staker, "EVM"),
                        asset |-> Evm(d.token), operator |-> d.operator,
                        share |-> Rounded(d.amount)]
           deposited(x) == {d \in boot.deposits : d.token = x}
           delegated(x) == {d \in boot.delegations : d.token = x}
           kept(x) == {d \in delegated(x) : d.operator \notin boot.invalid}
           held(v, x) == {d \in delegated(x) : d.operator = v}
           Sum(S) == SumFunctionOnSet(amount(S), S)
           entry(v, x) == [operator |-> v, asset |-> Evm(x),
                           total |-> Rounded(Sum(held(v, x)))]
           Deposits(x) == {deposit(d) : d \in deposited(x)}
           Shares(x) == {share(d) : d \in kept(x)}
           Held(x) == {entry(v, x) : v \in registered \ boot.invalid}
           Dep(x) == Deposited(boot, LAMBDA d : d.token = x)
           Del(v, x) == DelegationValue(boot,
                            LAMBDA d : d.operator = v /\ d.token = x)
<1>1. /\ IsFiniteSet(boot.deposits) /\ IsFiniteSet(boot.delegations)
      /\ IsFiniteSet(registered)
      /\ \A t, u \in Tokens : t.address = u.address => t = u
      /\ \A d \in boot.deposits \cup boot.delegations :
             d.amount \in Nat /\ \E t \in Tokens : d.token = t.address
      /\ \A d, e \in boot.deposits :
             d.staker = e.staker /\ d.token = e.token => d = e
      /\ \A d, e \in boot.delegations :
             /\ d.staker = e.staker /\ d.token = e.token
             /\ d.operator = e.operator
             => d = e
      /\ \A t \in Tokens : Delegated(boot, LAMBDA d : d.token = t.address)
                               <= Deposited(boot, LAMBDA d : d.token = t.address)
  BY BootAssumption, RegistrationsAssumption
<1>2. /\ \A x : Dep(x) = Sum(deposited(x))
      /\ \A x : Delegated(boot, LAMBDA d : d.token = x) = Sum(delegated(x))
      /\ \A v, x : Sum(held(v, x)) \in Nat /\ Del(v, x) = Rounded(Sum(held(v, x)))
  <2>1. \A v, x : {d \in boot.delegations : d.operator = v /\ d.token = x} = held(v, x)
    OBVIOUS
  <2>2. ASSUME NEW v, NEW x
        PROVE  Sum(held(v, x)) \in Nat
    <3> DEFINE S == held(v, x)
               f == amount(S)
    <3>1. /\ S \subseteq boot.delegations
          /\ \A d \in S : f[d] \in Nat
      BY <1>1
    <3> HIDE DEF S, f
    <3>2. IsFiniteSet(S)
      BY <1>1, <3>1, FS_Subset
    <3>3. SumFunctionOnSet(f, S) \in Nat
      BY <3>1, <3>2, SumType
    <3> QED
      BY <3>3 DEF S, f
  <2>3. ASSUME NEW v, NEW x
        PROVE  Del(v, x) = Minus(Sum(held(v, x)), 0)
    BY <2>1 DEF DelegationValue, Delegated, SumFunction
  <2> HIDE DEF Sum, held
  <2>4. \A v, x : Del(v, x) = Rounded(Sum(held(v, x)))
    <3> HIDE DEF Del
    <3> QED
      BY <2>2, <2>3, MinusZero
  <2>5. \A x : Dep(x) = Sum(deposited(x))
    BY DEF Deposited, SumFunction, Sum
  <2>6. \A x : Delegated(boot, LAMBDA d : d.token = x) = Sum(delegated(x))
    BY DEF Delegated, SumFunction, Sum
  <2> QED
    BY <2>2, <2>4, <2>5, <2>6
<1>3. \A d \in boot.deposits \cup boot.delegations :
          EvmAsset(TokenAt(boot, d.token)) = Evm(d.token)
  BY <1>1 DEF EvmAsset, TokenAt
<1>4. /\ state.assets.clientChains = {"EVM"}
      /\ state.assets.tokens =
             {[asset |-> Evm(t.address), total |-> Sum(deposited(t.address))] :
                 t \in Tokens}
      /\ state.assets.deposits = {deposit(d) : d \in boot.deposits}
      /\ state.assets.operatorAssets =
             {entry(v, t.address) : v \in registered, t \in Tokens}
      /\ state.delegation.states = {share(d) : d \in KeptDelegations(boot)}
  <2>1. state.assets = EvmAssets(boot, registered)
        /\ state.delegation = EvmDelegation(boot, registered)
    BY DEF EvmGenesisState
  <2> HIDE DEF state, Sum, deposited, held
  <2>2. /\ state.assets.clientChains = {"EVM"}
        /\ state.assets.tokens =
             {[asset |-> Evm(t.address), total |-> Dep(t.address)] : t \in Tokens}
    BY <2>1 DEF EvmAssets, EvmAsset
  <2>3. state.assets.operatorAssets =
             {[operator |-> v, asset |-> Evm(t.address), total |-> Del(v, t.address)] :
                 v \in registered, t \in Tokens}
    BY <2>1 DEF EvmAssets, EvmAsset
  <2>4. state.assets.deposits =
            {[staker |-> StakerId(d.staker, "EVM"),
              asset |-> EvmAsset(TokenAt(boot, d.token)), total |-> d.amount] :
                d \in boot.deposits}
    BY <2>1 DEF EvmAssets
  <2>5. state.delegation.states =
            {[staker |-> StakerId(d.staker, "EVM"),
              asset |-> EvmAsset(TokenAt(boot, d.token)), operator |-> d.operator,
              share |-> Minus(d.amount, 0)] : d \in KeptDelegations(boot)}
    BY <2>1 DEF EvmDelegation
  <2>6. state.assets.deposits = {deposit(d) : d \in boot.deposits}
    BY <2>4, <1>3
  <2>7. state.delegation.states = {share(d) : d \in KeptDelegations(boot)}
    <3>1. \A d \in KeptDelegations(boot) : Minus(d.amount, 0) = Rounded(d.amount)
      BY <1>1, MinusZero DEF KeptDelegations
    <3> QED
      BY <2>5, <3>1, <1>3 DEF KeptDelegations
  <2> HIDE DEF Dep, Del, Evm
  <2>8. {[asset |-> Evm(t.address), total |-> Dep(t.address)] : t \in Tokens} =
        {[asset |-> Evm(t.address), total |-> Sum(deposited(t.address))] :
            t \in Tokens}
    BY <1>2
  <2>9. {[operator |-> v, asset |-> Evm(t.address), total |-> Del(v, t.address)] :
                 v \in registered, t \in Tokens} =
        {entry(v, t.address) : v \in registered, t \in Tokens}
    BY <1>2
  <2> QED
    BY <2>2, <2>3, <2>6, <2>7, <2>8, <2>9
<1>5. ASSUME NEW x
      PROVE  SumFunctionOnSet([y \in Deposits(x) |-> y.total], Deposits(x)) = Sum(deposited(x))
  <2> DEFINE S == deposited(x)
             R == Deposits(x)
             key == [d \in S |-> deposit(d)]
             f == amount(S)
             g == [y \in R |-> y.total]
  <2>1. /\ \A d \in S : key[d] \in R /\ f[d] \in Nat
        /\ \A r \in R : \E d \in S : key[d] = r
    BY <1>1
  <2>2. ASSUME NEW r \in R
        PROVE  g[r] = SumFunctionOnSet(f, Group(S, key, r))
    <3>1. PICK d \in S : r = deposit(d)
      OBVIOUS
    <3>2. Group(S, key, r) = {d}
      BY <1>1, <3>1 DEF Group, StakerId
    <3>3. f[d] = d.amount /\ f[d] \in Nat /\ g[r] = d.amount
      BY <1>1, <3>1
    <3>4. SumFunctionOnSet(f, {d}) = f[d]
      <4> HIDE DEF f
      <4> QED
        BY <3>3, SumOne
    <3> QED
      BY ONLY <3>2, <3>3, <3>4
  <2>3. IsFiniteSet(S)
    BY <1>1, FS_Subset
  <2> HIDE DEF S, R, key, f, g
  <2>4. IsFiniteSet(R)
    BY <2>1, <2>3, KeysFinite
  <2>5. SumsByKey(g, R, key, f, S)
    BY <2>1, <2>2, <2>3, <2>4 DEF SumsByKey
  <2>6. SumFunctionOnSet(g, R) = SumFunctionOnSet(f, S)
    BY <2>5, SumGroups
  <2> QED
    BY <2>6 DEF S, R, f, g
<1>6. ASSUME NEW x
      PROVE  /\ RoundsByKey([y \in Shares(x) |-> y.share], Shares(x),
                            [d \in kept(x) |-> share(d)], amount(kept(x)), kept(x))
             /\ IsFiniteSet(Shares(x))
  <2> DEFINE S == kept(x)
             R == Shares(x)
             key == [d \in S |-> share(d)]
             f == amount(S)
             g == [y \in R |-> y.share]
  <2>1. /\ \A d \in S : key[d] \in R /\ f[d] \in Nat
        /\ \A r \in R : \E d \in S : key[d] = r
    BY <1>1
  <2>2. ASSUME NEW r \in R
        PROVE  g[r] = Rounded(SumFunctionOnSet(f, Group(S, key, r)))
    <3>1. PICK d \in S : r = share(d)
      OBVIOUS
    <3>2. Group(S, key, r) = {d}
      BY <1>1, <3>1 DEF Group, StakerId
    <3>3. f[d] = d.amount /\ f[d] \in Nat /\ g[r] = Rounded(d.amount)
      BY <1>1, <3>1
    <3>4. SumFunctionOnSet(f, {d}) = f[d]
      <4> HIDE DEF f
      <4> QED
        BY <3>3, SumOne
    <3> QED
      BY ONLY <3>2, <3>3, <3>4
  <2>3. IsFiniteSet(S)
    BY <1>1, FS_Subset
  <2> HIDE DEF S, R, key, f, g
  <2>4. IsFiniteSet(R)
    BY <2>1, <2>3, KeysFinite
  <2>5. RoundsByKey(g, R, key, f, S)
    BY <2>1, <2>2, <2>3, <2>4 DEF RoundsByKey
  <2> QED
    BY <2>4, <2>5 DEF S, R, key, f, g
<1>7. ASSUME NEW x
      PROVE  /\ RoundsByKey([y \in Held(x) |-> y.total], Held(x),
                            [d \in kept(x) |-> entry(d.operator, x)],
                            amount(kept(x)), kept(x))
             /\ IsFiniteSet(Held(x))
  <2> DEFINE S == kept(x)
             R == Held(x)
             key == [d \in S |-> entry(d.operator, x)]
             byOperator == [v \in registered \ boot.invalid |-> entry(v, x)]
             f == amount(S)
             g == [y \in R |-> y.total]
  <2>1. /\ \A d \in S : key[d] \in R /\ f[d] \in Nat
        /\ \A r \in R : \E v \in registered \ boot.invalid : byOperator[v] = r
    <3> HIDE DEF entry
    <3> QED
      BY <1>1
  <2>2. ASSUME NEW r \in R
        PROVE  g[r] = Rounded(SumFunctionOnSet(f, Group(S, key, r)))
    <3>1. PICK v \in registered \ boot.invalid : r = entry(v, x)
      OBVIOUS
    <3>2. Group(S, key, r) = held(v, x)
      BY <3>1 DEF Group
    <3>3. g[r] = Rounded(SumFunctionOnSet(amount(held(v, x)), held(v, x)))
      BY <3>1
    <3>4. SumFunctionOnSet(f, held(v, x)) = SumFunctionOnSet(amount(held(v, x)), held(v, x))
      <4>1. \A d \in held(v, x) :
               f[d] \in Nat /\ amount(held(v, x))[d] \in Nat
               /\ f[d] = amount(held(v, x))[d]
        BY <1>1
      <4>2. IsFiniteSet(held(v, x))
        BY <1>1, FS_Subset
      <4> HIDE DEF f, held, amount
      <4> QED
        BY <4>1, <4>2, SumSame
    <3> QED
      BY ONLY <3>2, <3>3, <3>4
  <2>3. IsFiniteSet(S) /\ IsFiniteSet(registered \ boot.invalid)
    BY <1>1, FS_Subset
  <2> HIDE DEF S, R, key, f, g
  <2>4. IsFiniteSet(R)
    <3> HIDE DEF byOperator
    <3> QED
      BY <2>1, <2>3, KeysFinite
  <2>5. RoundsByKey(g, R, key, f, S)
    BY <2>1, <2>2, <2>3, <2>4 DEF RoundsByKey
  <2> QED
    BY <2>4, <2>5 DEF S, R, key, f, g
<1>8. \A x : /\ Sum(deposited(x)) \in Nat /\ Sum(delegated(x)) \in Nat
            /\ Sum(kept(x)) \in Nat /\ Sum(kept(x)) <= Sum(delegated(x))
  <2>1. ASSUME NEW x
        PROVE  /\ Sum(deposited(x)) \in Nat /\ Sum(delegated(x)) \in Nat
               /\ Sum(kept(x)) \in Nat /\ Sum(kept(x)) <= Sum(delegated(x))
    <3> DEFINE K == kept(x)
               S == delegated(x)
               T == deposited(x)
               k == amount(K)
               f == amount(S)
               h == amount(T)
    <3>1. /\ K \in SUBSET S
          /\ \A d \in S : f[d] \in Nat
          /\ \A d \in K : f[d] \in Nat /\ k[d] \in Nat /\ k[d] = f[d]
          /\ \A d \in T : h[d] \in Nat
      BY <1>1
    <3>2. IsFiniteSet(S) /\ IsFiniteSet(T)
      BY <1>1, FS_Subset
    <3> HIDE DEF K, S, T, k, f, h
    <3>3. IsFiniteSet(K)
      BY <3>1, <3>2, FS_Subset
    <3>4. SumFunctionOnSet(k, K) = SumFunctionOnSet(f, K)
      BY <3>1, <3>3, SumSame
    <3>5. SumFunctionOnSet(f, K) <= SumFunctionOnSet(f, S)
      BY <3>1, <3>2, SumSubset
    <3>6. /\ SumFunctionOnSet(k, K) \in Nat /\ SumFunctionOnSet(f, S) \in Nat
          /\ SumFunctionOnSet(h, T) \in Nat
      BY <3>1, <3>2, <3>3, SumType
    <3> QED
      BY <3>4, <3>5, <3>6 DEF K, S, T, k, f, h
  <2> QED
    BY <2>1
<1>9. ASSUME NEW t \in Tokens
      PROVE  /\ DepositsOf(state, Evm(t.address)) = Sum(deposited(t.address))
             /\ StatesOf(state, Evm(t.address)) = Shares(t.address)
             /\ ListedOf(state, Evm(t.address)) = Held(t.address)
             /\ WithinDigits(SharesOf(state, Evm(t.address)),
                             Sum(kept(t.address)),
                             Cardinality(Shares(t.address)),
                             Sum(deposited(t.address)))
             /\ WithinDigits(DelegatedOf(state, Evm(t.address)),
                             Sum(kept(t.address)), Cardinality(Held(t.address)),
                             Sum(deposited(t.address)))
             /\ Sum(delegated(t.address)) <= Sum(deposited(t.address))
  <2> DEFINE x == t.address
  <2>1. {y \in state.assets.deposits : y.asset = Evm(x)} = Deposits(x)
    <3> HIDE DEF state, Sum, held
    <3> QED
      BY <1>4
  <2>2. {y \in state.delegation.states : y.asset = Evm(x)} = Shares(x)
    <3> HIDE DEF state, Sum, held
    <3> QED
      BY <1>4 DEF KeptDelegations
  <2>3. {y \in Listed(state) : y.asset = Evm(x)} = Held(x)
    <3> HIDE DEF state, Sum, held
    <3> QED
      BY <1>1, <1>4 DEF Listed
  <2>4. Sum(delegated(x)) <= Sum(deposited(x))
    <3>1. Delegated(boot, LAMBDA d : d.token = x) <= Dep(x)
      BY <1>1
    <3> QED
      BY <1>2, <3>1
  <2>5. PICK m \in Nat : m = Sum(deposited(x)) /\ Sum(kept(x)) <= m
    <3> HIDE DEF Sum, deposited, kept, delegated
    <3> QED
      BY <1>8, <2>4
  <2>6. WithinDigits(SumFunctionOnSet([y \in Shares(x) |-> y.share], Shares(x)),
                     Sum(kept(x)), Cardinality(Shares(x)), m)
    <3> DEFINE S == kept(x)
               R == Shares(x)
               f == amount(S)
               h == [y \in R |-> y.share]
               key == [d \in S |-> share(d)]
    <3>1. RoundsByKey(h, R, key, f, S) /\ SumFunctionOnSet(f, S) <= m
      BY <1>6, <2>5
    <3> HIDE DEF S, R, f, h, key
    <3>2. WithinDigits(SumFunctionOnSet(h, R), SumFunctionOnSet(f, S),
                       Cardinality(R), m)
      BY <3>1, RoundsWithin
    <3> QED
      BY <3>2 DEF S, R, f, h
  <2>7. WithinDigits(SumFunctionOnSet([y \in Held(x) |-> y.total], Held(x)),
                     Sum(kept(x)), Cardinality(Held(x)), m)
    <3> DEFINE S == kept(x)
               R == Held(x)
               f == amount(S)
               h == [y \in R |-> y.total]
               key == [d \in S |-> entry(d.operator, x)]
    <3>1. RoundsByKey(h, R, key, f, S) /\ SumFunctionOnSet(f, S) <= m
      BY <1>7, <2>5
    <3> HIDE DEF S, R, f, h, key
    <3>2. WithinDigits(SumFunctionOnSet(h, R), SumFunctionOnSet(f, S),
                       Cardinality(R), m)
      BY <3>1, RoundsWithin
    <3> QED
      BY <3>2 DEF S, R, f, h
  <2> HIDE DEF state, Deposits, Shares, Held, Sum, deposited, kept, delegated
  <2>8. DepositsOf(state, Evm(x)) = Sum(deposited(x))
    BY <1>5, <2>1 DEF DepositsOf, Total, SumFunction
  <2>9. SharesOf(state, Evm(x)) =
            SumFunctionOnSet([y \in Shares(x) |-> y.share], Shares(x))
    BY <2>2 DEF SharesOf, Total, SumFunction
  <2>10. DelegatedOf(state, Evm(x)) =
             SumFunctionOnSet([y \in Held(x) |-> y.total], Held(x))
    BY <2>3 DEF DelegatedOf, Total, SumFunction
  <2> QED
    BY <2>2, <2>3, <2>4, <2>5, <2>6, <2>7, <2>8, <2>9, <2>10
       DEF ListedOf, StatesOf
<1>10. ASSUME NEW x
       PROVE  /\ Cardinality(Shares(x)) \in Nat /\ Cardinality(Held(x)) \in Nat
              /\ Cardinality(Held(x) \cup Shares(x)) =
                     Cardinality(Held(x)) + Cardinality(Shares(x))
  <2>1. IsFiniteSet(Shares(x)) /\ IsFiniteSet(Held(x))
    BY <1>6, <1>7
  <2>2. Held(x) \cap Shares(x) = {}
    <3>1. ASSUME NEW y \in Held(x)  PROVE "share" \notin DOMAIN y
      <4>1. PICK a, b, c : y = [operator |-> a, asset |-> b, total |-> c]
        OBVIOUS
      <4> HIDE DEF Held
      <4> QED
        BY <4>1
    <3>2. ASSUME NEW y \in Shares(x)  PROVE "share" \in DOMAIN y
      OBVIOUS
    <3> HIDE DEF Held, Shares
    <3> QED
      BY <3>1, <3>2
  <2> HIDE DEF Held, Shares
  <2>3. Cardinality(Shares(x)) \in Nat /\ Cardinality(Held(x)) \in Nat
    BY <2>1, FS_CardinalityType
  <2>4. Cardinality(Held(x) \cup Shares(x)) =
            Cardinality(Held(x)) + Cardinality(Shares(x))
                - Cardinality(Held(x) \cap Shares(x))
    BY <2>1, FS_Union
  <2>5. Cardinality(Held(x) \cap Shares(x)) = 0
    BY <2>2, FS_EmptySet
  <2> QED
    BY <2>3, <2>4, <2>5
<1> HIDE DEF Tokens, Sum, deposited, delegated, kept, held, state, Held, Shares
<1>11. \A t \in state.assets.tokens :
           \E u \in Tokens : t = [asset |-> Evm(u.address),
                                 total |-> Sum(deposited(u.address))]
  BY <1>4
<1>12. \A t \in state.assets.tokens : TokenBalanced(state, t)
  <2>1. ASSUME NEW t \in state.assets.tokens
        PROVE  TokenBalanced(state, t)
    <3>1. PICK u \in Tokens : t = [asset |-> Evm(u.address),
                                  total |-> Sum(deposited(u.address))]
      BY <1>11
    <3>2. t.asset = Evm(u.address) /\ t.total = Sum(deposited(u.address))
      BY <3>1
    <3>3. t.asset.chain \notin UtxoChains
      BY <3>2 DEF UtxoChains
    <3>4. PICK x : x = u.address
      OBVIOUS
    <3>5. PICK k \in Nat, m \in Nat, c \in Nat, n \in Nat, e \in Nat :
              /\ k = Sum(kept(x)) /\ m = Sum(deposited(x)) /\ k <= m
              /\ c = Cardinality(Held(x)) /\ n = Cardinality(Shares(x))
              /\ c + n = Cardinality(Held(x) \cup Shares(x))
              /\ e = LastDigit(m)
      <4>1. /\ Sum(deposited(x)) \in Nat /\ Sum(delegated(x)) \in Nat
            /\ Sum(kept(x)) \in Nat /\ Sum(kept(x)) <= Sum(delegated(x))
            /\ Sum(delegated(x)) <= Sum(deposited(x))
        BY <1>8, <1>9, <3>4
      <4>2. LastDigit(Sum(deposited(x))) \in Nat
        BY <4>1, UlpType DEF LastDigit
      <4> QED
        BY <1>10, <4>1, <4>2
    <3>6. PICK a \in Int, b \in Int :
              /\ a = DelegatedOf(state, t.asset) /\ b = SharesOf(state, t.asset)
              /\ 2 * (a - k) <= c * e /\ 2 * (k - a) <= c * e
              /\ 2 * (b - k) <= n * e /\ 2 * (k - b) <= n * e
      BY <1>9, <3>2, <3>4, <3>5 DEF WithinDigits
    <3>7. PICK p \in Int, q \in Int : p = c * e /\ q = n * e /\ (c + n) * e = p + q
      OBVIOUS
    <3>8. /\ 2 * (b - a) <= p + q /\ 2 * (a - b) <= p + q
          /\ 2 * (a - m) <= p
      BY <3>5, <3>6, <3>7
    <3>9. /\ SlackOfBooks(t, Held(x) \cup Shares(x)) = p + q
          /\ SlackOfBooks(t, Held(x)) = p
      BY <3>2, <3>4, <3>5, <3>7 DEF SlackOfBooks
    <3>10. /\ ListedOf(state, t.asset) = Held(x)
           /\ StatesOf(state, t.asset) = Shares(x)
           /\ DepositsOf(state, t.asset) = m /\ t.total = m
      BY <1>9, <3>2, <3>4, <3>5
    <3> QED
      BY <3>3, <3>6, <3>8, <3>9, <3>10 DEF TokenBalanced
  <2> QED
    BY <2>1
<1>13. \A t, u \in state.assets.tokens : u.asset = t.asset => u = t
  BY <1>11
<1>14. \A d \in state.assets.deposits :
           \E t \in state.assets.tokens : d.asset = t.asset
  <2>1. ASSUME NEW d \in state.assets.deposits
        PROVE  \E t \in state.assets.tokens : d.asset = t.asset
    <3>1. PICK e \in boot.deposits : d = deposit(e)
      BY <1>4
    <3>2. PICK u \in Tokens : e.token = u.address
      BY <1>1
    <3>3. PICK t : t = [asset |-> Evm(u.address), total |-> Sum(deposited(u.address))]
      OBVIOUS
    <3>4. t \in state.assets.tokens
      BY <1>4, <3>3
    <3>5. d.asset = t.asset
      BY <3>1, <3>2, <3>3
    <3> QED
      BY <3>4, <3>5
  <2> QED
    BY <2>1
<1>15. \A x \in state.assets.tokens \cup state.assets.deposits
                \cup state.assets.operatorAssets \cup state.delegation.states :
           x.asset.chain = "EVM"
  BY <1>4
<1> QED
  BY <1>4, <1>12, <1>13, <1>14, <1>15 DEF Balanced, state

\* The world the generators read.
WorldInv ==
    /\ boot \in BootStates /\ registered \in Registrations
    /\ \A d \in boot.delegations : d.operator \in registered

------------------------------------------------------------------------------
(* Sorting.  The position of an element in a strict total order is the      *)
(* number of those before it, so that there is an order to choose.          *)

\* A list p of D in the order R, a strict total one, and what comes before x.
OrderedBy(R, p, D) == \A i, j \in D : i < j => <<p[i], p[j]>> \in R

TotalOrder(R, D) ==
    /\ \A x \in D : <<x, x>> \notin R
    /\ \A x, y, z \in D : <<x, y>> \in R /\ <<y, z>> \in R => <<x, z>> \in R
    /\ \A x, y \in D : x = y \/ <<x, y>> \in R \/ <<y, x>> \in R

Below(R, D, x) == {y \in D : <<y, x>> \in R}

\* Every element has a position, and so there is such a list.
LEMMA PositionsExist ==
    ASSUME NEW n \in Nat, NEW R, NEW D, D = 1..n, TotalOrder(R, D)
    PROVE  \E pos \in Bijection(D, D) :
               \A x, y \in D : <<x, y>> \in R => pos[x] < pos[y]
<1>1. IsFiniteSet(D) /\ Cardinality(D) = n
  BY FS_Interval
<1>2. ASSUME NEW x \in D
      PROVE  IsFiniteSet(Below(R, D, x)) /\ Cardinality(Below(R, D, x)) \in 0..(n - 1)
  <2>1. IsFiniteSet(D \ {x}) /\ Cardinality(D \ {x}) = n - 1
    BY <1>1, FS_RemoveElement
  <2>2. Below(R, D, x) \in SUBSET (D \ {x})
    BY DEF TotalOrder, Below
  <2>3. /\ IsFiniteSet(Below(R, D, x))
        /\ Cardinality(Below(R, D, x)) <= n - 1
    BY <2>1, <2>2, FS_Subset
  <2>4. Cardinality(Below(R, D, x)) \in Nat
    BY <2>3, FS_CardinalityType
  <2> QED
    BY <2>3, <2>4
<1>3. ASSUME NEW x \in D, NEW y \in D, <<x, y>> \in R
      PROVE  Cardinality(Below(R, D, x)) < Cardinality(Below(R, D, y))
  <2>1. x \in Below(R, D, y)
    BY <1>3 DEF Below
  <2>2. Below(R, D, x) \in SUBSET (Below(R, D, y) \ {x})
    BY <1>3 DEF Below, TotalOrder
  <2>3. /\ IsFiniteSet(Below(R, D, y) \ {x})
        /\ Cardinality(Below(R, D, y) \ {x}) = Cardinality(Below(R, D, y)) - 1
    BY <1>2, <2>1, FS_RemoveElement
  <2>4. Cardinality(Below(R, D, x)) <= Cardinality(Below(R, D, y) \ {x})
    BY <2>2, <2>3, FS_Subset
  <2> QED
    BY <1>2, <2>3, <2>4
<1>4. PICK pos : pos = [x \in D |-> Cardinality(Below(R, D, x)) + 1]
  OBVIOUS
<1>5. pos \in [D -> D]
  <2>1. ASSUME NEW x \in D
        PROVE  Cardinality(Below(R, D, x)) + 1 \in D
    <3>1. PICK c \in 0..(n - 1) : c = Cardinality(Below(R, D, x))
      BY <1>2
    <3>2. c + 1 \in 1..n
      OBVIOUS
    <3> QED
      BY <3>1, <3>2
  <2> QED
    BY <1>4, <2>1
<1>6. \A x, y \in D : <<x, y>> \in R => pos[x] < pos[y]
  BY <1>2, <1>3, <1>4
<1>7. \A x, y \in D : pos[x] = pos[y] => x = y
  <2>1. \A x \in D : pos[x] \in Nat
    BY <1>5
  <2>2. \A x, y \in D : pos[x] < pos[y] => pos[x] # pos[y]
    BY <2>1
  <2>3. \A x, y \in D : x = y \/ <<x, y>> \in R \/ <<y, x>> \in R
    BY DEF TotalOrder
  <2> QED
    BY <1>6, <2>2, <2>3
<1>8. pos \in Injection(D, D)
  BY <1>5, <1>7, Fun_IsInj
<1>9. pos \in Surjection(D, D)
  BY <1>1, <1>8, FS_Injection
<1> QED
  BY <1>6, <1>8, <1>9 DEF Bijection

LEMMA OrderExists ==
    ASSUME NEW n \in Nat, NEW R, NEW D, D = 1..n, TotalOrder(R, D)
    PROVE  \E p \in Bijection(D, D) : OrderedBy(R, p, D)
<1>1. PICK pos \in Bijection(D, D) : \A x, y \in D : <<x, y>> \in R => pos[x] < pos[y]
  BY PositionsExist
<1>2. PICK q \in Bijection(D, D) : \A x \in D : q[pos[x]] = x
  <2>1. PICK q : q = Inverse(pos, D, D)
    OBVIOUS
  <2>2. q \in Bijection(D, D) /\ \A x \in D : q[pos[x]] = x
    BY <2>1, Fun_BijInverse
  <2> QED
    BY <2>2
<1>3. /\ \A x \in D : q[x] \in D /\ pos[x] \in D
      /\ \A k \in D : \E x \in D : pos[x] = k
  <2>1. q \in [D -> D]
    BY Fun_BijectionProperties
  <2>2. pos \in [D -> D] /\ \A k \in D : \E x \in D : pos[x] = k
    BY DEF Bijection, Surjection
  <2> QED
    BY <2>1, <2>2
<1>4. ASSUME NEW i \in D, NEW j \in D, i < j
      PROVE  <<q[i], q[j]>> \in R
  <2>1. pos[q[i]] = i /\ pos[q[j]] = j
    BY <1>2, <1>3
  <2>2. i # j /\ ~ (j < i)
    BY <1>4
  <2>3. q[i] # q[j]
    BY <2>1, <2>2
  <2>4. <<q[j], q[i]>> \in R => pos[q[j]] < pos[q[i]]
    BY <1>1, <1>3
  <2>5. ~ (<<q[j], q[i]>> \in R)
    BY <2>1, <2>2, <2>4
  <2> QED
    BY <1>3, <2>3, <2>5 DEF TotalOrder
<1> QED
  BY <1>2, <1>4 DEF OrderedBy

------------------------------------------------------------------------------
(* Validator sets: every key of an operator once, with a power.             *)

ValRecords == [publicKey : {ConsensusKey[v] : v \in Validators}, power : Nat]

IsValSet(s) ==
    /\ s \in Seq(ValRecords)
    /\ \A i, j \in DOMAIN s : s[i].publicKey = s[j].publicKey => i = j

\* The power a key has in a validator set, none if it is not there.
Gives(s, key, power) ==
    \/ \E i \in DOMAIN s : s[i].publicKey = key /\ s[i].power = power
    \/ power = 0 /\ \A i \in DOMAIN s : s[i].publicKey # key

\* The strongest first.
Descending(s) == \A i, j \in DOMAIN s : i < j => s[i].power >= s[j].power

\* What the comparator of two records compares.
LEMMA RanksOfKeys ==
    ASSUME NEW r \in ValRecords
    PROVE  /\ r.power \in Nat /\ KeyRank[r.publicKey] \in Nat
           /\ r = [publicKey |-> r.publicKey, power |-> r.power]
  BY KeysAssumption DEF ValRecords

\* Sorting changes the order, and leaves the strongest first.
LEMMA SortKeeps ==
    ASSUME NEW s, IsValSet(s), NEW t, t = SortedByPower(s)
    PROVE  /\ IsValSet(t) /\ Len(t) = Len(s) /\ Descending(t)
           /\ \A key, power : Gives(s, key, power) => Gives(t, key, power)
<1> DEFINE D == DOMAIN s
           R == {x \in D \X D : \/ Stronger(s[x[1]], s[x[2]])
                                \/ ~ Stronger(s[x[2]], s[x[1]]) /\ x[1] < x[2]}
<1>1. /\ D = 1..Len(s) /\ Len(s) \in Nat
      /\ \A i \in D : s[i] \in ValRecords
  BY DEF IsValSet
<1>2. \A i \in D : s[i].power \in Nat /\ KeyRank[s[i].publicKey] \in Nat
  BY <1>1, RanksOfKeys
<1>3. TotalOrder(R, D)
  <2>1. \A i, j \in D : <<i, j>> \in R
            <=> \/ Stronger(s[i], s[j])
                \/ ~ Stronger(s[j], s[i]) /\ i < j
    OBVIOUS
  <2>2. \A i, j \in D : Stronger(s[i], s[j]) <=>
            \/ s[i].power > s[j].power
            \/ s[i].power = s[j].power
               /\ KeyRank[s[i].publicKey] < KeyRank[s[j].publicKey]
    BY DEF Stronger
  <2> HIDE DEF R
  <2>3. \A i \in D : i \in Nat
    BY <1>1
  <2>4. \A i \in D : <<i, i>> \notin R
    BY <1>2, <2>1, <2>2, <2>3
  <2>5. ASSUME NEW i \in D, NEW j \in D, i # j
        PROVE  <<i, j>> \in R \/ <<j, i>> \in R
    <3>1. i < j \/ j < i
      BY <2>3, <2>5
    <3>2. ~ (Stronger(s[i], s[j]) /\ Stronger(s[j], s[i]))
      BY <1>2, <2>2
    <3> QED
      BY <2>1, <3>1, <3>2
  <2>6. ASSUME NEW i \in D, NEW j \in D, NEW k \in D,
               <<i, j>> \in R, <<j, k>> \in R
        PROVE  <<i, k>> \in R
    BY <1>2, <2>1, <2>2, <2>3, <2>6
  <2> QED
    BY <2>4, <2>5, <2>6 DEF TotalOrder
<1>4. PICK p \in Bijection(D, D) : OrderedBy(R, p, D)
  <2> HIDE DEF D, R
  <2> QED
    BY <1>1, <1>3, OrderExists
<1> DEFINE sorted == [i \in D |-> s[p[i]]]
           Good(u) == \A i, j \in DOMAIN u : i < j => ~ Stronger(u[j], u[i])
<1>5. Good(sorted)
  <2>1. \A i \in D : p[i] \in D
    BY DEF Bijection, Injection
  <2>2. ASSUME NEW i \in D, NEW j \in D, i < j
        PROVE  ~ Stronger(s[p[j]], s[p[i]])
    <3>1. <<p[i], p[j]>> \in R
      BY <1>4, <2>2 DEF OrderedBy
    <3>2. \/ Stronger(s[p[i]], s[p[j]])
          \/ ~ Stronger(s[p[j]], s[p[i]])
      BY <3>1
    <3> QED
      BY <1>2, <2>1, <3>2 DEF Stronger
  <2> QED
    BY <2>2
<1>6. sorted \in Reorderings(s)
  BY <1>4 DEF Reorderings
<1>7. t \in Reorderings(s) /\ Good(t)
  <2>1. t = CHOOSE u \in UNION {Reorderings(list) : list \in {s}} : Good(u)
    BY DEF SortedByPower
  <2>2. UNION {Reorderings(list) : list \in {s}} = Reorderings(s)
    OBVIOUS
  <2> HIDE DEF sorted, Good
  <2> QED
    BY <1>5, <1>6, <2>1, <2>2
<1> HIDE DEF sorted, R
<1>8. PICK q \in Bijection(D, D) : t = [i \in D |-> s[q[i]]]
  BY <1>7 DEF Reorderings
<1>9. /\ \A i \in D : q[i] \in D
      /\ \A i, j \in D : q[i] = q[j] => i = j
      /\ \A k \in D : \E i \in D : q[i] = k
  <2>1. q \in [D -> D] /\ \A k \in D : \E i \in D : q[i] = k
    BY DEF Bijection, Surjection
  <2>2. \A i, j \in D : q[i] = q[j] => i = j
    BY Fun_BijectionProperties
  <2> QED
    BY <2>1, <2>2
<1>10. t \in Seq(ValRecords) /\ Len(t) = Len(s) /\ DOMAIN t = D
  <2>1. t \in [1..Len(s) -> ValRecords]
    BY <1>1, <1>8, <1>9
  <2> QED
    BY <1>1, <2>1
<1>14. \A i \in D : t[i] = s[q[i]]
  BY <1>8
<1>11. IsValSet(t)
  <2>1. \A i, j \in D : s[i].publicKey = s[j].publicKey => i = j
    BY DEF IsValSet
  <2>2. \A i, j \in D : t[i].publicKey = t[j].publicKey => i = j
    <3> HIDE DEF D
    <3> QED
      BY <1>9, <1>14, <2>1
  <2> QED
    BY <1>10, <2>2 DEF IsValSet
<1>12. Descending(t)
  <2>1. \A i \in D : t[i].power \in Nat
    <3> HIDE DEF D
    <3> QED
      BY <1>2, <1>9, <1>14
  <2>2. ASSUME NEW i \in D, NEW j \in D, i < j
        PROVE  t[i].power >= t[j].power
    <3>1. ~ Stronger(t[j], t[i])
      BY <1>7, <1>10, <2>2
    <3> QED
      BY <2>1, <3>1 DEF Stronger
  <2> QED
    BY <1>10, <2>2 DEF Descending
<1>13. ASSUME NEW key, NEW power, Gives(s, key, power)
       PROVE  Gives(t, key, power)
  BY <1>8, <1>9, <1>10, <1>13 DEF Gives
<1> QED
  BY <1>10, <1>11, <1>12, <1>13

\* One validator is added to a set: its power, under its key.
LEMMA MergeOne ==
    ASSUME NEW s, IsValSet(s), NEW x \in ValRecords, NEW t, t = MergeValidator(s, x)
    PROVE  /\ IsValSet(t) /\ t # <<>>
           /\ \A key, power : Gives(s, key, power)
                  => Gives(t, key, power + Where(key = x.publicKey, x.power))
<1> DEFINE at == {i \in DOMAIN s : s[i].publicKey = x.publicKey}
<1>1. /\ DOMAIN s = 1..Len(s) /\ Len(s) \in Nat
      /\ \A i \in DOMAIN s : s[i] \in ValRecords
      /\ \A i, j \in DOMAIN s : s[i].publicKey = s[j].publicKey => i = j
  BY DEF IsValSet
<1>2. CASE at = {}
  <2>1. t = Append(s, x)
    BY <1>2 DEF MergeValidator
  <2>2. /\ t \in Seq(ValRecords) /\ DOMAIN t = 1..Len(s) + 1
        /\ \A i \in 1..Len(s) : t[i] = s[i]
        /\ t[Len(s) + 1] = x
    BY <1>1, <2>1 DEF IsValSet
  <2>3. \A i \in DOMAIN t : \/ i \in DOMAIN s /\ t[i] = s[i]
                            \/ i = Len(s) + 1 /\ t[i] = x
    BY <1>1, <2>2
  <2>4. \A i \in DOMAIN s : s[i].publicKey # x.publicKey
    BY <1>2
  <2>5. Len(s) + 1 \in DOMAIN t /\ \A i \in DOMAIN s : i \in DOMAIN t
    BY <1>1, <2>2
  <2>6. IsValSet(t) /\ t # <<>>
    BY <1>1, <2>2, <2>3, <2>4, <2>5 DEF IsValSet
  <2>7. ASSUME NEW key, NEW power, Gives(s, key, power)
        PROVE  Gives(t, key, power + Where(key = x.publicKey, x.power))
    <3>1. x.power \in Nat
      BY RanksOfKeys
    <3>2. CASE key = x.publicKey
      <4>1. power = 0
        BY <2>4, <2>7, <3>2 DEF Gives
      <4> QED
        BY <2>2, <2>5, <3>1, <3>2, <4>1 DEF Gives, Where
    <3>3. CASE key # x.publicKey
      <4>1. power \in Nat
        BY <1>1, <2>7, RanksOfKeys DEF Gives
      <4>2. power + Where(key = x.publicKey, x.power) = power
        BY <3>3, <4>1 DEF Where
      <4>3. Gives(t, key, power)
        BY <1>1, <2>2, <2>3, <2>5, <2>7, <3>3 DEF Gives
      <4> QED
        BY <4>2, <4>3
    <3> QED
      BY <3>2, <3>3
  <2> QED
    BY <2>6, <2>7
<1>3. CASE at # {}
  <2>1. PICK k \in DOMAIN s : s[k].publicKey = x.publicKey
    BY <1>3
  <2>2. (CHOOSE i \in at : TRUE) = k
    BY <1>1, <2>1
  <2>3. PICK sum : sum = s[k].power + x.power
    OBVIOUS
  <2>4. t = [s EXCEPT ![k].power = sum]
    BY <1>3, <2>2, <2>3 DEF MergeValidator
  <2>5. sum \in Nat /\ x.power \in Nat /\ s[k].power \in Nat
    BY <1>1, <2>3, RanksOfKeys
  <2>6. /\ DOMAIN t = DOMAIN s
        /\ t[k] = [publicKey |-> s[k].publicKey, power |-> sum]
        /\ \A i \in DOMAIN s : i # k => t[i] = s[i]
    <3>1. s[k] = [publicKey |-> s[k].publicKey, power |-> s[k].power]
      BY <1>1, RanksOfKeys
    <3>2. [s[k] EXCEPT !.power = sum] = [publicKey |-> s[k].publicKey, power |-> sum]
      BY <3>1
    <3> QED
      BY <2>1, <2>4, <3>2
  <2>7. t[k] \in ValRecords
    BY <1>1, <2>5, <2>6 DEF ValRecords
  <2>8. \A i \in DOMAIN s : t[i] \in ValRecords /\ t[i].publicKey = s[i].publicKey
    BY <1>1, <2>6, <2>7
  <2>9. t \in Seq(ValRecords) /\ t # <<>>
    <3>1. s \in Seq(ValRecords)
      BY DEF IsValSet
    <3>2. t = [i \in 1..Len(s) |-> t[i]]
      BY <1>1, <2>4
    <3>3. t \in [1..Len(s) -> ValRecords]
      BY <1>1, <2>8, <3>2
    <3>4. t \in Seq(ValRecords)
      BY <1>1, <3>3
    <3> QED
      BY <2>1, <2>6, <3>4
  <2>10. IsValSet(t)
    BY <1>1, <2>6, <2>8, <2>9 DEF IsValSet
  <2>11. ASSUME NEW key, NEW power, Gives(s, key, power)
         PROVE  Gives(t, key, power + Where(key = x.publicKey, x.power))
    <3>1. CASE key = x.publicKey
      <4>1. power = s[k].power
        BY <1>1, <2>1, <2>11, <3>1 DEF Gives
      <4>2. power + Where(key = x.publicKey, x.power) = sum
        BY <2>3, <3>1, <4>1 DEF Where
      <4>3. t[k].publicKey = key /\ t[k].power = sum
        BY <2>1, <2>6, <3>1
      <4>4. Gives(t, key, sum)
        BY <2>1, <2>6, <4>3 DEF Gives
      <4> QED
        BY <4>2, <4>4
    <3>2. CASE key # x.publicKey
      <4>1. power \in Nat
        BY <1>1, <2>11, RanksOfKeys DEF Gives
      <4>2. power + Where(key = x.publicKey, x.power) = power
        BY <3>2, <4>1 DEF Where
      <4>3. Gives(t, key, power)
        BY <2>1, <2>6, <2>8, <2>11, <3>2 DEF Gives
      <4> QED
        BY <4>2, <4>3
    <3> QED
      BY <3>1, <3>2
  <2> QED
    BY <2>9, <2>10, <2>11
<1> QED
  BY <1>2, <1>3

\* What the folds of the genesis do with an element: the merge with a validator
\* and with the entries of the oracle, generate.mjs with a token and its price.
FoldStep(what, result, x) ==
    CASE what = "validators" -> MergeValidator(result, x)
      [] what = "tokens" -> AddOracleToken(result, x)
      [] what = "prices" -> AddPrice(result, x)
      [] what = "mergedTokens" ->
             IF \E i \in DOMAIN result :
                    <<result[i].name, result[i].chainId>> = <<x.name, x.chainId>>
             THEN result ELSE Append(result, x)
      [] what = "mergedFeeders" ->
             IF \E i \in DOMAIN result : result[i] = x
             THEN result ELSE Append(result, x)
      [] what = "mergedPrices" ->
             IF \E i \in DOMAIN result : result[i].tokenId = x.tokenId
             THEN result ELSE Append(result, x)

\* The equation of such a fold.
FoldEq(what, g, base, list, n) ==
    g = [s \in SUBSET (1..n) |->
            IF s = {} THEN base
            ELSE FoldStep(what, g[s \ {Max(s)}], list[Max(s)])]

Folded(what, base, list, n) == (CHOOSE g : FoldEq(what, g, base, list, n))[1..n]

LEMMA FoldUnfold ==
    ASSUME NEW base, NEW list, NEW n, DOMAIN list = 1..n
    PROVE  /\ MergeValSet(base, list) = Folded("validators", base, list, n)
           /\ FoldLeft(AddOracleToken, base, list) = Folded("tokens", base, list, n)
           /\ FoldLeft(AddPrice, base, list) = Folded("prices", base, list, n)
<1>1. MergeValSet(base, list) = Folded("validators", base, list, n)
  BY DEF MergeValSet, FoldLeft, MapThenFoldSet, FoldEq, FoldStep, Folded
<1>2. FoldLeft(AddOracleToken, base, list) = Folded("tokens", base, list, n)
  BY DEF FoldLeft, MapThenFoldSet, FoldEq, FoldStep, Folded
<1>3. FoldLeft(AddPrice, base, list) = Folded("prices", base, list, n)
  BY DEF FoldLeft, MapThenFoldSet, FoldEq, FoldStep, Folded
<1> QED
  BY <1>1, <1>2, <1>3

LEMMA MergeUnfolds ==
    ASSUME NEW base, NEW list, NEW n, DOMAIN list = 1..n
    PROVE  /\ MergeSeq(base, list, LAMBDA t : <<t.name, t.chainId>>)
                 = Folded("mergedTokens", base, list, n)
           /\ MergeSeq(base, list, LAMBDA f : f)
                 = Folded("mergedFeeders", base, list, n)
           /\ MergeSeq(base, list, LAMBDA p : p.tokenId)
                 = Folded("mergedPrices", base, list, n)
<1>1. MergeSeq(base, list, LAMBDA t : <<t.name, t.chainId>>)
          = Folded("mergedTokens", base, list, n)
  BY DEF MergeSeq, FoldLeft, MapThenFoldSet, FoldEq, FoldStep, Folded
<1>2. MergeSeq(base, list, LAMBDA f : f) = Folded("mergedFeeders", base, list, n)
  BY DEF MergeSeq, FoldLeft, MapThenFoldSet, FoldEq, FoldStep, Folded
<1>3. MergeSeq(base, list, LAMBDA p : p.tokenId)
          = Folded("mergedPrices", base, list, n)
  BY DEF MergeSeq, FoldLeft, MapThenFoldSet, FoldEq, FoldStep, Folded
<1> QED
  BY <1>1, <1>2, <1>3

LEMMA MaxOfRange ==
    ASSUME NEW n \in Nat \ {0}, NEW s \in SUBSET (1..n), n \in s
    PROVE  Max(s) = n
<1>1. \A y \in s : n >= y
  OBVIOUS
<1>2. \A x \in s : (\A y \in s : x >= y) => x = n
  OBVIOUS
<1> QED
  BY <1>1, <1>2 DEF Max

LEMMA FoldSolution ==
    ASSUME NEW what, NEW base, NEW list, NEW n \in Nat
    PROVE  \E g : FoldEq(what, g, base, list, n)
<1> DEFINE G == {k \in 0..n : \E g : FoldEq(what, g, base, list, k)}
<1>1. 0 \in G
  <2>1. 1..0 = {} /\ SUBSET {} = {{}}
    OBVIOUS
  <2> DEFINE h == [s \in {{}} |-> base]
  <2>2. h = [s \in SUBSET (1..0) |->
                IF s = {} THEN base
                ELSE FoldStep(what, h[s \ {Max(s)}], list[Max(s)])]
    BY <2>1
  <2>3. FoldEq(what, h, base, list, 0)
    BY <2>2 DEF FoldEq
  <2> QED
    BY <2>3
<1>2. ASSUME NEW k \in 0..n, k # 0, k - 1 \in G
      PROVE  k \in G
  <2>1. PICK g : FoldEq(what, g, base, list, k - 1)
    BY <1>2
  <2> DEFINE S == SUBSET (1..k)
             Smaller == SUBSET (1..(k - 1))
             h == [s \in S |-> IF k \in s
                               THEN FoldStep(what, g[s \ {k}], list[k])
                               ELSE g[s]]
  <2>2. \A s \in S : k \notin s => s \in Smaller
    BY <1>2
  <2>3. \A s \in S : \A x : s \ {x} \in S
    OBVIOUS
  <2>4. \A s \in S : k \in s => Max(s) = k
    BY <1>2, MaxOfRange
  <2>5. \A s \in S : k \notin s => h[s] = g[s]
    OBVIOUS
  <2>6. \A s \in S : k \in s => h[s] = FoldStep(what, g[s \ {k}], list[k]) /\ s # {}
    OBVIOUS
  <2>7. h = [s \in S |-> h[s]]
    OBVIOUS
  <2>8. \A s \in Smaller : g[s] = IF s = {} THEN base
                ELSE FoldStep(what, g[s \ {Max(s)}], list[Max(s)])
    BY <2>1 DEF FoldEq
  <2> HIDE DEF h, S, Smaller
  <2>9. ASSUME NEW s \in S
        PROVE  h[s] = IF s = {} THEN base
                      ELSE FoldStep(what, h[s \ {Max(s)}], list[Max(s)])
    <3>1. CASE k \in s
      <4>1. k \notin s \ {k}
        OBVIOUS
      <4>2. h[s \ {k}] = g[s \ {k}]
        BY <2>3, <2>5, <4>1
      <4> QED
        BY <2>4, <2>6, <3>1, <4>2
    <3>2. CASE k \notin s
      <4>1. k \notin s \ {Max(s)}
        BY <3>2
      <4>2. h[s \ {Max(s)}] = g[s \ {Max(s)}]
        BY <2>3, <2>5, <4>1
      <4> QED
        BY <2>2, <2>5, <2>8, <3>2, <4>2
    <3> QED
      BY <3>1, <3>2
  <2>10. h = [s \in S |-> IF s = {} THEN base
                          ELSE FoldStep(what, h[s \ {Max(s)}], list[Max(s)])]
    BY <2>7, <2>9
  <2>11. FoldEq(what, h, base, list, k)
    BY <2>10 DEF FoldEq, S
  <2> QED
    BY <1>2, <2>11
<1>3. n \in G
  <2> HIDE DEF G
  <2> QED
    BY <1>1, <1>2, RangeInduction
<1> QED
  BY <1>3

\* What the fold is on the first k elements of the list.
LEMMA FoldSteps ==
    ASSUME NEW what, NEW base, NEW list, NEW n \in Nat, DOMAIN list = 1..n
    PROVE  \E f : /\ Folded(what, base, list, n) = f[n]
                  /\ f[0] = base
                  /\ \A k \in 1..n : f[k] = FoldStep(what, f[k - 1], list[k])
<1>1. PICK g : FoldEq(what, g, base, list, n) /\ Folded(what, base, list, n) = g[1..n]
  BY FoldSolution DEF Folded
<1>2. \A s \in SUBSET (1..n) :
          g[s] = IF s = {} THEN base
                 ELSE FoldStep(what, g[s \ {Max(s)}], list[Max(s)])
  BY <1>1 DEF FoldEq
<1> DEFINE f == [k \in 0..n |-> g[1..k]]
<1>3. f[0] = base
  <2>1. 1..0 = {} /\ {} \in SUBSET (1..n) /\ 0 \in 0..n
    OBVIOUS
  <2> QED
    BY <1>2, <2>1
<1>4. ASSUME NEW k \in 1..n
      PROVE  f[k] = FoldStep(what, f[k - 1], list[k])
  <2>1. /\ 1..k \in SUBSET (1..n) /\ k \in 1..k /\ k \in Nat \ {0}
        /\ k \in 0..n /\ k - 1 \in 0..n
    OBVIOUS
  <2>2. Max(1..k) = k
    BY <2>1, MaxOfRange
  <2>3. (1..k) \ {k} = 1..(k - 1)
    OBVIOUS
  <2>4. g[1..k] = FoldStep(what, g[1..(k - 1)], list[k])
    BY <1>2, <2>1, <2>2, <2>3
  <2> QED
    BY <2>1, <2>4
<1>5. f[n] = Folded(what, base, list, n)
  BY <1>1
<1> QED
  BY <1>3, <1>4, <1>5

\* The part of Gives about the first k validators of a list.
GivesFirst(s, k, key, power) ==
    \/ \E i \in 1..k : s[i].publicKey = key /\ s[i].power = power
    \/ power = 0 /\ \A i \in 1..k : s[i].publicKey # key

\* Merging two validator sets adds the powers of every key.
LEMMA MergeValSetAdds ==
    ASSUME NEW base, IsValSet(base), NEW list, IsValSet(list),
           NEW t, t = MergeValSet(base, list)
    PROVE  /\ IsValSet(t)
           /\ t = <<>> => base = <<>>
           /\ \A key, p, q : Gives(base, key, p) /\ Gives(list, key, q)
                  => Gives(t, key, p + q)
<1> DEFINE n == Len(list)
<1>1. /\ DOMAIN list = 1..n /\ n \in Nat
      /\ \A i \in 1..n : list[i] \in ValRecords
      /\ \A i, j \in 1..n : list[i].publicKey = list[j].publicKey => i = j
  BY DEF IsValSet
<1>2. \A i \in 1..n : list[i].power \in Nat
  BY <1>1, RanksOfKeys
<1> HIDE DEF n
<1>3. PICK f : /\ t = f[n]
               /\ f[0] = base
               /\ \A k \in 1..n : f[k] = MergeValidator(f[k - 1], list[k])
  <2>1. t = Folded("validators", base, list, n)
    BY <1>1, FoldUnfold
  <2>2. PICK f : /\ t = f[n]
                 /\ f[0] = base
                 /\ \A k \in 1..n : f[k] = FoldStep("validators", f[k - 1], list[k])
    BY <1>1, <2>1, FoldSteps
  <2> QED
    BY <2>2 DEF FoldStep
<1> DEFINE Adds(k) == \A key, p, q :
               Gives(base, key, p) /\ GivesFirst(list, k, key, q)
               => Gives(f[k], key, p + q)
           Good(k) == IsValSet(f[k]) /\ (f[k] = <<>> => base = <<>>) /\ Adds(k)
           G == {k \in 0..n : Good(k)}
<1>4. \A key, p : Gives(base, key, p) => p \in Nat
  BY RanksOfKeys DEF Gives, IsValSet
<1>5. 0 \in G
  <2>1. Adds(0)
    <3>1. \A key, q : GivesFirst(list, 0, key, q) => q = 0
      BY DEF GivesFirst
    <3> QED
      BY <1>3, <1>4, <3>1
  <2>2. 0 \in 0..n
    BY <1>1
  <2> QED
    BY <1>3, <2>1, <2>2
<1>6. ASSUME NEW k \in 0..n, k # 0, k - 1 \in G
      PROVE  k \in G
  <2>1. k \in 1..n /\ Good(k - 1) /\ k \in Nat
    BY <1>1, <1>6
  <2>2. PICK s : s = f[k - 1]
    OBVIOUS
  <2>3. PICK u : u = f[k]
    OBVIOUS
  <2>4. u = MergeValidator(s, list[k]) /\ IsValSet(s) /\ list[k] \in ValRecords
    BY <1>1, <1>3, <2>1, <2>2, <2>3
  <2>5. /\ IsValSet(u) /\ u # <<>>
        /\ \A key, power : Gives(s, key, power)
               => Gives(u, key, power + Where(key = list[k].publicKey, list[k].power))
    BY <2>4, MergeOne
  <2>6. ASSUME NEW key, NEW p, NEW q, Gives(base, key, p), GivesFirst(list, k, key, q)
        PROVE  Gives(u, key, p + q)
    <3>1. p \in Nat /\ list[k].power \in Nat
      BY <1>2, <1>4, <2>1, <2>6
    <3>2. CASE key = list[k].publicKey
      <4>1. \A i \in 1..(k - 1) : i \in 1..n /\ i # k
        BY <1>1, <2>1
      <4>2. \A i \in 1..(k - 1) : list[i].publicKey # key
        BY <1>1, <2>1, <3>2, <4>1
      <4>3. k \in 1..k /\ \A i \in 1..k : i \in 1..n
        BY <1>1, <2>1
      <4>4. q = list[k].power
        BY <1>1, <2>1, <2>6, <3>2, <4>3 DEF GivesFirst
      <4>5. GivesFirst(list, k - 1, key, 0)
        BY <4>2 DEF GivesFirst
      <4>6. Gives(s, key, p)
        <5>1. Gives(f[k - 1], key, p + 0)
          <6>1. Adds(k - 1)
            BY <2>1
          <6> QED
            BY <2>6, <4>5, <6>1
        <5>2. p + 0 = p
          BY <3>1
        <5> QED
          BY <2>2, <5>1, <5>2
      <4>7. Where(key = list[k].publicKey, list[k].power) = q
        BY <3>2, <4>4 DEF Where
      <4> QED
        BY <2>5, <4>6, <4>7
    <3>3. CASE key # list[k].publicKey
      <4>1. \A i \in 1..k : i = k \/ i \in 1..(k - 1)
        BY <2>1
      <4>2. \A i \in 1..(k - 1) : i \in 1..k /\ i \in 1..n
        BY <1>1, <2>1
      <4>3. GivesFirst(list, k - 1, key, q)
        BY <2>6, <3>3, <4>1, <4>2 DEF GivesFirst
      <4>4. q \in Nat
        BY <1>2, <4>2, <4>3 DEF GivesFirst
      <4>5. Gives(s, key, p + q)
        BY <2>1, <2>2, <2>6, <4>3
      <4>6. (p + q) + Where(key = list[k].publicKey, list[k].power) = p + q
        BY <3>1, <3>3, <4>4 DEF Where
      <4> QED
        BY <2>5, <4>5, <4>6
    <3> QED
      BY <3>2, <3>3
  <2> QED
    BY <2>3, <2>5, <2>6
<1>7. n \in G
  <2> HIDE DEF G
  <2> QED
    BY <1>1, <1>5, <1>6, RangeInduction
<1>8. Good(n)
  BY <1>7
<1>9. \A key, q : Gives(list, key, q) => GivesFirst(list, n, key, q)
  BY <1>1 DEF Gives, GivesFirst
<1> QED
  BY <1>3, <1>8, <1>9

\* SetToSeq lists a set of records, a key once.
LEMMA SetAsValSet ==
    ASSUME NEW S, IsFiniteSet(S), S \subseteq ValRecords,
           \A a, b \in S : a.publicKey = b.publicKey => a = b,
           NEW s, s = SetToSeq(S)
    PROVE  /\ IsValSet(s) /\ Len(s) = Cardinality(S)
           /\ \A a \in S : \E i \in DOMAIN s : s[i] = a
           /\ \A i \in DOMAIN s : s[i] \in S
<1>1. /\ Cardinality(S) \in Nat
      /\ \E f : f \in Bijection(1..Cardinality(S), S)
  BY FS_CardinalityType, Fun_ExistsBij DEF ExistsBijection
<1>2. \E f \in [1..Cardinality(S) -> S] : IsInjective(f)
  BY <1>1 DEF Bijection, Injection
<1>3. s \in [1..Cardinality(S) -> S] /\ IsInjective(s)
  BY <1>2 DEF SetToSeq
<1>4. s \in Injection(1..Cardinality(S), S)
  BY <1>3 DEF Injection
<1>5. IsFiniteSet(1..Cardinality(S)) /\ Cardinality(1..Cardinality(S)) = Cardinality(S)
  BY <1>1, FS_Interval
<1>6. s \in Surjection(1..Cardinality(S), S)
  BY <1>4, <1>5, FS_Injection
<1>7. \A a \in S : \E i \in DOMAIN s : s[i] = a
  BY <1>3, <1>6 DEF Surjection
<1>8. s \in Seq(ValRecords) /\ Len(s) = Cardinality(S) /\ DOMAIN s = 1..Len(s)
  BY <1>1, <1>3
<1>9. \A i, j \in DOMAIN s : s[i].publicKey = s[j].publicKey => i = j
  BY <1>3 DEF IsInjective
<1>10. \A i \in DOMAIN s : s[i] \in S
  BY <1>3
<1> QED
  BY <1>7, <1>8, <1>9, <1>10 DEF IsValSet

\* The sorted validator set of some operators.
LEMMA ValSetOfOperators ==
    ASSUME NEW W \in SUBSET Validators, IsFiniteSet(W),
           NEW pw, \A v \in W : pw[v] \in Nat,
           NEW t, t = SortedByPower(SetToSeq(
                          {[publicKey |-> ConsensusKey[v], power |-> pw[v]] : v \in W}))
    PROVE  /\ IsValSet(t) /\ Descending(t) /\ Len(t) <= Cardinality(W)
           /\ \A v \in Validators :
                  Gives(t, ConsensusKey[v], IF v \in W THEN pw[v] ELSE 0)
<1> DEFINE entry(v) == [publicKey |-> ConsensusKey[v], power |-> pw[v]]
           S == {entry(v) : v \in W}
           key == [v \in W |-> entry(v)]
<1>1. key \in Surjection(W, S)
  BY DEF Surjection
<1>2. IsFiniteSet(S) /\ Cardinality(S) <= Cardinality(W)
  <2> HIDE DEF key, S
  <2> QED
    BY <1>1, FS_Surjection
<1>3. S \subseteq ValRecords
  BY DEF ValRecords
<1>4. \A a, b \in S : a.publicKey = b.publicKey => a = b
  BY KeysAssumption
<1>5. PICK s : s = SetToSeq(S)
  OBVIOUS
<1>6. /\ IsValSet(s) /\ Len(s) = Cardinality(S)
      /\ \A a \in S : \E i \in DOMAIN s : s[i] = a
      /\ \A i \in DOMAIN s : s[i] \in S
  <2> HIDE DEF S
  <2> QED
    BY <1>2, <1>3, <1>4, <1>5, SetAsValSet
<1>7. t = SortedByPower(s)
  BY <1>5
<1>8. /\ IsValSet(t) /\ Len(t) = Len(s) /\ Descending(t)
      /\ \A k, p : Gives(s, k, p) => Gives(t, k, p)
  BY <1>6, <1>7, SortKeeps
<1>9. ASSUME NEW v \in Validators
      PROVE  Gives(s, ConsensusKey[v], IF v \in W THEN pw[v] ELSE 0)
  <2>1. CASE v \in W
    <3>1. entry(v) \in S
      BY <2>1
    <3>2. PICK i \in DOMAIN s : s[i] = entry(v)
      BY <1>6, <3>1
    <3> QED
      BY <2>1, <3>2 DEF Gives
  <2>2. CASE v \notin W
    <3>1. \A a \in S : a.publicKey # ConsensusKey[v]
      BY <2>2, KeysAssumption
    <3> QED
      BY <1>6, <2>2, <3>1 DEF Gives
  <2> QED
    BY <2>1, <2>2
<1> QED
  BY <1>2, <1>6, <1>8, <1>9

\* Division keeps the order.
LEMMA DivKeepsOrder ==
    ASSUME NEW a \in Nat, NEW b \in Nat, NEW d \in Nat \ {0}, a <= b
    PROVE  a \div d \in Nat /\ a \div d <= b \div d
<1>1. PICK q \in Int, r \in Int : q = a \div d /\ r = b \div d
  OBVIOUS
<1>2. /\ d * q <= a /\ a < d * q + d
      /\ d * r <= b /\ b < d * r + d
  BY <1>1
<1>3. q >= 0
  <2> SUFFICES ASSUME q < 0
               PROVE  FALSE
    OBVIOUS
  <2>1. PICK k \in Nat : q = -1 - k
    <3>1. -1 - q \in Nat /\ q = -1 - (-1 - q)
      OBVIOUS
    <3> QED
      BY <3>1
  <2>2. d * q + d = -(d * k) /\ d * k \in Nat
    BY <2>1
  <2> QED
    BY <1>2, <2>2
<1>4. q <= r
  <2> SUFFICES ASSUME r < q
               PROVE  FALSE
    OBVIOUS
  <2>1. PICK k \in Nat : q = r + 1 + k
    <3>1. q - r - 1 \in Nat /\ q = r + 1 + (q - r - 1)
      OBVIOUS
    <3> QED
      BY <3>1
  <2>2. d * q = d * r + d + d * k /\ d * k \in Nat
    BY <2>1
  <2> QED
    BY <1>2, <2>2
<1> QED
  BY <1>1, <1>3, <1>4

\* What a chain's part gives an operator, see PowerAddsUp.
EvmPower(state, v) ==
    IF "EVM" \in state.assets.clientChains /\ v \in OptedIn(boot, registered)
        THEN ToFixed0(TotalUsd(boot, v)) ELSE 0
OnUtxo(state, v) == {a \in state.operator.assetUsdValues :
                         a.operator = v /\ a.asset.chain \in UtxoChains}
UtxoPower(state, v) == SumFunction([a \in OnUtxo(state, v) |-> a.amount])

\* The validator set of a state gives every operator the powers its chains do.
Powered(state) ==
    /\ IsValSet(state.dogfood.valSet) /\ Descending(state.dogfood.valSet)
    /\ state.dogfood.lastTotalPower = TotalPower(state.dogfood.valSet)
    /\ \A a \in state.operator.assetUsdValues :
           a.asset.chain \in state.assets.clientChains
    /\ \A v \in registered :
           /\ EvmPower(state, v) \in Nat
           /\ IsFiniteSet(OnUtxo(state, v))
           /\ \A a \in OnUtxo(state, v) : a.amount \in Nat
           /\ Gives(state.dogfood.valSet, ConsensusKey[v],
                    EvmPower(state, v) + UtxoPower(state, v))

\* The same sum, of any function that agrees with the amounts.
LEMMA UtxoPowerIs ==
    ASSUME NEW state, NEW v, NEW f,
           \A a \in OnUtxo(state, v) : a.amount \in Nat /\ f[a] = a.amount,
           IsFiniteSet(OnUtxo(state, v))
    PROVE  /\ UtxoPower(state, v) = SumFunctionOnSet(f, OnUtxo(state, v))
           /\ UtxoPower(state, v) \in Nat
<1> DEFINE S == OnUtxo(state, v)
           g == [a \in S |-> a.amount]
<1>1. UtxoPower(state, v) = SumFunctionOnSet(g, S)
  BY DEF UtxoPower, SumFunction
<1>2. \A a \in S : g[a] \in Nat /\ f[a] = g[a]
  OBVIOUS
<1> HIDE DEF g, S
<1>3. IsFiniteSet(S)
  BY DEF S
<1>4. SumFunctionOnSet(f, S) = SumFunctionOnSet(g, S)
  BY <1>2, <1>3, SumSame
<1>5. SumFunctionOnSet(g, S) \in Nat
  BY <1>2, <1>3, SumType
<1> QED
  BY <1>1, <1>4, <1>5 DEF S

\* The sum over two sets that have nothing in common.
LEMMA SumOfTwo ==
    ASSUME NEW A, IsFiniteSet(A), NEW B, IsFiniteSet(B), A \cap B = {},
           NEW f, \A x \in A \cup B : f[x] \in Nat
    PROVE  /\ IsFiniteSet(A \cup B)
           /\ SumFunctionOnSet(f, A \cup B)
                  = SumFunctionOnSet(f, A) + SumFunctionOnSet(f, B)
<1> DEFINE S == A \cup B
           g == [x \in S |-> IF x \in A THEN f[x] ELSE 0]
           h == [x \in S |-> IF x \in B THEN f[x] ELSE 0]
<1>1. IsFiniteSet(S)
  BY FS_Union
<1>2. /\ \A x \in A : f[x] \in Nat /\ g[x] = f[x]
      /\ \A x \in S \ A : g[x] = 0
      /\ \A x \in B : f[x] \in Nat /\ h[x] = f[x]
      /\ \A x \in S \ B : h[x] = 0
      /\ \A x \in S : g[x] \in Nat /\ h[x] \in Nat /\ f[x] = g[x] + h[x]
      /\ A \in SUBSET S /\ B \in SUBSET S
  OBVIOUS
<1> HIDE DEF g, h, S
<1>3. SumFunctionOnSet(g, S) = SumFunctionOnSet(f, A)
  BY <1>1, <1>2, SumExtend
<1>4. SumFunctionOnSet(h, S) = SumFunctionOnSet(f, B)
  BY <1>1, <1>2, SumExtend
<1>5. SumFunctionOnSet(f, S) = SumFunctionOnSet(g, S) + SumFunctionOnSet(h, S)
  BY <1>1, <1>2, SumPlus
<1> QED
  BY <1>1, <1>3, <1>4, <1>5 DEF S

\* The states of two chains: what they give an operator is added.
LEMMA MergeTwoPowered ==
    ASSUME NEW base, NEW additional, Powered(base), Powered(additional),
           base.assets.clientChains \cap additional.assets.clientChains = {}
    PROVE  Powered(MergeTwo(base, additional))
<1> DEFINE merged == MergeTwo(base, additional)
           bs == base.dogfood.valSet
           as == additional.dogfood.valSet
<1>1. PICK s : s = MergeValSet(bs, as)
  OBVIOUS
<1>2. PICK t : t = SortedByPower(s)
  OBVIOUS
<1>3. /\ IsValSet(bs) /\ IsValSet(as)
      /\ base.dogfood.lastTotalPower = TotalPower(bs)
  BY DEF Powered
<1>4. /\ IsValSet(s)
      /\ s = <<>> => bs = <<>>
      /\ \A key, p, q : Gives(bs, key, p) /\ Gives(as, key, q) => Gives(s, key, p + q)
  <2> HIDE DEF bs, as
  <2> QED
    BY <1>1, <1>3, MergeValSetAdds
<1>5. /\ IsValSet(t) /\ Len(t) = Len(s) /\ Descending(t)
      /\ \A key, p : Gives(s, key, p) => Gives(t, key, p)
  BY <1>2, <1>4, SortKeeps
<1>6. /\ merged.dogfood.valSet = t
      /\ merged.dogfood.lastTotalPower =
             IF t # <<>> THEN TotalPower(t) ELSE base.dogfood.lastTotalPower
      /\ merged.operator.assetUsdValues =
             base.operator.assetUsdValues \cup additional.operator.assetUsdValues
      /\ merged.assets.clientChains =
             base.assets.clientChains \cup additional.assets.clientChains
  BY <1>1, <1>2 DEF MergeTwo, MergeDogfoodModule, MergeSimple, MergeAssetsModule
<1>7. merged.dogfood.lastTotalPower = TotalPower(t)
  <2>1. CASE t = <<>>
    <3>1. s \in Seq(ValRecords) /\ Len(s) = 0
      BY <1>4, <1>5, <2>1 DEF IsValSet
    <3>2. s = <<>>
      BY <3>1
    <3> QED
      BY <1>3, <1>4, <1>6, <2>1, <3>2
  <2> QED
    BY <1>6, <2>1
<1> HIDE DEF merged, bs, as
<1>8. \A a \in merged.operator.assetUsdValues :
          a.asset.chain \in merged.assets.clientChains
  BY <1>6 DEF Powered
<1>9. ASSUME NEW v \in registered
      PROVE  /\ EvmPower(merged, v) \in Nat
             /\ IsFiniteSet(OnUtxo(merged, v))
             /\ \A a \in OnUtxo(merged, v) : a.amount \in Nat
             /\ Gives(t, ConsensusKey[v], EvmPower(merged, v) + UtxoPower(merged, v))
  <2>1. /\ EvmPower(base, v) \in Nat /\ EvmPower(additional, v) \in Nat
        /\ IsFiniteSet(OnUtxo(base, v)) /\ IsFiniteSet(OnUtxo(additional, v))
        /\ \A a \in OnUtxo(base, v) \cup OnUtxo(additional, v) : a.amount \in Nat
        /\ Gives(bs, ConsensusKey[v], EvmPower(base, v) + UtxoPower(base, v))
        /\ Gives(as, ConsensusKey[v], EvmPower(additional, v) + UtxoPower(additional, v))
    BY <1>9 DEF Powered, bs, as
  <2>2. EvmPower(merged, v) = EvmPower(base, v) + EvmPower(additional, v)
    <3>1. ~ ("EVM" \in base.assets.clientChains
             /\ "EVM" \in additional.assets.clientChains)
      OBVIOUS
    <3>2. "EVM" \in merged.assets.clientChains
              <=> \/ "EVM" \in base.assets.clientChains
                  \/ "EVM" \in additional.assets.clientChains
      BY <1>6
    <3>3. PICK e : e = IF v \in OptedIn(boot, registered)
                       THEN ToFixed0(TotalUsd(boot, v)) ELSE 0
      OBVIOUS
    <3>4. \A state : EvmPower(state, v)
                         = IF "EVM" \in state.assets.clientChains THEN e ELSE 0
      BY <3>3 DEF EvmPower
    <3> QED
      BY <2>1, <3>1, <3>2, <3>4
  <2>3. OnUtxo(merged, v) = OnUtxo(base, v) \cup OnUtxo(additional, v)
    BY <1>6 DEF OnUtxo
  <2>4. OnUtxo(base, v) \cap OnUtxo(additional, v) = {}
    BY DEF OnUtxo, Powered
  <2> DEFINE S == OnUtxo(merged, v)
             A == OnUtxo(base, v)
             B == OnUtxo(additional, v)
             f == [a \in S |-> a.amount]
  <2>5. \A a \in A \cup B : f[a] = a.amount /\ f[a] \in Nat
    BY <2>1, <2>3
  <2> HIDE DEF f, S, A, B
  <2>6. /\ IsFiniteSet(A \cup B)
        /\ SumFunctionOnSet(f, A \cup B) = SumFunctionOnSet(f, A) + SumFunctionOnSet(f, B)
    BY <2>1, <2>4, <2>5, SumOfTwo DEF A, B
  <2>7. /\ UtxoPower(base, v) = SumFunctionOnSet(f, A) /\ UtxoPower(base, v) \in Nat
        /\ UtxoPower(additional, v) = SumFunctionOnSet(f, B)
        /\ UtxoPower(additional, v) \in Nat
    BY <2>1, <2>5, UtxoPowerIs DEF A, B
  <2>8. UtxoPower(merged, v) = SumFunctionOnSet(f, A \cup B)
    BY <2>1, <2>3, <2>5, <2>6, UtxoPowerIs DEF A, B
  <2>9. EvmPower(merged, v) + UtxoPower(merged, v)
            = (EvmPower(base, v) + UtxoPower(base, v))
              + (EvmPower(additional, v) + UtxoPower(additional, v))
    BY <2>1, <2>2, <2>6, <2>7, <2>8
  <2>10. Gives(t, ConsensusKey[v], EvmPower(merged, v) + UtxoPower(merged, v))
    BY <1>4, <1>5, <2>1, <2>9
  <2> QED
    BY <2>1, <2>2, <2>3, <2>6, <2>10 DEF A, B
<1> QED
  BY <1>5, <1>6, <1>7, <1>8, <1>9 DEF Powered, merged

\* What the generator of Bitcoin or XRP writes.
LEMMA StakesPowered ==
    ASSUME NEW c \in UtxoChains, NEW stakes, IsFiniteSet(DOMAIN stakes),
           \A i \in DOMAIN stakes : /\ stakes[i].amount \in Nat
                                    /\ stakes[i].validatorAddress \in registered,
           registered \in Registrations, Cardinality(registered) <= MaxValidators
    PROVE  Powered(GenesisState(c, stakes))
<1> DEFINE state == GenesisState(c, stakes)
           W == ValidatorsOf(stakes)
           pw == [v \in W |-> Power(c, StakedWith(stakes, v))]
           entry(v) == [operator |-> v, asset |-> AssetId(c),
                        amount |-> Power(c, StakedWith(stakes, v))]
           t == SortedByPower(SetToSeq(
                    {[publicKey |-> ConsensusKey[v], power |-> pw[v]] : v \in W}))
<1>1. /\ registered \subseteq Validators /\ IsFiniteSet(registered)
      /\ W \subseteq registered
  BY RegistrationsAssumption DEF ValidatorsOf, Fields
<1>2. /\ W \in SUBSET Validators /\ IsFiniteSet(W)
      /\ Cardinality(W) <= MaxValidators
      /\ Cardinality(W) \in Nat /\ MaxValidators \in Nat
  <2>1. /\ IsFiniteSet(W) /\ Cardinality(W) <= Cardinality(registered)
        /\ Cardinality(W) \in Nat /\ Cardinality(registered) \in Nat
    BY <1>1, FS_Subset, FS_CardinalityType
  <2> QED
    BY <1>1, <2>1, PricesAssumption
<1>3. ASSUME NEW v
      PROVE  Power(c, StakedWith(stakes, v)) \in Nat
  <2> DEFINE T == {i \in DOMAIN stakes : stakes[i].validatorAddress = v}
  <2>1. StakedWith(stakes, v) = SumFunctionOnSet(Amounts(stakes), T)
    BY StakedSums
  <2>2. IsFiniteSet(T) /\ \A i \in T : Amounts(stakes)[i] \in Nat
    <3>1. IsFiniteSet(T)
      BY FS_Subset
    <3> QED
      BY <3>1 DEF Amounts
  <2> HIDE DEF T
  <2>3. PICK n \in Nat : n = StakedWith(stakes, v)
    BY <2>1, <2>2, SumType
  <2>4. PICK p \in Nat, u \in Nat \ {0} : p = Price[c] /\ u = Unit[c]
    BY PricesAssumption DEF UtxoChains
  <2>5. n * p \in Nat
    OBVIOUS
  <2>6. (n * p) \div u \in Nat
    BY <2>5, DivKeepsOrder
  <2> QED
    BY <2>3, <2>4, <2>6 DEF Power, BitcoinPower, XrpPower, UtxoChains
<1>4. \A v \in W : pw[v] \in Nat
  BY <1>3
<1>5. /\ IsValSet(t) /\ Descending(t) /\ Len(t) <= Cardinality(W)
      /\ \A v \in Validators :
             Gives(t, ConsensusKey[v], IF v \in W THEN pw[v] ELSE 0)
  <2> HIDE DEF pw, W
  <2> QED
    BY <1>2, <1>4, ValSetOfOperators
<1>6. /\ state.dogfood.valSet = ValSet(c, stakes)
      /\ state.dogfood.lastTotalPower = TotalPower(ValSet(c, stakes))
      /\ state.operator.assetUsdValues = {entry(v) : v \in W}
      /\ state.assets.clientChains = {c}
  BY DEF GenesisState, BitcoinGenesisState, XrpGenesisState, Dogfood, Operator,
         Assets, UtxoChains
<1>7. ValSet(c, stakes) = t
  <2>1. {[publicKey |-> ConsensusKey[v], power |-> pw[v]] : v \in W}
            = {[publicKey |-> ConsensusKey[v],
                power |-> Power(c, StakedWith(stakes, v))] : v \in W}
    OBVIOUS
  <2>2. PICK u : u = t
    OBVIOUS
  <2>3. u \in Seq(ValRecords) /\ Len(u) <= MaxValidators /\ Len(u) \in Nat
    BY <1>2, <1>5, <2>2 DEF IsValSet
  <2>4. ValSet(c, stakes) = SubSeq(u, 1, IF Len(u) < MaxValidators
                                             THEN Len(u) ELSE MaxValidators)
    BY <2>1, <2>2 DEF ValSet
  <2>5. ValSet(c, stakes) = SubSeq(u, 1, Len(u))
    BY <1>2, <2>3, <2>4
  <2> HIDE DEF t
  <2> QED
    BY <2>2, <2>3, <2>5
<1>8. \A a \in state.operator.assetUsdValues :
          /\ a.asset.chain \in state.assets.clientChains
          /\ a.asset.chain \in UtxoChains /\ a.amount \in Nat
  BY <1>3, <1>6 DEF AssetId
<1> HIDE DEF state, t
<1>9. ASSUME NEW v \in registered
      PROVE  /\ EvmPower(state, v) = 0
             /\ IsFiniteSet(OnUtxo(state, v))
             /\ \A a \in OnUtxo(state, v) : a.amount \in Nat
             /\ Gives(t, ConsensusKey[v], EvmPower(state, v) + UtxoPower(state, v))
  <2>1. EvmPower(state, v) = 0
    BY <1>6 DEF EvmPower, UtxoChains
  <2>2. PICK p : p = IF v \in W THEN pw[v] ELSE 0
    OBVIOUS
  <2>3. p \in Nat /\ Gives(t, ConsensusKey[v], p)
    BY <1>1, <1>4, <1>5, <2>2
  <2>4. /\ IsFiniteSet(OnUtxo(state, v))
        /\ UtxoPower(state, v) = p
        /\ \A a \in OnUtxo(state, v) : a.amount \in Nat
    <3>1. CASE v \in W
      <4>1. PICK e : e = entry(v)
        OBVIOUS
      <4>2. OnUtxo(state, v) = {e}
        BY <1>6, <1>8, <3>1, <4>1 DEF OnUtxo
      <4>3. e.amount = p
        BY <2>2, <3>1, <4>1
      <4>4. IsFiniteSet(OnUtxo(state, v))
        <5>1. IsFiniteSet({e})
          BY FS_Singleton
        <5> QED
          BY <4>2, <5>1
      <4> DEFINE f == [a \in {e} |-> a.amount]
      <4>5. f[e] = p
        BY <4>3
      <4>6. \A a \in {e} : f[a] = a.amount
        BY <4>3, <4>5
      <4> HIDE DEF f
      <4>7. \A a \in OnUtxo(state, v) : a.amount \in Nat /\ f[a] = a.amount
        BY <2>3, <4>2, <4>3, <4>6
      <4>8. UtxoPower(state, v) = SumFunctionOnSet(f, {e})
        BY <4>2, <4>4, <4>7, UtxoPowerIs
      <4>9. SumFunctionOnSet(f, {e}) = p
        BY <2>3, <4>5, SumOne
      <4> QED
        BY <4>4, <4>7, <4>8, <4>9
    <3>2. CASE v \notin W
      <4>1. OnUtxo(state, v) = {}
        BY <1>6, <3>2 DEF OnUtxo
      <4>2. UtxoPower(state, v) = 0
        BY <4>1, SumEmpty DEF UtxoPower, SumFunction
      <4> QED
        BY <2>2, <3>2, <4>1, <4>2, FS_EmptySet
    <3> QED
      BY <3>1, <3>2
  <2> QED
    BY <2>1, <2>3, <2>4
<1> QED
  BY <1>5, <1>6, <1>7, <1>8, <1>9 DEF Powered, state

\* The value delegated to an operator, and its rounding.
LEMMA UsdIsNat ==
    ASSUME boot \in BootStates, NEW v
    PROVE  TotalUsd(boot, v) \in Nat
<1> DEFINE list == [i \in DOMAIN boot.tokens |->
                       UsdValue(boot, boot.tokens[i], LAMBDA d : d.operator = v)]
<1>1. /\ IsFiniteSet(boot.delegations)
      /\ boot.tokens \in Seq(ToSet(boot.tokens))
      /\ \A t \in ToSet(boot.tokens) : t.rate \in Nat
      /\ \A d \in boot.delegations : d.amount \in Nat
  BY BootAssumption
<1>2. PICK n \in Nat : /\ DOMAIN boot.tokens = 1..n
                      /\ \A i \in 1..n : boot.tokens[i] \in ToSet(boot.tokens)
  BY <1>1
<1>3. ASSUME NEW i \in 1..n
      PROVE  list[i] \in Nat
  <2> DEFINE t == boot.tokens[i]
             S == {d \in boot.delegations : d.token = t.address /\ d.operator = v}
             f == [d \in S |-> d.amount]
  <2>1. \A d \in S : f[d] \in Nat
    BY <1>1
  <2>2. IsFiniteSet(S)
    BY <1>1, FS_Subset
  <2>3. Delegated(boot, LAMBDA d : d.token = t.address /\ d.operator = v)
            = SumFunctionOnSet(f, S)
    BY DEF Delegated, SumFunction
  <2>4. list[i] = Times(Minus(SumFunctionOnSet(f, S), 0), t.rate)
    BY <1>2, <2>3 DEF UsdValue, DelegationValue
  <2> HIDE DEF f, S, list
  <2>5. PICK x \in Nat : x = SumFunctionOnSet(f, S)
    BY <2>1, <2>2, SumType
  <2>6. PICK r \in Nat : r = t.rate
    BY <1>1, <1>2
  <2>7. PICK y \in Nat : y = Rounded(x)
    BY RoundedFacts
  <2>8. PICK z \in Nat : z = y * r
    OBVIOUS
  <2>9. list[i] = Rounded(z)
    BY <2>4, <2>5, <2>6, <2>7, <2>8, MinusZero DEF Times
  <2> QED
    BY <2>9, RoundedFacts
<1>4. TotalUsd(boot, v) = RoundedSum(list)
  BY DEF TotalUsd, TotalUsdValue
<1>5. Len(list) = n
  BY <1>2
<1> HIDE DEF list
<1> QED
  BY <1>3, <1>4, <1>5, RoundedSumType

LEMMA RoundingKeepsOrder ==
    /\ ToFixed0(0) = 0
    /\ \A a, b \in Nat : a <= b => ToFixed0(a) \in Nat /\ ToFixed0(a) <= ToFixed0(b)
<1>1. PICK u \in Nat \ {0} : u = RateUnit
  <2>1. PICK k \in Nat : RateUnit = Scale[k]
    BY RateUnitAssumption, DecimalsAssumption
  <2> QED
    BY <2>1, ScaleFacts
<1>2. ToFixed0(0) = 0
  <2>1. (2 * 0 + u) \div (2 * u) = 0
    OBVIOUS
  <2> QED
    BY <1>1, <2>1 DEF ToFixed0
<1>3. ASSUME NEW a \in Nat, NEW b \in Nat, a <= b
      PROVE  ToFixed0(a) \in Nat /\ ToFixed0(a) <= ToFixed0(b)
  <2>1. PICK x \in Nat, y \in Nat, d \in Nat \ {0} :
            x = 2 * a + u /\ y = 2 * b + u /\ d = 2 * u /\ x <= y
    <3>1. /\ 2 * a + u \in Nat /\ 2 * b + u \in Nat /\ 2 * u \in Nat \ {0}
          /\ 2 * a + u <= 2 * b + u
      BY <1>3
    <3> QED
      BY <3>1
  <2>2. x \div d \in Nat /\ x \div d <= y \div d
    BY <2>1, DivKeepsOrder
  <2> QED
    BY <1>1, <2>1, <2>2 DEF ToFixed0
<1> QED
  BY <1>2, <1>3

\* What generate.mjs writes: the values are sorted, then rounded.
LEMMA EvmPowered ==
    ASSUME WorldInv, Cardinality(registered) <= MaxValidators
    PROVE  Powered(EvmGenesisState(boot, registered))
<1> DEFINE state == EvmGenesisState(boot, registered)
           W == OptedIn(boot, registered)
           pw == [v \in W |-> TotalUsd(boot, v)]
           s == SortedByPower(SetToSeq(
                    {[publicKey |-> ConsensusKey[v], power |-> pw[v]] : v \in W}))
           t == EvmValSet(boot, registered)
<1>1. /\ registered \subseteq Validators /\ IsFiniteSet(registered)
      /\ W \subseteq registered /\ boot \in BootStates
  BY RegistrationsAssumption DEF OptedIn, Kept, WorldInv
<1>2. /\ W \in SUBSET Validators /\ IsFiniteSet(W)
      /\ Cardinality(W) <= MaxValidators
      /\ Cardinality(W) \in Nat /\ MaxValidators \in Nat
  <2>1. /\ IsFiniteSet(W) /\ Cardinality(W) <= Cardinality(registered)
        /\ Cardinality(W) \in Nat /\ Cardinality(registered) \in Nat
    BY <1>1, FS_Subset, FS_CardinalityType
  <2> QED
    BY <1>1, <2>1, PricesAssumption
<1>3. \A v \in W : pw[v] \in Nat
  BY <1>1, UsdIsNat
<1>4. /\ IsValSet(s) /\ Descending(s) /\ Len(s) <= Cardinality(W)
      /\ \A v \in Validators :
             Gives(s, ConsensusKey[v], IF v \in W THEN pw[v] ELSE 0)
  <2> HIDE DEF pw, W
  <2> QED
    BY <1>2, <1>3, ValSetOfOperators
<1>5. t = [i \in 1..Len(s) |-> [s[i] EXCEPT !.power = ToFixed0(@)]]
  <2>1. {[publicKey |-> ConsensusKey[v], power |-> pw[v]] : v \in W}
            = {[publicKey |-> ConsensusKey[v], power |-> TotalUsd(boot, v)] : v \in W}
    OBVIOUS
  <2>2. PICK u : u = s
    OBVIOUS
  <2>3. Len(u) <= MaxValidators /\ Len(u) \in Nat
    BY <1>2, <1>4, <2>2 DEF IsValSet
  <2>4. (IF Len(u) < MaxValidators THEN Len(u) ELSE MaxValidators) = Len(u)
    BY <1>2, <2>3
  <2>5. t = [i \in 1..(IF Len(u) < MaxValidators THEN Len(u) ELSE MaxValidators) |->
                 [u[i] EXCEPT !.power = ToFixed0(@)]]
    BY <2>1, <2>2 DEF EvmValSet
  <2> HIDE DEF s, t
  <2> QED
    BY <2>2, <2>4, <2>5
<1> HIDE DEF s, t
<1>6. /\ DOMAIN s = 1..Len(s) /\ Len(s) \in Nat
      /\ \A i \in 1..Len(s) : s[i] \in ValRecords
  BY <1>4 DEF IsValSet
<1>7. \A i \in 1..Len(s) :
          /\ s[i].power \in Nat /\ ToFixed0(s[i].power) \in Nat
          /\ t[i].publicKey = s[i].publicKey /\ t[i].power = ToFixed0(s[i].power)
          /\ t[i] \in ValRecords
  <2> SUFFICES ASSUME NEW i \in 1..Len(s)
               PROVE  /\ s[i].power \in Nat /\ ToFixed0(s[i].power) \in Nat
                      /\ t[i].publicKey = s[i].publicKey
                      /\ t[i].power = ToFixed0(s[i].power)
                      /\ t[i] \in ValRecords
    OBVIOUS
  <2>1. s[i].power \in Nat /\ ToFixed0(s[i].power) \in Nat
    BY <1>6, RanksOfKeys, RoundingKeepsOrder
  <2>2. t[i] = [publicKey |-> s[i].publicKey, power |-> ToFixed0(s[i].power)]
    BY <1>5, <1>6 DEF ValRecords
  <2>3. PICK k, q : k = s[i].publicKey /\ q = ToFixed0(s[i].power)
    OBVIOUS
  <2>4. t[i] = [publicKey |-> k, power |-> q]
    BY <2>2, <2>3
  <2>5. t[i].publicKey = k /\ t[i].power = q
    BY <2>4
  <2> QED
    BY <1>6, <2>1, <2>3, <2>4, <2>5 DEF ValRecords
<1>8. t \in Seq(ValRecords) /\ DOMAIN t = 1..Len(s)
  <2>1. PICK n \in Nat : n = Len(s)
    BY <1>6
  <2>2. DOMAIN t = 1..n
    BY <1>5, <2>1
  <2>3. t \in [1..n -> ValRecords]
    <3>1. \A i \in 1..n : t[i] \in ValRecords
      BY <1>7, <2>1
    <3>2. t = [i \in 1..n |-> t[i]]
      BY <1>5, <2>1
    <3> QED
      BY <3>1, <3>2
  <2>4. t \in Seq(ValRecords)
    BY <2>3
  <2> QED
    BY <2>1, <2>2, <2>4
<1>9. IsValSet(t) /\ Descending(t)
  <2>1. \A i, j \in DOMAIN t : t[i].publicKey = t[j].publicKey => i = j
    BY <1>4, <1>6, <1>7, <1>8 DEF IsValSet
  <2>2. ASSUME NEW i \in DOMAIN t, NEW j \in DOMAIN t, i < j
        PROVE  t[i].power >= t[j].power
    <3>1. s[i].power >= s[j].power
      BY <1>4, <1>6, <1>8, <2>2 DEF Descending
    <3>2. s[j].power <= s[i].power
      BY <1>7, <1>8, <2>2, <3>1
    <3>3. ToFixed0(s[j].power) <= ToFixed0(s[i].power)
      BY <1>7, <1>8, <2>2, <3>2, RoundingKeepsOrder
    <3> QED
      BY <1>7, <1>8, <2>2, <3>3
  <2> QED
    BY <1>8, <2>1, <2>2 DEF IsValSet, Descending
<1>10. \A key, p : Gives(s, key, p) => Gives(t, key, ToFixed0(p))
  <2> SUFFICES ASSUME NEW key, NEW p, Gives(s, key, p)
               PROVE  Gives(t, key, ToFixed0(p))
    OBVIOUS
  <2>1. CASE \E i \in DOMAIN s : s[i].publicKey = key /\ s[i].power = p
    <3>1. PICK i \in 1..Len(s) : s[i].publicKey = key /\ s[i].power = p
      BY <1>6, <2>1
    <3>2. t[i].publicKey = key /\ t[i].power = ToFixed0(p)
      BY <1>7, <3>1
    <3> QED
      BY <1>8, <3>2 DEF Gives
  <2>2. CASE p = 0 /\ \A i \in DOMAIN s : s[i].publicKey # key
    <3>1. \A i \in 1..Len(s) : t[i].publicKey # key
      BY <1>6, <1>7, <2>2
    <3> QED
      BY <1>8, <2>2, <3>1, RoundingKeepsOrder DEF Gives
  <2> QED
    BY <2>1, <2>2 DEF Gives
<1>11. /\ state.dogfood.valSet = t
       /\ state.dogfood.lastTotalPower = TotalPower(t)
       /\ state.assets.clientChains = {"EVM"}
       /\ \A a \in state.operator.assetUsdValues : a.asset.chain = "EVM"
  <2>1. state.assets.clientChains = {"EVM"}
    BY StatesOfOneChain
  <2>2. state.dogfood = EvmDogfood(boot, registered)
    BY DEF EvmGenesisState
  <2>3. /\ state.dogfood.valSet = t
        /\ state.dogfood.lastTotalPower = TotalPower(t)
    BY <2>2 DEF EvmDogfood, t
  <2>4. state.operator.assetUsdValues = EvmOperator(boot, registered).assetUsdValues
    BY DEF EvmGenesisState
  <2> DEFINE usd(v, x) == UsdValue(boot, x, LAMBDA d : d.operator = v)
             entry(v, x) == [operator |-> v, asset |-> EvmAsset(x),
                             amount |-> usd(v, x)]
  <2>5. \A a \in EvmOperator(boot, registered).assetUsdValues : a.asset.chain = "EVM"
    <3>1. EvmOperator(boot, registered).assetUsdValues =
              {entry(v, x) : v \in Kept(boot, registered), x \in ToSet(boot.tokens)}
      BY DEF EvmOperator
    <3> HIDE DEF usd
    <3>2. \A x : EvmAsset(x).chain = "EVM"
      BY DEF EvmAsset
    <3>3. \A v, x : entry(v, x).asset = EvmAsset(x)
      OBVIOUS
    <3> HIDE DEF entry
    <3> QED
      BY <3>1, <3>2, <3>3
  <2> HIDE DEF state
  <2> QED
    BY <2>1, <2>3, <2>4, <2>5
<1> HIDE DEF state
<1>12. ASSUME NEW v \in registered
       PROVE  /\ EvmPower(state, v) \in Nat
              /\ IsFiniteSet(OnUtxo(state, v))
              /\ \A a \in OnUtxo(state, v) : a.amount \in Nat
              /\ Gives(t, ConsensusKey[v], EvmPower(state, v) + UtxoPower(state, v))
  <2>1. OnUtxo(state, v) = {}
    BY <1>11 DEF OnUtxo, UtxoChains
  <2>2. UtxoPower(state, v) = 0
    BY <2>1, SumEmpty DEF UtxoPower, SumFunction
  <2>3. PICK p : p = IF v \in W THEN pw[v] ELSE 0
    OBVIOUS
  <2>4. p \in Nat /\ Gives(s, ConsensusKey[v], p)
    BY <1>1, <1>3, <1>4, <2>3
  <2>5. ToFixed0(p) \in Nat
    BY <2>4, RoundingKeepsOrder
  <2>6. EvmPower(state, v) = ToFixed0(p)
    BY <1>11, <2>3, RoundingKeepsOrder DEF EvmPower
  <2> QED
    BY <1>10, <2>1, <2>2, <2>4, <2>5, <2>6, FS_EmptySet
<1> QED
  BY <1>9, <1>11, <1>12 DEF Powered, state

\* A key that is given a power is in the set at most once.
LEMMA PowersImply ==
    ASSUME WorldInv, Complete(output),
           Cardinality(registered) <= MaxValidators => Powered(output)
    PROVE  PowerAddsUp
<1> DEFINE valSet == output.dogfood.valSet
           At(v) == {i \in DOMAIN valSet : valSet[i].publicKey = ConsensusKey[v]}
           At2(v) == SumFunction([i \in At(v) |-> valSet[i].power])
           Ordered == \A i, j \in DOMAIN valSet :
                          i < j => /\ valSet[i].publicKey # valSet[j].publicKey
                                   /\ valSet[i].power >= valSet[j].power
<1> SUFFICES ASSUME Cardinality(registered) <= MaxValidators
             PROVE  /\ Ordered
                    /\ output.dogfood.lastTotalPower = TotalPower(valSet)
                    /\ \A v \in registered :
                           At2(v) = EvmPower(output, v) + UtxoPower(output, v)
  BY Zenon DEF PowerAddsUp, EvmPower, UtxoPower, OnUtxo, Merged
<1>1. /\ IsValSet(valSet) /\ Descending(valSet)
      /\ output.dogfood.lastTotalPower = TotalPower(valSet)
  BY DEF Powered
<1>2. /\ DOMAIN valSet = 1..Len(valSet)
      /\ \A i \in DOMAIN valSet : valSet[i].power \in Nat
      /\ \A i, j \in DOMAIN valSet :
             valSet[i].publicKey = valSet[j].publicKey => i = j
  BY <1>1, RanksOfKeys DEF IsValSet
<1>3. Ordered
  BY <1>1, <1>2 DEF Descending
<1>4. ASSUME NEW v \in registered
      PROVE  At2(v) = EvmPower(output, v) + UtxoPower(output, v)
  <2>1. PICK p : p = EvmPower(output, v) + UtxoPower(output, v)
    OBVIOUS
  <2>2. Gives(valSet, ConsensusKey[v], p)
    BY <1>4, <2>1 DEF Powered
  <2> HIDE DEF valSet
  <2> DEFINE f == [i \in At(v) |-> valSet[i].power]
  <2>3. At2(v) = SumFunctionOnSet(f, At(v))
    BY DEF SumFunction
  <2>4. CASE \E i \in DOMAIN valSet :
                 valSet[i].publicKey = ConsensusKey[v] /\ valSet[i].power = p
    <3>1. PICK i \in DOMAIN valSet :
              valSet[i].publicKey = ConsensusKey[v] /\ valSet[i].power = p
      BY <2>4
    <3>2. At(v) = {i}
      BY <1>2, <3>1
    <3>3. f[i] = p /\ p \in Nat
      BY <1>2, <3>1, <3>2
    <3> HIDE DEF f, At, At2
    <3>4. SumFunctionOnSet(f, {i}) = p
      BY <3>3, SumOne
    <3> QED
      BY <2>1, <2>3, <3>2, <3>4
  <2>5. CASE p = 0 /\ \A i \in DOMAIN valSet : valSet[i].publicKey # ConsensusKey[v]
    <3>1. At(v) = {}
      BY <2>5
    <3> HIDE DEF f, At, At2
    <3> QED
      BY <2>1, <2>3, <2>5, <3>1, SumEmpty
  <2> QED
    BY <2>2, <2>4, <2>5 DEF Gives
<1> QED
  BY <1>1, <1>3, <1>4

------------------------------------------------------------------------------
(* A state whose numbers agree.                                             *)

\* Its books balance, and its validator set has what the chains give.
Agrees(state) ==
    /\ Balanced(state)
    /\ Cardinality(registered) <= MaxValidators => Powered(state)

\* Bootstrap and its registrations stay as they are.
LEMMA PoweredStays ==
    ASSUME UNCHANGED <<boot, registered>>, NEW state, Powered(state)
    PROVE  Powered(state)'
<1>1. OptedIn(boot, registered)' = OptedIn(boot, registered)
  BY DEF OptedIn, Kept, SelfUsd, TotalUsdValue, UsdValue, DelegationValue,
      Delegated
<1>2. ASSUME NEW v
      PROVE  /\ EvmPower(state, v)' = EvmPower(state, v)
             /\ OnUtxo(state, v)' = OnUtxo(state, v)
             /\ UtxoPower(state, v)' = UtxoPower(state, v)
  BY <1>1 DEF EvmPower, OnUtxo, UtxoPower, TotalUsd, TotalUsdValue, UsdValue,
      DelegationValue, Delegated
<1> QED
  BY <1>2 DEF Powered

------------------------------------------------------------------------------
(* The oracle of generate.mjs: the base genesis' tokens, then Bootstrap's,   *)
(* each with a feeder and a price under its position.                        *)

IsSeq(s) == \E S : s \in Seq(S)

LEMMA SeqIs ==
    ASSUME NEW s, IsSeq(s)
    PROVE  Len(s) \in Nat /\ DOMAIN s = 1..Len(s)
  BY DEF IsSeq

LEMMA AppendIs ==
    ASSUME NEW s, IsSeq(s), NEW x
    PROVE  /\ IsSeq(Append(s, x))
           /\ Len(Append(s, x)) = Len(s) + 1
           /\ \A i \in 1..Len(s) : Append(s, x)[i] = s[i]
           /\ Append(s, x)[Len(s) + 1] = x
<1>1. PICK S : s \in Seq(S)
  BY DEF IsSeq
<1>2. PICK T : T = S \cup {x}
  OBVIOUS
<1>3. s \in Seq(T) /\ x \in T
  BY <1>1, <1>2
<1>4. Append(s, x) \in Seq(T)
  BY <1>3
<1> QED
  BY <1>1, <1>3, <1>4 DEF IsSeq

Placed == Len(BaseOracleTokens)

\* The oracle has the names of the base genesis and of the first k tokens, and
\* a feeder for each of the latter.
HasNames(oracle, tokens, k) ==
    /\ oracle = [tokens |-> oracle.tokens, feeders |-> oracle.feeders]
    /\ IsSeq(oracle.tokens) /\ IsSeq(oracle.feeders)
    /\ Len(oracle.tokens) = Placed + k /\ Len(oracle.feeders) = k
    /\ \A i \in 1..Placed : oracle.tokens[i].name = BaseOracleTokens[i].name
    /\ \A i \in 1..k :
           /\ oracle.tokens[Placed + i].name = tokens[i].name
           /\ "name" \in DOMAIN oracle.tokens[Placed + i]
           /\ oracle.feeders[i] = Placed + i - 1

\* What is assumed of the tokens of Bootstrap.
NewNames(tokens) ==
    /\ \A i, j \in DOMAIN tokens : tokens[i].name = tokens[j].name => i = j
    /\ \A i \in DOMAIN BaseOracleTokens : \A j \in DOMAIN tokens :
           BaseOracleTokens[i].name # tokens[j].name

LEMMA TokenAdds ==
    ASSUME IsSeq(BaseOracleTokens), NEW tokens, IsSeq(tokens), NewNames(tokens),
           NEW k \in 1..Len(tokens),
           NEW before, HasNames(before, tokens, k - 1),
           NEW oracle, oracle = AddOracleToken(before, tokens[k])
    PROVE  HasNames(oracle, tokens, k)
<1>1. /\ Placed \in Nat /\ DOMAIN BaseOracleTokens = 1..Placed
      /\ Len(tokens) \in Nat /\ DOMAIN tokens = 1..Len(tokens) /\ k \in Nat
  BY SeqIs DEF Placed
<1>2. PICK t : t = tokens[k]
  OBVIOUS
<1>3. PICK old : old = before.tokens
  OBVIOUS
<1>4. PICK fed : fed = before.feeders
  OBVIOUS
<1>5. /\ IsSeq(old) /\ IsSeq(fed)
      /\ Len(old) = Placed + k - 1 /\ Len(fed) = k - 1
      /\ \A i \in 1..Placed : old[i].name = BaseOracleTokens[i].name
      /\ \A i \in 1..(k - 1) :
             /\ old[Placed + i].name = tokens[i].name
             /\ "name" \in DOMAIN old[Placed + i]
             /\ fed[i] = Placed + i - 1
  BY <1>1, <1>3, <1>4 DEF HasNames
<1>6. PositionOf(old, t.name) = {}
  <2>1. ASSUME NEW i \in DOMAIN old
        PROVE  old[i].name # t.name
    <3>1. i \in 1..(Placed + k - 1)
      BY <1>5, SeqIs
    <3>2. CASE i <= Placed
      <4>1. i \in 1..Placed
        BY <1>1, <3>1, <3>2
      <4> QED
        BY <1>1, <1>2, <1>5, <4>1 DEF NewNames
    <3>3. CASE i > Placed
      <4>1. PICK j \in 1..(k - 1) : i = Placed + j
        <5>1. i - Placed \in 1..(k - 1) /\ i = Placed + (i - Placed)
          BY <1>1, <3>1, <3>3
        <5> QED
          BY <5>1
      <4>2. j \in 1..Len(tokens) /\ j # k
        BY <1>1
      <4>3. tokens[j].name # tokens[k].name
        BY <1>1, <4>2 DEF NewNames
      <4> QED
        BY <1>2, <1>5, <4>1, <4>3
    <3> QED
      BY <1>1, <3>1, <3>2, <3>3
  <2> QED
    BY <2>1 DEF PositionOf
<1>7. /\ oracle.tokens = Append(old, OracleToken(t))
      /\ oracle.feeders = Append(fed, Len(old))
      /\ oracle = [tokens |-> oracle.tokens, feeders |-> oracle.feeders]
  BY <1>2, <1>3, <1>4, <1>6 DEF AddOracleToken
<1>8. PICK new : new = oracle.tokens
  OBVIOUS
<1>9. PICK feeders : feeders = oracle.feeders
  OBVIOUS
<1>10. /\ IsSeq(new) /\ Len(new) = Placed + k
       /\ \A i \in 1..(Placed + k - 1) : new[i] = old[i]
       /\ new[Placed + k] = OracleToken(t)
  <2>1. PICK x : x = OracleToken(t)
    OBVIOUS
  <2>3. IsSeq(old) /\ new = Append(old, x)
    BY <1>5, <1>7, <1>8, <2>1
  <2>4. /\ IsSeq(new) /\ Len(new) = Len(old) + 1
        /\ \A i \in 1..Len(old) : new[i] = old[i]
        /\ new[Len(old) + 1] = x
    BY <2>3, AppendIs
  <2>2. Len(old) + 1 = Placed + k
    BY <1>1, <1>5
  <2> QED
    BY <1>5, <2>1, <2>2, <2>4
<1>11. /\ IsSeq(feeders) /\ Len(feeders) = k
       /\ \A i \in 1..(k - 1) : feeders[i] = fed[i]
       /\ feeders[k] = Placed + k - 1
  <2>1. PICK x : x = Len(old)
    OBVIOUS
  <2>3. IsSeq(fed) /\ feeders = Append(fed, x)
    BY <1>5, <1>7, <1>9, <2>1
  <2>4. /\ IsSeq(feeders) /\ Len(feeders) = Len(fed) + 1
        /\ \A i \in 1..Len(fed) : feeders[i] = fed[i]
        /\ feeders[Len(fed) + 1] = x
    BY <2>3, AppendIs
  <2>2. Len(fed) + 1 = k
    BY <1>1, <1>5
  <2> QED
    BY <1>5, <2>1, <2>2, <2>4
<1>12. ASSUME NEW i \in 1..Placed
       PROVE  new[i].name = BaseOracleTokens[i].name
  <2>1. i \in 1..(Placed + k - 1)
    BY <1>1
  <2> QED
    BY <1>5, <1>10, <2>1
<1>13. ASSUME NEW i \in 1..k
       PROVE  /\ new[Placed + i].name = tokens[i].name
              /\ "name" \in DOMAIN new[Placed + i]
              /\ feeders[i] = Placed + i - 1
  <2>1. CASE i = k
    BY <1>2, <1>10, <1>11, <2>1 DEF OracleToken
  <2>2. CASE i # k
    <3>1. i \in 1..(k - 1) /\ Placed + i \in 1..(Placed + k - 1)
      BY <1>1, <2>2
    <3> QED
      BY <1>5, <1>10, <1>11, <3>1
  <2> QED
    BY <2>1, <2>2
<1> QED
  BY <1>7, <1>8, <1>9, <1>10, <1>11, <1>12, <1>13 DEF HasNames

LEMMA TokensAdd ==
    ASSUME IsSeq(BaseOracleTokens), NEW tokens, IsSeq(tokens), NewNames(tokens)
    PROVE  HasNames(FoldLeft(AddOracleToken,
                             [tokens |-> BaseOracleTokens, feeders |-> <<>>],
                             tokens), tokens, Len(tokens))
<1> DEFINE base == [tokens |-> BaseOracleTokens, feeders |-> <<>>]
           n == Len(tokens)
<1>1. DOMAIN tokens = 1..n /\ n \in Nat
  BY SeqIs
<1>2. HasNames(base, tokens, 0)
  <2>1. IsSeq(<<>>) /\ Len(<<>>) = 0
    BY ShortSeq DEF IsSeq
  <2>2. Placed \in Nat
    BY SeqIs DEF Placed
  <2> QED
    BY <2>1, <2>2 DEF HasNames, Placed
<1> HIDE DEF base, n
<1>3. PICK f : /\ FoldLeft(AddOracleToken, base, tokens) = f[n]
               /\ f[0] = base
               /\ \A k \in 1..n : f[k] = FoldStep("tokens", f[k - 1], tokens[k])
  <2>1. FoldLeft(AddOracleToken, base, tokens) = Folded("tokens", base, tokens, n)
    BY <1>1, FoldUnfold
  <2>2. \E f : /\ Folded("tokens", base, tokens, n) = f[n]
               /\ f[0] = base
               /\ \A k \in 1..n : f[k] = FoldStep("tokens", f[k - 1], tokens[k])
    BY <1>1, <2>1, FoldSteps
  <2> QED
    BY <2>1, <2>2
<1>4. \A k \in 1..n : f[k] = AddOracleToken(f[k - 1], tokens[k])
  BY <1>3 DEF FoldStep
<1> DEFINE G == {k \in 0..n : HasNames(f[k], tokens, k)}
<1>5. 0 \in G
  BY <1>1, <1>2, <1>3
<1>6. ASSUME NEW k \in 0..n, k # 0, k - 1 \in G
      PROVE  k \in G
  <2>1. k \in 1..n
    BY <1>1, <1>6
  <2>2. k \in 1..Len(tokens)
    BY <2>1 DEF n
  <2>3. HasNames(f[k], tokens, k)
    BY <1>4, <1>6, <2>1, <2>2, TokenAdds
  <2> QED
    BY <2>3
<1>7. n \in G
  <2> HIDE DEF G
  <2> QED
    BY <1>1, <1>5, <1>6, RangeInduction
<1> QED
  BY <1>3, <1>7 DEF base, n

\* Another asset of a token changes no name, and no feeder.
LEMMA AssetAdds ==
    ASSUME IsSeq(BaseOracleTokens), NEW tokens, IsSeq(tokens),
           NEW oracle, HasNames(oracle, tokens, Len(tokens)),
           NEW j \in DOMAIN oracle.tokens, j > Placed, NEW assets,
           NEW o, o = [oracle EXCEPT !.tokens[j].assets = @ \cup assets]
    PROVE  HasNames(o, tokens, Len(tokens))
<1>1. /\ Placed \in Nat /\ Len(tokens) \in Nat
      /\ IsSeq(oracle.tokens) /\ IsSeq(oracle.feeders)
      /\ Len(oracle.tokens) = Placed + Len(tokens)
      /\ Len(oracle.feeders) = Len(tokens)
      /\ oracle = [tokens |-> oracle.tokens, feeders |-> oracle.feeders]
  BY SeqIs DEF HasNames, Placed
<1>2. PICK old : old = oracle.tokens
  OBVIOUS
<1>3. PICK new : new = [old EXCEPT ![j].assets = @ \cup assets]
  OBVIOUS
<1>4. o.tokens = new /\ o.feeders = oracle.feeders
      /\ o = [tokens |-> o.tokens, feeders |-> o.feeders]
  BY <1>1, <1>2, <1>3
<1>5. PICK n : n = Len(old)
  OBVIOUS
<1>6. /\ n \in Nat /\ DOMAIN old = 1..n /\ n = Placed + Len(tokens)
  BY <1>1, <1>2, <1>5, SeqIs
<1>7. /\ DOMAIN new = 1..n
      /\ new[j] = [old[j] EXCEPT !.assets = @ \cup assets]
      /\ \A i \in 1..n : i # j => new[i] = old[i]
      /\ new = [i \in 1..n |-> new[i]]
  BY <1>2, <1>3, <1>6
<1>8. IsSeq(new) /\ Len(new) = n
  <2> DEFINE S == {new[i] : i \in 1..n}
  <2>1. \A i \in 1..n : new[i] \in S
    OBVIOUS
  <2> HIDE DEF S
  <2>2. new \in [1..n -> S]
    BY <1>7, <2>1
  <2>3. new \in Seq(S)
    BY <1>6, <2>2
  <2>4. IsSeq(new)
    BY <2>3 DEF IsSeq
  <2>5. Len(new) \in Nat /\ 1..n = 1..Len(new)
    BY <1>7, <2>4, SeqIs
  <2> QED
    BY <1>6, <2>4, <2>5
<1>9. PICK k \in 1..Len(tokens) : j = Placed + k
  <2>1. j - Placed \in 1..Len(tokens) /\ j = Placed + (j - Placed)
    BY <1>1, <1>2, <1>6
  <2> QED
    BY <2>1
<1>10. "name" \in DOMAIN old[j]
  BY <1>2, <1>9 DEF HasNames
<1>11. /\ new[j].name = old[j].name /\ "name" \in DOMAIN new[j]
  BY <1>7, <1>10
<1>12. \A i \in 1..n : new[i].name = old[i].name
  BY <1>7, <1>11
<1>13. ASSUME NEW i \in 1..Placed
       PROVE  new[i].name = BaseOracleTokens[i].name
  <2>1. i \in 1..n
    BY <1>1, <1>6
  <2> QED
    BY <1>2, <1>12, <2>1 DEF HasNames
<1>14. ASSUME NEW i \in 1..Len(tokens)
       PROVE  /\ new[Placed + i].name = tokens[i].name
              /\ "name" \in DOMAIN new[Placed + i]
  <2>1. Placed + i \in 1..n
    BY <1>1, <1>6
  <2>2. /\ old[Placed + i].name = tokens[i].name
        /\ "name" \in DOMAIN old[Placed + i]
    BY <1>2 DEF HasNames
  <2>3. "name" \in DOMAIN new[Placed + i]
    BY <1>7, <1>11, <2>1, <2>2
  <2> QED
    BY <1>12, <2>1, <2>2, <2>3
<1>15. \A i \in 1..Len(tokens) : o.feeders[i] = Placed + i - 1
  BY <1>4 DEF HasNames
<1> QED
  BY <1>1, <1>4, <1>6, <1>8, <1>13, <1>14, <1>15 DEF HasNames

\* The oracle of the EVM chain.
LEMMA EvmOracleNames ==
    ASSUME boot \in BootStates, NEW o, o = OracleTokens(boot)
    PROVE  /\ Placed \in Nat /\ Placed <= 4
           /\ IsSeq(o.tokens) /\ Len(o.tokens) = 4
           /\ \A i \in 1..4 : o.tokens[i].name \notin {"BTC", "XRP"}
           /\ IsSeq(o.feeders) /\ ToSet(o.feeders) = Placed..3
<1>1. PICK tokens : tokens = boot.tokens
  OBVIOUS
<1>2. /\ IsSeq(BaseOracleTokens) /\ IsSeq(tokens)
      /\ Placed + Len(tokens) = 4
      /\ \A i, j \in DOMAIN tokens : tokens[i].name = tokens[j].name => i = j
      /\ \A s \in ToSet(BaseOracleTokens) : \A t \in ToSet(tokens) : s.name # t.name
      /\ \A s \in ToSet(BaseOracleTokens) : s.name \notin {"BTC", "XRP"}
      /\ \A t \in ToSet(tokens) : t.name \notin {"BTC", "XRP"}
      /\ \A t \in ToSet(tokens) :
             t.native => \E u \in ToSet(tokens) : t.remainder = u.name
  <2>1. tokens \in Seq(ToSet(tokens))
    BY <1>1, BootAssumption
  <2>2. BaseOracleTokens \in Seq(ToSet(BaseOracleTokens))
    BY OracleAssumption
  <2>3. /\ Placed + Len(tokens) = 4
        /\ \A i, j \in DOMAIN tokens : tokens[i].name = tokens[j].name => i = j
        /\ {t.name : t \in ToSet(BaseOracleTokens)} \cap {t.name : t \in ToSet(tokens)} = {}
        /\ {"BTC", "XRP"} \cap ({t.name : t \in ToSet(tokens)}
                \cup {t.name : t \in ToSet(BaseOracleTokens)}) = {}
        /\ \A t \in ToSet(tokens) : t.native =>
               t.remainder \in {u.name : u \in ToSet(tokens)}
    BY <1>1, OracleAssumption DEF Placed
  <2> QED
    BY <2>1, <2>2, <2>3 DEF IsSeq
<1>3. /\ Placed \in Nat /\ Len(tokens) \in Nat /\ Placed <= 4
      /\ DOMAIN BaseOracleTokens = 1..Placed /\ DOMAIN tokens = 1..Len(tokens)
  BY <1>2, SeqIs DEF Placed
<1>4. \A i \in 1..Placed : BaseOracleTokens[i] \in ToSet(BaseOracleTokens)
  BY <1>3 DEF ToSet
<1>5. \A i \in 1..Len(tokens) : tokens[i] \in ToSet(tokens)
  BY <1>3 DEF ToSet
<1>6. NewNames(tokens)
  BY <1>2, <1>3, <1>4, <1>5 DEF NewNames
<1>7. PICK oracle : oracle = FoldLeft(AddOracleToken,
                              [tokens |-> BaseOracleTokens, feeders |-> <<>>],
                              tokens)
  OBVIOUS
<1>8. HasNames(oracle, tokens, Len(tokens))
  BY <1>2, <1>6, <1>7, TokensAdd
<1>9. o = BindNative(oracle, boot)
  BY <1>1, <1>7 DEF OracleTokens
<1>10. HasNames(o, tokens, Len(tokens))
  <2> DEFINE natives == {t \in ToSet(tokens) : t.native}
  <2>1. CASE natives = {}
    BY <1>1, <1>8, <1>9, <2>1 DEF BindNative
  <2>2. CASE natives # {}
    <3>1. PICK t \in natives : t = CHOOSE n \in natives : TRUE
      BY <2>2
    <3>2. PICK at : at = PositionOf(oracle.tokens, t.remainder)
      OBVIOUS
    <3>3. PICK u \in ToSet(tokens) : t.remainder = u.name
      BY <1>2
    <3>4. PICK k \in 1..Len(tokens) : tokens[k] = u
      BY <1>3 DEF ToSet
    <3>5. DOMAIN oracle.tokens = 1..(Placed + Len(tokens))
      BY <1>8, SeqIs DEF HasNames
    <3>6. Placed + k \in at
      <4>1. Placed + k \in 1..(Placed + Len(tokens))
        BY <1>3
      <4>2. oracle.tokens[Placed + k].name = tokens[k].name
        BY <1>8 DEF HasNames
      <4> QED
        BY <3>2, <3>3, <3>4, <3>5, <4>1, <4>2 DEF PositionOf
    <3>7. PICK j \in at : j = CHOOSE i \in at : TRUE
      BY <3>6
    <3>8. j \in DOMAIN oracle.tokens /\ oracle.tokens[j].name = u.name
      BY <3>2, <3>3, <3>7 DEF PositionOf
    <3>9. j > Placed
      <4>1. j \in 1..(Placed + Len(tokens))
        BY <3>5, <3>8
      <4>2. ASSUME j <= Placed
            PROVE  FALSE
        <5>1. j \in 1..Placed
          BY <1>3, <4>1, <4>2
        <5>2. BaseOracleTokens[j].name = u.name
          BY <1>8, <3>8, <5>1 DEF HasNames
        <5> QED
          BY <1>2, <1>4, <5>1, <5>2
      <4> QED
        BY <1>3, <4>1, <4>2
    <3>10. PICK assets : assets = {EvmAsset(t)}
      OBVIOUS
    <3>11. o = [oracle EXCEPT !.tokens[j].assets = @ \cup assets]
      <4>1. /\ natives = {n \in ToSet(boot.tokens) : n.native}
            /\ at # {}
        BY <1>1, <3>6
      <4> HIDE DEF natives
      <4> QED
        BY <1>9, <2>2, <3>1, <3>2, <3>7, <3>10, <4>1 DEF BindNative
    <3>12. /\ IsSeq(BaseOracleTokens) /\ IsSeq(tokens)
           /\ HasNames(oracle, tokens, Len(tokens))
           /\ j \in DOMAIN oracle.tokens /\ j > Placed
      BY <1>2, <1>8, <3>8, <3>9
    <3> HIDE DEF natives
    <3> QED
      BY <3>11, <3>12, AssetAdds
  <2> QED
    BY <2>1, <2>2
<1>11. /\ IsSeq(o.tokens) /\ Len(o.tokens) = 4
       /\ IsSeq(o.feeders) /\ Len(o.feeders) = Len(tokens)
  BY <1>2, <1>10 DEF HasNames
<1>12. ASSUME NEW i \in 1..4
       PROVE  o.tokens[i].name \notin {"BTC", "XRP"}
  <2>1. CASE i <= Placed
    <3>1. i \in 1..Placed
      BY <1>3, <2>1
    <3> QED
      BY <1>2, <1>4, <1>10, <3>1 DEF HasNames
  <2>2. CASE i > Placed
    <3>1. PICK k \in 1..Len(tokens) : i = Placed + k
      <4>1. i - Placed \in 1..Len(tokens) /\ i = Placed + (i - Placed)
        BY <1>2, <1>3, <2>2
      <4> QED
        BY <4>1
    <3> QED
      BY <1>2, <1>5, <1>10, <3>1 DEF HasNames
  <2> QED
    BY <1>3, <2>1, <2>2
<1>13. ToSet(o.feeders) = Placed..3
  <2>1. DOMAIN o.feeders = 1..Len(tokens)
    BY <1>11, SeqIs
  <2>2. \A i \in 1..Len(tokens) : o.feeders[i] = Placed + i - 1
    BY <1>10 DEF HasNames
  <2>3. ASSUME NEW x \in ToSet(o.feeders)
        PROVE  x \in Placed..3
    <3>1. PICK i \in 1..Len(tokens) : x = o.feeders[i]
      BY <2>1 DEF ToSet
    <3> QED
      BY <1>2, <1>3, <2>2, <3>1
  <2>4. ASSUME NEW x \in Placed..3
        PROVE  x \in ToSet(o.feeders)
    <3>1. x - Placed + 1 \in 1..Len(tokens)
      BY <1>2, <1>3
    <3>2. o.feeders[x - Placed + 1] = x
      BY <1>3, <2>2, <3>1
    <3> QED
      BY <2>1, <3>1, <3>2 DEF ToSet
  <2> QED
    BY <2>3, <2>4
<1> QED
  BY <1>3, <1>11, <1>12, <1>13

\* The oracle has n tokens, each but the placed ones with a feeder under its
\* position, and every price is of a token.
Fits(oracle, n) ==
    /\ IsSeq(oracle.tokens) /\ Len(oracle.tokens) = n
    /\ ToSet(oracle.feeders) = Placed..(n - 1) /\ IsSeq(oracle.feeders)
    /\ IsSeq(oracle.prices)
    /\ \A i \in DOMAIN oracle.prices : \E j \in 1..n :
           /\ oracle.prices[i].tokenId = j - 1
           /\ oracle.prices[i].list = <<oracle.tokens[j].name>>

\* Every price is of the token at its position.
PricesOf(prices, tokens) ==
    /\ IsSeq(prices)
    /\ \A i \in DOMAIN prices : \E j \in DOMAIN tokens :
           prices[i].tokenId = j - 1 /\ prices[i].list = <<tokens[j].name>>

LEMMA PriceAdds ==
    ASSUME NEW tokens, IsSeq(tokens), NEW j \in DOMAIN tokens,
           NEW before, PricesOf(before, tokens),
           NEW prices,
           prices = AddPrice(before, [position |-> j - 1, name |-> tokens[j].name])
    PROVE  PricesOf(prices, tokens)
<1>1. PICK p : p = [tokenId |-> j - 1, list |-> <<tokens[j].name>>]
  OBVIOUS
<1>2. prices = before \/ prices = Append(before, p)
  BY <1>1 DEF AddPrice
<1>3. CASE prices = Append(before, p)
  <2>1. IsSeq(before)
    BY DEF PricesOf
  <2>2. /\ IsSeq(prices) /\ Len(prices) = Len(before) + 1
        /\ \A i \in 1..Len(before) : prices[i] = before[i]
        /\ prices[Len(before) + 1] = p
    <3>1. /\ IsSeq(Append(before, p)) /\ Len(Append(before, p)) = Len(before) + 1
          /\ \A i \in 1..Len(before) : Append(before, p)[i] = before[i]
          /\ Append(before, p)[Len(before) + 1] = p
      BY <2>1, AppendIs
    <3> QED
      BY <1>3, <3>1
  <2>3. /\ Len(before) \in Nat /\ DOMAIN before = 1..Len(before)
        /\ DOMAIN prices = 1..Len(before) + 1
    BY <2>1, <2>2, SeqIs
  <2>4. ASSUME NEW i \in DOMAIN prices
        PROVE  \E k \in DOMAIN tokens :
                   prices[i].tokenId = k - 1 /\ prices[i].list = <<tokens[k].name>>
    <3>1. CASE i = Len(before) + 1
      BY <1>1, <2>2, <3>1
    <3>2. CASE i # Len(before) + 1
      <4>1. i \in 1..Len(before)
        BY <2>3, <2>4, <3>2
      <4> QED
        BY <2>2, <2>3, <4>1 DEF PricesOf
    <3> QED
      BY <3>1, <3>2
  <2> QED
    BY <2>2, <2>4 DEF PricesOf
<1> QED
  BY <1>2, <1>3

LEMMA PricesFit ==
    ASSUME NEW tokens, IsSeq(tokens)
    PROVE  PricesOf(FoldLeft(AddPrice, <<>>,
                             [i \in DOMAIN tokens |->
                                 [position |-> i - 1, name |-> tokens[i].name]]),
                    tokens)
<1>1. PICK list : list = [i \in DOMAIN tokens |->
                             [position |-> i - 1, name |-> tokens[i].name]]
  OBVIOUS
<1>2. PICK n \in Nat : DOMAIN tokens = 1..n
  BY SeqIs
<1>3. DOMAIN list = 1..n
  BY <1>1, <1>2
<1>4. PICK f : /\ FoldLeft(AddPrice, <<>>, list) = f[n]
               /\ f[0] = <<>>
               /\ \A k \in 1..n : f[k] = FoldStep("prices", f[k - 1], list[k])
  <2>1. FoldLeft(AddPrice, <<>>, list) = Folded("prices", <<>>, list, n)
    BY <1>3, FoldUnfold
  <2>2. \E f : /\ Folded("prices", <<>>, list, n) = f[n]
               /\ f[0] = <<>>
               /\ \A k \in 1..n : f[k] = FoldStep("prices", f[k - 1], list[k])
    BY <1>3, <2>1, FoldSteps
  <2> QED
    BY <2>1, <2>2
<1>5. \A k \in 1..n : f[k] = AddPrice(f[k - 1], list[k])
  BY <1>4 DEF FoldStep
<1> DEFINE G == {k \in 0..n : PricesOf(f[k], tokens)}
<1>6. 0 \in G
  <2>1. IsSeq(<<>>) /\ DOMAIN <<>> = {}
    BY ShortSeq DEF IsSeq
  <2>2. PricesOf(<<>>, tokens)
    BY <2>1 DEF PricesOf
  <2> QED
    BY <1>4, <2>2
<1>7. ASSUME NEW k \in 0..n, k # 0, k - 1 \in G
      PROVE  k \in G
  <2>1. k \in 1..n /\ k \in DOMAIN tokens
    BY <1>2, <1>7
  <2>2. f[k] = AddPrice(f[k - 1], [position |-> k - 1, name |-> tokens[k].name])
    BY <1>1, <1>5, <2>1
  <2>3. PricesOf(f[k - 1], tokens)
    BY <1>7
  <2>4. PricesOf(f[k], tokens)
    BY <2>1, <2>2, <2>3, PriceAdds
  <2> QED
    BY <2>4
<1>8. n \in G
  <2> HIDE DEF G
  <2> QED
    BY <1>6, <1>7, RangeInduction
<1> QED
  BY <1>1, <1>4, <1>8

LEMMA EvmOracleFits ==
    ASSUME boot \in BootStates, NEW oracle, oracle = EvmOracle(boot)
    PROVE  /\ Placed \in Nat /\ Placed <= 4
           /\ Fits(oracle, 4)
           /\ \A i \in 1..4 : oracle.tokens[i].name \notin {"BTC", "XRP"}
<1>1. PICK o : o = OracleTokens(boot)
  OBVIOUS
<1>2. /\ Placed \in Nat /\ Placed <= 4
      /\ IsSeq(o.tokens) /\ Len(o.tokens) = 4
      /\ \A i \in 1..4 : o.tokens[i].name \notin {"BTC", "XRP"}
      /\ IsSeq(o.feeders) /\ ToSet(o.feeders) = Placed..3
  BY <1>1, EvmOracleNames
<1>3. /\ oracle.tokens = o.tokens /\ oracle.feeders = o.feeders
      /\ oracle.prices = EvmPrices(boot)
  BY <1>1 DEF EvmOracle
<1>4. PICK tokens : tokens = o.tokens
  OBVIOUS
<1>5. EvmPrices(boot) = FoldLeft(AddPrice, <<>>,
                            [i \in DOMAIN tokens |->
                                [position |-> i - 1, name |-> tokens[i].name]])
  BY <1>1, <1>4 DEF EvmPrices
<1>6. PricesOf(EvmPrices(boot), tokens)
  BY <1>2, <1>4, <1>5, PricesFit
<1>7. DOMAIN tokens = 1..4
  BY <1>2, <1>4, SeqIs
<1> QED
  BY <1>2, <1>3, <1>4, <1>6, <1>7 DEF Fits, PricesOf

\* Merging lists of which the second has one entry.
LEMMA MergeOneEntry ==
    ASSUME NEW base, NEW x
    PROVE  /\ MergeSeq(base, <<x>>, LAMBDA t : <<t.name, t.chainId>>)
                 = FoldStep("mergedTokens", base, x)
           /\ MergeSeq(base, <<x>>, LAMBDA f : f) = FoldStep("mergedFeeders", base, x)
           /\ MergeSeq(base, <<x>>, LAMBDA p : p.tokenId)
                 = FoldStep("mergedPrices", base, x)
<1>1. PICK list : list = <<x>>
  OBVIOUS
<1>2. PICK n \in Nat : n = 1 /\ DOMAIN list = 1..n /\ list[n] = x
  BY <1>1
<1>3. ASSUME NEW what
      PROVE  Folded(what, base, list, n) = FoldStep(what, base, x)
  <2>1. n \in Nat /\ DOMAIN list = 1..n
    BY <1>2
  <2>2. PICK t : t = Folded(what, base, list, n)
    OBVIOUS
  <2>3. PICK f : /\ t = f[n]
                 /\ f[0] = base
                 /\ \A k \in 1..n : f[k] = FoldStep(what, f[k - 1], list[k])
    BY <2>1, <2>2, FoldSteps
  <2>4. n \in 1..n /\ n - 1 = 0
    BY <1>2
  <2> QED
    BY <1>2, <2>2, <2>3, <2>4
<1>4. /\ MergeSeq(base, list, LAMBDA t : <<t.name, t.chainId>>)
            = Folded("mergedTokens", base, list, n)
      /\ MergeSeq(base, list, LAMBDA f : f) = Folded("mergedFeeders", base, list, n)
      /\ MergeSeq(base, list, LAMBDA p : p.tokenId)
            = Folded("mergedPrices", base, list, n)
  BY <1>2, MergeUnfolds
<1> QED
  BY <1>1, <1>3, <1>4

\* The oracle of a chain with one token, merged after n tokens and under the
\* position n: it fits if its name is new.
LEMMA OracleAdds ==
    ASSUME NEW n \in Nat, Placed \in Nat, Placed <= n, NEW a, Fits(a, n),
           NEW c, NEW symbol, NEW chainId,
           \A i \in 1..n : a.tokens[i].name # symbol,
           NEW m, m = MergeOracleModule(a, OracleOf(c, symbol, chainId, n))
    PROVE  /\ Fits(m, n + 1)
           /\ \A i \in 1..n : m.tokens[i].name = a.tokens[i].name
           /\ m.tokens[n + 1].name = symbol
<1>1. PICK t : t = [name |-> symbol, chainId |-> chainId, assets |-> {AssetId(c)}]
  OBVIOUS
<1>2. PICK p : p = [tokenId |-> n, list |-> <<symbol>>]
  OBVIOUS
<1>3. PICK tokens : tokens = a.tokens
  OBVIOUS
<1>4. PICK feeders : feeders = a.feeders
  OBVIOUS
<1>5. PICK prices : prices = a.prices
  OBVIOUS
<1>6. /\ IsSeq(tokens) /\ Len(tokens) = n /\ DOMAIN tokens = 1..n
      /\ IsSeq(feeders) /\ ToSet(feeders) = Placed..(n - 1)
      /\ IsSeq(prices)
      /\ \A i \in DOMAIN prices : \E j \in 1..n :
             prices[i].tokenId = j - 1 /\ prices[i].list = <<tokens[j].name>>
      /\ \A i \in 1..n : tokens[i].name # symbol
  BY <1>3, <1>4, <1>5, SeqIs DEF Fits
<1>7. /\ m.tokens = MergeSeq(tokens, <<t>>, LAMBDA x : <<x.name, x.chainId>>)
      /\ m.feeders = MergeSeq(feeders, <<n>>, LAMBDA x : x)
      /\ m.prices = MergePrices(prices, <<p>>)
  BY <1>1, <1>2, <1>3, <1>4, <1>5 DEF MergeOracleModule, OracleOf
<1>8. m.tokens = Append(tokens, t)
  <2>1. m.tokens = FoldStep("mergedTokens", tokens, t)
    BY <1>7, MergeOneEntry
  <2>2. \A i \in DOMAIN tokens :
            <<tokens[i].name, tokens[i].chainId>> # <<t.name, t.chainId>>
    BY <1>1, <1>6
  <2> QED
    BY <2>1, <2>2 DEF FoldStep
<1>9. m.feeders = Append(feeders, n)
  <2>1. m.feeders = FoldStep("mergedFeeders", feeders, n)
    BY <1>7, MergeOneEntry
  <2>2. \A i \in DOMAIN feeders : feeders[i] # n
    <3>1. \A i \in DOMAIN feeders : feeders[i] \in Placed..(n - 1)
      BY <1>6 DEF ToSet
    <3> QED
      BY <3>1
  <2> QED
    BY <2>1, <2>2 DEF FoldStep
<1>10. m.prices = Append(prices, p)
  <2>1. \A i \in DOMAIN prices : prices[i].tokenId # p.tokenId
    BY <1>2, <1>6
  <2>2. prices = [i \in DOMAIN prices |-> prices[i]]
    BY <1>6 DEF IsSeq
  <2>3. MergePrices(prices, <<p>>) = MergeSeq(prices, <<p>>, LAMBDA x : x.tokenId)
    <3>1. PICK list : list = <<p>>
      OBVIOUS
    <3>2. \A j \in DOMAIN list : list[j] = p
      BY <3>1
    <3>3. \A i \in DOMAIN prices :
              {j \in DOMAIN list : list[j].tokenId = prices[i].tokenId} = {}
      BY <2>1, <3>2
    <3> DEFINE merged == [i \in DOMAIN prices |->
                IF {j \in DOMAIN list : list[j].tokenId = prices[i].tokenId} = {}
                THEN prices[i]
                ELSE [prices[i] EXCEPT !.list = @ \o
                        list[CHOOSE j \in {j \in DOMAIN list :
                                list[j].tokenId = prices[i].tokenId} : TRUE].list]]
    <3>4. merged = prices
      BY <2>2, <3>3
    <3>5. MergePrices(prices, list) = MergeSeq(merged, list, LAMBDA x : x.tokenId)
      BY DEF MergePrices
    <3> QED
      BY <3>1, <3>4, <3>5
  <2>4. m.prices = FoldStep("mergedPrices", prices, p)
    BY <1>7, <2>3, MergeOneEntry
  <2> QED
    BY <2>1, <2>4 DEF FoldStep
<1>11. PICK new : new = Append(tokens, t)
  OBVIOUS
<1>12. /\ IsSeq(new) /\ Len(new) = n + 1
       /\ \A i \in 1..n : new[i] = tokens[i]
       /\ new[n + 1] = t
  <2>1. /\ IsSeq(Append(tokens, t)) /\ Len(Append(tokens, t)) = Len(tokens) + 1
        /\ \A i \in 1..Len(tokens) : Append(tokens, t)[i] = tokens[i]
        /\ Append(tokens, t)[Len(tokens) + 1] = t
    BY <1>6, AppendIs
  <2> QED
    BY <1>6, <1>11, <2>1
<1>13. PICK fed : fed = Append(feeders, n)
  OBVIOUS
<1>14. IsSeq(fed) /\ ToSet(fed) = Placed..n
  <2>1. PICK k : k = Len(feeders)
    OBVIOUS
  <2>2. /\ IsSeq(Append(feeders, n)) /\ Len(Append(feeders, n)) = Len(feeders) + 1
        /\ \A i \in 1..Len(feeders) : Append(feeders, n)[i] = feeders[i]
        /\ Append(feeders, n)[Len(feeders) + 1] = n
    BY <1>6, AppendIs
  <2>3. /\ k \in Nat /\ DOMAIN feeders = 1..k
        /\ IsSeq(fed) /\ DOMAIN fed = 1..k + 1
        /\ \A i \in 1..k : fed[i] = feeders[i]
        /\ fed[k + 1] = n
    BY <1>6, <1>13, <2>1, <2>2, SeqIs
  <2>4. ASSUME NEW x \in ToSet(fed)
        PROVE  x \in Placed..n
    <3>1. PICK i \in 1..k + 1 : x = fed[i]
      BY <2>3 DEF ToSet
    <3>2. CASE i = k + 1
      BY <2>3, <3>1, <3>2
    <3>3. CASE i # k + 1
      <4>1. i \in 1..k
        BY <2>3, <3>1, <3>3
      <4>2. x \in ToSet(feeders)
        BY <2>3, <3>1, <4>1 DEF ToSet
      <4> QED
        BY <1>6, <4>2
    <3> QED
      BY <3>2, <3>3
  <2>5. ASSUME NEW x \in Placed..n
        PROVE  x \in ToSet(fed)
    <3>1. CASE x = n
      BY <2>3, <3>1 DEF ToSet
    <3>2. CASE x # n
      <4>1. x \in ToSet(feeders)
        BY <1>6, <3>2
      <4>2. PICK i \in 1..k : x = feeders[i]
        BY <2>3, <4>1 DEF ToSet
      <4> QED
        BY <2>3, <4>2 DEF ToSet
    <3> QED
      BY <3>1, <3>2
  <2> QED
    BY <2>3, <2>4, <2>5
<1>15. PICK priced : priced = Append(prices, p)
  OBVIOUS
<1>16. /\ IsSeq(priced)
       /\ \A i \in DOMAIN priced : \E j \in 1..n + 1 :
              priced[i].tokenId = j - 1 /\ priced[i].list = <<new[j].name>>
  <2>1. PICK k : k = Len(prices)
    OBVIOUS
  <2>2. /\ IsSeq(Append(prices, p)) /\ Len(Append(prices, p)) = Len(prices) + 1
        /\ \A i \in 1..Len(prices) : Append(prices, p)[i] = prices[i]
        /\ Append(prices, p)[Len(prices) + 1] = p
    BY <1>6, AppendIs
  <2>3. /\ k \in Nat /\ DOMAIN prices = 1..k
        /\ IsSeq(priced) /\ DOMAIN priced = 1..k + 1
        /\ \A i \in 1..k : priced[i] = prices[i]
        /\ priced[k + 1] = p
    BY <1>6, <1>15, <2>1, <2>2, SeqIs
  <2>4. ASSUME NEW i \in DOMAIN priced
        PROVE  \E j \in 1..n + 1 :
                   priced[i].tokenId = j - 1 /\ priced[i].list = <<new[j].name>>
    <3>1. CASE i = k + 1
      <4>1. priced[i].tokenId = n /\ priced[i].list = <<symbol>>
        BY <1>2, <2>3, <3>1
      <4>2. new[n + 1].name = symbol /\ n + 1 \in 1..n + 1 /\ (n + 1) - 1 = n
        BY <1>1, <1>12
      <4> QED
        BY <4>1, <4>2
    <3>2. CASE i # k + 1
      <4>1. i \in 1..k
        BY <2>3, <2>4, <3>2
      <4>2. PICK j \in 1..n : prices[i].tokenId = j - 1
                              /\ prices[i].list = <<tokens[j].name>>
        BY <1>6, <2>3, <4>1
      <4>3. j \in 1..n + 1 /\ new[j] = tokens[j]
        BY <1>12
      <4> QED
        BY <2>3, <4>1, <4>2, <4>3
    <3> QED
      BY <3>1, <3>2
  <2> QED
    BY <2>3, <2>4
<1>17. Fits(m, n + 1)
  <2>1. m.tokens = new /\ m.feeders = fed /\ m.prices = priced
    BY <1>8, <1>9, <1>10, <1>11, <1>13, <1>15
  <2>2. PICK k : k = n + 1
    OBVIOUS
  <2>3. /\ Len(new) = k /\ k - 1 = n
        /\ \A i \in DOMAIN priced : \E j \in 1..k :
               priced[i].tokenId = j - 1 /\ priced[i].list = <<new[j].name>>
    BY <1>12, <1>16, <2>2
  <2>4. /\ IsSeq(new) /\ Len(new) = k
        /\ ToSet(fed) = Placed..(k - 1) /\ IsSeq(fed)
        /\ IsSeq(priced)
    BY <1>12, <1>14, <1>16, <2>3
  <2>5. /\ IsSeq(m.tokens) /\ Len(m.tokens) = k
        /\ ToSet(m.feeders) = Placed..(k - 1) /\ IsSeq(m.feeders)
        /\ IsSeq(m.prices)
    BY <2>1, <2>4
  <2>6. \A i \in DOMAIN m.prices : \E j \in 1..k :
            m.prices[i].tokenId = j - 1 /\ m.prices[i].list = <<m.tokens[j].name>>
    BY <2>1, <2>3
  <2>7. Fits(m, k)
    BY <2>5, <2>6 DEF Fits
  <2> QED
    BY <2>2, <2>7
<1> QED
  BY <1>1, <1>3, <1>8, <1>11, <1>12, <1>17

OracleFrom(c) ==
    CASE c = "EVM" -> EvmOracle(boot)
      [] c = "Bitcoin" -> BitcoinOracle
      [] c = "XRP" -> XrpOracle

\* A genesis of all chains has the three tokens of the base and of Bootstrap
\* and those of Bitcoin and XRP, which count on there being four before them.
LEMMA AllOraclesFit ==
    ASSUME boot \in BootStates, NEW m,
           m = MergeOracleModule(MergeOracleModule(OracleFrom("EVM"),
                                                   OracleFrom("Bitcoin")),
                                 OracleFrom("XRP"))
    PROVE  Fits(m, 6)
<1>1. PICK a : a = EvmOracle(boot)
  OBVIOUS
<1>2. /\ Placed \in Nat /\ Placed <= 4 /\ Fits(a, 4)
      /\ \A i \in 1..4 : a.tokens[i].name \notin {"BTC", "XRP"}
  BY <1>1, EvmOracleFits
<1>3. PICK b : b = MergeOracleModule(a, OracleOf("Bitcoin", "BTC", 1, 4))
  OBVIOUS
<1>4. /\ Fits(b, 4 + 1)
      /\ \A i \in 1..4 : b.tokens[i].name = a.tokens[i].name
      /\ b.tokens[4 + 1].name = "BTC"
  BY <1>2, <1>3, OracleAdds
<1>5. Fits(b, 5) /\ \A i \in 1..5 : b.tokens[i].name # "XRP"
  BY <1>2, <1>4
<1>6. m = MergeOracleModule(b, OracleOf("XRP", "XRP", 2, 5))
  BY <1>1, <1>3 DEF OracleFrom, BitcoinOracle, XrpOracle
<1>7. Fits(m, 5 + 1)
  BY <1>2, <1>5, <1>6, OracleAdds
<1> QED
  BY <1>7

\* The order the chains are run and merged in.
Rank == [c \in Chains |-> CASE c = "EVM" -> 1 [] c = "Bitcoin" -> 2 [] c = "XRP" -> 3]
Follows(A, B) == \A a \in A, b \in B : Rank[a] < Rank[b]
InRank(states) ==
    \A i, j \in DOMAIN states :
        i < j => Follows(states[i].assets.clientChains, states[j].assets.clientChains)

\* The state of one chain, with the oracle that is written for it.
OfChain(c, state) ==
    state.assets.clientChains = {c} /\ state.oracle = OracleFrom(c)

LEMMA Ranks ==
    /\ Chains = {"EVM", "Bitcoin", "XRP"}
    /\ Rank["EVM"] = 1 /\ Rank["Bitcoin"] = 2 /\ Rank["XRP"] = 3
    /\ \A c \in Chains : Rank[c] \in 1..3
  BY DEF Chains, UtxoChains, Rank

\* If every chain is there, the states are the three of them in order.
LEMMA ThreeStates ==
    ASSUME NEW states, Len(states) \in Nat \ {0}, DOMAIN states = 1..Len(states),
           InRank(states),
           \A i \in 1..Len(states) : \E c \in Chains : OfChain(c, states[i]),
           Chains \subseteq
               UNION {states[i].assets.clientChains : i \in 1..Len(states)}
    PROVE  /\ Len(states) = 3
           /\ OfChain("EVM", states[1])
           /\ OfChain("Bitcoin", states[2])
           /\ OfChain("XRP", states[3])
<1> DEFINE n == Len(states)
<1>1. ASSUME NEW c \in Chains
      PROVE  \E i \in 1..n : OfChain(c, states[i])
  <2>1. PICK i \in 1..n : c \in states[i].assets.clientChains
    BY <1>1
  <2>2. PICK d \in Chains : OfChain(d, states[i])
    OBVIOUS
  <2>3. d = c
    BY <2>1, <2>2 DEF OfChain
  <2> QED
    BY <2>2, <2>3
<1>2. PICK e \in 1..n : OfChain("EVM", states[e])
  BY <1>1, Ranks
<1>3. PICK b \in 1..n : OfChain("Bitcoin", states[b])
  BY <1>1, Ranks
<1>4. PICK x \in 1..n : OfChain("XRP", states[x])
  BY <1>1, Ranks
<1>5. ASSUME NEW i \in 1..n, NEW j \in 1..n, NEW c \in Chains, NEW d \in Chains,
             OfChain(c, states[i]), OfChain(d, states[j])
      PROVE  /\ i < j => Rank[c] < Rank[d]
             /\ i = j => c = d
  BY <1>5 DEF OfChain, InRank, Follows
<1>6. e < b /\ b < x
  <2>1. /\ b < e => Rank["Bitcoin"] < Rank["EVM"]
        /\ e = b => "EVM" = "Bitcoin"
        /\ x < b => Rank["XRP"] < Rank["Bitcoin"]
        /\ x = b => "XRP" = "Bitcoin"
    BY <1>2, <1>3, <1>4, <1>5, Ranks
  <2> QED
    BY <2>1, Ranks
<1>7. ASSUME NEW i \in 1..n
      PROVE  i \in {e, b, x}
  <2>1. PICK c \in Chains : OfChain(c, states[i])
    OBVIOUS
  <2>2. ASSUME NEW j \in 1..n, OfChain(c, states[j])
        PROVE  i = j
    <3>1. PICK r \in 1..3 : r = Rank[c]
      BY Ranks
    <3>2. /\ i < j => Rank[c] < Rank[c]
          /\ j < i => Rank[c] < Rank[c]
      BY <1>5, <2>1, <2>2
    <3>3. (i < j => r < r) /\ (j < i => r < r)
      BY <3>1, <3>2
    <3>4. i \in Nat /\ j \in Nat /\ ~ (r < r)
      OBVIOUS
    <3> QED
      BY <3>3, <3>4
  <2> QED
    BY <1>2, <1>3, <1>4, <2>1, <2>2, Ranks
<1>8. n \in Nat \ {0} /\ e \in 1..n /\ b \in 1..n /\ x \in 1..n
  OBVIOUS
<1> HIDE DEF n
<1>9. 1 = e /\ n = x
  <2>1. 1 \in 1..n /\ n \in 1..n
    BY <1>8
  <2>2. 1 \in {e, b, x} /\ n \in {e, b, x}
    BY <1>7, <2>1
  <2> QED
    BY <1>6, <1>8, <2>2
<1>10. 2 = b
  <2>1. 2 \in 1..n /\ 2 # e
    BY <1>6, <1>8, <1>9
  <2>2. 2 \in {e, b, x}
    BY <1>7, <2>1
  <2> QED
    BY <1>6, <1>8, <1>9, <2>1, <2>2
<1>11. 3 = x
  <2>1. 3 \in 1..n /\ 3 # e /\ 3 # b
    BY <1>6, <1>8, <1>9, <1>10
  <2>2. 3 \in {e, b, x}
    BY <1>7, <2>1
  <2> QED
    BY <2>1, <2>2
<1> QED
  BY <1>2, <1>3, <1>4, <1>9, <1>10, <1>11 DEF n

\* A genesis of all chains has feeders and prices that fit its tokens.
Fed(state) == state.assets.clientChains = Chains => Fits(state.oracle, 6)

LEMMA MergeFeeds ==
    ASSUME boot \in BootStates, NEW states, Len(states) \in Nat \ {0},
           DOMAIN states = 1..Len(states), InRank(states),
           \A i \in 1..Len(states) : \E c \in Chains : OfChain(c, states[i]),
           Merge(states).assets.clientChains \subseteq
               UNION {states[i].assets.clientChains : i \in 1..Len(states)}
    PROVE  Fed(Merge(states))
<1> SUFFICES ASSUME Merge(states).assets.clientChains = Chains
             PROVE  Fits(Merge(states).oracle, 6)
  BY DEF Fed
<1>1. /\ Len(states) = 3
      /\ OfChain("EVM", states[1])
      /\ OfChain("Bitcoin", states[2])
      /\ OfChain("XRP", states[3])
  BY ThreeStates
<1>2. PICK f : MergedEq(f, states, Len(states)) /\ Merge(states) = f[Len(states)]
  BY MergeSolution
<1>3. PICK n \in Nat : n = 3 /\ MergedEq(f, states, n) /\ Merge(states) = f[n]
  BY <1>1, <1>2
<1>4. \A i \in 1..n : f[i] = IF i = 1 THEN states[1] ELSE MergeTwo(f[i - 1], states[i])
  BY <1>3 DEF MergedEq
<1>5. /\ f[1] = states[1]
      /\ f[2] = MergeTwo(f[1], states[2])
      /\ f[3] = MergeTwo(f[2], states[3])
  <2>1. 1 \in 1..n /\ 2 \in 1..n /\ 3 \in 1..n /\ 2 - 1 = 1 /\ 3 - 1 = 2
    BY <1>3
  <2> QED
    BY <1>4, <2>1
<1>6. /\ f[2].oracle = MergeOracleModule(f[1].oracle, states[2].oracle)
      /\ f[3].oracle = MergeOracleModule(f[2].oracle, states[3].oracle)
  BY <1>5 DEF MergeTwo
<1>7. PICK m : m = Merge(states).oracle
  OBVIOUS
<1>8. m = MergeOracleModule(MergeOracleModule(OracleFrom("EVM"),
                                              OracleFrom("Bitcoin")),
                            OracleFrom("XRP"))
  BY <1>1, <1>3, <1>5, <1>6, <1>7 DEF OfChain
<1> QED
  BY <1>7, <1>8, AllOraclesFit

LEMMA FitsImplies ==
    ASSUME Fed(output)
    PROVE  FeedersFollowTokens
<1> SUFFICES ASSUME Complete(output), Merged = Chains
             PROVE  LET fed == Len(BaseOracleTokens)..Len(output.oracle.tokens) - 1
                    IN  /\ ToSet(output.oracle.feeders) = fed
                        /\ \A i \in DOMAIN output.oracle.prices :
                               LET p == output.oracle.prices[i]
                               IN  p.list = <<output.oracle.tokens[p.tokenId + 1].name>>
  BY DEF FeedersFollowTokens
<1>1. PICK oracle : oracle = output.oracle
  OBVIOUS
<1>2. Fits(oracle, 6)
  BY <1>1 DEF Fed, Merged
<1>3. ToSet(oracle.feeders) = Len(BaseOracleTokens)..Len(oracle.tokens) - 1
  BY <1>2 DEF Fits, Placed
<1>4. ASSUME NEW i \in DOMAIN oracle.prices
      PROVE  oracle.prices[i].list =
                 <<oracle.tokens[oracle.prices[i].tokenId + 1].name>>
  <2>1. PICK j \in 1..6 : /\ oracle.prices[i].tokenId = j - 1
                          /\ oracle.prices[i].list = <<oracle.tokens[j].name>>
    BY <1>2 DEF Fits
  <2>2. (j - 1) + 1 = j
    OBVIOUS
  <2> QED
    BY <2>1, <2>2
<1> QED
  BY <1>1, <1>3, <1>4

\* No two of the states are of one chain.
Apart(states) ==
    \A i, j \in DOMAIN states : i # j =>
        states[i].assets.clientChains \cap states[j].assets.clientChains = {}

\* States of different chains, merged one after the other.
LEMMA MergeAgrees ==
    ASSUME NEW states, Len(states) \in Nat \ {0}, DOMAIN states = 1..Len(states),
           \A i \in 1..Len(states) : Agrees(states[i]), Apart(states)
    PROVE  /\ Agrees(Merge(states))
           /\ Merge(states).assets.clientChains \subseteq
                  UNION {states[i].assets.clientChains : i \in 1..Len(states)}
<1>1. PICK f : MergedEq(f, states, Len(states)) /\ Merge(states) = f[Len(states)]
  BY MergeSolution
<1> DEFINE FirstChains(k) == UNION {states[i].assets.clientChains : i \in 1..k}
           Good(k) == /\ Agrees(f[k])
                      /\ f[k].assets.clientChains \subseteq FirstChains(k)
           G == {k \in 0..Len(states) : k # 0 => Good(k)}
<1>2. 0 \in G
  OBVIOUS
<1>3. ASSUME NEW k \in 0..Len(states), k # 0, k - 1 \in G
      PROVE  k \in G
  <2>1. f[k] = IF k = 1 THEN states[1] ELSE MergeTwo(f[k - 1], states[k])
    BY <1>1, <1>3 DEF MergedEq
  <2>2. CASE k = 1
    <3>1. Agrees(f[k]) /\ f[k].assets.clientChains \subseteq FirstChains(k)
      BY <1>3, <2>1, <2>2
    <3> QED
      BY <1>3, <3>1
  <2>3. CASE k # 1
    <3>1. Good(k - 1) /\ Agrees(states[k])
      BY <1>3, <2>3
    <3>2. FirstChains(k - 1) \cap states[k].assets.clientChains = {}
      BY <1>3 DEF Apart
    <3>3. Agrees(f[k])
      BY <2>1, <2>3, <3>1, <3>2, MergeTwoBalanced, MergeTwoPowered DEF Agrees
    <3>4. f[k].assets.clientChains =
              f[k - 1].assets.clientChains \cup states[k].assets.clientChains
      BY <2>1, <2>3 DEF MergeTwo, MergeAssetsModule
    <3>5. /\ FirstChains(k - 1) \subseteq FirstChains(k)
          /\ states[k].assets.clientChains \subseteq FirstChains(k)
      BY <1>3
    <3> QED
      BY <1>3, <3>1, <3>3, <3>4, <3>5
  <2> QED
    BY <2>2, <2>3
<1>4. Len(states) \in G
  <2> HIDE DEF G
  <2> QED
    BY <1>2, <1>3, RangeInduction
<1> QED
  BY <1>1, <1>4

\* A complete file is of one chain and its numbers agree.
Books(c, file) == OfChain(c, file) /\ Agrees(file)
FilesAgree ==
    \A c \in Chains : Complete(genesisFile[c]) => Books(c, genesisFile[c])

\* The states loaded are each of one chain, in the order of the chains, and those
\* still to run come after them.
Ascending(q) == \A i, j \in DOMAIN q : i < j => Rank[q[i]] < Rank[q[j]]
Before(states, chains) ==
    \A i \in DOMAIN states : Follows(states[i].assets.clientChains, chains)
OneEach(states) ==
    \A i \in DOMAIN states : \E c \in Chains : Books(c, states[i])
StatesAgree ==
    /\ Ascending(queue)
    /\ runner \in {"attempt", "child", "poll"} => Before(genesisStates, ToSet(queue))
    /\ InRank(genesisStates)
    /\ OneEach(genesisStates)
    /\ Complete(output) => Agrees(output) /\ Fed(output)

TotalsInv == WorldInv /\ FilesAgree /\ StatesAgree

LEMMA WorldStays ==
    ASSUME UnifiedNext
    PROVE  UNCHANGED <<boot, registered>>
<1>1. CASE Start \/ MergeExistingFiles \/ (RunnerStep /\ ~ Spawn)
  BY <1>1 DEF Start, MergeExistingFiles, RunnerStep, LoadExisting, Load,
      UnreadableFile, FailAttempt, ImportEvm, ChildExits, ChildKilled,
      PollFindsFile, PollTimesOut, MergeStates, WriteOutput, stakeScanVars,
      worldVars
<1>2. CASE Spawn \/ KillChild \/ Crash \/ ChainGrows
  BY <1>2 DEF Spawn, StartScan, KillChild, Kill, Crash, ChainGrows, Grow, worldVars
<1>3. CASE EvmStep
  BY <1>3 DEF EvmStep, EvmFails, EvmOpensFile, EvmWritesFile, stakeScanVars, worldVars
<1>4. CASE ScanStepOfChild
  BY <1>4 DEF ScanStepOfChild, ScanStep, FetchTransactions, ReadHeight,
      RequestFails, ValidateTx, OpenDataFile, ExportBootstrapData, WriteGenesis,
      worldVars
<1> QED
  BY <1>1, <1>2, <1>3, <1>4 DEF UnifiedNext

LEMMA BalancedStays ==
    ASSUME UNCHANGED boot, NEW state, Balanced(state)
    PROVE  Balanced(state)'
<1>1. Listed(state)' = Listed(state)
  BY DEF Listed
<1>2. ASSUME NEW t
      PROVE  /\ DelegatedOf(state, t)' = DelegatedOf(state, t)
             /\ DepositsOf(state, t)' = DepositsOf(state, t)
             /\ SharesOf(state, t)' = SharesOf(state, t)
             /\ ListedOf(state, t)' = ListedOf(state, t)
             /\ StatesOf(state, t)' = StatesOf(state, t)
  BY <1>1 DEF DelegatedOf, DepositsOf, SharesOf, Total, ListedOf, StatesOf
<1>3. ASSUME NEW t \in state.assets.tokens
      PROVE  TokenBalanced(state, t)'
  <2>1. TokenBalanced(state, t)
    BY DEF Balanced
  <2> QED
    BY <1>2, <2>1 DEF TokenBalanced, SlackOfBooks
<1> QED
  BY <1>3 DEF Balanced

LEMMA AgreesStays ==
    ASSUME UNCHANGED <<boot, registered>>, NEW state, Agrees(state)
    PROVE  Agrees(state)'
<1>1. Balanced(state)'
  BY BalancedStays DEF Agrees
<1>2. ASSUME Cardinality(registered) <= MaxValidators
      PROVE  Powered(state)'
  BY <1>2, PoweredStays DEF Agrees
<1> QED
  BY <1>1, <1>2 DEF Agrees

LEMMA BooksStay ==
    ASSUME UNCHANGED <<boot, registered>>, NEW c, NEW file, Books(c, file)
    PROVE  Books(c, file)'
<1>1. Agrees(file)'
  BY AgreesStays DEF Books
<1>2. OfChain(c, file)'
  BY DEF Books, OfChain, OracleFrom
<1> QED
  BY <1>1, <1>2 DEF Books

\* What a generator writes agrees.
LEMMA StakesAgree ==
    ASSUME ScanInv, ReadInv, WorldInv, pc = "genesis"
    PROVE  Books(chain, GenesisState(chain, Stakes(chain)))
<1> DEFINE stakes == Stakes(chain)
<1>1. /\ valid \in Seq(Txs) /\ chain \in UtxoChains /\ ledger \in Ledgers
      /\ ToSet(valid) \subseteq Accepted
  BY DEF ScanInv, ScanTypeOK, ReadInv, Sorted, ValidIsAccepted
<1>2. DOMAIN stakes = 1..Len(valid) /\ IsFiniteSet(DOMAIN stakes)
  BY <1>1, FS_Interval DEF Stakes
<1>3. ASSUME NEW i \in DOMAIN stakes
      PROVE  /\ stakes[i].amount \in Nat
             /\ stakes[i].validatorAddress \notin boot.invalid
             /\ stakes[i].validatorAddress \in registered
  <2>1. PICK tx : tx = valid[i]
    OBVIOUS
  <2>2. /\ stakes[i].amount = AmountOf(chain, tx)
        /\ stakes[i].validatorAddress = ReadTx(chain, tx).validatorAddress
    BY <1>2, <2>1 DEF Stakes, ToStake
  <2>3. tx \in Txs /\ tx \in ToSet(valid)
    BY <1>1, <1>2, <2>1 DEF ToSet
  <2>4. ReadTx(chain, tx) # Null
    BY <1>1, <2>3 DEF Accepted, Known, IsStake
  <2>5. AmountOf(chain, tx) \in Nat
    BY <1>1, <2>3, <2>4, LedgersAssumption DEF Txs
  <2>6. ReadTx(chain, tx).validatorAddress \notin boot.invalid
    BY <1>1, <2>3, <2>4, BootAssumption DEF Txs, WorldInv
  <2>7. ReadTx(chain, tx).validatorAddress \in registered
    BY <1>1, <2>3 DEF Accepted, Known, IsStake
  <2> QED
    BY <2>2, <2>5, <2>6, <2>7
<1> HIDE DEF stakes
<1>4. Agrees(GenesisState(chain, stakes))
  BY <1>1, <1>2, <1>3, StakesBalanced, StakesPowered DEF Agrees, WorldInv
<1>5. GenesisState(chain, stakes).oracle = OracleFrom(chain)
  BY <1>1 DEF GenesisState, BitcoinGenesisState, XrpGenesisState, OracleFrom, UtxoChains
<1> QED
  BY <1>1, <1>4, <1>5, StatesOfOneChain DEF Books, OfChain, stakes

LEMMA FilesAgreeStep ==
    ASSUME ScanInv, ReadInv, FilesInv, WorldInv, FilesAgree, UnifiedNext
    PROVE  FilesAgree'
<1>0. UNCHANGED <<boot, registered>>
  BY WorldStays
<1>1. \/ UNCHANGED genesisFile
      \/ \E c \in Chains : \E file :
             /\ genesisFile' = [genesisFile EXCEPT ![c] = file]
             /\ Complete(file) => Books(c, file)
  <2>1. CASE Start \/ MergeExistingFiles \/ RunnerStep
    BY <2>1 DEF Start, MergeExistingFiles, RunnerStep, LoadExisting, Load,
        UnreadableFile, FailAttempt, ImportEvm, Spawn, StartScan, ChildExits,
        ChildKilled, PollFindsFile, PollTimesOut, MergeStates, WriteOutput,
        stakeScanVars, fileVars
  <2>2. CASE KillChild \/ Crash \/ ChainGrows
    BY <2>2 DEF KillChild, Kill, Crash, ChainGrows, Grow, fileVars
  <2>3. CASE EvmStep
    <3>1. "EVM" \in Chains
      BY DEF Chains
    <3>2. CASE EvmFails
      BY <3>2 DEF EvmFails, stakeScanVars, fileVars
    <3>3. CASE EvmOpensFile
      BY <3>1, <3>3 DEF EvmOpensFile, Complete
    <3>4. CASE EvmWritesFile
      <4>1. PICK file : file = EvmGenesisState(boot, registered)
        OBVIOUS
      <4>2. Agrees(file)
        BY <4>1, EvmBalanced, EvmPowered DEF Agrees, WorldInv
      <4>3. file.oracle = OracleFrom("EVM")
        BY <4>1 DEF EvmGenesisState, OracleFrom
      <4>4. Books("EVM", file)
        BY <4>1, <4>2, <4>3, StatesOfOneChain DEF Books, OfChain
      <4> QED
        BY <3>1, <3>4, <4>1, <4>4 DEF EvmWritesFile
    <3> QED
      BY <2>3, <3>2, <3>3, <3>4 DEF EvmStep
  <2>4. CASE ScanStepOfChild
    <3>1. chain \in Chains
      BY DEF ScanInv, ScanTypeOK, Chains
    <3>2. CASE ExportBootstrapData
      BY <3>1, <3>2 DEF ExportBootstrapData, Complete
    <3>3. CASE WriteGenesis
      <4>1. PICK file : file = GenesisState(chain, Stakes(chain))
        OBVIOUS
      <4>2. Books(chain, file)
        BY <3>3, <4>1, StakesAgree DEF WriteGenesis
      <4> QED
        BY <3>1, <3>3, <4>1, <4>2 DEF WriteGenesis
    <3>4. CASE \/ FetchTransactions \/ ReadHeight \/ RequestFails \/ OpenDataFile
               \/ \E answered \in BOOLEAN : ValidateTx(answered)
      BY <3>4 DEF FetchTransactions, ReadHeight, RequestFails, OpenDataFile,
                  ValidateTx, fileVars
    <3> QED
      BY <2>4, <3>2, <3>3, <3>4 DEF ScanStepOfChild, ScanStep
  <2> QED
    BY <2>1, <2>2, <2>3, <2>4 DEF UnifiedNext
<1>2. ASSUME NEW c \in Chains, Complete(genesisFile'[c])
      PROVE  Books(c, genesisFile[c])'
  <2>1. PICK file : file = genesisFile'[c]
    OBVIOUS
  <2>2. Books(c, file)
    BY <1>1, <1>2, <2>1 DEF FilesInv, FilesAgree, Complete
  <2>3. Books(c, file)'
    BY <1>0, <2>2, BooksStay
  <2> QED
    BY <2>1, <2>3
<1> QED
  BY <1>2 DEF FilesAgree, Complete

LEMMA AscendingConcat ==
    ASSUME NEW A, NEW B, Follows(A, B), NEW s \in Seq(A), NEW u \in Seq(B),
           Ascending(s), Ascending(u)
    PROVE  s \o u \in Seq(A \cup B) /\ Ascending(s \o u)
<1>1. /\ DOMAIN s = 1..Len(s) /\ DOMAIN u = 1..Len(u)
      /\ Len(s) \in Nat /\ Len(u) \in Nat
  OBVIOUS
<1>2. PICK t : t = s \o u
  OBVIOUS
<1>3. /\ s \in Seq(A \cup B) /\ u \in Seq(A \cup B)
      /\ t \in Seq(A \cup B)
      /\ DOMAIN t = 1..Len(s) + Len(u)
      /\ \A i \in DOMAIN t : t[i] = IF i <= Len(s) THEN s[i] ELSE u[i - Len(s)]
  BY <1>2
<1>4. ASSUME NEW i \in DOMAIN t, NEW j \in DOMAIN t, i < j
      PROVE  Rank[t[i]] < Rank[t[j]]
  <2>1. CASE j <= Len(s)
    <3>1. i \in DOMAIN s /\ j \in DOMAIN s /\ t[i] = s[i] /\ t[j] = s[j]
      BY <1>1, <1>3, <1>4, <2>1
    <3> QED
      BY <1>4, <3>1 DEF Ascending
  <2>2. CASE i > Len(s)
    <3>1. /\ i - Len(s) \in 1..Len(u) /\ j - Len(s) \in 1..Len(u)
          /\ i - Len(s) < j - Len(s)
          /\ t[i] = u[i - Len(s)] /\ t[j] = u[j - Len(s)]
      BY <1>1, <1>3, <1>4, <2>2
    <3> QED
      BY <1>1, <3>1 DEF Ascending
  <2>3. CASE i <= Len(s) /\ j > Len(s)
    <3>1. t[i] \in A
      BY <1>1, <1>3, <2>3
    <3>2. j - Len(s) \in 1..Len(u) /\ t[j] = u[j - Len(s)]
      BY <1>1, <1>3, <2>3
    <3>3. t[j] \in B
      BY <1>1, <3>2
    <3> QED
      BY <3>1, <3>3 DEF Follows
  <2> QED
    BY <1>1, <1>3, <2>1, <2>2, <2>3
<1> QED
  BY <1>2, <1>3, <1>4 DEF Ascending

LEMMA OrderedAscends ==
    ASSUME NEW S
    PROVE  Ascending(InOrder(S))
<1> DEFINE only(c) == IF c \in S THEN <<c>> ELSE <<>>
<1>1. \A c : only(c) \in Seq({c}) /\ Ascending(only(c))
  <2>1. \A c : Ascending(<<c>>) /\ Ascending(<<>>)
    BY DEF Ascending
  <2> QED
    BY <2>1, ShortSeq
<1> HIDE DEF only
<1>2. /\ only("EVM") \o only("Bitcoin") \in Seq({"EVM"} \cup {"Bitcoin"})
      /\ Ascending(only("EVM") \o only("Bitcoin"))
  <2>1. Follows({"EVM"}, {"Bitcoin"})
    BY Ranks DEF Follows
  <2> QED
    BY <1>1, <2>1, AscendingConcat
<1>3. Ascending((only("EVM") \o only("Bitcoin")) \o only("XRP"))
  <2>1. Follows({"EVM"} \cup {"Bitcoin"}, {"XRP"})
    BY Ranks DEF Follows
  <2> QED
    BY <1>1, <1>2, <2>1, AscendingConcat
<1> QED
  BY <1>3 DEF InOrder, only

\* The first of the queue comes before the others.
LEMMA TailAscends ==
    ASSUME QueueInv, queue # <<>>, Ascending(queue)
    PROVE  /\ Ascending(Tail(queue)) /\ Head(queue) \in Chains
           /\ ToSet(Tail(queue)) \subseteq ToSet(queue)
           /\ Head(queue) \in ToSet(queue)
           /\ Follows({Head(queue)}, ToSet(Tail(queue)))
<1>1. queue \in Seq(Chains) /\ Len(queue) \in Nat \ {0} /\ DOMAIN queue = 1..Len(queue)
  BY DEF QueueInv
<1>2. /\ DOMAIN Tail(queue) = 1..Len(queue) - 1
      /\ \A i \in 1..Len(queue) - 1 : Tail(queue)[i] = queue[i + 1]
      /\ Head(queue) = queue[1]
  BY <1>1
<1>3. \A i \in 1..Len(queue) - 1 : i + 1 \in 1..Len(queue) /\ 1 < i + 1
  BY <1>1
<1>4. Ascending(Tail(queue))
  <2>1. ASSUME NEW i \in 1..Len(queue) - 1, NEW j \in 1..Len(queue) - 1, i < j
        PROVE  Rank[queue[i + 1]] < Rank[queue[j + 1]]
    <3>1. i + 1 < j + 1
      BY <2>1
    <3> QED
      BY <1>1, <1>3, <3>1 DEF Ascending
  <2> QED
    BY <1>2, <2>1 DEF Ascending
<1>5. 1 \in 1..Len(queue)
  BY <1>1
<1>6. \A i \in 1..Len(queue) - 1 : Rank[queue[1]] < Rank[queue[i + 1]]
  BY <1>1, <1>3, <1>5 DEF Ascending
<1> QED
  BY <1>1, <1>2, <1>3, <1>4, <1>5, <1>6 DEF ToSet, Follows

LEMMA LoadAgrees ==
    ASSUME LoadedInv, FilesAgree, StatesAgree, UNCHANGED <<boot, registered>>,
           runner \in {"attempt", "child", "poll"}, Load(Head(queue))
    PROVE  /\ Ascending(queue')
           /\ Before(genesisStates', ToSet(queue'))
           /\ InRank(genesisStates')
           /\ OneEach(genesisStates')
<1> DEFINE c == Head(queue)
<1>1. /\ queue # <<>> /\ QueueInv /\ Ascending(queue)
      /\ queue' = Tail(queue)
  BY DEF LoadedInv, QueueInv, StatesAgree, Load, NextChain
<1>2. /\ Ascending(queue') /\ c \in Chains
      /\ ToSet(queue') \subseteq ToSet(queue) /\ c \in ToSet(queue)
      /\ Follows({c}, ToSet(queue'))
  BY <1>1, TailAscends
<1>3. PICK state : state = genesisFile[c]
  OBVIOUS
<1>4. /\ genesisStates' = Append(genesisStates, state) /\ Books(c, state)
      /\ state.assets.clientChains = {c}
  BY <1>2, <1>3 DEF Load, FilesAgree, Books, OfChain
<1>5. PICK S : genesisStates \in Seq(S)
  BY DEF LoadedInv
<1>6. /\ DOMAIN genesisStates = 1..Len(genesisStates) /\ Len(genesisStates) \in Nat
      /\ DOMAIN genesisStates' = 1..Len(genesisStates) + 1
      /\ \A i \in 1..Len(genesisStates) : genesisStates'[i] = genesisStates[i]
      /\ genesisStates'[Len(genesisStates) + 1] = state
  BY <1>4, <1>5
<1> HIDE DEF c
<1>7. \A i \in DOMAIN genesisStates' :
          \/ i \in DOMAIN genesisStates /\ genesisStates'[i] = genesisStates[i]
          \/ i = Len(genesisStates) + 1 /\ genesisStates'[i] = state
  BY <1>6
<1>8. /\ Before(genesisStates, ToSet(queue)) /\ InRank(genesisStates)
      /\ OneEach(genesisStates)
  BY DEF StatesAgree
<1>9. OneEach(genesisStates')
  BY <1>2, <1>4, <1>7, <1>8 DEF OneEach
<1>10. Before(genesisStates', ToSet(queue'))
  BY <1>2, <1>4, <1>7, <1>8 DEF Before, Follows
<1>11. ASSUME NEW i \in DOMAIN genesisStates', NEW j \in DOMAIN genesisStates', i < j
       PROVE  Follows(genesisStates'[i].assets.clientChains,
                      genesisStates'[j].assets.clientChains)
  <2>1. i \in DOMAIN genesisStates /\ genesisStates'[i] = genesisStates[i]
    BY <1>6, <1>11
  <2>2. CASE j \in DOMAIN genesisStates /\ genesisStates'[j] = genesisStates[j]
    BY <1>8, <1>11, <2>1, <2>2 DEF InRank
  <2>3. CASE genesisStates'[j] = state
    BY <1>2, <1>4, <1>8, <2>1, <2>3 DEF Before, Follows
  <2> QED
    BY <1>7, <2>2, <2>3
<1>12. InRank(genesisStates')
  BY <1>11 DEF InRank
<1> QED
  BY <1>2, <1>9, <1>10, <1>12

LEMMA ExistingFilesAgree ==
    ASSUME FilesAgree, MergeExistingFiles, ~ UNCHANGED genesisStates
    PROVE  InRank(genesisStates') /\ OneEach(genesisStates')
<1> DEFINE present == {c \in enabled : genesisFile[c] # NoFile}
           order == InOrder(present)
<1>1. /\ \A c \in present : genesisFile[c] # Partial
      /\ genesisStates' = [i \in DOMAIN order |-> genesisFile[order[i]]]
  BY DEF MergeExistingFiles
<1>2. /\ order \in Seq(Chains) /\ \A i \in DOMAIN order : order[i] \in present
      /\ Ascending(order)
  <2> HIDE DEF present
  <2> QED
    BY OrderedChains, OrderedAscends
<1>3. \A c \in present : Complete(genesisFile[c])
  BY <1>1 DEF Complete
<1> HIDE DEF present, order
<1>4. \A i \in DOMAIN order : order[i] \in Chains /\ Books(order[i], genesisFile[order[i]])
  BY <1>2, <1>3 DEF FilesAgree
<1>5. OneEach(genesisStates')
  BY <1>1, <1>4 DEF OneEach
<1>6. \A i \in DOMAIN order : genesisStates'[i].assets.clientChains = {order[i]}
  BY <1>1, <1>4 DEF Books, OfChain
<1>7. InRank(genesisStates')
  BY <1>1, <1>2, <1>6 DEF InRank, Follows, Ascending
<1> QED
  BY <1>5, <1>7

\* States in the order of the chains are of different chains.
LEMMA RankedApart ==
    ASSUME NEW states, DOMAIN states \subseteq Nat, InRank(states), OneEach(states)
    PROVE  Apart(states)
<1>1. ASSUME NEW i \in DOMAIN states, NEW j \in DOMAIN states, i < j
      PROVE  states[i].assets.clientChains \cap states[j].assets.clientChains = {}
  <2>1. PICK c \in Chains : states[i].assets.clientChains = {c}
    BY DEF OneEach, Books, OfChain
  <2>2. PICK r \in 1..3 : r = Rank[c]
    BY Ranks
  <2>3. Follows({c}, states[j].assets.clientChains)
    BY <1>1, <2>1 DEF InRank
  <2>4. c \in states[j].assets.clientChains => r < r
    BY <2>2, <2>3 DEF Follows
  <2> QED
    BY <2>1, <2>4
<1>2. \A i, j \in DOMAIN states : i # j => i < j \/ j < i
  OBVIOUS
<1> QED
  BY <1>1, <1>2 DEF Apart

LEMMA StatesAgreeNow ==
    ASSUME UNCHANGED <<boot, registered>>, Ascending(queue'),
           runner' \in {"attempt", "child", "poll"} =>
               Before(genesisStates', ToSet(queue')),
           InRank(genesisStates'), OneEach(genesisStates'),
           Complete(output') => Agrees(output') /\ Fed(output')
    PROVE  StatesAgree'
<1>1. OneEach(genesisStates)'
  <2>1. ASSUME NEW i \in DOMAIN genesisStates'
        PROVE  \E c \in Chains : Books(c, genesisStates[i])'
    <3>1. PICK state : state = genesisStates'[i]
      OBVIOUS
    <3>2. PICK c \in Chains : Books(c, state)
      BY <3>1 DEF OneEach
    <3>3. Books(c, state)'
      BY <3>2, BooksStay
    <3> QED
      BY <3>1, <3>3
  <2> QED
    BY <2>1 DEF OneEach
<1>2. ASSUME Complete(output')
      PROVE  Agrees(output)'
  <2>1. PICK state : state = output'
    OBVIOUS
  <2>2. Agrees(state)'
    BY <1>2, <2>1, AgreesStays
  <2> QED
    BY <2>1, <2>2
<1>3. /\ Ascending(queue)' /\ InRank(genesisStates)'
      /\ (runner \in {"attempt", "child", "poll"} =>
              Before(genesisStates, ToSet(queue)))'
      /\ (Complete(output) => Fed(output))'
  BY DEF Ascending, InRank, Before, Complete, Fed
<1> QED
  BY <1>1, <1>2, <1>3 DEF StatesAgree, Complete

LEMMA StatesAgreeStep ==
    ASSUME LoadedInv, WorldInv, FilesAgree, StatesAgree, UnifiedNext
    PROVE  StatesAgree'
<1> DEFINE Running == {"attempt", "child", "poll"}
           QueueGood ==
               /\ Ascending(queue')
               /\ runner' \in Running => Before(genesisStates', ToSet(queue'))
           StatesGood == InRank(genesisStates') /\ OneEach(genesisStates')
           OutputGood == Complete(output') => Agrees(output') /\ Fed(output')
<1>0. UNCHANGED <<boot, registered>>
  BY WorldStays
<1>1. QueueGood /\ StatesGood /\ OutputGood => StatesAgree'
  BY <1>0, StatesAgreeNow
<1>2. /\ UNCHANGED output => OutputGood
      /\ UNCHANGED genesisStates => StatesGood
      /\ /\ UNCHANGED <<queue, genesisStates>>
         /\ runner' \in Running => runner \in Running
         => QueueGood
  BY DEF StatesAgree
<1> HIDE DEF StatesGood, OutputGood
<1>3. CASE LoadExisting \/ PollFindsFile
  <2>1. /\ runner \in Running /\ Load(Head(queue)) /\ UNCHANGED output
    BY <1>3 DEF LoadExisting, PollFindsFile, Load
  <2>2. QueueGood /\ StatesGood
    BY <1>0, <2>1, LoadAgrees DEF StatesGood
  <2> QED
    BY <1>1, <1>2, <2>1, <2>2
<1>4. CASE UnreadableFile \/ ChildKilled \/ PollTimesOut
  <2>1. /\ runner \in Running /\ FailAttempt /\ UNCHANGED <<genesisStates, output>>
    BY <1>4 DEF UnreadableFile, ChildKilled, PollTimesOut, FailAttempt
  <2>2. CASE UNCHANGED queue
    BY <1>1, <1>2, <2>1, <2>2
  <2>3. CASE queue' = Tail(queue)
    <3>1. /\ queue # <<>> /\ QueueInv /\ Ascending(queue)
          /\ Before(genesisStates, ToSet(queue))
      BY <2>1 DEF LoadedInv, QueueInv, StatesAgree
    <3>2. Ascending(queue') /\ ToSet(queue') \subseteq ToSet(queue)
      BY <2>3, <3>1, TailAscends
    <3>3. QueueGood
      BY <2>1, <3>1, <3>2 DEF Before, Follows
    <3> QED
      BY <1>1, <1>2, <2>1, <3>3
  <2> QED
    BY <2>1, <2>2, <2>3 DEF FailAttempt, Retry, NextChain
<1>5. CASE Start
  <2>1. /\ queue' = InOrder(enabled) /\ genesisStates' = <<>> /\ UNCHANGED output
    BY <1>5 DEF Start
  <2>2. DOMAIN <<>> = {}
    OBVIOUS
  <2>3. QueueGood
    BY <2>1, <2>2, OrderedAscends DEF Before
  <2>4. StatesGood
    BY <2>1, <2>2 DEF StatesGood, InRank, OneEach
  <2> QED
    BY <1>1, <1>2, <2>1, <2>3, <2>4
<1>6. CASE MergeExistingFiles
  <2>1. /\ runner' \notin Running /\ UNCHANGED <<queue, output>>
    BY <1>6 DEF MergeExistingFiles
  <2>2. QueueGood
    BY <2>1 DEF StatesAgree
  <2>3. StatesGood
    BY <1>2, <1>6, ExistingFilesAgree DEF StatesGood
  <2> QED
    BY <1>1, <1>2, <2>1, <2>2, <2>3
<1>7. CASE WriteOutput
  <2>1. PICK states : states = genesisStates
    OBVIOUS
  <2>2. PICK merged : merged = Merge(states)
    OBVIOUS
  <2>3. /\ output' = merged /\ runner = "write" /\ runner' \notin Running
        /\ UNCHANGED <<queue, genesisStates>>
    BY <1>7, <2>1, <2>2 DEF WriteOutput
  <2>4. /\ Len(states) \in Nat \ {0} /\ DOMAIN states = 1..Len(states)
        /\ InRank(states) /\ OneEach(states)
    <3>1. PICK S : states \in Seq(S)
      BY <2>1 DEF LoadedInv
    <3>2. states # <<>>
      BY <2>1, <2>3 DEF LoadedInv
    <3>3. DOMAIN states = 1..Len(states) /\ Len(states) \in Nat \ {0}
      BY <3>1, <3>2
    <3> QED
      BY <2>1, <3>3 DEF StatesAgree
  <2>5. /\ \A i \in 1..Len(states) : Agrees(states[i])
        /\ \A i \in 1..Len(states) : \E c \in Chains : OfChain(c, states[i])
    BY <2>4 DEF OneEach, Books
  <2>6. Apart(states)
    BY <2>4, RankedApart
  <2>7. /\ Agrees(merged)
        /\ merged.assets.clientChains \subseteq
               UNION {states[i].assets.clientChains : i \in 1..Len(states)}
    BY <2>2, <2>4, <2>5, <2>6, MergeAgrees
  <2>8. Fed(merged)
    BY <2>2, <2>4, <2>5, <2>7, MergeFeeds DEF WorldInv
  <2>9. OutputGood
    BY <2>3, <2>7, <2>8 DEF OutputGood
  <2> QED
    BY <1>1, <1>2, <2>3, <2>9
<1>8. CASE MergeStates
  <2>1. /\ runner' \notin Running /\ UNCHANGED <<queue, genesisStates>>
        /\ UNCHANGED output \/ output' = Partial
    BY <1>8 DEF MergeStates
  <2>2. OutputGood
    BY <1>2, <2>1 DEF OutputGood, Complete
  <2> QED
    BY <1>1, <1>2, <2>1, <2>2
<1>9. CASE ImportEvm \/ Spawn \/ ChildExits
  <2>1. runner \in Running /\ UNCHANGED <<queue, genesisStates, output>>
    BY <1>9 DEF ImportEvm, Spawn, ChildExits
  <2> QED
    BY <1>1, <1>2, <2>1
<1>10. CASE ScanStepOfChild \/ KillChild \/ ChainGrows \/ EvmStep \/ Crash
  <2>1. /\ runner' \in Running => runner \in Running
        /\ UNCHANGED <<queue, genesisStates, output>>
    BY <1>10 DEF ScanStepOfChild, KillChild, ChainGrows, EvmStep, EvmFails,
                 EvmOpensFile, EvmWritesFile, Crash, runnerVars
  <2> QED
    BY <1>1, <1>2, <2>1
<1> QED
  BY <1>3, <1>4, <1>5, <1>6, <1>7, <1>8, <1>9, <1>10 DEF UnifiedNext, RunnerStep

LEMMA TotalsInit == UnifiedInit => TotalsInv
<1> SUFFICES ASSUME UnifiedInit PROVE TotalsInv
  OBVIOUS
<1>1. WorldInv
  BY DEF UnifiedInit, ScanInit, WorldInv
<1>2. FilesAgree
  BY DEF UnifiedInit, ScanInit, FilesAgree, Complete
<1>3. DOMAIN <<>> = {}
  OBVIOUS
<1>4. StatesAgree
  BY <1>3 DEF UnifiedInit, StatesAgree, Ascending, InRank, OneEach, Complete
<1> QED
  BY <1>1, <1>2, <1>4 DEF TotalsInv

LEMMA TotalsStep ==
    ExportInv /\ ReadInv /\ TotalsInv /\ [UnifiedNext]_vars => TotalsInv'
<1>1. ASSUME ExportInv, ReadInv, TotalsInv, UnifiedNext
      PROVE  TotalsInv'
  <2>1. /\ ScanInv /\ FilesInv /\ LoadedInv
        /\ WorldInv /\ FilesAgree /\ StatesAgree
    BY <1>1 DEF ExportInv, TotalsInv
  <2>2. WorldInv'
    BY <1>1, <2>1, WorldStays DEF WorldInv
  <2>3. FilesAgree'
    BY <1>1, <2>1, FilesAgreeStep
  <2>4. StatesAgree'
    BY <1>1, <2>1, StatesAgreeStep
  <2> QED
    BY <2>2, <2>3, <2>4 DEF TotalsInv
<1>2. ASSUME TotalsInv, UNCHANGED vars
      PROVE  TotalsInv'
  <2>1. /\ UNCHANGED <<boot, registered, genesisFile>>
        /\ UNCHANGED <<queue, runner, genesisStates, output>>
    BY <1>2 DEF vars, stakeScanVars, scanVars, worldVars, fileVars, runnerVars
  <2>2. WorldInv'
    BY <1>2, <2>1 DEF TotalsInv, WorldInv
  <2>3. FilesAgree'
    <3>1. ASSUME NEW c \in Chains, Complete(genesisFile'[c])
          PROVE  Books(c, genesisFile[c])'
      <4>1. PICK file : file = genesisFile[c]
        OBVIOUS
      <4>2. Books(c, file)
        BY <1>2, <2>1, <3>1, <4>1 DEF TotalsInv, FilesAgree, Complete
      <4>3. Books(c, file)'
        BY <2>1, <4>2, BooksStay
      <4> QED
        BY <2>1, <4>1, <4>3
    <3> QED
      BY <3>1 DEF FilesAgree, Complete
  <2>4. StatesAgree'
    BY <1>2, <2>1, StatesAgreeNow DEF TotalsInv, StatesAgree
  <2> QED
    BY <2>2, <2>3, <2>4 DEF TotalsInv
<1> QED
  BY <1>1, <1>2

\* generate_unified.mjs: in every unified genesis, whatever the chains hold and
\* the operator, the network and the generators did, the deposits of a token add
\* up to its total, the delegations to what the operators listed hold, and no
\* more is delegated than there is.
THEOREM BooksSurviveMerge == UnifiedSafety => []TotalsSurviveMerge
<1> DEFINE Inv == ExportInv /\ ReadInv /\ TotalsInv
<1>1. UnifiedInit => Inv
  BY ExportInit, ReadInit, TotalsInit DEF UnifiedInit
<1>2. Inv /\ [UnifiedNext]_vars => Inv'
  BY ExportStep, ReadAlways, TotalsStep
<1>3. Inv => TotalsSurviveMerge
  BY BalancedImplies DEF TotalsInv, StatesAgree, Agrees
<1> QED
  BY <1>1, <1>2, <1>3, PTL DEF UnifiedSafety

\* generate_unified.mjs: where the validators are no more than the set may hold,
\* the unified genesis has the key of each once, strongest first, with the sum of
\* what every chain gives it, and the total is that of the set.
THEOREM PowersOfAllChains == UnifiedSafety => []PowerAddsUp
<1> DEFINE Inv == ExportInv /\ ReadInv /\ TotalsInv
<1>1. UnifiedInit => Inv
  BY ExportInit, ReadInit, TotalsInit DEF UnifiedInit
<1>2. Inv /\ [UnifiedNext]_vars => Inv'
  BY ExportStep, ReadAlways, TotalsStep
<1>3. Inv => PowerAddsUp
  <2> SUFFICES ASSUME TotalsInv PROVE PowerAddsUp
    OBVIOUS
  <2>1. CASE Complete(output)
    BY <2>1, PowersImply DEF TotalsInv, StatesAgree, Agrees
  <2>2. CASE ~ Complete(output)
    BY <2>2 DEF PowerAddsUp
  <2> QED
    BY <2>1, <2>2
<1> QED
  BY <1>1, <1>2, <1>3, PTL DEF UnifiedSafety

\* generate_unified.mjs: in a unified genesis of all chains, whatever failed and
\* was retried or repeated on the way, the feeders carry the positions of the
\* tokens and every price is that of the token at its position, although Bitcoin
\* and XRP write theirs as literals, knowing nothing of the tokens before them.
THEOREM FeedersFitTokens == UnifiedSafety => []FeedersFollowTokens
<1> DEFINE Inv == ExportInv /\ ReadInv /\ TotalsInv
<1>1. UnifiedInit => Inv
  BY ExportInit, ReadInit, TotalsInit DEF UnifiedInit
<1>2. Inv /\ [UnifiedNext]_vars => Inv'
  BY ExportStep, ReadAlways, TotalsStep
<1>3. Inv => FeedersFollowTokens
  <2> SUFFICES ASSUME TotalsInv PROVE FeedersFollowTokens
    OBVIOUS
  <2>1. CASE Complete(output)
    BY <2>1, FitsImplies DEF TotalsInv, StatesAgree
  <2>2. CASE ~ Complete(output)
    BY <2>2 DEF FeedersFollowTokens
  <2> QED
    BY <2>1, <2>2
<1> QED
  BY <1>1, <1>2, <1>3, PTL DEF UnifiedSafety
==============================================================================
