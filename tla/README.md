# A verification project for the shielded-token indexing repository

The repository deploys an OpenZeppelin-style shielded token on a local Midnight
v8 stack, mints and burns it in four different ways, and measures what a public
indexer can still say about its supply. This directory holds TLA+ models of the
token's circuits, of the chain and the wallets around them, of the script that
audits the supply and the reading of transactions it rests on, and of a whole
demonstration from the command line to its exit code; TLC checks them on small
instances, and TLAPS proves the safety properties, the action properties and the
refinements for every instance. Paths below are relative to the repository root.

## 1. Inventory

| Component | Source | State it keeps | Operations | What makes it correct |
|---|---|---|---|---|
| Token circuits | `contracts/ShieldedERC20.compact`, `contracts/Utils.compact`, compiled to `artifacts/.../contract/index.js` | cells `_counter`, `_nonce`, `_totalSupply`, `_color`, and sealed metadata | `initialize`, `mint`, `burn`, five read-only circuits | the counter is exact; coins never share a nonce; value is conserved; burn leaves nothing at the contract; mint reaches an owner |
| Contract client | `src/contract.ts` | the contract's address | `deploy`, `join`, `mint`, `burn`, `totalSupply` | each call builds one transaction from a snapshot and waits for it |
| Wallet provider | `src/wallet-provider.ts` | keys, `submittedTxs` | `balanceTx`, `submitTx`, `captureTx` | capture never blocks submission; what is captured is what is submitted |
| Wallet waits | `src/wallet-utils.ts` | none | `syncWallet`, `waitForUnshieldedFunds`, `waitForShieldedToken` | a coin is spent only after it has synced |
| Decoder, delta fold | `src/decode.ts`, `src/supply.ts` | none | `decodeTx`, `deltaForType`, `shieldedMintsForType`, `foldSupply` | the fold is minus the sum of the deltas of one type over every offer |
| Supply audit | `src/verify-supply.ts` | rows of the matrix, the result of the protocol burn | five steps, three waits, a checkpoint after each step, exit code | a passing row is true; only a failure of the environment aborts; it always ends |
| Demonstrations | `src/reproduce.ts`, `src/hidden-burn.ts`, `src/no-supply-burn.ts` | a wallet, an environment, the captured log | build, start, fund, transact, report; then stop, shut down, exit | exit code 0 means what it says; the wallet stops before its stack |
| No-supply experiment | `contracts/experiments/NoSupplyToken.compact`, `src/no-supply-contract.ts` | cells without `_totalSupply` | `mint`, `burn` | same coin operations, nothing public about the amount |
| Run scripts, stack | `scripts/*.sh`, `compose.yml` | containers | up, wait, run, down | the stack is torn down on every exit; no program starts early |
| Providers, build script, disclose probe, compiled keys | `src/providers.ts`, `scripts/compile.sh`, `contracts/experiments/disclose-probe.compact`, `artifacts/` | none | none at run time | see section 5 |

How they interact. A circuit never runs on the chain. The caller runs it on a
*snapshot* of the cells and obtains a transcript; the wallet balances it with
coins of its own and adds a proof; the node replays the transcript when the
transaction is taken into a block, and refuses it if any cell that was read now
holds another value, or if a coin it spends is already spent. Between snapshot
and block anything may land. The audit drives all of this from one asynchronous
program, beside a wallet that learns of coins by syncing and an indexer that
answers reads late.

What is hard: stale snapshots and lost updates; burns of coins already spent; nonces chained from cells two callers read at once; change that must be
passed on inside one transaction; counters of bounded width; a capture that
happens before the submission and a label that is set after it; polling for a
coin of one exact value; errors that are findings in one step and fatal in the
others; transactions that can be read only in part; a teardown that must happen
on every way out; a watch without a deadline. `PROJECT.json` lists these hazards
at their lines.

## 2. Modules

```
Utils ── ShieldedERC20 ── TokenLedger ─┬─ TokenSupply ─┬─ MCTokenLedger      (INSTANCE SupplyViews)
                                       │               └─ NoSupplyToken ── MCNoSupplyToken
                                       └─ TokenLedger_proofs ── TokenApart_proofs
SupplyAudit ── MCSupplyAudit
Decoder ── DeltaFold ── SupplyReport ── MCSupplyReport
DemoRun ─┬─ MCDemoRun
         └─ DemoRun_proofs

TokenApart_proofs, Sums_proofs, TokenSupply ── TokenSupply_proofs
TokenSupply_proofs, NoSupplyToken ──────────── NoSupplyToken_proofs
Sums_proofs, SupplyAudit ───────────────────── SupplyAudit_proofs
Sums_proofs, SupplyReport ──────────────────── SupplyReport_proofs
```

**`Utils`** has the recipients (`Either`), the zero test and the owner a coin
commitment names. A struct of the circuit language carries both branches of the
`Either`, and `==` compares both; a commitment hashes only the active one.

**`ShieldedERC20`** has the circuits as pure operators. `Mint` and `Burn` take a
snapshot and return the transcript: cells asserted (`reads`), cells stored
(`writes`), coins created and spent in the same transaction (`transients`),
coins that remain (`outputs`) and the `shieldedMints` effect. `MintSucceeds` and
`BurnSucceeds` are the assertions and the width checks. The standard-library
circuits (`mintShieldedToken`, `receiveShielded`, `sendImmediateShielded`,
`evolveNonce`) are translated from the compiled `index.js`. The
repository takes three things for granted and so does the model: hashes are
injective (nonces are sequences, one constructor per derivation), a proof proves
its circuit, and a coin is spent only with the key of its owner.

**`TokenLedger`** puts the circuits on a chain. `CallMint` and `CallBurn` build a
transaction from the current cells; `HiddenBurn` and `ProtocolBurn` are the two
burns of `verify-supply.ts` that do not call the contract; `Land`, `Reject` and
`Expire` are the node. `burn` may be called with the description of a coin the
caller owns, of one that is already spent, or of one that belongs to
the contract; a description that fits no coin the chain has seen is not modelled,
as no program of the repository builds one, and what is shown of `burn` is shown
under this restriction. Submission and landing are separate actions, so any number of
other transactions can come between.

| Variable | In the program |
|---|---|
| `ledger` | the contract's cells |
| `pool`, `spent` | the coin commitments that are unspent, the nullifiers |
| `pending` | transactions submitted and not yet in a block |
| `applied`, `tally` | history: what has landed, and how much of each kind |
| `published` | minus the sum of the public deltas, what `supply.ts` folds |

**`SupplyViews`** is the abstract specification: three numbers (the contract's
counter, the fold, what circulates) and five atomic operations. **`TokenSupply`**
computes the three numbers from `TokenLedger`'s state and states that the system
refines `SupplyViews` (`KeepsSupplyViews`).

**`NoSupplyToken`** replaces the two circuits by those of the experiment, which
neither read nor write `_totalSupply`, and keeps the chain. What an indexer reads
of a call is the record `PublicView`. The module states what the missing cell
buys (`AmountStaysHidden`, `BurnsDoNotConflict`, and `BurnsLookHidden`: with the
fold in the place of the counter the system still refines `SupplyViews`) and
what it costs (`ForeignCoinsAreSafeOnceMinted` is all that remains of the
contract's protection against coins it never issued).

**`SupplyAudit`** is `verify-supply.ts`: `step` and `phase` are the program
counter, one action per await. Its environment lands or loses the one
transaction in flight, syncs the wallet, lets the indexer catch up, refuses
submissions, fails watches, and may fail any capture or read. The dead coin of
the hidden burn is in the wallet's list of available coins, as the comment at
`src/verify-supply.ts:129` says, and cannot be spent. `fault` is a history
variable: it becomes true when the environment has failed the script in some
way, so that properties can tell the script's own errors from the environment's.

**`Decoder`** is `decodeTx` and **`DeltaFold`** is `supply.ts`, as operators. A
raw transaction is a record with a mark on each part whose reading may throw and
on each value that may print as no number; the three `try` blocks of the decoder
are the three ways in which a throw becomes a shorter result. The intents and
fallible offers that follow a part that throws are dropped (`BeforeThrow`), and
what is no number counts as 0 (`ToBig`).

**`SupplyReport`** is the data path of the audit that `SupplyAudit` abstracts
from: five captured transactions, of which any may be missing and any may be
damaged, the color and the minted type that become known on the way, a full fold
at each checkpoint, the table of the report, and the command line of `supply.ts`
over the files the run has left: alone, with one file of another deployment after
them, and with that one first and the others reversed. The type a mint effect is keyed by is another value than the color of
the deltas, as `src/supply.ts:16` explains, and the model keeps two constants for
them: where the minted type is not known, the fold of the mints takes all types.

**`DemoRun`** is one command. `script`, `service` and `tries` are a `run-*.sh` in
its loops, `phase` and `pc` the program it starts, which runs a list of steps
that differs per program, `stack` the containers. A program is either started by
its script, with the ports injected, or directly; `reproduce` has no script.

| `DemoRun` | In the program |
|---|---|
| `Up`, `ProbeSucceeds`, `ProbeAgain`, `ProbeFindsDead`, `Ports`, `ProgramEnds`, `Cleanup` | `docker compose up`, `wait_healthy` and `wait_log`, the `HB_*` ports, the status of pnpm, the trap |
| `Env`, `Build`, `StartWallet`, `Funds` | the stack of testkit or the injected one, `MidnightWalletProvider.build`, `start`, `waitForUnshieldedFunds` |
| `SubmitTx`, `Confirm`, `ConfirmFails`, `AwaitCoin`, `WriteReport` | `deploy`, `callTx`, `transferTransaction` and `submitTransaction`, `waitForShieldedToken`, decode and write |
| `Stop`, `Shutdown`, `Exit` | the `finally` block and the exit code |
| `Boot`, `Crash`, `Land`, `Lose`, `Interrupt` | the environment |

The probe of the proof server reads a log and not a health state: a log survives
its container (`Seen`), and under `pipefail` a match can be missed when `grep -q`
closes the pipe early (`Missed`). It is also the only one that sees a container
exited (`FoundDead`): node and indexer have health checks, an exited one is
unhealthy, and `wait_healthy` polls it until the tries run out. `wasReady` is a
history variable: `ProgramFindsTheStackReady` says that each service has been
ready at some time, not that it still is; what becomes of a program whose stack
has died is in `ExitZeroIsEarned` and `EndsOrWatchesInVain`. `ExitZeroIsEarned`
leaves out the transfer of `hidden-burn`, which nobody awaits.

## 3. Runs

| Run | Module | What it shows | Bounds |
|---|---|---|---|
| `supply` | `MCTokenLedger` | exact accounting, conservation, no lost update, no double landing, nonces apart, change passed on, refinement of `SupplyViews` | 2 wallets, 3 mints built, 2 transactions in flight, 3 nullifiers at the time of a call |
| `edges` | `MCTokenLedger` | the same at the numeric limits: amount 0, an amount above `Uint<64>`, a full `Uint<128>`, a burn before any mint | as above, 2 mints |
| `no_supply` | `MCNoSupplyToken` | without the counter: amounts hidden, burns without conflicts, refinement of `SupplyViews`, nothing lands twice, foreign coins safe after the first mint | 2 wallets, amounts 0 to 2, 2 mints, 2 in flight, 4 nullifiers, one coin of the zero color |
| `mint_to_zero`, `burn_throws` | `MCTokenLedger` | two comments the code does not keep | 1 mint |
| `audit` | `MCSupplyAudit` | passing rows are true, circulation is as stated, only faults abort, strict exit is earned, the audit always exits | five choices of the amounts, strict and soft |
| `audit_dead_pick`, `audit_no_change`, `audit_capture`, `audit_unread` | `MCSupplyAudit` | four statements of comments and the repository's README the script does not keep | one choice of amounts each, `audit_capture` and `audit_unread` three |
| `report` | `MCSupplyReport` | the fold is exact unless a delta is lost, mints are never overcounted, losses show, matrix and table agree, the offline fold agrees | two flaws in the mint, one in each other transaction, one foreign file |
| `demo` | `MCDemoRun` | the stack is torn down, exit code 0 is earned, no program starts early, the wallet stops first, every command ends or watches in vain | 2 probes per wait loop, every program and way to start it |

Why the bounds are enough. A lost update, a double landing or a collision of
nonces needs two transactions built on one snapshot and one more that lands
between: `MaxPending` 2 and `MaxMints` 3 give that with a mint left over. A burn
uses up to three nullifiers (the input, the coin received, the change), so
`MaxSpent` 3 bounds only when a further call may *start*, and a second burn can
still follow a hidden or a protocol burn, or be in flight beside a first one; in
`no_supply` 4 lets two calls of burn follow one another.
`MaxUint64` = 2 and `MaxUint128` = 4 stand for the two widths: only their order
and the reaching of each bound matter. In the audit the amounts are small
numbers of the same shape as the defaults (what is left is more than what was
burned in hiding), with a contract burn of 0 among them, and two that burn more
than was minted, because nothing checks the amounts before they are used. In
`report` a mint has two halves the fold compares, an offer and a mint effect;
`MaxMintFlaws` = 2 damages both at once, the only way a loss can hide, and the
mint executes in either segment, alone or behind an intent that pays fees.
`M` = 3 and `P` = 1 keep the two sums apart. In `demo` two probes are one that
is followed by another and one that is the last; the program's own waits need no
count.

`CHECK_DEADLOCK FALSE` is set for the runs of `MCTokenLedger` and `no_supply`:
once the bounded number of calls is spent and the mempool is empty, the instance
is at its end; and for `report` and `demo`, whose programs end.
The runs of `MCSupplyAudit` check deadlock; there the only end is `exited`.

Fairness. `TokenLedger`, `NoSupplyToken` and `SupplyReport` have none: everything
stated of them is safety. `SupplyAudit` assumes that an event loop resumes a
script that can go on (weak fairness of the script's own actions; deadlines are
part of them) and that an accepted transaction lands or is lost. Whether the
wallet or the indexer ever catches up is not assumed, because every wait for
them has a deadline. Only the hidden burn may be lost (`Losable = {4}`): the
other transactions are awaited through `watchForTxData`, which has no deadline,
and a loss there would leave the script waiting. `AlwaysExits` says that the rest
of the script never waits for ever.

`DemoRun` assumes the same of the shell and of the program, and that a
transaction lands or is dropped when its time to live has passed. It assumes
nothing of crashes, of Ctrl-C, of services that boot or of a watch that fails.
There every transaction may be lost, and `EndsOrWatchesInVain` says what the
missing deadline costs: each command ends with its stack down, or stays for ever
in the watch of a transaction that is gone or whose indexer is.

What the violation runs show, with the sentence each of them refutes, is under
`findings` in `PROJECT.json`.

## 4. Proofs

Every property of a passing run is proved, except the two liveness properties.
`Sums_proofs` holds lemmas on sums; each of the other seven `_proofs` modules
holds one or more inductive invariants and the theorems that follow from them.

| Module | Theorem | Statement |
|---|---|---|
| `TokenLedger_proofs` | `TypeCorrect` | `Spec => []TypeOK` |
| | `SupplyIsExact` | `Spec => []SupplyAccounting` |
| | `FoldIsExact` | `Spec => []PublishedAccounting` |
| | `LandsAtMostOnce` | `Spec => []NothingLandsTwice` |
| | `TransactionsAreSound` | `Spec => []TransactionsSound` |
| | `ChangeNeverStays` | `ChangeIsPassedOn` throughout, if it holds of the initial coins |
| | `MintsReachOwners` | `MintReachesAnOwner` throughout, for recipients whose inactive branch is zero |
| `TokenApart_proofs` | `NoncesNeverMeet` | `CoinsStayApart` throughout, if the initial coins are apart and carry no index and none of the tags |
| `TokenSupply_proofs` | `SupplyInvariance` | `Spec => [](Inv /\ ApartInv /\ SupplyInv)`, given `Deployment` |
| | `ValueIsConserved` | `Spec => []Conservation`, given `Deployment` |
| | `OthersAreNotDestroyed` | `Spec => []OnlyTheTokenIsDestroyed`, given `Deployment` |
| | `ViewsBoundCirculation` | `Spec => []BothViewsBoundCirculation`, given `Deployment` |
| | `RefinesSupplyViews` | `Spec => KeepsSupplyViews`, given `Deployment` |
| `NoSupplyToken_proofs` | `AmountIsNeverPublic` | `SpecUncounted => []AmountStaysHidden` |
| | `UncountedLandsAtMostOnce` | `SpecUncounted => []NothingLandsTwice` |
| | `BurnsNeverConflict` | `SpecUncounted => BurnsDoNotConflict` |
| | `UncountedSupplyInvariance` | `SpecUncounted => [](UncountedInv /\ UncountedSupplyInv)`, given `Deployment` |
| | `OthersAreSafeOnceMinted` | `SpecUncounted => ForeignCoinsAreSafeOnceMinted`, given `Deployment` |
| | `UncountedRefinesSupplyViews` | `SpecUncounted => BurnsLookHidden`, given `Deployment` |
| `SupplyAudit_proofs` | `ProtocolBurnIsContained` | `Spec => []ProtocolBurnNeverAborts` |
| | `PassIsTruth` | `Spec => []PassingRowsAreTrue` |
| | `StrictSuccessIsEarned` | `Spec => []StrictExitIsEarned` |
| | `StageInvariance` | `Spec => []StageInv` |
| | `CirculationIsTrue` | `Spec => []CirculationIsAsStated` |
| | `AuditTypes` | `Spec => []TypeOK` |
| | `OnlyFaultsEndTheAudit` | `Spec => []OnlyFaultsAbort`, given `ChangeIsLeft` |
| | `CleanRunIsClean` | `Spec => []CleanRunPasses`, given `HiddenIsLess` |
| `SupplyReport_proofs` | `ReportInvariance` | `Spec => []ReportInv` |
| | `FoldsAreExact` | `Spec => []FoldIsExact` |
| | `MintsAreBounded` | `Spec => []MintsAreNeverOvercounted` |
| | `AgreementIsTruth` | `Spec => []LossesShow` |
| | `MatrixIsTheTable` | `Spec => []MatrixAgreesWithTable` |
| | `FilesSayTheSame` | `Spec => []OfflineFoldAgrees` |
| `DemoRun_proofs` | `DemoTypeCorrect` | `Spec => []TypeOK` |
| | `NothingIsLeftRunning` | `Spec => []StackIsTornDown` |
| | `SuccessIsEarned` | `Spec => []ExitZeroIsEarned` |
| | `StackIsReady` | `Spec => []ProgramFindsTheStackReady` |
| | `WalletFirst` | `Spec => WalletStopsFirst` |

**Sums.** The models add up with `MapThenSumSet` and `SumFunctionOnSet` of the
community modules. `MapThenSumSet` takes the elements of a set in an order nobody
chooses, so a proof about it has to show that the order does not matter. The
library's induction theorems take an operator as a parameter and cannot be used;
`Sums_proofs` takes the least counterexample instead: if the finite subsets for
which a fact fails are not empty, one of them is minimal (`MinimalSubset`, from
`WFMin`), and that one is refuted. From two facts proved so, that tables of
partial sums agree and that the element taken first does not matter, follow the
sums of one element, of disjoint unions, of a set without some of its elements
and of a set with one more index.

**The ledger.** The first four theorems follow from `TypeOK /\ SupplyAccounting
/\ PublishedAccounting /\ TransactionsSound`. The accounting alone is not
inductive: it says nothing of a transaction in flight, and a landing would store
whatever the transaction carries. `TransactionsSound` supplies what is missing:
the value a transaction stores in `_totalSupply` is the value it *asserts* plus
or minus its amount, so that a landing, which compares the asserted value with
the cell, changes the cell by exactly the amount; and a transaction that has
landed is barred by a counter that has moved past the one it asserts or by a
nullifier that is never removed. One lemma per constructor of a transaction
(`CallMintSound`, `CallBurnSound`, `HiddenBurnSound`, `ProtocolBurnSound`) shows
that what is submitted is sound, `LandSound` is the heart of the argument, and
`DiscardSound` covers `Reject` and `Expire`. `ChangeNeverStays` and
`MintsReachOwners` rest on `OriginInv`: every coin of the pool, and every output
of a transaction in flight, is derived by a burn or by a wallet, or was minted to
a recipient the zero test let pass, or was there at the start. The change of
`sendShielded` has none of these origins, because `burn` spends it in the
transaction that creates it. The condition of `MintsReachOwners` is what the
client does; without it the statement is false, as the run `mint_to_zero` shows
with the zero key beside the contract's address.

**Nonces.** `ApartInv` is a genealogy, of clients that describe coins the chain has
seen (`CoinArguments`). Every coin the chain has seen was derived
from a coin that is spent (`Lineage`): by the contract under the tags of
`sendShielded`, by a wallet under its own, or it is the coin of a mint, whose
index is not above the counter. Every transaction in flight creates only what
descends from what it spends, or, for a mint, the next index (`PendingApart`).
When it lands, a second coin of one of its nonces would have a parent of the same
description among the nullifiers, and the transaction would not be valid
(`ChildrenFresh`). `KnownApart` is needed beside `CoinsStayApart`, because the
contract receives a coin by its description: the nullifiers hold two coins of one
nonce, and it must be known that these differ in their owner only.

**Value.** `SupplyInv` says that each transaction in flight is balanced
(`Balanced`): a mint issues one coin of its amount, and every other construction
moves coins of one color for one wallet, which gets back what it paid in less the
amount, and sends what the delta does not show to the zero key. A landing then
exchanges the inputs for the outputs, and what that does to the value of any class
of coins is one lemma (`LandingTakes`), used for the coins of a color, for those a
wallet can spend and for the destroyed ones of another color. It needs more than
the balance: the pool is a *set*, so an output that were already in it would be
lost, and that it never is (`OutputsNew`) is the genealogy of `ApartInv`.
`ColorTells` is why no other color is burned: while `_color` is unset
`_totalSupply` is 0, so a burn of a zero-colored coin has amount 0.
`Circulating <= ledger.totalSupply` is inductive because each kind adds at least
as much to the counter as to what circulates. The refinement maps the landing of
each kind to the operation of that name and every other step to a stutter.
`Deployment` asks that the coins which exist at deployment are finitely many, are
apart, and carry no index and none of the tags; the initial coins of every run do.

**Without the counter.** `UncountedInv` says that a mint still asserts and
advances `_counter` and leaves the token's color behind, and that a burn asserts
the color alone and uses a nullifier. Nothing lands twice for the same two
reasons as before; a burn can be invalidated only through a nullifier, because
the one cell it reads has its last value. `AmountIsNeverPublic` needs no induction
beyond types: a burn in part claims two nullifiers and two commitments whatever
the amount (`PartialBurnView`), by the injectivity of nonces. For the two
properties about value, `UncountedSupplyInv` repeats the genealogy and the balance
with one difference: a burn is balanced in the color it *asserts*, which may be
the zero color with any amount. Once `_color` is set such a burn no longer
replays, and this is all that protects foreign coins; and as it takes nothing of
the token, its landing is a stutter of `SupplyViews`, as that of a burn of the
token is a hidden burn.

**The audit.** `AuditInv` says where an exception may be on its way and that there
is one row per finished step, which gives `StrictSuccessIsEarned`: four rows were
measured, since a strict run that has fewer is on its way out with an exception.

`StageInv` adds what the script has made sure of: the chain is `ChainAfter` as
many transactions as have landed, with its coins (`WorldInv`); where it stands in
each phase (`PaceInv`); and what the waits have put into the wallet until the next
step spends it (`WalletInv`). `PassIsTruth` follows: a row never looks at the
chain, and is true because the awaits before it leave one possible value for the
counter and for the fold. The hidden burn, which is not awaited, changes neither,
and that is why its row is sound too. With sums over the coins the invariant gives
the circulation of every row; with `CaptureInv` the types, and that a run without
faults has captured all it folds; with `FaultInv` that such a run fails no row
before the last. The last needs that the coin picked for the protocol burn is the
change of the hidden one (`LastInv`). Two theorems have a hypothesis about the
amounts, and it is what two of the violation runs are about. `ChangeIsLeft` (the
burns do not use up exactly what is minted) is needed because the hidden burn's
wait is for a coin of change; `audit_no_change` shows the abort without it.
`HiddenIsLess` (of amounts that are within the bound, less is hidden than is left)
is needed because the script picks the largest coin it is shown, and the dead one
may be that; `audit_dead_pick` shows it. The amounts of the run `audit` satisfy
both.

**The report.** `ReportInv` says of each row that its two numbers are the sums over
as much of the *present* log as the row had seen (`RowsInv`). This is not what the
code computes: a row is folded from the log of its moment, in part before the
color and the minted type are known. It is true because the transactions captured
until then are a deploy and nothing else of the token's (`BareTx`), so they count
as 0 under every color. What a damaged transaction still shows is a set of lemmas
on the decoder: dropping offers can lose a delta and a mint effect but not make
one, and if the two halves that are left agree, either nothing was lost or both
were. `GoodTx` is the one fact about transactions this rests on: the offers of a
mint pay for its mint effect. `OfflineInv` compares the captured order of the
files with the three lists of files that are modelled: a file of another deployment has no delta of this color, and mint effects
of other types can only add.

**The demonstrations.** The invariant is `TypeOK /\ Control /\ Teardown /\
Readiness /\ Progress`. `Control` says how far a script and its program can be
apart, so that `Cleanup` meets a program that is over; `Teardown` says who still
has to take the stack down; `Readiness` carries the services the script has
passed; `Progress` says that the calls before `pc` are in the chain, for only
`Confirm` passes them, and that an exit code 0 comes with a report. One lemma per
action. `WalletFirst` is an action property and follows from `Teardown`: where
containers are taken away, the wallet is none or stopped.

The proofs use the assumptions on the constants stated in `Utils`,
`ShieldedERC20`, `TokenLedger`, `SupplyAudit`, `SupplyReport` and `DemoRun`, which
TLC evaluates in every run of them, and the hypotheses the table names; fairness is
not used.

Only model-checked:

- `AlwaysExits` and `EndsOrWatchesInVain`: liveness under fairness, which needs
  `ENABLED`.

## 5. Not modelled, and why

- `providers.ts` only wires library objects together; `compile.sh` copies files
  and calls the compiler; `disclose-probe.compact` is meant not to compile; the
  compiled keys and arithmetic circuits are generated. None has state or control
  flow of its own.
- `join` of `contract.ts`: no program calls it.
- The wording of reports, `formatDecode`, logging, and the cross-check of the
  color against `rawTokenType` in `verify-supply.ts`, which is printed and decides
  nothing.
- Fees and dust, unshielded funds, proofs and keys: the ledger's and the wallet
  SDK's; the repository only passes them on.
- Two commands at once on one host. They may share the compose project, and the
  teardown of one takes the other's containers; `DemoRun` is one command.

Things a reader of the code may want to know that no run states as a disagreement:

- Awaits of `callTx` have no deadline, so a transaction that is dropped after it
  was accepted leaves the program waiting (`WatchIsDead`).
- A program started directly has no trap: Ctrl-C leaves its containers
  (the last disjunct of `StackIsTornDown`).
- `waitForUnshieldedFunds` returns at the first synced state, with or without
  funds (`src/wallet-utils.ts:64`; its comment at line 52 says otherwise); the
  first transaction then fails.
- The transfer of `hidden-burn` is not awaited: its report may show a burn that
  never lands.
- Taking a stack down may fail unnoticed (`docker compose down -v || true`).

## 6. Plan

1. Proofs: the safety half of the two liveness properties, that no reachable state
   of the audit or of a demonstration is without a next step of its own unless a
   wait is pending, stated with the guards written out; general facts about the decoder apart from the report's scenario.
2. `join` and a second client on one contract, if a program comes to use them.
3. Two commands that share a compose project, as a composition of two `DemoRun`s.
