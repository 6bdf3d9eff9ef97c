# Money market: a TLA+ model of the Anchor contracts

Specifications of the money market contracts of this repository, checked with
TLC on small instances and, for nearly every invariant, proved with TLAPS for all
values of the constants. Paths below are relative to the
repository; line numbers of every definition are in `PROJECT.json` under `map`.

## 1. The system

Users deposit a stable coin in the **market** and receive aTerra, a share of
the market's value. Others lock bAsset tokens in **custody** contracts and
borrow the coin against them. The **overseer** knows who has locked what, how
much that secures, and runs epochs. The **oracle** has prices, the
**liquidation** contract has bids of people who buy the collateral of loans
that are no longer covered. Two small contracts answer the market's questions
about rates.

| Component | State | Operations that change it | Talks to |
|---|---|---|---|
| market (`contracts/market`) | `Config`, `State` (liabilities, reserves, indexes, previous supply and rate), `BorrowerInfo` per borrower, its coins, the aTerra supply | deposit, redeem, borrow, repay, repay from liquidation, claim rewards, epoch operations, register contracts, update config, migrate | queries overseer (borrow limit, target rate), both models, token supply, its own balance; mints and burns aTerra; pays coins; has the distributor pay ANC |
| interest model, distribution model | one `Config` each | update config | answer the market |
| overseer (`contracts/overseer`) | `Config`, whitelist, locked collaterals per borrower, `EpochState`, a buffer of coins | lock, unlock, liquidate collateral; register and update whitelist; epoch operations, update epoch state; update config | messages to custody and market; queries oracle, market, liquidation |
| custody (`contracts/custody_bluna`) | balance and spendable part per borrower, bAsset tokens | deposit, withdraw (users); lock, unlock, liquidate (overseer); distribute rewards, swap, distribute hook; update config | token transfers, `Send` with hook to liquidation |
| liquidation (`contracts/liquidation`) | bids, escrowed coins, `Config` | submit, retract, execute bid; update config | queries oracle; pays market and overseer |
| oracle (`contracts/oracle`) | feeders, prices with their time | register feeder, feed prices, update config | answers overseer and liquidation |
| token lists (`packages/moneymarket/src/tokens.rs`) | none | `add`, `sub` on lists | used by the overseer |
| tax and queries (`packages/moneymarket/src/querier.rs`) | none | none | used by all |

There is no concurrency inside a contract: a message handler runs alone, and a
transaction is a tree of messages run depth first, undone as a whole if one
fails. What is hard is elsewhere:

* **Records kept in two places** that only messages keep together: the
  overseer's and the custodies' locked collateral; the market's copy of the
  aTerra supply; loans and their total; bids and escrowed coins.
* **Interest that is accrued late**, whenever somebody calls, with the balance
  of that moment minus what the call itself brought.
* **Rounding and unsigned numbers.** Everything rounds down, and a subtraction
  below zero aborts. If rounding could take the raw rate one unit below the one
  published, no handler would succeed again.
* **What contracts are not told of**: coins that arrive unasked, and aTerra that
  holders burn at the token, which makes the market's copy of the supply stale.
* **Taxes** charged by the chain on top of what a contract sends.
* **Transactions that fail half way** through a liquidation of several tokens.
* **Epochs** computed from balances and rates at the start of a transaction and
  stored at its end, with rewards arriving in between.
* **Two contracts that ask each other**: the market lends by the overseer's
  limit, the overseer unlocks by the market's loan, in the middle of calls.
* **Listings read page by page** while what they list changes.
* **Orders of calls**: prices, bids, whitelist and configurations change
  between any two transactions.

What makes each part correct:

* market: the published exchange rate is always covered by what the market owns;
  it does not fall and interest can be computed, unless holders burn aTerra;
  totals cover the parts; reserves are not paid out to users and do not eat into
  deposits.
* overseer and custody: they agree on what is locked, and collateral is
  released only from covered loans, or sold in a liquidation.
* liquidation: bids are in escrow; debt is forgiven only for coins.
* token lists: `add` and `sub` are the sum and the difference by token.
* epochs: the buffer recorded is there, income is counted once, overseer and
  market agree on the rate, and an epoch that has begun can be closed.
* borrowing: only time, prices and owners make a loan unsafe, and whoever can pay
  can leave.
* migration: the market made from the old state is as good as a new one.
* listings: nothing that stays is missed or listed twice.

## 2. The modules

| Module | Models |
|---|---|
| `Decimal` | Arithmetic of `Uint256` and `Decimal256` with its rounding, `compute_tax`, `deduct_tax`, and the tax of the chain |
| `RateModels` | `query_borrow_rate`, `query_anc_emission_rate` |
| `Market` | The market contract; one action per handler |
| `RateFloor` | What a depositor is promised: a floor price per share that is always covered, and falls only after shares were thrown away |
| `Messages` | The queue of messages of a transaction, run depth first |
| `Distribution` | The custody contracts' distribution of staking rewards, a message a step |
| `Epoch` | The overseer's epochs, message by message, composed of `Market` and `Distribution` |
| `Borrowing` | `Market` composed with the overseer's record of collateral, call by call |
| `Migration` | The market's `migrate`, followed by `Market` |
| `Chain` | Balances, bank and cw20 messages |
| `Oracle`, `Liquidation`, `Custody` | The three contracts, handler by handler |
| `Collateral` | The overseer's collateral handlers and the composition of the four modules above |
| `CollateralLedger` | What a borrower is promised: free and locked amounts, one transaction one step |
| `TokenLists` | The loops of `add` and `sub`, an iteration a step |
| `Listings` | Queries that list bids and prices in pages, and the indexes they read |
| `MCMarket`, `MCEpoch`, `MCBorrowing`, `MCMigration`, `MCCollateral`, `MCTokenLists`, `MCListings` | Instances for TLC |
| `ArithmeticProofs` | Lemmas about rounding and about sums over finite sets |
| `MarketProofs`, `BorrowingProofs`, `MigrationProofs`, `EpochProofs`, `CollateralProofs`, `ListingsProofs`, `TokenListsProofs` | Theorems about the components |

### Market

`config`, `state`, `borrower_info` are the contract's storage; `bank` and
`aterra_supply` belong to the chain and the token, where others than the market
change them too: `Donate` sends coins unasked, `holder_burn` burns aTerra with
the token's own `Burn` message; `interest_config`,
`emission_config` are the two models' storage; `height` is the block;
`spent` what the distributor has paid out; `emitted` is a history variable.

A step is a whole handler *with* the Mint, Burn, Send and Spend messages it
returns, since the transaction is atomic and none of them calls back. A handler
that returns an error or panics is a disabled action, so every unsigned
subtraction appears as a guard (`interest_computable`, and
`repay_amount <= total_liabilities`) and the properties say that the guards
that nobody wrote as a check in the code never refuse, or when only they may. The
overseer's answers
(target rate, borrow limit) and its epoch message are inputs chosen from
`TargetRates`, `BorrowLimits`, `EpochRates`, `ThresholdRates`; `target` may
differ from call to call, as the owner may change it. (In `Epoch` and
`Borrowing` these answers are the overseer's real ones.) The interest and
distribution models are contracts of their own, any of which the owner may put
in place of another.

**What holders burn.** `redeem_stable` burns the aTerra it was sent with
`Cw20HandleMsg::Burn` (`deposit.rs:105`), as any holder may, and the token does
not tell the market. `prev_aterra_supply` is then too large (`ahead`, by how
much) until interest is computed again, and that accrual takes the excess yield
of aTerra that is gone (`borrow.rs:317-324`), out of the pool of the rest. So

* after burning a tenth of all aTerra the published rate falls by about a
  hundredth where it should have risen by a ninth, the remainder going to reserves;
* after burning more than half, the excess yield may be more than the pool has:
  the second `compute_exchange_rate_raw` then subtracts more than there is and
  accrual panics, for every handler that begins with it, until so many blocks have
  passed, or the owner has raised the target rate so far, that the yield within the
  target brings the excess below the pool; and the rate may become zero, by which
  the next accrual cannot divide;
* the overseer's own copy of the rate is then above the market's, and
  `execute_epoch_operations` panics until the rate has grown past it
  (`overseer/src/contract.rs:301`).

The model has this step in every composition with the market, and the properties
say what remains: `RateBacked`, `PaymentsSpareReserves`, `DebtsCovered` and all
that is not about the rate holds without exception. What the burning breaks is
stated for `ahead = 0` (this accrual computes from the right supply) or
`Undisturbed` (and the rate has not been lost before), so that nothing *else* can
break it; `PrevSupplyTracks` says that the copy is exact again after each accrual.

Decimals are naturals in units of `1/Scale`. In the code Scale is 10^18; in the
runs it is 10, which makes rounding errors large and frequent, and in the
proofs it is any positive number. The 256-bit width is not modelled: overflow
needs amounts near 2^196 coins.

Simplifications: aTerra outside the market is one pool, as the contract never
looks at holders; one stable denomination. Whether the bank accepts a payment
of which the tax has left nothing is a constant, `ZeroSends`; `register_aterra`
is the token's answer to its instantiation and part of `Init`. `register_contracts`
may run once; in the code it is also refused, for good, if `update_config` has
named a model before it (`contract.rs:224-231`), so the model allows more.

### Epoch and Distribution

`overseer_execute_epoch_operations` is the handler that anyone may call once
`epoch_period` blocks have passed. It reads the overseer's coins and asks the
market for its rate, decides what to spend on ANC and what to distribute, and
returns messages: the bank payments (part of the step), a `distribute_rewards`
for each of the first `DefaultLimit` tokens of the whitelist, and an
`update_epoch_state` to itself. Each custody contract's message becomes three
(claim, swap, send), the second of which becomes a `swap` for each denomination
it holds; the overseer's last one asks the market again, stores `epoch_state`
and returns `market_epoch`, the market's `execute_epoch_operations`.

`received` is what the market has got in the transaction so far, so that it
holds `bank + received`; `coins` are those of the overseer, the collector and
the custody contracts; `accrued_buffers` and `income` are history. Between
transactions the market's calls, the owner's and arriving coins and rewards
interleave. A swap gets any of `SwapRates`; claims and swaps may also fail, and
`Revert` brings everything back to `saved`. `overseer_migrate` overwrites the two
deposit rates of the configuration at any time between transactions. `burned`
(history) says that at the end of the last epoch, or since, there was aTerra that
holders had burned and the market not yet seen.

### Borrowing

The market asks the overseer for `query_borrow_limit`, the overseer the market
for `query_borrower_info`, which accrues interest that nobody has stored. One
kind of collateral with a fresh price and a `max_ltv` that the overseer's owner
may change between any two calls (`update_whitelist`); a liquidation takes any part of the
collateral and pays any amount: what it really takes is `Collateral`'s concern.

### Migration

`LegacyMarkets` are states of the older version, whose code is not here;
`LegacyAssumption` says what is assumed of them: aTerra is worth at least one,
the indexes are ordered, some interest has been accrued. `burned` (history): whether
holders have burned aTerra since the migration.

### Listings

Keys are sequences of bytes in the store's order. A client begins a listing and
asks for page after page; in between bids are stored and removed with their two
indexes, and prices stored. `lasting` and `listed` are history: what was there
all the time, and what the client was given. The seven listings of the contracts
have the same code over different buckets; three are modelled, two with an index
that leads to another bucket and one whose keys differ in length.

### Collateral

A step is one message. `queue` holds the messages the transaction still has to
run; a handler's own messages go in front of those waiting (`Then`). When a
transaction starts, `saved` keeps the state it started from, and a message that
fails (`Fails`, a copy of the guards of the message handlers) brings it back
(`Revert`). The properties speak either about every state, that is also about
the middle of a transaction (`CustodyBacked`, `BidsEscrowed`), or about states
between transactions (`Idle`), or about `View`, what the world sees.

The market is what the overseer sees of it: `loan`, which may become any value
of `Loans` between transactions (interest, borrowing, repaying), and its
coins. This allows more than the real market does, so the properties here hold
of it too. Each custody has one token; two custodies may serve the same token,
one after the other on the whitelist.

Simplifications: a bid and its two indexes are one map (`store_bid` and
`remove_bid` write all three together); token lists are functions from tokens
to amounts, which is what `TokenLists` shows `add` and `sub` to compute; the
oracle contract and the market that each contract is configured with do not
change. A custody contract's liquidation contract may be replaced by another,
`Successor`, which has no bids yet. Two things that a holder of bAsset tokens may
do are left out:

* A plain transfer of tokens to a custody or a liquidation contract. The code keeps
  no record of it and the tokens stay there; so the second half of `CustodyBacked`,
  that liquidation contracts keep no tokens, is about what the contracts themselves
  send.
* `ExecuteBid` sent to the liquidation contract by somebody else than a custody
  contract, which is accepted with any liquidator, repay address and fee address
  (`liquidation/src/contract.rs:79-112`). What leaves the escrow and what the bid
  loses are the same as in a liquidation, but no loan is repaid.

`CollateralAssumption` has `max_ltv`, `safe_ratio`, `bid_fee` and `max_premium_rate`
at most one. The code accepts more without a check: a fee or premium above one
makes every liquidation panic, a `safe_ratio` above one many, and with a `max_ltv`
above one more is lent than the collateral is worth. Nothing is claimed of such
configurations.

### Mutants

A definition `name_Mistake` is a wrong version of `name`. It is used by no
specification. With it in place of `name`, the property it is listed with in
`PROJECT.json` is violated in the run it is listed with; so each property is
known to notice at least one plausible mistake in the code it is about.

## 3. The runs

`tlc -config MCMarket_rate.cfg MCMarket.tla`, and so on. Each ends within
two minutes or so.

| Run | Question | States | Bounds |
|---|---|---|---|
| `MCMarket_rate` | Is the rate always backed, and monotone and computable but for what holders burn, with the chain's tax (10%, cap 1)? Does a change of model spare past blocks? | 291k | 1 user, Scale 10, payments of 2 and 15, so that a tax is due and is not due; 2 target rates, 2 interest models, 3 blocks, 6 steps |
| `MCMarket_rewards` | Do totals cover what borrowers owe and are owed, up to the rounding of the totals themselves? | 382k | 2 borrowers, Scale 100, emission rising from 2 to 4 per block, 8 steps |
| `MCEpoch` | Do overseer and market agree on the rate, is the buffer held, is income counted once, are all rewards claimed, is the rate lifted to the threshold and no further, does every transaction end and no epoch panic? | 313k | Scale 100, tax of 10% with cap 2, 2 custodies, up to 2 tokens, 2 denominations besides the stable one, 3 configurations of the overseer of which one has a lower threshold, to which it may also migrate, and one factors above one, 3 blocks, 6 transactions |
| `MCEpoch_eleven` | All rewards, with eleven tokens? | violated | 11 custodies, page of 10 as in the code, 3 transactions |
| `MCMigration` | Is a migrated market as good as a new one, and no rate lost unless holders burn? | 493k | old states last accrued in this block or the one before, 4 blocks, 6 steps |
| `MCBorrowing` | Can a call make a loan unsafe? Can whoever pays leave? | 214k | 2 borrowers, payments of 1 and 3, 2 prices, 2 values of `max_ltv`, 2 blocks, 7 steps |
| `MCCollateral_custody` | Is a borrower's view atomic? Can a debt-free borrower leave? | 52k | 1 borrower, 2 custodies of one token, from deployment, prices that grow old, 9 transactions |
| `MCCollateral_liquidation` | Are tokens and coins where the records say? Is a partial liquidation enough? | 337k | 1 borrower, 1 bidder, Scale 100, tax of 2% with cap 500, prices 1 and 0.7, premiums of 0 and 10%, amounts of 4000 and 10000, loans to 4800, 2 configurations of liquidation, 7 transactions |
| `MCCollateral_two_tokens` | Do overseer and custodies agree? Does half a liquidation leave a trace? | 298k | 2 tokens, tax of 30% with cap 1, liquidation contracts replaced, 8 transactions |
| `MCCollateral_threshold` | Is all collateral taken below the threshold? | violated | 1 borrower, 1 bidder, 2 prices, Scale 10, 7 transactions |
| `MCTokenLists` | Are `add` and `sub` right for every list? | 125k | 3 tokens, amounts to 2, arguments of up to 3 entries in any order, with zeros and duplicates |
| `MCListings` | Does a listing in pages give everything once, and end? | 42k | 2 bidders, 2 tokens, 4 names of which one extends another, limits below, between and above the default (2) and the maximum (3) |

`MaxCalls` bounds the length of a behaviour, `MaxHeight` and `MaxTime` the
clocks, `MaxTokens` the whitelist, `Borrowers` and `Bidders` who plays which
part, `Keepers` whom custody contracts may be given to; all are in the MC
modules or among the constants. The shortest behaviours that are of interest
fit: with a mutant in place every property is violated within them, the longest
at a liquidation (deposit, lock, loan, bid, liquidate, with a price change or a
new configuration in between) and at an epoch (loan, fee, block, epoch, block,
epoch). In an instance of this size only small amounts occur; Scale is 10 or
100 so that what the code rounds away in the eighteenth digit is a visible part
of them.

Some runs start in a state that is reachable from the module's `Init`, to spend
their calls on what comes after. `MCCollateral_liquidation`, `_two_tokens` and
`_threshold` start with feeders, prices and whitelist in place (`Deployed`);
`MCEpoch` with tokens whitelisted, and the call that registers the market's
contracts is not counted; `MCCollateral_custody` starts from `Init`. In
`MCBorrowing` the owner stays the same and the second borrower, who is there to
move the interest rate, is not liquidated.

`Done` in the MC modules lets the bounded instances stutter at their bound, so
deadlock checking stays on and finds a transaction whose message can neither
run nor fail. `MCTokenLists` stops when the method returns and turns deadlock
checking off; `MCListings` has no bound of its own and never stops.

### What they show

* **Market.** `RateBacked` is the core: `prev_exchange_rate * supply <= coins +
  liabilities - reserves`, burned aTerra or not. `InterestNeverStuck` follows from
  it: the call that every handler begins with does not panic, unless holders have
  burned aTerra (see *What holders burn*; the same condition is in
  `ExchangeRateNeverFalls`, `ImplementsRateFloor` and `AllRedeemableWithoutDebt`).
  `ImplementsRateFloor`,
  `DepositRedeemNoProfit`, `AllRedeemableWithoutDebt`, `PaymentsSpareReserves`
  are what depositors and the protocol rely on. `DebtsCovered` and
  `RewardsCovered` relate the totals to the sum over borrowers. Neither holds to
  the last unit: `total_liabilities` is rounded down whenever interest is
  charged, a loan only when it is settled, so the total falls behind the loans
  by less than one unit for each charge, and that unit bears interest
  (`rounding_loss`). With Scale 10, one coin borrowed at index 2.0 and nine
  charges of a tenth make a loan of 2 coins and a total of 1.9. In the code a
  unit is 10^-18 coins, and `repay_stable`, which subtracts the repayment from
  the total, fails for the last borrower only if the loan is that close to a
  whole coin; he can then repay one coin less. The properties allow exactly
  that loss, and the proof shows that nothing else is lost.
  `InterestNotRetroactive` is about calls of the market; the interest model's
  own `update_config` does change the interest of blocks that have passed since
  the last accrual.
* **Epochs.** `BufferHeld`: the overseer computes its new buffer before it pays
  and stores it many messages later, and still holds it, so the unsigned
  subtraction of the next epoch exists. `EpochTracksMarket`: the two contracts
  compute the rate in different messages from different balances and get the
  same; it exceeds the market's only by what holders have burned.
  `IncomeCountedOnce` is an equation, in which what a rounded tax leaves
  of a payment counts as income. `EpochNeverPanics` needs the two factors of the
  configuration to be at most one, which `update_config` does not ask for, and for
  the first handler that no holder has burned aTerra; the messages after it never
  panic, so an epoch that begins is closed.
  `AllRewardsClaimed`, `DistributionUpToThreshold` and `TransactionsEnd` are
  about the messages in between; `ImplementsMarket` makes all that is shown of
  `Market` hold with the epochs around it.
* **Collateral.** `LedgersAgree`, `ImplementsLedger`: message by message, with
  failures, the contracts implement a ledger where each transaction happens in
  full or not at all. `ReleasedOnlyIfCovered`, `DebtForgivenIsPaid`,
  `DebtFreeCanUnlock`, `CustodyBacked`, `BidsEscrowed` say that collateral,
  coins and debt move together. `DebtFreeCanUnlock` holds for what the custody
  contracts on the whitelist have: what an exchanged one keeps is stuck there
  until the owner puts it back. `LiquidationRestores`: the share taken allows for
  the highest premium, the fee and the tax, so that what a borrower still owes is
  within `safe_ratio` of the limit of what he keeps, whichever bids are executed.
  It falls short of that by no more than `rounding`: the ratio is a `Decimal256`,
  whose last digit is a `1/Scale` of the value of the collateral, and each token
  sold is cut to whole units. The run has amounts of thousands, so that this
  slack is small against what a wrong share would leave. The property is about
  liquidations that leave some collateral; when all of it is sold nothing else
  can be taken, and the loan may exceed what it brought.
* **Borrowing.** `OnlyTimePricesAndOwners`: only blocks, a falling price, the
  overseer's owner who lowers `max_ltv` (`overseer/src/contract.rs:255-257`,
  without regard to the loans there are) and the interest model's own owner make a
  loan liquidatable; no other call of anybody does.
  `UnsecuredOnlyByLiquidation`: only a liquidation leaves a loan with no
  collateral; a loan of one unit may be reported as nothing, be left behind and
  grow, which the property allows. `CanAlwaysLeave`: who repays what
  `query_borrower_info` says may unlock everything; the repayment is accepted but
  for the `rounding_loss` of the total, and but for a market that burned aTerra
  keeps from computing interest.
* **Migration.** `MigratedSafe`: the invariant of `Market` and, until holders burn
  aTerra, an accrual that does not panic, from whatever the old version left.
  `LegacyRateKept`: no depositor loses by it.
* **Listings.** `PagesReadable`: no index leads to a bid that is gone.
  `ListedOnce`: what was there all the time is listed once. `ListingsEnd`.
* **Token lists.** `Correct`: sum and difference by token, an underflow exactly
  when there is one, duplicates noticed wherever they stand. `Terminates`.

Two findings, each a disagreement of the code with a doc comment:

* Below `liquidation_threshold` the code liquidates the share `borrow_amount /
  expected_repay_amount`; the doc of the field and a comment in the function say
  all collateral (`BelowThresholdTakesAll`, run `threshold`).
* An epoch asks the custody contracts of the first ten whitelisted tokens for
  their rewards, the default page of `read_whitelist`; the doc of the message
  says it claims all staking rewards (`AllRewardsClaimed`, run `epoch_eleven`).

What burning aTerra does to the rate and to accrual (*What holders burn*, above)
contradicts no doc or comment of the repository, so it is stated in the properties
and not as a finding. Another disagreement is visible without a run: the doc of `target_deposit_rate`
(`packages/moneymarket/src/overseer.rs:29`) has custody contracts send rewards
when the deposit rate is above the target, and the code asks them in every epoch.

### Fairness

Nothing in the contracts runs by itself, a handler runs only when somebody
calls; so most properties that are liveness in spirit (a call must remain
possible) are stated as invariants about what would succeed now
(`InterestNeverStuck`, `EpochNeverPanics`, `AllRedeemableWithoutDebt`,
`DebtFreeCanUnlock`, `CanAlwaysLeave`). What does run by itself once begun:

* `TransactionsEnd`, under weak fairness of `Message \/ Revert`: the chain runs
  the messages of a transaction until there are none or one fails. No fairness
  is assumed of the calls between transactions. TLC is given this fairness with
  `~Idle` in place of `ENABLED`, which is the same where nothing deadlocks and
  much cheaper to evaluate.
* `Terminates`, under weak fairness of the next step of a loop.
* `ListingsEnd`, under weak fairness of `Page`: a client that has begun a listing
  asks for its next page. Nothing is assumed of those who change what is listed.

## 4. The proofs

`tlapm ArithmeticProofs.tla`, and likewise the modules of each component; `CollateralProofs` takes ten minutes, the others less. All are for any
finite set of users, tokens and custody contracts, any denominations, any
`Scale > 0`, tax, configuration, price, rate and amount; the assumptions are the
named `ASSUME`s of the modules, which TLC evaluates in the runs. Those that the
proofs of sums and of the collateral contracts need say no more than the code
does: `MarketAssumption` and `AccountsAssumption` that there are finitely many
users, tokens and custody contracts, and that an address is one account (a user
is not a contract, and the contracts differ); `NoneAssumption` that the absence
of an entry in a bucket is not an entry.

`ArithmeticProofs` has the facts about rounding products and quotients, and
`OutlayBound` and `OutlayNear`: whatever tax rate and cap, a payment of
`deduct_tax(amount)` costs its sender at most `amount`, and less only by the
rounding of the tax (`Dust` in `Epoch`).

It also has the facts about sums over a finite set: that the recursive function
behind `SumFunctionOnSet` exists, that any element may be taken out, what changing
one term does, how two sums compare, the union of two sets, the renaming of one.
The library's induction theorems take an operator, so the induction is over the
subsets of the given set, from a smallest counterexample (`SubsetInduction`).

`MarketProofs` proves that

    IInv == TypeOK /\ RateBacked /\ ahead >= 0 /\ IndexesOrdered

is inductive (`Invariance`). The argument: a call first runs `compute_interest`.
It either panics, and then there is no step, or the rate it stores is a quotient
rounded down of the pool it stores, which is thereby backed, whatever excess yield
was taken of whatever supply. Then the call itself trades at a rate no better for
the caller than this one, and by `OutlayBound` no payment costs more than accounted.
Who burns aTerra only lowers the left side of `RateBacked`. It also needs the supply
never to be zero, which the initial deposit, held by the market itself, ensures.
`ahead >= 0` holds because every handler makes the copy exact, or follows the supply
from where it was; that it does one of the two, and that only burning increases
`ahead`, is `PrevSupplyTracks` (`PrevSupplyAlwaysTracks`).

Where nothing is burned behind the market's back (`Undisturbed`) more follows from
the same invariant. Interest adds to the pool, so with `RateBacked` the new raw rate
is at least the old one, the yield it computes is not negative and nothing underflows
(`InterestNeverGetsStuck`). The excess yield moved to reserves is at most what
the pool has gained over `prev_aterra_supply * prev_exchange_rate`, so the rate
published is at least the last one (`RateNeverFalls`): this is
where `ahead = 0` is needed, and it explains the special case before the
first accrual, where the handlers' copy lacks the initial deposit and the
yield taken is only smaller.

From the same invariant follow `ExchangeRateNeverFalls`, `PaymentsSpareReserves`,
`DepositRedeemNoProfit`, `AllRedeemableWithoutDebt` (with the lemma that accrual
makes no debt where there was none) and that `Market` implements `RateFloor`
(`ToRateFloor`).

`PastInterestKept` proves `InterestNotRetroactive`: the index that accrual stores
is the one that was due before the call (`AccruedIndex`), so afterwards the same
is due, whatever the call has moved since; a call that does not accrue moves
neither coins nor loans nor the model.

Its second part proves `DebtsCovered`. A loan of `L` made at index `I` is worth
`L * G / I` at index `G`; all truncations but one are on the side of the total.
The invariant (`Covers`) compares the total with the sum of those *fractions*, and
because it has to speak of integers it takes all of them times a common multiple
`M` of the indexes, for every such `M`:

    Scale^2 * G * sum of L * (M / I)  <=  M * (Scale * total + n * G)

with `n` the charges so far, at most one a block. A charge multiplies the left by
`G2 / G` and loses less than a unit on the right, for which `n` grows
(`ChargeArithmetic`); settling a loan only lowers the left (`SettleArithmetic`);
borrowing and repaying move both sides alike. At the end `M` is the product of all
indexes (`CommonExists`), and the loans that are owed are the rounded fractions.

It also proves `RewardsCovered`. A block's emission is divided by the total of the
loans, and each loan earns by its fraction, which the total may fall short of by
`n` units; so what the borrowers are due together may exceed what is emitted by the
share `2 * (n + 1) * G / Scale^2` and no more (`ShareArithmetic`). The invariant
(`Promised`) says so of what is paid, pending and earned since a loan was last
settled, again times every common multiple of the indexes, together with the
emission that a call is about to accrue. Accrual adds to both sides by that
lemma (`SharePromised`), settling a borrower's rewards rounds them down
(`SettlePromised`), and the share only grows with the block and the index
(`ShareKeepsPromise`). Its hypothesis, that the share is at most one, is that of
the property: when the total has lost as much as there is of it, nothing can be said.

`BorrowingProofs` rests on the same lemma. A loan that a call settles is the loan
that was due (`AnswerIsDue`), so the limit is compared with the right number;
another borrower's loan is read at an index that a call leaves alone or, where
coins are given to the market, lowers (`DonationLowersDue`: more coins, lower
utilisation, and both divisions are monotone). Bringing a loan up to date rounds
down by less than two units and never up (`LoanAtIndex`), which gives
`OnlyTimePricesAndOwners` (a higher `max_ltv` or price only raises the limit) and, since an unlock to nothing needs a loan of which nothing
is due, `UnsecuredOnlyByLiquidation`. The invariant is `IInv`, `Covers`
and the types of the overseer's record; from it also `CanAlwaysLeave`
(`AlwaysFreeToLeave`): one borrower's loan is at most the sum of all.

`MigrationProofs` proves `MigrationInv`: before the migration the state is one of
`LegacyMarkets`, of which only `LegacyAssumption` is used; afterwards `IInv`
holds and the published rate is at least the one the old state was worth. The
migration computes that rate from the same balance and supply that `RateBacked`
speaks of, so it is backed by definition of the quotient, and it is at least one
by the assumption; from there the proof is `Market`'s.

`EpochProofs` proves `EInv` inductive. It is `IInv`, the type invariant and, by
where the transaction is:

* between transactions, `Settled`: the overseer's rate is at most the market's,
  unless holders have `burned` aTerra since, and equal to it if they were stored in
  the same block, the recorded buffer is held, and income is counted (`Counted`);
* `BurnsSeen`: unless `burned`, `ahead` is zero; with the rate in `Settled`, the
  market is then undisturbed, and the lemmas of `MarketProofs` about that apply;
* `Rewarding`, while custody contracts run: the queue is some calls of custody
  contracts followed by one `update_epoch_state`, whose buffer is covered by the
  overseer's coins at this moment, and whose distribution is what the market has
  received. Rewards only add to both sides. The
  first handler has asked the market for its rate, so interest can be computed, burned
  aTerra or not, and until the end nothing changes that (`QueryComputes`, `RateStays`);
* `Ending`, between `update_epoch_state` and `market_epoch`: the rate stored is
  what the market will compute from its balance without the distribution;
* in the middle of a transaction, `saved` is `Settled`, for `Revert`.

`Rewarding` and `Ending` are why the two records agree although they are written
in different messages: no message in between changes what the market's rate is
computed from. From `EInv` follow the four invariants and `EpochNeverGetsStuck`;
`EpochsAreTheMarkets` shows that an epoch is to the market a call of its own
handler with the coins that arrived, and `MarketSafeInEpochs` that the market's
invariant holds in the composition.

Two more invariants are about what happens inside an epoch. `RewardsComing` follows
the rewards of one custody contract through the queue, in stages (`OnTheWay`): its
`distribute_rewards` waits; or its claim, its swap and its sending, in this order;
or the swap and the sending, and nothing is left to claim; or the sending, with a
swap before it for each denomination that is still held; or everything is sent. A message
moves the contract at its head by one stage and leaves the others where they are
(`StaysOnTheWay`), and `update_epoch_state` comes last (`UpdateIsLast`). It gives
`AskedAlwaysSent` for the tokens of the first page, with any whitelist, and
`AllRewardsClaimed` where the whitelist has no more (`RewardsAllClaimed`, hypothesis
`MaxTokens <= DefaultLimit`; the run `MCEpoch_eleven` shows that it is needed).
`DistributionAffordable` says that what an epoch has chosen to distribute is at
most what the threshold lacks over the blocks since the last one; with at least as
many aTerra as then, the rate computed at the end exceeds the threshold by the
rounding of one division (`GainArithmetic`, `PerBlockArithmetic`), which is
`DistributionUpToThreshold`.

`CollateralProofs` proves `CInv` inductive. Between two messages of a
transaction the contracts disagree: what the overseer has recorded is not yet
locked by the custody contract, what that contract has given up is still in its
balance. What is missing is exactly what waits in the queue. So every part of the
invariant adds to the stores the *total effect of the queue*, a sum over its
messages (`total`) of what each will do to one quantity:

| Part of `CInv` | Adds | Gives |
|---|---|---|
| `Backed` | `Leaving`: tokens that transfers and sends take from a custody contract | `CustodyBacked` |
| `PassedOn` | `Passing`: tokens that arrive at and leave a liquidation contract | `CustodyBacked` |
| `Escrowed` | `Paying`: coins that will be sent from the escrow | `BidsEscrowed` |
| `Agree` | `ToLock`: what is still to be locked, less what is to be released | `LedgersAgree`, `DebtFreeCanUnlock` |
| `Underway` | `ToFree`, `Paying`: what will be spendable, and what the market will pay | `ReleasedOnlyIfCovered`, `DebtForgivenIsPaid`, `ImplementsLedger` |

A message that runs moves its effect from the queue to the stores, and the
messages it returns have the effect it has not had itself; there is one lemma for
each kind of message (`TransferRuns`, `ExecuteRuns`, ...) and one for each
transaction (`DepositStarts`, `LiquidationStarts`, ...), in terms of two stores and
two queues, and one that shows the action to be an instance of it
(`TransferStep`, ...). `Underway` says of a transaction in progress that the state
it started from, `saved`, was in order, and that its end will be judged well
against that state: this is decided when it starts, as no message changes the
overseer's record, and kept until the queue is empty. The repayment of a
liquidation is the one message whose effect is not known before it runs; `RepayLast`
says that it comes last, and that nobody has paid the market or moved a loan
before, except by executing bids. A failing message brings back `saved`, which is in
order by the invariant.

`ViewStep` concludes that a step shows the others nothing, or a whole transaction
that was judged well (`Commits`); from it follow the two action properties
(`CollateralSecures`, `ForgivenDebtIsPaid`) and the step simulation of the abstract
ledger (`ToCollateralLedger`). TLC has checked `CInv` on the instances of the runs
`MCCollateral_custody` and `MCCollateral_two_tokens` too.

The last part of `CollateralProofs` proves `LiquidationRestores` from
`RInv`, which is `CInv` and, in the middle of a transaction, `Restoring`: of every
borrower whose collateral is being reduced by a liquidation (`Reduced`: priced,
above the limit when it started, some of it left), what the market has received
so far, with the total of what each waiting message will at least bring it
(`Brings`), takes the loan to the bound (`Owes`). Two facts are behind it.

* What a message brings (`OwesStep`). A `liquidate_collateral` brings what the
  deductor the overseer reckons with leaves of the value of its tokens; so does
  the `execute_bid` it leads to, because no bid has a higher premium than the
  maximum, and fee and tax are deducted one from what the other leaves
  (`SaleBrings`, `ExecuteOwes`); so does the transfer of the coins that comes of it.
  Between them nothing changes a price or a configuration. The repayment takes
  off the loan what has arrived (`RepayOwes`).
* What is asked for (`LiquidationRecovers`). With the ratio that
  `query_liquidation_amount` computes, what the limit loses with the collateral
  sold, and what selling it brings, close the gap between loan and
  `safe_ratio` (`RatioLeaves`). The ratio is rounded down, by less than `1/Scale`
  of the value of the collateral; each token's share of it is, by less than a
  unit, and so are the limits before and after, the price and what a bid pays
  (`ShareSold`, `ShareKept`): together the terms of `rounding`. A ratio of one
  or more sells everything (`AllSold`), which the property is not about.

Other transactions reduce nobody's collateral below a loan (`LockReduces`,
`UnlockReduces`: the limit grows with the collateral, so who is above it after an
unlock has been refused). No bound on the tax rate is assumed: the ratio is below one
only if the deductor leaves more of the collateral than is owed, and then premium,
fee and tax are below one (`RatioLeaves`).

`ListingsProofs` rests on one fact about bytes, `StartsAfter`: a key with the byte
one appended comes after exactly the keys up to that key. Of addresses this needs
that they have one length, of names that none extends another by a zero byte
(`ListingsAssumption`); the key itself, without the byte, would be listed again.
A page is the set of the first `n` keys of its range, so it is everything in the
range up to its last key, and empty only if the range is (`FirstKeys`, `RangeIsRest`,
`NextPage`). `LInv` says that a client has
been given no key after `start_after`, none twice, and every key up to it that has
been there all the time, and that the indexes and the bids have the same pairs.

`TokenListsProofs` proves the loops of `add` and `sub` (`TInv`). Sorting is what the
loops need of it: the sorted list is in order, has the same entries, and brings every
duplicate next to its double (`SortedArgument`; that an order exists is `OrderExists`,
by counting the entries that go before each; a list in order stays as it is,
`SortedStays`). From then on what a loop has passed lies below all that is ahead of
either index (`SubAt`, `AddAt`), so a token is met in both lists at once or is only in
one, and what has been computed for it is final; where `sub` gives up, the token at
the index of the argument is missing or too little (`SubLacks`), and where it comes to
the end of the argument, nothing is (`SubDone`). `AlwaysCorrect` states the result for
lists of any length over any tokens; amounts are compared with the lists as they were
given.

Every invariant and every action property of the passing runs is proved, the two
simulations of abstract specifications (`ImplementsRateFloor`, `ImplementsLedger`)
and of `Market` by its composition (`ImplementsMarket`) included. Only model-checked
is liveness (`TransactionsEnd`, `Terminates`, `ListingsEnd`), which is out of the
prover's reach, as is `ENABLED`. The runs `MCCollateral_threshold` and
`MCEpoch_eleven` show violations and have nothing to prove.

## 5. Not modelled

* Message type declarations, addresses and their encodings, logs, the Solana
  stub: no state, no operations.
* Queries that only return what is stored and on which no handler depends. Of
  the seven paginated ones three are modelled; the others page in the same way
  over one bucket.
* The overseer's `update_config` of its oracle, its liquidation contract and
  `price_timeframe`, which stay what they are; one stable denomination.
* The width of the numbers: `Uint256` overflows only near 2^196 coins.
* The cw20 token, Terraswap's token factory, the treasury, the ANC distributor,
  the reward contracts, the chain's swap and the bank are external and modelled
  by what the contracts use of them.

## 6. Plan

Done: the market with its rate, taxes, rewards and governance, and its proofs;
the oracle, liquidation, custody and collateral with their abstract ledger; the
token lists; the epochs with the reward distribution, composed with the market,
and their proofs; the amount a liquidation takes; the market composed with the
overseer's record of collateral, and its proofs; the migration and its proofs; the
listings and their proofs; the proofs of the collateral contracts and their ledger, of
what borrowers owe and are due together, of the right to leave, of the rewards and the
distribution of an epoch, of the loops of the token lists, and of the amount a
liquidation takes.

Next, what the proofs leave open beside liveness: the other side of
`LiquidationRestores`, that a liquidation of a part takes no more than the ratio
asks for; and that the abstract ledger itself promises what the contracts are shown
to keep, so that the properties of accounts can be read off the ledger alone.
