# Verification of Assign Onward: recorder, exchanges, services and wallet

This directory holds TLA+ models of *Assign Onward* (`src/2026`): the chain a
recorder keeps, the conditional assignment agreements (CAAs) that exchange shares
across chains, the daemons around a recorder, and the wallet. TLC checks the
models on small instances; TLAPS proves the main results for every value of the
constants.

Paths below are relative to `src/2026/src/` unless they start with `specs/`,
`sims/`, `ROADMAP.md` or `WalletSyncGuide.md`, which are in `src/2026/`.

## 1. The system

Shares live on chains. A chain is a sequence of blocks kept by one *recorder*
at a time; whoever holds the key of an unspent sequence id (a UTXO) can assign
its shares to new keys. There is no consensus protocol: the recorder is the
only writer of its chain, and safety comes from its checks, from signatures and
from validators that replay the chain.

| component | state | operations | interacts with |
|---|---|---|---|
| chain store and handlers (`ao-chain`, `ao-recorder/src/lib.rs`) | SQLite tables `utxos`, `used_keys`, `caa_escrows`, `caa_utxos`, `escrow_releases`, `refutations`, `blocks`, `chain_meta` | submit (assignment, owner-key items, reward rate, recorder change, migration), `caa/submit`, `caa/bind`, `refute` | wallets, agents, coordinators over HTTP; subscribers over SSE and MQTT |
| CAA coordinator (`ao-exchange/src/caa.rs`, `ao-pwa/src/core/caaEscrow.ts`) | collected proofs, the step it is at; memory only | submit to chain 0..N-1, bind to chain 0..N-2 | the recorders of N chains |
| owner keys (`ao-chain/src/owner_keys.rs`) | `owner_keys` table | rotation, revocation, override | the handlers that accept owner-signed blocks, the auditor |
| blob store (`ao-recorder/src/blob.rs`) | files, `blob_meta` | upload, download, prune | transfers that name a blob |
| exchange agent (`ao-exchange/src/engine.rs`, `wallet.rs`, `trade.rs`, `transfer.rs`) | pending trades, scan positions, inventory | trade request, deposit check, payout, expiry | recorders, consumers |
| hot standby (`ao-recorder/src/standby.rs`) | copied blocks | batch sync, SSE, promotion | the primary recorder |
| validator (`ao-validator`) | height and rolled hash, auditor's store, anchors, alerts | poll, verify, audit, anchor | recorders |
| wallet core (`ao-pwa/src/core`) | IndexedDB keys, peers, queue, transactions; localStorage | transfer, queue and flush, sync payloads, validation, pairing, relay client | recorders, other devices |
| relay (`ao-relay`) | channels, retained messages | broadcast, retain | devices of one wallet |
| wallet views (`ao-pwa/src/components`) | React state, the store, shared SSE streams | handlers that read, wait and act | core, recorders |
| data items and signing bytes (`ao-types`, `ao-pwa/src/core`) | none | encode, decode, substitute, sign | everything |
| simulations' viewer (`sims/src/viewer.rs`, `sims/viewer`) | trades, agents' states, the page | push, list, toast, pause | agents |
| federation, identity, host plumbing, hashing, CLI | see `PROJECT.json` | | |

What is hard in this code:

* **One row set, many writers.** A block first expires shares and sweeps escrows
  whose deadline has passed, then applies an assignment validated before that;
  a bind changes rows without a block; a CAA adds rows without a sweep.
* **Time.** The wall clock is read before the handler waits for the chain's
  lock, a block's time may run ahead of it, and two hosts' clocks differ.
* **Several stores.** A submission and the recorder change it completes are two
  transactions; the validator writes its auditor's store, its own and the
  anchor file one after the other; a blob's row is there before its file; the
  wallet stores keys one by one. A crash may fall between any two.
* **No timer.** Only a later assignment on the same chain sweeps an escrow.
* **The network.** Answers get lost, requests are resent, coordinators and pages
  die with everything they know, relay connections break.
* **Handlers that wait.** Almost every handler of the wallet reads state, awaits
  something, and acts on what it read, while other handlers, other tabs and other
  devices act too.

`PROJECT.json` lists hazards at their lines with the properties that watch them.

What makes each component correct:

* chain: shares are conserved; a share leaves circulation once; the escrow table
  and the UTXO table agree; nothing is locked for good; a hand-over never cuts
  across an open escrow; a migrated chain never changes.
* CAA: chains lock in order; shares change hands only if every chain has locked;
  the coordinator's success is true; every escrow is settled in the end.
* owner keys: somebody can sign for the owner; keys change no faster than the limits
  allow; the auditor has the recorder's keys.
* blob store: no file without an owner, no chain beyond its quota, expired blobs go.
* exchange agent: a trade is paid once at most, for a deposit to it.
* validator: what it saved is the recorder's history; damage raises the alert.
* wallet: no key is lost, spent marks stay and spread, queued transfers that count as
  submitted are recorded, a relay key belongs to two devices, a message is handled once
  and in order; what a view shows is what there is.

## 2. Modules

| module | models | builds on |
|---|---|---|
| `Recorder`, `RecorderProofs`, `MCRecorder` | one chain as its recorder keeps it | |
| `Ouroboros` | what the recording of a CAA promises, abstractly | |
| `CaaExchange`, `CaaExchangeProofs`, `MCCaaExchange` | coordinator, participants, network and N recorders, as far as one CAA concerns them | `Ouroboros` by refinement |
| `OwnerKeys`, `OwnerKeysProofs` | owner keys, the auditor's copy, the wallet's cooldown | |
| `BlobStore` | uploads, downloads, pruning, crashes | |
| `ExchangeAgent` | trades against deposits | |
| `Validator` | the poll loop | |
| `Transfer` | a wallet's transfer and its offline queue | |
| `TransferFee` | the rounds of the fee, wallet and agent | |
| `WalletSync` | keys tables of several devices, payloads, validation | |
| `Relay` | relay and relay clients | |
| `Pairing` | the ceremony by QR codes | |
| `DataItems`, `FormsProofs` | encodings and signing bytes | |
| `TxHistory`, `VendorFeed`, `CoopNotes`, `EscrowCards` | views of the wallet | |
| `SimViewer` | the simulations' live feed | |
| `MCDevices`, `DevicesProofs` | `Pairing`, `Relay`, `WalletSync`, `Transfer` (twice) | |
| `MCServices`, `ServicesProofs` | `OwnerKeys` (twice), `ExchangeAgent`, `Validator`, `BlobStore` | |
| `MCScreens`, `ScreensProofs` | `DataItems`, `TxHistory`, `VendorFeed`, `CoopNotes`, `TransferFee`, `SimViewer` | |
| `MCLive` | `WalletSync`, `Relay`, `EscrowCards`, `BlobStore`, `Validator` under their fairness | |
| `SumLemmas` | no code: lemmas about sums over finite sets, for the proofs | |

The four modules from `MCDevices` to `MCLive` put parts that share nothing but data into one run each. A variable
`part` is chosen at the start and only that part moves, so the state graph is the
sum of the parts' graphs and not their product; each part is an `INSTANCE` with its
own constants (in `MCDevices`, `MCServices` and `MCScreens` parameters that the configuration fills,
so that their theorems are about any of them), and each property is the part's own, taken under the same
name or, where two belong together, as their conjunction. A property about one part
is untouched by the behaviours of the others, in which that part stays in its initial
state.

### Recorder

A handler takes the chain's store mutex before its first read and keeps it until
it commits, so a handler is one action. Three things escape the mutex and are in
the model: the wall clock, read before waiting (`WallReads` lags the clock by up
to `MaxLag`), the crash between the two transactions of a handler that also
completes a recorder change (`crash` in `AutoRecorderChange`), and the crash before
the reward key's seed is saved (`crash` in `SubmitAssignment`).

| action | handler |
|---|---|
| `SubmitAssignment` | `submit_assignment` with `validate_assignment` and `construct_block` (expiry, escrow sweep, application, auto recorder change) |
| `CaaSubmit` | `caa_submit` of a hash that is not in `caa_escrows` (a known hash is answered and changes nothing) |
| `CaaBind` | `caa_bind` |
| `Refute` | `submit_refutation` |
| `SubmitAdmin` | owner key rotation and revocation, recorder URL change |
| `SubmitRewardRate` | `REWARD_RATE_CHANGE` |
| `SubmitPending`, `SubmitRecorderChange` | `RECORDER_CHANGE_PENDING`, `RECORDER_CHANGE` |
| `SubmitMigration` | `CHAIN_MIGRATION` |
| `Tick` | the wall clock (external) |

`utxo[s]` is the row of sequence id `s` (`Absent` before it is handed out and after
a sweep deletes it), `escrow[h]` the row of a CAA together with its `caa_utxos` by
role, `by` the recorder that recorded it; `blockShares` and `recorded` say what the
blocks hold. `SweptUtxo`, `SweptKeys`, `SweptEscrow`, `SweptReleases`, `SweptShares`
are together one run of `run_expiry_sweep` and `run_escrow_sweep`.

Abstracted: signatures, encodings and page sizes (the fee is a fixed fraction of
`shares_out`, rounded up as in the code; the reward a fraction of what is given);
who may sign an owner's item; separable items; expiry mode 2 (declining value), of
which only the cutoff of mode 1 is modelled. A refused request changes nothing and
is no step.

### CaaExchange and Ouroboros

`phase`, `at`, `proofs`, `waiting`, `attempts` are the variables of `execute_caa` and
`executeCaa`, which share their control. `Send` posts a request, `Arrive` is the
handler reading its host's clock, and `RecordComponent`, `Resubmitted`,
`RefuseSubmit`, `Bind`, `RefuseBind` are the handler under the lock with its answer,
which may be lost or come too late. `Timeout` and `Crash` are the client's;
`Participant` is anybody who holds the signed CAA and proofs the chains have issued.
Of a chain only this CAA's escrow, the escrow of another CAA (`others`, one at a time),
a pending recorder change (`draining`) and the newest block's
time remain. `OtherAssignment` is any other assignment, whose block runs the sweep.
`RequestRecorderChange` is the owner's `RECORDER_CHANGE_PENDING`, taken at any time when none
is pending. Its completion is not part of the step that settles the last escrow:
`AutoRecorderChange` is `auto_recorder_change_inner`, a second transaction after every
submission and every bind, which does nothing while any escrow of the chain is open, and
which a crash or a failure (only logged after a bind) tears off (`torn`); the change then
stays pending until a later tail or the owner's own `SubmitRecorderChange`. `OtherCaa`,
`OtherCaaOverdue` and `OtherCaaBound` are other people's CAAs, and together with the owner's
actions (`HandOver`) they happen on the chains in `HandOvers` (in `CaaSettles` chain 0; on the
others nothing is ever pending and another CAA changes nothing this one sees). That the rest of a chain keeps
this picture true (an escrow is settled once, what it holds stays held) is what
`Recorder` shows. `RefuseSubmit` covers in one disjunct the refusals for causes that
the abstraction hides (givers spent meanwhile, a stale `SHARES_OUT`), under `Faulty`.
Recorder keys are taken to be known to every host; `Clashes` says which giver's
sequence id on one chain is that of an outsider's UTXO on another.

`Ouroboros` is the abstract promise: chains lock in order, and a chain hands over its
shares only when all have locked. `CaaExchange` implements it with `recorded <-
Recorded` and `outcome` read off the escrow's status.

### OwnerKeys

`Rotate`, `Revoke` and `Override` are a validation and its application in one block
(`validate_rotation` and `apply_rotation`, and so on); `GoLive` is the first
assignment, before which no rate limit holds. `row` is the recorder's table, `audit`
the auditor's copy as `audit_content_item` replays the same block: it knows neither
rates nor overrides. The recorder's HTTP handler has no branch for an override, only
the library does, so `Overrides` is a switch. `RotationCooldown` is what
the wallet displays.

### BlobStore

`Post` is the request; `Look`, `Reserve`, `OpenTemp`, `Write`, `Rename` and the undo of
a failure are the steps of `store`, between which the lock is free. `PruneStart` reads
the table, `Prune` removes one blob of it; `Command` is `ao-recorder prune` on a
running host; `Crash` stops the host and starts it with the clean-up of
`BlobStore::new`. `Gets` is what `get` answers. `Record` is a transfer that names a
blob by the hash of its item.

### ExchangeAgent

The engine's mutex is held throughout `check_deposits`; `cycle` says where it stands
between two requests to the recorder (`CheckDeposits`, `Poll`, `Fetch`, `SkipGone`,
`execute_trade`, `CycleDone`). `request_trade` is the HTTP request, `Pay` a
consumer's deposit, `StreamLost` a notification lost under SSE, `Restart` the daemon's
death, in which trades and positions go. Keys are named by what they were made for.

### Validator

A hash is the sequence of what it commits to. `Poll` to `RecordAnchor` are the stages of
one round of `run_daemon` (fetch a batch, verify, audit block by block, save height
and rolled hash, write the anchor to the file, then to the table), with a crash
possible between any two; `Record`, `Cut` and `Damage` are the recorder's.

### Transfer

`handleBuild`, `handleConfirm`, `Recorded`, `SaveKey` and `Finish` are the stretches of
a transfer between two awaits; `Flush` is `flushPending` entry by entry, for two
flushers that overlap; `Network` is requests, answers, losses and the online events.
The tables of IndexedDB survive `Reload`, React state does not.

### WalletSync, Relay, Pairing

`WalletSync` has one keys table per device. `handleExport`, `handleExportFull` build a
payload, which stays available for ever; `ImportKey`, `ImportSpent` take one row at a
time; `GetUtxo` and `UpdateKey` are the two halves of one step of
`validateKeysOnChain`. `Relay` has `handle_socket` (`Subscribe`, `TakeRetained`,
`Broadcast`, `retain_message`) and `RelayClient` (`sendEncrypted`, `handleMessage`,
then the import). `Pairing` has the panel `PairedDevices` with its two scans
(`ScanPair`, `ScanAck`) and `connectRelay`, which takes the first peer. A derived key is
the set of the two pairs that made it.

### DataItems and TransferFee

`DataItems` translates the wallet's encoder and decoder, which are ports of the
recorder's, over bytes of four bits, so that every boundary (sign byte, VBC length,
the integer's width) is within reach; `Encode` takes any item of a bounded set,
`Decode` any byte string up to `MaxLen` over an alphabet, `Post` writes JSON. The
recursions of the code are recursive functions: the encoder, the substitution and the
two JSON forms over the items of bounded height (`Heights`, deep enough for every string
of `MaxLen` bytes and for the wallet's items), the decoder's loop over a container's children
from the last position of the string to the first (`DecodeChildren`). SHA-256 is an injective
function (`sha256Sync`) whose values are no bytes of anything else.
`TransferFee` uses real sizes in bytes; `Round` is one of the three rounds of the
builder, `Record` the recorder's check of the exact amount.

### The views

* `TxHistory`: `Start`, `ReadKeys`, `ReadHeight`, `ReadCursor`, `Fetch`, `Save` are the
  stretches of a scan, in the order of the list for `Histories` and of the report for
  `Reports`; both share one cursor and one table.
* `VendorFeed`: `SsePool` with its listeners, the dashboard's cards, the monitor, the
  poll of the list of chains.
* `CoopNotes`: a note prepared in one view, taken by a transfer in another, and the
  ledger read from blocks.
* `EscrowCards`: the list of swaps in each tab and in localStorage, `executeCaa` behind
  it, `Countdown` as the card's timer.
* `SimViewer`: `Begin`, `Trade`, `Report` are an agent's turn; `Connect`, `Changed`,
  `Push` the server's side of a connection; `Receive` to `Expire` the page's.

The comment at the head of each module says what it models.

## 3. Runs

### 3.1 What each run asks

| run | question | instance and why it is enough |
|---|---|---|
| `RecorderEscrow` | tables, keys and shares consistent under a CAA, sweeps, assignments, expiry | six sequence ids, two receivers, expiry period 2 within 5 instants: a split, a CAA over an ageing half, a fresh row that makes the block in which the escrowed half would have expired; the sweep and a bind on either side of it |
| `RecorderHandOver` | recorder change and migration against open escrows | two CAAs that overlap or follow each other, two successors, clock read one instant late, crash between transactions |
| `RecorderAgreements` | deadlines, refutations, rewards; no handler makes shares | an agreement over the issuer's UTXO that a CAA can lock and give back, reward rates 0 and 1/2, so that a CAA is swept or bound after a reward was taken for it |
| `CaaRecording` | the recorders alone enforce the order | three chains (the fewest with a middle one), anybody posts with any issued proofs in any order, deadline inside the run |
| `CaaSettles` | escrows are settled, requested hand-overs come about, success is true | two chains, lost answers, two attempts, crash; another CAA and hand-overs on the first chain, whose completion may be torn off time and again; the deadline is the last instant, and a block's time goes beyond it |
| `CaaCompletes` | the exchange completes when nothing fails | three chains, a host whose clock may lead; the deadline lies beyond the last instant, for the exchange is to be faster than its deadline |
| `Devices` | keys, messages, queue and spent marks are what they claim to be | three devices and three key pairs, so that two ceremonies overlap; two messages, three connections, a reload and a relay that forgets; two devices that import and validate twice at a time; two assignments with two flushers, once over a bad network with reloads, once over a good one with a user who clears, imports and unlocks |
| `Services` | what each daemon keeps agrees with what it keeps it of | three owner keys within eight instants, longer than both rate limits: once with lifetimes and without overrides (`AuditAgrees`), once the other way round (`AlwaysOwned`); two trades, three deposits of right and wrong amounts (two and a restart), an expiry and faults; three blocks in batches of two with two failures and a crash, an anchor for each block; two chains, two blobs, two uploads at once, four requests, crashes, a quota that one blob fills |
| `Screens` | what is shown or sent is true | two overlapping scans over two blocks in batches of one, a late key, a change of chain; two chains with shared streams; two chains and loads that fail or are overtaken; totals on both sides of the amount that takes a byte more; items nested twice and every byte string of up to four bytes over an alphabet of type codes, sizes and continuation bytes; five trades on a server that keeps three, messages of one and two trades, two losses |
| `Live` | what must happen in the end | two devices, a bought key and one from a payload; two messages, two connections; two swaps of a tab that is left and loaded again; two blobs, two uploads and pruning; two blocks in batches of one, one damage, one failure |
| `CaaPartial` | finding: a partial state | two chains, no fault at all |
| `TransferLostKeys` | finding: keys lost with a queued transfer | two assignments, five keys, lost answers and reloads |

The properties, by the hazard they are about:

* the sweep in the middle of a block: `EscrowCoherence`, `SharesConserved`,
  `LiveKeysUnique`, `NoStrandedEscrow`, `GoneForGood`, `SettledIsFinal`;
* rewards of CAAs that are bound or swept at another rate: `NothingMinted`;
* hand-over and migration: `EscrowsOfIncumbent`, `PendingHonoured`, `FrozenForGood`;
* resent and refuted agreements: `RecordedOnce`, `RefutedStaysOut`;
* several chains: `OuroborosSpec`, `RecordedInOrder`, `BindingNeedsAll`, `DoneMeansBound`,
  `EscrowSettles`, `HandOverHappens`, `Completes`;
* devices of a wallet: `KeyOfTwo`, `HandledOnceInOrder`, `LiveDelivery`, `SpentStays`,
  `SpendIsLearnt`, `SubmittedIsRecorded`, `NewKeysStored`;
* services: `AuditAgrees`, `AlwaysOwned`, `PaidOnce`, `HistoryKept`, `DamageFound`,
  `BlobsAccounted`, `ExpiredGo`;
* screens: `HistoryIsTrue`, `StreamsTrue`, `LedgerIsPrefix`, `CardSettles`,
  `RoundsSuffice`, `ItemsTrue`, `NoGap`.

The counterexample files of 3.4 and the type invariants are not part of the runs. Every
module has a `TypeOK` (but `DataItems`, whose variables are data) that can be added to a
configuration of its own.

Every bound is a constant of its module and appears in its guards: `MaxSeq`, `MaxTime`,
`MaxLag`, `MaxReceivers`, `MaxAttempts`, `MaxSkew`, `MaxPayloads`, `MaxMsgs`,
`MaxConnects`, `MaxPairs`, `MaxBuilds`, `MaxTrades`, `MaxDeposits`, `MaxRestarts`,
`MaxHeight`, `MaxAlter`, `MaxFails`, `MaxCrashes`, `MaxBlocks`, `MaxRequests`,
`MaxLosses`, `Buffer`, `MaxLen`, `MaxTroubles`. In `CaaExchange` moreover: one participant's
request at a time (it is stamped at once, since a slower one could be sent later); a
coordinator sends again while no more than `MaxRequests` of its requests are under way; one
other CAA at a time on a chain; and a chain's block time stands still one instant after the
last of the clocks, past every deadline, where no comparison can change any more (`After`). Keys,
reward keys and CAA hashes are symmetric in `Recorder`; no run with a liveness property
uses symmetry. Deadlock is not checked, for time ends at its bound and the program may
simply have no more requests.

### 3.2 Fairness

* `CaaExchange`: `FairSpec` assumes that time goes on (`Tick`), that a coordinator that
  is not dead goes on (`Send`) and that a host answers what it was sent (`Handle`). It
  assumes no client's request, no fault, no hand-over and no block. `TrafficSpec` adds
  that other assignments keep coming on each chain, of which not every one is torn off before
  its tail, and that the deadlines of other CAAs pass. Without the assignments `EscrowSettles`
  and `HandOverHappens` are false, because nothing but an assignment sweeps and nothing but a
  submission or a bind completes a change. No owner and no party of another CAA is made to do
  anything. A completion that fails every time it is tried (a stored signature that does not
  decode, a database that refuses the block) is outside this fairness; a failure now and then,
  and any number of crashes, are inside.
* `WalletSync`: every run of a device's validation goes on. The app starts one with each
  block and each selection of a chain (ConsumerView.tsx:121-172). Nobody has to export,
  import or transfer. `SpendIsLearnt` allows for a page that is loaded again and again.
* `Relay`: a connection's handler and a client's event loop go on (`Serve`, `Receive`).
  Nobody has to connect or send, connections may break.
* `EscrowCards`: time passes, the user comes back to the view (`Open`), and strong
  fairness of a card's timer: a view that is shown again and again is shown long
  enough for one second to pass. Weak fairness is not enough, as leaving the view stops
  the timer. The coordinator's own run is not fair: the page may die.
* `BlobStore`: the clock and the pruning loop (main.rs spawns it) go on; uploads need not.
* `Validator`: `run_daemon` goes round. Failures are bounded; recorder and crashes are not
  forced.

`MCLive` states these as conditions on the steps of the part that moves. Parts never move
in one behaviour, so conditions of different parts are conditions on different behaviours,
and one `WF` over their disjunction says the same as one each.

### 3.3 Findings

1. *Partial binding* (`CaaPartial`). Both coordinators bind chains 0..N-2 only, on the
   assumption of `specs/AtomicExchange.md` 3.2-3.3 that the last chain is binding as
   soon as it is recorded. The recorder leaves it escrowed, and the sweep expires it:
   the givers of the last chain get their shares back after the others have paid.
2. *Lost keys* (`TransferLostKeys`). `handleConfirm` stores the keys it pays to only after
   the recorder has answered. If the request fails it queues the signed assignment and
   drops the seeds; the next flush may record it, and the change belongs to a key
   nobody has.

### 3.4 Statements the code does not keep

While modelling, each statement of a document, comment or test about a modelled part was
written down as a property. Those in the table do not hold. Each is at the end of its
module and is violated under the constants given: the named file, or the part's constants
as in its MC module with the changes listed (`TLC` finds the counterexample in
seconds). Properties of the runs are chosen, and their instances bounded, so that none
of these is hidden in them: where a run excludes a behaviour the table says so.

| property (module) | under | what happens | statement |
|---|---|---|---|
| `Completes` (`CaaExchange`) | `CaaAgentBond.cfg` | `build_signed_caa` attaches no bond, which `validate_caa_submit` requires of every chain but the last: chain 0 refuses | ao-exchange/src/caa.rs:65 |
| `Completes` | `CaaForeignGiver.cfg` | givers of other chains are looked up among the local UTXOs (ao-chain/src/caa.rs:629), whose owner then lacks a signature | ao-chain/src/caa.rs:627 |
| `SharesOutIsExact` (`Recorder`) | `RecorderForfeit.cfg` | a forfeited bond leaves `shares_out` below the shares in circulation | specs/AtomicExchange.md:316 |
| `NoStrandedEscrow` | `RecorderStranded.cfg` | the reward row of a CAA is settled neither by bind nor by sweep; `RecorderEscrow` has a reward rate of 0 | specs/AtomicExchange.md:21 |
| `WithinIssued` | `RecorderAgreements.cfg` | at a positive reward rate a timed-out CAA adds to `shares_out` the reward that was never taken from it: the sweep takes what givers and receivers differ by for the fee | ao-chain/src/caa.rs:453, specs/EconomicRules.md:236 |
| `RefutedNeverRecorded` | `RecorderRefutedEarly.cfg` | a refutation counts only once the deadline has passed | specs/EconomicRules.md:211 |
| `CompletedIsKnown` (`Transfer`) | `Happenings = {"lost"}` | a queued entry whose answer was lost is recorded, refused on the next flush and ends as failed | ROADMAP.md:352 |
| `SpentMarkIsTrue` (`Transfer`) | `TransferWrongMark.cfg` | the confirmation outlives Clear and Import; the key active then is marked, not the giver | ConsumerView.tsx:413 |
| `SelectionIsOwn` | `{"clear"}` | a scan ends after Clear and Import and selects a UTXO of the former key | ROADMAP.md:314 |
| `RefusedWithCause` | `{"external"}` | a receiver without a key does not sign, and the recorder wants every receiver's signature | ROADMAP.md:316 |
| `SyncedWasExported` (`WalletSync`) | `MaxPayloads = 3` | `markAllSynced` marks keys that came after the payload was built | specs/WalletSync.md:92 |
| `SpendIsTold` | `WalletSpendUntold.cfg` | a spend of a synced or imported key is in no payload, as the row stays synced | walletSync.ts:139 |
| `NoAlarmForOwn` | `MaxPayloads = 3` | the block of one's own transfer starts a validation before the key is marked | specs/WalletSync.md:37 |
| `SpentMarkIsTrue` (`WalletSync`) | `Escrows = TRUE` | an escrowed UTXO is marked spent and stays so when it is released | specs/WalletSync.md:36 |
| `OnlyReplaysIgnored` (`Relay`) | `RelayRestart.cfg`; also with no reloads | a reloaded page counts from 0 and is ignored; a message overtaken between broadcast and retention is too | specs/WalletSync.md:251 |
| `RetainedForOffline` | three devices | the first device that connects empties the retained messages | specs/WalletSync.md:162 |
| `KeysAgree` (`Pairing`) | two devices, `MaxPairs = 4` | a confirmation of an earlier code is taken for the present one | specs/WalletSync.md:130 |
| `GroupInSync` | `PairingThird.cfg` | the channel is that of the first peer | App.tsx:74 |
| `PairedIsConnected`, `UnpairedIsCut` | two devices, `Guided = TRUE` | pairing opens no channel before the next load; unpairing closes none | WalletSyncGuide.md:88, :119 |
| `DepositMatched` (`ExchangeAgent`) | `ExchangeFirstDeposit.cfg` | the first check takes its position after the deposit that started it | ROADMAP.md:296 |
| `RegisteredStay` | `ExchangePaidTwice.cfg` | a second deposit in one check replaces the first in the wallet | ROADMAP.md:296 |
| `AcceptedIsCovered` | three trades and deposits | nothing is reserved, two trades are promised one stock | ROADMAP.md:298 |
| `PositionsComplete` | no faults | a configured key's UTXOs are never looked up | ROADMAP.md:300 |
| `ValuesInRange` (`DataItems`) | `MaxLen = 5` | the decoder takes values of 2^63 and above | specs/WireFormat.md:29 |
| `JsonBinarySame` | `MaxLen = 5` | a VBC field longer than it need be is shortened on the way through JSON | specs/WireFormat.md:429 |
| `BuiltIsAccepted` (`TransferFee`) | `OtherBlocks = 0`: agent around 33200; a reward rate; the wallet | no amount balances; the reward is left out; 200 bytes stand for signatures of 164 or 242 | ao-exchange/src/transfer.rs:31, :32; ROADMAP.md:316 |
| `Linked` (`Validator`) | `MaxAlter = 1` | nothing compares the first block of a batch with what was validated | verifier.rs:133 |
| `AlertHolds` | `MaxAlter = 2` | the next poll goes on past an alteration | specs/ValidationAndTrust.md:80 |
| `OkIsPresent` | `MaxAlter = 1` | a recorder with fewer blocks than validated is up to date | specs/Architecture.md:39 |
| `NoFalseAlarm` | `ValidatorFalseAlarm.cfg` | after a crash the same rotation is audited twice and refused | specs/ValidationAndTrust.md:142 |
| `AuditKeepsUp` | `MaxFails = 1` | an audit error skips the rest of the batch for good | main.rs:319 |
| `ConnectionTold` | `MaxFails = 2` | the status stays unreachable while Recovered is told again and again | specs/ValidationAndTrust.md:144 |
| `AlwaysAnOwner` (`OwnerKeys`) | `Lifetimes = {1}`, rotation and revocation limits of 2 and 4 | with expiries the last valid key runs out | specs/CompetingRecorders.md:148 |
| `NewKeyUsable` | `Lifetimes = {1}` | a rotation to a key the table already has changes nothing | specs/CompetingRecorders.md:131 |
| `ExpiryStands` | `Lifetimes = {1, 2}` | a signer puts its own end off | specs/CompetingRecorders.md:132 |
| `RevocationsSpaced`, `OverrideOutvotes`, `HoldEnds`, `AuditAgrees` | `Overrides = TRUE`, `Lifetimes = {}` | an override makes the limit forget a revocation, counts only the keys it lists, holds a key for ever, and is unknown to the auditor | specs/CompetingRecorders.md:152, :160, :166, :174 |
| `CooldownTrue` | `Lifetimes = {}` | the wallet shows a cooldown on a chain that is not live | specs/CompetingRecorders.md:144 |
| `Complete` (`TxHistory`) | `Histories = {h1}`; `MaxOwn = 2` | the list reads keys before the height; two receipts of a page share a record. `Screens` has reports and one receipt a page | ROADMAP.md:657, txHistory.ts:275 |
| `HeldKeysComplete` | `HistoryLateKeys.cfg` | the cursor never goes back for keys that come late | txHistory.ts:354 |
| `SpendsListed` | `Numbered = {}` | no row ever has a sequence number, so no spend is listed | ROADMAP.md:657 |
| `SalesAreIncoming`, `ShownIsSelected` | as `Screens`; a list and `Switches` | change counts as a sale; a scan answers under another chain | salesReport.ts:19, TransactionHistory.tsx:20 |
| `CardsAgree`, `SessionCounts` (`VendorFeed`) | as `Screens` | the poll of the list of chains replaces live cards by fresh ones | ROADMAP.md:708, :710 |
| `NoGap` (`SimViewer`) | `Happenings = {"pause"}` | a paused page drops what the server counts as sent | sims/docs/README.md:77 |
| `ToastedOnce`, `ToastsGo`, `HeldIsShown` | pause, mute and loss; `{"time"}`; `{"hold"}` | an older trade behind a newer one; timers set anew; the server's older state comes back | sims/docs/ROADMAP.md:82, :265 |
| `NoteOnce`, `PendingIsAttached` (`CoopNotes`) | `{"leave"}`, two givers or two notes | the pending note is read and cleared by different transfers | ROADMAP.md:856 |
| `RecordedIsShown` | no happenings; `BlockRange = 1` | the note's text is sent nowhere; only the first blocks are read | ROADMAP.md:859, specs/CooperativeMetadata.md:101 |
| `NotedIsTaken` | `LongNotes = {"n1"}` | wallet and recorder reckon a note's fee from different sizes | ROADMAP.md:856 |
| `LockedIsListed` (`EscrowCards`) | `EscrowTabs.cfg` | one tab's list overwrites another's | ROADMAP.md:763 |
| `ServedIsWhole` (`BlobStore`) | one blob, two uploads | they share a temporary file | ROADMAP.md:420 |
| `KeptUntilExpiry` | `{"prune"}`, `MaxTime = 6` | a blob uploaded again during a pruning is removed | specs/BlobRetentionReport.md:85 |
| `AnsweredIsReadable` | two chains, one blob | a blob has one owner | ROADMAP.md:420 |
| `Isolated` | `{"io"}` | a failed write removes another request's row, and the file is then served to all | ROADMAP.md:450 |
| `RefusedWhenFull`, `GoneIsPruned` | `{"prune"}`; `{"crash"}` | rows outlive files and fill the quota; a row without a file may never have had one | blob.rs:105, ROADMAP.md:835 |
| `AttachmentIsTaken` | `{"record"}` | the store's hash is that of the bytes, the transfer's that of the item | ROADMAP.md:669 |

## 4. Proofs

TLAPS checks the theorems below for every value of the constants that satisfies
`ConstantsAssumption` (`Recorder`), `CaaConstants` (`CaaExchange`), `OwnerKeysConstants`
(`OwnerKeys`), `PairingConstants` (`Pairing`) and `PartsConstants` (`MCDevices`,
`MCServices`, `MCScreens`: the assumptions of the parts): any number of keys, shares, exchanges,
agreements, chains, attempts, devices, messages, trades, blobs, notes, blocks, and any clock.
`DataItems` has `SizesAssumption`, on the widths of a byte, of the recorder's integers and of
a field, and `ItemsFit`: the items of the run are not longer than a size field can say. The
assumptions ask for ranges only (naturals, a positive denominator, sets of names that do
not overlap); TLC evaluates them on every run. Two of them are about what may happen and
not about ranges, and leave out what 3.4 shows to go wrong: in `MCDevices` the network of the
second `Transfer`, in `MCScreens` a paused page of the simulations' viewer.

### One chain (`RecorderProofs`)

`Invariance` is `Spec => []IInv`. The properties of the runs are not inductive alone;
`IInv` adds what each of them leans on:

* `EscrowCoherence` needs the part of `TypeOK` that says a sequence id not yet handed
  out has no row, so that an insertion overwrites nothing an open escrow holds.
* `EscrowsOfIncumbent` needs `FrozenQuiet`, for a frozen chain has no escrow and no
  pending change, and `PendingLeavesRoom`, which is a matter of the bound `MaxTime`:
  the block that ends a hand-over can still be stamped.
* `LiveKeysUnique` needs `ReceiversApart`. The receivers of a CAA are the only live
  rows that may share a key, and only among themselves. When a sweep deletes
  such rows it takes their keys out of `used_keys`, which is sound because all
  rows with such a key belong to the one CAA that is swept.
* `RecordedOnce` needs `RecordedSpends`: a recorded agreement has spent its givers,
  spent rows stay spent, so the same givers are never spendable again. Nothing
  else in the code stops a second recording.

The proof has a part per handler. A block is followed in the order of the code:
lemmas about the sweep (`SweepTables`, `SweepRows`, `SweepCoherent`, `SweepUnique`),
about `SetStatus` and about `InsertRows` (`InsertUnique`) are chained through
tables that are being rewritten, for which `Coherent` and `Unique` state the
invariants of half-applied blocks. `StepInv` collects the handlers; the action
properties `GoneForGood`, `SettledIsFinal`, `FrozenForGood`, `PendingHonoured` and
`RefutedStaysOut` follow from `IInv` and one step each.

*Shares.* `SharesStayConserved`: what is spendable, or will be once the open escrows are bound,
and the locked reward rows of CAAs add up to `shares_out` plus the forfeited bonds. `CInv` has
this for all rows that live and are not given to an open escrow (`RowsAddUp`), which is what
a step preserves, and needs that shares are counted in integers and every escrow has a row
(`Counted`). That these rows are those that circulate and, apart from them, the locked rewards
is `OnlyRewardsStranded` (below) and `RewardsApart`: a reward row stays escrowed and no open
escrow gives or receives it. With `RewardRates \subseteq {0}` there are no such rows.

`NothingIsMinted`: at any reward rate, and when the rate changes between a CAA's recording and
its end, no step makes shares: what could be spent if every open escrow timed out never grows.
`MInv` adds that an open escrow promises its receivers no more than its givers lock
(`PaidFor`). The theorem has the condition that `shares_out` is never negative, for the fee
is a fraction of it; forfeited bonds can take it below zero (section 5). In the run it
stays positive. It does not follow that `shares_out` tells the truth (`WithinIssued`, 3.4).

A step is followed by what it takes out of circulation
and puts in, a union or a difference of sets of rows; that a sum over a union of
disjoint sets is the sum of the sums, and so on, is `SumLemmas`. The sum is `SumFunction` of the
community modules, a fold. The provers cannot instantiate a library theorem on
induction, so `SumLemmas` proves by hand that a set of naturals has a least element,
from that an induction over the subsets of a finite set in which the property is itself a set
(`SubsetInduction`), and from that what the fold yields.

*Nothing is locked for good.* `OnlyRewardsStayLocked`: whatever the reward rates, a row that is
escrowed without an open escrow is the reward row of a CAA. `NothingStaysLocked`: with
`RewardRates \subseteq {0}` there is none. The hypothesis is needed: at a positive rate
the property fails (`RecorderStranded.cfg`, 3.4), and the first theorem says that it
fails in no other way.

### A CAA across chains (`CaaExchangeProofs`)

`IInv` here is `TypeOK`, the order and binding invariants, and three facts about what
is under way: every proof in anyone's hands is of a chain that recorded the CAA
(`ProofsInv`, on which the order of recording rests), a coordinator that still has a
request to send has attempts left (`AttemptsInv`), and the chains before the one it is
binding are finalized (`BindInv`, on which its success rests). From it follow
`OrderHolds`, `BindingHolds`, `DoneHolds`, and `Refinement`: every
behaviour of `CaaExchange` is one of `Ouroboros`. Each action is mapped to recording a
chain, handing its shares over, giving them back, or to a stutter. `DoneMeansBound`
says nothing of the last chain, which is finding 1.

### Owner keys (`OwnerKeysProofs`)

* `TypesHold`: `TypeOK`.
* `OwnerRemains`: where rotations set no expiry (`Lifetimes = {}`), some key can sign for
  the owner at all times, with overrides or without. `OwnerInv` adds to the types
  that no valid key has an end (`NoExpiry`) and that one is valid (`SomeValid`). The
  condition is needed: `AlwaysAnOwner` fails with expiries (3.4).
* `KeysAreSpaced`: keys of a live chain are added no faster than the rate allows.
* `AuditorAgrees`, `RevocationsAreSpaced`, `RevokedIsForGood`: on a chain without overrides
  the auditor's table is the recorder's, revocations keep their distance,
  and a revoked key stays out. The code finds the latest revocation by a maximum over the
  table, so `HostInv` says that this revocation is still in it (`LastIsKept`). An
  override breaks exactly that.

### Devices of a wallet (`DevicesProofs`)

Each result is proved of the part by itself and carried over to the sum of the parts:
a step of another part leaves the variables of this one alone, and every part
starts in its initial state. (`Transfer` is there twice on one set of variables;
`SumInv` says which of the two instances' invariants holds.)

* `RelayKeyIsOfTwo`, `DevicesShareKeys` (`Pairing`): no relay key is shared by two pairs of
  devices, however many ceremonies overlap, are abandoned or answered late. `PairInv` says that
  there is an assignment of generated key pairs to devices such that each half shown on a
  screen belongs to the device that shows it and each stored key is made of one pair of either
  device. Of the types only what this uses is proved (`Types`): `FirstPeer` is a minimum over a
  set, whose existence is an induction.
* `SpentForGood`, `DevicesSpendForGood` (`WalletSync`): a row marked spent stays so,
  whatever payloads are imported late or twice and however runs of the validation
  overlap. `WInv` says that a row counts as unspent only with a sequence number
  (`Countable`): it is why a validation that read the row before the mark and writes after it
  finds nothing to change.
* `MessagesOnceInOrder`, `DevicesHandleOnce` (`Relay`): `RInv` says that all a client has let
  through is below what it remembers of the sender (`Remembered`). Nothing is assumed about
  the order in which the relay delivers; the client's filter alone does it.
* `TransfersSubmitted`, `DevicesSubmit` (`Transfer`): an entry marked submitted is in a block. `TInv`
  says that each sender waits for one answer, that the answer on the wire is the answer to the entry
  the flusher is at, although other flushers append to and mark the same queue, and
  that ok is answered for what is recorded only (`Answered`).
* `KeysOfTransfersStored`, `DevicesStoreKeys`: while no answer is lost and no page dies
  (`PartsConstants` of `MCDevices`), the seed of every own key a recorded transfer pays
  is stored or about to be. `KInv` adds that the queue then stays empty
  (`Undisturbed`), that a recorded assignment is never offered for confirmation again
  (`NotOfferedAgain`), so that two clicks do not store the keys of different transfers in turn,
  and which keys `saveKey` has stored so far (`Stored`). Finding 2 shows the hypothesis is
  needed.

### Services (`ServicesProofs`)

* `ServicesStayOwned`: `OwnerRemains` of `OwnerKeysProofs`, taken over to the second
  instance of `OwnerKeys` by an `INSTANCE` of the proof module.
* `ValidatorKeepsHistory`, `ServicesKeepHistory`: however often a round fails or dies between two
  writes, what is saved is one pass over the recorder's blocks, and the anchor file rises and has
  every anchor of the table. `VInv` says how far the round under way has got: what it has rolled
  is the history up to `at` (`Under`), its batch is the blocks from there, and no anchor is above what
  is saved (`Published`), which is what lets a crash between saving and publishing pass.
* `AgentPaysOnce`, `ServicesPayOnce`: a trade is paid once, for a deposit to it. `XInv` follows a
  trade's keys: ids are given out once (`XAsked`), a key is not in use before its trade is
  asked for (`XKeys`), every match the check under way holds is a deposit on the chain
  (`XCycle`), and a trade is pending only while it is unpaid (`XPaid`). A check may match a
  trade twice; the second match finds it gone.
* `BlobsHaveOwners`, `ServicesAccountForBlobs`: without errors of the disk and without pruning every file
  has its row and no chain exceeds its quota, under crashes at any step. `UInv` says that the
  row is there before the temporary file (`UFiles`) and that a request never comes to give a
  row back, which is what the table of 3.4 shows to go wrong otherwise (`Isolated`); `UQuota` is the
  sum of the sizes, from `SumLemmas`.

### Views (`ScreensProofs`)

* `StreamsOfTheirListeners`, `ScreensStreamsTrue` (`VendorFeed`): a stream is open for exactly
  those who show its chain. `DInv` is the property with the types of the pool; what the proof
  adds is that no view asks for the stream of `NoChain`.
* `LedgersOnScreen`, `ScreensLedgerIsPrefix` (`CoopNotes`): the ledger on screen is a prefix of the
  selected chain's. `CInv` says of every load under way that what it was served is a
  prefix of what its chain has by now, and that only a load for the chain on screen is alive
  (`LoadsTrue`): a late answer is true of its own chain and is dropped.
* `ListsWithoutGap`, `ScreensNoGap` (`SimViewer`): the list of trades has no hole. Messages
  on their way count as seen once the ones before them are received (`Seen`); `SInv` says that the list
  and each beginning of the stream after it have no hole (`NoHole`), that what is kept up
  to the last id a connection sent is among them (`SentSeen`), and that nothing is seen
  before it happens (`NoneAhead`). Trades that the server drops are the oldest (`KeptInOrder`),
  which is why a new connection, which starts anew at what is kept, leaves no hole behind.
* `TablesTrue`, `ScreensHistoryIsTrue` (`TxHistory`): what the table holds is on the chain, and what
  the device could tell below the cursor is in it. `HInv` says of a scan in its middle that
  with the table it has everything up to where it is, and that it read the keys after the
  height it scans to (`ScanTrue`), so every key of the blocks in its range is among them; and
  that a record of givers has all the givers the device knew (`Borne`), without which a late scan could replace
  a fuller record by a poorer one of the same key. The theorem is about any number of
  overlapping sales reports on pages with one receipt. The history list reads its keys too early and
  two receipts of a page share a record (3.4); both are left out by the instance and not assumed.

The filters of the code (`Records`, `Only`) are written as recursive functions over a sequence's
positions. That such a function exists (`ScanExists`), that two with the same definition agree
(`ScansAgree`), and what it keeps (`ScanKeeps`, `ScanRises`) is proved once, by induction on the position
from `SumLemmas`; an operator `SelectSeq` could not be unfolded.

### Fees (`ScreensProofs`)

`RoundsFindAmounts`, `ScreensRoundsSuffice` (`TransferFee`): if some amount for the change
balances, the agent's three rounds end on one. Sizes, pages and fees grow with the amounts
(`PagesGrow`, `FeeGrows`), so what is left for the change falls as the change that is measured
rises (`RestFalls`): the second round errs on the other side of the answer than the first, the
third lies between them, and `RoundsFind` shows that it is the answer where these three have at most
two sizes (`TwoSizesApart`). Two hypotheses:

* `RewardNum = 0`. The builders leave the reward out, so with a reward nothing they build
  balances (3.4).
* `Steady`, for the run `BytesAreCheap`: an amount has at most 127 bytes, and the fee of as many
  bytes as a page can grow by is at most 32640, or half of what is left for the change. Without it the
  statement is false. A giver with 7840130 shares on a chain of 20000 shares with a fee of one
  whole share per byte and share (`FeeNum = FeeDen = 1`, `SeqId = 5`, `ListingBytes = 40`) sends
  30: a change of 20100 balances, the rounds go 40100, 60100, 100, 40100 shares and end there.

That the recursive functions which count bytes exist is itself to be proved: `SolutionExists` says
it of every definition that takes a value at a number from the value at a smaller one.

### Forms (`FormsProofs`)

`ItemsAreTrue` (`DataItems`), `ScreensItemsTrue` for the run. The provers do no induction over
data, so every recursive function has a lemma that some function solves its equation
and one that two solutions agree, by induction on a number or on the height of an item;
from these follows the equation itself (`FieldIs`, `DigitsAre`, `EncodeIs`, `SubstituteIs`,
`JsonIs`, `ReadIs`, `ChildrenIs`). `ItemInv`, the inductive invariant, only says where the item, the
bytes and the JSON of a state come from; the rest is about the operators:

* VBC: a number written anywhere in a string is the number read there (`WrittenIsRead`), and a field
  read is no shorter than the one that would be written for its value (`ReadIsWritten`). The
  limit of the recorder's integers and the longest field are kept apart (`Limit`).
* Big integers: minimal two's complement gives back the number (`NumberWritten`), and two
  minimal strings of one number are one string (`MinimalApart`): first by length, for the
  numbers of each length lie between two powers (`MinimalTakes`), then digit by digit. So
  `AmountAccepted`: what the recorder accepts is what the wallet would write.
* `WholeIs`: an encoded item is read back as that item. The induction is on its height. The
  children stand one behind the other (`JoinedOccur`), and the decoder's row for a container is
  followed from its end to its start (`ChildrenRead`). Hence encodings tell items apart
  (`EncodedApart`).
* `ReadIsItem`: whatever is read from any string is an item, its own encoding is no longer than the
  string, and the wallet, whose integers are not limited, reads the same. The induction goes from the
  last position of the string down, for what is read at one rests on what is read behind it;
  an item of height n takes at least 2n bytes, which bounds the heights (`Fits`).
* JSON: an item comes back from its form (`ItemsPosted`) while values are below
  2^`SafeBits`, which `SizesAssumption` asks of the wallet's items; beyond it `Number` rounds.
* Signatures: digests are unlike all else in an item, so substitution tells the leaves apart
  (`LeavesApart`), hence the containers of what it tells apart (`ApartMore`), hence all
  items of the run (`ItemsApart`). That SHA-256 is injective is how it is modelled.
  Substituting twice is substituting once (`SubstitutedTwice`), which is `DigestStands`.

### Model-checked only

* Everything about liveness: `EscrowSettles`, `HandOverHappens`, `Completes`, and the five properties of `Live`
  rest on fairness, which is out of the prover's reach.
* The properties that hold of no instance are in 3.4, each with its counterexample.

## 5. What is not modelled

Parts without a module:

* *Hot standby* (`ao-recorder/src/standby.rs`). For a block that carries its hash,
  `verify_synced_block` (lines 428-518) hashes `BLOCK_SIGNED` and compares the result with
  the hash of the whole `BLOCK`, so a standby refuses every block after genesis. A model
  faithful to this replicates nothing. Besides, the UTXO tables are not part of what is
  copied, a failed first sync is not tried again while the event stream is up, and
  chains created later are found only when that stream ends.
* *Federation, identity, the registry of agents*: lists of peers and signed documents
  without influence on a chain.
* *Host plumbing*: configuration, health, metrics, dashboard, MQTT, security headers.
  `CAPACITY_LIMIT` and `THROTTLE_THRESHOLD` are parsed and never enforced.
* *Signing and hashing*: a signature verifies exactly for its key and content, hashes do
  not collide.
* *Command line tool*, *economy of the simulations* (random choices and statistics; only the viewer
  has a protocol), *C++/Qt tools* beside `2026/` (superseded prototypes).
* Saved web pages under `docs/references` contain much JavaScript that is not part of the
  program. The program's core is in Rust.

Left out of the parts that have one:

* *Recorder.* Fees by page size (`TransferFee` has them for one assignment); expiry mode
  2, whose value declines before the cutoff; `create_chain` (lib.rs:841), which creates and
  writes a database before it finds that the chain is hosted already; the order of
  announcements over SSE when a submission also completes a recorder change
  (lib.rs:1275); separable items.
* *CAA.* Keys of recorders that a host learns at run time, kept in memory only
  (lib.rs:1952): the model takes keys as known. Completing a swap from a card of
  `EscrowView`: the counterparty signs with a fresh key and names UTXO 0, which no
  recorder accepts.
* *Exchange agent.* The trade history.
* *Validator.* Signatures of blocks; the validator's first block has height 0 and a hash
  of zeros. The auditor never advances its copy of `next_seq_id`, so it audits
  by the rules of a chain that is not live; `OwnerKeys` has it so.
* *Wallet core.* Encryption of seeds (walletDb.ts:54; the panel for a passphrase cannot be
  reached, App.tsx:46), the frames of a QR code (QrScanner.tsx:71), `sendSync` and
  `discoverUtxos`, which have no callers.
* *Wallet views.* Layout, text, the forms for chains and accounts; `SalesReport.tsx:5`
  imports a name that `walletDb.ts` does not export by itself.
* *Blob store.* Validation of MIME types and rules.

Hazards that are known but neither modelled nor listed: `shares_out` below zero when bonds
exceed what is left (fees.rs:39), the reward key's seed saved after its block
(lib.rs:1070; the model has the crash, no property is about it), the limit of
open escrows per key where keys are meant to be used once (store.rs:1043), and the
viewer's whole state in memory (sims/viewer/src/store.ts:83).

## 6. Next

1. Proofs of action and refinement properties of more parts: an abstract history that `TxHistory`
   implements.
2. Recorder keys as state of each host in `CaaExchange`, so that a hand-over which replaces
   them, and a restart that forgets them, is part of the exchange.
3. `Standby` as an implementation of a prefix of the primary's chain, once it accepts
   blocks.
4. Fees by page size in `Recorder`, expiry mode 2.
5. Encryption of seeds together with `WalletSync`: a change of the passphrase touches every row,
   one at a time.
