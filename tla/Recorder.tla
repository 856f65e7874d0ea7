------------------------------ MODULE Recorder ------------------------------
(***************************************************************************)
(* One chain as its recorder keeps it: the UTXO table, the outstanding     *)
(* share count, the CAA escrows and the recorder hand-over state, changed  *)
(* by the HTTP handlers of ao-recorder/src/lib.rs.  Every handler holds    *)
(* the chain's store mutex from its first read to its commit, so each one  *)
(* is a single action; what races is the wall clock, which a handler reads *)
(* BEFORE it waits for the mutex, and a crash between the two              *)
(* transactions of a handler that also completes a recorder change.        *)
(*                                                                         *)
(* The chain's data:                                                       *)
(*   utxo, usedKeys, escrow, releasedAt, refuted, rewardSeeds              *)
(*                                                 the SQLite tables       *)
(*   sharesOut, nextSeq, lastTs, rewardNum, frozen, pending, recorder      *)
(*                                                 the chain_meta rows     *)
(*   blockShares, recorded         what the blocks table says: SHARES_OUT  *)
(*                   of the newest block, blocks that hold each agreement  *)
(*   clock                                         the host's wall clock   *)
(***************************************************************************)
EXTENDS Integers, Sequences, FiniteSets, Functions

CONSTANTS
    Keys,               \* one-time public keys the receivers draw from
    RewardKeys,         \* one-time keys the recorder generates for its rewards
    IssuerKey,          \* key of the genesis UTXO
    Caas,               \* hashes of conditional assignment agreements
    Agreements,         \* hashes of assignments that carry a DEADLINE
    NoAgreement,        \* stands for an assignment without a DEADLINE
    AgreementDeadline,  \* the DEADLINE each agreement carries
    AgreementGivers,    \* the UTXOs each agreement spends
    GenesisRecorder,    \* recorder key set at genesis
    Successors,         \* recorder keys an owner may hand the chain to
    None,               \* no pending recorder change
    GenesisShares,      \* SHARES_OUT of the genesis block
    FeeNum, FeeDen,     \* fee rate times the page size, as a fraction
    RewardRates,        \* reward-rate numerators an owner may set (0: none)
    RewardDen,          \* reward-rate denominator
    ExpiryPeriod,       \* expiry_period of the chain, hard-cutoff mode
    MaxEscrow,          \* MAX_ESCROW_DURATION
    Cooldown,           \* ESCROW_COOLDOWN
    MaxActivePerGiver,  \* MAX_ACTIVE_ESCROWS_PER_GIVER
    MinBondNum, MinBondDen, \* MIN_BOND_FRACTION
    Bonds,              \* bond amounts coordinators offer
    \* bounds of the instance
    MaxSeq,             \* sequence ids that exist
    MaxTime,            \* last instant of the wall clock and of block time
    MaxLag,             \* longest wait between reading the clock and the lock
    MaxReceivers        \* receivers of one assignment

SeqIds == 1..MaxSeq
Times  == 0..MaxTime
Never  == -1
NoKey  == "no key"
Amounts == 1..GenesisShares
AllKeys == Keys \cup RewardKeys \cup {IssuerKey}
Recorders == Successors \cup {GenesisRecorder}

ASSUME ConstantsAssumption ==
    /\ MaxSeq \in Nat \ {0} /\ MaxTime \in Nat /\ MaxLag \in Nat
    /\ MaxReceivers \in Nat \ {0}
    /\ ExpiryPeriod \in Nat /\ MaxEscrow \in Nat /\ Cooldown \in Nat
    /\ MaxActivePerGiver \in Nat
    /\ GenesisShares \in Nat \ {0}
    /\ FeeNum \in Nat /\ FeeDen \in Nat \ {0}
    /\ RewardRates \subseteq Nat /\ RewardDen \in Nat \ {0}
    /\ MinBondNum \in Nat /\ MinBondDen \in Nat \ {0}
    /\ Bonds \subseteq Nat
    /\ AgreementDeadline \in [Agreements -> Nat]
    /\ AgreementGivers \in [Agreements -> SUBSET SeqIds]
    /\ NoAgreement \notin Agreements
    /\ None \notin Recorders
    /\ NoKey \notin AllKeys /\ IssuerKey \notin Keys \cup RewardKeys
    /\ Keys \cap RewardKeys = {}

VARIABLES
    utxo, usedKeys, escrow, releasedAt, refuted, rewardSeeds,
    sharesOut, nextSeq, lastTs, rewardNum, frozen, pending, recorder,
    blockShares, recorded,
    clock

tables == <<utxo, usedKeys, escrow, releasedAt, refuted, rewardSeeds>>
meta   == <<sharesOut, nextSeq, lastTs, rewardNum, frozen, pending, recorder>>
blocks == <<blockShares, recorded>>
vars   == <<tables, meta, blocks, clock>>

UtxoStatus == {"absent", "unspent", "spent", "expired", "escrowed"}
CaaStatus  == {"none", "escrowed", "finalized", "expired"}

Absent == [status |-> "absent", key |-> NoKey, amount |-> 0, ts |-> 0]
NoEscrow == [status |-> "none", deadline |-> 0, givers |-> {}, receivers |-> {},
             rewards |-> {}, bond |-> 0, by |-> GenesisRecorder]

-----------------------------------------------------------------------------
(* Amounts and fees.                                                       *)

TotalOf(table, S) == SumFunction([s \in S |-> table[s].amount])
KeysOf(rows) == {rows[i].key : i \in DOMAIN rows}

\* Exact ceiling, for a negative numerator too (BigInt division truncates).
CeilDiv(a, b) == -((-a) \div b)
RecordingFee(shares) == CeilDiv(FeeNum * shares, FeeDen)
ShareReward(give) == CeilDiv(give * rewardNum, RewardDen)

-----------------------------------------------------------------------------
(* Reading the tables.                                                     *)

ActiveInBinding(esc) == {h \in Caas : esc[h].status = "binding"}   \* mutant: wrong status
ActiveIn(esc) == {h \in Caas : esc[h].status = "escrowed"}
Active == ActiveIn(escrow)
Unspent == {s \in SeqIds : utxo[s].status = "unspent"}
ActiveOfGiver(k) == {h \in Active : \E s \in escrow[h].givers : utxo[s].key = k}

\* A block is stamped with the wall clock read before the lock was taken,
\* pushed past the previous block.
WallReads == {t \in Times : t <= clock /\ clock - t <= MaxLag}
BlockTs(wall) == IF wall > lastTs THEN wall ELSE lastTs + 1

SpendableUnchecked(G, ts) ==    \* mutant: the row exists, its status is not read
    G # {} /\ \A s \in G : utxo[s].status # "absent" /\ ts <= utxo[s].ts + ExpiryPeriod
Spendable(G, ts) ==
    /\ G # {}
    /\ \A s \in G : /\ utxo[s].status = "unspent"
                    /\ ts <= utxo[s].ts + ExpiryPeriod

\* Receiver lists: fresh keys, positive amounts that add up to total.  An
\* assignment names a key once; a CAA component is not checked for that.
Splits(total, n) ==
    {m \in [1..n -> Amounts] : SumFunction(m) = total}
ListsOfLength(n, total) ==
    {[i \in 1..n |-> [key |-> k[i], amount |-> m[i]]] :
         k \in [1..n -> Keys \ usedKeys], m \in Splits(total, n)}
CaaReceiverLists(total) == UNION {ListsOfLength(n, total) : n \in 1..MaxReceivers}
ReceiverLists(total) ==
    {rcv \in CaaReceiverLists(total) :
        \A i, j \in DOMAIN rcv : rcv[i].key = rcv[j].key => i = j}

\* A refutation voids an agreement once its DEADLINE has passed in block time.
RefusedByLastBlock(a, ts) == a \in refuted /\ lastTs > AgreementDeadline[a]    \* mutant
Refused(a, ts) == a \in refuted /\ ts > AgreementDeadline[a]

\* The recorder's own row: a freshly generated key holds the reward.
RewardRows(reward) ==
    IF reward = 0 THEN {<<>>}
    ELSE {<<[key |-> k, amount |-> m]>> :
              k \in RewardKeys \ usedKeys, m \in Amounts \cap {reward}}

-----------------------------------------------------------------------------
(* Writing the tables.                                                     *)

NewSeqs(rows) == nextSeq..(nextSeq + Len(rows) - 1)
SetStatus(table, S, st) ==
    [s \in SeqIds |-> IF s \in S THEN [table[s] EXCEPT !.status = st] ELSE table[s]]
InsertRows(table, rows, ts, st) ==
    [s \in SeqIds |->
        IF s \in NewSeqs(rows)
        THEN [status |-> st, key |-> rows[s - nextSeq + 1].key,
              amount |-> rows[s - nextSeq + 1].amount, ts |-> ts]
        ELSE table[s]]

ExpirableAny(ts) ==    \* mutant: escrowed rows expire too
    {s \in SeqIds : utxo[s].status \in {"unspent", "escrowed"} /\ utxo[s].ts < ts - ExpiryPeriod}
\* Hard-cutoff expiry: unspent rows only, escrowed ones are out of its reach.
Expirable(ts) == {s \in Unspent : utxo[s].ts < ts - ExpiryPeriod}

TimedOutAny(ts) == {h \in Caas : escrow[h].status # "none" /\ escrow[h].deadline < ts}   \* mutant
\* Escrow sweep: deadlines strictly in the past.
TimedOut(ts) == {h \in Active : escrow[h].deadline < ts}
ReleasedGivers(ts) == UNION {escrow[h].givers : h \in TimedOut(ts)}
DroppedReceivers(ts) == UNION {escrow[h].receivers : h \in TimedOut(ts)}
FeeRestoredInFull(ts) ==    \* mutant: the bond is given back
    SumFunction([h \in TimedOut(ts) |-> TotalOf(utxo, escrow[h].givers)
                                        - TotalOf(utxo, escrow[h].receivers)])
FeeRestored(ts) ==
    SumFunction([h \in TimedOut(ts) |-> TotalOf(utxo, escrow[h].givers)
                                        - TotalOf(utxo, escrow[h].receivers)
                                        - escrow[h].bond])

SweptUtxoKeepingReceivers(ts) ==    \* mutant: the receivers' rows are not deleted
    [s \in SeqIds |->
        IF s \in ReleasedGivers(ts) THEN [utxo[s] EXCEPT !.status = "unspent"]
        ELSE IF s \in Expirable(ts) THEN [utxo[s] EXCEPT !.status = "expired"]
        ELSE utxo[s]]
SweptUtxo(ts) ==
    [s \in SeqIds |->
        IF s \in DroppedReceivers(ts) THEN Absent
        ELSE IF s \in ReleasedGivers(ts) THEN [utxo[s] EXCEPT !.status = "unspent"]
        ELSE IF s \in Expirable(ts) THEN [utxo[s] EXCEPT !.status = "expired"]
        ELSE utxo[s]]
SweptKeysOfGivers(ts) ==    \* mutant: the givers' keys are forgotten too
    usedKeys \ {utxo[s].key : s \in DroppedReceivers(ts) \cup ReleasedGivers(ts)}
SweptKeys(ts) == usedKeys \ {utxo[s].key : s \in DroppedReceivers(ts)}
SweptEscrow(ts) ==
    [h \in Caas |-> IF h \in TimedOut(ts) THEN [escrow[h] EXCEPT !.status = "expired"]
                    ELSE escrow[h]]
SweptReleases(ts) ==
    [s \in SeqIds |-> IF s \in ReleasedGivers(ts) THEN ts ELSE releasedAt[s]]
SweptShares(ts) == sharesOut - TotalOf(utxo, Expirable(ts)) + FeeRestored(ts)

-----------------------------------------------------------------------------
(* The handlers.                                                           *)

Init ==
    /\ utxo = [s \in SeqIds |->
                 IF s = 1 THEN [status |-> "unspent", key |-> IssuerKey,
                                amount |-> GenesisShares, ts |-> 0]
                 ELSE Absent]
    /\ usedKeys = {IssuerKey}
    /\ escrow = [h \in Caas |-> NoEscrow]
    /\ releasedAt = [s \in SeqIds |-> Never]
    /\ refuted = {} /\ rewardSeeds = {}
    /\ sharesOut = GenesisShares /\ nextSeq = 2 /\ lastTs = 0
    /\ rewardNum \in RewardRates
    /\ frozen = FALSE /\ pending = None /\ recorder = GenesisRecorder
    /\ blockShares = GenesisShares
    /\ recorded = [a \in Agreements |-> 0]
    /\ clock = 0

AutoRecorderChangeTorn(pend, esc, base, last, crash) ==    \* mutant: cleared in the
    LET fires == pend # None /\ ActiveIn(esc) = {}             \* first transaction
    IN  /\ pending' = IF fires THEN None ELSE pend
        /\ recorder' = IF fires /\ ~crash THEN pend ELSE recorder
        /\ lastTs' = IF ~fires \/ crash THEN last ELSE IF base > last THEN base ELSE last + 1
AutoRecorderChangeAtOnce(pend, esc, base, last, crash) ==  \* mutant: open escrows ignored
    LET fires == pend # None /\ ~crash
    IN  /\ pending' = IF fires THEN None ELSE pend
        /\ recorder' = IF fires THEN pend ELSE recorder
        /\ lastTs' = IF ~fires THEN last ELSE IF base > last THEN base ELSE last + 1

\* The tail of every submission and of a bind: a pending recorder change with
\* no escrow left is completed in a transaction and a block of its own, which
\* a crash between the two transactions skips.
AutoRecorderChange(pend, esc, base, last, crash) ==
    LET fires == pend # None /\ ActiveIn(esc) = {} /\ ~crash
    IN  /\ pending' = IF fires THEN None ELSE pend
        /\ recorder' = IF fires THEN pend ELSE recorder
        /\ lastTs' = IF ~fires THEN last ELSE IF base > last THEN base ELSE last + 1

\* POST submit, AUTHORIZATION: validate, then one block that sweeps expired
\* shares and timed-out escrows before it applies the assignment.  The seed of
\* the reward key is saved after the block is committed.
SubmitAssignment(a, G, wall, crash) ==
    LET ts     == BlockTs(wall)
        give   == TotalOf(utxo, G)
        fee    == RecordingFee(sharesOut)
        reward == ShareReward(give)
    IN
    /\ ~frozen
    /\ a \in Agreements => G = AgreementGivers[a]
    /\ a \in Agreements => ~Refused(a, ts)
    /\ Spendable(G, ts)
    /\ \E rcv \in ReceiverLists(give - fee - reward), rew \in RewardRows(reward) :
        LET rows == rcv \o rew
        IN  /\ nextSeq + Len(rows) - 1 <= MaxSeq /\ ts < MaxTime
            /\ utxo' = InsertRows(SetStatus(SweptUtxo(ts), G, "spent"), rows, ts, "unspent")
            /\ usedKeys' = SweptKeys(ts) \cup KeysOf(rows)
            /\ nextSeq' = nextSeq + Len(rows)
            /\ \/ rewardSeeds' = rewardSeeds \cup (NewSeqs(rows) \ NewSeqs(rcv))
               \/ crash /\ UNCHANGED rewardSeeds
    /\ escrow' = SweptEscrow(ts)
    /\ releasedAt' = SweptReleases(ts)
    /\ sharesOut' = SweptShares(ts) - fee
    /\ blockShares' = sharesOut'
    /\ recorded' = [b \in Agreements |-> recorded[b] + (IF a = b THEN 1 ELSE 0)]
    /\ AutoRecorderChange(pending, escrow', ts, ts, crash)
    /\ UNCHANGED <<refuted, rewardNum, frozen, clock>>

\* POST caa/submit: givers are locked and the receivers' rows are created
\* escrowed; this block runs neither sweep.  A hash already in the table is
\* answered with the stored proof and changes nothing.
CaaSubmit(h, G, wall) ==
    LET ts     == BlockTs(wall)
        give   == TotalOf(utxo, G)
        fee    == RecordingFee(sharesOut)
        reward == ShareReward(give)
    IN
    /\ ~frozen /\ pending = None
    /\ escrow[h].status = "none"
    /\ Spendable(G, ts)
    /\ \A s \in G :
        /\ releasedAt[s] = Never \/ ts - releasedAt[s] >= Cooldown
        /\ Cardinality(ActiveOfGiver(utxo[s].key)) < MaxActivePerGiver
    /\ \E rcv \in CaaReceiverLists(give - fee - reward), rew \in RewardRows(reward),
          deadline \in Times, bond \in Bonds \cup {0}, isLast \in BOOLEAN :
        LET rows == rcv \o rew
        IN  /\ ts < deadline /\ deadline - ts <= MaxEscrow
            /\ IF isLast THEN bond = 0
               ELSE bond > 0 /\ bond >= (give * MinBondNum) \div MinBondDen /\ bond <= give
            /\ nextSeq + Len(rows) - 1 <= MaxSeq /\ ts < MaxTime
            /\ utxo' = InsertRows(SetStatus(utxo, G, "escrowed"), rows, ts, "escrowed")
            /\ usedKeys' = usedKeys \cup KeysOf(rows)
            /\ nextSeq' = nextSeq + Len(rows)
            /\ rewardSeeds' = rewardSeeds \cup (NewSeqs(rows) \ NewSeqs(rcv))
            /\ escrow' = [escrow EXCEPT ![h] =
                   [status |-> "escrowed", deadline |-> deadline, givers |-> G,
                    receivers |-> NewSeqs(rcv),
                    rewards |-> NewSeqs(rows) \ NewSeqs(rcv),
                    bond |-> bond, by |-> recorder]]
    /\ sharesOut' = sharesOut - fee
    /\ blockShares' = sharesOut'
    /\ lastTs' = ts
    /\ UNCHANGED <<releasedAt, refuted, rewardNum, frozen, pending, recorder, recorded, clock>>

\* POST caa/bind with every chain's proof: givers are spent, receivers become
\* spendable.  The time is the wall clock as read, no block is made, and the
\* frozen flag is not looked at.
CaaBind(h, wall, crash) ==
    /\ escrow[h].status = "escrowed"
    /\ wall < escrow[h].deadline
    /\ utxo' = SetStatus(SetStatus(utxo, escrow[h].givers, "spent"),
                         escrow[h].receivers, "unspent")
    /\ escrow' = [escrow EXCEPT ![h].status = "finalized"]
    /\ AutoRecorderChange(pending, escrow', wall, lastTs, crash)
    /\ blockShares' = IF lastTs' = lastTs THEN blockShares ELSE sharesOut
    /\ UNCHANGED <<usedKeys, releasedAt, refuted, rewardSeeds, sharesOut, nextSeq,
                   rewardNum, frozen, recorded, clock>>

\* POST refute: no frozen check, no block.
Refute(a) ==
    /\ a \notin refuted
    /\ refuted' = refuted \cup {a}
    /\ UNCHANGED <<utxo, usedKeys, escrow, releasedAt, rewardSeeds, meta, blocks, clock>>

\* POST submit, owner key or recorder URL items: a block that changes neither
\* UTXOs nor shares and runs no sweep.
SubmitAdmin(wall, crash) ==
    /\ ~frozen /\ BlockTs(wall) < MaxTime
    /\ blockShares' = sharesOut
    /\ AutoRecorderChange(pending, escrow, BlockTs(wall), BlockTs(wall), crash)
    /\ UNCHANGED <<tables, sharesOut, nextSeq, rewardNum, frozen, recorded, clock>>

\* POST submit, REWARD_RATE_CHANGE.
SubmitRewardRate(n, wall, crash) ==
    /\ ~frozen /\ BlockTs(wall) < MaxTime
    /\ rewardNum' = n
    /\ blockShares' = sharesOut
    /\ AutoRecorderChange(pending, escrow, BlockTs(wall), BlockTs(wall), crash)
    /\ UNCHANGED <<tables, sharesOut, nextSeq, frozen, recorded, clock>>

\* POST submit, RECORDER_CHANGE_PENDING; completed at once without escrows.
SubmitPending(r, wall, crash) ==
    /\ ~frozen /\ BlockTs(wall) < MaxTime
    /\ pending = None
    /\ blockShares' = sharesOut
    /\ AutoRecorderChange(r, escrow, BlockTs(wall), BlockTs(wall), crash)
    /\ UNCHANGED <<tables, sharesOut, nextSeq, rewardNum, frozen, recorded, clock>>

\* POST submit, RECORDER_CHANGE for the pending key.
SubmitRecorderChange(wall) ==
    /\ ~frozen /\ BlockTs(wall) < MaxTime
    /\ pending # None /\ Active = {}
    /\ recorder' = pending /\ pending' = None
    /\ lastTs' = BlockTs(wall)
    /\ blockShares' = sharesOut
    /\ UNCHANGED <<tables, sharesOut, nextSeq, rewardNum, frozen, recorded, clock>>

\* What a migration waits for: open escrows and a requested hand-over.
Migratable == ~frozen /\ Active = {} /\ pending = None

\* POST submit, CHAIN_MIGRATION: the final block.  Its SHARES_OUT is reduced by
\* the expiry sweep; the stored shares_out is not.
SubmitMigration(wall) ==
    LET ts == BlockTs(wall) IN
    /\ Migratable /\ ts < MaxTime
    /\ utxo' = SetStatus(utxo, Expirable(ts), "expired")
    /\ blockShares' = sharesOut - TotalOf(utxo, Expirable(ts))
    /\ frozen' = TRUE
    /\ lastTs' = ts
    /\ UNCHANGED <<usedKeys, escrow, releasedAt, refuted, rewardSeeds, sharesOut, nextSeq,
                   rewardNum, pending, recorder, recorded, clock>>

Tick == /\ clock < MaxTime
        /\ clock' = clock + 1
        /\ UNCHANGED <<tables, meta, blocks>>

Next ==
    \/ \E a \in Agreements \cup {NoAgreement}, G \in SUBSET SeqIds, w \in WallReads,
          crash \in BOOLEAN : SubmitAssignment(a, G, w, crash)
    \/ \E h \in Caas, G \in SUBSET SeqIds, w \in WallReads : CaaSubmit(h, G, w)
    \/ \E h \in Caas, w \in WallReads, crash \in BOOLEAN : CaaBind(h, w, crash)
    \/ \E a \in Agreements : Refute(a)
    \/ \E w \in WallReads, crash \in BOOLEAN :
          \/ SubmitAdmin(w, crash)
          \/ \E n \in RewardRates : SubmitRewardRate(n, w, crash)
          \/ \E r \in Successors : SubmitPending(r, w, crash)
    \/ \E w \in WallReads : SubmitRecorderChange(w) \/ SubmitMigration(w)
    \/ Tick

Spec == Init /\ [][Next]_vars

-----------------------------------------------------------------------------
(* Properties.                                                             *)

\* Every variable holds what its table or column can hold, and rows exist for
\* handed-out sequence ids only.
TypeOK ==
    /\ utxo \in [SeqIds -> [status : UtxoStatus, key : AllKeys \cup {NoKey},
                            amount : Nat, ts : Times]]
    /\ \A s \in SeqIds : s >= nextSeq => utxo[s] = Absent
    /\ usedKeys \subseteq AllKeys
    /\ escrow \in [Caas -> [status : CaaStatus, deadline : Times,
                            givers : SUBSET SeqIds, receivers : SUBSET SeqIds,
                            rewards : SUBSET SeqIds, bond : Nat, by : Recorders]]
    /\ releasedAt \in [SeqIds -> Times \cup {Never}]
    /\ refuted \subseteq Agreements /\ recorded \in [Agreements -> Nat]
    /\ rewardSeeds \subseteq SeqIds
    /\ nextSeq \in 2..MaxSeq + 1 /\ lastTs \in Times /\ clock \in Times
    /\ rewardNum \in RewardRates /\ frozen \in BOOLEAN
    /\ pending \in Successors \cup {None} /\ recorder \in Recorders

Held(h) == escrow[h].givers \cup escrow[h].receivers \cup escrow[h].rewards

\* The escrow table and the UTXO table agree although bind, the sweep inside a
\* block and a new submission each update them separately: what an active CAA
\* holds is escrowed, and no share is held by two active CAAs.
EscrowCoherence ==
    /\ \A h \in Active : \A s \in Held(h) : utxo[s].status = "escrowed"
    /\ \A h, k \in Active : h # k => Held(h) \cap Held(k) = {}
    /\ \A h \in Active : /\ escrow[h].givers # {} /\ escrow[h].receivers # {}
                         /\ escrow[h].givers \cap (escrow[h].receivers \cup escrow[h].rewards) = {}
                         /\ escrow[h].receivers \cap escrow[h].rewards = {}

\* Nothing is locked for good: an escrowed share belongs to an active CAA that
\* a bind or a timeout will still settle (AtomicExchange.md 3.4).
NoStrandedEscrow ==
    \A s \in SeqIds : utxo[s].status = "escrowed" =>
        \E h \in Active : s \in escrow[h].givers \cup escrow[h].receivers

\* Shares are conserved across partial fee restoration, sweeps and binds.  What
\* is spendable, or will be once an open CAA is bound, adds up to shares_out plus
\* the bonds that timed-out CAAs forfeited (a bond is taken from shares_out only),
\* short of the recorder's reward rows of CAAs: those stay locked whatever becomes
\* of the CAA, and shares_out goes on counting them.  The newest block, the
\* migration block included, says so; the stored shares_out agrees with it until
\* the chain is frozen.
ForfeitedBonds ==
    SumFunction([h \in {k \in Caas : escrow[k].status = "expired"} |-> escrow[h].bond])
Circulating == Unspent \cup UNION {escrow[h].receivers : h \in Active}
LockedRewards == UNION {escrow[h].rewards : h \in Caas}
SharesConserved ==
    /\ TotalOf(utxo, Circulating) + TotalOf(utxo, LockedRewards) = blockShares + ForfeitedBonds
    /\ ~frozen => sharesOut = blockShares

\* No handler makes shares out of nothing (EconomicRules.md 7.1, "new shares are
\* never created"), whatever the reward rate was when a CAA came in and is when
\* it ends: what could be spent if every open CAA timed out never grows.  An
\* assignment and a bind hand on at most what their givers held; a sweep hands
\* back and creates nothing.
GiversInEscrow == UNION {escrow[h].givers : h \in Active}
Redeemable == Unspent \cup GiversInEscrow
NothingMinted == [][TotalOf(utxo', Redeemable') <= TotalOf(utxo, Redeemable)]_vars

\* The key of a live UTXO is in used_keys, although a timeout removes keys from
\* that table again, so no later receiver can be given it: two live UTXOs share
\* a key only when one CAA component, which is not checked for repeated
\* receivers, created both.
LiveKeysUnique ==
    LET live == {s \in SeqIds : utxo[s].status \in {"unspent", "escrowed"}}
    IN  /\ \A s \in live : utxo[s].key \in usedKeys
        /\ \A s, r \in live : utxo[s].key = utxo[r].key /\ s # r =>
               \E h \in Caas : {s, r} \subseteq escrow[h].receivers

\* Every escrow that may still be bound was recorded by the recorder that is
\* still in office: a hand-over never cuts across an open exchange.
EscrowsOfIncumbent == \A h \in Active : escrow[h].by = recorder

\* A settled exchange stays settled: a finalized CAA never expires, an expired
\* one is never finalized, and neither is ever opened again.
SettledIsFinal ==
    [][\A h \in Caas : escrow[h].status \in {"finalized", "expired"} =>
           escrow'[h] = escrow[h]]_vars

\* A share leaves circulation once: spent, expired and dropped rows never come
\* back, and no row ever changes its key or amount.
GoneForGood ==
    [][\A s \in SeqIds :
          /\ utxo[s].status \in {"spent", "expired"} => utxo'[s] = utxo[s]
          /\ utxo[s].status = "absent" /\ s < nextSeq => utxo'[s] = utxo[s]
          /\ utxo[s].status # "absent" /\ utxo'[s].status # "absent" =>
                utxo'[s] = [utxo[s] EXCEPT !.status = utxo'[s].status]]_vars

\* The migration block is the last word: no later request, a bind included
\* (which does not look at the frozen flag), changes the chain's shares.
FrozenForGood ==
    [][frozen => UNCHANGED <<utxo, usedKeys, escrow, meta, blocks>>]_vars

\* A requested recorder change is neither lost nor overtaken by another one,
\* a crash between the two blocks of a submission included: it stays pending
\* until the recorder it names is in office.
PendingHonoured ==
    [][pending # None => \/ pending' = pending
                         \/ pending' = None /\ recorder' = pending]_vars

\* A refuted agreement whose deadline has passed in block time stays out of
\* the chain (EconomicRules.md 5).
RefutedStaysOut ==
    [][\A a \in refuted : lastTs >= AgreementDeadline[a] => recorded'[a] = recorded[a]]_vars

\* No agreement is recorded twice, although nothing looks the hash up: the
\* status of its givers has to rule it out.
RecordedOnce == \A a \in Agreements : recorded[a] <= 1

-----------------------------------------------------------------------------
(* What the documents, comments and assertions say and the code does not do. *)

\* EconomicRules.md 8, as AtomicExchange.md 5 claims for a released escrow:
\* shares_out is what is spendable or will become so.
SharesOutIsExact == ~frozen => TotalOf(utxo, Circulating) = sharesOut

\* EconomicRules.md 7.1: new shares are never created, so shares_out stays within
\* what was issued.  At a positive reward rate the sweep adds a reward to it that
\* was never taken from it (caa.rs:457).
WithinIssued == sharesOut <= GenesisShares

\* EconomicRules.md 5: once refuted, an agreement can never be recorded.
RefutedNeverRecorded ==
    [][\A a \in refuted : recorded'[a] = recorded[a]]_vars
=============================================================================
