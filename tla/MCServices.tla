----------------------------- MODULE MCServices -----------------------------
(* One TLC run for four daemons beside the recorder's handlers: the owner    *)
(* keys a recorder keeps and a validator audits (OwnerKeys), the validator's *)
(* poll (Validator), the exchange agent (ExchangeAgent) and the recorder's   *)
(* blob store (BlobStore).  They share nothing, so a behaviour picks a part  *)
(* and moves that part alone: the state graph is the sum of the parts', not  *)
(* their product.                                                            *)
EXTENDS OwnerKeys

CONSTANTS
    \* ExchangeAgent's
    Markets, Amounts, Fee, Ttl, Sse, Faults, MaxTrades, MaxDeposits, MaxClock, MaxRestarts,
    MaxTroubles,    \* bounds the exchange: deposits and restarts together
    \* Validator's
    MaxHeight, MaxFails, MaxCrashes, Batch, Interval,
    \* BlobStore's
    Tenants, Blobs, NoRow, Size, Quota, Ruled, Retention, Cheap, Uploads, MaxTicks,
    MaxRequests

VARIABLES part,
    freeNow, freeLiveAt, freeRow, freeAudit, freeLast, freeRevokers,
    utxos, keys, trades, last, cycle, notice, clock, issued, deposits, restarts, asked, short,
    chain, altered, fails, crashes, db, anchors, anchorFile, auditor, conn, alarmed,
    phase, top, at, rolled, batch, done, auditFailed,
    file, temp, rows, upload, pruning, answered, pruned, refused, requests, ticks

\* OwnerKeys again: no key is given a lifetime, and overrides are recorded.
F == INSTANCE OwnerKeys WITH
        Lifetimes <- {}, Overrides <- TRUE,
        now <- freeNow, liveAt <- freeLiveAt, row <- freeRow, audit <- freeAudit,
        lastRevocation <- freeLast, revokers <- freeRevokers

\* The exchange agent between two chains, with the faults of its recorders.
X == INSTANCE ExchangeAgent WITH Chains <- Markets, MaxTime <- MaxClock, now <- clock

\* The validator of a chain whose recorder keeps its history; requests fail, it crashes.
V == INSTANCE Validator WITH MaxAlter <- 0, file <- anchorFile, audit <- auditor

\* Uploads that overlap, with crashes; what an error of the disk or a pruning leaves
\* behind is in README, 3.4.
B == INSTANCE BlobStore WITH
        Chains <- Tenants, Happenings <- {"crash"}, MaxTime <- MaxTicks, now <- ticks

ASSUME PartsConstants ==
    /\ X!ExchangeConstants /\ V!ValidatorAssumption /\ B!BlobConstants
    /\ MaxTroubles \in Nat

freeVars == <<freeNow, freeLiveAt, freeRow, freeAudit, freeLast, freeRevokers>>
exchangeVars == <<utxos, keys, trades, last, cycle, notice, clock, issued, deposits,
                  restarts, asked, short>>
validatorVars == <<chain, altered, fails, crashes, db, anchors, anchorFile, auditor, conn,
                   alarmed, phase, top, at, rolled, batch, done, auditFailed>>
blobVars == <<file, temp, rows, upload, pruning, answered, pruned, refused, requests, ticks>>

OwnerKeysStep ==
    part = "keys" /\ Next /\ UNCHANGED <<part, freeVars, exchangeVars, validatorVars, blobVars>>
FreeKeysStep ==
    part = "free keys" /\ F!Next /\ UNCHANGED <<part, vars, exchangeVars, validatorVars, blobVars>>
ExchangeStep ==
    /\ part = "exchange" /\ X!Next /\ deposits' + restarts' <= MaxTroubles
    /\ UNCHANGED <<part, vars, freeVars, validatorVars, blobVars>>
ValidatorStep ==
    part = "validator" /\ V!Next /\ UNCHANGED <<part, vars, freeVars, exchangeVars, blobVars>>
BlobStep ==
    part = "blobs" /\ B!Next /\ UNCHANGED <<part, vars, freeVars, exchangeVars, validatorVars>>

MCInit ==
    /\ part \in {"keys", "free keys", "exchange", "validator", "blobs"}
    /\ Init /\ F!Init /\ X!Init /\ V!Init /\ B!Init

MCNext == OwnerKeysStep \/ FreeKeysStep \/ ExchangeStep \/ ValidatorStep \/ BlobStep

MCSpec == MCInit /\ [][MCNext]_<<part, vars, freeVars, exchangeVars, validatorVars, blobVars>>

-----------------------------------------------------------------------------
\* For the cfg: one blob as large as the quota, the others smaller.
MCSize == [b \in Blobs |-> IF b \in Cheap THEN 1 ELSE Quota]

(* The properties of the parts; AuditAgrees is OwnerKeys'. *)

\* With overrides and without lifetimes a chain always has a valid owner key
\* (the checks of validate_revocation and validate_override).
AlwaysOwned == F!AlwaysAnOwner

\* A trade is paid out once at most, for a deposit to it, across repeated
\* deposits, lost answers and restarts (check_deposits, execute_trade).
PaidOnce == X!PaidOnce

\* What the validator has saved is one pass over the recorder's blocks, however
\* often a poll was cut short, and the anchor file rises and has every anchor of
\* the table (run_daemon).
HistoryKept == V!RolledIsHistory /\ V!AnchorsIncrease

\* No blob's file lacks its row and no chain exceeds its quota, however uploads
\* overlap and whenever the host dies (store).
BlobsAccounted == B!FilesAreOwned /\ B!QuotaKept
=============================================================================
