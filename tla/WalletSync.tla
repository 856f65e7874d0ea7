----------------------------- MODULE WalletSync -----------------------------
(***************************************************************************)
(* One wallet on several devices: the keys tables (walletDb.ts), validation*)
(* against the recorder, sync payloads built, carried as QR codes or files *)
(* and imported (walletSync.ts, WalletSync.tsx, WalletBackup.tsx).         *)
(*                                                                         *)
(* Every call of walletDb is one IndexedDB transaction; between two of them*)
(* other handlers of the device run.  A payload, once built, can be        *)
(* imported any number of times, in any order, by any device.  Keys bought *)
(* elsewhere enter as a payload that names their SEQ_IDs.  discoverUtxos   *)
(* is left out: nothing calls it.                                          *)
(***************************************************************************)
EXTENDS FiniteSets, Integers

CONSTANTS
    Devices, Keys,
    Issued,         \* keys of the payload the wallet starts from
    Runs,           \* validations of one device that may overlap
    Escrows,        \* CAAs lock and release UTXOs
    Outages,        \* getUtxo may fail
    NoKey,
    \* bound of the instance
    MaxPayloads

WalletSyncConstants ==
    /\ Issued \subseteq Keys /\ NoKey \notin Keys
    /\ Escrows \in BOOLEAN /\ Outages \in BOOLEAN
    /\ MaxPayloads \in Nat

VARIABLES
    ledger,         \* state of each key's UTXO at the recorder
    spender,        \* devices that spent a key
    rows,           \* keys table of each device
    payloads,       \* sync payloads and backups built so far
    importing,      \* what importSyncPayload has still to do on each device
    validating,     \* what each run of validateKeysOnChain has still to do
    spending,       \* key whose transfer a device has submitted
    alarmed         \* <<d, k>>: d warned that an unknown device spent k

vars == <<ledger, spender, rows, payloads, importing, validating, spending, alarmed>>

Absent == [status |-> "absent", seq |-> FALSE, synced |-> FALSE]
Row(status, seq, synced) == [status |-> status, seq |-> seq, synced |-> synced]
Statuses == {"absent", "unconfirmed", "unspent", "spent"}
UtxoStates == {"none", "unspent", "escrowed", "spent"}

Having(d, statuses) == {k \in Keys : rows[d][k].status \in statuses}
Unsynced(d) == {k \in Having(d, Statuses \ {"absent"}) : ~rows[d][k].synced}
WithSeq(d, ks) == {k \in ks : rows[d][k].seq}

\* An import or a validation: the keys still to do.
NoImport == [keys |-> {}, withSeq |-> {}, spent |-> {}]
NoRun == [todo |-> {}, key |-> NoKey, answer |-> "none"]

Init ==
    /\ ledger = [k \in Keys |-> IF k \in Issued THEN "unspent" ELSE "none"]
    /\ spender = [k \in Keys |-> {}]
    /\ rows = [d \in Devices |-> [k \in Keys |-> Absent]]
    /\ payloads = {[keys |-> Issued, withSeq |-> Issued, spent |-> {}]}
    /\ importing = [d \in Devices |-> NoImport]
    /\ validating = [d \in Devices |-> [r \in Runs |-> NoRun]]
    /\ spending = [d \in Devices |-> NoKey]
    /\ alarmed = {}

-----------------------------------------------------------------------------
(* Transfers and escrows, as far as the keys tables see them. *)

\* The recorder has accepted a transfer of k; its block is announced at once.
Submit(d, k) ==
    /\ spending[d] = NoKey /\ ledger[k] = "unspent"
    /\ k \in Having(d, {"unspent", "unconfirmed"})
    /\ ledger' = [ledger EXCEPT ![k] = "spent"]
    /\ spender' = [spender EXCEPT ![k] = {d}]
    /\ spending' = [spending EXCEPT ![d] = k]
    /\ UNCHANGED <<rows, payloads, importing, validating, alarmed>>

MarkedSpent(table, k) ==
    IF table[k].status = "unspent" THEN [table EXCEPT ![k].status = "spent"] ELSE table

\* markKeySpent, then the new key: no SEQ_ID is known yet.
Save(d, n) ==
    /\ spending[d] # NoKey
    /\ ledger[n] = "none" /\ \A e \in Devices : rows[e][n] = Absent
    /\ ledger' = [ledger EXCEPT ![n] = "unspent"]
    /\ rows' = [rows EXCEPT ![d] =
            [MarkedSpent(@, spending[d]) EXCEPT ![n] = Row("unconfirmed", FALSE, FALSE)]]
    /\ spending' = [spending EXCEPT ![d] = NoKey]
    /\ UNCHANGED <<spender, payloads, importing, validating, alarmed>>

Escrow(k) ==
    /\ Escrows /\ ledger[k] \in {"unspent", "escrowed"}
    /\ ledger' = [ledger EXCEPT ![k] = IF @ = "unspent" THEN "escrowed" ELSE "unspent"]
    /\ UNCHANGED <<spender, rows, payloads, importing, validating, spending, alarmed>>

-----------------------------------------------------------------------------
(* Export. *)

SyncPayload(d) ==
    LET ks == Unsynced(d) \ Having(d, {"spent"})
    IN  [keys |-> ks, withSeq |-> WithSeq(d, ks), spent |-> Unsynced(d) \cap Having(d, {"spent"})]

FullPayload(d) ==
    LET ks == Having(d, {"unspent", "unconfirmed"})
    IN  [keys |-> ks, withSeq |-> WithSeq(d, ks), spent |-> {}]

Build(p) ==
    /\ Cardinality(payloads \cup {p}) <= MaxPayloads
    /\ payloads' = payloads \cup {p}
    /\ UNCHANGED <<ledger, spender, rows, importing, validating, spending, alarmed>>

\* "Show Sync QR" is disabled while nothing is unsynced.
handleExport(d) == Unsynced(d) # {} /\ Build(SyncPayload(d))

handleExportFull(d) == Build(FullPayload(d))

\* Whatever the table holds at this moment, shown in a payload or not.
markAllSynced(d) ==
    /\ Unsynced(d) # {}
    /\ rows' = [rows EXCEPT ![d] =
            [k \in Keys |-> IF @[k].status = "absent" THEN @[k] ELSE [@[k] EXCEPT !.synced = TRUE]]]
    /\ UNCHANGED <<ledger, spender, payloads, importing, validating, spending, alarmed>>

-----------------------------------------------------------------------------
(* Import: one transaction per key, then one per spent mark. *)

ImportStart(d) ==
    /\ importing[d] = NoImport
    /\ \E p \in payloads : importing' = [importing EXCEPT ![d] = p]
    /\ UNCHANGED <<ledger, spender, rows, payloads, validating, spending, alarmed>>

\* A key that is there already is left as it is.
Imported(table, k, seq) ==
    IF table[k] # Absent THEN table
    ELSE [table EXCEPT ![k] = Row(IF seq THEN "unspent" ELSE "unconfirmed", seq, TRUE)]

ImportKey(d) ==
    \E k \in importing[d].keys :
        /\ rows' = [rows EXCEPT ![d] = Imported(@, k, k \in importing[d].withSeq)]
        /\ importing' = [importing EXCEPT ![d].keys = @ \ {k}, ![d].withSeq = @ \ {k}]
        /\ UNCHANGED <<ledger, spender, payloads, validating, spending, alarmed>>

ImportSpent(d) ==
    /\ importing[d].keys = {}
    /\ \E k \in importing[d].spent :
        /\ rows' = [rows EXCEPT ![d] = MarkedSpent(@, k)]
        /\ importing' = [importing EXCEPT ![d].spent = @ \ {k}]
    /\ UNCHANGED <<ledger, spender, payloads, validating, spending, alarmed>>

-----------------------------------------------------------------------------
(* Validation. *)

ValidatableUnsynced(d) ==       \* mutant: keys that came from elsewhere are passed
    WithSeq(d, Having(d, {"unspent"})) \cap Unsynced(d)
\* The keys are read once; unconfirmed ones and those without SEQ_ID are passed.
Validatable(d) == WithSeq(d, Having(d, {"unspent"}))

ValidateStart(d, r) ==
    /\ validating[d][r] = NoRun /\ Validatable(d) # {}
    /\ validating' = [validating EXCEPT ![d][r].todo = Validatable(d)]
    /\ UNCHANGED <<ledger, spender, rows, payloads, importing, spending, alarmed>>

GetUtxo(d, r) ==
    /\ validating[d][r].key = NoKey
    /\ \E k \in validating[d][r].todo :
        \E answer \in {ledger[k]} \cup (IF Outages THEN {"error"} ELSE {}) :
            validating' = [validating EXCEPT ![d][r].key = k, ![d][r].answer = answer,
                                             ![d][r].todo = @ \ {k}]
    /\ UNCHANGED <<ledger, spender, rows, payloads, importing, spending, alarmed>>

UpdatedRowStale(row, answer) ==     \* mutant: the row read at the start is written back
    [row EXCEPT !.status = IF answer \in {"unspent", "error"} THEN "unspent" ELSE "spent"]
\* updateKey changes the named fields of the present row.
UpdatedRow(row, answer) ==
    IF answer \in {"unspent", "error"} THEN row ELSE [row EXCEPT !.status = "spent"]

\* A row that was unspent has no spentBy, so the spender counts as unknown.
UpdateKey(d, r) ==
    LET run == validating[d][r] IN
    /\ run.key # NoKey
    /\ rows' = [rows EXCEPT ![d][run.key] = UpdatedRow(@, run.answer)]
    /\ alarmed' = IF run.answer \in {"escrowed", "spent"} THEN alarmed \cup {<<d, run.key>>}
                  ELSE alarmed
    /\ validating' = [validating EXCEPT ![d][r].key = NoKey, ![d][r].answer = "none"]
    /\ UNCHANGED <<ledger, spender, payloads, importing, spending>>

\* The page is closed: transfers, imports and validations stop half way.
Reload(d) ==
    /\ spending' = [spending EXCEPT ![d] = NoKey]
    /\ importing' = [importing EXCEPT ![d] = NoImport]
    /\ validating' = [validating EXCEPT ![d] = [r \in Runs |-> NoRun]]
    /\ UNCHANGED <<ledger, spender, rows, payloads, alarmed>>

Validate(d, r) == ValidateStart(d, r) \/ GetUtxo(d, r) \/ UpdateKey(d, r)

Next ==
    \/ \E d \in Devices, k \in Keys : Submit(d, k) \/ Save(d, k)
    \/ \E k \in Keys : Escrow(k)
    \/ \E d \in Devices :
        \/ handleExport(d) \/ handleExportFull(d) \/ markAllSynced(d)
        \/ ImportStart(d) \/ ImportKey(d) \/ ImportSpent(d) \/ Reload(d)
        \/ \E r \in Runs : Validate(d, r)

\* A chain is selected again, or blocks keep coming, and validation runs on.
Spec ==
    /\ Init /\ [][Next]_vars
    /\ \A d \in Devices, r \in Runs : WF_vars(Validate(d, r))

-----------------------------------------------------------------------------
(* Properties. *)

Payload == [keys : SUBSET Keys, withSeq : SUBSET Keys, spent : SUBSET Keys]

\* Types; and a row counts as unspent only with a SEQ_ID, without which no
\* validation would ever look at it.
TypeOK ==
    /\ ledger \in [Keys -> UtxoStates] /\ spender \in [Keys -> SUBSET Devices]
    /\ rows \in [Devices -> [Keys -> [status : Statuses, seq : BOOLEAN, synced : BOOLEAN]]]
    /\ \A d \in Devices, k \in Keys : rows[d][k].status = "unspent" => rows[d][k].seq
    /\ payloads \subseteq Payload /\ Cardinality(payloads) <= MaxPayloads
    /\ importing \in [Devices -> Payload]
    /\ validating \in [Devices -> [Runs -> [todo : SUBSET Keys, key : Keys \cup {NoKey},
                                            answer : UtxoStates \cup {"error"}]]]
    /\ spending \in [Devices -> Keys \cup {NoKey}]
    /\ alarmed \subseteq Devices \X Keys

\* A row that is spent stays spent, whatever older payload is imported again
\* and whatever validation was under way when it was marked.
SpentStays ==
    [][\A d \in Devices, k \in Keys :
        rows[d][k].status = "spent" => rows'[d][k].status = "spent"]_vars

\* A device that holds a spent key as unspent learns of it, also when the key
\* arrives with an old payload long after it was spent.
SpendIsLearnt ==
    (\A d \in Devices : <>[][~Reload(d)]_vars) =>
        \A d \in Devices, k \in Keys :
            (rows[d][k].status = "unspent" /\ ledger[k] = "spent")
                ~> (rows[d][k].status = "spent")

-----------------------------------------------------------------------------
(* What documents and comments say and the code does not keep for some     *)
(* values of the constants: README, 3.4.                                   *)

\* A row is marked spent only when the UTXO is spent, whoever says so.
SpentMarkIsTrue ==
    \A d \in Devices, k \in Keys : rows[d][k].status = "spent" => ledger[k] = "spent"

\* A key marked as synced has been in a payload.
SyncedWasExported ==
    \A d \in Devices, k \in Keys :
        rows[d][k].synced => \E p \in payloads : k \in p.keys

\* A spent key whose row counts as synced, so that no later sync payload has
\* it, was reported as spent by a payload.
SpendIsTold ==
    \A d \in Devices, k \in Keys :
        (rows[d][k].status = "spent" /\ rows[d][k].synced /\ d \in spender[k])
            => \E p \in payloads : k \in p.spent

\* No device warns of an unknown device because of its own transfer.
NoAlarmForOwn ==
    \A d \in Devices, k \in Keys : <<d, k>> \in alarmed => d \notin spender[k]
=============================================================================
