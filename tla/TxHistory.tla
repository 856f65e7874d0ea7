----------------------------- MODULE TxHistory -----------------------------
(***************************************************************************)
(* The wallet's cached history of a chain: the history list and the sales  *)
(* report each scan blocks from a shared cursor, keep what concerns the    *)
(* wallet's keys in IndexedDB and show it (ao-pwa: core/txHistory.ts,      *)
(* core/salesReport.ts, TransactionHistory.tsx, SalesReport.tsx).          *)
(*                                                                         *)
(* Every element of Keys is the wallet's own and is paid once, so a key    *)
(* stands for its UTXO, its sequence number and its amount.  A block holds *)
(* one page; receivers outside the wallet are left out, and so are dates,  *)
(* counterparties, blobs and the CSV files.                                *)
(***************************************************************************)
EXTENDS Integers, Sequences, FiniteSets, FiniteSetsExt

CONSTANTS
    Keys,           \* keys of the wallet, on this device or another
    Histories,      \* scans of the history list: a view that is opened anew
    Reports,        \* scans of the sales report.  may scan beside its old self
    Late,           \* do keys reach this device after the blocks that pay
                    \* them (change, paired devices)?
    Numbered,       \* keys that come with their sequence number: only a
                    \* payload written elsewhere has one, for discoverUtxos,
                    \* which would note it, is not called
    Switches,       \* does the user select another chain meanwhile?
    MaxOwn,         \* receivers of the wallet in one page
    Batch,          \* blocks asked for at a time: 100
    \* bounds of the instance
    MaxBlocks

TxHistoryConstants ==
    /\ IsFiniteSet(Keys) /\ Histories \cap Reports = {}
    /\ Numbered \subseteq Keys
    /\ Late \in BOOLEAN /\ Switches \in BOOLEAN
    /\ MaxOwn \in Nat \ {0} /\ Batch \in Nat \ {0} /\ MaxBlocks \in Nat

VARIABLES
    blocks,         \* of the chain after its genesis, with what this device
                    \* held and knew when each was recorded
    held,           \* keys in the keys table
    known,          \* those whose row has a sequence number
    stored,         \* the transactions table
    cursor,         \* lastScannedHeight
    view,           \* each scan
    selected,       \* is this chain the selected one?
    shown           \* records each view shows

wallet == <<held, known>>
cache == <<stored, cursor>>
vars == <<blocks, wallet, cache, view, selected, shown>>

Views == Histories \cup Reports
Height == Len(blocks)
Paid == UNION {blocks[h].receivers : h \in DOMAIN blocks}
Spent == UNION {blocks[h].givers : h \in DOMAIN blocks}

\* A record's keys are the givers of a sent one, the receiver of a received one.
Records == [height : Nat, direction : {"sent", "received"}, keys : SUBSET Keys]
Steps == {"idle", "keys", "info", "cursor", "fetch", "save"}
Quiet == [step |-> "idle", held |-> {}, known |-> {}, to |-> 0, from |-> 0, new |-> {}]

Init ==
    /\ blocks = <<>>
    /\ held \in (IF Late THEN SUBSET Keys ELSE {Keys}) /\ known = {}
    /\ stored = {} /\ cursor = 0
    /\ view = [v \in Views |-> Quiet]
    /\ selected = TRUE
    /\ shown = [v \in Views |-> {}]

----------------------------------------------------------------------------
\* The chain and the keys table

\* A stranger pays the wallet, or someone else (no givers, no receivers), or
\* one of its devices spends; its change key is saved after the answer.
Record(givers, receivers) ==
    /\ Height < MaxBlocks
    /\ givers \subseteq Paid \ Spent
    /\ receivers \cap Paid = {} /\ Cardinality(receivers) <= MaxOwn
    /\ Late \/ receivers \subseteq held
    /\ blocks' = Append(blocks, [givers |-> givers, receivers |-> receivers,
                                 held |-> held, known |-> known])
    /\ UNCHANGED <<wallet, cache, view, selected, shown>>

\* A key is generated, or saved once its transfer is recorded, or received
\* from another device; one that is there already is left as it is.
importKeyIfNew(k) ==
    /\ k \notin held
    /\ held' = held \cup {k}
    /\ known' = IF k \in Numbered \cap Paid THEN known \cup {k} ELSE known
    /\ UNCHANGED <<blocks, cache, view, selected, shown>>

----------------------------------------------------------------------------
\* Scans

\* What one block holds for the keys a scan has read
Parsed(s, block, height) ==
    {r \in {[height |-> height, direction |-> "sent", keys |-> block.givers \cap s.known]} : r.keys # {}}
    \cup {[height |-> height, direction |-> "received", keys |-> {k}] : k \in block.receivers \cap s.held}

\* The recorder serves both ends of a range.
parseBlocks(s, to) == UNION {Parsed(s, blocks[h], h) : h \in (s.from..to) \cap DOMAIN blocks}

Step(v, s) == view' = [view EXCEPT ![v] = s]

Shows(v, records) == shown' = [shown EXCEPT ![v] = records]

\* The user asks for a scan: the history list reads the keys first.
Start(v) ==
    /\ selected /\ view[v].step = "idle"
    /\ Step(v, IF v \in Histories THEN [Quiet EXCEPT !.step = "info", !.held = held, !.known = known]
               ELSE [Quiet EXCEPT !.step = "info"])
    /\ UNCHANGED <<blocks, wallet, cache, selected, shown>>

ReadHeight(v) ==
    /\ view[v].step = "info"
    /\ Step(v, [view[v] EXCEPT !.step = "cursor", !.to = Height])
    /\ UNCHANGED <<blocks, wallet, cache, selected, shown>>

Behind(last, height) == last < height

ReadCursor(v) ==
    /\ view[v].step = "cursor"
    /\ IF Behind(cursor, view[v].to)
       THEN /\ Step(v, [view[v] EXCEPT !.step = IF v \in Histories THEN "fetch" ELSE "keys",
                                       !.from = cursor])
            /\ UNCHANGED shown
       ELSE Step(v, Quiet) /\ Shows(v, stored)
    /\ UNCHANGED <<blocks, wallet, cache, selected>>

\* The sales report reads the keys after the height.
ReadKeys(v) ==
    /\ view[v].step = "keys"
    /\ Step(v, [view[v] EXCEPT !.step = "fetch", !.held = held, !.known = known])
    /\ UNCHANGED <<blocks, wallet, cache, selected, shown>>

Fetch(v) ==
    LET s == view[v]
        to == Min({s.from + Batch, s.to})
    IN /\ s.step = "fetch"
       /\ Step(v, [s EXCEPT !.new = @ \cup parseBlocks(s, to),
                            !.from = @ + Batch,
                            !.step = IF s.from + Batch < s.to THEN "fetch" ELSE "save"])
       /\ UNCHANGED <<blocks, wallet, cache, selected, shown>>

\* The recorder does not answer: what was fetched is dropped.
Fail(v) ==
    /\ view[v].step \in {"info", "fetch"}
    /\ Step(v, Quiet)
    /\ UNCHANGED <<blocks, wallet, cache, selected, shown>>

SameKey(r, q) == r.height = q.height /\ r.direction = q.direction

\* The table's key is height, page and direction: of several new records with
\* one key the last put stays, and it replaces an older one.
Put(new) ==
    \E last \in SUBSET new :
        /\ \A r \in new : \E q \in last : SameKey(q, r)
        /\ \A q, r \in last : SameKey(q, r) => q = r
        /\ stored' = {r \in stored : \A q \in new : ~SameKey(q, r)} \cup last

\* saveTxRecords: records and cursor in one transaction
Saves(v) == v \in Reports \/ view[v].new # {}
\* mutant: the cursor is set to the height of the moment
SavedNow(v) == Height
Saved(v) == view[v].to

Save(v) ==
    /\ view[v].step = "save"
    /\ IF Saves(v) THEN Put(view[v].new) /\ cursor' = Saved(v) ELSE UNCHANGED cache
    /\ Shows(v, stored')
    /\ Step(v, Quiet)
    /\ UNCHANGED <<blocks, wallet, selected>>

\* Another chain is selected, which has no records, or this one again.
Select ==
    /\ Switches
    /\ selected' = ~selected
    /\ shown' = [v \in Views |-> IF selected' THEN stored ELSE {}]
    /\ UNCHANGED <<blocks, wallet, cache, view>>

Scan(v) == Start(v) \/ ReadHeight(v) \/ ReadCursor(v) \/ ReadKeys(v) \/ Fetch(v) \/ Save(v)

Next ==
    \/ \E givers, receivers \in SUBSET Keys : Record(givers, receivers)
    \/ \E k \in Keys : importKeyIfNew(k)
    \/ \E v \in Views : Scan(v) \/ Fail(v)
    \/ Select

Spec == Init /\ [][Next]_vars

----------------------------------------------------------------------------
\* aggregateSales counts the records of payments received.
aggregateSales(records) == {r \in records : r.direction = "received"}

TypeOK ==
    /\ \A h \in DOMAIN blocks : blocks[h] \in
           [givers : SUBSET Keys, receivers : SUBSET Keys, held : SUBSET Keys, known : SUBSET Keys]
    /\ held \subseteq Keys /\ known \subseteq held \cap Paid
    /\ stored \subseteq Records /\ cursor \in 0..Height
    /\ \A v \in Views : view[v] \in [step : Steps, held : SUBSET Keys, known : SUBSET Keys,
                                     to : 0..MaxBlocks, from : Nat, new : SUBSET Records]
    /\ selected \in BOOLEAN /\ shown \in [Views -> SUBSET Records]

\* Below the cursor nothing is missing that this device could tell when the
\* block was recorded: later scans start at the cursor, so what is missing
\* there stays missing (txHistory.ts:316).
Complete ==
    \A h \in 1..cursor :
        /\ \A k \in blocks[h].receivers \cap blocks[h].held :
               [height |-> h, direction |-> "received", keys |-> {k}] \in stored
        /\ LET mine == blocks[h].givers \cap blocks[h].known
           IN mine = {} \/ \E r \in stored : /\ r.height = h /\ r.direction = "sent"
                                            /\ mine \subseteq r.keys

\* Two scans that overlap, an old one ending last, never leave a record that
\* the chain does not bear out: it is at its height, of its direction, and of
\* keys that gave or received there (parseBlocks, saveTxRecords).
Sound ==
    \A r \in stored :
        /\ r.height \in DOMAIN blocks /\ r.keys # {}
        /\ r.keys \subseteq IF r.direction = "sent" THEN blocks[r.height].givers
                            ELSE blocks[r.height].receivers

----------------------------------------------------------------------------
(* What documents and comments say and the code does not keep for some     *)
(* values of the constants: README, 3.4.                                   *)

\* Every receipt of a key that the device holds is in the table once its
\* block is below the cursor, whenever the key arrived.
HeldKeysComplete ==
    \A h \in 1..cursor : \A k \in blocks[h].receivers \cap held :
        [height |-> h, direction |-> "received", keys |-> {k}] \in stored

\* A spend of a key that the device holds is in the table below the cursor.
SpendsListed ==
    \A h \in 1..cursor : blocks[h].givers \cap held # {} =>
        \E r \in stored : r.height = h /\ r.direction = "sent"

\* A sale is a payment from someone else (salesReport.ts:19).
SalesAreIncoming ==
    \A v \in Reports : \A r \in aggregateSales(shown[v]) : blocks[r.height].givers = {}

\* A view shows records of the selected chain.
ShownIsSelected == selected \/ \A v \in Views : shown[v] = {}
=============================================================================
