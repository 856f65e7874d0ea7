------------------------------ MODULE MCScreens -----------------------------
(* One TLC run for the wallet's views that read a chain: the history and the *)
(* sales report (TxHistory), the vendor's dashboard (VendorFeed), the        *)
(* cooperative's ledger (CoopNotes), the fee a transfer is shown with        *)
(* (TransferFee), the forms in which it is signed and posted (DataItems),    *)
(* and the viewer of the simulations (SimViewer).  They share nothing, so a  *)
(* behaviour picks a part and moves that part alone: the state graph is the  *)
(* sum of the parts', not their product.                                     *)
EXTENDS DataItems

CONSTANTS
    \* TxHistory's
    Keys, Reports, Late, Numbered, Switches, Batch, HistoryBlocks,
    \* VendorFeed's and CoopNotes'
    Chains, NoChain, MaxHeight,
    Notes, NoNote, Givers, LongNotes, BlockRange, Troubles, MaxBlocks,
    \* TransferFee's
    Builders, TotalLo, TotalHi, Sends, Shares, FeeNum, FeeDen, RewardNum, RewardDen,
    SeqId, ListingBytes, OtherBlocks, OtherFee,
    \* SimViewer's
    Agents, Cap, Drop, SnapshotLimit, UpdateLimit, Life, Happenings, MaxTrades, MaxLosses,
    Buffer

VARIABLES part,
    blocks, held, known, stored, cursor, view, selected, shown,
    height, pool, feed, poll, listed, owned, mounted, load, cards, monitor, counted,
    ledgers, spent, tab, chosen, pending, prepared, ledger, loads, form, confirms, queue,
    shares, order, info, amounts, rounds, fee, outcome, others,
    pausing, phase, reported, trades, next, conn, stream, losses, agents, list, paused,
    muted, toasts, lastSeen, told

\* Sales reports that overlap, while keys come late and the user changes chains; what
\* the history list and pages with two receipts leave out is in README, 3.4.
H == INSTANCE TxHistory WITH Histories <- {}, MaxOwn <- 1, MaxBlocks <- HistoryBlocks

\* The vendor's dashboard and monitor.
D == INSTANCE VendorFeed WITH wire <- feed

\* The cooperative's notes.
C == INSTANCE CoopNotes WITH
        Happenings <- Troubles, blocks <- ledgers, view <- tab, selected <- chosen

\* Totals around the place where an amount takes one byte more.
F == INSTANCE TransferFee

\* The feed of the simulations, whose page is never paused (README, 3.4).
S == INSTANCE SimViewer WITH held <- pausing, wire <- stream, shown <- agents

ASSUME PartsConstants ==
    /\ H!TxHistoryConstants /\ D!VendorFeedConstants /\ C!CoopConstants
    /\ F!FeeAssumption /\ S!SimViewerConstants
    /\ "pause" \notin Happenings

historyVars == <<blocks, held, known, stored, cursor, view, selected, shown>>
vendorVars == <<height, pool, feed, poll, listed, owned, mounted, load, cards, monitor, counted>>
coopVars == <<ledgers, spent, tab, chosen, pending, prepared, ledger, loads, form, confirms,
              queue>>
feeVars == <<shares, order, info, amounts, rounds, fee, outcome, others>>
simVars == <<pausing, phase, reported, trades, next, conn, stream, losses, agents, list,
             paused, muted, toasts, lastSeen, told>>

HistoryStep ==
    /\ part = "history" /\ H!Next
    /\ UNCHANGED <<part, vendorVars, coopVars, feeVars, vars, simVars>>
VendorStep ==
    /\ part = "vendor" /\ D!Next
    /\ UNCHANGED <<part, historyVars, coopVars, feeVars, vars, simVars>>
CoopStep ==
    /\ part = "coop" /\ C!Next
    /\ UNCHANGED <<part, historyVars, vendorVars, feeVars, vars, simVars>>
FeeStep ==
    /\ part = "fee" /\ F!Next
    /\ UNCHANGED <<part, historyVars, vendorVars, coopVars, vars, simVars>>
ItemStep ==
    /\ part = "items" /\ Next
    /\ UNCHANGED <<part, historyVars, vendorVars, coopVars, feeVars, simVars>>
SimStep ==
    /\ part = "sim" /\ S!Next
    /\ UNCHANGED <<part, historyVars, vendorVars, coopVars, feeVars, vars>>

\* A part that is not picked rests in one of its initial states.
MCInit ==
    /\ part \in {"history", "vendor", "coop", "fee", "items", "sim"}
    /\ H!Init /\ (part # "history" => held = {})
    /\ D!Init /\ (part # "vendor" => owned = {})
    /\ C!Init /\ (part # "coop" => chosen = CHOOSE c \in Chains : TRUE)
    /\ F!Init /\ (part # "fee" => <<shares, order>> = CHOOSE p \in Shares \X F!Orders : TRUE)
    /\ IF part = "items" THEN Init ELSE item = NotYet /\ wire = <<>> /\ json = NotYet
    /\ S!Init

MCNext == HistoryStep \/ VendorStep \/ CoopStep \/ FeeStep \/ ItemStep \/ SimStep

MCSpec ==
    MCInit /\ [][MCNext]_<<part, historyVars, vendorVars, coopVars, feeVars, vars, simVars>>

-----------------------------------------------------------------------------
(* The properties of the parts. *)

\* What the history lists is on the chain, and whatever the device could tell of
\* the blocks below the cursor is listed, however scans of two views overlap
\* (parseBlocks, saveTxRecords).
HistoryIsTrue == H!Sound /\ H!Complete

\* A stream is open for exactly those who show its chain, and the monitor says
\* of it what it is (SsePool's subscribe and its unsubscribe functions).
StreamsTrue == D!ListenersShow /\ D!MonitorAgrees

\* The ledger on screen is a prefix of the selected chain's, however loads
\* overtake each other (CooperativeView's cancelled flag).
LedgerIsPrefix == C!LedgerIsPrefix

\* Three rounds are enough to find an amount that fits its own fee, if there is
\* one (execute_transfer).
RoundsSuffice == F!RoundsSuffice

\* What is written in any form is read as it was written, and a signature is for
\* one item alone (encodeDataItem, toJson, substituteSeparable and their inverses).
ItemsTrue == FormsAgree /\ SigningCovers

\* The list of trades has no hole, across lost connections and limited messages
\* (ws_connection, addTransactions).
NoGap == S!NoGap
=============================================================================
