------------------------------- MODULE MCLive -------------------------------
(* One TLC run for what must happen in the end: a wallet that learns of a    *)
(* spend (WalletSync), a message sent to a connected device (Relay), a card  *)
(* of a swap (EscrowCards), an expired blob (BlobStore) and a damaged block  *)
(* (Validator).  As in MCScreens a behaviour picks a part and moves that     *)
(* part alone, under the part's own fairness.                                *)
EXTENDS Integers

CONSTANTS NoKey, NoRow              \* WalletSync's, BlobStore's

VARIABLES part,
    ledger, spender, table, payloads, importing, validating, spending, alarmed,
    retained, handler, up, down, seq, seenSeqs, handled, storing, got, ignored, sent,
    connects, owed,
    escrow, deadline, cards, stored, run, open, submitting, dismissed, clock,
    file, temp, rows, upload, pruning, answered, pruned, refused, requests, now,
    chain, altered, fails, crashes, db, anchors, anchorFile, audit, conn, alarm, phase,
    top, at, rolled, batch, done, auditFailed

\* Two devices, a key from a payload and a bought one, validation that repeats.
W == INSTANCE WalletSync WITH
        Devices <- {"a", "b"}, Keys <- {"k1", "k2"}, Issued <- {"k1"}, Runs <- {"r1"},
        Escrows <- FALSE, Outages <- FALSE, MaxPayloads <- 1, rows <- table

\* Two devices and connections that break.
R == INSTANCE Relay WITH
        Devices <- {"a", "b"}, MaxRetained <- 2, Drops <- TRUE, Reloads <- {},
        Forgets <- FALSE, MaxMsgs <- 2, MaxConnects <- 2

\* A tab that is loaded again and left while two swaps are under way.
E == INSTANCE EscrowCards WITH
        Tabs <- {"t1"}, Swaps <- {"s1", "s2"}, Secs <- 1, Happenings <- {"reload", "leave"},
        MaxTime <- 2, now <- clock

\* Blobs of two sizes, two uploads at a time, pruning.
B == INSTANCE BlobStore WITH
        Chains <- {"c1"}, Blobs <- {"b1", "b2"}, Quota <- 4, Ruled <- {"c1"},
        Size <- [b \in {"b1", "b2"} |-> IF b = "b1" THEN 2 ELSE 1],
        Retention <- 1, Cheap <- {"b2"}, Happenings <- {"prune"}, Uploads <- {"u1", "u2"},
        MaxTime <- 3, MaxRequests <- 2

\* A history of two blocks, in batches of one, one damage, one failure.
V == INSTANCE Validator WITH
        MaxHeight <- 2, MaxAlter <- 1, MaxFails <- 1, MaxCrashes <- 0, Batch <- 1,
        Interval <- 9, file <- anchorFile, alarmed <- alarm

ASSUME PartsConstants ==
    /\ W!WalletSyncConstants /\ R!RelayConstants /\ E!CardConstants
    /\ B!BlobConstants /\ V!ValidatorAssumption

walletVars == <<ledger, spender, table, payloads, importing, validating, spending, alarmed>>
relayVars == <<retained, handler, up, down, seq, seenSeqs, handled, storing, got, ignored,
               sent, connects, owed>>
cardVars == <<escrow, deadline, cards, stored, run, open, submitting, dismissed, clock>>
blobVars == <<file, temp, rows, upload, pruning, answered, pruned, refused, requests, now>>
validatorVars == <<chain, altered, fails, crashes, db, anchors, anchorFile, audit, conn,
                   alarm, phase, top, at, rolled, batch, done, auditFailed>>
mcVars == <<part, walletVars, relayVars, cardVars, blobVars, validatorVars>>

InWallet(A) ==
    part = "wallet" /\ A /\ UNCHANGED <<part, relayVars, cardVars, blobVars, validatorVars>>
InRelay(A) ==
    part = "relay" /\ A /\ UNCHANGED <<part, walletVars, cardVars, blobVars, validatorVars>>
InCards(A) ==
    part = "cards" /\ A /\ UNCHANGED <<part, walletVars, relayVars, blobVars, validatorVars>>
InBlobs(A) ==
    part = "blobs" /\ A /\ UNCHANGED <<part, walletVars, relayVars, cardVars, validatorVars>>
InValidator(A) ==
    part = "validator" /\ A /\ UNCHANGED <<part, walletVars, relayVars, cardVars, blobVars>>

MCInit ==
    /\ part \in {"wallet", "relay", "cards", "blobs", "validator"}
    /\ W!Init /\ R!Init /\ E!Init /\ B!Init /\ V!Init

MCNext == \/ InWallet(W!Next) \/ InRelay(R!Next) \/ InCards(E!Next)
          \/ InBlobs(B!Next) \/ InValidator(V!Next)

\* Each part's own fairness.  A behaviour moves one part only, so conditions of
\* different parts are conditions on different behaviours and share a WF or SF.
\*   wallet: every device's validation goes on; relay: handlers and event loops
\*   do; cards: time passes, the user comes back to the view, and a timer of a
\*   view that is shown again and again fires; blobs: the clock and the pruning
\*   loop go on; validator: the poll loop does.
MCSpec ==
    /\ MCInit /\ [][MCNext]_mcVars
    /\ WF_mcVars(\/ InWallet(W!Validate("a", "r1")) \/ InRelay(R!Serve("a"))
                 \/ InCards(E!Tick) \/ InBlobs(B!Tick) \/ InValidator(V!Step))
    /\ WF_mcVars(\/ InWallet(W!Validate("b", "r1")) \/ InRelay(R!Serve("b"))
                 \/ InCards(E!Open("t1"))
                 \/ InBlobs(B!PruneStart \/ \E b \in {"b1", "b2"} : B!Prune(b)))
    /\ WF_mcVars(InRelay(R!Receive("a"))) /\ WF_mcVars(InRelay(R!Receive("b")))
    /\ \A s \in {"s1", "s2"} : SF_mcVars(InCards(E!Countdown("t1", s)))

-----------------------------------------------------------------------------
(* The properties of the parts. *)

\* A device that holds a spent key as unspent learns of it in the end, unless its
\* page is loaded again and again (validateKeysOnChain).
SpendIsLearnt == W!SpendIsLearnt

\* A message sent while another device is connected is imported there, unless the
\* connection breaks first (handle_socket, handleMessage).
LiveDelivery == R!LiveDelivery

\* No card of a swap stays 'submitting', not even when the page that proposed it
\* is gone (the countdown of EscrowCard).
CardSettles == E!CardSettles

\* Every expired blob is removed (prune).
ExpiredGo == B!ExpiredGo

\* A block damaged before the validator fetched it ends in the status "alert",
\* unless it is put right again (verify_block_batch, run_daemon).
DamageFound == V!DamageFound
=============================================================================
