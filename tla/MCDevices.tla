----------------------------- MODULE MCDevices ------------------------------
(* One TLC run for the four parts that keep the devices of a wallet in       *)
(* step: pairing (Pairing), the relay between paired devices (Relay), the    *)
(* keys they exchange (WalletSync) and the transfers of one of them          *)
(* (Transfer).  They meet in data only (a relay key, a payload, a key), so   *)
(* a behaviour picks a part and moves that part alone: the state graph is    *)
(* the sum of the parts', not their product.                                 *)
EXTENDS Pairing

CONSTANTS
    \* Relay's
    Clients, MaxRetained, Drops, Reloads, Forgets, MaxMsgs, MaxConnects,
    \* WalletSync's
    Wallets, WalletKeys, Issued, Runs, Escrows, Outages, MaxPayloads,
    \* Transfer's: Losses may happen to T, Choices to K
    Keys, Funded, TwoFunded, Flushers, Losses, Choices, MaxBuilds,
    NoSeed          \* no key, of both

VARIABLES part,
    retained, handler, up, down, seq, seenSeqs, handled, storing, got, ignored,
    sent, connects, owed,
    ledger, spender, rows, payloads, importing, validating, spending, alarmed,
    chain, recorded, overdue, table, queue, active, scanning, selected, prepared,
    confirm, flush, wire, online, built

\* The push sync of a wallet's devices.
R == INSTANCE Relay WITH Devices <- Clients

\* The keys tables of a wallet's devices.
W == INSTANCE WalletSync WITH Devices <- Wallets, Keys <- WalletKeys, NoKey <- NoSeed

\* Transfers of one device.
T == INSTANCE Transfer WITH NoKey <- NoSeed, Happenings <- Losses, rows <- table, pending <- prepared

\* The same with the user's other ways to the keys, while nothing gets lost: the
\* keys of a page that dies between the answer and saveKey are (README, 3.4).
K == INSTANCE Transfer WITH
        Funded <- TwoFunded, NoKey <- NoSeed, Happenings <- Choices, rows <- table, pending <- prepared

ASSUME PartsConstants ==
    /\ R!RelayConstants /\ W!WalletSyncConstants
    /\ T!TransferConstants /\ K!TransferConstants
    /\ Choices \cap {"lost", "reload"} = {}

relayVars == <<retained, handler, up, down, seq, seenSeqs, handled, storing, got,
               ignored, sent, connects, owed>>
walletVars == <<ledger, spender, rows, payloads, importing, validating, spending, alarmed>>
transferVars == <<chain, recorded, overdue, table, queue, active, scanning, selected,
                  prepared, confirm, flush, wire, online, built>>

PairingStep == part = "pairing" /\ Next /\ UNCHANGED <<part, relayVars, walletVars, transferVars>>
RelayStep == part = "relay" /\ R!Next /\ UNCHANGED <<part, vars, walletVars, transferVars>>
KeysStep == part = "keys" /\ K!Next /\ UNCHANGED <<part, vars, relayVars, walletVars>>
WalletStep == part = "wallet" /\ W!Next /\ UNCHANGED <<part, vars, relayVars, transferVars>>
TransferStep == part = "transfer" /\ T!Next /\ UNCHANGED <<part, vars, relayVars, walletVars>>

MCInit ==
    /\ part \in {"pairing", "relay", "wallet", "transfer", "keys"}
    /\ Init /\ R!Init /\ W!Init
    /\ IF part = "keys" THEN K!Init ELSE T!Init

MCNext == PairingStep \/ RelayStep \/ WalletStep \/ TransferStep \/ KeysStep

MCSpec == MCInit /\ [][MCNext]_<<part, vars, relayVars, walletVars, transferVars>>

-----------------------------------------------------------------------------
(* The properties of the parts; KeyOfTwo is Pairing's. *)

\* A client of the relay handles a message once at most and a sender's messages
\* in order, although each is broadcast and retained (handle_socket, seenSeqs).
HandledOnceInOrder == R!HandledOnceInOrder

\* A key marked spent stays so, whatever older payload is imported and whatever
\* validation was under way (importSyncPayload, validateKeysOnChain).
SpentStays == W!SpentStays

\* What the queue calls submitted is in a block, whatever flushes overlap and
\* whenever the page dies (flushPending).
SubmittedIsRecorded == T!SubmittedIsRecorded

\* The seed of every own key that a recorded transfer pays is stored, or about
\* to be (handleConfirm), as long as no answer is lost.
NewKeysStored == part = "keys" => K!NewKeysStored
=============================================================================
