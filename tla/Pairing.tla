------------------------------ MODULE Pairing -------------------------------
(***************************************************************************)
(* Pairing of devices by QR codes (PairedDevices.tsx, pairing.ts), the     *)
(* peers table (walletDb.ts) and the relay channel the app opens for them  *)
(* (App.tsx).  A device is its deviceId, by which the table is sorted; an  *)
(* X25519 pair is the number of its generation; the key both sides derive  *)
(* from two pairs is the set of the two.                                   *)
(***************************************************************************)
EXTENDS Naturals, FiniteSets

CONSTANTS
    Devices,
    Guided,         \* the guide's ceremony: one code at a time, and it is finished
    \* bound of the instance
    MaxPairs

ASSUME PairingConstants == Devices \subseteq Nat /\ Guided \in BOOLEAN /\ MaxPairs \in Nat

VARIABLES
    peers,          \* the peers table: relayKey by deviceId
    mode, pending,  \* PairedDevices: mode and pendingPrivateKey
    pairQr, ackQr,  \* the pair on the code shown: pairQr, confirmQr
    channel,        \* relayKeyHex of the RelayClient in relayRef
    generated,      \* pairs generated so far
    loaded          \* the table has not changed since the app read it

panel == <<mode, pending, pairQr, ackQr>>
vars == <<peers, panel, channel, generated, loaded>>

Modes == {"list", "initiate", "scan", "confirm"}
None == 0           \* of a pair
NoKey == {}
RelayKeyOfOther(own, pub) == {pub}      \* mutant: the other's half is taken for the secret
RelayKey(own, pub) == {own, pub}

Init ==
    /\ peers = [d \in Devices |-> [e \in Devices |-> NoKey]]
    /\ mode = [d \in Devices |-> "list"]
    /\ pending = [d \in Devices |-> None]
    /\ pairQr = [d \in Devices |-> None] /\ ackQr = [d \in Devices |-> None]
    /\ channel = [d \in Devices |-> NoKey]
    /\ generated = 0
    /\ loaded = [d \in Devices |-> TRUE]

Peers(d) == {e \in Devices : peers[d][e] # NoKey}

\* Nobody else is in a ceremony.
Alone(d) == \A e \in Devices \ {d} : mode[e] = "list" /\ pending[e] = None

\* Add Device.  A key from an earlier attempt is replaced.
handleInitiate(d) ==
    /\ mode[d] = "list" /\ generated < MaxPairs
    /\ Guided => Alone(d) /\ pending[d] = None
    /\ generated' = generated + 1
    /\ pending' = [pending EXCEPT ![d] = generated + 1]
    /\ pairQr' = [pairQr EXCEPT ![d] = generated + 1]
    /\ mode' = [mode EXCEPT ![d] = "initiate"]
    /\ UNCHANGED <<peers, ackQr, channel, loaded>>

Cancel(d) ==
    /\ mode[d] = "initiate" /\ (Guided => \A e \in Devices : mode[e] # "confirm")
    /\ mode' = [mode EXCEPT ![d] = "list"]
    /\ pairQr' = [pairQr EXCEPT ![d] = None] /\ pending' = [pending EXCEPT ![d] = None]
    /\ UNCHANGED <<peers, ackQr, channel, generated, loaded>>

\* Scan Pair Code, Scan Confirmation QR.
OpenScanner(d) ==
    /\ mode[d] \in {"list", "initiate"}
    /\ mode' = [mode EXCEPT ![d] = "scan"]
    /\ UNCHANGED <<peers, pending, pairQr, ackQr, channel, generated, loaded>>

CloseScanner(d) ==
    /\ mode[d] = "scan"
    /\ mode' = [mode EXCEPT ![d] = "list"]
    /\ UNCHANGED <<peers, pending, pairQr, ackQr, channel, generated, loaded>>

AddedPeer(d, e, key) == [peers EXCEPT ![d][e] = key]

\* The pair whose public half the other device puts into its code or answer.
ScanPair(d, e) ==
    /\ d # e /\ mode[d] = "scan" /\ generated < MaxPairs
    /\ mode[e] = "initiate" /\ pairQr[e] # None
    /\ Guided => pending[d] = None /\ \A f \in Devices : mode[f] # "confirm"
    /\ generated' = generated + 1
    /\ peers' = AddedPeer(d, e, RelayKey(generated + 1, pairQr[e]))
    /\ ackQr' = [ackQr EXCEPT ![d] = generated + 1]
    /\ mode' = [mode EXCEPT ![d] = "confirm"]
    /\ loaded' = [loaded EXCEPT ![d] = FALSE]
    /\ UNCHANGED <<pending, pairQr, channel>>

\* "No pending pairing" only returns to the list.
ScanAck(d, e) ==
    /\ d # e /\ mode[d] = "scan" /\ mode[e] = "confirm"
    /\ mode' = [mode EXCEPT ![d] = "list"]
    /\ IF pending[d] = None
       THEN UNCHANGED <<peers, pending, pairQr, loaded>>
       ELSE /\ peers' = AddedPeer(d, e, RelayKey(pending[d], ackQr[e]))
            /\ pending' = [pending EXCEPT ![d] = None]
            /\ pairQr' = [pairQr EXCEPT ![d] = None]
            /\ loaded' = [loaded EXCEPT ![d] = FALSE]
    /\ UNCHANGED <<ackQr, channel, generated>>

\* Done, under the code for the first device.
Done(d) ==
    /\ mode[d] = "confirm"
    /\ Guided => \A e \in Devices : pending[e] = None
    /\ mode' = [mode EXCEPT ![d] = "list"]
    /\ ackQr' = [ackQr EXCEPT ![d] = None]
    /\ UNCHANGED <<peers, pending, pairQr, channel, generated, loaded>>

\* Leaving the panel forgets all its state.
Close(d) ==
    /\ ~Guided /\ <<mode[d], pending[d]>> # <<"list", None>>
    /\ mode' = [mode EXCEPT ![d] = "list"]
    /\ pending' = [pending EXCEPT ![d] = None]
    /\ pairQr' = [pairQr EXCEPT ![d] = None] /\ ackQr' = [ackQr EXCEPT ![d] = None]
    /\ UNCHANGED <<peers, channel, generated, loaded>>

handleUnpair(d, e) ==
    /\ mode[d] = "list" /\ e \in Peers(d)
    /\ peers' = [peers EXCEPT ![d][e] = NoKey]
    /\ loaded' = [loaded EXCEPT ![d] = FALSE]
    /\ UNCHANGED <<panel, channel, generated>>

FirstPeer(d) == CHOOSE e \in Peers(d) : \A f \in Peers(d) : e <= f

\* The effect runs when the page is loaded or the relay's URL changes.
connectRelay(d) ==
    /\ ~loaded[d] /\ mode[d] = "list" /\ pending[d] = None
    /\ channel' = [channel EXCEPT ![d] = IF Peers(d) = {} THEN NoKey ELSE peers[d][FirstPeer(d)]]
    /\ loaded' = [loaded EXCEPT ![d] = TRUE]
    /\ UNCHANGED <<peers, panel, generated>>

Scan(d) == \E e \in Devices : ScanPair(d, e) \/ ScanAck(d, e)
Panel(d) ==
    \/ handleInitiate(d) \/ Cancel(d) \/ OpenScanner(d) \/ CloseScanner(d)
    \/ Scan(d) \/ Done(d) \/ Close(d) \/ \E e \in Devices : handleUnpair(d, e)

Next == \E d \in Devices : Panel(d) \/ connectRelay(d)

Spec == Init /\ [][Next]_vars

-----------------------------------------------------------------------------
(* Properties. *)

\* Types; and the private key kept is the one whose code was last shown.
TypeOK ==
    /\ peers \in [Devices -> [Devices -> SUBSET (1..MaxPairs)]]
    /\ mode \in [Devices -> Modes]
    /\ pending \in [Devices -> 0..MaxPairs] /\ pairQr = pending
    /\ ackQr \in [Devices -> 0..MaxPairs]
    /\ \A d \in Devices : mode[d] = "confirm" => ackQr[d] # None
    /\ channel \in [Devices -> SUBSET (1..MaxPairs)]
    /\ generated \in 0..MaxPairs /\ loaded \in [Devices -> BOOLEAN]

\* A relay key, and with it a relay channel, belongs to one pair of devices,
\* however the scans of several ceremonies are mixed.
KeyOfTwo ==
    \A d, e, f, g \in Devices :
        (peers[d][e] # NoKey /\ peers[d][e] = peers[f][g]) => {d, e} = {f, g}

AtRest(d) == mode[d] = "list" /\ pending[d] = None

Paired(d, e) == AtRest(d) /\ AtRest(e) /\ peers[d][e] # NoKey /\ peers[d][e] = peers[e][d]

-----------------------------------------------------------------------------
(* What documents and comments say and the code does not keep for some     *)
(* values of the constants: README, 3.4.                                   *)

\* Two devices that are each other's peers hold the same relay key.
KeysAgree ==
    \A d, e \in Devices :
        (AtRest(d) /\ AtRest(e) /\ e \in Peers(d) /\ d \in Peers(e)) => peers[d][e] = peers[e][d]

\* Once every device has read its table, paired devices meet on the relay.
GroupInSync ==
    (\A d \in Devices : loaded[d]) =>
        \A d, e \in Devices : Paired(d, e) => channel[d] = channel[e]

\* Devices that have been paired are connected.
PairedIsConnected == \A d, e \in Devices : Paired(d, e) => channel[d] # NoKey

\* A device listens to nobody but its peers.
UnpairedIsCut ==
    \A d \in Devices : AtRest(d) /\ channel[d] # NoKey => \E e \in Devices : channel[d] = peers[d][e]
=============================================================================
