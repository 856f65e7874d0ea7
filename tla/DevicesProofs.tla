--------------------------- MODULE DevicesProofs ---------------------------
(***************************************************************************)
(* A wallet's devices, for any number of devices, keys, messages,          *)
(* connections, transfers and faults: a spent mark stays (WalletSync), a   *)
(* message is let through once and in order (Relay), what the queue calls  *)
(* submitted is recorded and no own key of a recorded transfer is without  *)
(* its seed (Transfer).  Each is proved of the part by itself, and carried *)
(* over to MCDevices, where the parts take turns.                          *)
(***************************************************************************)
EXTENDS MCDevices, TLAPS, SequenceTheorems, FiniteSetTheorems

-----------------------------------------------------------------------------
(* Pairing.  Every generated pair has an owner; a relay key is made of one    *)
(* pair of each of its two devices.                                           *)

\* own gives the device that generated each pair.
OwnsHalves(own) ==
    \A d \in Devices :
        /\ pending[d] # None => pending[d] <= generated /\ own[pending[d]] = d
        /\ ackQr[d] # None => ackQr[d] <= generated /\ own[ackQr[d]] = d

OwnsKeys(own) ==
    \A d, e \in Devices : peers[d][e] # NoKey =>
        \E m, n \in 1..generated : peers[d][e] = {m, n} /\ own[m] = d /\ own[n] = e

Owned == \E own \in [Nat -> Nat] : OwnsHalves(own) /\ OwnsKeys(own)

\* What TypeOK says of the panel and the table.
Types ==
    /\ peers \in [Devices -> [Devices -> SUBSET (1..MaxPairs)]]
    /\ mode \in [Devices -> Modes]
    /\ pending \in [Devices -> 0..MaxPairs] /\ pairQr = pending
    /\ ackQr \in [Devices -> 0..MaxPairs]
    /\ \A d \in Devices : mode[d] = "confirm" => ackQr[d] # None
    /\ generated \in 0..MaxPairs

PairInv == Types /\ Owned

-----------------------------------------------------------------------------

LEMMA InitInv == Init => PairInv
<1> SUFFICES ASSUME Init PROVE PairInv
  OBVIOUS
<1>1. Types
  BY PairingConstants DEF Init, Types, Modes, None, NoKey
<1>2. PICK own \in [Nat -> Nat] : TRUE
  <2>1. [n \in Nat |-> n] \in [Nat -> Nat]
    OBVIOUS
  <2> QED
    BY <2>1
<1>3. OwnsHalves(own) /\ OwnsKeys(own)
  BY DEF Init, OwnsHalves, OwnsKeys
<1> QED
  BY <1>1, <1>3 DEF PairInv, Owned

LEMMA NoneIsAPair == 0 \in 0..MaxPairs
  BY PairingConstants

LEMMA PeersAt ==
  ASSUME Types, NEW d \in Devices, NEW e \in Devices, NEW key \in SUBSET (1..MaxPairs)
  PROVE  /\ [peers EXCEPT ![d][e] = key] \in [Devices -> [Devices -> SUBSET (1..MaxPairs)]]
         /\ \A f, g \in Devices : [peers EXCEPT ![d][e] = key][f][g] =
              IF f = d /\ g = e THEN key ELSE peers[f][g]
  BY DEF Types

\* A step that makes no key and no pair, but may forget some, keeps the owners.
LEMMA Forgetting ==
  ASSUME PairInv, generated' = generated,
         \A d \in Devices : pending'[d] \in {None, pending[d]} /\ ackQr'[d] \in {None, ackQr[d]},
         \A d, e \in Devices : peers'[d][e] \in {NoKey, peers[d][e]}
  PROVE  Owned'
<1>1. PICK own \in [Nat -> Nat] : OwnsHalves(own) /\ OwnsKeys(own)
  BY DEF PairInv, Owned
<1>2. OwnsHalves(own)'
  BY <1>1 DEF OwnsHalves
<1>3. OwnsKeys(own)'
  BY <1>1 DEF OwnsKeys
<1> QED
  BY <1>2, <1>3 DEF Owned

LEMMA InitiateStep ==
  ASSUME PairInv, NEW d \in Devices, handleInitiate(d)
  PROVE  PairInv'
<1> USE DEF handleInitiate
<1>1. generated \in Nat /\ generated + 1 \in 1..MaxPairs
  BY PairingConstants DEF PairInv, Types
<1>2. Types'
  BY <1>1 DEF PairInv, Types, Modes
<1>3. PICK own \in [Nat -> Nat] : OwnsHalves(own) /\ OwnsKeys(own)
  BY DEF PairInv, Owned
<1>4. PICK own2 \in [Nat -> Nat] :
        own2[generated + 1] = d /\ \A n \in Nat : n <= generated => own2[n] = own[n]
  <2> DEFINE more == [own EXCEPT ![generated + 1] = d]
  <2>1. more \in [Nat -> Nat] /\ more[generated + 1] = d
    BY <1>1, PairingConstants
  <2>2. ASSUME NEW n \in Nat, n <= generated PROVE more[n] = own[n]
    BY <1>1, <2>2
  <2> HIDE DEF more
  <2> QED
    BY <2>1, <2>2
<1>5. OwnsHalves(own2)'
  BY <1>1, <1>3, <1>4 DEF OwnsHalves, PairInv, Types, None
<1>6. OwnsKeys(own2)'
  <2>1. SUFFICES ASSUME NEW f \in Devices, NEW g \in Devices, peers[f][g] # NoKey
                 PROVE  \E m, n \in 1..(generated + 1) :
                           peers[f][g] = {m, n} /\ own2[m] = f /\ own2[n] = g
    BY DEF OwnsKeys
  <2>2. PICK m, n \in 1..generated : peers[f][g] = {m, n} /\ own[m] = f /\ own[n] = g
    BY <1>3, <2>1 DEF OwnsKeys
  <2> QED
    BY <1>1, <1>4, <2>2
<1> QED
  BY <1>2, <1>4, <1>5, <1>6 DEF PairInv, Owned

LEMMA ScanPairStep ==
  ASSUME PairInv, NEW d \in Devices, NEW e \in Devices, ScanPair(d, e)
  PROVE  PairInv'
<1> DEFINE key == {generated + 1, pairQr[e]}
<1>1. /\ generated \in Nat /\ generated + 1 \in 1..MaxPairs
      /\ pairQr[e] \in 1..MaxPairs /\ pairQr[e] = pending[e]
  BY PairingConstants DEF PairInv, Types, ScanPair, None
<1>2. key \in SUBSET (1..MaxPairs) /\ peers' = [peers EXCEPT ![d][e] = key]
  BY <1>1 DEF ScanPair, AddedPeer, RelayKey
<1>9. key = {generated + 1, pending[e]}
  BY <1>1
<1> HIDE DEF key
<1>3. /\ \A f, g \in Devices : peers'[f][g] = IF f = d /\ g = e THEN key ELSE peers[f][g]
      /\ peers' \in [Devices -> [Devices -> SUBSET (1..MaxPairs)]]
  BY <1>2, PeersAt, SMTT(30) DEF PairInv
<1>4. Types'
  BY <1>1, <1>3 DEF ScanPair, PairInv, Types, Modes, None
<1>5. PICK own \in [Nat -> Nat] : OwnsHalves(own) /\ OwnsKeys(own)
  BY DEF PairInv, Owned
<1>6. PICK own2 \in [Nat -> Nat] :
        own2[generated + 1] = d /\ \A n \in Nat : n <= generated => own2[n] = own[n]
  <2> DEFINE more == [own EXCEPT ![generated + 1] = d]
  <2>1. more \in [Nat -> Nat] /\ more[generated + 1] = d
    BY <1>1, PairingConstants
  <2>2. ASSUME NEW n \in Nat, n <= generated PROVE more[n] = own[n]
    BY <1>1, <2>2
  <2> HIDE DEF more
  <2> QED
    BY <2>1, <2>2
<1>7. OwnsHalves(own2)'
  BY <1>1, <1>5, <1>6 DEF ScanPair, OwnsHalves, PairInv, Types, None
<1>8. OwnsKeys(own2)'
  <2>1. ASSUME NEW f \in Devices, NEW g \in Devices, peers'[f][g] # NoKey
        PROVE  \E m, n \in 1..(generated + 1) :
                  peers'[f][g] = {m, n} /\ own2[m] = f /\ own2[n] = g
    <3>1. CASE f = d /\ g = e
      <4>1. pending[e] <= generated /\ own[pending[e]] = e
        BY <1>1, <1>5 DEF OwnsHalves, None
      <4>2. peers'[f][g] = {generated + 1, pending[e]}
        BY <1>3, <1>9, <3>1
      <4>3. own2[pending[e]] = e /\ pending[e] \in 1..(generated + 1)
        BY <1>1, <1>6, <4>1
      <4> QED
        BY <1>1, <1>6, <3>1, <4>2, <4>3
    <3>2. CASE ~(f = d /\ g = e)
      <4>1. peers'[f][g] = peers[f][g]
        BY <1>3, <3>2
      <4>2. PICK m, n \in 1..generated : peers[f][g] = {m, n} /\ own[m] = f /\ own[n] = g
        BY <1>5, <2>1, <4>1 DEF OwnsKeys
      <4> QED
        BY <1>1, <1>6, <4>1, <4>2
    <3> QED
      BY <3>1, <3>2
  <2>2. generated' = generated + 1
    BY DEF ScanPair
  <2>3. \A f, g \in Devices : peers'[f][g] # NoKey =>
           \E m, n \in 1..generated' : peers'[f][g] = {m, n} /\ own2[m] = f /\ own2[n] = g
    <3> SUFFICES ASSUME NEW f \in Devices, NEW g \in Devices, peers'[f][g] # NoKey
                 PROVE  \E m, n \in 1..generated' :
                           peers'[f][g] = {m, n} /\ own2[m] = f /\ own2[n] = g
      OBVIOUS
    <3> QED
      BY <2>1, <2>2
  <2> QED
    BY <2>3 DEF OwnsKeys
<1> QED
  BY <1>4, <1>6, <1>7, <1>8 DEF PairInv, Owned

LEMMA ScanAckStep ==
  ASSUME PairInv, NEW d \in Devices, NEW e \in Devices, ScanAck(d, e)
  PROVE  PairInv'
<1>1. CASE pending[d] = None
  <2>1. Types'
    BY <1>1 DEF ScanAck, PairInv, Types, Modes
  <2>2. Owned'
    BY <1>1, Forgetting DEF ScanAck
  <2> QED
    BY <2>1, <2>2 DEF PairInv
<1>2. CASE pending[d] # None
  <2> DEFINE key == {pending[d], ackQr[e]}
  <2>1. /\ generated \in Nat /\ ackQr[e] \in 1..MaxPairs /\ pending[d] \in 1..MaxPairs
    BY <1>2, PairingConstants DEF PairInv, Types, ScanAck, None
  <2>2. key \in SUBSET (1..MaxPairs) /\ peers' = [peers EXCEPT ![d][e] = key]
    BY <1>2, <2>1 DEF ScanAck, AddedPeer, RelayKey
  <2>8. key = {pending[d], ackQr[e]}
    OBVIOUS
  <2> HIDE DEF key
  <2>3. /\ \A f, g \in Devices : peers'[f][g] = IF f = d /\ g = e THEN key ELSE peers[f][g]
        /\ peers' \in [Devices -> [Devices -> SUBSET (1..MaxPairs)]]
    BY <2>2, PeersAt, SMTT(30) DEF PairInv
  <2>4. Types'
    BY <1>2, <2>1, <2>3, NoneIsAPair DEF ScanAck, PairInv, Types, Modes, None
  <2>5. PICK own \in [Nat -> Nat] : OwnsHalves(own) /\ OwnsKeys(own)
    BY DEF PairInv, Owned
  <2>6. OwnsHalves(own)'
    BY <1>2, <2>1, <2>5 DEF ScanAck, OwnsHalves, PairInv, Types, None
  <2>7. OwnsKeys(own)'
    <3>1. ASSUME NEW f \in Devices, NEW g \in Devices, peers'[f][g] # NoKey
          PROVE  \E m, n \in 1..generated :
                    peers'[f][g] = {m, n} /\ own[m] = f /\ own[n] = g
      <4>1. CASE f = d /\ g = e
        <5>1. /\ pending[d] <= generated /\ own[pending[d]] = d
              /\ ackQr[e] <= generated /\ own[ackQr[e]] = e
          BY <1>2, <2>1, <2>5 DEF OwnsHalves, None
        <5>2. pending[d] \in 1..generated /\ ackQr[e] \in 1..generated
          BY <2>1, <5>1
        <5>3. /\ peers'[f][g] = {pending[d], ackQr[e]}
              /\ own[pending[d]] = f /\ own[ackQr[e]] = g
          BY <2>3, <2>8, <4>1, <5>1
        <5> QED
          BY <5>2, <5>3
      <4>2. CASE ~(f = d /\ g = e)
        <5>1. peers'[f][g] = peers[f][g]
          BY <2>3, <4>2
        <5> QED
          BY <2>5, <3>1, <5>1 DEF OwnsKeys
      <4> QED
        BY <4>1, <4>2
    <3>2. generated' = generated
      BY DEF ScanAck
    <3> QED
      BY <3>1, <3>2 DEF OwnsKeys
  <2> QED
    BY <2>4, <2>5, <2>6, <2>7 DEF PairInv, Owned
<1> QED
  BY <1>1, <1>2

LEMMA UnpairStep ==
  ASSUME PairInv, NEW d \in Devices, NEW e \in Devices, handleUnpair(d, e)
  PROVE  PairInv'
<1>1. peers' = [peers EXCEPT ![d][e] = NoKey] /\ NoKey \in SUBSET (1..MaxPairs)
  BY DEF handleUnpair, NoKey
<1>2. /\ \A f, g \in Devices : peers'[f][g] = IF f = d /\ g = e THEN NoKey ELSE peers[f][g]
      /\ peers' \in [Devices -> [Devices -> SUBSET (1..MaxPairs)]]
  BY <1>1, PeersAt DEF PairInv
<1>3. Types'
  BY <1>2 DEF handleUnpair, panel, PairInv, Types
<1>4. Owned'
  BY <1>2, Forgetting DEF handleUnpair, panel
<1> QED
  BY <1>3, <1>4 DEF PairInv

LEMMA ConnectStep ==
  ASSUME PairInv, NEW d \in Devices, connectRelay(d)
  PROVE  PairInv'
<1>1. Types'
  BY DEF connectRelay, panel, PairInv, Types
<1>2. Owned'
  BY Forgetting DEF connectRelay, panel
<1> QED
  BY <1>1, <1>2 DEF PairInv

\* The steps of the panel that touch no key.
LEMMA PanelStep ==
  ASSUME PairInv, NEW d \in Devices,
         Cancel(d) \/ OpenScanner(d) \/ CloseScanner(d) \/ Done(d) \/ Close(d)
  PROVE  PairInv'
<1>1. CASE Cancel(d)
  <2>1. Types'
    BY <1>1, NoneIsAPair DEF Cancel, PairInv, Types, Modes, None
  <2>2. Owned'
    BY <1>1, Forgetting DEF Cancel, PairInv, Types
  <2> QED
    BY <2>1, <2>2 DEF PairInv
<1>2. CASE OpenScanner(d) \/ CloseScanner(d)
  <2>1. Types'
    BY <1>2 DEF OpenScanner, CloseScanner, PairInv, Types, Modes, None
  <2>2. Owned'
    BY <1>2, Forgetting DEF OpenScanner, CloseScanner
  <2> QED
    BY <2>1, <2>2 DEF PairInv
<1>3. CASE Done(d)
  <2>1. Types'
    BY <1>3, NoneIsAPair DEF Done, PairInv, Types, Modes, None
  <2>2. Owned'
    BY <1>3, Forgetting DEF Done, PairInv, Types
  <2> QED
    BY <2>1, <2>2 DEF PairInv
<1>4. CASE Close(d)
  <2>1. Types'
    BY <1>4, NoneIsAPair DEF Close, PairInv, Types, Modes, None
  <2>2. Owned'
    BY <1>4, Forgetting DEF Close, PairInv, Types
  <2> QED
    BY <2>1, <2>2 DEF PairInv
<1> QED
  BY <1>1, <1>2, <1>3, <1>4

LEMMA NextInv == PairInv /\ [Next]_vars => PairInv'
<1> SUFFICES ASSUME PairInv, [Next]_vars PROVE PairInv'
  OBVIOUS
<1>1. CASE Next
  <2>1. PICK d \in Devices : Panel(d) \/ connectRelay(d)
    BY <1>1 DEF Next
  <2> QED
    BY <2>1, InitiateStep, ScanPairStep, ScanAckStep, UnpairStep, ConnectStep, PanelStep
       DEF Panel, Scan
<1>2. CASE UNCHANGED vars
  <2>1. Types'
    BY <1>2 DEF vars, panel, PairInv, Types
  <2>2. Owned'
    BY <1>2, Forgetting DEF vars, panel
  <2> QED
    BY <2>1, <2>2 DEF PairInv
<1> QED
  BY <1>1, <1>2

\* A key made of a pair of d and one of e is made of no other devices' pairs.
LEMMA OwnersTell == Owned => KeyOfTwo
<1> SUFFICES ASSUME Owned, NEW d \in Devices, NEW e \in Devices,
                    NEW f \in Devices, NEW g \in Devices,
                    peers[d][e] # NoKey, peers[d][e] = peers[f][g]
             PROVE  {d, e} = {f, g}
  BY DEF KeyOfTwo
<1>1. PICK own \in [Nat -> Nat] : OwnsKeys(own)
  BY DEF Owned
<1>2. PICK m, n \in 1..generated : peers[d][e] = {m, n} /\ own[m] = d /\ own[n] = e
  BY <1>1 DEF OwnsKeys
<1>3. PICK i, j \in 1..generated : peers[f][g] = {i, j} /\ own[i] = f /\ own[j] = g
  BY <1>1 DEF OwnsKeys
<1>4. {m, n} = {i, j}
  BY <1>2, <1>3
<1>5. m \in {i, j} /\ n \in {i, j} /\ i \in {m, n} /\ j \in {m, n}
  BY <1>4
<1> QED
  BY <1>2, <1>3, <1>5

\* Whatever number of devices scan each other's codes and answers, in whatever order, broken
\* off and started again: a relay key belongs to one pair of devices.
THEOREM RelayKeyIsOfTwo == Spec => []KeyOfTwo
<1>1. Init => PairInv
  BY InitInv
<1>2. PairInv /\ [Next]_vars => PairInv'
  BY NextInv
<1>3. PairInv => KeyOfTwo
  BY OwnersTell DEF PairInv
<1> QED
  BY <1>1, <1>2, <1>3, PTL DEF Spec

-----------------------------------------------------------------------------
(* WalletSync. *)

WRow == [status : W!Statuses, seq : BOOLEAN, synced : BOOLEAN]

RowsTyped == rows \in [Wallets -> [WalletKeys -> WRow]]

\* A row counts as unspent only with a SEQ_ID.
Countable(table1) == \A k \in WalletKeys : table1[k].status = "unspent" => table1[k].seq

\* What a write to a device's keys table may do to the rows that are there.
SpentKept(before, after) ==
    \A k \in WalletKeys : before[k].status = "spent" => after[k].status = "spent"

WInv == RowsTyped /\ \A d \in Wallets : Countable(rows[d])

LEMMA MarkedTable ==
    ASSUME NEW t \in [WalletKeys -> WRow], Countable(t), NEW k
    PROVE  /\ W!MarkedSpent(t, k) \in [WalletKeys -> WRow]
           /\ Countable(W!MarkedSpent(t, k)) /\ SpentKept(t, W!MarkedSpent(t, k))
<1>1. CASE t[k].status = "unspent" /\ k \in WalletKeys
  BY <1>1 DEF W!MarkedSpent, WRow, W!Statuses, Countable, SpentKept
<1>2. CASE t[k].status = "unspent" /\ k \notin WalletKeys
  <2>1. W!MarkedSpent(t, k) = t
    BY <1>2 DEF W!MarkedSpent
  <2>2. QED
    BY <2>1 DEF SpentKept
<1>3. CASE t[k].status # "unspent"
  BY <1>3 DEF W!MarkedSpent, SpentKept
<1>4. QED
  BY <1>1, <1>2, <1>3

LEMMA ImportedTable ==
    ASSUME NEW t \in [WalletKeys -> WRow], Countable(t), NEW k, NEW s \in BOOLEAN
    PROVE  /\ W!Imported(t, k, s) \in [WalletKeys -> WRow]
           /\ Countable(W!Imported(t, k, s)) /\ SpentKept(t, W!Imported(t, k, s))
<1>1. CASE t[k] # W!Absent
  BY <1>1 DEF W!Imported, SpentKept
<1>2. CASE t[k] = W!Absent /\ k \in WalletKeys
  BY <1>2 DEF W!Imported, W!Absent, W!Row, WRow, W!Statuses, Countable, SpentKept
<1>3. CASE t[k] = W!Absent /\ k \notin WalletKeys
  <2>1. W!Imported(t, k, s) = t
    BY <1>3 DEF W!Imported
  <2>2. QED
    BY <2>1 DEF SpentKept
<1>4. QED
  BY <1>1, <1>2, <1>3

LEMMA SavedTable ==
    ASSUME NEW t \in [WalletKeys -> WRow], Countable(t), NEW k \in WalletKeys,
           t[k].status # "spent"
    PROVE  LET new == [t EXCEPT ![k] = W!Row("unconfirmed", FALSE, FALSE)]
           IN  new \in [WalletKeys -> WRow] /\ Countable(new) /\ SpentKept(t, new)
BY DEF W!Row, WRow, W!Statuses, Countable, SpentKept

LEMMA UpdatedTable ==
    ASSUME NEW t \in [WalletKeys -> WRow], Countable(t), NEW k, NEW answer
    PROVE  LET new == [t EXCEPT ![k] = W!UpdatedRow(@, answer)]
           IN  new \in [WalletKeys -> WRow] /\ Countable(new) /\ SpentKept(t, new)
<1>1. CASE k \in WalletKeys
  BY <1>1 DEF W!UpdatedRow, WRow, W!Statuses, Countable, SpentKept
<1>2. CASE k \notin WalletKeys
  BY <1>2 DEF SpentKept
<1>3. QED
  BY <1>1, <1>2

LEMMA SyncedTable ==
    ASSUME NEW t \in [WalletKeys -> WRow], Countable(t)
    PROVE  LET new == [k \in WalletKeys |-> IF t[k].status = "absent" THEN t[k]
                                            ELSE [t[k] EXCEPT !.synced = TRUE]]
           IN  new \in [WalletKeys -> WRow] /\ Countable(new) /\ SpentKept(t, new)
BY DEF WRow, W!Statuses, Countable, SpentKept

\* One device's table is replaced.
LEMMA OneTable ==
    ASSUME WInv, NEW d \in Wallets, NEW t \in [WalletKeys -> WRow], Countable(t),
           SpentKept(rows[d], t), rows' = [rows EXCEPT ![d] = t]
    PROVE  WInv' /\ \A e \in Wallets : SpentKept(rows[e], rows'[e])
BY DEF WInv, RowsTyped, SpentKept

LEMMA SaveTable ==
    ASSUME WInv, NEW d \in Wallets, NEW k \in WalletKeys, W!Save(d, k)
    PROVE  WInv' /\ \A e \in Wallets : SpentKept(rows[e], rows'[e])
<1> DEFINE marked == W!MarkedSpent(rows[d], spending[d])
           saved == [marked EXCEPT ![k] = W!Row("unconfirmed", FALSE, FALSE)]
<1>1. rows[d] \in [WalletKeys -> WRow] /\ Countable(rows[d])
  BY DEF WInv, RowsTyped
<1>2. marked \in [WalletKeys -> WRow] /\ Countable(marked) /\ SpentKept(rows[d], marked)
  BY <1>1, MarkedTable
<1>3. rows[d][k].status = "absent"
  BY DEF W!Save, W!Absent
<1>4. marked[k].status # "spent"
  BY <1>1, <1>3 DEF W!MarkedSpent, WRow
<1>5. saved \in [WalletKeys -> WRow] /\ Countable(saved) /\ SpentKept(marked, saved)
  <2> HIDE DEF marked
  <2>1. QED
    BY <1>2, <1>4, SavedTable
<1>6. SpentKept(rows[d], saved)
  <2> HIDE DEF marked, saved
  <2>1. QED
    BY <1>2, <1>5 DEF SpentKept
<1>7. rows' = [rows EXCEPT ![d] = saved]
  BY DEF W!Save
<1> HIDE DEF saved
<1>8. QED
  BY <1>5, <1>6, <1>7, OneTable

LEMMA WalletStepKeeps ==
    ASSUME WInv, [W!Next]_W!vars
    PROVE  WInv' /\ \A d \in Wallets : SpentKept(rows[d], rows'[d])
<1> DEFINE Goal == WInv' /\ \A d \in Wallets : SpentKept(rows[d], rows'[d])
<1>1. ASSUME rows' = rows PROVE Goal
  BY <1>1 DEF WInv, RowsTyped, SpentKept
<1>2. ASSUME NEW d \in Wallets PROVE rows[d] \in [WalletKeys -> WRow] /\ Countable(rows[d])
  BY DEF WInv, RowsTyped
<1>3. ASSUME NEW d \in Wallets, NEW k \in WalletKeys, W!Submit(d, k) \/ W!Save(d, k)
      PROVE  Goal
  BY <1>1, <1>3, SaveTable DEF W!Submit
<1>4. ASSUME NEW k \in WalletKeys, W!Escrow(k) PROVE Goal
  BY <1>1, <1>4 DEF W!Escrow
<1>5. ASSUME NEW d \in Wallets, W!handleExport(d) \/ W!handleExportFull(d)
      PROVE  Goal
  BY <1>1, <1>5 DEF W!handleExport, W!handleExportFull, W!Build
<1>6. ASSUME NEW d \in Wallets, W!markAllSynced(d) PROVE Goal
  <2> DEFINE new == [k \in WalletKeys |-> IF rows[d][k].status = "absent" THEN rows[d][k]
                                          ELSE [rows[d][k] EXCEPT !.synced = TRUE]]
  <2>1. rows' = [rows EXCEPT ![d] = new]
    BY <1>6 DEF W!markAllSynced
  <2>2. new \in [WalletKeys -> WRow] /\ Countable(new) /\ SpentKept(rows[d], new)
    BY <1>2, SyncedTable
  <2> HIDE DEF new
  <2>3. QED
    BY <2>1, <2>2, OneTable
<1>7. ASSUME NEW d \in Wallets, W!ImportStart(d) \/ W!Reload(d) PROVE Goal
  BY <1>1, <1>7 DEF W!ImportStart, W!Reload
<1>8. ASSUME NEW d \in Wallets, W!ImportKey(d) PROVE Goal
  <2>1. PICK k : rows' = [rows EXCEPT ![d] = W!Imported(@, k, k \in importing[d].withSeq)]
    BY <1>8 DEF W!ImportKey
  <2> DEFINE new == W!Imported(rows[d], k, k \in importing[d].withSeq)
  <2>2. (k \in importing[d].withSeq) \in BOOLEAN
    OBVIOUS
  <2>3. new \in [WalletKeys -> WRow] /\ Countable(new) /\ SpentKept(rows[d], new)
    BY <1>2, <2>2, ImportedTable
  <2>4. rows' = [rows EXCEPT ![d] = new]
    BY <2>1
  <2> HIDE DEF new
  <2>5. QED
    BY <2>3, <2>4, OneTable
<1>9. ASSUME NEW d \in Wallets, W!ImportSpent(d) PROVE Goal
  <2>1. PICK k : rows' = [rows EXCEPT ![d] = W!MarkedSpent(@, k)]
    BY <1>9 DEF W!ImportSpent
  <2>2. QED
    BY <1>2, <2>1, MarkedTable, OneTable
<1>10. ASSUME NEW d \in Wallets, NEW r \in Runs, W!Validate(d, r) PROVE Goal
  <2>1. CASE W!ValidateStart(d, r) \/ W!GetUtxo(d, r)
    BY <1>1, <2>1 DEF W!ValidateStart, W!GetUtxo
  <2>2. CASE W!UpdateKey(d, r)
    <3> DEFINE k == validating[d][r].key
               new == [rows[d] EXCEPT ![k] = W!UpdatedRow(@, validating[d][r].answer)]
    <3>1. rows' = [rows EXCEPT ![d] = new]
      BY <1>2, <2>2 DEF W!UpdateKey, WInv, RowsTyped
    <3>2. new \in [WalletKeys -> WRow] /\ Countable(new) /\ SpentKept(rows[d], new)
      BY <1>2, UpdatedTable
    <3> HIDE DEF new
    <3>3. QED
      BY <3>1, <3>2, OneTable
  <2>3. QED
    BY <1>10, <2>1, <2>2 DEF W!Validate
<1>11. CASE UNCHANGED W!vars
  BY <1>1, <1>11 DEF W!vars
<1>12. QED
  BY <1>3, <1>4, <1>5, <1>6, <1>7, <1>8, <1>9, <1>10, <1>11 DEF W!Next

LEMMA WalletInit == W!Init => WInv
BY DEF W!Init, WInv, RowsTyped, WRow, W!Absent, W!Statuses, Countable

\* A row that is spent stays spent.
THEOREM SpentForGood == W!Init /\ [][W!Next]_W!vars => W!SpentStays
<1>1. WInv /\ [W!Next]_W!vars => WInv'
  BY WalletStepKeeps
<1>2. WInv /\ [W!Next]_W!vars =>
        [\A d \in Wallets, k \in WalletKeys :
            rows[d][k].status = "spent" => rows'[d][k].status = "spent"]_W!vars
  BY WalletStepKeeps DEF SpentKept
<1>3. QED
  BY <1>1, <1>2, WalletInit, PTL DEF W!SpentStays
-----------------------------------------------------------------------------
(* Relay. *)

Handlers == [state : {R!Down, "subscribed", "loop", "retaining"}, msg : Seq(R!Message)]

\* The part of the types that the handling of messages rests on.
Carried ==
    /\ retained \in Seq(R!Message)
    /\ handler \in [Clients -> Handlers]
    /\ \A d \in Clients : handler[d].state = "retaining" => handler[d].msg # <<>>
    /\ up \in [Clients -> Seq(R!Message)] /\ down \in [Clients -> Seq(R!Message)]
    /\ handled \in [Clients -> Seq(R!Message)]
    /\ seq \in [Clients -> Nat] /\ seenSeqs \in [Clients -> [Clients -> Nat]]
    /\ sent \in 0..MaxMsgs

\* Every message a client has let through is below what it remembers of the sender.
Remembered ==
    \A d \in Clients : \A i \in DOMAIN handled[d] :
        handled[d][i].seq + 1 <= seenSeqs[d][handled[d][i].from]

RInv == Carried /\ Remembered /\ R!HandledOnceInOrder

LEMMA RelayInit == R!Init => RInv
<1> SUFFICES ASSUME R!Init PROVE RInv
  OBVIOUS
<1>1. MaxMsgs \in Nat
  BY PartsConstants DEF R!RelayConstants
<1>2. Carried
  BY <1>1 DEF R!Init, Carried, Handlers, R!Down
<1>3. Remembered /\ R!HandledOnceInOrder
  BY DEF R!Init, Remembered, R!HandledOnceInOrder
<1>4. QED
  BY <1>2, <1>3 DEF RInv

\* Steps that leave the clients alone.
LEMMA RelaySame ==
    ASSUME RInv, Carried', handled' = handled, seenSeqs' = seenSeqs
    PROVE  RInv'
BY DEF RInv, Remembered, R!HandledOnceInOrder

LEMMA ServerSteps ==
    ASSUME RInv, NEW d \in Clients,
           R!Subscribe(d) \/ R!Serve(d) \/ R!Disconnect(d)
    PROVE  RInv'
<1> USE DEF Carried
<1>1. Carried
  BY DEF RInv
<1>2. CASE R!Subscribe(d)
  <2>1. Carried'
    BY <1>1, <1>2 DEF R!Subscribe, R!client, Handlers, R!Down
  <2>2. QED
    BY <1>2, <2>1, RelaySame DEF R!Subscribe, R!client
<1>3. CASE R!TakeRetained(d)
  <2>1. Carried'
    BY <1>1, <1>3, ConcatProperties DEF R!TakeRetained, R!client, Handlers, R!Idle
  <2>2. QED
    BY <1>3, <2>1, RelaySame DEF R!TakeRetained, R!client
<1>4. CASE R!Broadcast(d)
  <2>1. Head(up[d]) \in R!Message /\ Tail(up[d]) \in Seq(R!Message)
    BY <1>1, <1>4 DEF R!Broadcast
  <2>2. <<Head(up[d])>> \in Seq(R!Message) /\ <<Head(up[d])>> # <<>>
    BY <2>1
  <2>3. Carried'
    <3>1. handler' \in [Clients -> Handlers]
      BY <1>1, <1>4, <2>2 DEF R!Broadcast, Handlers
    <3>2. \A e \in Clients : handler'[e].state = "retaining" => handler'[e].msg # <<>>
      BY <1>1, <1>4, <2>2 DEF R!Broadcast, Handlers
    <3>3. up' \in [Clients -> Seq(R!Message)] /\ down' \in [Clients -> Seq(R!Message)]
      BY <1>1, <1>4, <2>1 DEF R!Broadcast
    <3>4. QED
      BY <1>1, <1>4, <3>1, <3>2, <3>3 DEF R!Broadcast, R!client
  <2>4. QED
    BY <1>4, <2>3, RelaySame DEF R!Broadcast, R!client
<1>5. CASE R!retain_message(d)
  <2>1. handler[d].msg[1] \in R!Message
    BY <1>1, <1>5 DEF R!retain_message, Handlers
  <2>2. retained' \in Seq(R!Message)
    BY <1>1, <1>5, <2>1 DEF R!retain_message, R!Kept
  <2>3. Carried'
    BY <1>1, <1>5, <2>2 DEF R!retain_message, R!client, Handlers, R!Idle
  <2>4. QED
    BY <1>5, <2>3, RelaySame DEF R!retain_message, R!client
<1>6. CASE R!Disconnect(d)
  <2>0. handler[d] \in Handlers
    BY <1>1
  <2>1. handler' = [handler EXCEPT ![d] = [state |-> R!Down, msg |-> handler[d].msg]]
    <3>1. handler' = [handler EXCEPT ![d] = [handler[d] EXCEPT !.state = R!Down]]
      BY <1>6 DEF R!Disconnect
    <3>2. [handler[d] EXCEPT !.state = R!Down] = [state |-> R!Down, msg |-> handler[d].msg]
      BY <2>0 DEF Handlers
    <3>3. QED
      BY <3>1, <3>2
  <2>2. handler' \in [Clients -> Handlers]
    <3>1. [state |-> R!Down, msg |-> handler[d].msg] \in Handlers
      BY <2>0 DEF Handlers
    <3>2. QED
      BY <1>1, <2>1, <3>1
  <2>3. \A e \in Clients : handler'[e].state = "retaining" => handler'[e].msg # <<>>
    BY <1>1, <2>1 DEF R!Down
  <2>4. up' \in [Clients -> Seq(R!Message)] /\ down' \in [Clients -> Seq(R!Message)]
    BY <1>1, <1>6 DEF R!Disconnect
  <2>5. Carried'
    BY <1>1, <1>6, <2>2, <2>3, <2>4 DEF R!Disconnect, R!client
  <2>6. QED
    BY <1>6, <2>5, RelaySame DEF R!Disconnect, R!client
<1>7. QED
  BY <1>2, <1>3, <1>4, <1>5, <1>6 DEF R!Serve

LEMMA SendStep == ASSUME RInv, NEW d \in Clients, R!sendEncrypted(d) PROVE RInv'
<1>1. Carried /\ MaxMsgs \in Nat
  BY PartsConstants DEF RInv, R!RelayConstants
<1> DEFINE m == [from |-> d, seq |-> seq[d], id |-> sent + 1]
<1>2. m \in R!Message /\ sent' \in 0..MaxMsgs
  BY <1>1 DEF R!sendEncrypted, R!Message, Carried
<1>3. up' = [up EXCEPT ![d] = Append(@, m)] \/ up' = up
  BY DEF R!sendEncrypted
<1> HIDE DEF m
<1>4. up' \in [Clients -> Seq(R!Message)]
  <2>1. Append(up[d], m) \in Seq(R!Message)
    BY <1>1, <1>2, AppendProperties DEF Carried
  <2>2. QED
    BY <1>1, <1>3, <2>1 DEF Carried
<1>5. seq' \in [Clients -> Nat]
  <2>1. seq' = [seq EXCEPT ![d] = @ + 1] \/ seq' = seq
    BY DEF R!sendEncrypted
  <2>2. seq \in [Clients -> Nat]
    BY <1>1 DEF Carried
  <2>3. QED
    BY <2>1, <2>2
<1>6. QED
  BY <1>1, <1>2, <1>4, <1>5, RelaySame DEF R!sendEncrypted, Carried

LEMMA HandleStep == ASSUME RInv, NEW d \in Clients, R!handleMessage(d) PROVE RInv'
<1>1. Carried /\ Remembered /\ R!HandledOnceInOrder
  BY DEF RInv
<1> DEFINE m == Head(down[d])
<1>2. m \in R!Message /\ Tail(down[d]) \in Seq(R!Message)
  BY <1>1 DEF R!handleMessage, Carried
<1>3. m.from \in Clients /\ m.seq \in Nat
  BY <1>2 DEF R!Message
<1>4. down' \in [Clients -> Seq(R!Message)]
  BY <1>1, <1>2 DEF R!handleMessage, Carried
<1>5. CASE ~R!Unseen(m, seenSeqs[d][m.from])
  <2>1. seenSeqs' = seenSeqs /\ handled' = handled
    BY <1>5 DEF R!handleMessage
  <2>2. Carried'
    BY <1>1, <1>4, <2>1 DEF R!handleMessage, Carried
  <2>3. QED
    BY <2>1, <2>2, RelaySame
<1>6. CASE R!Unseen(m, seenSeqs[d][m.from])
  <2>1. /\ seenSeqs' = [seenSeqs EXCEPT ![d][m.from] = m.seq + 1]
        /\ handled' = [handled EXCEPT ![d] = Append(@, m)]
    BY <1>6 DEF R!handleMessage
  <2> HIDE DEF m
  <2>2. seenSeqs' \in [Clients -> [Clients -> Nat]] /\ handled' \in [Clients -> Seq(R!Message)]
    <3>1. Append(handled[d], m) \in Seq(R!Message)
      BY <1>1, <1>2, AppendProperties DEF Carried
    <3>2. handled' \in [Clients -> Seq(R!Message)]
      BY <1>1, <2>1, <3>1 DEF Carried
    <3>3. seenSeqs \in [Clients -> [Clients -> Nat]]
      BY <1>1 DEF Carried
    <3>4. seenSeqs[d] \in [Clients -> Nat]
      BY <3>3
    <3>5. m.seq + 1 \in Nat
      BY <1>3
    <3>6. [seenSeqs[d] EXCEPT ![m.from] = m.seq + 1] \in [Clients -> Nat]
      BY <1>3, <3>4, <3>5
    <3>7. seenSeqs' \in [Clients -> [Clients -> Nat]]
      BY <2>1, <3>3, <3>6
    <3>8. QED
      BY <3>2, <3>7
  <2>3. Carried'
    BY <1>1, <1>4, <2>2 DEF R!handleMessage, Carried
  <2>4. \A e \in Clients \ {d} : handled'[e] = handled[e] /\ seenSeqs'[e] = seenSeqs[e]
    BY <1>1, <2>1 DEF Carried
  <2>5. /\ seenSeqs'[d][m.from] = m.seq + 1
        /\ \A e \in Clients \ {m.from} : seenSeqs'[d][e] = seenSeqs[d][e]
    BY <1>1, <1>3, <2>1 DEF Carried
  <2>6. handled[d] \in Seq(R!Message) /\ handled'[d] = Append(handled[d], m)
    BY <1>1, <2>1 DEF Carried
  <2>7. /\ DOMAIN handled[d] = 1..Len(handled[d])
        /\ DOMAIN handled'[d] = 1..(Len(handled[d]) + 1)
        /\ \A i \in 1..Len(handled[d]) : handled'[d][i] = handled[d][i]
        /\ handled'[d][Len(handled[d]) + 1] = m
        /\ Len(handled[d]) \in Nat
    BY <1>2, <2>6
  <2>8. \A i \in 1..Len(handled[d]) :
            /\ handled[d][i].from \in Clients /\ handled[d][i].seq \in Nat
            /\ handled[d][i].seq + 1 <= seenSeqs[d][handled[d][i].from]
    <3> SUFFICES ASSUME NEW i \in 1..Len(handled[d])
                 PROVE  /\ handled[d][i].from \in Clients /\ handled[d][i].seq \in Nat
                        /\ handled[d][i].seq + 1 <= seenSeqs[d][handled[d][i].from]
      OBVIOUS
    <3>1. handled[d][i] \in R!Message
      BY <2>6
    <3>2. handled[d][i].from \in Clients /\ handled[d][i].seq \in Nat
      BY <3>1 DEF R!Message
    <3>3. QED
      BY <1>1, <2>7, <3>2 DEF Remembered
  <2>9. seenSeqs[d][m.from] \in Nat /\ m.seq + 1 > seenSeqs[d][m.from]
    <3>1. seenSeqs \in [Clients -> [Clients -> Nat]]
      BY <1>1 DEF Carried
    <3>2. seenSeqs[d][m.from] \in Nat
      BY <1>3, <3>1
    <3>3. m.seq + 1 > seenSeqs[d][m.from]
      BY <1>6 DEF R!Unseen
    <3>4. QED
      BY <3>2, <3>3
  <2>10. \A i \in 1..Len(handled[d]) : handled[d][i].from = m.from => handled[d][i].seq < m.seq
    <3> SUFFICES ASSUME NEW i \in 1..Len(handled[d]), handled[d][i].from = m.from
                 PROVE  handled[d][i].seq < m.seq
      OBVIOUS
    <3>1. handled[d][i].seq \in Nat /\ handled[d][i].seq + 1 <= seenSeqs[d][m.from]
      BY <2>8
    <3>2. QED
      BY <1>3, <2>9, <3>1
  <2>11. Remembered'
    <3> SUFFICES ASSUME NEW e \in Clients, NEW i \in DOMAIN handled'[e]
                 PROVE  handled'[e][i].seq + 1 <= seenSeqs'[e][handled'[e][i].from]
      BY DEF Remembered
    <3>1. CASE e # d
      BY <1>1, <2>4, <3>1 DEF Remembered
    <3>2. CASE e = d /\ i = Len(handled[d]) + 1
      BY <1>3, <2>5, <2>7, <3>2
    <3>3. CASE e = d /\ i \in 1..Len(handled[d])
      <4>1. /\ handled'[d][i] = handled[d][i]
            /\ handled[d][i].from \in Clients /\ handled[d][i].seq \in Nat
            /\ handled[d][i].seq + 1 <= seenSeqs[d][handled[d][i].from]
        BY <2>7, <2>8, <3>3
      <4>2. CASE handled[d][i].from = m.from
        BY <1>3, <2>5, <2>10, <3>3, <4>1, <4>2
      <4>3. CASE handled[d][i].from # m.from
        BY <2>5, <3>3, <4>1, <4>3
      <4>4. QED
        BY <4>2, <4>3
    <3>4. QED
      BY <2>7, <3>1, <3>2, <3>3
  <2>12. R!HandledOnceInOrder'
    <3> SUFFICES ASSUME NEW e \in Clients, NEW i \in DOMAIN handled'[e], NEW j \in DOMAIN handled'[e],
                        i < j, handled'[e][i].from = handled'[e][j].from
                 PROVE  handled'[e][i].seq < handled'[e][j].seq
      BY DEF R!HandledOnceInOrder
    <3>1. CASE e # d
      BY <1>1, <2>4, <3>1 DEF R!HandledOnceInOrder
    <3>2. CASE e = d /\ j = Len(handled[d]) + 1
      BY <2>7, <2>10, <3>2
    <3>3. CASE e = d /\ j \in 1..Len(handled[d])
      <4>1. i \in 1..Len(handled[d]) /\ i \in DOMAIN handled[d] /\ j \in DOMAIN handled[d]
        BY <2>7, <3>3
      <4>2. handled'[d][i] = handled[d][i] /\ handled'[d][j] = handled[d][j]
        BY <2>7, <3>3, <4>1
      <4>3. QED
        BY <1>1, <3>3, <4>1, <4>2 DEF R!HandledOnceInOrder
    <3>4. QED
      BY <2>7, <3>1, <3>2, <3>3
  <2>13. QED
    BY <2>3, <2>11, <2>12 DEF RInv
<1>7. QED
  BY <1>5, <1>6

LEMMA ReloadStep == ASSUME RInv, NEW d \in Clients, R!Reload(d) PROVE RInv'
<1>1. Carried /\ Remembered /\ R!HandledOnceInOrder
  BY DEF RInv
<1>2. /\ seq' \in [Clients -> Nat] /\ seenSeqs' \in [Clients -> [Clients -> Nat]]
      /\ handled' \in [Clients -> Seq(R!Message)]
  BY <1>1 DEF R!Reload, R!NewClient, Carried
<1>3. Carried'
  BY <1>1, <1>2 DEF R!Reload, R!relay, Carried
<1>4. \A e \in Clients \ {d} : handled'[e] = handled[e] /\ seenSeqs'[e] = seenSeqs[e]
  BY <1>1 DEF R!Reload, R!NewClient, Carried
<1>5. DOMAIN handled'[d] = {}
  BY <1>1 DEF R!Reload, R!NewClient, Carried
<1>6. Remembered' /\ R!HandledOnceInOrder'
  BY <1>1, <1>4, <1>5 DEF Remembered, R!HandledOnceInOrder
<1>7. QED
  BY <1>3, <1>6 DEF RInv

LEMMA RelayStepKeeps == RInv /\ [R!Next]_R!vars => RInv'
<1> SUFFICES ASSUME RInv, [R!Next]_R!vars PROVE RInv'
  OBVIOUS
<1>1. ASSUME NEW d \in Clients, R!importSyncPayload(d) PROVE RInv'
  <2>1. UNCHANGED <<retained, handler, up, down, seq, seenSeqs, handled, sent>>
    BY <1>1 DEF R!importSyncPayload, R!relay
  <2>2. QED
    BY <2>1, RelaySame DEF RInv, Carried
<1>2. CASE R!Forget
  <2>1. Carried'
    BY <1>2 DEF R!Forget, R!client, RInv, Carried
  <2>2. QED
    BY <1>2, <2>1, RelaySame DEF R!Forget, R!client
<1>3. CASE UNCHANGED R!vars
  BY <1>3, RelaySame DEF R!vars, R!relay, R!client, RInv, Carried
<1>4. QED
  BY <1>1, <1>2, <1>3, ServerSteps, SendStep, HandleStep, ReloadStep DEF R!Next, R!Receive

\* A client lets a message through once at most, a sender's messages in order.
THEOREM MessagesOnceInOrder == R!Init /\ [][R!Next]_R!vars => []R!HandledOnceInOrder
<1>1. RInv => R!HandledOnceInOrder
  BY DEF RInv
<1>2. QED
  BY <1>1, RelayInit, RelayStepKeeps, PTL

-----------------------------------------------------------------------------
(* Transfer.  A is a transfer to which anything may happen: what is proved of its *)
(* steps holds of T's and of K's.                                            *)

A == INSTANCE Transfer WITH
        NoKey <- NoSeed, Happenings <- T!Possible, rows <- table, pending <- prepared

TRow == [key : Keys, status : {"unconfirmed", "unspent", "spent"}]
Entry == [asg : A!Assignments, status : {"pending", "submitted", "failed"}]
Message == [asg : A!Assignments, by : A!Senders \cup {"nobody"},
            state : {"request", "ok", "refused"}]
Confirming ==
    {A!Idle}
    \cup [step : {"sending"}, asg : A!Assignments, payer : Keys \cup {NoSeed}]
    \cup [step : {"saving"}, asg : A!Assignments, left : SUBSET Keys]

TTypes ==
    /\ table \in Seq(TRow)
    /\ queue \in Seq(Entry)
    /\ active \in Keys \cup {NoSeed} /\ selected \in Keys \cup {NoSeed}
    /\ scanning \in Keys \cup {NoSeed}
    /\ prepared = <<>> \/ \E a \in A!Assignments : prepared = <<a>>
    /\ confirm \in Confirming
    /\ flush \in [Flushers -> SUBSET (1..Len(queue))]
    /\ wire \subseteq Message
    /\ built \in 0..MaxBuilds

\* Each sender waits for one answer at a time, to what it is at; what was answered
\* with ok is recorded.
Answered ==
    /\ \A v, w \in wire : (v.by = w.by /\ v.by # "nobody") => v = w
    /\ \A w \in wire : /\ w.state = "ok" => w.asg \in recorded
                       /\ w.by = "confirm" => confirm.step = "sending"
                       /\ w.by \in Flushers => /\ flush[w.by] # {}
                                               /\ queue[A!Min(flush[w.by])].asg = w.asg

TInv == TTypes /\ Answered /\ A!SubmittedIsRecorded

\* While nothing gets lost, no entry is ever queued, and the wire carries what the
\* handler of a click has sent.
Undisturbed ==
    /\ online /\ queue = <<>>
    /\ \A w \in wire : /\ w.by = "confirm" /\ w.asg = confirm.asg
                       /\ w.state # "ok" => w.asg \notin recorded
    /\ confirm.step = "sending" => wire # {}
    /\ confirm.step # "idle" => prepared = <<confirm.asg>>

\* What has been recorded was built before, and is not offered for confirmation.
NotOfferedAgain ==
    /\ built \in Nat
    /\ \A a \in recorded : a.id \in Nat /\ a.id <= built
    /\ prepared # <<>> => prepared[1].id \in Nat /\ prepared[1].id <= built
    /\ (confirm.step = "idle" /\ prepared # <<>>) => prepared[1] \notin recorded

Stored ==
    confirm.step = "saving" => \A k \in confirm.asg.own \ confirm.left : k \in A!RowKeys

KInv == TInv /\ Undisturbed /\ NotOfferedAgain /\ Stored /\ A!NewKeysStored

(* What the operators of the model yield. *)

LEMMA LeastExists ==
    ASSUME NEW S \in SUBSET Nat, S # {}
    PROVE  \E x \in S : \A y \in S : x =< y
<1> DEFINE less == OpToRel(<, Nat)
<1>1. /\ IsWellFoundedOn(less, Nat)
      /\ \A x, y \in Nat : y < x => <<y, x>> \in less
  BY NatLessThanWellFounded DEF OpToRel
<1> HIDE DEF less
<1>2. PICK x \in S : \A y \in S : ~ (<<y, x>> \in less)
  BY <1>1, WFMin
<1>3. ASSUME NEW y \in S PROVE x =< y
  <2>1. ~ (<<y, x>> \in less) /\ x \in Nat /\ y \in Nat
    BY <1>2
  <2>2. ~ (y < x)
    BY <1>1, <2>1
  <2>3. QED
    BY <2>1, <2>2
<1>4. QED
  BY <1>3

LEMMA MinIsIn == ASSUME NEW S \in SUBSET Nat, S # {} PROVE A!Min(S) \in S
BY LeastExists DEF A!Min

LEMMA MaxIsIn == ASSUME NEW n \in Nat, NEW S \in SUBSET (1..n), S # {} PROVE A!Max(S) \in S
<1> DEFINE U == {m \in Nat : \A y \in S : y =< m}
<1>1. n \in U /\ U \subseteq Nat
  OBVIOUS
<1>2. PICK m \in U : \A y \in U : m =< y
  BY <1>1, LeastExists
<1>3. m \in Nat /\ \A y \in S : y \in 1..n /\ y =< m
  OBVIOUS
<1>4. m \in S
  <2> SUFFICES ASSUME m \notin S PROVE FALSE
    OBVIOUS
  <2>1. PICK z \in S : TRUE
    OBVIOUS
  <2>2. m - 1 \in Nat
    BY <1>3, <2>1
  <2>3. \A y \in S : y =< m - 1
    BY <1>3
  <2>4. m - 1 \in U
    BY <2>2, <2>3
  <2>5. m =< m - 1
    BY <1>2, <2>4
  <2>6. QED
    BY <1>3, <2>5
<1> HIDE DEF U
<1>5. QED
  BY <1>3, <1>4 DEF A!Max

LEMMA FirstKeys ==
    ASSUME NEW S, IsFiniteSet(S), NEW n \in Nat, n <= Cardinality(S)
    PROVE  \E s \in SUBSET S : Cardinality(s) = n
<1>1. Cardinality(S) \in Nat /\ ExistsBijection(1..Cardinality(S), S)
  BY FS_CardinalityType
<1>2. PICK f \in Bijection(1..Cardinality(S), S) : TRUE
  BY <1>1 DEF ExistsBijection
<1>3. /\ f \in [1..Cardinality(S) -> S]
      /\ \A i, j \in 1..Cardinality(S) : f[i] = f[j] => i = j
  BY <1>2 DEF Bijection, Injection, IsInjective
<1> DEFINE s == {f[i] : i \in 1..n}
           g == [i \in 1..n |-> f[i]]
<1>4. 1..n \subseteq 1..Cardinality(S)
  BY <1>1
<1>5. s \in SUBSET S
  BY <1>3, <1>4
<1>6. g \in Bijection(1..n, s)
  BY <1>3, <1>4 DEF Bijection, Injection, Surjection, IsInjective
<1>7. Cardinality(s) = n
  BY <1>6, FS_CountingElements DEF ExistsBijection
<1>8. QED
  BY <1>5, <1>7

LEMMA NewKeysAreKeys == ASSUME NEW n \in Nat PROVE A!NewKeys(n) \subseteq Keys
<1>1. A!Cardinality(A!Fresh) = Cardinality(A!Fresh)
      /\ \A s : A!Cardinality(s) = Cardinality(s)
  BY DEF A!Cardinality, Cardinality
<1>2. A!Fresh \subseteq Keys /\ IsFiniteSet(A!Fresh)
  <2>1. IsFiniteSet(Keys) <=> T!IsFiniteSet(Keys)
    BY DEF IsFiniteSet, T!IsFiniteSet
  <2>2. QED
    BY <2>1, PartsConstants, FS_Subset DEF T!TransferConstants, A!Fresh
<1>3. CASE n > Cardinality(A!Fresh)
  BY <1>1, <1>3 DEF A!NewKeys
<1>4. CASE ~(n > Cardinality(A!Fresh))
  <2>1. \E s \in SUBSET A!Fresh : Cardinality(s) = n
    BY <1>2, <1>4, FirstKeys, FS_CardinalityType
  <2>2. QED
    BY <1>1, <1>2, <1>4, <2>1 DEF A!NewKeys
<1>5. QED
  BY <1>3, <1>4

KeysOf(rs) == {rs[i].key : i \in DOMAIN rs}

LEMMA RowAdded ==
    ASSUME NEW rs \in Seq(TRow), NEW k \in Keys
    PROVE  /\ A!WithRow(rs, k) \in Seq(TRow)
           /\ KeysOf(A!WithRow(rs, k)) = KeysOf(rs) \cup {k}
<1> DEFINE row == [key |-> k, status |-> "unconfirmed"]
<1>1. CASE \E i \in DOMAIN rs : rs[i].key = k
  BY <1>1 DEF A!WithRow, KeysOf
<1>2. CASE ~ \E i \in DOMAIN rs : rs[i].key = k
  <2>1. A!WithRow(rs, k) = Append(rs, row)
    BY <1>2 DEF A!WithRow
  <2>2. row \in TRow /\ row.key = k
    BY DEF TRow
  <2> HIDE DEF row
  <2>3. /\ Append(rs, row) \in Seq(TRow) /\ Len(Append(rs, row)) = Len(rs) + 1
        /\ \A i \in 1..Len(rs) : Append(rs, row)[i] = rs[i]
        /\ Append(rs, row)[Len(rs) + 1] = row
    BY <2>2, AppendProperties
  <2>4. /\ DOMAIN rs = 1..Len(rs) /\ Len(rs) \in Nat
        /\ DOMAIN Append(rs, row) = 1..(Len(rs) + 1)
    BY <2>3
  <2>5. KeysOf(Append(rs, row)) = KeysOf(rs) \cup {k}
    <3>1. KeysOf(Append(rs, row)) \subseteq KeysOf(rs) \cup {k}
      BY <2>2, <2>3, <2>4 DEF KeysOf
    <3>2. KeysOf(rs) \subseteq KeysOf(Append(rs, row))
      <4> SUFFICES ASSUME NEW i \in 1..Len(rs) PROVE rs[i].key \in KeysOf(Append(rs, row))
        BY <2>4 DEF KeysOf
      <4>1. i \in DOMAIN Append(rs, row) /\ Append(rs, row)[i] = rs[i]
        BY <2>3, <2>4
      <4>2. QED
        BY <4>1 DEF KeysOf
    <3>3. k \in KeysOf(Append(rs, row))
      <4>1. Len(rs) + 1 \in DOMAIN Append(rs, row) /\ Append(rs, row)[Len(rs) + 1].key = k
        BY <2>2, <2>3, <2>4
      <4>2. QED
        BY <4>1 DEF KeysOf
    <3>4. QED
      BY <3>1, <3>2, <3>3
  <2>6. QED
    BY <2>1, <2>3, <2>5
<1>3. QED
  BY <1>1, <1>2

LEMMA RowMarked ==
    ASSUME NEW rs \in Seq(TRow), NEW k
    PROVE  A!WithSpent(rs, k) \in Seq(TRow) /\ KeysOf(A!WithSpent(rs, k)) = KeysOf(rs)
<1> DEFINE new == A!WithSpent(rs, k)
<1>1. DOMAIN rs = 1..Len(rs) /\ Len(rs) \in Nat /\ \A i \in 1..Len(rs) : rs[i] \in TRow
  OBVIOUS
<1>2. ASSUME NEW i \in 1..Len(rs) PROVE new[i] \in TRow /\ new[i].key = rs[i].key
  <2>1. new[i] = IF rs[i].key = k /\ rs[i].status = "unspent"
                 THEN [rs[i] EXCEPT !.status = "spent"] ELSE rs[i]
    BY <1>1 DEF A!WithSpent
  <2>2. rs[i] \in TRow
    BY <1>1
  <2>3. QED
    BY <2>1, <2>2 DEF TRow
<1>3. new = [i \in 1..Len(rs) |-> new[i]]
  BY <1>1 DEF A!WithSpent
<1> HIDE DEF new
<1>4. new \in Seq(TRow)
  BY <1>1, <1>2, <1>3
<1>5. KeysOf(new) = KeysOf(rs)
  BY <1>1, <1>2, <1>3 DEF KeysOf
<1>6. QED
  BY <1>4, <1>5 DEF new

LEMMA FirstRows ==
    ASSUME NEW F \in SUBSET Keys, F # {}
    PROVE  LET S == {[key |-> k, status |-> "unspent"] : k \in F} IN
           \A c : c = Cardinality(S) =>
              LET rs == CHOOSE f \in [1..c -> S] : IsInjective(f)
              IN  rs \in Seq(TRow) /\ rs # <<>>
<1> DEFINE S == {[key |-> k, status |-> "unspent"] : k \in F}
           rs == CHOOSE f \in [1..Cardinality(S) -> S] : IsInjective(f)
<1>1. IsFiniteSet(F)
  <2>1. IsFiniteSet(Keys) <=> T!IsFiniteSet(Keys)
    BY DEF IsFiniteSet, T!IsFiniteSet
  <2>2. QED
    BY <2>1, PartsConstants, FS_Subset DEF T!TransferConstants
<1>2. [k \in F |-> [key |-> k, status |-> "unspent"]] \in Bijection(F, S)
  BY DEF Bijection, Injection, Surjection, IsInjective
<1>3. IsFiniteSet(S)
  BY <1>1, <1>2, FS_Bijection DEF ExistsBijection
<1>4. Cardinality(S) \in Nat /\ \E f \in [1..Cardinality(S) -> S] : IsInjective(f)
  BY <1>3, FS_CardinalityType DEF ExistsBijection, Bijection, Injection
<1>5. rs \in [1..Cardinality(S) -> S]
  BY <1>4
<1>6. S \subseteq TRow /\ S # {}
  <2>1. PICK k \in F : TRUE
    OBVIOUS
  <2>2. [key |-> k, status |-> "unspent"] \in S
    OBVIOUS
  <2>3. ASSUME NEW j \in F PROVE [key |-> j, status |-> "unspent"] \in TRow
    BY DEF TRow
  <2>4. QED
    BY <2>2, <2>3
<1>7. Cardinality(S) # 0
  BY <1>3, <1>6, FS_EmptySet
<1> HIDE DEF S, rs
<1>8. rs \in Seq(TRow) /\ rs # <<>>
  BY <1>4, <1>5, <1>6, <1>7
<1>9. QED
  BY <1>8 DEF S, rs

LEMMA FundedRows ==
    ASSUME NEW F \in SUBSET Keys, F # {}
    PROVE  LET S == {[key |-> k, status |-> "unspent"] : k \in F} IN
           /\ T!SetToSeq(S) \in Seq(TRow) /\ T!Last(T!SetToSeq(S)).key \in Keys
           /\ K!SetToSeq(S) \in Seq(TRow) /\ K!Last(K!SetToSeq(S)).key \in Keys
<1> DEFINE S == {[key |-> k, status |-> "unspent"] : k \in F}
           rs == CHOOSE f \in [1..Cardinality(S) -> S] : IsInjective(f)
<1>1. T!SetToSeq(S) = rs
  <2>1. T!Cardinality(S) = Cardinality(S)
    BY DEF T!Cardinality, Cardinality
  <2>2. \A f : T!IsInjective(f) = IsInjective(f)
    BY DEF T!IsInjective, IsInjective
  <2>3. QED
    BY <2>1, <2>2 DEF T!SetToSeq
<1>2. K!SetToSeq(S) = rs
  <2>1. K!Cardinality(S) = Cardinality(S)
    BY DEF K!Cardinality, Cardinality
  <2>2. \A f : K!IsInjective(f) = IsInjective(f)
    BY DEF K!IsInjective, IsInjective
  <2>3. QED
    BY <2>1, <2>2 DEF K!SetToSeq
<1>3. rs \in Seq(TRow) /\ rs # <<>>
  BY FirstRows
<1> HIDE DEF rs
<1>4. T!Last(rs).key \in Keys /\ K!Last(rs).key \in Keys
  <2>1. rs[Len(rs)] \in TRow
    BY <1>3
  <2>2. QED
    BY <2>1 DEF T!Last, K!Last, TRow
<1>5. QED
  BY <1>1, <1>2, <1>3, <1>4

LEMMA TransferInit == T!Init \/ K!Init => TInv
<1> SUFFICES ASSUME T!Init \/ K!Init PROVE TInv
  OBVIOUS
<1>1. table \in Seq(TRow) /\ active \in Keys
  <2>1. CASE T!Init
    BY <2>1, FundedRows, PartsConstants DEF T!Init, T!TransferConstants
  <2>2. CASE K!Init
    BY <2>2, FundedRows, PartsConstants DEF K!Init, K!TransferConstants
  <2>3. QED
    BY <2>1, <2>2
<1>2. /\ recorded = {} /\ wire = {} /\ built = 0 /\ queue = <<>> /\ prepared = <<>>
      /\ scanning = NoSeed /\ selected = NoSeed /\ confirm = A!Idle
      /\ flush = [f \in Flushers |-> {}]
  BY DEF T!Init, K!Init, T!Idle, K!Idle, A!Idle
<1>3. MaxBuilds \in Nat
  BY PartsConstants DEF T!TransferConstants
<1>4. TTypes
  BY <1>1, <1>2, <1>3 DEF TTypes, Confirming
<1>5. Answered /\ A!SubmittedIsRecorded
  BY <1>2 DEF Answered, A!SubmittedIsRecorded
<1>6. QED
  BY <1>4, <1>5 DEF TInv

\* Steps that leave alone what is sent, recorded and queued.
LEMMA QuietSteps ==
    ASSUME TInv, UNCHANGED <<recorded, queue, flush, wire>>,
           UNCHANGED confirm \/ confirm.step = "saving", TTypes'
    PROVE  TInv'
<1>1. Answered'
  BY DEF TInv, Answered
<1>2. A!SubmittedIsRecorded'
  BY DEF TInv, A!SubmittedIsRecorded
<1>3. QED
  BY <1>1, <1>2 DEF TInv

LEMMA ImportKeeps == ASSUME TInv, NEW k \in Keys, A!handleImport(k) PROVE TInv'
<1>1. A!WithRow(table, k) \in Seq(TRow)
  BY RowAdded DEF TInv, TTypes
<1>2. TTypes'
  BY <1>1 DEF TInv, TTypes, A!handleImport
<1>3. QED
  BY <1>2, QuietSteps DEF A!handleImport, A!server

LEMMA RestoredIsKey == ASSUME TInv PROVE A!Restored \in Keys \cup {NoSeed}
<1> DEFINE live == {i \in DOMAIN table : table[i].status \in {"unspent", "unconfirmed"}}
<1>0. table \in Seq(TRow)
  BY DEF TInv, TTypes
<1>1. live \in SUBSET (1..Len(table)) /\ Len(table) \in Nat
      /\ \A i \in 1..Len(table) : table[i].key \in Keys
  <2>1. DOMAIN table = 1..Len(table) /\ Len(table) \in Nat
    BY <1>0
  <2>2. \A i \in 1..Len(table) : table[i] \in TRow
    BY <1>0
  <2>3. QED
    BY <2>1, <2>2 DEF TRow
<1>2. live # {} => A!Max(live) \in live
  BY <1>1, MaxIsIn
<1>3. A!Restored = IF live = {} THEN active ELSE table[A!Max(live)].key
  BY DEF A!Restored
<1> HIDE DEF live
<1>4. QED
  BY <1>1, <1>2, <1>3 DEF TInv, TTypes

LEMMA PanelKeeps ==
    ASSUME TInv, A!handleClear \/ A!Unlock \/ A!ScanStart \/ A!ScanEnd PROVE TInv'
<1>1. TTypes'
  BY RestoredIsKey DEF TInv, TTypes, A!handleClear, A!Unlock, A!ScanStart, A!ScanEnd
<1>2. QED
  BY <1>1, QuietSteps DEF A!handleClear, A!Unlock, A!ScanStart, A!ScanEnd, A!server

LEMMA BuildKeeps == ASSUME TInv, A!Build PROVE TInv'
<1>1. PICK own \in SUBSET Keys, external \in BOOLEAN : A!handleBuild(own, external)
  <2>1. PICK external, needsChange \in BOOLEAN :
          LET n == (IF external THEN 0 ELSE 1) + (IF needsChange THEN 1 ELSE 0)
          IN  A!handleBuild(A!NewKeys(n), external)
    BY DEF A!Build
  <2>2. (IF external THEN 0 ELSE 1) + (IF needsChange THEN 1 ELSE 0) \in Nat
    OBVIOUS
  <2>3. QED
    BY <2>1, <2>2, NewKeysAreKeys
<1> DEFINE a == [id |-> built + 1, giver |-> selected, signer |-> active,
                 own |-> own, external |-> external]
<1>2. a \in A!Assignments
  BY <1>1, PartsConstants DEF TInv, TTypes, A!handleBuild, A!Assignments, T!TransferConstants
<1>3. prepared' = <<a>>
  BY <1>1 DEF A!handleBuild
<1> HIDE DEF a
<1>4. built' \in 0..MaxBuilds
  BY <1>1, PartsConstants DEF TInv, TTypes, A!handleBuild, T!TransferConstants
<1>5. TTypes'
  BY <1>1, <1>2, <1>3, <1>4 DEF TInv, TTypes, A!handleBuild
<1>6. QED
  BY <1>1, <1>5, QuietSteps DEF A!handleBuild, A!server

LEMMA SavingKeeps == ASSUME TInv, A!Edit \/ A!SaveKey \/ A!Finish PROVE TInv'
<1>1. CASE A!Edit
  <2>1. TTypes'
    BY <1>1 DEF TInv, TTypes, A!Edit
  <2>2. QED
    BY <1>1, <2>1, QuietSteps DEF A!Edit, A!server
<1>2. CASE A!SaveKey
  <2>1. PICK k \in confirm.left : /\ table' = A!WithRow(table, k)
                                  /\ confirm' = [confirm EXCEPT !.left = @ \ {k}]
    BY <1>2 DEF A!SaveKey
  <2>2. confirm.asg \in A!Assignments /\ confirm.left \in SUBSET Keys
        /\ confirm = [step |-> "saving", asg |-> confirm.asg, left |-> confirm.left]
    BY <1>2 DEF A!SaveKey, TInv, TTypes, Confirming, A!Idle
  <2>3. confirm' = [step |-> "saving", asg |-> confirm.asg, left |-> confirm.left \ {k}]
    BY <2>1, <2>2
  <2>4. confirm' \in Confirming
    BY <2>2, <2>3 DEF Confirming
  <2>5. table' \in Seq(TRow)
    BY <2>1, <2>2, RowAdded DEF TInv, TTypes
  <2>6. TTypes'
    BY <1>2, <2>4, <2>5 DEF TInv, TTypes, A!SaveKey
  <2>7. QED
    BY <1>2, <2>6, QuietSteps DEF A!SaveKey, A!server
<1>3. CASE A!Finish
  <2>1. TTypes'
    BY <1>3 DEF TInv, TTypes, A!Finish, Confirming
  <2>2. QED
    BY <1>3, <2>1, QuietSteps DEF A!Finish, A!server
<1>4. QED
  BY <1>1, <1>2, <1>3

LEMMA ConfirmKeeps == ASSUME TInv, A!handleConfirm PROVE TInv'
<1> DEFINE a == prepared[1]
           m == [asg |-> a, by |-> "confirm", state |-> "request"]
<1>1. a \in A!Assignments
  BY DEF TInv, TTypes, A!handleConfirm
<1>2. confirm' = [step |-> "sending", asg |-> a, payer |-> active] /\ confirm = A!Idle
      /\ wire' \in {wire, wire \cup {m}} /\ UNCHANGED <<recorded, queue, flush>>
  BY DEF A!handleConfirm, A!Post, A!server
<1>3. m \in Message
  BY <1>1 DEF Message, A!Senders
<1>4. /\ m.by = "confirm" /\ m.state = "request" /\ confirm'.step = "sending"
      /\ "confirm" \notin Flushers /\ confirm.step = "idle"
  BY <1>2, PartsConstants DEF T!TransferConstants, A!Idle
<1> HIDE DEF m
<1>5. TTypes'
  <2>1. confirm' \in Confirming
    BY <1>1, <1>2 DEF TInv, TTypes, Confirming
  <2>2. wire' \subseteq Message
    BY <1>2, <1>3 DEF TInv, TTypes
  <2>3. QED
    BY <2>1, <2>2 DEF TInv, TTypes, A!handleConfirm
<1>6. Answered'
  BY <1>2, <1>4 DEF TInv, Answered
<1>7. A!SubmittedIsRecorded'
  BY <1>2 DEF TInv, A!SubmittedIsRecorded
<1>8. QED
  BY <1>5, <1>6, <1>7 DEF TInv

\* An answer is taken off the wire by the handler that waited for it.
LEMMA TakenFromWire ==
    ASSUME TInv, NEW w \in wire, wire' = wire \ {w}, w.by = "confirm", TTypes',
           UNCHANGED <<recorded, queue, flush>>
    PROVE  TInv'
<1>1. "confirm" \notin Flushers
  BY PartsConstants DEF T!TransferConstants
<1>2. \A v \in wire' : v.by # "confirm"
  BY DEF TInv, Answered
<1>3. Answered'
  BY <1>1, <1>2 DEF TInv, Answered
<1>4. A!SubmittedIsRecorded'
  BY DEF TInv, A!SubmittedIsRecorded
<1>5. QED
  BY <1>3, <1>4 DEF TInv

LEMMA AnswerKeeps == ASSUME TInv, A!Recorded \/ A!Refused PROVE TInv'
<1>1. CASE A!Recorded
  <2>1. PICK w \in wire :
          /\ w.by = "confirm" /\ wire' = wire \ {w} /\ table' = A!WithSpent(table, confirm.payer)
          /\ confirm' = [step |-> "saving", asg |-> confirm.asg, left |-> confirm.asg.own]
    BY <1>1 DEF A!Recorded
  <2>2. confirm.step = "sending"
    BY <2>1 DEF TInv, Answered
  <2>3. confirm.asg \in A!Assignments /\ confirm.asg.own \subseteq Keys
    BY <2>2 DEF TInv, TTypes, Confirming, A!Idle, A!Assignments
  <2>4. table' \in Seq(TRow)
    BY <2>1, RowMarked DEF TInv, TTypes
  <2>5. TTypes'
    BY <1>1, <2>1, <2>3, <2>4 DEF TInv, TTypes, Confirming, A!Recorded
  <2>6. QED
    BY <1>1, <2>1, <2>5, TakenFromWire DEF A!Recorded, A!server
<1>2. CASE A!Refused
  <2>1. PICK w \in wire : w.by = "confirm" /\ wire' = wire \ {w} /\ confirm' = A!Idle
    BY <1>2 DEF A!Refused
  <2>2. TTypes'
    BY <1>2, <2>1 DEF TInv, TTypes, Confirming, A!Refused
  <2>3. QED
    BY <1>2, <2>1, <2>2, TakenFromWire DEF A!Refused, A!server
<1>3. QED
  BY <1>1, <1>2

LEMMA QueuedKeeps == ASSUME TInv, A!Queued PROVE TInv'
<1> DEFINE e == [asg |-> confirm.asg, status |-> "pending"]
<1>1. /\ confirm.step = "sending" /\ \A w \in wire : w.by # "confirm"
      /\ queue' = Append(queue, e) /\ confirm' = A!Idle
      /\ UNCHANGED <<recorded, flush, wire>>
  BY DEF A!Queued, A!Waiting, A!server
<1>2. e \in Entry
  BY <1>1 DEF TInv, TTypes, Confirming, A!Idle, Entry
<1>3. e.status = "pending"
  OBVIOUS
<1> HIDE DEF e
<1>4. queue \in Seq(Entry)
  BY DEF TInv, TTypes
<1>5. /\ queue' \in Seq(Entry) /\ Len(queue') = Len(queue) + 1 /\ Len(queue) \in Nat
      /\ \A i \in 1..Len(queue) : queue'[i] = queue[i]
      /\ queue'[Len(queue) + 1] = e
  BY <1>1, <1>2, <1>4, AppendProperties
<1>6. flush' \in [Flushers -> SUBSET (1..Len(queue'))]
  <2>1. flush \in [Flushers -> SUBSET (1..Len(queue))] /\ 1..Len(queue) \subseteq 1..Len(queue')
    BY <1>5 DEF TInv, TTypes
  <2>2. QED
    BY <1>1, <2>1
<1>7. TTypes'
  BY <1>1, <1>5, <1>6 DEF TInv, TTypes, Confirming, A!Queued
<1>8. Answered'
  <2>1. ASSUME NEW w \in wire, w.by \in Flushers
        PROVE  flush[w.by] # {} /\ queue'[A!Min(flush[w.by])].asg = w.asg
    <3>1. flush[w.by] \in SUBSET (1..Len(queue)) /\ flush[w.by] # {}
          /\ queue[A!Min(flush[w.by])].asg = w.asg
      BY <2>1 DEF TInv, TTypes, Answered
    <3>2. flush[w.by] \in SUBSET Nat
      BY <3>1
    <3>3. A!Min(flush[w.by]) \in 1..Len(queue)
      BY <3>1, <3>2, MinIsIn
    <3>4. QED
      BY <1>5, <3>1, <3>3
  <2>2. QED
    BY <1>1, <2>1 DEF TInv, Answered
<1>9. A!SubmittedIsRecorded'
  <2> SUFFICES ASSUME NEW i \in 1..Len(queue'), queue'[i].status = "submitted"
               PROVE  queue'[i].asg \in recorded
    BY <1>1, <1>5 DEF A!SubmittedIsRecorded
  <2>1. i \in 1..Len(queue)
    BY <1>3, <1>5
  <2>2. QED
    BY <1>4, <1>5, <2>1 DEF TInv, A!SubmittedIsRecorded
<1>10. QED
  BY <1>7, <1>8, <1>9 DEF TInv

LEMMA FlushStarts == ASSUME TInv, NEW f \in Flushers, A!flushPending(f) PROVE TInv'
<1>1. /\ flush[f] = {} /\ flush' = [flush EXCEPT ![f] = A!PendingIds]
      /\ UNCHANGED <<recorded, queue, wire, confirm>>
  BY DEF A!flushPending, A!server
<1>2. A!PendingIds \in SUBSET (1..Len(queue))
  BY DEF A!PendingIds, TInv, TTypes
<1>3. TTypes'
  BY <1>1, <1>2 DEF TInv, TTypes, A!flushPending
<1>4. Answered'
  <2>1. \A w \in wire : w.by \in Flushers => w.by # f
    BY <1>1 DEF TInv, Answered
  <2>2. \A g \in Flushers : g # f => flush'[g] = flush[g]
    BY <1>1 DEF TInv, TTypes
  <2>3. QED
    BY <1>1, <2>1, <2>2 DEF TInv, Answered
<1>5. QED
  BY <1>1, <1>3, <1>4 DEF TInv, A!SubmittedIsRecorded

LEMMA FlushSends == ASSUME TInv, NEW f \in Flushers, A!FlushSend(f) PROVE TInv'
<1> DEFINE a == queue[A!Min(flush[f])].asg
           m == [asg |-> a, by |-> f, state |-> "request"]
<1>1. /\ flush[f] # {} /\ \A w \in wire : w.by # f
      /\ wire' = wire \cup {m}
      /\ UNCHANGED <<recorded, queue, flush, confirm, table, active, selected, scanning,
                     prepared, built>>
  BY DEF A!FlushSend, A!Waiting, A!Post, A!server, A!page
<1>2. a \in A!Assignments
  <2>1. flush[f] \in SUBSET (1..Len(queue)) /\ flush[f] \in SUBSET Nat /\ queue \in Seq(Entry)
    BY DEF TInv, TTypes
  <2>2. A!Min(flush[f]) \in 1..Len(queue)
    BY <1>1, <2>1, MinIsIn
  <2>3. queue[A!Min(flush[f])] \in Entry
    BY <2>1, <2>2
  <2>4. QED
    BY <2>3 DEF Entry
<1>3. m \in Message /\ m.by = f /\ m.asg = a /\ m.state = "request" /\ f # "confirm"
  BY <1>2, PartsConstants DEF Message, A!Senders, T!TransferConstants
<1> HIDE DEF m
<1>4. TTypes'
  BY <1>1, <1>3 DEF TInv, TTypes
<1>5. Answered'
  BY <1>1, <1>3 DEF TInv, Answered
<1>6. QED
  BY <1>1, <1>4, <1>5 DEF TInv, A!SubmittedIsRecorded

LEMMA FlushIsAnswered == ASSUME TInv, NEW f \in Flushers, A!FlushAnswer(f) PROVE TInv'
<1>1. PICK w \in wire :
        /\ w.by = f /\ w.state # "request" /\ wire' = wire \ {w}
        /\ queue' = [queue EXCEPT ![A!Min(flush[f])].status = A!Marked(w.state = "ok")]
        /\ flush' = [flush EXCEPT ![f] = A!AfterFirst(@)]
  BY DEF A!FlushAnswer
<1>2. UNCHANGED <<recorded, confirm, table, active, selected, scanning, prepared, built>>
  BY DEF A!FlushAnswer, A!server
<1> DEFINE n == A!Min(flush[f])
           mark == A!Marked(w.state = "ok")
<1>3. /\ queue \in Seq(Entry) /\ flush \in [Flushers -> SUBSET (1..Len(queue))]
      /\ Len(queue) \in Nat
  BY DEF TInv, TTypes
<1>4. flush[f] # {} /\ queue[n].asg = w.asg
      /\ (w.state = "ok" => w.asg \in recorded)
  BY <1>1 DEF TInv, Answered
<1>5. n \in 1..Len(queue)
  <2>1. flush[f] \in SUBSET Nat
    BY <1>3
  <2>2. QED
    BY <1>3, <1>4, <2>1, MinIsIn
<1>6. mark \in {"submitted", "failed"} /\ (mark = "submitted" => w.asg \in recorded)
  BY <1>4 DEF A!Marked
<1>7. queue' = [i \in 1..Len(queue) |->
                  IF i = n THEN [queue[n] EXCEPT !.status = mark] ELSE queue[i]]
  <2>1. queue' = [queue EXCEPT ![n] = [queue[n] EXCEPT !.status = mark]]
    BY <1>1
  <2> HIDE DEF n, mark
  <2>2. queue = [i \in 1..Len(queue) |-> queue[i]] /\ DOMAIN queue = 1..Len(queue)
    BY <1>3
  <2>3. QED
    BY <1>5, <2>1, <2>2
<1> HIDE DEF n, mark
<1>8. ASSUME NEW i \in 1..Len(queue)
      PROVE  /\ queue'[i] \in Entry /\ queue'[i].asg = queue[i].asg
             /\ queue'[i].status = "submitted" => queue'[i].asg \in recorded
  <2>1. queue[i] \in Entry
    BY <1>3
  <2>2. CASE i = n
    <3>1. queue'[i] = [queue[i] EXCEPT !.status = mark]
      BY <1>7, <2>2
    <3>2. QED
      BY <1>4, <1>6, <2>1, <2>2, <3>1 DEF Entry
  <2>3. CASE i # n
    BY <1>3, <1>7, <2>1, <2>3 DEF TInv, A!SubmittedIsRecorded
  <2>4. QED
    BY <2>2, <2>3
<1>9. queue' \in Seq(Entry) /\ Len(queue') = Len(queue) /\ DOMAIN queue' = 1..Len(queue)
  <2>1. queue' = [i \in 1..Len(queue) |-> queue'[i]]
    BY <1>7
  <2>2. QED
    BY <1>3, <1>8, <2>1
<1>10. TTypes'
  <2>1. flush' \in [Flushers -> SUBSET (1..Len(queue'))]
    BY <1>1, <1>3, <1>9 DEF A!AfterFirst
  <2>2. QED
    BY <1>1, <1>2, <1>9, <2>1 DEF TInv, TTypes
<1>11. Answered'
  <2>1. \A v \in wire' : v \in wire /\ v.by # f
    BY <1>1, PartsConstants DEF TInv, Answered, T!TransferConstants
  <2>2. ASSUME NEW v \in wire', v.by \in Flushers
        PROVE  flush'[v.by] # {} /\ queue'[A!Min(flush'[v.by])].asg = v.asg
    <3>1. flush'[v.by] = flush[v.by] /\ flush[v.by] # {}
          /\ queue[A!Min(flush[v.by])].asg = v.asg
      BY <1>1, <1>3, <2>1, <2>2 DEF TInv, Answered
    <3>2. flush[v.by] \in SUBSET (1..Len(queue)) /\ flush[v.by] \in SUBSET Nat
      BY <1>3, <2>2
    <3>3. A!Min(flush[v.by]) \in 1..Len(queue)
      BY <3>1, <3>2, MinIsIn
    <3>4. QED
      BY <1>8, <3>1, <3>3
  <2>3. QED
    BY <1>2, <2>1, <2>2 DEF TInv, Answered
<1>12. A!SubmittedIsRecorded'
  BY <1>2, <1>8, <1>9 DEF A!SubmittedIsRecorded
<1>13. QED
  BY <1>10, <1>11, <1>12 DEF TInv

LEMMA FlushFails == ASSUME TInv, NEW f \in Flushers, A!FlushError(f) PROVE TInv'
<1>1. /\ \A w \in wire : w.by # f
      /\ flush' = [flush EXCEPT ![f] = A!AfterFirst(@)]
      /\ UNCHANGED <<recorded, queue, wire, confirm, table, active, selected, scanning,
                     prepared, built>>
  BY DEF A!FlushError, A!Waiting, A!server
<1>2. flush \in [Flushers -> SUBSET (1..Len(queue))]
  BY DEF TInv, TTypes
<1>3. TTypes'
  BY <1>1, <1>2 DEF TInv, TTypes, A!AfterFirst
<1>4. Answered'
  BY <1>1, <1>2 DEF TInv, Answered
<1>5. QED
  BY <1>1, <1>3, <1>4 DEF TInv, A!SubmittedIsRecorded

LEMMA SubmitKeeps == ASSUME TInv, NEW by, A!Submit(by) PROVE TInv'
<1>1. PICK w \in wire :
        /\ w.by = by
        /\ wire' = (wire \ {w}) \cup (IF by = "nobody" THEN {}
             ELSE {[w EXCEPT !.state = IF A!Accepts(w.asg) THEN "ok" ELSE "refused"]})
        /\ recorded' = IF A!Accepts(w.asg) THEN recorded \cup {w.asg} ELSE recorded
  BY DEF A!Submit
<1>2. UNCHANGED <<queue, flush, confirm, table, active, selected, scanning, prepared, built>>
  BY DEF A!Submit, A!page
<1> DEFINE m == [w EXCEPT !.state = IF A!Accepts(w.asg) THEN "ok" ELSE "refused"]
<1>3. w \in Message
  BY DEF TInv, TTypes
<1>4. /\ m \in Message /\ m.by = by /\ m.asg = w.asg
      /\ m.state = "ok" => m.asg \in recorded'
  BY <1>1, <1>3 DEF Message
<1>5. recorded \subseteq recorded'
  BY <1>1
<1>6. wire' \subseteq wire \cup {m} /\ (by = "nobody" => wire' = wire \ {w})
      /\ (by # "nobody" => wire' = (wire \ {w}) \cup {m})
  BY <1>1
<1> HIDE DEF m
<1>7. TTypes'
  BY <1>2, <1>4, <1>6 DEF TInv, TTypes
<1>8. Answered'
  <2>1. \A v, u \in wire' : (v.by = u.by /\ v.by # "nobody") => v = u
    BY <1>1, <1>4, <1>6 DEF TInv, Answered
  <2>2. \A v \in wire' : v.state = "ok" => v.asg \in recorded'
    BY <1>4, <1>5, <1>6 DEF TInv, Answered
  <2>3. QED
    BY <1>1, <1>2, <1>4, <1>6, <2>1, <2>2 DEF TInv, Answered
<1>9. A!SubmittedIsRecorded'
  BY <1>2, <1>5 DEF TInv, A!SubmittedIsRecorded
<1>10. QED
  BY <1>7, <1>8, <1>9 DEF TInv

LEMMA AbandonedAreNobodys ==
    ASSUME TInv
    PROVE  /\ A!Abandoned(wire) \subseteq Message
           /\ \A w \in A!Abandoned(wire) : w.by = "nobody" /\ w.state = "request"
<1>1. ASSUME NEW v \in wire, v.state = "request"
      PROVE  LET u == [v EXCEPT !.by = "nobody"]
             IN  u \in Message /\ u.by = "nobody" /\ u.state = "request"
  BY <1>1 DEF TInv, TTypes, Message
<1>2. QED
  BY <1>1 DEF A!Abandoned

LEMMA LossKeeps == ASSUME TInv, A!GoOffline \/ A!Reload PROVE TInv'
<1>1. wire' = A!Abandoned(wire) /\ UNCHANGED <<recorded, queue, built>>
  BY DEF A!GoOffline, A!Reload, A!server
<1>2. "nobody" # "confirm" /\ "nobody" \notin Flushers
  BY PartsConstants DEF T!TransferConstants
<1>3. flush' \in [Flushers -> SUBSET (1..Len(queue))]
  BY DEF TInv, TTypes, A!GoOffline, A!Reload, A!AfterFirst
<1>4. TTypes'
  <2>1. CASE A!GoOffline
    BY <1>1, <1>3, <2>1, AbandonedAreNobodys DEF TInv, TTypes, A!GoOffline
  <2>2. CASE A!Reload
    <3>1. active' \in Keys \cup {NoSeed}
      BY <2>2, RestoredIsKey DEF A!Reload
    <3>2. confirm' \in Confirming
      BY <2>2 DEF A!Reload, Confirming
    <3>3. QED
      BY <1>1, <1>3, <2>2, <3>1, <3>2, AbandonedAreNobodys DEF TInv, TTypes, A!Reload
  <2>3. QED
    BY <2>1, <2>2
<1>5. Answered'
  BY <1>1, <1>2, AbandonedAreNobodys DEF Answered
<1>6. A!SubmittedIsRecorded'
  BY <1>1 DEF TInv, A!SubmittedIsRecorded
<1>7. QED
  BY <1>4, <1>5, <1>6 DEF TInv

LEMMA ServerKeeps == ASSUME TInv, A!GoOnline \/ A!Overdue PROVE TInv'
<1>1. UNCHANGED <<recorded, table, queue, active, scanning, selected, prepared, confirm,
                  flush, wire, built>>
  BY DEF A!GoOnline, A!Overdue, A!server, A!page
<1>2. TTypes'
  BY <1>1 DEF TInv, TTypes
<1>3. QED
  BY <1>1, <1>2, QuietSteps

LEMMA TransferStepKeeps == TInv /\ A!Next => TInv'
BY ImportKeeps, PanelKeeps, BuildKeeps, SavingKeeps, ConfirmKeeps, AnswerKeeps, QueuedKeeps,
   FlushStarts, FlushSends, FlushIsAnswered, FlushFails, SubmitKeeps, LossKeeps, ServerKeeps
   DEF A!Next, A!Flush, A!Network

LEMMA SameFresh == K!Fresh = A!Fresh /\ T!Fresh = A!Fresh
BY DEF K!Fresh, K!Known, K!RowKeys, A!Fresh, A!Known, A!RowKeys, T!Fresh, T!Known, T!RowKeys

LEMMA SameNewKeys == \A n : K!NewKeys(n) = A!NewKeys(n) /\ T!NewKeys(n) = A!NewKeys(n)
BY SameFresh DEF K!NewKeys, A!NewKeys, T!NewKeys, K!Cardinality, A!Cardinality, T!Cardinality

LEMMA SameRestored == K!Restored = A!Restored /\ T!Restored = A!Restored
BY DEF K!Restored, A!Restored, T!Restored, K!Max, A!Max, T!Max

\* A's steps but for those that lose something.
LosslessStep ==
    \/ \E k \in Keys : A!handleImport(k)
    \/ A!handleClear \/ A!Unlock \/ A!ScanStart \/ A!ScanEnd
    \/ A!Build \/ A!Edit \/ A!handleConfirm \/ A!Recorded \/ A!SaveKey \/ A!Finish
    \/ A!Refused \/ A!Queued \/ \E f \in Flushers : A!Flush(f)
    \/ \E by \in A!Senders \cup {"nobody"} : A!Submit(by)
    \/ A!GoOnline \/ A!Overdue

LEMMA ChoicesMove == ASSUME K!Next PROVE LosslessStep
<1> USE DEF K!server, A!server, K!page, A!page, K!Waiting, A!Waiting, K!Post, A!Post,
            K!RowKeys, A!RowKeys, K!Idle, A!Idle, K!WithRow, A!WithRow, K!WithSpent, A!WithSpent, K!Min, A!Min,
            K!AfterFirst, A!AfterFirst
<1>1. ASSUME NEW k \in Keys, K!handleImport(k) PROVE A!handleImport(k)
  BY <1>1, SameNewKeys DEF K!handleImport, A!handleImport
<1>2. K!handleClear => A!handleClear
  BY DEF K!handleClear, A!handleClear, T!Possible
<1>3. K!Unlock => A!Unlock
  BY SameRestored DEF K!Unlock, A!Unlock, T!Possible
<1>4. K!ScanStart => A!ScanStart
  BY DEF K!ScanStart, A!ScanStart
<1>5. K!ScanEnd => A!ScanEnd
  BY DEF K!ScanEnd, A!ScanEnd
<1>6. K!Build => A!Build
  <2>1. ASSUME NEW external, NEW own, K!handleBuild(own, external) PROVE A!handleBuild(own, external)
    BY <2>1 DEF K!handleBuild, A!handleBuild
  <2>3. \A S : K!Cardinality(S) = A!Cardinality(S)
    BY DEF K!Cardinality, A!Cardinality
  <2>2. QED
    BY <2>1, <2>3, SameNewKeys DEF K!Build, A!Build, T!Possible
<1>7. K!Edit => A!Edit
  BY DEF K!Edit, A!Edit
<1>8. K!handleConfirm => A!handleConfirm
  BY DEF K!handleConfirm, A!handleConfirm
<1>9. K!Recorded => A!Recorded
  BY DEF K!Recorded, A!Recorded
<1>10. K!SaveKey => A!SaveKey
  BY DEF K!SaveKey, A!SaveKey
<1>11. (K!Finish => A!Finish) /\ (K!Refused => A!Refused) /\ (K!Queued => A!Queued)
  BY DEF K!Finish, A!Finish, K!Refused, A!Refused, K!Queued, A!Queued
<1>12. ASSUME NEW f \in Flushers, K!Flush(f) PROVE A!Flush(f)
  <2>1. K!AfterFirst(flush[f]) = A!AfterFirst(flush[f])
    OBVIOUS
  <2> QED BY <1>12 DEF K!Flush, A!Flush, K!flushPending, A!flushPending, K!FlushSend, A!FlushSend,
     K!FlushAnswer, A!FlushAnswer, K!FlushError, A!FlushError, K!PendingIds, A!PendingIds,
     K!AfterFirst, A!AfterFirst, K!Marked, A!Marked
<1>13. ASSUME NEW by, K!Submit(by) PROVE A!Submit(by)
  BY <1>13 DEF K!Submit, A!Submit, K!Accepts, A!Accepts
<1>14. ~K!GoOffline /\ ~K!Reload
  BY PartsConstants DEF K!GoOffline, K!Reload
<1>15. (K!GoOnline => A!GoOnline) /\ (K!Overdue => A!Overdue)
  BY DEF K!GoOnline, A!GoOnline, K!Overdue, A!Overdue, T!Possible
<1>16. QED
  BY <1>1, <1>2, <1>3, <1>4, <1>5, <1>6, <1>7, <1>8, <1>9, <1>10, <1>11, <1>12, <1>13, <1>14, <1>15
  DEF K!Next, LosslessStep, K!Network, K!Senders, A!Senders

LEMMA LossesMove == ASSUME T!Next PROVE A!Next
<1> USE DEF T!server, A!server, T!page, A!page, T!Waiting, A!Waiting, T!Post, A!Post,
            T!RowKeys, A!RowKeys, T!Idle, A!Idle, T!WithRow, A!WithRow, T!WithSpent, A!WithSpent, T!Min, A!Min,
            T!AfterFirst, A!AfterFirst
<1>1. ASSUME NEW k \in Keys, T!handleImport(k) PROVE A!handleImport(k)
  BY <1>1, SameNewKeys DEF T!handleImport, A!handleImport
<1>2. T!handleClear => A!handleClear
  BY DEF T!handleClear, A!handleClear, T!Possible
<1>3. T!Unlock => A!Unlock
  BY SameRestored DEF T!Unlock, A!Unlock, T!Possible
<1>4. T!ScanStart => A!ScanStart
  BY DEF T!ScanStart, A!ScanStart
<1>5. T!ScanEnd => A!ScanEnd
  BY DEF T!ScanEnd, A!ScanEnd
<1>6. T!Build => A!Build
  <2>1. ASSUME NEW external, NEW own, T!handleBuild(own, external) PROVE A!handleBuild(own, external)
    BY <2>1 DEF T!handleBuild, A!handleBuild
  <2>3. \A S : T!Cardinality(S) = A!Cardinality(S)
    BY DEF T!Cardinality, A!Cardinality
  <2>2. QED
    BY <2>1, <2>3, SameNewKeys DEF T!Build, A!Build, T!Possible
<1>7. T!Edit => A!Edit
  BY DEF T!Edit, A!Edit
<1>8. T!handleConfirm => A!handleConfirm
  BY DEF T!handleConfirm, A!handleConfirm
<1>9. T!Recorded => A!Recorded
  BY DEF T!Recorded, A!Recorded
<1>10. T!SaveKey => A!SaveKey
  BY DEF T!SaveKey, A!SaveKey
<1>11. (T!Finish => A!Finish) /\ (T!Refused => A!Refused) /\ (T!Queued => A!Queued)
  BY DEF T!Finish, A!Finish, T!Refused, A!Refused, T!Queued, A!Queued
<1>12. ASSUME NEW f \in Flushers, T!Flush(f) PROVE A!Flush(f)
  <2>1. T!AfterFirst(flush[f]) = A!AfterFirst(flush[f])
    OBVIOUS
  <2> QED BY <1>12 DEF T!Flush, A!Flush, T!flushPending, A!flushPending, T!FlushSend, A!FlushSend,
     T!FlushAnswer, A!FlushAnswer, T!FlushError, A!FlushError, T!PendingIds, A!PendingIds,
     T!AfterFirst, A!AfterFirst, T!Marked, A!Marked
<1>13. ASSUME NEW by, T!Submit(by) PROVE A!Submit(by)
  BY <1>13 DEF T!Submit, A!Submit, T!Accepts, A!Accepts
<1>14. (T!GoOffline => A!GoOffline) /\ (T!GoOnline => A!GoOnline)
  BY DEF T!GoOffline, A!GoOffline, T!GoOnline, A!GoOnline, T!Possible, T!Abandoned, A!Abandoned,
    T!AfterFirst, A!AfterFirst
<1>15. (T!Reload => A!Reload) /\ (T!Overdue => A!Overdue)
  BY SameRestored DEF T!Reload, A!Reload, T!Overdue, A!Overdue, T!Possible, T!Abandoned, A!Abandoned
<1>16. QED
  BY <1>1, <1>2, <1>3, <1>4, <1>5, <1>6, <1>7, <1>8, <1>9, <1>10, <1>11, <1>12, <1>13, <1>14, <1>15
  DEF T!Next, A!Next, T!Network, A!Network, T!Senders, A!Senders

LEMMA TransferStutters == ASSUME TInv, UNCHANGED T!vars PROVE TInv'
<1>1. UNCHANGED <<recorded, table, queue, active, scanning, selected, prepared, confirm,
                  flush, wire, built>>
  BY DEF T!vars, T!server, T!page
<1>2. TTypes'
  BY <1>1 DEF TInv, TTypes
<1>3. QED
  BY <1>1, <1>2, QuietSteps

\* T's own theorem: what is marked submitted has been recorded.
THEOREM TransfersSubmitted == T!Spec => []T!SubmittedIsRecorded
<1>1. T!Init => TInv
  BY TransferInit
<1>2. TInv /\ [T!Next]_T!vars => TInv'
  <2>1. TInv /\ T!Next => TInv'
    BY LossesMove, TransferStepKeeps
  <2>2. TInv /\ UNCHANGED T!vars => TInv'
    BY TransferStutters
  <2>3. QED
    BY <2>1, <2>2
<1>3. TInv => T!SubmittedIsRecorded
  BY DEF TInv, A!SubmittedIsRecorded, T!SubmittedIsRecorded
<1>4. QED
  BY <1>1, <1>2, <1>3, PTL DEF T!Spec

LEMMA KeysInit == K!Init => KInv
<1> SUFFICES ASSUME K!Init PROVE KInv
  OBVIOUS
<1>1. TInv
  BY TransferInit
<1>2. /\ recorded = {} /\ wire = {} /\ queue = <<>> /\ prepared = <<>> /\ online = TRUE
      /\ confirm.step = "idle" /\ built = 0
  BY DEF K!Init, K!Idle
<1>3. QED
  BY <1>1, <1>2 DEF KInv, Undisturbed, NotOfferedAgain, Stored, A!NewKeysStored

LEMMA RowKeysGrow ==
    ASSUME TInv
    PROVE  /\ \A k \in Keys : table' = A!WithRow(table, k) => A!RowKeys' = A!RowKeys \cup {k}
           /\ \A k : table' = A!WithSpent(table, k) => A!RowKeys' = A!RowKeys
<1>1. A!RowKeys = KeysOf(table) /\ A!RowKeys' = KeysOf(table') /\ table \in Seq(TRow)
  BY DEF A!RowKeys, KeysOf, TInv, TTypes
<1>2. ASSUME NEW k \in Keys, table' = A!WithRow(table, k)
      PROVE  KeysOf(table') = KeysOf(table) \cup {k}
  BY <1>1, <1>2, RowAdded
<1>3. ASSUME NEW k, table' = A!WithSpent(table, k) PROVE KeysOf(table') = KeysOf(table)
  BY <1>1, <1>3, RowMarked
<1>4. QED
  BY <1>1, <1>2, <1>3

\* Steps that leave alone what is sent and recorded, and forget no key.
LEMMA KeysQuiet ==
    ASSUME KInv, TInv', UNCHANGED <<online, queue, wire, recorded, confirm>>,
           A!RowKeys \subseteq A!RowKeys', NotOfferedAgain',
           confirm.step # "idle" => prepared' = prepared
    PROVE  KInv'
<1>1. Undisturbed' /\ Stored'
  BY DEF KInv, Undisturbed, Stored
<1>2. A!NewKeysStored'
  BY DEF KInv, A!NewKeysStored
<1>3. QED
  BY <1>1, <1>2 DEF KInv

LEMMA KeysPanel ==
    ASSUME KInv, TInv',
           \/ \E k \in Keys : A!handleImport(k)
           \/ A!handleClear \/ A!Unlock \/ A!ScanStart \/ A!ScanEnd
    PROVE  KInv'
<1>1. UNCHANGED <<online, queue, wire, recorded, confirm, prepared, built>>
  BY DEF A!handleImport, A!handleClear, A!Unlock, A!ScanStart, A!ScanEnd, A!server
<1>2. A!RowKeys \subseteq A!RowKeys'
  <2>1. CASE UNCHANGED table
    BY <2>1 DEF A!RowKeys
  <2>2. ASSUME NEW k \in Keys, A!handleImport(k) PROVE A!RowKeys \subseteq A!RowKeys'
    BY <2>2, RowKeysGrow DEF A!handleImport, KInv
  <2>3. QED
    BY <2>1, <2>2 DEF A!handleClear, A!Unlock, A!ScanStart, A!ScanEnd
<1>3. NotOfferedAgain'
  BY <1>1 DEF KInv, NotOfferedAgain
<1>4. QED
  BY <1>1, <1>2, <1>3, KeysQuiet

LEMMA KeysBuild == ASSUME KInv, TInv', A!Build \/ A!Edit PROVE KInv'
<1>1. confirm = A!Idle /\ UNCHANGED <<online, queue, wire, recorded, confirm, table>>
  BY DEF A!Build, A!handleBuild, A!Edit, A!server
<1>2. confirm.step = "idle" /\ A!RowKeys' = A!RowKeys
  BY <1>1 DEF A!Idle, A!RowKeys
<1>3. built \in Nat
  BY PartsConstants DEF KInv, TInv, TTypes, T!TransferConstants
<1>4. NotOfferedAgain'
  <2>1. CASE A!Edit
    BY <1>1, <2>1 DEF A!Edit, KInv, NotOfferedAgain
  <2>2. CASE A!Build
    <3>1. prepared'[1].id = built + 1 /\ built' = built + 1
      BY <2>2 DEF A!Build, A!handleBuild
    <3>2. \A a \in recorded : a.id <= built /\ a.id \in Nat
      BY <2>2 DEF KInv, NotOfferedAgain
    <3>3. QED
      BY <1>1, <1>3, <3>1, <3>2 DEF NotOfferedAgain
  <2>3. QED
    BY <2>1, <2>2
<1>5. QED
  BY <1>1, <1>2, <1>4, KeysQuiet

LEMMA KeysConfirm == ASSUME KInv, TInv', A!handleConfirm PROVE KInv'
<1>1. /\ prepared # <<>> /\ confirm = A!Idle /\ online
      /\ confirm' = [step |-> "sending", asg |-> prepared[1], payer |-> active]
      /\ wire' = wire \cup {[asg |-> prepared[1], by |-> "confirm", state |-> "request"]}
      /\ UNCHANGED <<online, queue, recorded, table, prepared, built>>
  BY DEF A!handleConfirm, A!Post, A!server, KInv, Undisturbed
<1>2. confirm.step = "idle" /\ A!RowKeys' = A!RowKeys
  BY <1>1 DEF A!Idle, A!RowKeys
<1>3. wire = {}
  BY <1>2 DEF KInv, TInv, Answered, Undisturbed
<1>4. prepared = <<prepared[1]>>
  BY <1>1 DEF KInv, TInv, TTypes
<1>5. Undisturbed'
  BY <1>1, <1>2, <1>3, <1>4 DEF KInv, Undisturbed, NotOfferedAgain
<1>6. NotOfferedAgain' /\ Stored' /\ A!NewKeysStored'
  BY <1>1, <1>2 DEF KInv, NotOfferedAgain, Stored, A!NewKeysStored
<1>7. QED
  BY <1>5, <1>6 DEF KInv

LEMMA KeysRecorded == ASSUME KInv, TInv', A!Recorded PROVE KInv'
<1>1. PICK w \in wire :
        /\ w.by = "confirm" /\ w.state = "ok" /\ wire' = wire \ {w}
        /\ table' = A!WithSpent(table, confirm.payer)
        /\ confirm' = [step |-> "saving", asg |-> confirm.asg, left |-> confirm.asg.own]
  BY DEF A!Recorded
<1>2. UNCHANGED <<online, queue, recorded, prepared, built>>
  BY DEF A!Recorded, A!server
<1>3. confirm.step = "sending" /\ wire' = {}
  BY <1>1 DEF KInv, TInv, Answered, Undisturbed
<1>4. A!RowKeys' = A!RowKeys
  BY <1>1, RowKeysGrow DEF KInv
<1>5. Undisturbed' /\ NotOfferedAgain' /\ Stored' /\ A!NewKeysStored'
  BY <1>1, <1>2, <1>3, <1>4
  DEF KInv, Undisturbed, NotOfferedAgain, Stored, A!NewKeysStored
<1>6. QED
  BY <1>5 DEF KInv

LEMMA KeysSaved == ASSUME KInv, TInv', A!SaveKey PROVE KInv'
<1>1. PICK k \in confirm.left : /\ table' = A!WithRow(table, k)
                                /\ confirm' = [confirm EXCEPT !.left = @ \ {k}]
  BY DEF A!SaveKey
<1>2. UNCHANGED <<online, queue, wire, recorded, prepared, built>> /\ confirm.step = "saving"
  BY DEF A!SaveKey, A!server
<1>3. confirm = [step |-> "saving", asg |-> confirm.asg, left |-> confirm.left]
      /\ confirm.left \subseteq Keys
  BY <1>2 DEF KInv, TInv, TTypes, Confirming, A!Idle
<1>4. confirm' = [step |-> "saving", asg |-> confirm.asg, left |-> confirm.left \ {k}]
  BY <1>1, <1>3
<1>5. A!RowKeys' = A!RowKeys \cup {k}
  BY <1>1, <1>3, RowKeysGrow DEF KInv
<1>6. Undisturbed' /\ NotOfferedAgain' /\ Stored' /\ A!NewKeysStored'
  BY <1>2, <1>3, <1>4, <1>5
  DEF KInv, Undisturbed, NotOfferedAgain, Stored, A!NewKeysStored
<1>7. QED
  BY <1>6 DEF KInv

LEMMA KeysFinish == ASSUME KInv, TInv', A!Finish PROVE KInv'
<1>1. /\ confirm.step = "saving" /\ confirm.left = {} /\ confirm'.step = "idle"
      /\ prepared' = <<>> /\ UNCHANGED <<online, queue, wire, recorded, table, built>>
  BY DEF A!Finish, A!Idle, A!server
<1>2. A!RowKeys' = A!RowKeys /\ wire = {}
  BY <1>1 DEF A!RowKeys, KInv, TInv, Answered, Undisturbed
<1>3. Undisturbed' /\ NotOfferedAgain' /\ Stored' /\ A!NewKeysStored'
  BY <1>1, <1>2 DEF KInv, Undisturbed, NotOfferedAgain, Stored, A!NewKeysStored
<1>4. QED
  BY <1>3 DEF KInv

LEMMA KeysRefused == ASSUME KInv, TInv', A!Refused PROVE KInv'
<1>1. PICK w \in wire : w.by = "confirm" /\ w.state = "refused" /\ wire' = wire \ {w}
  BY DEF A!Refused
<1>2. /\ confirm'.step = "idle"
      /\ UNCHANGED <<online, queue, recorded, prepared, table, built>>
  BY DEF A!Refused, A!Idle, A!server
<1>3. /\ confirm.step = "sending" /\ wire' = {} /\ w.asg = confirm.asg
      /\ confirm.asg \notin recorded /\ prepared = <<confirm.asg>>
  BY <1>1 DEF KInv, TInv, Answered, Undisturbed
<1>4. A!RowKeys' = A!RowKeys
  BY <1>2 DEF A!RowKeys
<1>5. Undisturbed' /\ NotOfferedAgain' /\ Stored' /\ A!NewKeysStored'
  BY <1>2, <1>3, <1>4 DEF KInv, Undisturbed, NotOfferedAgain, Stored, A!NewKeysStored
<1>6. QED
  BY <1>5 DEF KInv

LEMMA KeysSubmit == ASSUME KInv, TInv', NEW by, A!Submit(by) PROVE KInv'
<1>1. PICK w \in wire :
        /\ w.by = by
        /\ wire' = (wire \ {w}) \cup (IF by = "nobody" THEN {}
             ELSE {[w EXCEPT !.state = IF A!Accepts(w.asg) THEN "ok" ELSE "refused"]})
        /\ recorded' = IF A!Accepts(w.asg) THEN recorded \cup {w.asg} ELSE recorded
        /\ w.state = "request"
  BY DEF A!Submit
<1>2. UNCHANGED <<online, queue, table, prepared, confirm, built>>
  BY DEF A!Submit, A!page
<1>3. /\ w.by = "confirm" /\ confirm.step = "sending" /\ w.asg = confirm.asg
      /\ w.asg \notin recorded /\ prepared = <<confirm.asg>> /\ w \in Message
  BY <1>1 DEF KInv, TInv, TTypes, Answered, Undisturbed
<1> DEFINE m == [w EXCEPT !.state = IF A!Accepts(w.asg) THEN "ok" ELSE "refused"]
<1>4. /\ m.by = "confirm" /\ m.asg = w.asg
      /\ m.state # "ok" => recorded' = recorded
  BY <1>1, <1>3 DEF Message
<1>5. wire' = {m}
  <2>1. wire = {w}
    BY <1>1, <1>3 DEF KInv, TInv, Answered, Undisturbed
  <2>2. QED
    BY <1>1, <1>3, <2>1
<1> HIDE DEF m
<1>6. A!RowKeys' = A!RowKeys /\ prepared[1] = confirm.asg /\ prepared # <<>>
  BY <1>2, <1>3 DEF A!RowKeys
<1>7. Undisturbed'
  BY <1>2, <1>3, <1>4, <1>5 DEF KInv, Undisturbed
<1>8. NotOfferedAgain' /\ Stored' /\ A!NewKeysStored'
  BY <1>1, <1>2, <1>3, <1>6 DEF KInv, NotOfferedAgain, Stored, A!NewKeysStored
<1>9. QED
  BY <1>7, <1>8 DEF KInv

\* While nothing gets lost there is nothing to queue, to flush or to let expire.
LEMMA NothingQueued ==
    ASSUME KInv
    PROVE  /\ ~A!Queued /\ ~A!GoOnline /\ ~A!Overdue
           /\ \A f \in Flushers : ~A!Flush(f)
<1>1. online /\ queue = <<>> /\ DOMAIN queue = {} /\ Len(queue) = 0
  BY DEF KInv, Undisturbed
<1>2. ~A!GoOnline /\ ~A!Overdue
  BY <1>1 DEF A!GoOnline, A!Overdue
<1>3. ~A!Queued
  BY DEF KInv, Undisturbed, A!Queued, A!Waiting
<1>4. ASSUME NEW f \in Flushers PROVE ~A!Flush(f)
  <2>1. flush[f] = {}
    BY <1>1 DEF KInv, TInv, TTypes
  <2>2. A!PendingIds = {}
    BY <1>1 DEF A!PendingIds
  <2>3. \A w \in wire : w.by # f
    BY <2>1 DEF KInv, TInv, Answered
  <2>4. QED
    BY <2>1, <2>2, <2>3
    DEF A!Flush, A!flushPending, A!FlushSend, A!FlushAnswer, A!FlushError
<1>5. QED
  BY <1>2, <1>3, <1>4

LEMMA KeysStepKeeps == KInv /\ [K!Next]_K!vars => KInv'
<1>1. ASSUME KInv, K!Next PROVE KInv'
  <2>1. LosslessStep
    BY <1>1, ChoicesMove
  <2>2. TInv'
    BY <1>1, <2>1, TransferStepKeeps DEF KInv, LosslessStep, A!Next, A!Network
  <2>3. QED
    BY <1>1, <2>1, <2>2, NothingQueued, KeysPanel, KeysBuild, KeysConfirm, KeysRecorded,
       KeysSaved, KeysFinish, KeysRefused, KeysSubmit DEF LosslessStep
<1>2. ASSUME KInv, UNCHANGED K!vars PROVE KInv'
  <2>1. UNCHANGED <<recorded, table, queue, active, scanning, selected, prepared, confirm,
                    flush, wire, online, built>>
    BY <1>2 DEF K!vars, K!server, K!page
  <2>2. TTypes'
    BY <1>2, <2>1 DEF KInv, TInv, TTypes
  <2>3. TInv'
    BY <1>2, <2>1, <2>2, QuietSteps DEF KInv
  <2>4. A!RowKeys' = A!RowKeys /\ NotOfferedAgain'
    BY <1>2, <2>1 DEF A!RowKeys, KInv, NotOfferedAgain
  <2>5. QED
    BY <1>2, <2>1, <2>3, <2>4, KeysQuiet
<1>3. QED
  BY <1>1, <1>2

\* K's: the seed of every own key that a recorded transfer pays is stored, or about to be.
THEOREM KeysOfTransfersStored == K!Spec => []K!NewKeysStored
<1>1. KInv => K!NewKeysStored
  BY DEF KInv, A!NewKeysStored, A!RowKeys, K!NewKeysStored, K!RowKeys
<1>2. QED
  BY <1>1, KeysInit, KeysStepKeeps, PTL DEF K!Spec

-----------------------------------------------------------------------------
(* The run's specification: a behaviour of one part leaves the others alone. *)

LEMMA PartsMove ==
    [MCNext]_<<part, vars, relayVars, walletVars, transferVars>>
      => [R!Next]_R!vars /\ [W!Next]_W!vars
<1>1. RelayStep => R!Next /\ UNCHANGED W!vars
  BY DEF RelayStep, walletVars, W!vars
<1>2. WalletStep => W!Next /\ UNCHANGED R!vars
  BY DEF WalletStep, relayVars, R!vars, R!relay, R!client
<1>3. PairingStep \/ TransferStep \/ KeysStep
        \/ UNCHANGED <<part, vars, relayVars, walletVars, transferVars>>
      => UNCHANGED relayVars /\ UNCHANGED walletVars
  BY DEF PairingStep, TransferStep, KeysStep
<1>4. (UNCHANGED relayVars => UNCHANGED R!vars) /\ (UNCHANGED walletVars => UNCHANGED W!vars)
  BY DEF relayVars, R!vars, R!relay, R!client, walletVars, W!vars
<1>5. QED
  BY <1>1, <1>2, <1>3, <1>4 DEF MCNext

\* A client of the relay lets a message through once at most, a sender's in order.
THEOREM DevicesHandleOnce == MCSpec => []HandledOnceInOrder
<1>1. MCSpec => R!Init /\ [][R!Next]_R!vars
  <2>1. MCInit => R!Init
    BY DEF MCInit
  <2>2. QED
    BY <2>1, PartsMove, PTL DEF MCSpec
<1>2. R!HandledOnceInOrder => HandledOnceInOrder
  BY DEF HandledOnceInOrder
<1>3. QED
  BY <1>1, <1>2, MessagesOnceInOrder, PTL

\* A relay key belongs to one pair of devices.
THEOREM DevicesShareKeys == MCSpec => []KeyOfTwo
<1>1. MCInit => PairInv
  BY InitInv DEF MCInit
<1>2. PairInv /\ [MCNext]_<<part, vars, relayVars, walletVars, transferVars>> => PairInv'
  <2>1. [MCNext]_<<part, vars, relayVars, walletVars, transferVars>> => [Next]_vars
    BY DEF MCNext, PairingStep, RelayStep, KeysStep, WalletStep, TransferStep
  <2>2. QED
    BY <2>1, NextInv
<1>3. PairInv => KeyOfTwo
  BY OwnersTell DEF PairInv
<1>4. QED
  BY <1>1, <1>2, <1>3, PTL DEF MCSpec

\* A key marked spent stays so.
THEOREM DevicesSpendForGood == MCSpec => SpentStays
<1>1. MCSpec => W!Init /\ [][W!Next]_W!vars
  <2>1. MCInit => W!Init
    BY DEF MCInit
  <2>2. QED
    BY <2>1, PartsMove, PTL DEF MCSpec
<1>2. QED
  BY <1>1, SpentForGood DEF SpentStays

SumInv == TInv /\ (part = "keys" => KInv)

LEMMA SumInitially == MCInit => SumInv
BY TransferInit, KeysInit DEF MCInit, SumInv

LEMMA SumKept ==
    SumInv /\ [MCNext]_<<part, vars, relayVars, walletVars, transferVars>> => SumInv'
<1> SUFFICES ASSUME SumInv, [MCNext]_<<part, vars, relayVars, walletVars, transferVars>>
             PROVE  SumInv'
  OBVIOUS
<1>1. CASE TransferStep
  BY <1>1, LossesMove, TransferStepKeeps DEF TransferStep, SumInv
<1>2. CASE KeysStep
  BY <1>2, KeysStepKeeps DEF KeysStep, SumInv, KInv
<1>3. CASE UNCHANGED <<part, transferVars>>
  <2>1. TInv => TInv'
    BY <1>3, TransferStutters DEF transferVars, T!vars, T!server, T!page
  <2>2. KInv => KInv'
    BY <1>3, KeysStepKeeps DEF transferVars, K!vars, K!server, K!page
  <2>3. QED
    BY <1>3, <2>1, <2>2 DEF SumInv
<1>4. QED
  BY <1>1, <1>2, <1>3 DEF MCNext, RelayStep, WalletStep, PairingStep

\* What the queue calls submitted is in a block.
THEOREM DevicesSubmit == MCSpec => []SubmittedIsRecorded
<1>1. SumInv => SubmittedIsRecorded
  BY DEF SumInv, TInv, SubmittedIsRecorded, T!SubmittedIsRecorded, A!SubmittedIsRecorded
<1>2. QED
  BY <1>1, SumInitially, SumKept, PTL DEF MCSpec

\* While nothing gets lost the seed of every own key that a recorded transfer pays is
\* stored, or about to be.
THEOREM DevicesStoreKeys == MCSpec => []NewKeysStored
<1>1. SumInv => NewKeysStored
  BY DEF SumInv, KInv, NewKeysStored, A!NewKeysStored, A!RowKeys, K!NewKeysStored, K!RowKeys
<1>2. QED
  BY <1>1, SumInitially, SumKept, PTL DEF MCSpec
=============================================================================
