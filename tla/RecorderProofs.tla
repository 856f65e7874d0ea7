--------------------------- MODULE RecorderProofs ---------------------------
(***************************************************************************)
(* One chain, for any number of keys, shares, exchanges, successors and    *)
(* instants: its tables stay well typed and agree with each other, what is *)
(* settled, spent, frozen, pending or refuted stays so, shares are         *)
(* conserved, and nothing but the recorder's rewards may stay locked.      *)
(***************************************************************************)
EXTENDS Recorder, SequenceTheorems, SumLemmas, TLAPS

Row == [status : UtxoStatus, key : AllKeys \cup {NoKey}, amount : Nat, ts : Times]
EscrowRow == [status : CaaStatus, deadline : Times, givers : SUBSET SeqIds,
              receivers : SUBSET SeqIds, rewards : SUBSET SeqIds, bond : Nat, by : Recorders]
FreshRow == [key : AllKeys \ usedKeys, amount : Amounts]

Live(table) == {s \in SeqIds : table[s].status \in {"unspent", "escrowed"}}

\* Two receivers of one CAA.
Shared(esc, s, r) == \E h \in Caas : {s, r} \subseteq esc[h].receivers

\* LiveKeysUnique of a table that is being rewritten.
Unique(table, used, esc) ==
    /\ \A s \in Live(table) : table[s].key \in used
    /\ \A s, r \in Live(table) : table[s].key = table[r].key /\ s # r => Shared(esc, s, r)

\* EscrowCoherence of tables that are being rewritten.
HeldIn(esc, h) == esc[h].givers \cup esc[h].receivers \cup esc[h].rewards
Coherent(table, esc) ==
    /\ \A h \in ActiveIn(esc) : \A s \in HeldIn(esc, h) : table[s].status = "escrowed"
    /\ \A h, k \in ActiveIn(esc) : h # k => HeldIn(esc, h) \cap HeldIn(esc, k) = {}
    /\ \A h \in ActiveIn(esc) :
          /\ esc[h].givers # {} /\ esc[h].receivers # {}
          /\ esc[h].givers \cap (esc[h].receivers \cup esc[h].rewards) = {}
          /\ esc[h].receivers \cap esc[h].rewards = {}

\* A hand-over that waits for escrows can still stamp the block that ends it.
PendingLeavesRoom == pending # None => lastTs < MaxTime

\* The migration found nothing open, and nothing was opened since.
FrozenQuiet == frozen => Active = {} /\ pending = None

\* Receivers of different CAAs are different rows, settled ones included, for
\* sequence ids are handed out once.
ReceiversApart ==
    /\ \A h \in Caas : \A s \in escrow[h].receivers : s < nextSeq
    /\ \A h, k \in Caas : h # k => escrow[h].receivers \cap escrow[k].receivers = {}
    /\ \A h \in Caas : escrow[h].status = "none" => escrow[h].receivers = {}

\* A recorded agreement has spent its givers.
RecordedSpends ==
    \A a \in Agreements : recorded[a] # 0 =>
        /\ recorded[a] = 1
        /\ \A s \in AgreementGivers[a] : utxo[s].status = "spent"

\* What GoneForGood says of a step.
RowsKept ==
    \A s \in SeqIds :
       /\ utxo[s].status \in {"spent", "expired"} => utxo'[s] = utxo[s]
       /\ utxo[s].status = "absent" /\ s < nextSeq => utxo'[s] = utxo[s]
       /\ utxo[s].status # "absent" /\ utxo'[s].status # "absent" =>
             utxo'[s] = [utxo[s] EXCEPT !.status = utxo'[s].status]

IInv ==
    /\ TypeOK /\ EscrowCoherence /\ EscrowsOfIncumbent
    /\ PendingLeavesRoom /\ FrozenQuiet
    /\ ReceiversApart /\ RecordedSpends /\ LiveKeysUnique

-----------------------------------------------------------------------------
(* Rows that a block creates.                                              *)

LEMMA ReceiverRows ==
    ASSUME NEW total, NEW rcv \in CaaReceiverLists(total)
    PROVE  /\ rcv \in Seq(FreshRow) /\ Len(rcv) \in Nat \ {0}
           /\ \A i \in 1..Len(rcv) : rcv[i].key \in Keys
<1>0. PICK n \in 1..MaxReceivers : rcv \in ListsOfLength(n, total)
  BY DEF CaaReceiverLists
<1>1. PICK k \in [1..n -> Keys \ usedKeys], m \in Splits(total, n) :
          rcv = [i \in 1..n |-> [key |-> k[i], amount |-> m[i]]]
  BY <1>0 DEF ListsOfLength
<1>2. m \in [1..n -> Amounts] /\ n \in Nat \ {0}
  BY ConstantsAssumption DEF Splits
<1>3. rcv \in [1..n -> FreshRow] /\ \A i \in 1..n : rcv[i].key \in Keys
  BY <1>1, <1>2 DEF FreshRow, AllKeys
<1>4. rcv \in Seq(FreshRow) /\ Len(rcv) = n
  BY <1>2, <1>3
<1> QED
  BY <1>2, <1>3, <1>4

LEMMA RewardRow ==
    ASSUME NEW reward, NEW rew \in RewardRows(reward)
    PROVE  /\ rew \in Seq(FreshRow) /\ Len(rew) \in {0, 1}
           /\ \A i \in 1..Len(rew) : rew[i].key \in RewardKeys
<1>1. CASE rew = <<>>
  BY <1>1
<1>2. CASE rew # <<>>
  <2>1. PICK k \in RewardKeys \ usedKeys, m \in Amounts : rew = <<[key |-> k, amount |-> m]>>
    BY <1>2 DEF RewardRows
  <2>2. [key |-> k, amount |-> m] \in FreshRow
    BY DEF FreshRow, AllKeys
  <2> QED
    BY <2>1, <2>2
<1> QED
  BY <1>1, <1>2

\* Receivers first, then the reward: fresh keys, the reward's apart from the
\* receivers'.
LEMMA NewRows ==
    ASSUME NEW total, NEW reward,
           NEW rcv \in CaaReceiverLists(total), NEW rew \in RewardRows(reward)
    PROVE  /\ rcv \o rew \in Seq(FreshRow)
           /\ Len(rcv) \in Nat \ {0} /\ Len(rcv \o rew) \in Nat
           /\ Len(rcv) <= Len(rcv \o rew) /\ Len(rcv \o rew) <= Len(rcv) + 1
           /\ \A i \in 1..Len(rcv \o rew) :
                 IF i <= Len(rcv) THEN (rcv \o rew)[i] = rcv[i] /\ rcv[i].key \in Keys
                 ELSE (rcv \o rew)[i].key \in RewardKeys
<1>1. /\ rcv \in Seq(FreshRow) /\ Len(rcv) \in Nat \ {0}
      /\ \A i \in 1..Len(rcv) : rcv[i].key \in Keys
  BY ReceiverRows
<1>2. /\ rew \in Seq(FreshRow) /\ Len(rew) \in {0, 1}
      /\ \A i \in 1..Len(rew) : rew[i].key \in RewardKeys
  BY RewardRow
<1>3. /\ rcv \o rew \in Seq(FreshRow) /\ Len(rcv \o rew) = Len(rcv) + Len(rew)
      /\ \A i \in 1..Len(rcv) + Len(rew) :
            (rcv \o rew)[i] = IF i <= Len(rcv) THEN rcv[i] ELSE rew[i - Len(rcv)]
  BY <1>1, <1>2, ConcatProperties
<1> QED
  BY <1>1, <1>2, <1>3

LEMMA FreshKeys ==
    ASSUME NEW rows \in Seq(FreshRow)
    PROVE  /\ KeysOf(rows) \subseteq AllKeys \ usedKeys
           /\ \A i \in 1..Len(rows) : rows[i] \in FreshRow /\ rows[i].key \in KeysOf(rows)
<1>1. DOMAIN rows = 1..Len(rows) /\ \A i \in 1..Len(rows) : rows[i] \in FreshRow
  BY LenProperties, ElementOfSeq
<1> QED
  BY <1>1 DEF KeysOf, FreshRow

LEMMA Inserted ==
    ASSUME TypeOK, NEW rows \in Seq(FreshRow), nextSeq + Len(rows) - 1 <= MaxSeq,
           NEW ts \in Times, NEW st \in UtxoStatus, NEW table \in [SeqIds -> Row]
    PROVE  LET t == InsertRows(table, rows, ts, st) IN
           /\ t \in [SeqIds -> Row]
           /\ \A s \in SeqIds : s \notin NewSeqs(rows) => t[s] = table[s]
           /\ \A s \in NewSeqs(rows) :
                 /\ s \in SeqIds /\ s >= nextSeq /\ s < nextSeq + Len(rows)
                 /\ t[s].status = st
                 /\ s - nextSeq + 1 \in 1..Len(rows)
                 /\ t[s].key = rows[s - nextSeq + 1].key
                 /\ t[s].key \in KeysOf(rows)
<1> DEFINE t == InsertRows(table, rows, ts, st)
<1>1. nextSeq \in Nat /\ nextSeq >= 2 /\ Len(rows) \in Nat /\ MaxSeq \in Nat
  BY LenProperties, ConstantsAssumption DEF TypeOK
<1>2. \A s \in NewSeqs(rows) : /\ s \in SeqIds /\ s >= nextSeq /\ s < nextSeq + Len(rows)
                               /\ s - nextSeq + 1 \in 1..Len(rows)
  BY <1>1 DEF NewSeqs, SeqIds
<1>3. \A s \in NewSeqs(rows) :
          /\ rows[s - nextSeq + 1] \in FreshRow
          /\ rows[s - nextSeq + 1].key \in KeysOf(rows)
  BY <1>2, FreshKeys
<1>4. \A s \in NewSeqs(rows) :
          t[s] = [status |-> st, key |-> rows[s - nextSeq + 1].key,
                  amount |-> rows[s - nextSeq + 1].amount, ts |-> ts]
  BY <1>2 DEF InsertRows
<1>5. \A s \in SeqIds : s \notin NewSeqs(rows) => t[s] = table[s]
  BY DEF InsertRows
<1>6. t = [s \in SeqIds |-> t[s]]
  BY DEF InsertRows
<1> HIDE DEF t
<1>7. ASSUME NEW s \in NewSeqs(rows)
      PROVE  /\ t[s].status = st /\ t[s].key = rows[s - nextSeq + 1].key
             /\ t[s] \in Row
  <2>1. /\ rows[s - nextSeq + 1].key \in AllKeys
        /\ rows[s - nextSeq + 1].amount \in Nat
    BY <1>3, ConstantsAssumption DEF FreshRow, Amounts
  <2>2. t[s] = [status |-> st, key |-> rows[s - nextSeq + 1].key,
                amount |-> rows[s - nextSeq + 1].amount, ts |-> ts]
    BY <1>4
  <2> QED
    BY <2>1, <2>2 DEF Row
<1>8. t \in [SeqIds -> Row]
  BY <1>5, <1>6, <1>7
<1>9. /\ t \in [SeqIds -> Row]
      /\ \A s \in SeqIds : s \notin NewSeqs(rows) => t[s] = table[s]
      /\ \A s \in NewSeqs(rows) :
            /\ s \in SeqIds /\ s >= nextSeq /\ s < nextSeq + Len(rows)
            /\ t[s].status = st
            /\ s - nextSeq + 1 \in 1..Len(rows)
            /\ t[s].key = rows[s - nextSeq + 1].key
            /\ t[s].key \in KeysOf(rows)
  BY <1>2, <1>3, <1>5, <1>7, <1>8
<1> QED
  BY <1>9 DEF t

-----------------------------------------------------------------------------
(* Rewriting the tables.                                                   *)

LEMMA Typed ==
    ASSUME TypeOK
    PROVE  /\ utxo \in [SeqIds -> Row] /\ escrow \in [Caas -> EscrowRow]
           /\ \A h \in Caas : /\ escrow[h] \in EscrowRow
                              /\ escrow[h].givers \subseteq SeqIds
                              /\ escrow[h].receivers \subseteq SeqIds
                              /\ escrow[h].rewards \subseteq SeqIds
BY DEF TypeOK, Row, EscrowRow

LEMMA CoherentNow ==
    /\ EscrowCoherence <=> Coherent(utxo, escrow)
    /\ LiveKeysUnique <=> Unique(utxo, usedKeys, escrow)
<1>1. EscrowCoherence <=> Coherent(utxo, escrow)
  BY DEF EscrowCoherence, Coherent, Held, HeldIn, Active
<1>2. LiveKeysUnique <=> Unique(utxo, usedKeys, escrow)
  BY DEF LiveKeysUnique, Unique, Live, Shared
<1> QED
  BY <1>1, <1>2

LEMMA CoherentNext ==
    /\ EscrowCoherence' <=> Coherent(utxo', escrow')
    /\ LiveKeysUnique' <=> Unique(utxo', usedKeys', escrow')
<1>1. EscrowCoherence' <=> Coherent(utxo', escrow')
  BY DEF EscrowCoherence, Coherent, Held, HeldIn, Active, ActiveIn
<1>2. LiveKeysUnique' <=> Unique(utxo', usedKeys', escrow')
  BY DEF LiveKeysUnique, Unique, Live, Shared
<1> QED
  BY <1>1, <1>2

LEMMA StatusSet ==
    ASSUME NEW table \in [SeqIds -> Row], NEW S \in SUBSET SeqIds, NEW st \in UtxoStatus
    PROVE  /\ SetStatus(table, S, st) \in [SeqIds -> Row]
           /\ \A s \in SeqIds : s \notin S => SetStatus(table, S, st)[s] = table[s]
           /\ \A s \in S : SetStatus(table, S, st)[s].status = st
           /\ \A s \in SeqIds : SetStatus(table, S, st)[s].key = table[s].key
<1> DEFINE t == SetStatus(table, S, st)
<1>1. \A s \in SeqIds : s \notin S => t[s] = table[s]
  BY DEF SetStatus
<1>2. \A s \in S : t[s] = [table[s] EXCEPT !.status = st]
  BY DEF SetStatus
<1>3. t = [s \in SeqIds |-> t[s]]
  BY DEF SetStatus
<1> HIDE DEF t
<1>4. ASSUME NEW s \in SeqIds
      PROVE  t[s] \in Row /\ t[s].key = table[s].key /\ (s \in S => t[s].status = st)
  <2>1. table[s] \in Row
    OBVIOUS
  <2>2. CASE s \in S
    <3>1. t[s] = [table[s] EXCEPT !.status = st]
      BY <1>2, <2>2
    <3> QED
      BY <2>1, <3>1 DEF Row
  <2>3. CASE s \notin S
    BY <1>1, <2>1, <2>3
  <2> QED
    BY <2>2, <2>3
<1>5. /\ t \in [SeqIds -> Row]
      /\ \A s \in S : t[s].status = st
      /\ \A s \in SeqIds : t[s].key = table[s].key
  BY <1>3, <1>4
<1>6. /\ t \in [SeqIds -> Row]
      /\ \A s \in SeqIds : s \notin S => t[s] = table[s]
      /\ \A s \in S : t[s].status = st
      /\ \A s \in SeqIds : t[s].key = table[s].key
  BY <1>1, <1>5
<1> QED
  BY <1>6 DEF t

LEMMA StatusTyped ==
    ASSUME NEW table \in [SeqIds -> Row], NEW S \in SUBSET SeqIds, NEW st \in UtxoStatus
    PROVE  SetStatus(table, S, st) \in [SeqIds -> Row]
BY StatusSet

LEMMA StatusIs ==
    ASSUME NEW table \in [SeqIds -> Row], NEW S \in SUBSET SeqIds, NEW st \in UtxoStatus,
           NEW s \in S
    PROVE  SetStatus(table, S, st)[s].status = st
BY StatusSet

\* Two rows that differ in nothing but their status.
Kin(r, q) == q.key = r.key /\ q.amount = r.amount /\ q.ts = r.ts

LEMMA KinRows ==
    ASSUME NEW r \in Row, NEW q \in Row, Kin(r, q)
    PROVE  q = [r EXCEPT !.status = q.status]
BY DEF Kin, Row

LEMMA StatusKin ==
    ASSUME NEW table \in [SeqIds -> Row], NEW S \in SUBSET SeqIds, NEW st \in UtxoStatus,
           NEW s \in SeqIds
    PROVE  Kin(table[s], SetStatus(table, S, st)[s])
<1>1. table[s] \in Row
  OBVIOUS
<1>2. CASE s \in S
  <2>1. SetStatus(table, S, st)[s] = [table[s] EXCEPT !.status = st]
    BY <1>2 DEF SetStatus
  <2> QED
    BY <1>1, <2>1 DEF Row, Kin
<1>3. CASE s \notin S
  <2>1. SetStatus(table, S, st)[s] = table[s]
    BY <1>3 DEF SetStatus
  <2> QED
    BY <2>1 DEF Kin
<1> QED
  BY <1>2, <1>3

LEMMA SweepTables ==
    ASSUME IInv, NEW ts \in Times
    PROVE  /\ SweptUtxo(ts) \in [SeqIds -> Row] /\ SweptEscrow(ts) \in [Caas -> EscrowRow]
           /\ SweptReleases(ts) \in [SeqIds -> Times \cup {Never}]
           /\ SweptKeys(ts) \subseteq usedKeys
           /\ ActiveIn(SweptEscrow(ts)) \subseteq Active \ TimedOut(ts)
           /\ \A h \in Caas :
                 /\ h \notin TimedOut(ts) => SweptEscrow(ts)[h] = escrow[h]
                 /\ SweptEscrow(ts)[h].status = "none" => escrow[h].status = "none"
                 /\ SweptEscrow(ts)[h].givers = escrow[h].givers
                 /\ SweptEscrow(ts)[h].receivers = escrow[h].receivers
                 /\ SweptEscrow(ts)[h].rewards = escrow[h].rewards
                 /\ SweptEscrow(ts)[h].by = escrow[h].by
<1>0. utxo \in [SeqIds -> Row] /\ escrow \in [Caas -> EscrowRow]
  BY Typed DEF IInv
<1>1. SweptUtxo(ts) \in [SeqIds -> Row]
  <2>1. Absent \in Row
    BY ConstantsAssumption DEF Absent, Row, UtxoStatus, Times
  <2>2. ASSUME NEW s \in SeqIds, NEW st \in {"unspent", "expired"}
        PROVE  [utxo[s] EXCEPT !.status = st] \in Row
    BY <1>0, <2>2 DEF Row, UtxoStatus
  <2> QED
    BY <1>0, <2>1, <2>2 DEF SweptUtxo
<1>2. SweptEscrow(ts) \in [Caas -> EscrowRow]
  <2>1. ASSUME NEW h \in Caas PROVE [escrow[h] EXCEPT !.status = "expired"] \in EscrowRow
    BY <1>0 DEF EscrowRow, CaaStatus
  <2> QED
    BY <1>0, <2>1 DEF SweptEscrow
<1>3. SweptReleases(ts) \in [SeqIds -> Times \cup {Never}]
  BY DEF SweptReleases, IInv, TypeOK
<1>4. ASSUME NEW h \in Caas
      PROVE  /\ h \notin TimedOut(ts) => SweptEscrow(ts)[h] = escrow[h]
             /\ h \in TimedOut(ts) => SweptEscrow(ts)[h].status = "expired"
             /\ SweptEscrow(ts)[h].givers = escrow[h].givers
             /\ SweptEscrow(ts)[h].receivers = escrow[h].receivers
             /\ SweptEscrow(ts)[h].rewards = escrow[h].rewards
             /\ SweptEscrow(ts)[h].by = escrow[h].by
  BY <1>0 DEF SweptEscrow, EscrowRow
<1>5. ActiveIn(SweptEscrow(ts)) \subseteq Active \ TimedOut(ts)
  BY <1>4 DEF ActiveIn, Active
<1> QED
  BY <1>1, <1>2, <1>3, <1>4, <1>5 DEF SweptKeys

LEMMA SweepRows ==
    ASSUME IInv, NEW ts \in Times, NEW s \in SeqIds
    PROVE  /\ utxo[s].status \in {"absent", "spent", "expired"} => SweptUtxo(ts)[s] = utxo[s]
           /\ SweptUtxo(ts)[s].status # "absent" =>
                 /\ s \notin DroppedReceivers(ts)
                 /\ Kin(utxo[s], SweptUtxo(ts)[s])
                 /\ SweptUtxo(ts)[s].key = utxo[s].key
           /\ utxo[s].status = "unspent" => SweptUtxo(ts)[s].status # "absent"
           /\ s \in Live(SweptUtxo(ts)) => s \in Live(utxo)
           /\ utxo[s].status = "escrowed" /\ s \notin DroppedReceivers(ts) \cup ReleasedGivers(ts)
                 => SweptUtxo(ts)[s].status = "escrowed"
           /\ s \in DroppedReceivers(ts) => SweptUtxo(ts)[s] = Absent
<1>0. utxo[s] \in Row
  BY Typed DEF IInv
<1>1. s \in DroppedReceivers(ts) \cup ReleasedGivers(ts) => utxo[s].status = "escrowed"
  BY DEF IInv, EscrowCoherence, Held, DroppedReceivers, ReleasedGivers, TimedOut
<1>2. s \in Expirable(ts) => utxo[s].status = "unspent"
  BY DEF Expirable, Unspent
<1>3. CASE s \in DroppedReceivers(ts)
  <2>1. SweptUtxo(ts)[s] = Absent
    BY <1>3 DEF SweptUtxo
  <2> QED
    BY <1>1, <1>3, <2>1 DEF Absent, Live
<1>4. CASE s \notin DroppedReceivers(ts) /\ s \in ReleasedGivers(ts)
  <2>1. SweptUtxo(ts)[s] = [utxo[s] EXCEPT !.status = "unspent"]
    BY <1>4 DEF SweptUtxo
  <2>2. SweptUtxo(ts)[s].status = "unspent" /\ Kin(utxo[s], SweptUtxo(ts)[s])
    BY <1>0, <2>1 DEF Row, Kin
  <2> QED
    BY <1>1, <1>4, <2>2 DEF Live, Kin
<1>5. CASE s \notin DroppedReceivers(ts) \cup ReleasedGivers(ts) /\ s \in Expirable(ts)
  <2>1. SweptUtxo(ts)[s] = [utxo[s] EXCEPT !.status = "expired"]
    BY <1>5 DEF SweptUtxo
  <2>2. SweptUtxo(ts)[s].status = "expired" /\ Kin(utxo[s], SweptUtxo(ts)[s])
    BY <1>0, <2>1 DEF Row, Kin
  <2> QED
    BY <1>2, <1>5, <2>2 DEF Live, Kin
<1>6. CASE s \notin DroppedReceivers(ts) \cup ReleasedGivers(ts) \cup Expirable(ts)
  <2>1. SweptUtxo(ts)[s] = utxo[s]
    BY <1>6 DEF SweptUtxo
  <2> QED
    BY <1>6, <2>1 DEF Live, Kin
<1> QED
  BY <1>3, <1>4, <1>5, <1>6

\* What the sweep leaves is coherent: no exchange that goes on loses a share to
\* one that has timed out.
LEMMA SweepCoherent ==
    ASSUME IInv, NEW ts \in Times
    PROVE  Coherent(SweptUtxo(ts), SweptEscrow(ts))
<1> DEFINE esc == SweptEscrow(ts)
<1>1. /\ ActiveIn(esc) \subseteq Active \ TimedOut(ts) /\ Active \subseteq Caas
      /\ \A h \in Caas : HeldIn(esc, h) = Held(h) /\ esc[h].givers = escrow[h].givers
                         /\ esc[h].receivers = escrow[h].receivers
                         /\ esc[h].rewards = escrow[h].rewards
      /\ \A h \in Caas : Held(h) \subseteq SeqIds
  BY SweepTables, Typed DEF HeldIn, Held, Active, ActiveIn, IInv
<1> HIDE DEF esc
<1>2. ASSUME NEW h \in ActiveIn(esc), NEW s \in HeldIn(esc, h)
      PROVE  SweptUtxo(ts)[s].status = "escrowed"
  <2>1. h \in Active /\ s \in Held(h) /\ s \in SeqIds /\ h \in Caas /\ h \notin TimedOut(ts)
    BY <1>1, <1>2
  <2>2. utxo[s].status = "escrowed"
    BY <2>1 DEF IInv, EscrowCoherence
  <2>3. ASSUME NEW k \in TimedOut(ts) PROVE s \notin Held(k)
    BY <2>1, <2>3 DEF IInv, EscrowCoherence, TimedOut
  <2>4. s \notin DroppedReceivers(ts) \cup ReleasedGivers(ts)
    BY <2>3 DEF DroppedReceivers, ReleasedGivers, Held
  <2> QED
    BY <2>1, <2>2, <2>4, SweepRows
<1>3. \A h, k \in ActiveIn(esc) : h # k => HeldIn(esc, h) \cap HeldIn(esc, k) = {}
  BY <1>1 DEF IInv, EscrowCoherence
<1>4. \A h \in ActiveIn(esc) :
          /\ esc[h].givers # {} /\ esc[h].receivers # {}
          /\ esc[h].givers \cap (esc[h].receivers \cup esc[h].rewards) = {}
          /\ esc[h].receivers \cap esc[h].rewards = {}
  BY <1>1 DEF IInv, EscrowCoherence
<1> QED
  BY <1>2, <1>3, <1>4 DEF Coherent, esc

\* The keys a sweep takes out of used_keys belong to no live share.
LEMMA SweepUnique ==
    ASSUME IInv, NEW ts \in Times
    PROVE  Unique(SweptUtxo(ts), SweptKeys(ts), SweptEscrow(ts))
<1>1. \A h \in Caas : SweptEscrow(ts)[h].receivers = escrow[h].receivers
  BY SweepTables
<1>2. \A s \in Live(SweptUtxo(ts)) : /\ s \in SeqIds /\ s \in Live(utxo)
                                     /\ s \notin DroppedReceivers(ts)
                                     /\ SweptUtxo(ts)[s].key = utxo[s].key
  BY SweepRows DEF Live
<1>3. /\ \A s \in Live(utxo) : utxo[s].key \in usedKeys
      /\ \A s, r \in Live(utxo) : utxo[s].key = utxo[r].key /\ s # r => Shared(escrow, s, r)
  BY CoherentNow DEF IInv, Unique
<1>4. ASSUME NEW s \in Live(SweptUtxo(ts)) PROVE SweptUtxo(ts)[s].key \in SweptKeys(ts)
  <2>1. SUFFICES ASSUME NEW r \in DroppedReceivers(ts), utxo[r].key = utxo[s].key
                 PROVE  FALSE
    BY <1>2, <1>3 DEF SweptKeys
  <2>2. PICK h \in TimedOut(ts) : r \in escrow[h].receivers
    BY DEF DroppedReceivers
  <2>3. h \in Active /\ h \in Caas /\ r \in SeqIds
    BY <2>2, Typed DEF TimedOut, Active, ActiveIn, IInv
  <2>4. r \in Live(utxo)
    BY <2>2, <2>3 DEF IInv, EscrowCoherence, Held, Live
  <2>5. s # r
    BY <1>2
  <2>6. PICK k \in Caas : {s, r} \subseteq escrow[k].receivers
    BY <1>2, <1>3, <2>1, <2>4, <2>5 DEF Shared
  <2>7. k = h
    BY <2>2, <2>3, <2>6 DEF IInv, ReceiversApart
  <2>8. s \in DroppedReceivers(ts)
    BY <2>2, <2>6, <2>7 DEF DroppedReceivers
  <2> QED
    BY <1>2, <2>8
<1>5. \A s, r \in Live(SweptUtxo(ts)) :
          SweptUtxo(ts)[s].key = SweptUtxo(ts)[r].key /\ s # r => Shared(SweptEscrow(ts), s, r)
  BY <1>1, <1>2, <1>3 DEF Shared
<1> QED
  BY <1>4, <1>5 DEF Unique

\* Changing the status of rows that no open exchange holds is harmless, and so
\* is ending an exchange.
LEMMA StatusCoherent ==
    ASSUME NEW table \in [SeqIds -> Row], NEW esc, Coherent(table, esc),
           NEW S \in SUBSET SeqIds, NEW st \in UtxoStatus,
           \A h \in ActiveIn(esc) : HeldIn(esc, h) \cap S = {},
           \A h \in ActiveIn(esc) : HeldIn(esc, h) \subseteq SeqIds
    PROVE  Coherent(SetStatus(table, S, st), esc)
<1>1. ASSUME NEW h \in ActiveIn(esc), NEW s \in HeldIn(esc, h)
      PROVE  SetStatus(table, S, st)[s].status = "escrowed"
  <2>1. s \in SeqIds /\ s \notin S /\ table[s].status = "escrowed"
    BY DEF Coherent
  <2> QED
    BY <2>1, StatusSet
<1> QED
  BY <1>1 DEF Coherent

LEMMA StatusUnique ==
    ASSUME NEW table \in [SeqIds -> Row], NEW used, NEW esc, Unique(table, used, esc),
           NEW S \in SUBSET SeqIds, NEW st \in UtxoStatus,
           st \in {"unspent", "escrowed"} => S \subseteq Live(table)
    PROVE  Unique(SetStatus(table, S, st), used, esc)
<1> DEFINE t == SetStatus(table, S, st)
<1> HIDE DEF t
<1>1. /\ \A s \in SeqIds : t[s].key = table[s].key
      /\ \A s \in SeqIds : s \notin S => t[s] = table[s]
      /\ \A s \in S : t[s].status = st
  <2>1. \A s \in SeqIds : t[s].key = table[s].key
    BY StatusSet DEF t
  <2>2. \A s \in SeqIds : s \notin S => t[s] = table[s]
    BY StatusSet, SMTT(30) DEF t
  <2>3. \A s \in S : t[s].status = st
    BY StatusSet DEF t
  <2> QED
    BY <2>1, <2>2, <2>3
<1>2. Live(t) \subseteq Live(table)
  BY <1>1 DEF Live
<1>3. Unique(t, used, esc)
  BY <1>1, <1>2 DEF Unique, Live
<1> QED
  BY <1>3 DEF t

\* New rows under fresh keys.
LEMMA InsertUnique ==
    ASSUME TypeOK, NEW rows \in Seq(FreshRow), nextSeq + Len(rows) - 1 <= MaxSeq,
           NEW ts \in Times, NEW st \in UtxoStatus, NEW table \in [SeqIds -> Row],
           NEW used \in SUBSET usedKeys, NEW esc, Unique(table, used, esc),
           \A i, j \in 1..Len(rows) : rows[i].key = rows[j].key /\ i # j =>
               Shared(esc, nextSeq + i - 1, nextSeq + j - 1)
    PROVE  Unique(InsertRows(table, rows, ts, st), used \cup KeysOf(rows), esc)
<1> DEFINE t == InsertRows(table, rows, ts, st)
<1>0. nextSeq \in Nat /\ Len(rows) \in Nat
  BY LenProperties DEF TypeOK
<1>1. /\ \A s \in SeqIds : s \notin NewSeqs(rows) => t[s] = table[s]
      /\ \A s \in NewSeqs(rows) : /\ s - nextSeq + 1 \in 1..Len(rows)
                                  /\ t[s].key = rows[s - nextSeq + 1].key
                                  /\ t[s].key \in KeysOf(rows)
                                  /\ s \in Nat
  BY <1>0, Inserted DEF NewSeqs
<1>2. KeysOf(rows) \cap usedKeys = {}
  BY FreshKeys
<1> HIDE DEF t
<1>3. \A s \in Live(t) : s \in NewSeqs(rows) \/ (s \in Live(table) /\ t[s] = table[s])
  BY <1>1 DEF Live
<1>4. \A s \in Live(t) : t[s].key \in used \cup KeysOf(rows)
  BY <1>1, <1>3 DEF Unique
<1>5. ASSUME NEW s \in Live(t), NEW r \in Live(t), t[s].key = t[r].key, s # r
      PROVE  Shared(esc, s, r)
  <2>1. CASE s \in NewSeqs(rows) /\ r \in NewSeqs(rows)
    <3> DEFINE i == s - nextSeq + 1  j == r - nextSeq + 1
    <3>1. /\ i \in 1..Len(rows) /\ j \in 1..Len(rows) /\ i # j
          /\ rows[i].key = rows[j].key /\ s = nextSeq + i - 1 /\ r = nextSeq + j - 1
      BY <1>0, <1>1, <1>5, <2>1, SMTT(30)
    <3> HIDE DEF i, j
    <3> QED
      BY <3>1
  <2>2. CASE s \in NewSeqs(rows) /\ r \notin NewSeqs(rows)
    BY <1>1, <1>2, <1>3, <1>5, <2>2 DEF Unique
  <2>3. CASE s \notin NewSeqs(rows) /\ r \in NewSeqs(rows)
    BY <1>1, <1>2, <1>3, <1>5, <2>3 DEF Unique
  <2>4. CASE s \notin NewSeqs(rows) /\ r \notin NewSeqs(rows)
    BY <1>3, <1>5, <2>4 DEF Unique
  <2> QED
    BY <2>1, <2>2, <2>3, <2>4
<1>6. Unique(t, used \cup KeysOf(rows), esc)
  BY <1>4, <1>5 DEF Unique
<1> QED
  BY <1>6 DEF t

-----------------------------------------------------------------------------
(* The pieces the handlers are built from.                                 *)

LEMMA BlockTime ==
    ASSUME TypeOK, NEW wall \in WallReads
    PROVE  /\ wall \in Times /\ wall \in Nat /\ BlockTs(wall) \in Nat /\ BlockTs(wall) > lastTs
           /\ BlockTs(wall) >= wall
           /\ BlockTs(wall) < MaxTime => BlockTs(wall) \in Times
BY ConstantsAssumption DEF TypeOK, WallReads, BlockTs, Times

\* The tail of a handler: the change in waiting is made, or kept with room for
\* the block that makes it.
LEMMA AutoChange ==
    ASSUME NEW pend \in Successors \cup {None}, recorder \in Recorders,
           NEW base \in Times, NEW last \in Times, NEW crash \in BOOLEAN,
           pend # None => last < MaxTime,
           AutoRecorderChange(pend, escrow', base, last, crash)
    PROVE  /\ pending' \in Successors \cup {None} /\ recorder' \in Recorders
           /\ lastTs' \in Times /\ lastTs' >= last
           /\ pending' # None => pending' = pend /\ lastTs' = last
           /\ recorder' # recorder => ActiveIn(escrow') = {}
           /\ pend # None => pending' = pend \/ (pending' = None /\ recorder' = pend)
<1>1. CASE pend # None /\ ActiveIn(escrow') = {} /\ ~crash
  <2>1. pending' = None /\ recorder' = pend /\ pend \in Recorders
    BY <1>1 DEF AutoRecorderChange, Recorders
  <2>2. lastTs' = IF base > last THEN base ELSE last + 1
    BY <1>1 DEF AutoRecorderChange
  <2>3. lastTs' \in Times /\ lastTs' >= last
    BY <1>1, <2>2, ConstantsAssumption DEF Times
  <2> QED
    BY <1>1, <2>1, <2>3
<1>2. CASE ~(pend # None /\ ActiveIn(escrow') = {} /\ ~crash)
  <2>1. pending' = pend /\ recorder' = recorder /\ lastTs' = last
    BY <1>2 DEF AutoRecorderChange
  <2> QED
    BY <2>1, ConstantsAssumption DEF Times
<1> QED
  BY <1>1, <1>2

\* An assignment's new rows have keys of their own.
LEMMA AssignmentRows ==
    ASSUME NEW total, NEW reward,
           NEW rcv \in ReceiverLists(total), NEW rew \in RewardRows(reward)
    PROVE  /\ rcv \in CaaReceiverLists(total)
           /\ \A i, j \in 1..Len(rcv \o rew) : (rcv \o rew)[i].key = (rcv \o rew)[j].key => i = j
<1>1. /\ rcv \in CaaReceiverLists(total)
      /\ \A i, j \in DOMAIN rcv : rcv[i].key = rcv[j].key => i = j
  BY DEF ReceiverLists
<1>2. DOMAIN rcv = 1..Len(rcv)
  BY <1>1, ReceiverRows
<1>3. /\ Len(rcv) \in Nat \ {0} /\ Len(rcv \o rew) \in Nat
      /\ Len(rcv \o rew) <= Len(rcv) + 1
      /\ \A i \in 1..Len(rcv \o rew) :
            IF i <= Len(rcv) THEN (rcv \o rew)[i] = rcv[i] /\ rcv[i].key \in Keys
            ELSE (rcv \o rew)[i].key \in RewardKeys
  BY <1>1, NewRows
<1>4. Keys \cap RewardKeys = {}
  BY ConstantsAssumption
<1> DEFINE rows == rcv \o rew
<1> HIDE DEF rows
<1>5. \A i, j \in 1..Len(rows) : rows[i].key = rows[j].key => i = j
  BY <1>1, <1>2, <1>3, <1>4 DEF rows
<1> QED
  BY <1>1, <1>5 DEF rows

\* A CAA's new rows share a key among its receivers only.
LEMMA CaaRows ==
    ASSUME NEW total, NEW reward,
           NEW rcv \in CaaReceiverLists(total), NEW rew \in RewardRows(reward),
           NEW i \in 1..Len(rcv \o rew), NEW j \in 1..Len(rcv \o rew),
           (rcv \o rew)[i].key = (rcv \o rew)[j].key, i # j
    PROVE  i \in 1..Len(rcv) /\ j \in 1..Len(rcv)
<1>1. /\ Len(rcv) \in Nat \ {0} /\ Len(rcv \o rew) \in Nat
      /\ Len(rcv \o rew) <= Len(rcv) + 1
      /\ \A n \in 1..Len(rcv \o rew) :
            IF n <= Len(rcv) THEN (rcv \o rew)[n] = rcv[n] /\ rcv[n].key \in Keys
            ELSE (rcv \o rew)[n].key \in RewardKeys
  BY NewRows
<1>2. Keys \cap RewardKeys = {}
  BY ConstantsAssumption
<1> QED
  BY <1>1, <1>2

\* Steps that leave the tables alone keep what is said about them.
LEMMA SameTables ==
    ASSUME IInv, UNCHANGED <<utxo, usedKeys, escrow, nextSeq, recorded>>
    PROVE  EscrowCoherence' /\ ReceiversApart' /\ RecordedSpends' /\ LiveKeysUnique'
           /\ Active' = Active
<1>1. EscrowCoherence' /\ LiveKeysUnique'
  BY CoherentNow, CoherentNext DEF IInv
<1> QED
  BY <1>1 DEF IInv, ReceiversApart, RecordedSpends, Active, ActiveIn

-----------------------------------------------------------------------------
(* Initial states and steps.                                               *)

LEMMA InitInv == Init => IInv
<1> SUFFICES ASSUME Init PROVE IInv
  OBVIOUS
<1> USE DEF Init
<1>1. /\ MaxSeq \in Nat \ {0} /\ MaxTime \in Nat /\ GenesisShares \in Nat \ {0}
      /\ NoKey \notin AllKeys /\ None \notin Recorders
      /\ 0 \in Times /\ 1 \in SeqIds /\ 2 \in 2..MaxSeq + 1 /\ \A s \in SeqIds : s \in Nat
  BY ConstantsAssumption DEF Times, SeqIds
<1>2. TypeOK
  <2>1. Absent \in Row /\ [status |-> "unspent", key |-> IssuerKey,
                           amount |-> GenesisShares, ts |-> 0] \in Row
    BY <1>1 DEF Absent, Row, UtxoStatus, AllKeys
  <2>2. utxo \in [SeqIds -> Row] /\ \A s \in SeqIds : s >= nextSeq => utxo[s] = Absent
    BY <1>1, <2>1
  <2>3. NoEscrow \in EscrowRow
    BY <1>1 DEF NoEscrow, EscrowRow, CaaStatus, Recorders
  <2>4. escrow \in [Caas -> EscrowRow]
    BY <2>3
  <2>5. usedKeys \subseteq AllKeys /\ recorder \in Recorders
    BY DEF AllKeys, Recorders
  <2> QED
    BY <1>1, <2>2, <2>4, <2>5 DEF TypeOK, Row, EscrowRow
<1>3. Active = {}
  BY DEF Active, ActiveIn, NoEscrow
<1>4. ReceiversApart
  BY DEF ReceiversApart, NoEscrow
<1>5. LiveKeysUnique
  <2>1. \A s \in SeqIds : utxo[s].status \in {"unspent", "escrowed"} => s = 1
    BY DEF Absent
  <2> QED
    BY <1>1, <2>1 DEF LiveKeysUnique
<1> QED
  BY <1>2, <1>3, <1>4, <1>5 DEF IInv, EscrowCoherence, EscrowsOfIncumbent, PendingLeavesRoom,
                                FrozenQuiet, RecordedSpends

\* Administrative blocks: the chain's meta rows change, its tables do not.
LEMMA MetaInv ==
    ASSUME IInv, UNCHANGED tables, UNCHANGED <<nextSeq, recorded, frozen, clock>>, ~frozen,
           NEW pend \in Successors \cup {None}, NEW wall \in WallReads, NEW crash \in BOOLEAN,
           rewardNum' \in RewardRates, BlockTs(wall) < MaxTime,
           AutoRecorderChange(pend, escrow, BlockTs(wall), BlockTs(wall), crash)
    PROVE  IInv'
<1>1. BlockTs(wall) \in Times /\ recorder \in Recorders
  BY BlockTime DEF IInv, TypeOK
<1>2. /\ pending' \in Successors \cup {None} /\ recorder' \in Recorders /\ lastTs' \in Times
      /\ pending' # None => lastTs' = BlockTs(wall)
      /\ recorder' # recorder => Active = {}
  <2>1. escrow' = escrow
    BY DEF tables
  <2> QED
    BY <1>1, <2>1, AutoChange DEF Active
<1>3. TypeOK'
  BY <1>2 DEF IInv, TypeOK, tables
<1>4. EscrowCoherence' /\ ReceiversApart' /\ RecordedSpends' /\ LiveKeysUnique' /\ Active' = Active
  BY SameTables DEF tables
<1>5. EscrowsOfIncumbent'
  BY <1>2, <1>4 DEF IInv, EscrowsOfIncumbent, tables
<1>6. PendingLeavesRoom' /\ FrozenQuiet'
  BY <1>2 DEF PendingLeavesRoom, FrozenQuiet
<1> QED
  BY <1>3, <1>4, <1>5, <1>6 DEF IInv

LEMMA AdminInv ==
    ASSUME IInv, NEW wall \in WallReads, NEW crash \in BOOLEAN,
           \/ SubmitAdmin(wall, crash)
           \/ \E n \in RewardRates : SubmitRewardRate(n, wall, crash)
           \/ \E r \in Successors : SubmitPending(r, wall, crash)
    PROVE  IInv'
<1>1. CASE SubmitAdmin(wall, crash)
  <2>1. pending \in Successors \cup {None} /\ rewardNum \in RewardRates
    BY DEF IInv, TypeOK
  <2> QED
    BY <1>1, <2>1, MetaInv DEF SubmitAdmin
<1>2. CASE \E n \in RewardRates : SubmitRewardRate(n, wall, crash)
  <2>1. pending \in Successors \cup {None}
    BY DEF IInv, TypeOK
  <2> QED
    BY <1>2, <2>1, MetaInv DEF SubmitRewardRate
<1>3. CASE \E r \in Successors : SubmitPending(r, wall, crash)
  <2>1. rewardNum \in RewardRates
    BY DEF IInv, TypeOK
  <2> QED
    BY <1>3, <2>1, MetaInv DEF SubmitPending
<1> QED
  BY <1>1, <1>2, <1>3

LEMMA RecorderChangeInv ==
    ASSUME IInv, NEW wall \in WallReads, SubmitRecorderChange(wall) PROVE IInv'
<1> USE DEF SubmitRecorderChange
<1>1. /\ lastTs' \in Times /\ recorder' \in Recorders /\ pending' = None
  BY BlockTime DEF IInv, TypeOK, Recorders
<1>2. TypeOK'
  BY <1>1 DEF IInv, TypeOK, tables
<1>3. EscrowCoherence' /\ ReceiversApart' /\ RecordedSpends' /\ LiveKeysUnique' /\ Active' = {}
  BY SameTables DEF tables
<1> QED
  BY <1>1, <1>2, <1>3 DEF IInv, EscrowsOfIncumbent, PendingLeavesRoom, FrozenQuiet

LEMMA QuietInv ==
    ASSUME IInv, Tick \/ (\E a \in Agreements : Refute(a)) \/ UNCHANGED vars PROVE IInv'
<1>1. UNCHANGED <<utxo, usedKeys, escrow, releasedAt, rewardSeeds, meta, blocks>>
  BY DEF Tick, Refute, vars, tables
<1>2. refuted' \subseteq Agreements /\ clock' \in Times
  BY ConstantsAssumption DEF IInv, TypeOK, Tick, Refute, vars, tables, Times
<1>3. TypeOK'
  BY <1>1, <1>2 DEF IInv, TypeOK, meta, blocks
<1>4. EscrowCoherence' /\ ReceiversApart' /\ RecordedSpends' /\ LiveKeysUnique' /\ Active' = Active
  BY <1>1, SameTables DEF meta, blocks
<1>5. EscrowsOfIncumbent' /\ PendingLeavesRoom' /\ FrozenQuiet'
  BY <1>1, <1>4 DEF IInv, EscrowsOfIncumbent, PendingLeavesRoom, FrozenQuiet, meta
<1> QED
  BY <1>3, <1>4, <1>5 DEF IInv

LEMMA MigrationInv ==
    ASSUME IInv, NEW wall \in WallReads, SubmitMigration(wall)
    PROVE  IInv' /\ RowsKept
<1> DEFINE ts == BlockTs(wall)
<1>0. ts \in Times
  BY BlockTime DEF IInv, SubmitMigration, Migratable
<1> HIDE DEF ts
<1>1. /\ ~frozen /\ Active = {} /\ pending = None
      /\ utxo' = SetStatus(utxo, Expirable(ts), "expired")
      /\ frozen' = TRUE /\ lastTs' = ts
      /\ UNCHANGED <<usedKeys, escrow, releasedAt, refuted, rewardSeeds, sharesOut, nextSeq,
                     rewardNum, pending, recorder, recorded, clock>>
  BY DEF SubmitMigration, Migratable, ts
<1>2. /\ utxo \in [SeqIds -> Row] /\ Expirable(ts) \in SUBSET SeqIds
      /\ \A s \in Expirable(ts) : utxo[s].status = "unspent"
      /\ "expired" \in UtxoStatus
  BY Typed DEF IInv, Expirable, Unspent, UtxoStatus
<1>3. /\ utxo' \in [SeqIds -> Row]
      /\ \A s \in SeqIds : s \notin Expirable(ts) => utxo'[s] = utxo[s]
  <2>1. utxo' \in [SeqIds -> Row]
    BY <1>1, <1>2, StatusTyped
  <2>2. \A s \in SeqIds : s \notin Expirable(ts) => utxo'[s] = utxo[s]
    BY <1>1 DEF SetStatus
  <2> QED
    BY <2>1, <2>2
<1>4. TypeOK'
  <2>1. \A s \in SeqIds : s >= nextSeq => utxo'[s] = Absent
    BY <1>2, <1>3 DEF IInv, TypeOK, Absent
  <2> QED
    BY <1>0, <1>1, <1>3, <2>1 DEF IInv, TypeOK, Row
<1>5. Active' = {}
  BY <1>1 DEF Active, ActiveIn
<1>6. LiveKeysUnique'
  BY <1>1, <1>2, StatusUnique, CoherentNow, CoherentNext DEF IInv
<1>7. ReceiversApart' /\ RecordedSpends'
  BY <1>1, <1>2, <1>3, ConstantsAssumption DEF IInv, ReceiversApart, RecordedSpends
<1>8. RowsKept
  <2>1. \A s \in SeqIds : Kin(utxo[s], utxo'[s])
    BY <1>1, <1>2, StatusKin
  <2> QED
    BY <1>2, <1>3, <2>1, KinRows DEF RowsKept
<1> QED
  BY <1>8, <1>1, <1>4, <1>5, <1>6, <1>7 DEF IInv, EscrowCoherence, EscrowsOfIncumbent, PendingLeavesRoom,
                                       FrozenQuiet

LEMMA BindInv ==
    ASSUME IInv, NEW h \in Caas, NEW wall \in WallReads, NEW crash \in BOOLEAN,
           CaaBind(h, wall, crash)
    PROVE  IInv' /\ RowsKept
<1> USE DEF CaaBind
<1>0. /\ wall \in Times /\ lastTs \in Times /\ recorder \in Recorders
      /\ pending \in Successors \cup {None}
      /\ pending # None => lastTs < MaxTime
      /\ h \in Active /\ h \in Caas
  BY BlockTime DEF IInv, TypeOK, PendingLeavesRoom, Active, ActiveIn
<1>1. /\ utxo \in [SeqIds -> Row] /\ escrow \in [Caas -> EscrowRow]
      /\ escrow[h].givers \in SUBSET SeqIds /\ escrow[h].receivers \in SUBSET SeqIds
      /\ "spent" \in UtxoStatus /\ "unspent" \in UtxoStatus
  BY Typed DEF IInv, UtxoStatus
<1>2. \A s \in escrow[h].givers \cup escrow[h].receivers : utxo[s].status = "escrowed"
  BY <1>0 DEF IInv, EscrowCoherence, Held
<1> DEFINE mid == SetStatus(utxo, escrow[h].givers, "spent")
<1>3. /\ mid \in [SeqIds -> Row]
      /\ \A s \in SeqIds : s \notin escrow[h].givers => mid[s] = utxo[s]
  <2>1. mid \in [SeqIds -> Row]
    BY <1>1, StatusTyped
  <2>2. \A s \in SeqIds : s \notin escrow[h].givers => mid[s] = utxo[s]
    BY DEF SetStatus
  <2> QED
    BY <2>1, <2>2
<1>4. /\ utxo' = SetStatus(mid, escrow[h].receivers, "unspent")
      /\ AutoRecorderChange(pending, escrow', wall, lastTs, crash)
      /\ UNCHANGED <<usedKeys, releasedAt, refuted, rewardSeeds, sharesOut, nextSeq,
                     rewardNum, frozen, recorded, clock>>
  OBVIOUS
<1>5. escrow' \in [Caas -> EscrowRow] /\ escrow'[h].status = "finalized"
      /\ \A k \in Caas : /\ k # h => escrow'[k] = escrow[k]
                         /\ escrow'[k].givers = escrow[k].givers
                         /\ escrow'[k].receivers = escrow[k].receivers
                         /\ escrow'[k].rewards = escrow[k].rewards
                         /\ escrow'[k].by = escrow[k].by
  BY <1>1 DEF EscrowRow, CaaStatus
<1>6. Active' = Active \ {h} /\ ActiveIn(escrow') = Active \ {h}
  BY <1>5 DEF Active, ActiveIn
<1>7. Unique(mid, usedKeys, escrow)
  BY <1>1, StatusUnique, CoherentNow DEF IInv
<1> HIDE DEF mid, CaaBind
<1>8. /\ utxo' \in [SeqIds -> Row]
      /\ \A s \in SeqIds : s \notin escrow[h].receivers => utxo'[s] = mid[s]
  <2>1. utxo' \in [SeqIds -> Row]
    BY <1>1, <1>3, <1>4, StatusTyped
  <2>2. \A s \in SeqIds : s \notin escrow[h].receivers => utxo'[s] = mid[s]
    BY <1>4 DEF SetStatus
  <2> QED
    BY <2>1, <2>2
<1>9. \A s \in SeqIds : utxo[s].status # "escrowed" => utxo'[s] = utxo[s]
  BY <1>2, <1>3, <1>8
<1>10. /\ pending' \in Successors \cup {None} /\ recorder' \in Recorders /\ lastTs' \in Times
       /\ pending' # None => pending' = pending /\ lastTs' = lastTs
       /\ recorder' # recorder => Active' = {}
  <2>1. /\ pending' \in Successors \cup {None} /\ recorder' \in Recorders /\ lastTs' \in Times
        /\ pending' # None => pending' = pending /\ lastTs' = lastTs
        /\ recorder' # recorder => ActiveIn(escrow') = {}
    BY <1>0, <1>4, AutoChange
  <2> QED
    BY <1>6, <2>1
<1>11. TypeOK'
  <2>1. \A s \in SeqIds : s >= nextSeq => utxo'[s] = Absent
    BY <1>9 DEF IInv, TypeOK, Absent
  <2> QED
    BY <1>4, <1>5, <1>8, <1>10, <2>1 DEF IInv, TypeOK, Row, EscrowRow
<1>12. EscrowCoherence'
  <2>1. \A k \in Active \ {h} : Held(k)' = Held(k) /\ Held(k) \cap Held(h) = {}
                                /\ Held(k) \subseteq SeqIds /\ k \in Caas
    BY <1>0, <1>5, Typed DEF IInv, EscrowCoherence, Held, Active, ActiveIn
  <2>2. \A k \in Active \ {h} : \A s \in Held(k) : utxo'[s] = utxo[s]
    BY <1>3, <1>8, <2>1 DEF Held
  <2>3. \A k \in Active \ {h} : \A s \in Held(k)' : utxo'[s].status = "escrowed"
    BY <2>1, <2>2 DEF IInv, EscrowCoherence
  <2>4. \A k, j \in Active \ {h} : k # j => Held(k)' \cap Held(j)' = {}
    BY <2>1 DEF IInv, EscrowCoherence
  <2>5. \A k \in Active \ {h} : escrow'[k] = escrow[k]
    BY <1>5, <2>1
  <2> QED
    BY <1>6, <2>3, <2>4, <2>5 DEF IInv, EscrowCoherence
<1>13. LiveKeysUnique'
  <2>1. escrow[h].receivers \subseteq Live(mid)
    <3>1. \A s \in escrow[h].receivers : s \notin escrow[h].givers
      BY <1>0 DEF IInv, EscrowCoherence
    <3> QED
      BY <1>1, <1>2, <1>3, <3>1 DEF Live
  <2>2. Unique(utxo', usedKeys, escrow)
    BY <1>1, <1>3, <1>4, <1>7, <2>1, StatusUnique
  <2>3. Unique(utxo', usedKeys', escrow')
    BY <1>4, <1>5, <2>2 DEF Unique, Shared
  <2> QED
    BY <2>3, CoherentNext
<1>14. ReceiversApart' /\ RecordedSpends'
  BY <1>4, <1>5, <1>9, ConstantsAssumption DEF IInv, ReceiversApart, RecordedSpends
<1>15. EscrowsOfIncumbent' /\ PendingLeavesRoom' /\ FrozenQuiet'
  BY <1>0, <1>4, <1>5, <1>6, <1>10 DEF IInv, EscrowsOfIncumbent, PendingLeavesRoom, FrozenQuiet,
                                 Active, ActiveIn
<1>16. RowsKept
  <2>1. \A s \in SeqIds : Kin(utxo[s], mid[s])
    BY <1>1, StatusKin DEF mid
  <2>2. \A s \in SeqIds : Kin(mid[s], utxo'[s])
    BY <1>1, <1>3, <1>4, StatusKin
  <2>3. \A s \in SeqIds : Kin(utxo[s], utxo'[s])
    BY <2>1, <2>2 DEF Kin
  <2> QED
    BY <1>1, <1>8, <1>9, <2>3, KinRows DEF RowsKept
<1> QED
  BY <1>11, <1>12, <1>13, <1>14, <1>15, <1>16 DEF IInv

LEMMA AssignmentInv ==
    ASSUME IInv, NEW a \in Agreements \cup {NoAgreement}, NEW G \in SUBSET SeqIds,
           NEW wall \in WallReads, NEW crash \in BOOLEAN, SubmitAssignment(a, G, wall, crash)
    PROVE  IInv' /\ RowsKept
<1> DEFINE ts == BlockTs(wall)
           reward == ShareReward(TotalOf(utxo, G))
           total == TotalOf(utxo, G) - RecordingFee(sharesOut) - reward
           swept == SweptUtxo(ts)
           mid == SetStatus(swept, G, "spent")
<1>1. /\ ~frozen /\ Spendable(G, ts)
      /\ a \in Agreements => G = AgreementGivers[a]
      /\ escrow' = SweptEscrow(ts) /\ releasedAt' = SweptReleases(ts)
      /\ recorded' = [b \in Agreements |-> recorded[b] + (IF a = b THEN 1 ELSE 0)]
      /\ AutoRecorderChange(pending, escrow', ts, ts, crash)
      /\ UNCHANGED <<refuted, rewardNum, frozen, clock>>
  BY DEF SubmitAssignment
<1>2. PICK rcv \in ReceiverLists(total), rew \in RewardRows(reward) :
          /\ nextSeq + Len(rcv \o rew) - 1 <= MaxSeq /\ ts < MaxTime
          /\ utxo' = InsertRows(mid, rcv \o rew, ts, "unspent")
          /\ usedKeys' = SweptKeys(ts) \cup KeysOf(rcv \o rew)
          /\ nextSeq' = nextSeq + Len(rcv \o rew)
          /\ \/ rewardSeeds' = rewardSeeds \cup (NewSeqs(rcv \o rew) \ NewSeqs(rcv))
             \/ UNCHANGED rewardSeeds
  BY DEF SubmitAssignment
<1> DEFINE rows == rcv \o rew
<1>3. /\ rows \in Seq(FreshRow) /\ Len(rows) \in Nat
      /\ \A i, j \in 1..Len(rows) : rows[i].key = rows[j].key => i = j
  BY NewRows, AssignmentRows
<1>4. /\ nextSeq + Len(rows) - 1 <= MaxSeq /\ ts < MaxTime
      /\ utxo' = InsertRows(mid, rows, ts, "unspent")
      /\ usedKeys' = SweptKeys(ts) \cup KeysOf(rows)
      /\ nextSeq' = nextSeq + Len(rows)
      /\ rewardSeeds' \subseteq rewardSeeds \cup NewSeqs(rows)
  BY <1>2
<1> HIDE DEF rows, reward, total
<1>5. ts \in Times /\ ts \in Nat
  BY <1>4, BlockTime DEF IInv
<1> HIDE DEF ts
<1>6. /\ swept \in [SeqIds -> Row] /\ escrow' \in [Caas -> EscrowRow]
      /\ releasedAt' \in [SeqIds -> Times \cup {Never}]
      /\ SweptKeys(ts) \in SUBSET usedKeys
      /\ ActiveIn(escrow') \subseteq Active
      /\ \A h \in Caas : /\ escrow'[h].status = "none" => escrow[h].status = "none"
                         /\ escrow'[h].givers = escrow[h].givers
                         /\ escrow'[h].receivers = escrow[h].receivers
                         /\ escrow'[h].rewards = escrow[h].rewards
                         /\ escrow'[h].by = escrow[h].by
  BY <1>1, <1>5, SweepTables
<1>7. "spent" \in UtxoStatus /\ "unspent" \in UtxoStatus
  BY DEF UtxoStatus
<1>8. /\ \A s \in G : utxo[s].status = "unspent" /\ s \in SeqIds
      /\ \A h \in Active : Held(h) \subseteq SeqIds /\ Held(h) \cap G = {} /\ h \in Caas
  BY <1>1, Typed DEF IInv, EscrowCoherence, Spendable, Held, Active, ActiveIn
<1>9. Coherent(swept, escrow') /\ Unique(swept, SweptKeys(ts), escrow')
  BY <1>1, <1>5, SweepCoherent, SweepUnique
<1>10. \A s \in SeqIds : utxo[s].status \in {"absent", "spent", "expired"} => swept[s] = utxo[s]
  BY <1>5, SweepRows
<1>k. \A s \in SeqIds : swept[s].status # "absent" => Kin(utxo[s], swept[s])
  BY <1>5, SweepRows
<1>m. \A s \in SeqIds : utxo[s].status = "unspent" => swept[s].status # "absent"
  BY <1>5, SweepRows
<1> HIDE DEF swept
<1>11. mid \in [SeqIds -> Row]
  BY <1>6, <1>7, StatusTyped
<1>12. \A s \in SeqIds : s \notin G => mid[s] = swept[s]
  BY DEF SetStatus
<1>13. \A s \in G : mid[s].status = "spent"
  BY <1>6, <1>7, StatusIs
<1>14. Coherent(mid, escrow')
  <2>1. \A h \in ActiveIn(escrow') : HeldIn(escrow', h) = Held(h)
    BY <1>6, <1>8 DEF HeldIn, Held
  <2>2. \A h \in ActiveIn(escrow') : HeldIn(escrow', h) \cap G = {}
                                     /\ HeldIn(escrow', h) \subseteq SeqIds
    BY <1>6, <1>8, <2>1
  <2> QED
    BY <1>6, <1>7, <1>9, <2>2, StatusCoherent
<1>15. Unique(mid, SweptKeys(ts), escrow')
  BY <1>6, <1>7, <1>9, StatusUnique
<1>l. \A s \in SeqIds : Kin(swept[s], mid[s])
  BY <1>6, <1>7, StatusKin
<1> HIDE DEF mid
<1>16. utxo' \in [SeqIds -> Row]
  BY <1>3, <1>4, <1>5, <1>7, <1>11, Inserted DEF IInv
<1>17. \A s \in SeqIds : s < nextSeq \/ s >= nextSeq' => utxo'[s] = mid[s]
  BY <1>3, <1>4 DEF InsertRows, NewSeqs, IInv, TypeOK
<1>18. \A s \in SeqIds : s >= nextSeq => utxo[s] = Absent /\ mid[s] = Absent
  BY <1>8, <1>10, <1>12 DEF IInv, TypeOK, Absent
<1>19. NewSeqs(rows) \subseteq SeqIds /\ nextSeq \in Nat /\ nextSeq >= 2
       /\ nextSeq' \in 2..MaxSeq + 1 /\ nextSeq' >= nextSeq
       /\ \A s \in SeqIds : s \in Nat
  BY <1>3, <1>4, ConstantsAssumption, SMTT(20) DEF IInv, TypeOK, NewSeqs, SeqIds
<1>20. /\ pending' \in Successors \cup {None} /\ recorder' \in Recorders /\ lastTs' \in Times
       /\ pending' # None => lastTs' = ts
       /\ recorder' # recorder => ActiveIn(escrow') = {}
  <2>1. pending \in Successors \cup {None} /\ recorder \in Recorders
    BY DEF IInv, TypeOK
  <2> QED
    BY <1>1, <1>4, <1>5, <2>1, AutoChange
<1>21. TypeOK'
  <2>1. \A s \in SeqIds : s >= nextSeq' => utxo'[s] = Absent
    BY <1>17, <1>18, <1>19
  <2>2. usedKeys' \subseteq AllKeys
    BY <1>3, <1>4, <1>6, FreshKeys DEF IInv, TypeOK
  <2>3. recorded' \in [Agreements -> Nat]
    BY <1>1 DEF IInv, TypeOK
  <2>4. rewardSeeds' \subseteq SeqIds
    BY <1>4, <1>19 DEF IInv, TypeOK
  <2> QED
    BY <1>1, <1>6, <1>16, <1>19, <1>20, <2>1, <2>2, <2>3, <2>4 DEF IInv, TypeOK, Row, EscrowRow
<1>22. EscrowCoherence'
  <2>1. \A h \in ActiveIn(escrow') : \A s \in HeldIn(escrow', h) : utxo'[s].status = "escrowed"
    <3> SUFFICES ASSUME NEW h \in ActiveIn(escrow'), NEW s \in HeldIn(escrow', h)
                 PROVE  utxo'[s].status = "escrowed"
      OBVIOUS
    <3>1. s \in SeqIds /\ mid[s].status = "escrowed"
      BY <1>6, <1>8, <1>14 DEF Coherent, HeldIn, Held
    <3>2. s < nextSeq
      BY <1>18, <1>19, <3>1 DEF Absent
    <3> QED
      BY <1>17, <3>1, <3>2
  <2> QED
    BY <1>14, <2>1, CoherentNext DEF Coherent
<1>23. LiveKeysUnique'
  <2>1. Unique(utxo', usedKeys', escrow')
    BY <1>3, <1>4, <1>5, <1>6, <1>7, <1>11, <1>15, InsertUnique DEF IInv
  <2> QED
    BY <2>1, CoherentNext
<1>24. ReceiversApart'
  BY <1>6, <1>19, Typed DEF IInv, ReceiversApart
<1>25. RecordedSpends'
  <2> SUFFICES ASSUME NEW b \in Agreements, recorded'[b] # 0
               PROVE  recorded'[b] = 1 /\ \A s \in AgreementGivers[b] : utxo'[s].status = "spent"
    BY DEF RecordedSpends
  <2>1. AgreementGivers[b] \subseteq SeqIds
    BY ConstantsAssumption
  <2>2. \A s \in SeqIds : mid[s].status = "spent" => utxo'[s].status = "spent"
    BY <1>17, <1>18, <1>19 DEF Absent
  <2>3. CASE a = b
    <3>1. G = AgreementGivers[b] /\ G # {} /\ recorded'[b] = recorded[b] + 1
      BY <1>1, <2>3 DEF Spendable
    <3>2. recorded[b] = 0
      BY <1>8, <3>1 DEF IInv, RecordedSpends
    <3> QED
      BY <1>13, <2>1, <2>2, <3>1, <3>2
  <2>4. CASE a # b
    <3>1. recorded'[b] = recorded[b]
      BY <1>1, <2>4 DEF IInv, TypeOK
    <3>2. \A s \in AgreementGivers[b] : utxo[s].status = "spent"
      BY <3>1 DEF IInv, RecordedSpends
    <3>3. \A s \in AgreementGivers[b] : mid[s].status = "spent"
      BY <1>10, <1>12, <1>13, <2>1, <3>2
    <3> QED
      BY <2>1, <2>2, <3>1, <3>3 DEF IInv, RecordedSpends
  <2> QED
    BY <2>3, <2>4
<1>26. EscrowsOfIncumbent' /\ PendingLeavesRoom' /\ FrozenQuiet'
  <2>1. EscrowsOfIncumbent'
    BY <1>6, <1>8, <1>20 DEF IInv, EscrowsOfIncumbent, Active, ActiveIn
  <2>2. PendingLeavesRoom' /\ FrozenQuiet'
    BY <1>1, <1>4, <1>20 DEF PendingLeavesRoom, FrozenQuiet
  <2> QED
    BY <2>1, <2>2
<1>27. RowsKept
  <2> SUFFICES ASSUME NEW s \in SeqIds
               PROVE  /\ utxo[s].status \in {"spent", "expired"} => utxo'[s] = utxo[s]
                      /\ utxo[s].status = "absent" /\ s < nextSeq => utxo'[s] = utxo[s]
                      /\ utxo[s].status # "absent" /\ utxo'[s].status # "absent" =>
                            utxo'[s] = [utxo[s] EXCEPT !.status = utxo'[s].status]
    BY DEF RowsKept
  <2>1. utxo[s].status # "absent" => s < nextSeq
    BY <1>18, <1>19 DEF Absent
  <2>2. CASE utxo[s].status \in {"absent", "spent", "expired"}
    <3>1. mid[s] = utxo[s]
      BY <1>8, <1>10, <1>12, <2>2
    <3>2. utxo[s] \in Row /\ Kin(utxo[s], utxo[s])
      BY Typed DEF IInv, Kin
    <3> QED
      BY <1>17, <2>1, <2>2, <3>1, <3>2, KinRows
  <2>3. CASE utxo[s].status \notin {"absent", "spent", "expired"}
    <3>1. utxo'[s] = mid[s]
      BY <1>17, <2>1, <2>3
    <3>2. utxo'[s].status # "absent" => Kin(utxo[s], utxo'[s])
      <4>1. utxo'[s].status # "absent" => swept[s].status # "absent"
        BY <1>8, <1>12, <1>m, <3>1
      <4>2. swept[s].status # "absent" => Kin(utxo[s], swept[s])
        BY <1>k
      <4>3. Kin(swept[s], utxo'[s])
        BY <1>l, <3>1
      <4> QED
        BY <4>1, <4>2, <4>3 DEF Kin
    <3>3. utxo[s] \in Row /\ utxo'[s] \in Row
      BY <1>16, Typed DEF IInv
    <3> QED
      BY <2>3, <3>2, <3>3, KinRows
  <2> QED
    BY <2>2, <2>3
<1> QED
  BY <1>21, <1>22, <1>23, <1>24, <1>25, <1>26, <1>27 DEF IInv

LEMMA CaaSubmitInv ==
    ASSUME IInv, NEW h \in Caas, NEW G \in SUBSET SeqIds, NEW wall \in WallReads,
           CaaSubmit(h, G, wall)
    PROVE  IInv' /\ RowsKept
<1> DEFINE ts == BlockTs(wall)
           reward == ShareReward(TotalOf(utxo, G))
           total == TotalOf(utxo, G) - RecordingFee(sharesOut) - reward
           mid == SetStatus(utxo, G, "escrowed")
<1>1. /\ ~frozen /\ pending = None /\ escrow[h].status = "none" /\ Spendable(G, ts)
      /\ lastTs' = ts
      /\ UNCHANGED <<releasedAt, refuted, rewardNum, frozen, pending, recorder, recorded, clock>>
  BY DEF CaaSubmit
<1>2. PICK rcv \in CaaReceiverLists(total), rew \in RewardRows(reward), deadline \in Times,
           bond \in Bonds \cup {0} :
          /\ nextSeq + Len(rcv \o rew) - 1 <= MaxSeq /\ ts < MaxTime
          /\ utxo' = InsertRows(mid, rcv \o rew, ts, "escrowed")
          /\ usedKeys' = usedKeys \cup KeysOf(rcv \o rew)
          /\ nextSeq' = nextSeq + Len(rcv \o rew)
          /\ rewardSeeds' = rewardSeeds \cup (NewSeqs(rcv \o rew) \ NewSeqs(rcv))
          /\ escrow' = [escrow EXCEPT ![h] =
                 [status |-> "escrowed", deadline |-> deadline, givers |-> G,
                  receivers |-> NewSeqs(rcv),
                  rewards |-> NewSeqs(rcv \o rew) \ NewSeqs(rcv),
                  bond |-> bond, by |-> recorder]]
  BY ZenonT(60) DEF CaaSubmit
<1> DEFINE rows == rcv \o rew
<1>3. /\ rows \in Seq(FreshRow) /\ Len(rows) \in Nat /\ Len(rcv) \in Nat \ {0}
      /\ Len(rcv) <= Len(rows)
      /\ \A i, j \in 1..Len(rows) : rows[i].key = rows[j].key /\ i # j =>
             i \in 1..Len(rcv) /\ j \in 1..Len(rcv)
  BY NewRows, CaaRows
<1> DEFINE new == [status |-> "escrowed", deadline |-> deadline, givers |-> G,
                   receivers |-> NewSeqs(rcv), rewards |-> NewSeqs(rows) \ NewSeqs(rcv),
                   bond |-> bond, by |-> recorder]
<1>4. /\ nextSeq + Len(rows) - 1 <= MaxSeq /\ ts < MaxTime
      /\ utxo' = InsertRows(mid, rows, ts, "escrowed")
      /\ usedKeys' = usedKeys \cup KeysOf(rows)
      /\ nextSeq' = nextSeq + Len(rows)
      /\ rewardSeeds' \subseteq rewardSeeds \cup NewSeqs(rows)
      /\ escrow' = [escrow EXCEPT ![h] = new]
  BY <1>2
<1> HIDE DEF rows, reward, total
<1>5. ts \in Times /\ ts \in Nat
  BY <1>4, BlockTime DEF IInv
<1> HIDE DEF ts
<1>6. /\ utxo \in [SeqIds -> Row] /\ escrow \in [Caas -> EscrowRow]
      /\ "escrowed" \in UtxoStatus
  BY Typed DEF IInv, UtxoStatus
<1>7. /\ nextSeq \in Nat /\ nextSeq >= 2 /\ nextSeq' \in 2..MaxSeq + 1 /\ nextSeq' > nextSeq
      /\ \A s \in SeqIds : s \in Nat
      /\ NewSeqs(rows) = {s \in SeqIds : s >= nextSeq /\ s < nextSeq'}
      /\ NewSeqs(rcv) \subseteq NewSeqs(rows)
      /\ nextSeq \in NewSeqs(rcv)
  <2>1. nextSeq \in 2..MaxSeq + 1 /\ MaxSeq \in Nat /\ SeqIds = 1..MaxSeq
    BY ConstantsAssumption DEF IInv, TypeOK, SeqIds
  <2>2. /\ NewSeqs(rows) = nextSeq..nextSeq' - 1
        /\ NewSeqs(rcv) = nextSeq..nextSeq + Len(rcv) - 1
    BY <1>3, <1>4, <2>1 DEF NewSeqs
  <2> QED
    BY <1>3, <1>4, <2>1, <2>2
<1>8. \A s \in G : utxo[s].status = "unspent" /\ s \in SeqIds /\ s < nextSeq
  BY <1>1, <1>7 DEF Spendable, IInv, TypeOK, Absent
<1>9. new \in EscrowRow
  <2>1. bond \in Nat
    BY ConstantsAssumption
  <2>2. recorder \in Recorders /\ "escrowed" \in CaaStatus
    BY DEF IInv, TypeOK, CaaStatus
  <2> QED
    BY <1>7, <2>1, <2>2 DEF EscrowRow
<1>10. /\ new.status = "escrowed" /\ new.givers = G /\ new.receivers = NewSeqs(rcv)
       /\ new.rewards = NewSeqs(rows) \ NewSeqs(rcv) /\ new.by = recorder
  OBVIOUS
<1> HIDE DEF new
<1>11. /\ escrow' \in [Caas -> EscrowRow] /\ escrow'[h] = new
       /\ \A k \in Caas : k # h => escrow'[k] = escrow[k]
  BY <1>4, <1>6, <1>9
<1>12. /\ Active' = Active \cup {h} /\ h \notin Active /\ Active \subseteq Caas
       /\ \A k \in Active : Held(k)' = Held(k) /\ Held(k) \subseteq SeqIds /\ Held(k) \cap G = {}
       /\ Held(h)' = G \cup NewSeqs(rows)
  <2>1. Active' = Active \cup {h} /\ h \notin Active /\ Active \subseteq Caas
    BY <1>1, <1>10, <1>11 DEF Active, ActiveIn
  <2>2. \A k \in Active : Held(k)' = Held(k) /\ Held(k) \subseteq SeqIds
    BY <1>11, <2>1, Typed DEF Held, IInv
  <2>3. \A k \in Active : Held(k) \cap G = {}
    BY <1>8 DEF IInv, EscrowCoherence
  <2>4. Held(h)' = G \cup NewSeqs(rows)
    BY <1>7, <1>10, <1>11 DEF Held
  <2> QED
    BY <2>1, <2>2, <2>3, <2>4
<1>13. mid \in [SeqIds -> Row]
  BY <1>6, StatusTyped
<1>14. \A s \in SeqIds : s \notin G => mid[s] = utxo[s]
  BY DEF SetStatus
<1>15. \A s \in G : mid[s].status = "escrowed"
  BY <1>6, StatusIs
<1>16. Unique(mid, usedKeys, escrow)
  <2>1. G \subseteq Live(utxo) /\ Unique(utxo, usedKeys, escrow)
    BY <1>8, CoherentNow DEF Live, IInv
  <2> QED
    BY <1>6, <2>1, StatusUnique
<1>k. \A s \in SeqIds : Kin(utxo[s], mid[s])
  BY <1>6, StatusKin
<1> HIDE DEF mid
<1>17. utxo' \in [SeqIds -> Row]
  BY <1>3, <1>4, <1>5, <1>6, <1>13, Inserted DEF IInv
<1>18. \A s \in SeqIds : s \notin NewSeqs(rows) => utxo'[s] = mid[s]
  BY <1>4 DEF InsertRows
<1>19. \A s \in NewSeqs(rows) : utxo'[s].status = "escrowed"
  BY <1>3, <1>4, <1>5, <1>6, <1>13, Inserted DEF IInv
<1>20. \A s \in SeqIds : s >= nextSeq => utxo[s] = Absent /\ mid[s] = Absent
  BY <1>7, <1>8, <1>14 DEF IInv, TypeOK
<1>21. TypeOK'
  <2>1. \A s \in SeqIds : s >= nextSeq' => utxo'[s] = Absent
    BY <1>7, <1>18, <1>20
  <2>2. usedKeys' \subseteq AllKeys
    BY <1>3, <1>4, FreshKeys DEF IInv, TypeOK
  <2>3. rewardSeeds' \subseteq SeqIds
    BY <1>4, <1>7 DEF IInv, TypeOK
  <2> QED
    BY <1>1, <1>5, <1>7, <1>11, <1>17, <2>1, <2>2, <2>3 DEF IInv, TypeOK, Row, EscrowRow
<1>22. EscrowCoherence'
  <2>1. \A k \in Active : \A s \in Held(k) : s \in SeqIds /\ s < nextSeq /\ utxo'[s] = utxo[s]
                                             /\ utxo[s].status = "escrowed"
    <3> SUFFICES ASSUME NEW k \in Active, NEW s \in Held(k)
                 PROVE  s \in SeqIds /\ s < nextSeq /\ utxo'[s] = utxo[s]
                        /\ utxo[s].status = "escrowed"
      OBVIOUS
    <3>1. s \in SeqIds /\ s \notin G /\ utxo[s].status = "escrowed"
      BY <1>12 DEF IInv, EscrowCoherence
    <3>2. s < nextSeq
      BY <1>7, <1>20, <3>1 DEF Absent
    <3> QED
      BY <1>7, <1>14, <1>18, <3>1, <3>2
  <2>2. \A s \in G : utxo'[s].status = "escrowed"
    BY <1>7, <1>8, <1>15, <1>18
  <2>3. \A k \in Active' : \A s \in Held(k)' : utxo'[s].status = "escrowed"
    BY <1>12, <1>19, <2>1, <2>2
  <2>4. \A k \in Active : Held(k) \cap Held(h)' = {}
    BY <1>7, <1>12, <2>1
  <2>5. \A k, j \in Active' : k # j => Held(k)' \cap Held(j)' = {}
    <3>1. \A k, j \in Active : k # j => Held(k)' \cap Held(j)' = {}
      BY <1>12 DEF IInv, EscrowCoherence
    <3> QED
      BY <1>12, <2>4, <3>1
  <2>6. \A k \in Active' :
            /\ escrow'[k].givers # {} /\ escrow'[k].receivers # {}
            /\ escrow'[k].givers \cap (escrow'[k].receivers \cup escrow'[k].rewards) = {}
            /\ escrow'[k].receivers \cap escrow'[k].rewards = {}
    <3>1. /\ G # {} /\ NewSeqs(rcv) # {}
          /\ G \cap NewSeqs(rows) = {}
      BY <1>1, <1>7, <1>8 DEF Spendable
    <3>2. \A k \in Active : escrow'[k] = escrow[k]
      BY <1>11, <1>12
    <3> QED
      BY <1>7, <1>10, <1>11, <1>12, <3>1, <3>2 DEF IInv, EscrowCoherence
  <2> QED
    BY <2>3, <2>5, <2>6 DEF EscrowCoherence
<1>23. ReceiversApart'
  <2>1. /\ \A k \in Caas : \A s \in escrow[k].receivers : s < nextSeq /\ s \in SeqIds
        /\ \A k, j \in Caas : k # j => escrow[k].receivers \cap escrow[j].receivers = {}
        /\ \A k \in Caas : escrow[k].status = "none" => escrow[k].receivers = {}
    BY Typed DEF IInv, ReceiversApart
  <2>2. \A s \in escrow'[h].receivers : s >= nextSeq /\ s < nextSeq'
    BY <1>7, <1>10, <1>11
  <2>3. \A k \in Caas : \A s \in escrow'[k].receivers : s < nextSeq'
    BY <1>7, <1>11, <2>1, <2>2
  <2>4. ASSUME NEW k \in Caas, NEW j \in Caas, k # j
        PROVE  escrow'[k].receivers \cap escrow'[j].receivers = {}
    BY <1>7, <1>11, <2>1, <2>2, <2>4
  <2>5. \A k \in Caas : escrow'[k].status = "none" => escrow'[k].receivers = {}
    BY <1>10, <1>11, <2>1
  <2> QED
    BY <2>3, <2>4, <2>5 DEF ReceiversApart
<1>24. LiveKeysUnique'
  <2>2. ASSUME NEW s \in Live(mid), NEW r \in Live(mid), mid[s].key = mid[r].key, s # r
        PROVE  Shared(escrow', s, r)
    <3>1. PICK k \in Caas : {s, r} \subseteq escrow[k].receivers
      BY <1>16, <2>2 DEF Unique, Shared
    <3>2. k # h
      BY <1>1, <3>1 DEF IInv, ReceiversApart
    <3> QED
      BY <1>11, <3>1, <3>2 DEF Shared
  <2>3. Unique(mid, usedKeys, escrow')
    BY <1>16, <2>2 DEF Unique
  <2>4. \A i, j \in 1..Len(rows) : rows[i].key = rows[j].key /\ i # j =>
            Shared(escrow', nextSeq + i - 1, nextSeq + j - 1)
    <3> SUFFICES ASSUME NEW i \in 1..Len(rows), NEW j \in 1..Len(rows),
                        rows[i].key = rows[j].key, i # j
                 PROVE  {nextSeq + i - 1, nextSeq + j - 1} \subseteq escrow'[h].receivers
      BY DEF Shared
    <3>1. i \in 1..Len(rcv) /\ j \in 1..Len(rcv)
      BY <1>3
    <3> QED
      BY <1>3, <1>7, <1>10, <1>11, <3>1 DEF NewSeqs
  <2>5. Unique(utxo', usedKeys', escrow')
    <3>1. usedKeys \in SUBSET usedKeys /\ TypeOK
      BY DEF IInv
    <3>2. Unique(InsertRows(mid, rows, ts, "escrowed"), usedKeys \cup KeysOf(rows), escrow')
      BY <1>3, <1>4, <1>5, <1>6, <1>13, <2>3, <2>4, <3>1, InsertUnique
    <3> QED
      BY <1>4, <3>2
  <2> QED
    BY <2>5, CoherentNext
<1>25. RecordedSpends'
  <2>1. \A s \in SeqIds : utxo[s].status = "spent" => utxo'[s] = utxo[s]
    BY <1>7, <1>8, <1>14, <1>18, <1>20 DEF Absent
  <2> QED
    BY <1>1, <2>1, ConstantsAssumption DEF IInv, RecordedSpends
<1>26. EscrowsOfIncumbent'
  BY <1>1, <1>10, <1>11, <1>12 DEF IInv, EscrowsOfIncumbent
<1>27. PendingLeavesRoom' /\ FrozenQuiet'
  BY <1>1 DEF PendingLeavesRoom, FrozenQuiet
<1>28. RowsKept
  <2> SUFFICES ASSUME NEW s \in SeqIds
               PROVE  /\ utxo[s].status \in {"spent", "expired"} => utxo'[s] = utxo[s]
                      /\ utxo[s].status = "absent" /\ s < nextSeq => utxo'[s] = utxo[s]
                      /\ utxo[s].status # "absent" /\ utxo'[s].status # "absent" =>
                            utxo'[s] = [utxo[s] EXCEPT !.status = utxo'[s].status]
    BY DEF RowsKept
  <2>1. utxo[s].status # "absent" => s < nextSeq
    BY <1>7, <1>20 DEF Absent
  <2>2. s < nextSeq => utxo'[s] = mid[s]
    BY <1>7, <1>18
  <2>3. utxo[s].status # "unspent" => mid[s] = utxo[s]
    BY <1>8, <1>14
  <2>4. utxo[s].status # "absent" => Kin(utxo[s], utxo'[s])
    BY <1>k, <2>1, <2>2
  <2>5. utxo[s] \in Row /\ utxo'[s] \in Row
    BY <1>6, <1>17
  <2> QED
    BY <2>1, <2>2, <2>3, <2>4, <2>5, KinRows
<1> QED
  BY <1>21, <1>22, <1>23, <1>24, <1>25, <1>26, <1>27, <1>28 DEF IInv

-----------------------------------------------------------------------------
(* What every behaviour of the chain satisfies.                            *)

LEMMA SameRows == ASSUME TypeOK, utxo' = utxo PROVE RowsKept
<1>1. \A s \in SeqIds : utxo[s] \in Row /\ Kin(utxo[s], utxo[s])
  BY Typed DEF Kin
<1> QED
  BY <1>1, KinRows DEF RowsKept

LEMMA StepInv == IInv /\ [Next]_vars => IInv' /\ RowsKept
<1> SUFFICES ASSUME IInv, [Next]_vars PROVE IInv' /\ RowsKept
  OBVIOUS
<1>1. CASE \E a \in Agreements \cup {NoAgreement}, G \in SUBSET SeqIds, w \in WallReads,
              crash \in BOOLEAN : SubmitAssignment(a, G, w, crash)
  BY <1>1, AssignmentInv
<1>2. CASE \E h \in Caas, G \in SUBSET SeqIds, w \in WallReads : CaaSubmit(h, G, w)
  BY <1>2, CaaSubmitInv
<1>3. CASE \E h \in Caas, w \in WallReads, crash \in BOOLEAN : CaaBind(h, w, crash)
  BY <1>3, BindInv
<1>4. CASE \E w \in WallReads, crash \in BOOLEAN :
              \/ SubmitAdmin(w, crash)
              \/ \E n \in RewardRates : SubmitRewardRate(n, w, crash)
              \/ \E r \in Successors : SubmitPending(r, w, crash)
  <2>1. IInv'
    BY <1>4, AdminInv
  <2>2. utxo' = utxo
    BY <1>4 DEF SubmitAdmin, SubmitRewardRate, SubmitPending, tables
  <2> QED
    BY <2>1, <2>2, SameRows DEF IInv
<1>5. CASE \E w \in WallReads : SubmitRecorderChange(w)
  <2>1. IInv'
    BY <1>5, RecorderChangeInv
  <2>2. utxo' = utxo
    BY <1>5 DEF SubmitRecorderChange, tables
  <2> QED
    BY <2>1, <2>2, SameRows DEF IInv
<1>6. CASE \E w \in WallReads : SubmitMigration(w)
  BY <1>6, MigrationInv
<1>7. CASE Tick \/ (\E a \in Agreements : Refute(a)) \/ UNCHANGED vars
  <2>1. IInv'
    BY <1>7, QuietInv
  <2>2. utxo' = utxo
    BY <1>7 DEF Tick, Refute, vars, tables
  <2> QED
    BY <2>1, <2>2, SameRows DEF IInv
<1> QED
  BY <1>1, <1>2, <1>3, <1>4, <1>5, <1>6, <1>7 DEF Next

\* The inductive invariant of one chain.
THEOREM Invariance == Spec => []IInv
BY InitInv, StepInv, PTL DEF Spec

\* The tables and the chain_meta rows hold what they can hold, and rows exist
\* for handed-out sequence ids only.
THEOREM TypeCorrect == Spec => []TypeOK
<1>1. IInv => TypeOK
  BY DEF IInv
<1> QED
  BY <1>1, Invariance, PTL

\* The escrow table and the UTXO table agree, and no share is held by two CAAs.
THEOREM CoherenceHolds == Spec => []EscrowCoherence
<1>1. IInv => EscrowCoherence
  BY DEF IInv
<1> QED
  BY <1>1, Invariance, PTL

\* A chain changes recorders only when no escrow of the old one is open.
THEOREM HandOverWaits == Spec => []EscrowsOfIncumbent
<1>1. IInv => EscrowsOfIncumbent
  BY DEF IInv
<1> QED
  BY <1>1, Invariance, PTL

\* Taking keys out of used_keys when a CAA times out never lets a later
\* receiver share a live UTXO's key.
THEOREM KeysStayUnique == Spec => []LiveKeysUnique
<1>1. IInv => LiveKeysUnique
  BY DEF IInv
<1> QED
  BY <1>1, Invariance, PTL

\* A resent agreement is not recorded again.
THEOREM RecordedOnceHolds == Spec => []RecordedOnce
<1>1. IInv => RecordedOnce
  BY DEF IInv, TypeOK, RecordedSpends, RecordedOnce
<1> QED
  BY <1>1, Invariance, PTL

\* Spent, expired and dropped rows never come back.
THEOREM GoneStaysGone == Spec => GoneForGood
<1>1. RowsKept => [\A s \in SeqIds :
          /\ utxo[s].status \in {"spent", "expired"} => utxo'[s] = utxo[s]
          /\ utxo[s].status = "absent" /\ s < nextSeq => utxo'[s] = utxo[s]
          /\ utxo[s].status # "absent" /\ utxo'[s].status # "absent" =>
                utxo'[s] = [utxo[s] EXCEPT !.status = utxo'[s].status]]_vars
  BY DEF RowsKept
<1> QED
  BY <1>1, StepInv, Invariance, PTL DEF Spec, GoneForGood

LEMMA SettledStep ==
    IInv /\ [Next]_vars =>
        \A h \in Caas : escrow[h].status \in {"finalized", "expired"} => escrow'[h] = escrow[h]
<1> SUFFICES ASSUME IInv, [Next]_vars, NEW h \in Caas,
                    escrow[h].status \in {"finalized", "expired"}
             PROVE  escrow'[h] = escrow[h]
  OBVIOUS
<1>0. escrow \in [Caas -> EscrowRow]
  BY Typed DEF IInv
<1>1. CASE \E a \in Agreements \cup {NoAgreement}, G \in SUBSET SeqIds, w \in WallReads,
              crash \in BOOLEAN : SubmitAssignment(a, G, w, crash)
  <2>1. PICK ts : escrow' = SweptEscrow(ts)
    BY <1>1 DEF SubmitAssignment
  <2>2. h \notin TimedOut(ts)
    BY DEF TimedOut, Active, ActiveIn
  <2> QED
    BY <2>1, <2>2 DEF SweptEscrow
<1>2. CASE \E k \in Caas, G \in SUBSET SeqIds, w \in WallReads : CaaSubmit(k, G, w)
  <2>1. PICK k \in Caas : /\ escrow[k].status = "none"
                          /\ \A j \in Caas : j # k => escrow'[j] = escrow[j]
    BY <1>0, <1>2 DEF CaaSubmit
  <2> QED
    BY <1>0, <2>1
<1>3. CASE \E k \in Caas, w \in WallReads, crash \in BOOLEAN : CaaBind(k, w, crash)
  <2>1. PICK k \in Caas : /\ escrow[k].status = "escrowed"
                          /\ escrow' = [escrow EXCEPT ![k].status = "finalized"]
    BY <1>3 DEF CaaBind
  <2> QED
    BY <1>0, <2>1
<1>4. CASE UNCHANGED escrow
  BY <1>4
<1> QED
  BY <1>1, <1>2, <1>3, <1>4
     DEF Next, vars, tables, SubmitAdmin, SubmitRewardRate, SubmitPending, SubmitRecorderChange,
         SubmitMigration, Migratable, Refute, Tick

\* A settled exchange stays settled the way it was.
THEOREM SettledStays == Spec => SettledIsFinal
<1>1. IInv /\ [Next]_vars => [\A h \in Caas : escrow[h].status \in {"finalized", "expired"} =>
                                  escrow'[h] = escrow[h]]_vars
  BY SettledStep
<1> QED
  BY <1>1, Invariance, PTL DEF Spec, SettledIsFinal

\* Nothing changes the chain's shares after the migration block.
THEOREM FrozenStays == Spec => FrozenForGood
<1>1. IInv /\ [Next]_vars =>
          [frozen => UNCHANGED <<utxo, usedKeys, escrow, meta, blocks>>]_vars
  <2> SUFFICES ASSUME IInv, [Next]_vars, frozen
               PROVE  UNCHANGED <<utxo, usedKeys, escrow, meta, blocks>>
    OBVIOUS
  <2>1. \A h \in Caas : escrow[h].status # "escrowed"
    BY DEF IInv, FrozenQuiet, Active, ActiveIn
  <2>2. Tick \/ (\E a \in Agreements : Refute(a)) \/ UNCHANGED vars
    BY <2>1, ZenonT(60)
        DEF Next, SubmitAssignment, CaaSubmit, CaaBind, SubmitAdmin, SubmitRewardRate,
                SubmitPending, SubmitRecorderChange, SubmitMigration, Migratable
  <2> QED
    BY <2>2 DEF Tick, Refute, vars, tables
<1> QED
  BY <1>1, Invariance, PTL DEF Spec, FrozenForGood

\* A requested recorder change is kept until its recorder is in office.
THEOREM PendingStays == Spec => PendingHonoured
<1>1. IInv /\ [Next]_vars =>
          [pending # None => \/ pending' = pending
                             \/ pending' = None /\ recorder' = pending]_vars
  BY DEF Next, SubmitAssignment, CaaSubmit, CaaBind, SubmitAdmin, SubmitRewardRate, SubmitPending,
         SubmitRecorderChange, SubmitMigration, Migratable, Refute, Tick, AutoRecorderChange, vars, meta
<1> QED
  BY <1>1, Invariance, PTL DEF Spec, PendingHonoured

\* A refuted agreement past its deadline is never recorded.
THEOREM RefutedStays == Spec => RefutedStaysOut
<1>1. IInv /\ [Next]_vars =>
          [\A a \in refuted : lastTs >= AgreementDeadline[a] => recorded'[a] = recorded[a]]_vars
  <2> SUFFICES ASSUME IInv, [Next]_vars, NEW a \in refuted, lastTs >= AgreementDeadline[a]
               PROVE  recorded'[a] = recorded[a]
    OBVIOUS
  <2>0. a \in Agreements /\ recorded \in [Agreements -> Nat] /\ AgreementDeadline[a] \in Nat
        /\ lastTs \in Nat
    BY ConstantsAssumption DEF IInv, TypeOK, Times
  <2>1. CASE \E b \in Agreements \cup {NoAgreement}, G \in SUBSET SeqIds, w \in WallReads,
                crash \in BOOLEAN : SubmitAssignment(b, G, w, crash)
    <3>1. PICK b \in Agreements \cup {NoAgreement}, w \in WallReads :
              /\ b \in Agreements => ~Refused(b, BlockTs(w))
              /\ recorded' = [c \in Agreements |-> recorded[c] + (IF b = c THEN 1 ELSE 0)]
      BY <2>1 DEF SubmitAssignment
    <3>2. BlockTs(w) > lastTs /\ BlockTs(w) \in Nat
      BY BlockTime DEF IInv
    <3>3. b # a
      BY <2>0, <3>1, <3>2 DEF Refused
    <3> QED
      BY <2>0, <3>1, <3>3
  <2>2. CASE UNCHANGED recorded
    BY <2>2
  <2> QED
    BY <2>1, <2>2
       DEF Next, vars, blocks, CaaSubmit, CaaBind, SubmitAdmin, SubmitRewardRate, SubmitPending,
           SubmitRecorderChange, SubmitMigration, Migratable, Refute, Tick
<1> QED
  BY <1>1, Invariance, PTL DEF Spec, RefutedStaysOut

-----------------------------------------------------------------------------
(* Shares are conserved.                                                   *)

AmountsIn(table) == [s \in SeqIds |-> table[s].amount]
SumOver(f, S) == SumFunctionOnSet(f, S)
Opened == {h \in Caas : escrow[h].status # "none"}

\* The shares are counted in integers, and every CAA has created a row.
Counted ==
    /\ sharesOut \in Int /\ blockShares \in Int
    /\ \A h \in Opened : escrow[h].receivers # {}

\* The rows that live and are not given to an open CAA: what circulates and the
\* reward rows of CAAs.
LiveRows == {s \in SeqIds : utxo[s].status \in {"unspent", "escrowed"}} \ GiversInEscrow

\* They add up although an assignment's block expires, drops, gives back and
\* creates rows at once.
RowsAddUp ==
    /\ TotalOf(utxo, LiveRows) = blockShares + ForfeitedBonds
    /\ ~frozen => sharesOut = blockShares

CInv == IInv /\ RowsAddUp /\ Counted

LEMMA SeqIdsFinite ==
    /\ IsFiniteSet(SeqIds) /\ \A S \in SUBSET SeqIds : IsFiniteSet(S)
    /\ \A s \in SeqIds : s \in Nat
<1>1. IsFiniteSet(SeqIds) /\ \A s \in SeqIds : s \in Nat
  BY ConstantsAssumption, FS_Interval DEF SeqIds
<1> QED
  BY <1>1, FS_Subset

LEMMA TotalIs ==
    ASSUME NEW table, NEW S \in SUBSET SeqIds
    PROVE  TotalOf(table, S) = SumOver(AmountsIn(table), S)
<1> DEFINE f == [s \in S |-> table[s].amount]
<1>1. TotalOf(table, S) = SumFunctionOnSet(f, S)
  BY DEF TotalOf, SumFunction
<1>2. IsFiniteSet(S)
  BY SeqIdsFinite
<1>3. \A s \in S : f[s] = AmountsIn(table)[s]
  BY DEF AmountsIn
<1> HIDE DEF f
<1>4. SumFunctionOnSet(f, S) = SumFunctionOnSet(AmountsIn(table), S)
  BY <1>2, <1>3, SumSame
<1> QED
  BY <1>1, <1>4 DEF SumOver

LEMMA AmountsTyped ==
    ASSUME NEW table \in [SeqIds -> Row]
    PROVE  /\ \A s \in SeqIds : AmountsIn(table)[s] = table[s].amount /\ AmountsIn(table)[s] \in Int
           /\ \A S \in SUBSET SeqIds : SumOver(AmountsIn(table), S) \in Int
<1>1. \A s \in SeqIds : AmountsIn(table)[s] = table[s].amount /\ AmountsIn(table)[s] \in Int
  BY DEF AmountsIn, Row
<1>2. \A S \in SUBSET SeqIds : SumFunctionOnSet(AmountsIn(table), S) \in Int
  BY <1>1, SeqIdsFinite, SumTyped
<1> QED
  BY <1>1, <1>2 DEF SumOver

\* Sequence ids are handed out once, so the CAAs there have been are finitely many.
LEMMA OpenedFinite ==
    ASSUME TypeOK, ReceiversApart, Counted
    PROVE  IsFiniteSet(Opened)
<1> DEFINE first == [h \in Opened |-> CHOOSE s \in SeqIds : s \in escrow[h].receivers]
<1>1. \A h \in Opened : first[h] \in SeqIds /\ first[h] \in escrow[h].receivers
  BY Typed DEF Counted, Opened
<1>2. \A h, k \in Opened : first[h] = first[k] => h = k
  BY <1>1 DEF ReceiversApart, Opened
<1>3. first \in Injection(Opened, SeqIds)
  BY <1>1, <1>2 DEF Injection, IsInjective
<1> QED
  BY <1>3, SeqIdsFinite, FS_Injection

-----------------------------------------------------------------------------
(* What the rows of a block hold. *)

LEMMA FeesAreInts ==
    ASSUME NEW shares \in Int, NEW give \in Int, TypeOK
    PROVE  RecordingFee(shares) \in Int /\ ShareReward(give) \in Int
<1>1. \A a \in Int, b \in Nat \ {0} : CeilDiv(a, b) \in Int
  BY DEF CeilDiv
<1>2. FeeNum * shares \in Int /\ give * rewardNum \in Int
  BY ConstantsAssumption DEF TypeOK
<1> QED
  BY <1>1, <1>2, ConstantsAssumption DEF RecordingFee, ShareReward

\* h counts T by S without omission or repetition; g is f along it.
Counts(h, S, T) ==
    /\ h \in [S -> T] /\ \A x, y \in S : h[x] = h[y] => x = y
    /\ \A z \in T : \E x \in S : z = h[x]
Along(g, f, h, S) == \A x \in S : g[x] \in Int /\ f[h[x]] = g[x]

LEMMA SumAlong ==
    ASSUME NEW S, IsFiniteSet(S), NEW T, NEW h, NEW f, NEW g, Counts(h, S, T), Along(g, f, h, S)
    PROVE  SumFunctionOnSet(f, T) = SumFunctionOnSet(g, S)
<1>1. h \in [S -> T]
  BY DEF Counts
<1>2. \A x, y \in S : h[x] = h[y] => x = y
  BY DEF Counts
<1>3. \A z \in T : \E x \in S : z = h[x]
  BY DEF Counts
<1>4. \A x \in S : g[x] \in Int /\ f[h[x]] = g[x]
  BY DEF Along
<1> QED
  BY <1>1, <1>2, <1>3, <1>4, SumRenamed

\* f gives the numbers of new rows their amounts.
RowsGive(f, rows) == \A s \in NewSeqs(rows) : f[s] = rows[s - nextSeq + 1].amount

LEMMA RowsHold ==
    ASSUME NEW total \in Int, NEW reward \in Int, nextSeq \in Nat,
           NEW rcv \in CaaReceiverLists(total), NEW rew \in RewardRows(reward), NEW f,
           RowsGive(f, rcv \o rew)
    PROVE  SumOver(f, NewSeqs(rcv \o rew)) = total + reward
<1>1. PICK n \in 1..MaxReceivers : rcv \in ListsOfLength(n, total)
  BY DEF CaaReceiverLists
<1>2. PICK k \in [1..n -> Keys \ usedKeys], m \in Splits(total, n) :
          rcv = [i \in 1..n |-> [key |-> k[i], amount |-> m[i]]]
  BY <1>1 DEF ListsOfLength
<1>3. /\ n \in Nat \ {0} /\ m \in [1..n -> Amounts] /\ SumFunctionOnSet(m, 1..n) = total
      /\ \A i \in 1..n : m[i] \in Int
  <2>1. n \in Nat \ {0} /\ m \in [1..n -> Amounts] /\ SumFunction(m) = total
    BY <1>2, ConstantsAssumption DEF Splits
  <2>2. DOMAIN m = 1..n /\ \A i \in 1..n : m[i] \in Amounts
    BY <2>1
  <2>3. \A a \in Amounts : a \in Int
    BY ConstantsAssumption DEF Amounts
  <2> QED
    BY <2>1, <2>2, <2>3 DEF SumFunction
<1>4. /\ rcv \in Seq(FreshRow) /\ Len(rcv) = n /\ \A i \in 1..n : rcv[i].amount = m[i]
  <2>1. rcv \in Seq(FreshRow)
    BY ReceiverRows
  <2>2. Len(rcv) = n
    BY <1>2, <1>3, <2>1
  <2> QED
    BY <1>2, <2>1, <2>2
<1>5. /\ rew \in Seq(FreshRow)
      /\ \/ Len(rew) = 0 /\ reward = 0
         \/ Len(rew) = 1 /\ rew[1].amount = reward
  <2>1. rew \in Seq(FreshRow)
    BY RewardRow
  <2>2. CASE reward = 0
    BY <2>1, <2>2 DEF RewardRows
  <2>3. CASE reward # 0
    <3>1. PICK w \in RewardKeys \ usedKeys, a \in Amounts \cap {reward} :
              rew = <<[key |-> w, amount |-> a]>>
      BY <2>3 DEF RewardRows
    <3> QED
      BY <2>1, <3>1
  <2> QED
    BY <2>1, <2>2, <2>3
<1> DEFINE rows == rcv \o rew
           amt == [i \in 1..Len(rows) |-> rows[i].amount]
           h == [i \in 1..Len(rows) |-> nextSeq + i - 1]
<1>6. /\ rows \in Seq(FreshRow) /\ Len(rows) = n + Len(rew) /\ Len(rew) \in Nat
      /\ \A i \in 1..n : rows[i] = rcv[i]
      /\ \A i \in 1..Len(rew) : rows[n + i] = rew[i]
  <2>1. /\ rows \in Seq(FreshRow) /\ Len(rows) = Len(rcv) + Len(rew)
        /\ \A i \in 1..Len(rcv) + Len(rew) :
              rows[i] = IF i <= Len(rcv) THEN rcv[i] ELSE rew[i - Len(rcv)]
    BY <1>4, <1>5, ConcatProperties
  <2> HIDE DEF rows
  <2>2. Len(rew) \in Nat
    BY <1>5
  <2> QED
    BY <1>3, <1>4, <2>1, <2>2
<1> HIDE DEF rows
<1>7. \A i \in 1..Len(rows) : amt[i] = rows[i].amount /\ amt[i] \in Int
  <2>1. \A i \in 1..Len(rows) : rows[i] \in FreshRow
    BY <1>6
  <2>2. \A r \in FreshRow : r.amount \in Int
    BY ConstantsAssumption DEF FreshRow, Amounts
  <2> QED
    BY <2>1, <2>2
<1>8. SumFunctionOnSet(f, NewSeqs(rows)) = SumFunctionOnSet(amt, 1..Len(rows))
  <2>1. Len(rows) \in Nat /\ IsFiniteSet(1..Len(rows))
    BY <1>3, <1>6, FS_Interval
  <2>2. NewSeqs(rows) = {h[i] : i \in 1..Len(rows)}
    <3>1. ASSUME NEW s \in NewSeqs(rows) PROVE s \in {h[i] : i \in 1..Len(rows)}
      <4>1. s - nextSeq + 1 \in 1..Len(rows) /\ h[s - nextSeq + 1] = s
        BY <2>1 DEF NewSeqs
      <4> QED
        BY <4>1
    <3>2. ASSUME NEW i \in 1..Len(rows) PROVE h[i] \in NewSeqs(rows)
      BY <2>1 DEF NewSeqs
    <3> QED
      BY <3>1, <3>2
  <2>3. \A i \in 1..Len(rows) : amt[i] \in Int /\ f[h[i]] = amt[i]
    <3>1. \A i \in 1..Len(rows) : h[i] \in NewSeqs(rows) /\ h[i] - nextSeq + 1 = i
      BY <2>1 DEF NewSeqs
    <3>2. \A s \in NewSeqs(rows) : f[s] = rows[s - nextSeq + 1].amount
      BY DEF rows, RowsGive
    <3> QED
      BY <1>7, <3>1, <3>2
  <2>4. \A i, j \in 1..Len(rows) : h[i] = h[j] => i = j
    BY <2>1
  <2>5. /\ h \in [1..Len(rows) -> NewSeqs(rows)]
        /\ \A s \in NewSeqs(rows) : \E i \in 1..Len(rows) : s = h[i]
    BY <2>2
  <2> DEFINE D == 1..Len(rows)
             N == NewSeqs(rows)
  <2> HIDE DEF h, amt
  <2>6. IsFiniteSet(D) /\ Counts(h, D, N) /\ Along(amt, f, h, D)
    BY <2>1, <2>3, <2>4, <2>5 DEF Counts, Along
  <2> HIDE DEF D, N
  <2>7. SumFunctionOnSet(f, N) = SumFunctionOnSet(amt, D)
    BY <2>6, SumAlong
  <2> QED
    BY <2>7 DEF D, N
<1>9. SumFunctionOnSet(amt, 1..n) = total
  <2>1. \A i \in 1..n : amt[i] = m[i]
    BY <1>3, <1>4, <1>6, <1>7
  <2>2. IsFiniteSet(1..n)
    BY <1>3, FS_Interval
  <2> HIDE DEF amt
  <2>3. SumFunctionOnSet(amt, 1..n) = SumFunctionOnSet(m, 1..n)
    BY <2>1, <2>2, SumSame
  <2> QED
    BY <1>3, <2>3
<1>10. SumFunctionOnSet(amt, 1..Len(rows)) = total + reward
  <2>1. CASE Len(rew) = 0 /\ reward = 0
    <3>1. Len(rows) = n /\ total + reward = total
      BY <1>3, <1>6, <2>1
    <3> QED
      BY <1>9, <3>1
  <2>2. CASE Len(rew) = 1 /\ rew[1].amount = reward
    <3>1. Len(rows) = n + 1 /\ n + 1 \in 1..Len(rows) /\ (1..Len(rows)) \ {n + 1} = 1..n
      BY <1>3, <1>6, <2>2
    <3>2. amt[n + 1] = reward
      BY <1>6, <1>7, <2>2, <3>1
    <3>3. IsFiniteSet(1..Len(rows))
      BY <1>3, <3>1, FS_Interval
    <3> HIDE DEF amt
    <3>4. \A i \in 1..Len(rows) : amt[i] \in Int
      BY <1>7
    <3> DEFINE U == 1..Len(rows)
    <3>5. IsFiniteSet(U) /\ n + 1 \in U /\ \A i \in U : amt[i] \in Int
      BY <3>1, <3>3, <3>4
    <3>6. U \ {n + 1} = 1..n
      BY <3>1
    <3>7. reward + total = total + reward
      OBVIOUS
    <3> HIDE DEF U
    <3>8. SumFunctionOnSet(amt, U) = amt[n + 1] + SumFunctionOnSet(amt, U \ {n + 1})
      BY <3>5, SumTakes
    <3>9. SumFunctionOnSet(amt, U) = reward + total
      BY <1>9, <3>2, <3>6, <3>8
    <3> QED
      BY <3>7, <3>9 DEF U
  <2> QED
    BY <1>5, <2>1, <2>2
<1> QED
  BY <1>8, <1>10 DEF SumOver, rows

-----------------------------------------------------------------------------
(* How a step changes what circulates. *)

\* E, D and G go, R and the new rows N come; the others keep their amounts.
LEMMA Flow ==
    ASSUME NEW C \in SUBSET SeqIds, NEW E \in SUBSET C, NEW D \in SUBSET (C \ E),
           NEW G \in SUBSET ((C \ E) \ D), NEW R \in SUBSET SeqIds, NEW N \in SUBSET SeqIds,
           R \cap C = {}, N \cap C = {}, N \cap R = {},
           NEW f, NEW g, \A s \in SeqIds : f[s] \in Int /\ g[s] \in Int,
           \A s \in (((C \ E) \ D) \ G) \cup R : g[s] = f[s]
    PROVE  SumOver(g, ((((C \ E) \ D) \ G) \cup R) \cup N)
             = SumOver(f, C) - SumOver(f, E) - SumOver(f, D) - SumOver(f, G)
               + SumOver(f, R) + SumOver(g, N)
<1> DEFINE C1 == C \ E
           C2 == C1 \ D
           C3 == C2 \ G
           K == C3 \cup R
<1>0. /\ \A S \in SUBSET SeqIds : IsFiniteSet(S)
      /\ \A S \in SUBSET SeqIds : SumOver(f, S) \in Int /\ SumOver(g, S) \in Int
  <2>1. \A S \in SUBSET SeqIds : SumOver(f, S) \in Int
    BY SeqIdsFinite, SumTyped DEF SumOver
  <2>2. \A S \in SUBSET SeqIds : SumOver(g, S) \in Int
    BY SeqIdsFinite, SumTyped DEF SumOver
  <2> QED
    BY <2>1, <2>2, SeqIdsFinite
<1>1. SumOver(f, C1) = SumOver(f, C) - SumOver(f, E)
  BY <1>0, SumWithout DEF SumOver
<1>2. SumOver(f, C2) = SumOver(f, C1) - SumOver(f, D)
  <2>1. IsFiniteSet(C1) /\ D \in SUBSET C1 /\ \A x \in C1 : f[x] \in Int
    BY <1>0
  <2> HIDE DEF C1
  <2> QED
    BY <2>1, SumWithout DEF SumOver
<1>3. SumOver(f, C3) = SumOver(f, C2) - SumOver(f, G)
  <2>1. IsFiniteSet(C2) /\ G \in SUBSET C2 /\ \A x \in C2 : f[x] \in Int
    BY <1>0
  <2> HIDE DEF C2
  <2> QED
    BY <2>1, SumWithout DEF SumOver
<1>4. SumOver(f, K) = SumOver(f, C3) + SumOver(f, R)
  <2>1. /\ IsFiniteSet(C3) /\ IsFiniteSet(R) /\ C3 \cap R = {}
        /\ \A x \in C3 \cup R : f[x] \in Int
    BY <1>0
  <2> HIDE DEF C3
  <2> QED
    BY <2>1, SumUnion DEF SumOver
<1>5. SumOver(g, K) = SumOver(f, K)
  <2>1. IsFiniteSet(K) /\ \A s \in K : g[s] = f[s]
    BY <1>0
  <2> HIDE DEF K
  <2> QED
    BY <2>1, SumSame DEF SumOver
<1>6. SumOver(g, K \cup N) = SumOver(g, K) + SumOver(g, N)
  <2>1. /\ IsFiniteSet(K) /\ IsFiniteSet(N) /\ K \cap N = {}
        /\ \A x \in K \cup N : g[x] \in Int
    BY <1>0
  <2> HIDE DEF K
  <2> QED
    BY <2>1, SumUnion DEF SumOver
<1>7. /\ C1 \in SUBSET SeqIds /\ C2 \in SUBSET SeqIds /\ C3 \in SUBSET SeqIds
      /\ E \in SUBSET SeqIds /\ D \in SUBSET SeqIds /\ G \in SUBSET SeqIds
  OBVIOUS
<1> DEFINE c == SumOver(f, C)
           e == SumOver(f, E)
           d == SumOver(f, D)
           x == SumOver(f, G)
           r == SumOver(f, R)
           n == SumOver(g, N)
<1>8. c \in Int /\ e \in Int /\ d \in Int /\ x \in Int /\ r \in Int /\ n \in Int
  BY <1>0, <1>7
<1>9. SumOver(g, K \cup N) = (((c - e) - d) - x + r) + n
  BY <1>1, <1>2, <1>3, <1>4, <1>5, <1>6
<1> QED
  BY <1>9

LEMMA FlowNone ==
    ASSUME NEW f, NEW g, NEW C \in SUBSET SeqIds, \A s \in C : g[s] = f[s]
    PROVE  SumOver(g, C) = SumOver(f, C)
BY SeqIdsFinite, SumSame DEF SumOver

\* What lives and is not given, and what it adds up to.
LEMMA LiveRowsNow ==
    ASSUME CInv
    PROVE  /\ LiveRows \in SUBSET SeqIds /\ GiversInEscrow \in SUBSET SeqIds
           /\ \A s \in SeqIds : s \in LiveRows <=>
                 utxo[s].status \in {"unspent", "escrowed"} /\ s \notin GiversInEscrow
           /\ \A s \in GiversInEscrow : utxo[s].status = "escrowed"
           /\ SumOver(AmountsIn(utxo), LiveRows) = blockShares + ForfeitedBonds
           /\ ~frozen => sharesOut = blockShares
<1>1. \A h \in Active : h \in Caas /\ escrow[h].givers \subseteq SeqIds
                        /\ \A s \in escrow[h].givers : utxo[s].status = "escrowed"
  BY Typed DEF CInv, IInv, EscrowCoherence, Held, Active, ActiveIn
<1>2. /\ GiversInEscrow \in SUBSET SeqIds
      /\ \A s \in GiversInEscrow : utxo[s].status = "escrowed"
  BY <1>1 DEF GiversInEscrow
<1>3. /\ LiveRows \in SUBSET SeqIds
      /\ \A s \in SeqIds : s \in LiveRows <=>
            utxo[s].status \in {"unspent", "escrowed"} /\ s \notin GiversInEscrow
  BY DEF LiveRows
<1>4. /\ TotalOf(utxo, LiveRows) = blockShares + ForfeitedBonds
      /\ ~frozen => sharesOut = blockShares
  BY DEF CInv, RowsAddUp
<1> QED
  BY <1>2, <1>3, <1>4, TotalIs

LEMMA BondsTyped ==
    ASSUME CInv
    PROVE  /\ ForfeitedBonds \in Int
           /\ ForfeitedBonds =
                SumOver([h \in Caas |-> escrow[h].bond], {h \in Caas : escrow[h].status = "expired"})
<1> DEFINE X == {h \in Caas : escrow[h].status = "expired"}
           b == [h \in X |-> escrow[h].bond]
           all == [h \in Caas |-> escrow[h].bond]
<1>1. IsFiniteSet(X)
  <2>1. X \in SUBSET Opened
    BY DEF Opened
  <2> QED
    BY <2>1, OpenedFinite, FS_Subset DEF CInv, IInv
<1>2. \A h \in X : all[h] = b[h] /\ all[h] \in Int
  BY DEF CInv, IInv, TypeOK
<1>3. ForfeitedBonds = SumFunctionOnSet(b, X)
  BY DEF ForfeitedBonds, SumFunction
<1> HIDE DEF b, all, X
<1>4. SumFunctionOnSet(b, X) = SumFunctionOnSet(all, X) /\ SumFunctionOnSet(all, X) \in Int
  BY <1>1, <1>2, SumSame, SumTyped
<1> QED
  BY <1>3, <1>4 DEF SumOver, all, X

-----------------------------------------------------------------------------
(* Initial states, and steps that create and drop no rows. *)

LEMMA InitShares == Init => CInv
<1> SUFFICES ASSUME Init PROVE CInv
  OBVIOUS
<1>1. IInv
  BY InitInv
<1>2. Counted
  BY ConstantsAssumption DEF Init, Counted, Opened, NoEscrow
<1>3. 1 \in SeqIds /\ IsFiniteSet({1}) /\ IsFiniteSet({})
  <2>1. 1 \in SeqIds
    BY ConstantsAssumption DEF SeqIds
  <2>2. IsFiniteSet({1}) /\ IsFiniteSet({})
    BY FS_Singleton, FS_EmptySet
  <2> QED
    BY <2>1, <2>2
<1>4. LiveRows = {1}
  <2>1. Active = {}
    BY DEF Init, Active, ActiveIn, NoEscrow
  <2>2. GiversInEscrow = {}
    BY <2>1 DEF GiversInEscrow
  <2>3. \A s \in SeqIds : utxo[s].status \in {"unspent", "escrowed"} <=> s = 1
    BY DEF Init, Absent
  <2> QED
    BY <1>3, <2>2, <2>3 DEF LiveRows
<1>5. TotalOf(utxo, {1}) = GenesisShares
  <2> DEFINE f == AmountsIn(utxo)
  <2>1. \A s \in {1} : f[s] \in Int
    BY <1>3, ConstantsAssumption DEF AmountsIn, Init
  <2>2. f[1] = GenesisShares /\ GenesisShares \in Int
    BY <1>3, ConstantsAssumption DEF AmountsIn, Init
  <2>3. TotalOf(utxo, {1}) = SumFunctionOnSet(f, {1})
    BY <1>3, TotalIs DEF SumOver
  <2> HIDE DEF f
  <2>4. SumFunctionOnSet(f, {1}) = f[1] + SumFunctionOnSet(f, {1} \ {1})
    BY <1>3, <2>1, SumTakes
  <2>5. {1} \ {1} = {} /\ SumFunctionOnSet(f, {}) = 0
    BY <1>3, SumUnfolds
  <2> QED
    BY <2>2, <2>3, <2>4, <2>5
<1>6. ForfeitedBonds = 0
  <2> DEFINE X == {k \in Caas : escrow[k].status = "expired"}
             b == [h \in X |-> escrow[h].bond]
  <2>1. X = {}
    BY DEF Init, NoEscrow
  <2>2. ForfeitedBonds = SumFunctionOnSet(b, X)
    BY DEF ForfeitedBonds, SumFunction
  <2>3. SumFunctionOnSet(b, {}) = 0
    BY <1>3, SumUnfolds
  <2> QED
    BY <2>1, <2>2, <2>3
<1>7. RowsAddUp
  <2>1. TotalOf(utxo, LiveRows) = GenesisShares /\ GenesisShares \in Int
    BY <1>4, <1>5, ConstantsAssumption
  <2>2. blockShares = GenesisShares /\ sharesOut = GenesisShares
    BY DEF Init
  <2> QED
    BY <1>6, <2>1, <2>2 DEF RowsAddUp
<1> QED
  BY <1>1, <1>2, <1>7 DEF CInv

LEMMA AmountKept ==
    ASSUME TypeOK, RowsKept, NEW s \in SeqIds, utxo[s].status # "absent", utxo'[s].status # "absent"
    PROVE  utxo'[s].amount = utxo[s].amount
<1>1. utxo[s] \in Row
  BY Typed
<1>2. utxo'[s] = [utxo[s] EXCEPT !.status = utxo'[s].status]
  BY DEF RowsKept
<1> QED
  BY <1>1, <1>2 DEF Row

LEMMA QuietShares ==
    ASSUME CInv, IInv', UNCHANGED <<utxo, escrow, sharesOut, frozen>>,
           blockShares' = blockShares \/ (blockShares' = sharesOut /\ ~frozen)
    PROVE  CInv'
<1>1. blockShares' = blockShares
  BY DEF CInv, RowsAddUp
<1>2. RowsAddUp'
  BY <1>1 DEF CInv, RowsAddUp, TotalOf, LiveRows, GiversInEscrow, ForfeitedBonds,
              Active, ActiveIn
<1>3. Counted'
  BY <1>1 DEF CInv, Counted, Opened
<1> QED
  BY <1>2, <1>3 DEF CInv

LEMMA BindShares ==
    ASSUME CInv, IInv', RowsKept, NEW h \in Caas, NEW wall \in WallReads, NEW crash \in BOOLEAN,
           CaaBind(h, wall, crash)
    PROVE  CInv'
<1>0. /\ TypeOK /\ EscrowCoherence /\ FrozenQuiet
      /\ utxo \in [SeqIds -> Row] /\ escrow \in [Caas -> EscrowRow]
  BY Typed DEF CInv, IInv
<1>1. /\ h \in Active /\ ~frozen /\ blockShares = sharesOut
      /\ escrow[h].givers \subseteq SeqIds /\ escrow[h].receivers \subseteq SeqIds
  BY <1>0, Typed DEF CaaBind, Active, ActiveIn, FrozenQuiet, CInv, RowsAddUp
<1>2. /\ escrow' = [escrow EXCEPT ![h].status = "finalized"]
      /\ blockShares' = blockShares /\ sharesOut' = sharesOut /\ frozen' = frozen
      /\ utxo' = SetStatus(SetStatus(utxo, escrow[h].givers, "spent"),
                           escrow[h].receivers, "unspent")
  BY <1>1 DEF CaaBind
<1>3. /\ escrow'[h].status = "finalized"
      /\ \A k \in Caas : /\ k # h => escrow'[k] = escrow[k]
                         /\ escrow'[k].givers = escrow[k].givers
                         /\ escrow'[k].receivers = escrow[k].receivers
                         /\ escrow'[k].bond = escrow[k].bond
  BY <1>0, <1>2 DEF EscrowRow
<1>4. Active' = Active \ {h} /\ Opened' = Opened
  BY <1>1, <1>3 DEF Active, ActiveIn, Opened
<1>5. ASSUME NEW s \in SeqIds
      PROVE  /\ s \in escrow[h].receivers => utxo'[s].status = "unspent"
             /\ s \in escrow[h].givers /\ s \notin escrow[h].receivers => utxo'[s].status = "spent"
             /\ s \notin escrow[h].givers \cup escrow[h].receivers => utxo'[s] = utxo[s]
  <2>1. utxo[s] \in Row
    BY <1>0
  <2> QED
    BY <1>2, <2>1 DEF SetStatus, Row
<1>6. \A k \in Active : k # h => Held(k) \cap Held(h) = {}
  BY <1>0, <1>1 DEF EscrowCoherence
<1>7. LiveRows' = LiveRows
  <2>1. GiversInEscrow = GiversInEscrow' \cup escrow[h].givers
    BY <1>1, <1>3, <1>4 DEF GiversInEscrow, Active, ActiveIn
  <2>2. GiversInEscrow' \cap Held(h) = {}
    BY <1>1, <1>3, <1>4, <1>6 DEF GiversInEscrow, Held, Active, ActiveIn
  <2>3. \A s \in escrow[h].receivers : utxo[s].status = "escrowed" /\ s \notin escrow[h].givers
    BY <1>0, <1>1 DEF EscrowCoherence, Held
  <2>4. ASSUME NEW s \in SeqIds PROVE s \in LiveRows' <=> s \in LiveRows
    <3>1. CASE s \in escrow[h].receivers
      BY <1>5, <2>1, <2>2, <2>3, <3>1 DEF LiveRows, Held
    <3>2. CASE s \in escrow[h].givers /\ s \notin escrow[h].receivers
      BY <1>5, <2>1, <3>2 DEF LiveRows
    <3>3. CASE s \notin escrow[h].givers \cup escrow[h].receivers
      BY <1>5, <2>1, <3>3 DEF LiveRows
    <3> QED
      BY <3>1, <3>2, <3>3
  <2>5. LiveRows' \subseteq SeqIds /\ LiveRows \subseteq SeqIds
    BY DEF LiveRows
  <2> QED
    BY <2>4, <2>5
<1>8. TotalOf(utxo', LiveRows') = TotalOf(utxo, LiveRows)
  <2>1. \A s \in LiveRows : AmountsIn(utxo')[s] = AmountsIn(utxo)[s]
    BY <1>0, <1>7, AmountKept DEF AmountsIn, LiveRows
  <2>2. LiveRows \in SUBSET SeqIds
    BY DEF LiveRows
  <2> QED
    BY <1>7, <2>1, <2>2, TotalIs, FlowNone
<1>9. ForfeitedBonds' = ForfeitedBonds
  <2> DEFINE X == {k \in Caas : escrow[k].status = "expired"}
  <2>1. X' = X
    BY <1>1, <1>3 DEF Active, ActiveIn
  <2>2. [k \in X |-> escrow[k].bond]' = [k \in X |-> escrow[k].bond]
    BY <1>3, <2>1
  <2> HIDE DEF X
  <2>3. SumFunction([k \in X |-> escrow[k].bond])' = SumFunction([k \in X |-> escrow[k].bond])
    BY <2>2
  <2> QED
    BY <2>3 DEF ForfeitedBonds, X
<1>10. RowsAddUp'
  BY <1>2, <1>8, <1>9 DEF CInv, RowsAddUp
<1>11. Counted'
  BY <1>2, <1>3, <1>4 DEF CInv, Counted, Opened
<1> QED
  BY <1>10, <1>11 DEF CInv

LEMMA MigrationShares ==
    ASSUME CInv, IInv', RowsKept, NEW wall \in WallReads, SubmitMigration(wall)
    PROVE  CInv'
<1> DEFINE ts == BlockTs(wall)
           E == Expirable(ts)
           f == AmountsIn(utxo)
           g == AmountsIn(utxo')
<1>0. /\ TypeOK /\ utxo \in [SeqIds -> Row] /\ utxo' \in [SeqIds -> Row]
  BY Typed DEF CInv, IInv, TypeOK, Row
<1>1. /\ ~frozen /\ Active = {} /\ frozen' = TRUE
      /\ utxo' = SetStatus(utxo, E, "expired")
      /\ blockShares' = sharesOut - TotalOf(utxo, E)
      /\ UNCHANGED <<escrow, sharesOut>>
  BY DEF SubmitMigration, Migratable
<1>2. GiversInEscrow = {} /\ GiversInEscrow' = {}
  BY <1>1 DEF GiversInEscrow, Active, ActiveIn
<1>3. E \in SUBSET LiveRows /\ LiveRows \in SUBSET SeqIds /\ E \in SUBSET SeqIds
  BY <1>2 DEF LiveRows, Expirable, Unspent
<1>4. LiveRows' = LiveRows \ E
  <2>1. \A s \in SeqIds : IF s \in E THEN utxo'[s].status = "expired" ELSE utxo'[s] = utxo[s]
    <3>1. ASSUME NEW s \in SeqIds PROVE utxo[s] \in Row
      BY <1>0
    <3> HIDE DEF E
    <3> QED
      BY <1>1, <3>1 DEF SetStatus, Row
  <2> HIDE DEF E
  <2> QED
    BY <1>2, <2>1 DEF LiveRows
<1>5. \A s \in SeqIds : f[s] \in Int /\ g[s] \in Int
  BY <1>0, AmountsTyped
<1>6. \A s \in LiveRows' : g[s] = f[s]
  BY <1>0, <1>3, <1>4, AmountKept DEF AmountsIn, LiveRows
<1> HIDE DEF E, f, g
<1>7. SumOver(g, LiveRows \ E) = SumOver(f, LiveRows) - SumOver(f, E)
  <2>1. SumOver(f, LiveRows \ E) = SumOver(f, LiveRows) - SumOver(f, E)
    BY <1>3, <1>5, SeqIdsFinite, SumWithout DEF SumOver
  <2> QED
    BY <1>3, <1>4, <1>6, <2>1, FlowNone
<1>8. /\ SumOver(f, LiveRows) = blockShares + ForfeitedBonds /\ sharesOut = blockShares
      /\ ForfeitedBonds \in Int /\ blockShares \in Int
  BY <1>1, LiveRowsNow, BondsTyped DEF f, CInv, Counted
<1>9. SumOver(f, E) \in Int /\ TotalOf(utxo, E) = SumOver(f, E)
  BY <1>0, <1>3, AmountsTyped, TotalIs DEF f
<1>10. ForfeitedBonds' = ForfeitedBonds
  BY <1>1 DEF ForfeitedBonds
<1>11. TotalOf(utxo, LiveRows)' = SumOver(g, LiveRows \ E)
  <2>1. LiveRows \ E \in SUBSET SeqIds
    BY <1>3
  <2> QED
    BY <1>4, <2>1, TotalIs DEF g
<1>12. TotalOf(utxo, LiveRows)' = blockShares' + ForfeitedBonds' /\ blockShares' \in Int
  BY <1>1, <1>7, <1>8, <1>9, <1>10, <1>11
<1>13. RowsAddUp' /\ Counted'
  BY <1>1, <1>12 DEF RowsAddUp, CInv, Counted, Opened
<1> QED
  BY <1>13 DEF CInv

LEMMA InsertedRows ==
    ASSUME TypeOK, NEW rows \in Seq(FreshRow), nextSeq + Len(rows) - 1 <= MaxSeq,
           NEW ts, NEW st, NEW table
    PROVE  /\ NewSeqs(rows) \in SUBSET SeqIds
           /\ \A s \in NewSeqs(rows) : s >= nextSeq /\ utxo[s] = Absent
           /\ \A s \in NewSeqs(rows) :
                 /\ InsertRows(table, rows, ts, st)[s].status = st
                 /\ InsertRows(table, rows, ts, st)[s].amount = rows[s - nextSeq + 1].amount
           /\ \A s \in SeqIds \ NewSeqs(rows) : InsertRows(table, rows, ts, st)[s] = table[s]
<1>1. nextSeq \in Nat /\ nextSeq >= 2 /\ Len(rows) \in Nat /\ MaxSeq \in Nat
  BY LenProperties, ConstantsAssumption DEF TypeOK
<1>2. /\ NewSeqs(rows) \in SUBSET SeqIds
      /\ \A s \in NewSeqs(rows) : s >= nextSeq
  BY <1>1 DEF NewSeqs, SeqIds
<1>3. \A s \in NewSeqs(rows) : utxo[s] = Absent
  BY <1>2 DEF TypeOK
<1> QED
  BY <1>2, <1>3 DEF InsertRows

LEMMA CaaSubmitShares ==
    ASSUME CInv, IInv', RowsKept, NEW h \in Caas, NEW G \in SUBSET SeqIds, NEW wall \in WallReads,
           CaaSubmit(h, G, wall)
    PROVE  CInv'
<1> DEFINE ts == BlockTs(wall)
           give == TotalOf(utxo, G)
           fee == RecordingFee(sharesOut)
           reward == ShareReward(give)
           total == give - fee - reward
           mid == SetStatus(utxo, G, "escrowed")
           f == AmountsIn(utxo)
           g == AmountsIn(utxo')
<1>1. /\ ~frozen /\ escrow[h].status = "none" /\ Spendable(G, ts) /\ frozen' = frozen
      /\ sharesOut' = sharesOut - fee /\ blockShares' = sharesOut'
  BY DEF CaaSubmit
<1>2. PICK rcv \in CaaReceiverLists(total), rew \in RewardRows(reward), deadline \in Times,
           bond \in Bonds \cup {0} :
          /\ nextSeq + Len(rcv \o rew) - 1 <= MaxSeq
          /\ utxo' = InsertRows(mid, rcv \o rew, ts, "escrowed")
          /\ escrow' = [escrow EXCEPT ![h] =
                 [status |-> "escrowed", deadline |-> deadline, givers |-> G,
                  receivers |-> NewSeqs(rcv),
                  rewards |-> NewSeqs(rcv \o rew) \ NewSeqs(rcv),
                  bond |-> bond, by |-> recorder]]
  BY ZenonT(60) DEF CaaSubmit
<1> DEFINE rows == rcv \o rew
           N == NewSeqs(rows)
<1>0. /\ TypeOK /\ utxo \in [SeqIds -> Row] /\ escrow \in [Caas -> EscrowRow]
      /\ utxo' \in [SeqIds -> Row] /\ nextSeq \in Nat
  BY Typed DEF CInv, IInv, TypeOK, Row
<1>3. give \in Int /\ fee \in Int /\ reward \in Int /\ total \in Int /\ give = SumOver(f, G)
  <2>1. give = SumOver(f, G) /\ give \in Int
    BY <1>0, TotalIs, AmountsTyped
  <2>2. fee \in Int /\ reward \in Int
    BY <1>0, <2>1, FeesAreInts DEF CInv, Counted
  <2> HIDE DEF fee, reward, give
  <2> QED
    BY <2>1, <2>2
<1>4. rows \in Seq(FreshRow)
  BY NewRows
<1>5. /\ N \in SUBSET SeqIds /\ \A s \in N : utxo[s] = Absent
      /\ \A s \in N : utxo'[s].status = "escrowed" /\ utxo'[s].amount = rows[s - nextSeq + 1].amount
      /\ \A s \in SeqIds \ N : utxo'[s] = mid[s]
  <2>1. /\ nextSeq + Len(rows) - 1 <= MaxSeq
        /\ utxo' = InsertRows(mid, rows, ts, "escrowed")
    BY <1>2
  <2> HIDE DEF rows, mid, ts
  <2> QED
    BY <1>0, <1>4, <2>1, InsertedRows
<1>6. \A s \in N : g[s] = rows[s - nextSeq + 1].amount
  BY <1>5 DEF AmountsIn
<1>7. SumOver(g, N) = total + reward
  <2>1. RowsGive(g, rows)
    BY <1>6 DEF RowsGive
  <2>2. rcv \in CaaReceiverLists(total) /\ rew \in RewardRows(reward)
    BY <1>0
  <2> HIDE DEF total, reward, g
  <2>3. SumOver(g, NewSeqs(rcv \o rew)) = total + reward
    BY <1>0, <1>3, <2>1, <2>2, RowsHold
  <2> QED
    BY <2>3
<1>8. /\ escrow'[h].status = "escrowed" /\ escrow'[h].givers = G
      /\ escrow'[h].receivers # {}
      /\ \A k \in Caas : k # h => escrow'[k] = escrow[k]
  <2>1. /\ escrow'[h].status = "escrowed" /\ escrow'[h].givers = G
        /\ escrow'[h].receivers = NewSeqs(rcv)
        /\ \A k \in Caas : k # h => escrow'[k] = escrow[k]
    BY <1>0, <1>2
  <2>2. nextSeq \in NewSeqs(rcv)
    BY <1>0, NewRows DEF NewSeqs
  <2> QED
    BY <2>1, <2>2
<1>9. Active' = Active \cup {h} /\ Opened' = Opened \cup {h} /\ h \notin Active
  BY <1>1, <1>8 DEF Active, ActiveIn, Opened
<1>10. GiversInEscrow' = GiversInEscrow \cup G
  <2>1. \A k \in Active : escrow'[k].givers = escrow[k].givers
    BY <1>8, <1>9 DEF Active, ActiveIn
  <2> QED
    BY <1>8, <1>9, <2>1 DEF GiversInEscrow
<1>11. \A s \in G : utxo[s].status = "unspent" /\ s \in SeqIds
  BY <1>1 DEF Spendable
<1>12. G \in SUBSET LiveRows /\ LiveRows \in SUBSET SeqIds /\ N \cap LiveRows = {}
  BY <1>5, <1>11, LiveRowsNow DEF Absent
<1>13. \A s \in SeqIds \ (N \cup G) : utxo'[s] = utxo[s]
  BY <1>5 DEF SetStatus
<1>14. LiveRows' = (LiveRows \ G) \cup N
  <2> HIDE DEF N
  <2>1. ASSUME NEW s \in SeqIds PROVE s \in LiveRows' <=> s \in (LiveRows \ G) \cup N
    <3>1. CASE s \in N
      <4>1. s \notin GiversInEscrow /\ s \notin G
        BY <1>5, <1>11, <3>1, LiveRowsNow DEF Absent
      <4> QED
        BY <1>5, <1>10, <3>1, <4>1 DEF LiveRows
    <3>2. CASE s \in G
      BY <1>5, <1>10, <1>11, <3>2 DEF LiveRows, Absent
    <3>3. CASE s \notin N \cup G
      BY <1>10, <1>13, <3>3 DEF LiveRows
    <3> QED
      BY <3>1, <3>2, <3>3
  <2>2. LiveRows' \subseteq SeqIds
    BY DEF LiveRows
  <2> QED
    BY <1>5, <1>12, <2>1, <2>2
<1>15. \A s \in SeqIds : f[s] \in Int /\ g[s] \in Int
  BY <1>0, AmountsTyped
<1>16. \A s \in LiveRows \ G : g[s] = f[s]
  <2>1. \A s \in LiveRows \ G : s \in SeqIds /\ s \in LiveRows'
    BY <1>12, <1>14
  <2> QED
    BY <1>0, <2>1, AmountKept DEF AmountsIn, LiveRows
<1> HIDE DEF f, g, N
<1>17. SumOver(g, LiveRows') = SumOver(f, LiveRows) - SumOver(f, G) + SumOver(g, N)
  <2> DEFINE K == LiveRows \ G
  <2>1. /\ IsFiniteSet(K) /\ IsFiniteSet(N) /\ K \cap N = {} /\ \A s \in K \cup N : g[s] \in Int
        /\ K \in SUBSET SeqIds
    BY <1>5, <1>12, <1>15, SeqIdsFinite
  <2>2. SumOver(f, K) = SumOver(f, LiveRows) - SumOver(f, G)
    BY <1>12, <1>15, SeqIdsFinite, SumWithout DEF SumOver
  <2> HIDE DEF K
  <2>3. SumOver(g, K) = SumOver(f, K)
    BY <1>16, <2>1, FlowNone DEF K
  <2>4. SumOver(g, K \cup N) = SumOver(g, K) + SumOver(g, N)
    BY <2>1, SumUnion DEF SumOver
  <2>5. LiveRows' = K \cup N
    BY <1>14 DEF K
  <2> QED
    BY <2>2, <2>3, <2>4, <2>5
<1>18. /\ SumOver(f, LiveRows) = blockShares + ForfeitedBonds /\ sharesOut = blockShares
       /\ ForfeitedBonds \in Int /\ blockShares \in Int
  BY <1>1, LiveRowsNow, BondsTyped DEF f, CInv, Counted
<1>19. ForfeitedBonds' = ForfeitedBonds
  <2> DEFINE X == {k \in Caas : escrow[k].status = "expired"}
  <2>1. X' = X /\ \A k \in X : escrow'[k].bond = escrow[k].bond
    BY <1>1, <1>8
  <2>2. [k \in X |-> escrow[k].bond]' = [k \in X |-> escrow[k].bond]
    BY <2>1
  <2> HIDE DEF X
  <2>3. SumFunction([k \in X |-> escrow[k].bond])' = SumFunction([k \in X |-> escrow[k].bond])
    BY <2>2
  <2> QED
    BY <2>3 DEF ForfeitedBonds, X
<1>20. TotalOf(utxo, LiveRows)' = SumOver(g, LiveRows')
  <2>1. LiveRows' \in SUBSET SeqIds
    BY DEF LiveRows
  <2> QED
    BY <2>1, TotalIs DEF g
<1> HIDE DEF give, fee, reward
<1>21. TotalOf(utxo, LiveRows)' = blockShares' + ForfeitedBonds' /\ blockShares' \in Int
  BY <1>1, <1>3, <1>7, <1>17, <1>18, <1>19, <1>20
<1>22. RowsAddUp' /\ Counted'
  BY <1>1, <1>8, <1>9, <1>21 DEF RowsAddUp, CInv, Counted, Opened
<1> QED
  BY <1>22 DEF CInv

\* What the sweep gives back and what it drops, exchange by exchange.
LEMMA SweepAmounts ==
    ASSUME CInv, NEW ts \in Times
    PROVE  /\ FeeRestored(ts) = SumOver(AmountsIn(utxo), ReleasedGivers(ts))
                                - SumOver(AmountsIn(utxo), DroppedReceivers(ts))
                                - SumOver([h \in Caas |-> escrow[h].bond], TimedOut(ts))
           /\ SumOver([h \in Caas |-> escrow[h].bond], TimedOut(ts)) \in Int
           /\ IsFiniteSet(TimedOut(ts))
<1> DEFINE T == TimedOut(ts)
           f == AmountsIn(utxo)
           gv == [h \in T |-> SumOver(f, escrow[h].givers)]
           rv == [h \in T |-> SumOver(f, escrow[h].receivers)]
           net == [h \in T |-> gv[h] - rv[h]]
           bd == [h \in Caas |-> escrow[h].bond]
           left == [h \in T |-> net[h] - bd[h]]
<1>0. /\ TypeOK /\ EscrowCoherence /\ utxo \in [SeqIds -> Row]
      /\ \A h \in Caas : escrow[h].givers \subseteq SeqIds /\ escrow[h].receivers \subseteq SeqIds
      /\ \A h \in Caas : bd[h] \in Int
  BY Typed DEF CInv, IInv, TypeOK
<1>1. T \subseteq Active /\ \A h \in T : h \in Caas
  BY DEF TimedOut, Active, ActiveIn
<1>2. IsFiniteSet(T)
  <2>1. T \in SUBSET Opened
    BY <1>1 DEF Active, ActiveIn, Opened
  <2> HIDE DEF T
  <2> QED
    BY <2>1, OpenedFinite, FS_Subset DEF CInv, IInv
<1>3. \A h, k \in T : h # k => Held(h) \cap Held(k) = {}
  BY <1>0, <1>1 DEF EscrowCoherence
<1>4. \A h \in T : gv[h] \in Int /\ rv[h] \in Int /\ net[h] \in Int /\ bd[h] \in Int
                   /\ left[h] = net[h] - bd[h] /\ net[h] = gv[h] - rv[h]
  <2>1. \A h \in T : gv[h] \in Int /\ rv[h] \in Int
    BY <1>0, <1>1, AmountsTyped
  <2> QED
    BY <1>0, <1>1, <2>1
<1>5. \A h \in T : TotalOf(utxo, escrow[h].givers) = gv[h] /\ TotalOf(utxo, escrow[h].receivers) = rv[h]
  BY <1>0, <1>1, TotalIs
<1>6. FeeRestored(ts) = SumFunctionOnSet(left, T)
  <2> DEFINE fr == [h \in TimedOut(ts) |-> TotalOf(utxo, escrow[h].givers)
                                        - TotalOf(utxo, escrow[h].receivers)
                                        - escrow[h].bond]
  <2>1. FeeRestored(ts) = SumFunctionOnSet(fr, T)
    BY DEF FeeRestored, SumFunction
  <2>2. \A h \in T : fr[h] = left[h]
    BY <1>1, <1>5
  <2> HIDE DEF fr, left, T
  <2> QED
    BY <1>2, <2>1, <2>2, SumSame
<1>7. SumFunctionOnSet(gv, T) = SumOver(f, ReleasedGivers(ts))
  <2> DEFINE F == [h \in T |-> escrow[h].givers]
             U == ReleasedGivers(ts)
  <2>1. Parts(F, T, U) /\ \A x \in U : f[x] \in Int
    <3>1. \A h \in T : F[h] = escrow[h].givers /\ F[h] \in SUBSET SeqIds /\ F[h] \subseteq Held(h)
      BY <1>0, <1>1 DEF Held
    <3>2. F \in [T -> SUBSET U] /\ \A x \in U : \E h \in T : x \in F[h]
      BY DEF ReleasedGivers
    <3>3. \A x \in SeqIds : f[x] \in Int
      BY <1>0, AmountsTyped
    <3> HIDE DEF F, T, f
    <3> QED
      BY <1>3, <3>1, <3>2, <3>3, SeqIdsFinite DEF Parts
  <2>2. \A h \in T : gv[h] = SumFunctionOnSet(f, F[h])
    BY DEF SumOver
  <2> HIDE DEF F, U, T, gv, f
  <2>3. SumFunctionOnSet(f, U) = SumFunctionOnSet(gv, T)
    BY <1>2, <2>1, <2>2, SumOfSums
  <2> QED
    BY <2>3 DEF U, SumOver
<1>8. SumFunctionOnSet(rv, T) = SumOver(f, DroppedReceivers(ts))
  <2> DEFINE F == [h \in T |-> escrow[h].receivers]
             U == DroppedReceivers(ts)
  <2>1. Parts(F, T, U) /\ \A x \in U : f[x] \in Int
    <3>1. \A h \in T : F[h] = escrow[h].receivers /\ F[h] \in SUBSET SeqIds /\ F[h] \subseteq Held(h)
      BY <1>0, <1>1 DEF Held
    <3>2. F \in [T -> SUBSET U] /\ \A x \in U : \E h \in T : x \in F[h]
      BY DEF DroppedReceivers
    <3>3. \A x \in SeqIds : f[x] \in Int
      BY <1>0, AmountsTyped
    <3> HIDE DEF F, T, f
    <3> QED
      BY <1>3, <3>1, <3>2, <3>3, SeqIdsFinite DEF Parts
  <2>2. \A h \in T : rv[h] = SumFunctionOnSet(f, F[h])
    BY DEF SumOver
  <2> HIDE DEF F, U, T, rv, f
  <2>3. SumFunctionOnSet(f, U) = SumFunctionOnSet(rv, T)
    BY <1>2, <2>1, <2>2, SumOfSums
  <2> QED
    BY <2>3 DEF U, SumOver
<1> HIDE DEF T, gv, rv, net, bd, left, f
<1>9. SumFunctionOnSet(net, T) = SumFunctionOnSet(gv, T) - SumFunctionOnSet(rv, T)
  BY <1>2, <1>4, SumDifference
<1>10. SumFunctionOnSet(left, T) = SumFunctionOnSet(net, T) - SumFunctionOnSet(bd, T)
  BY <1>2, <1>4, SumDifference
<1>11. SumFunctionOnSet(bd, T) \in Int
  BY <1>2, <1>4, SumTyped
<1> QED
  BY <1>2, <1>6, <1>7, <1>8, <1>9, <1>10, <1>11 DEF SumOver, T, bd, f

\* Where the shares of a swept table are.
LEMMA SweepCirculates ==
    ASSUME CInv, NEW ts \in Times, NEW G \in SUBSET SeqIds, Spendable(G, ts)
    PROVE  LET C == LiveRows
               E == Expirable(ts)
               D == DroppedReceivers(ts)
               R == ReleasedGivers(ts)
               t == SetStatus(SweptUtxo(ts), G, "spent") IN
           /\ E \in SUBSET C /\ D \in SUBSET (C \ E) /\ G \in SUBSET ((C \ E) \ D)
           /\ R \in SUBSET SeqIds /\ R \cap C = {} /\ C \in SUBSET SeqIds
           /\ \A s \in SeqIds :
                 (t[s].status \in {"unspent", "escrowed"} /\ s \notin GiversInEscrow \ R)
                    <=> s \in (((C \ E) \ D) \ G) \cup R
<1> DEFINE C == LiveRows
           E == Expirable(ts)
           D == DroppedReceivers(ts)
           R == ReleasedGivers(ts)
           t == SetStatus(SweptUtxo(ts), G, "spent")
<1>0. /\ TypeOK /\ EscrowCoherence /\ utxo \in [SeqIds -> Row]
      /\ \A h \in Caas : escrow[h].givers \subseteq SeqIds /\ escrow[h].receivers \subseteq SeqIds
  BY Typed DEF CInv, IInv
<1>1. TimedOut(ts) \subseteq Active /\ Active \subseteq Caas
  BY DEF TimedOut, Active, ActiveIn
<1>2. /\ R \in SUBSET SeqIds /\ D \in SUBSET SeqIds /\ R \subseteq GiversInEscrow
      /\ \A s \in R \cup D : utxo[s].status = "escrowed"
  BY <1>0, <1>1 DEF ReleasedGivers, DroppedReceivers, GiversInEscrow, EscrowCoherence, Held
<1>3. D \cap GiversInEscrow = {}
  <2> SUFFICES ASSUME NEW s \in D, s \in GiversInEscrow PROVE FALSE
    OBVIOUS
  <2>1. PICK h \in TimedOut(ts) : s \in escrow[h].receivers
    BY DEF DroppedReceivers
  <2>2. PICK k \in Active : s \in escrow[k].givers
    BY DEF GiversInEscrow
  <2>3. h = k
    BY <1>0, <1>1, <2>1, <2>2 DEF EscrowCoherence, Held
  <2> QED
    BY <1>0, <1>1, <2>1, <2>2, <2>3 DEF EscrowCoherence
<1>4. /\ E \in SUBSET SeqIds /\ \A s \in E : utxo[s].status = "unspent"
      /\ \A s \in G : utxo[s].status = "unspent" /\ s \notin E
  <2>1. E \in SUBSET SeqIds /\ \A s \in E : utxo[s].status = "unspent" /\ utxo[s].ts < ts - ExpiryPeriod
    BY DEF Expirable, Unspent
  <2>2. \A s \in G : utxo[s].status = "unspent" /\ ts <= utxo[s].ts + ExpiryPeriod
    BY DEF Spendable
  <2>3. \A s \in SeqIds : utxo[s].ts \in Nat
    BY <1>0, ConstantsAssumption DEF Row, Times
  <2>4. ts \in Nat /\ ExpiryPeriod \in Nat
    BY ConstantsAssumption DEF Times
  <2> QED
    BY <2>1, <2>2, <2>3, <2>4
<1>5. /\ C \in SUBSET SeqIds /\ GiversInEscrow \in SUBSET SeqIds
      /\ \A s \in SeqIds : s \in C <=>
            utxo[s].status \in {"unspent", "escrowed"} /\ s \notin GiversInEscrow
      /\ \A s \in GiversInEscrow : utxo[s].status = "escrowed"
  BY LiveRowsNow
<1>6. ASSUME NEW s \in SeqIds
      PROVE  /\ s \in G => t[s].status = "spent"
             /\ s \notin G /\ s \in D => t[s].status = "absent"
             /\ s \notin G \cup D /\ s \in R => t[s].status = "unspent"
             /\ s \notin G \cup D \cup R /\ s \in E => t[s].status = "expired"
             /\ s \notin G \cup D \cup R \cup E => t[s] = utxo[s]
  <2>1. utxo[s] \in Row /\ SweptUtxo(ts)[s] \in Row
    BY <1>0, SweepTables DEF CInv
  <2>2. /\ s \in G => t[s] = [SweptUtxo(ts)[s] EXCEPT !.status = "spent"]
        /\ s \notin G => t[s] = SweptUtxo(ts)[s]
    BY DEF SetStatus
  <2>3. SweptUtxo(ts)[s] =
           IF s \in D THEN Absent
           ELSE IF s \in R THEN [utxo[s] EXCEPT !.status = "unspent"]
           ELSE IF s \in E THEN [utxo[s] EXCEPT !.status = "expired"]
           ELSE utxo[s]
    BY DEF SweptUtxo
  <2> HIDE DEF t, D, R, E
  <2> QED
    BY <2>1, <2>2, <2>3 DEF Row, Absent
<1> HIDE DEF C, E, D, R, t
<1>7. E \in SUBSET C /\ D \in SUBSET (C \ E) /\ G \in SUBSET ((C \ E) \ D) /\ R \cap C = {}
  BY <1>2, <1>3, <1>4, <1>5
<1>8. ASSUME NEW s \in SeqIds
      PROVE  (t[s].status \in {"unspent", "escrowed"} /\ s \notin GiversInEscrow \ R)
                    <=> s \in (((C \ E) \ D) \ G) \cup R
  <2>1. CASE s \in G
    BY <1>2, <1>4, <1>6, <2>1
  <2>2. CASE s \in D
    BY <1>2, <1>3, <1>4, <1>6, <2>2
  <2>3. CASE s \in R
    BY <1>2, <1>3, <1>4, <1>6, <2>3
  <2>4. CASE s \in E
    BY <1>2, <1>4, <1>6, <2>4
  <2>5. CASE s \notin G \cup D \cup R \cup E
    BY <1>5, <1>6, <2>5
  <2> QED
    BY <2>1, <2>2, <2>3, <2>4, <2>5
<1> QED
  BY <1>2, <1>5, <1>7, <1>8 DEF C, E, D, R, t

\* An exchange that times out adds its bond to those forfeited.
LEMMA SweepForfeits ==
    ASSUME CInv, NEW ts \in Times, escrow' = SweptEscrow(ts)
    PROVE  /\ ForfeitedBonds' =
                 ForfeitedBonds + SumOver([h \in Caas |-> escrow[h].bond], TimedOut(ts))
           /\ Opened' = Opened /\ GiversInEscrow' = GiversInEscrow \ ReleasedGivers(ts)
           /\ \A h \in Caas : escrow'[h].receivers = escrow[h].receivers
<1> DEFINE X == {h \in Caas : escrow[h].status = "expired"}
           T == TimedOut(ts)
           b == [h \in Caas |-> escrow[h].bond]
           c == [h \in X' |-> escrow'[h].bond]
<1>0. TypeOK /\ EscrowCoherence /\ escrow \in [Caas -> EscrowRow]
  BY Typed DEF CInv, IInv
<1>1. \A h \in Caas : /\ h \in T => escrow'[h].status = "expired" /\ escrow[h].status = "escrowed"
                      /\ h \notin T => escrow'[h] = escrow[h]
                      /\ escrow'[h].bond = escrow[h].bond /\ escrow'[h].givers = escrow[h].givers
                      /\ escrow'[h].receivers = escrow[h].receivers
  BY <1>0 DEF SweptEscrow, EscrowRow, TimedOut, Active, ActiveIn
<1>2. T \subseteq Caas /\ T \subseteq Active
  BY DEF TimedOut, Active, ActiveIn
<1>3. X' = X \cup T /\ X \cap T = {}
  BY <1>1, <1>2
<1>4. Opened' = Opened /\ Active' = Active \ T
  BY <1>1, <1>2 DEF Opened, Active, ActiveIn
<1>5. GiversInEscrow' = GiversInEscrow \ ReleasedGivers(ts)
  <2>1. ASSUME NEW h \in Active, NEW k \in T, h # k PROVE escrow[h].givers \cap escrow[k].givers = {}
    BY <1>0, <1>2, <2>1 DEF EscrowCoherence, Held
  <2>2. \A h \in Active : escrow'[h].givers = escrow[h].givers
    BY <1>1 DEF Active, ActiveIn
  <2>3. ASSUME NEW s PROVE s \in GiversInEscrow' <=> s \in GiversInEscrow \ ReleasedGivers(ts)
    <3>1. s \in GiversInEscrow' <=> \E h \in Active \ T : s \in escrow[h].givers
      BY <1>4, <2>2 DEF GiversInEscrow
    <3>2. s \in ReleasedGivers(ts) <=> \E k \in T : s \in escrow[k].givers
      BY DEF ReleasedGivers
    <3>3. s \in GiversInEscrow <=> \E h \in Active : s \in escrow[h].givers
      BY DEF GiversInEscrow
    <3> HIDE DEF T
    <3> QED
      BY <1>2, <2>1, <3>1, <3>2, <3>3
  <2> QED
    BY <2>3
<1>6. IsFiniteSet(X) /\ IsFiniteSet(T)
  <2>1. X \in SUBSET Opened /\ T \in SUBSET Opened
    BY DEF Opened, TimedOut, Active, ActiveIn
  <2>2. IsFiniteSet(Opened)
    BY OpenedFinite DEF CInv, IInv
  <2> HIDE DEF X, T
  <2> QED
    BY <2>1, <2>2, FS_Subset
<1>7. \A h \in Caas : b[h] \in Int
  BY <1>0 DEF EscrowRow
<1>8. ForfeitedBonds' = SumFunctionOnSet(c, X')
  BY DEF ForfeitedBonds, SumFunction
<1>9. \A h \in X' : c[h] = b[h]
  BY <1>1
<1>10. X \subseteq Caas
  OBVIOUS
<1>11. ForfeitedBonds = SumFunctionOnSet(b, X)
  BY BondsTyped DEF SumOver
<1> DEFINE Y == X'
<1>12. Y = X \cup T /\ ForfeitedBonds' = SumFunctionOnSet(c, Y) /\ \A h \in Y : c[h] = b[h]
  BY <1>3, <1>8, <1>9
<1> HIDE DEF X, T, b, c, Y
<1>13. SumFunctionOnSet(b, X \cup T) = SumFunctionOnSet(b, X) + SumFunctionOnSet(b, T)
  BY <1>2, <1>3, <1>6, <1>7, <1>10, SumUnion
<1>14. IsFiniteSet(Y)
  BY <1>6, <1>12, FS_Union
<1>15. SumFunctionOnSet(c, Y) = SumFunctionOnSet(b, Y)
  BY <1>12, <1>14, SumSame
<1>16. ForfeitedBonds' = ForfeitedBonds + SumFunctionOnSet(b, T)
  BY <1>11, <1>12, <1>13, <1>15
<1> QED
  BY <1>1, <1>4, <1>5, <1>16 DEF SumOver, T, b

LEMMA AssignmentShares ==
    ASSUME CInv, IInv', RowsKept, NEW a \in Agreements \cup {NoAgreement}, NEW G \in SUBSET SeqIds,
           NEW wall \in WallReads, NEW crash \in BOOLEAN, SubmitAssignment(a, G, wall, crash)
    PROVE  CInv'
<1> DEFINE ts == BlockTs(wall)
           give == TotalOf(utxo, G)
           fee == RecordingFee(sharesOut)
           reward == ShareReward(give)
           total == give - fee - reward
           t == SetStatus(SweptUtxo(ts), G, "spent")
           f == AmountsIn(utxo)
           g == AmountsIn(utxo')
           C == LiveRows
           E == Expirable(ts)
           D == DroppedReceivers(ts)
           R == ReleasedGivers(ts)
           K == (((C \ E) \ D) \ G) \cup R
           bonds == SumOver([h \in Caas |-> escrow[h].bond], TimedOut(ts))
<1>1. /\ ~frozen /\ Spendable(G, ts) /\ frozen' = frozen
      /\ escrow' = SweptEscrow(ts)
      /\ sharesOut' = SweptShares(ts) - fee /\ blockShares' = sharesOut'
  BY DEF SubmitAssignment
<1>2. PICK rcv \in ReceiverLists(total), rew \in RewardRows(reward) :
          /\ nextSeq + Len(rcv \o rew) - 1 <= MaxSeq /\ ts < MaxTime
          /\ utxo' = InsertRows(t, rcv \o rew, ts, "unspent")
  BY DEF SubmitAssignment
<1> DEFINE rows == rcv \o rew
           N == NewSeqs(rows)
<1>0. /\ TypeOK /\ utxo \in [SeqIds -> Row] /\ utxo' \in [SeqIds -> Row] /\ nextSeq \in Nat
      /\ rcv \in CaaReceiverLists(total)
  BY Typed DEF CInv, IInv, TypeOK, Row, ReceiverLists
<1>3. give \in Int /\ fee \in Int /\ reward \in Int /\ total \in Int /\ give = SumOver(f, G)
  <2>1. give = SumOver(f, G) /\ give \in Int
    BY <1>0, TotalIs, AmountsTyped
  <2>2. fee \in Int /\ reward \in Int
    BY <1>0, <2>1, FeesAreInts DEF CInv, Counted
  <2> HIDE DEF fee, reward, give
  <2> QED
    BY <2>1, <2>2
<1>4. rows \in Seq(FreshRow)
  BY <1>0, NewRows
<1>5. /\ N \in SUBSET SeqIds /\ \A s \in N : utxo[s] = Absent
      /\ \A s \in N : utxo'[s].status = "unspent" /\ utxo'[s].amount = rows[s - nextSeq + 1].amount
      /\ \A s \in SeqIds \ N : utxo'[s] = t[s]
  <2>1. /\ nextSeq + Len(rows) - 1 <= MaxSeq
        /\ utxo' = InsertRows(t, rows, ts, "unspent")
    BY <1>2
  <2> HIDE DEF rows, t, ts
  <2> QED
    BY <1>0, <1>4, <2>1, InsertedRows
<1>6. \A s \in N : g[s] = rows[s - nextSeq + 1].amount
  BY <1>5 DEF AmountsIn
<1>7. SumOver(g, N) = total + reward
  <2>1. RowsGive(g, rows)
    BY <1>6 DEF RowsGive
  <2>2. rcv \in CaaReceiverLists(total) /\ rew \in RewardRows(reward)
    BY <1>0
  <2> HIDE DEF total, reward, g
  <2>3. SumOver(g, NewSeqs(rcv \o rew)) = total + reward
    BY <1>0, <1>3, <2>1, <2>2, RowsHold
  <2> QED
    BY <2>3
<1>8. ts \in Times
  BY <1>0, <1>2, BlockTime
<1>9. /\ E \in SUBSET C /\ D \in SUBSET (C \ E) /\ G \in SUBSET ((C \ E) \ D)
      /\ R \in SUBSET SeqIds /\ R \cap C = {} /\ C \in SUBSET SeqIds
      /\ \A s \in SeqIds :
            (t[s].status \in {"unspent", "escrowed"} /\ s \notin GiversInEscrow \ R) <=> s \in K
  <2> HIDE DEF ts
  <2> QED
    BY <1>1, <1>8, SweepCirculates
<1>10. /\ ForfeitedBonds' = ForfeitedBonds + bonds
       /\ Opened' = Opened /\ GiversInEscrow' = GiversInEscrow \ R
       /\ \A h \in Caas : escrow'[h].receivers = escrow[h].receivers
  <2> HIDE DEF ts
  <2> QED
    BY <1>1, <1>8, SweepForfeits
<1>11. /\ FeeRestored(ts) = SumOver(f, R) - SumOver(f, D) - bonds /\ bonds \in Int
  <2> HIDE DEF ts
  <2> QED
    BY <1>8, SweepAmounts
<1>12. /\ SumOver(f, C) = blockShares + ForfeitedBonds /\ sharesOut = blockShares
       /\ ForfeitedBonds \in Int /\ blockShares \in Int
       /\ \A s \in C : utxo[s].status \in {"unspent", "escrowed"}
       /\ \A s \in GiversInEscrow : utxo[s].status = "escrowed"
  BY <1>1, LiveRowsNow, BondsTyped DEF CInv, Counted
<1>13. \A s \in R : utxo[s].status = "escrowed"
  <2>1. ASSUME NEW h \in TimedOut(ts) PROVE h \in Active
    BY DEF TimedOut
  <2> QED
    BY <1>12, <2>1 DEF ReleasedGivers, GiversInEscrow
<1>14. N \cap C = {} /\ N \cap R = {} /\ N \cap GiversInEscrow = {} /\ N \cap K = {}
  <2> HIDE DEF N, C, R, E, D
  <2> QED
    BY <1>5, <1>12, <1>13 DEF Absent
<1>15. K \in SUBSET SeqIds
  BY <1>9
<1>16. LiveRows' = K \cup N
  <2> HIDE DEF N, K, t, R
  <2>1. ASSUME NEW s \in SeqIds PROVE s \in LiveRows' <=> s \in K \cup N
    <3>1. CASE s \in N
      BY <1>5, <1>10, <1>14, <3>1 DEF LiveRows
    <3>2. CASE s \notin N
      BY <1>5, <1>9, <1>10, <3>2 DEF LiveRows
    <3> QED
      BY <3>1, <3>2
  <2>2. LiveRows' \subseteq SeqIds
    BY DEF LiveRows
  <2> QED
    BY <1>5, <1>15, <2>1, <2>2
<1>17. \A s \in SeqIds : f[s] \in Int /\ g[s] \in Int
  BY <1>0, AmountsTyped
<1>18. \A s \in K : g[s] = f[s]
  <2>1. \A s \in K : utxo[s].status # "absent"
    <3> HIDE DEF C, E, D, R
    <3> QED
      BY <1>12, <1>13
  <2>2. \A s \in K : utxo'[s].status # "absent"
    BY <1>16 DEF LiveRows
  <2> HIDE DEF K
  <2> QED
    BY <1>0, <1>15, <2>1, <2>2, AmountKept DEF AmountsIn
<1> DEFINE e == SumOver(f, E)
           d == SumOver(f, D)
           x == SumOver(f, G)
           r == SumOver(f, R)
           n == SumOver(g, N)
<1>19. SumOver(g, K \cup N) = SumOver(f, C) - e - d - x + r + n
  <2> HIDE DEF f, g, C, E, D, R, N
  <2> QED
    BY <1>5, <1>9, <1>14, <1>17, <1>18, Flow
<1>20. e \in Int /\ d \in Int /\ r \in Int
  <2>1. E \in SUBSET SeqIds /\ D \in SUBSET SeqIds /\ R \in SUBSET SeqIds
    BY <1>9
  <2> HIDE DEF E, D, R
  <2> QED
    BY <1>0, <2>1, AmountsTyped
<1>21. sharesOut' = (sharesOut - e + FeeRestored(ts)) - fee
  <2>1. E \in SUBSET SeqIds
    BY <1>9
  <2>2. TotalOf(utxo, E) = e
    BY <2>1, TotalIs
  <2> QED
    BY <1>1, <2>2 DEF SweptShares
<1>22. TotalOf(utxo, LiveRows)' = SumOver(g, K \cup N)
  <2>1. LiveRows' \in SUBSET SeqIds
    BY DEF LiveRows
  <2>2. TotalOf(utxo', LiveRows') = SumOver(g, LiveRows')
    BY <2>1, TotalIs
  <2> QED
    BY <1>16, <2>2
<1> HIDE DEF give, fee, reward, bonds, e, d, r, x, n, f, g, C, E, D, R, N, K, ts
<1>23. TotalOf(utxo, LiveRows)' = blockShares' + ForfeitedBonds' /\ blockShares' \in Int
  <2>1. x = give /\ n = give - fee
    BY <1>3, <1>7 DEF x, n
  <2> QED
    BY <1>1, <1>3, <1>10, <1>11, <1>12, <1>19, <1>20, <1>21, <1>22, <2>1 DEF r, d
<1>24. RowsAddUp' /\ Counted'
  <2>1. RowsAddUp'
    BY <1>1, <1>23 DEF RowsAddUp
  <2>2. Opened \subseteq Caas
    BY DEF Opened
  <2> QED
    BY <1>1, <1>10, <1>23, <2>1, <2>2 DEF CInv, Counted
<1> QED
  BY <1>24 DEF CInv

LEMMA SharesStep == CInv /\ [Next]_vars => CInv'
<1> SUFFICES ASSUME CInv, [Next]_vars PROVE CInv'
  OBVIOUS
<1>0. IInv' /\ RowsKept
  BY StepInv DEF CInv
<1>1. CASE \E a \in Agreements \cup {NoAgreement}, G \in SUBSET SeqIds, w \in WallReads,
              crash \in BOOLEAN : SubmitAssignment(a, G, w, crash)
  BY <1>0, <1>1, AssignmentShares
<1>2. CASE \E h \in Caas, G \in SUBSET SeqIds, w \in WallReads : CaaSubmit(h, G, w)
  BY <1>0, <1>2, CaaSubmitShares
<1>3. CASE \E h \in Caas, w \in WallReads, crash \in BOOLEAN : CaaBind(h, w, crash)
  BY <1>0, <1>3, BindShares
<1>4. CASE \E w \in WallReads : SubmitMigration(w)
  BY <1>0, <1>4, MigrationShares
<1>5. CASE \/ \E w \in WallReads, crash \in BOOLEAN :
                 \/ SubmitAdmin(w, crash)
                 \/ \E n \in RewardRates : SubmitRewardRate(n, w, crash)
                 \/ \E r \in Successors : SubmitPending(r, w, crash)
           \/ \E w \in WallReads : SubmitRecorderChange(w)
           \/ Tick \/ (\E a \in Agreements : Refute(a)) \/ UNCHANGED vars
  <2>1. /\ UNCHANGED <<utxo, escrow, sharesOut, frozen>>
        /\ blockShares' = blockShares \/ (blockShares' = sharesOut /\ ~frozen)
    <3>1. CASE \E w \in WallReads, crash \in BOOLEAN :
                  \/ SubmitAdmin(w, crash)
                  \/ \E n \in RewardRates : SubmitRewardRate(n, w, crash)
                  \/ \E r \in Successors : SubmitPending(r, w, crash)
      BY <3>1, Zenon DEF SubmitAdmin, SubmitRewardRate, SubmitPending, tables
    <3>2. CASE \E w \in WallReads : SubmitRecorderChange(w)
      BY <3>2 DEF SubmitRecorderChange, tables
    <3>3. CASE Tick \/ (\E a \in Agreements : Refute(a)) \/ UNCHANGED vars
      BY <3>3 DEF Tick, Refute, vars, tables, meta, blocks
    <3> QED
      BY <1>5, <3>1, <3>2, <3>3
  <2> QED
    BY <1>0, <2>1, QuietShares
<1> QED
  BY <1>1, <1>2, <1>3, <1>4, <1>5 DEF Next

-----------------------------------------------------------------------------
(* What is locked, and for whom.                                           *)

\* The recorder's reward rows of an exchange, which neither bind nor timeout
\* settles, are all that may stay locked.
OnlyRewardsStranded ==
    \A s \in SeqIds : utxo[s].status = "escrowed" =>
        \/ \E h \in Active : s \in escrow[h].givers \cup escrow[h].receivers
        \/ \E h \in Caas : s \in escrow[h].rewards

\* A CAA that was never submitted has none.
NoRewardsOfNone == \A h \in Caas : escrow[h].status = "none" => escrow[h].rewards = {}

NoRewardsPaid == RewardRates \subseteq {0} => \A h \in Caas : escrow[h].rewards = {}

LInv == IInv /\ OnlyRewardsStranded /\ NoRewardsOfNone /\ NoRewardsPaid

LEMMA InitLocked == Init => LInv
<1> SUFFICES ASSUME Init PROVE LInv
  OBVIOUS
<1>1. IInv
  BY InitInv
<1>2. OnlyRewardsStranded /\ NoRewardsOfNone /\ NoRewardsPaid
  BY DEF Init, OnlyRewardsStranded, NoRewardsOfNone, NoRewardsPaid, NoEscrow, Absent
<1> QED
  BY <1>1, <1>2 DEF LInv

LEMMA AssignmentLocked ==
    ASSUME LInv, NEW a \in Agreements \cup {NoAgreement}, NEW G \in SUBSET SeqIds,
           NEW wall \in WallReads, NEW crash \in BOOLEAN, SubmitAssignment(a, G, wall, crash)
    PROVE  OnlyRewardsStranded' /\ NoRewardsOfNone' /\ NoRewardsPaid'
<1> DEFINE ts == BlockTs(wall)
           T == TimedOut(ts)
<1>1. /\ escrow' = SweptEscrow(ts) /\ ts < MaxTime
      /\ \E rows : utxo' = InsertRows(SetStatus(SweptUtxo(ts), G, "spent"), rows, ts, "unspent")
  BY DEF SubmitAssignment
<1>2. ts \in Times /\ escrow \in [Caas -> EscrowRow] /\ utxo \in [SeqIds -> Row]
  BY <1>1, BlockTime, Typed DEF LInv, IInv
<1> HIDE DEF ts
<1>3. \A h \in Caas : /\ h \notin T => escrow'[h] = escrow[h]
                      /\ escrow'[h].rewards = escrow[h].rewards
  BY <1>1, <1>2 DEF SweptEscrow, EscrowRow
<1>4. ASSUME NEW s \in SeqIds, utxo'[s].status = "escrowed"
      PROVE  utxo[s].status = "escrowed" /\ s \notin DroppedReceivers(ts) \cup ReleasedGivers(ts)
  <2>1. SweptUtxo(ts)[s].status = "escrowed"
    <3>1. PICK rows : utxo' = InsertRows(SetStatus(SweptUtxo(ts), G, "spent"), rows, ts, "unspent")
      BY <1>1
    <3>2. s \notin NewSeqs(rows)
      BY <1>4, <3>1 DEF InsertRows
    <3>3. utxo'[s] = SetStatus(SweptUtxo(ts), G, "spent")[s]
      BY <3>1, <3>2 DEF InsertRows
    <3>4. SweptUtxo(ts)[s] \in Row
      BY <1>2, SweepTables DEF LInv
    <3> QED
      BY <1>4, <3>3, <3>4 DEF SetStatus, Row
  <2>2. utxo[s] \in Row
    BY <1>2
  <2> QED
    BY <2>1, <2>2 DEF SweptUtxo, Row, Absent
<1>5. OnlyRewardsStranded'
  <2> SUFFICES ASSUME NEW s \in SeqIds, utxo'[s].status = "escrowed"
               PROVE  \/ \E h \in Active' : s \in escrow'[h].givers \cup escrow'[h].receivers
                      \/ \E h \in Caas : s \in escrow'[h].rewards
    BY DEF OnlyRewardsStranded
  <2>1. utxo[s].status = "escrowed" /\ s \notin DroppedReceivers(ts) \cup ReleasedGivers(ts)
    BY <1>4
  <2>2. CASE \E h \in Caas : s \in escrow[h].rewards
    BY <1>3, <2>2
  <2>3. CASE \E h \in Active : s \in escrow[h].givers \cup escrow[h].receivers
    <3>1. PICK h \in Active : s \in escrow[h].givers \cup escrow[h].receivers
      BY <2>3
    <3>2. h \notin T
      BY <2>1, <3>1 DEF DroppedReceivers, ReleasedGivers
    <3>3. h \in Active' /\ escrow'[h] = escrow[h]
      BY <1>3, <3>1, <3>2 DEF Active, ActiveIn
    <3> QED
      BY <3>1, <3>3
  <2> QED
    BY <2>1, <2>2, <2>3 DEF LInv, OnlyRewardsStranded
<1>6. NoRewardsOfNone' /\ NoRewardsPaid'
  <2>1. \A k \in Caas : escrow'[k].status = "none" => escrow[k].status = "none"
    BY <1>1, <1>2, SweepTables DEF LInv
  <2> QED
    BY <1>3, <2>1 DEF LInv, NoRewardsOfNone, NoRewardsPaid
<1> QED
  BY <1>5, <1>6

LEMMA CaaSubmitLocked ==
    ASSUME LInv, NEW h \in Caas, NEW G \in SUBSET SeqIds, NEW wall \in WallReads,
           CaaSubmit(h, G, wall)
    PROVE  OnlyRewardsStranded' /\ NoRewardsOfNone' /\ NoRewardsPaid'
<1> DEFINE ts == BlockTs(wall)
           give == TotalOf(utxo, G)
           reward == ShareReward(give)
           total == give - RecordingFee(sharesOut) - reward
           mid == SetStatus(utxo, G, "escrowed")
<1>1. escrow[h].status = "none"
  BY DEF CaaSubmit
<1>2. PICK rcv \in CaaReceiverLists(total), rew \in RewardRows(reward), deadline \in Times,
           bond \in Bonds \cup {0} :
          /\ utxo' = InsertRows(mid, rcv \o rew, ts, "escrowed")
          /\ escrow' = [escrow EXCEPT ![h] =
                 [status |-> "escrowed", deadline |-> deadline, givers |-> G,
                  receivers |-> NewSeqs(rcv),
                  rewards |-> NewSeqs(rcv \o rew) \ NewSeqs(rcv),
                  bond |-> bond, by |-> recorder]]
  BY ZenonT(60) DEF CaaSubmit
<1> DEFINE N == NewSeqs(rcv \o rew)
<1>0. escrow \in [Caas -> EscrowRow] /\ utxo \in [SeqIds -> Row] /\ TypeOK
  BY Typed DEF LInv, IInv
<1>3. /\ escrow'[h].status = "escrowed" /\ escrow'[h].givers = G
      /\ escrow'[h].receivers = NewSeqs(rcv) /\ escrow'[h].rewards = N \ NewSeqs(rcv)
      /\ \A k \in Caas : k # h => escrow'[k] = escrow[k]
  BY <1>0, <1>2
<1>4. h \in Active' /\ \A k \in Active : k # h /\ k \in Active' /\ escrow'[k] = escrow[k]
  BY <1>1, <1>3 DEF Active, ActiveIn
<1>5. \A s \in SeqIds \ (N \cup G) : utxo'[s] = utxo[s]
  BY <1>2 DEF InsertRows, SetStatus
<1>6. OnlyRewardsStranded'
  <2> SUFFICES ASSUME NEW s \in SeqIds, utxo'[s].status = "escrowed"
               PROVE  \/ \E k \in Active' : s \in escrow'[k].givers \cup escrow'[k].receivers
                      \/ \E k \in Caas : s \in escrow'[k].rewards
    BY DEF OnlyRewardsStranded
  <2>1. CASE s \in G
    BY <1>3, <1>4, <2>1
  <2>2. CASE s \in N
    <3> HIDE DEF N
    <3>1. s \in escrow'[h].receivers \/ s \in escrow'[h].rewards
      BY <1>3, <2>2
    <3> QED
      BY <1>4, <3>1
  <2>3. CASE s \notin N \cup G
    <3>1. utxo[s].status = "escrowed"
      BY <1>5, <2>3
    <3>2. CASE \E k \in Active : s \in escrow[k].givers \cup escrow[k].receivers
      BY <1>4, <3>2
    <3>3. CASE \E k \in Caas : s \in escrow[k].rewards
      <4>1. PICK k \in Caas : s \in escrow[k].rewards
        BY <3>3
      <4>2. CASE k # h
        BY <1>3, <4>1, <4>2
      <4>3. CASE k = h
        <5>1. FALSE
          BY <1>1, <4>1, <4>3 DEF LInv, NoRewardsOfNone
        <5> QED
          BY <5>1
      <4> QED
        BY <4>2, <4>3
    <3> QED
      BY <3>1, <3>2, <3>3 DEF LInv, OnlyRewardsStranded
  <2> QED
    BY <2>1, <2>2, <2>3
<1>7. NoRewardsPaid'
  <2> SUFFICES ASSUME RewardRates \subseteq {0} PROVE \A k \in Caas : escrow'[k].rewards = {}
    BY DEF NoRewardsPaid
  <2>1. reward = 0
    <3>1. rewardNum = 0 /\ give \in Int
      BY <1>0, TotalIs, AmountsTyped DEF TypeOK
    <3> HIDE DEF give
    <3>2. give * rewardNum = 0
      BY <3>1
    <3>3. RewardDen \in Nat \ {0}
      BY ConstantsAssumption
    <3> QED
      BY <3>2, <3>3 DEF ShareReward, CeilDiv
  <2>2. rew = <<>>
    BY <1>2, <2>1 DEF RewardRows
  <2>3. rcv \o rew = rcv
    BY <2>2, ReceiverRows, ConcatEmptySeq
  <2> QED
    BY <1>3, <2>3 DEF LInv, NoRewardsPaid
<1>8. NoRewardsOfNone'
  BY <1>3 DEF LInv, NoRewardsOfNone
<1> QED
  BY <1>6, <1>7, <1>8

LEMMA BindLocked ==
    ASSUME LInv, NEW h \in Caas, NEW wall \in WallReads, NEW crash \in BOOLEAN,
           CaaBind(h, wall, crash)
    PROVE  OnlyRewardsStranded' /\ NoRewardsOfNone' /\ NoRewardsPaid'
<1>0. escrow \in [Caas -> EscrowRow] /\ utxo \in [SeqIds -> Row]
  BY Typed DEF LInv, IInv
<1>1. /\ escrow[h].status = "escrowed"
      /\ utxo' = SetStatus(SetStatus(utxo, escrow[h].givers, "spent"),
                           escrow[h].receivers, "unspent")
      /\ escrow' = [escrow EXCEPT ![h].status = "finalized"]
  BY DEF CaaBind
<1>2. \A k \in Caas : /\ k # h => escrow'[k] = escrow[k]
                      /\ escrow'[k].rewards = escrow[k].rewards
  BY <1>0, <1>1 DEF EscrowRow
<1>3. escrow'[h].status = "finalized"
  BY <1>0, <1>1 DEF EscrowRow
<1>4. ASSUME NEW s \in SeqIds, utxo'[s].status = "escrowed"
      PROVE  utxo[s].status = "escrowed" /\ s \notin escrow[h].givers \cup escrow[h].receivers
  <2>1. utxo[s] \in Row
    BY <1>0
  <2> QED
    BY <1>1, <1>4, <2>1 DEF SetStatus, Row
<1>5. \A k \in Active : k # h => k \in Active' /\ escrow'[k] = escrow[k]
  BY <1>2 DEF Active, ActiveIn
<1>6. OnlyRewardsStranded'
  BY <1>2, <1>4, <1>5 DEF LInv, OnlyRewardsStranded
<1>7. NoRewardsOfNone' /\ NoRewardsPaid'
  BY <1>2, <1>3 DEF LInv, NoRewardsOfNone, NoRewardsPaid
<1> QED
  BY <1>6, <1>7

LEMMA LockedStep == LInv /\ [Next]_vars => LInv'
<1> SUFFICES ASSUME LInv, [Next]_vars PROVE OnlyRewardsStranded' /\ NoRewardsOfNone' /\ NoRewardsPaid'
  BY StepInv DEF LInv
<1>1. CASE \E a \in Agreements \cup {NoAgreement}, G \in SUBSET SeqIds, w \in WallReads,
              crash \in BOOLEAN : SubmitAssignment(a, G, w, crash)
  BY <1>1, AssignmentLocked
<1>2. CASE \E h \in Caas, G \in SUBSET SeqIds, w \in WallReads : CaaSubmit(h, G, w)
  BY <1>2, CaaSubmitLocked
<1>3. CASE \E h \in Caas, w \in WallReads, crash \in BOOLEAN : CaaBind(h, w, crash)
  BY <1>3, BindLocked
<1>4. CASE \E w \in WallReads : SubmitMigration(w)
  <2>1. PICK w \in WallReads : /\ utxo' = SetStatus(utxo, Expirable(BlockTs(w)), "expired")
                               /\ escrow' = escrow
    BY <1>4 DEF SubmitMigration
  <2>2. ASSUME NEW s \in SeqIds, utxo'[s].status = "escrowed" PROVE utxo[s].status = "escrowed"
    <3>1. utxo[s] \in Row
      BY Typed DEF LInv, IInv
    <3> QED
      BY <2>1, <2>2, <3>1 DEF SetStatus, Row
  <2> QED
    BY <2>1, <2>2 DEF LInv, OnlyRewardsStranded, NoRewardsOfNone, NoRewardsPaid, Active, ActiveIn
<1>5. CASE UNCHANGED <<utxo, escrow>>
  BY <1>5 DEF LInv, OnlyRewardsStranded, NoRewardsOfNone, NoRewardsPaid, Active, ActiveIn
<1> QED
  BY <1>1, <1>2, <1>3, <1>4, <1>5
     DEF Next, vars, tables, SubmitAdmin, SubmitRewardRate, SubmitPending, SubmitRecorderChange,
         Refute, Tick

\* Whatever the reward rate: a locked share belongs to an exchange that a bind
\* or a timeout still settles, or is the recorder's reward for one.
THEOREM OnlyRewardsStayLocked == Spec => []OnlyRewardsStranded
<1>1. LInv => OnlyRewardsStranded
  BY DEF LInv
<1> QED
  BY <1>1, InitLocked, LockedStep, PTL DEF Spec

\* On a chain whose recorder takes no reward nothing is locked for good.
THEOREM NothingStaysLocked ==
    ASSUME RewardRates \subseteq {0}
    PROVE  Spec => []NoStrandedEscrow
<1>1. LInv => NoStrandedEscrow
  BY DEF LInv, OnlyRewardsStranded, NoRewardsPaid, NoStrandedEscrow
<1> QED
  BY <1>1, InitLocked, LockedStep, PTL DEF Spec
-----------------------------------------------------------------------------
(* Shares are conserved.                                                   *)

\* The reward rows of a CAA stay escrowed, and no open CAA gives or receives them.
RewardsApart ==
    \A h \in Caas : \A s \in escrow[h].rewards :
        /\ utxo[s].status = "escrowed"
        /\ \A k \in Active : s \notin escrow[k].givers \cup escrow[k].receivers

RInv == LInv /\ RewardsApart

LEMMA AssignmentRewards ==
    ASSUME RInv, NEW a \in Agreements \cup {NoAgreement}, NEW G \in SUBSET SeqIds,
           NEW wall \in WallReads, NEW crash \in BOOLEAN, SubmitAssignment(a, G, wall, crash)
    PROVE  RewardsApart'
<1> DEFINE ts == BlockTs(wall)
           T == TimedOut(ts)
           give == TotalOf(utxo, G)
           reward == ShareReward(give)
           total == give - RecordingFee(sharesOut) - reward
           t == SetStatus(SweptUtxo(ts), G, "spent")
<1>1. escrow' = SweptEscrow(ts) /\ ts < MaxTime /\ Spendable(G, ts)
  BY DEF SubmitAssignment
<1>2. PICK rcv \in ReceiverLists(total), rew \in RewardRows(reward) :
          /\ nextSeq + Len(rcv \o rew) - 1 <= MaxSeq
          /\ utxo' = InsertRows(t, rcv \o rew, ts, "unspent")
  BY DEF SubmitAssignment
<1> DEFINE rows == rcv \o rew
           N == NewSeqs(rows)
<1>0. /\ TypeOK /\ EscrowCoherence /\ escrow \in [Caas -> EscrowRow] /\ utxo \in [SeqIds -> Row]
      /\ \A h \in Caas : escrow[h].rewards \subseteq SeqIds
  BY Typed DEF RInv, LInv, IInv
<1>3. rows \in Seq(FreshRow)
  BY <1>0, NewRows DEF ReceiverLists
<1>4. /\ \A s \in N : utxo[s] = Absent
      /\ \A s \in SeqIds \ N : utxo'[s] = t[s]
  <2>1. nextSeq + Len(rows) - 1 <= MaxSeq /\ utxo' = InsertRows(t, rows, ts, "unspent")
    BY <1>2
  <2> HIDE DEF rows, t, ts
  <2> QED
    BY <1>0, <1>3, <2>1, InsertedRows
<1> HIDE DEF ts
<1>5. /\ \A h \in Caas : /\ h \notin T => escrow'[h] = escrow[h]
                         /\ escrow'[h].rewards = escrow[h].rewards
                         /\ escrow'[h].givers = escrow[h].givers
                         /\ escrow'[h].receivers = escrow[h].receivers
      /\ Active' \subseteq Active
  BY <1>0, <1>1 DEF SweptEscrow, EscrowRow, TimedOut, Active, ActiveIn
<1> SUFFICES ASSUME NEW h \in Caas, NEW s \in escrow'[h].rewards
             PROVE  /\ utxo'[s].status = "escrowed"
                    /\ \A k \in Active' : s \notin escrow'[k].givers \cup escrow'[k].receivers
  BY DEF RewardsApart
<1>6. /\ s \in SeqIds /\ s \in escrow[h].rewards /\ utxo[s].status = "escrowed"
      /\ \A k \in Active : s \notin escrow[k].givers \cup escrow[k].receivers
  BY <1>0, <1>5 DEF RInv, RewardsApart
<1>7. \A k \in Active' : s \notin escrow'[k].givers \cup escrow'[k].receivers
  <2>1. \A k \in Active : k \in Caas
    BY DEF Active, ActiveIn
  <2> QED
    BY <1>5, <1>6, <2>1
<1>8. s \notin DroppedReceivers(ts) \cup ReleasedGivers(ts) \cup Expirable(ts) \cup G \cup N
  BY <1>1, <1>4, <1>6
     DEF DroppedReceivers, ReleasedGivers, TimedOut, Expirable, Unspent, Spendable, Absent
<1>9. utxo'[s] = utxo[s]
  BY <1>4, <1>6, <1>8 DEF SetStatus, SweptUtxo
<1> QED
  BY <1>6, <1>7, <1>9

LEMMA CaaSubmitRewards ==
    ASSUME RInv, NEW h \in Caas, NEW G \in SUBSET SeqIds, NEW wall \in WallReads,
           CaaSubmit(h, G, wall)
    PROVE  RewardsApart'
<1> DEFINE ts == BlockTs(wall)
           give == TotalOf(utxo, G)
           reward == ShareReward(give)
           total == give - RecordingFee(sharesOut) - reward
           mid == SetStatus(utxo, G, "escrowed")
<1>1. escrow[h].status = "none" /\ Spendable(G, ts)
  BY DEF CaaSubmit
<1>2. PICK rcv \in CaaReceiverLists(total), rew \in RewardRows(reward), deadline \in Times,
           bond \in Bonds \cup {0} :
          /\ nextSeq + Len(rcv \o rew) - 1 <= MaxSeq
          /\ utxo' = InsertRows(mid, rcv \o rew, ts, "escrowed")
          /\ escrow' = [escrow EXCEPT ![h] =
                 [status |-> "escrowed", deadline |-> deadline, givers |-> G,
                  receivers |-> NewSeqs(rcv),
                  rewards |-> NewSeqs(rcv \o rew) \ NewSeqs(rcv),
                  bond |-> bond, by |-> recorder]]
  BY ZenonT(60) DEF CaaSubmit
<1> DEFINE rows == rcv \o rew
           N == NewSeqs(rows)
<1>0. /\ TypeOK /\ escrow \in [Caas -> EscrowRow] /\ utxo \in [SeqIds -> Row] /\ EscrowCoherence
      /\ \A k \in Caas : Held(k) \subseteq SeqIds
  BY Typed DEF RInv, LInv, IInv, Held
<1>3. rows \in Seq(FreshRow)
  BY <1>0, NewRows
<1>4. /\ N \in SUBSET SeqIds /\ \A s \in N : utxo[s] = Absent
      /\ \A s \in N : utxo'[s].status = "escrowed"
      /\ \A s \in SeqIds \ N : utxo'[s] = mid[s]
  <2>1. nextSeq + Len(rows) - 1 <= MaxSeq /\ utxo' = InsertRows(mid, rows, ts, "escrowed")
    BY <1>2
  <2> HIDE DEF rows, mid, ts
  <2> QED
    BY <1>0, <1>3, <2>1, InsertedRows
<1>5. /\ escrow'[h].givers = G /\ escrow'[h].receivers = NewSeqs(rcv)
      /\ escrow'[h].rewards = N \ NewSeqs(rcv)
      /\ \A k \in Caas : k # h => escrow'[k] = escrow[k]
  BY <1>0, <1>2
<1>6. Active' \subseteq Active \cup {h} /\ h \notin Active /\ Active \subseteq Caas
  BY <1>1, <1>5 DEF Active, ActiveIn
<1>7. NewSeqs(rcv) \subseteq N /\ \A s \in G : utxo[s].status = "unspent"
  <2>1. Len(rows) >= Len(rcv) /\ nextSeq \in Nat /\ Len(rcv) \in Nat /\ Len(rows) \in Nat
    BY <1>0, NewRows, ReceiverRows, RewardRow, ConcatProperties, LenProperties DEF TypeOK
  <2> QED
    BY <1>1, <2>1 DEF NewSeqs, Spendable
<1> SUFFICES ASSUME NEW k \in Caas, NEW s \in escrow'[k].rewards
             PROVE  /\ utxo'[s].status = "escrowed"
                    /\ \A j \in Active' : s \notin escrow'[j].givers \cup escrow'[j].receivers
  BY DEF RewardsApart
<1>8. CASE k = h
  <2>1. s \in N /\ s \notin NewSeqs(rcv) /\ utxo[s].status = "absent"
    BY <1>4, <1>5, <1>8 DEF Absent
  <2>2. \A j \in Active : s \notin Held(j)
    BY <1>0, <2>1 DEF EscrowCoherence
  <2> QED
    BY <1>4, <1>5, <1>6, <1>7, <2>1, <2>2 DEF Held
<1>9. CASE k # h
  <2>1. /\ s \in escrow[k].rewards /\ s \in SeqIds /\ utxo[s].status = "escrowed"
        /\ \A j \in Active : s \notin escrow[j].givers \cup escrow[j].receivers
    BY <1>0, <1>5, <1>9 DEF RInv, RewardsApart, Held
  <2>2. s \notin N /\ s \notin G
    BY <1>4, <1>7, <2>1 DEF Absent
  <2>3. utxo'[s] = utxo[s]
    BY <1>4, <2>1, <2>2 DEF SetStatus
  <2> QED
    BY <1>5, <1>6, <1>7, <2>1, <2>2, <2>3
<1> QED
  BY <1>8, <1>9

LEMMA BindRewards ==
    ASSUME RInv, NEW h \in Caas, NEW wall \in WallReads, NEW crash \in BOOLEAN,
           CaaBind(h, wall, crash)
    PROVE  RewardsApart'
<1>0. /\ escrow \in [Caas -> EscrowRow] /\ utxo \in [SeqIds -> Row]
      /\ \A k \in Caas : escrow[k].rewards \subseteq SeqIds
  BY Typed DEF RInv, LInv, IInv
<1>1. /\ escrow[h].status = "escrowed" /\ h \in Active
      /\ utxo' = SetStatus(SetStatus(utxo, escrow[h].givers, "spent"),
                           escrow[h].receivers, "unspent")
      /\ escrow' = [escrow EXCEPT ![h].status = "finalized"]
  BY DEF CaaBind, Active, ActiveIn
<1>2. /\ \A k \in Caas : /\ escrow'[k].rewards = escrow[k].rewards
                         /\ escrow'[k].givers = escrow[k].givers
                         /\ escrow'[k].receivers = escrow[k].receivers
      /\ Active' \subseteq Active /\ Active \subseteq Caas
  BY <1>0, <1>1 DEF EscrowRow, Active, ActiveIn
<1> SUFFICES ASSUME NEW k \in Caas, NEW s \in escrow'[k].rewards
             PROVE  /\ utxo'[s].status = "escrowed"
                    /\ \A j \in Active' : s \notin escrow'[j].givers \cup escrow'[j].receivers
  BY DEF RewardsApart
<1>3. /\ s \in SeqIds /\ utxo[s].status = "escrowed"
      /\ \A j \in Active : s \notin escrow[j].givers \cup escrow[j].receivers
  BY <1>0, <1>2 DEF RInv, RewardsApart
<1>4. utxo'[s] = utxo[s]
  BY <1>1, <1>3 DEF SetStatus
<1> QED
  BY <1>2, <1>3, <1>4

LEMMA RewardsStep == RInv /\ [Next]_vars => RInv'
<1> SUFFICES ASSUME RInv, [Next]_vars PROVE RewardsApart'
  BY LockedStep DEF RInv
<1>1. CASE \E a \in Agreements \cup {NoAgreement}, G \in SUBSET SeqIds, w \in WallReads,
              crash \in BOOLEAN : SubmitAssignment(a, G, w, crash)
  BY <1>1, AssignmentRewards
<1>2. CASE \E h \in Caas, G \in SUBSET SeqIds, w \in WallReads : CaaSubmit(h, G, w)
  BY <1>2, CaaSubmitRewards
<1>3. CASE \E h \in Caas, w \in WallReads, crash \in BOOLEAN : CaaBind(h, w, crash)
  BY <1>3, BindRewards
<1>4. CASE \E w \in WallReads : SubmitMigration(w)
  <2>1. PICK w \in WallReads : /\ utxo' = SetStatus(utxo, Expirable(BlockTs(w)), "expired")
                               /\ escrow' = escrow
    BY <1>4 DEF SubmitMigration
  <2>2. ASSUME NEW s \in SeqIds, utxo[s].status = "escrowed" PROVE utxo'[s] = utxo[s]
    BY <2>1, <2>2 DEF SetStatus, Expirable, Unspent
  <2>3. \A h \in Caas : escrow[h].rewards \subseteq SeqIds
    BY Typed DEF RInv, LInv, IInv
  <2> QED
    BY <2>1, <2>2, <2>3 DEF RInv, RewardsApart, Active, ActiveIn
<1>5. CASE UNCHANGED <<utxo, escrow>>
  BY <1>5 DEF RInv, RewardsApart, Active, ActiveIn
<1> QED
  BY <1>1, <1>2, <1>3, <1>4, <1>5
     DEF Next, vars, tables, SubmitAdmin, SubmitRewardRate, SubmitPending, SubmitRecorderChange,
         Refute, Tick

\* Locked rewards and what circulates are, disjoint, the rows that live and are
\* not given.
LEMMA SharesAddUp == CInv /\ LInv /\ RewardsApart => SharesConserved
<1> SUFFICES ASSUME CInv, LInv, RewardsApart PROVE SharesConserved
  OBVIOUS
<1> DEFINE f == AmountsIn(utxo)
<1>0. /\ EscrowCoherence /\ utxo \in [SeqIds -> Row] /\ Active \subseteq Caas
      /\ \A h \in Caas : /\ escrow[h].givers \subseteq SeqIds
                         /\ escrow[h].receivers \subseteq SeqIds
                         /\ escrow[h].rewards \subseteq SeqIds
  BY Typed DEF LInv, IInv, Active, ActiveIn
<1>1. Circulating \in SUBSET SeqIds /\ LockedRewards \in SUBSET SeqIds
  BY <1>0 DEF Circulating, Unspent, LockedRewards
<1>2. Circulating \cap LockedRewards = {}
  BY DEF Circulating, Unspent, LockedRewards, RewardsApart
<1>3. LiveRows = Circulating \cup LockedRewards
  <2>1. ASSUME NEW s \in LiveRows PROVE s \in Circulating \cup LockedRewards
    BY LiveRowsNow DEF LInv, OnlyRewardsStranded, Circulating, Unspent, LockedRewards,
                       GiversInEscrow
  <2>2. ASSUME NEW s \in Circulating PROVE s \in LiveRows
    <3>1. s \in SeqIds
      BY <1>1
    <3>2. CASE s \in Unspent
      BY <3>1, <3>2, LiveRowsNow DEF Unspent
    <3>3. CASE s \notin Unspent
      <4>1. PICK h \in Active : s \in escrow[h].receivers
        BY <3>3 DEF Circulating
      <4>2. utxo[s].status = "escrowed"
        BY <1>0, <4>1 DEF EscrowCoherence, Held
      <4>3. ASSUME NEW k \in Active PROVE s \notin escrow[k].givers
        BY <1>0, <4>1 DEF EscrowCoherence, Held
      <4> QED
        BY <3>1, <4>2, <4>3, LiveRowsNow DEF GiversInEscrow
    <3> QED
      BY <3>2, <3>3
  <2>3. ASSUME NEW s \in LockedRewards PROVE s \in LiveRows
    <3>1. utxo[s].status = "escrowed" /\ s \notin GiversInEscrow
      BY DEF RewardsApart, LockedRewards, GiversInEscrow
    <3> QED
      BY <1>1, <3>1, LiveRowsNow
  <2> QED
    BY <2>1, <2>2, <2>3
<1>4. SumOver(f, Circulating \cup LockedRewards)
         = SumOver(f, Circulating) + SumOver(f, LockedRewards)
  <2>1. /\ IsFiniteSet(Circulating) /\ IsFiniteSet(LockedRewards)
        /\ \A s \in Circulating \cup LockedRewards : f[s] \in Int
    BY <1>0, <1>1, SeqIdsFinite, AmountsTyped
  <2> HIDE DEF f
  <2> QED
    BY <1>2, <2>1, SumUnion DEF SumOver
<1>5. /\ TotalOf(utxo, Circulating) = SumOver(f, Circulating)
      /\ TotalOf(utxo, LockedRewards) = SumOver(f, LockedRewards)
  BY <1>1, TotalIs
<1>6. /\ SumOver(f, LiveRows) = blockShares + ForfeitedBonds
      /\ ~frozen => sharesOut = blockShares
  BY LiveRowsNow
<1> QED
  BY <1>3, <1>4, <1>5, <1>6 DEF SharesConserved

\* Shares are conserved: what circulates and the recorder's locked rewards add
\* up to what the newest block says plus the bonds that timed-out exchanges
\* forfeited.
THEOREM SharesStayConserved == Spec => []SharesConserved
<1>1. Init => CInv /\ RInv
  <2>1. Init => RewardsApart
    BY DEF Init, RewardsApart, NoEscrow
  <2> QED
    BY <2>1, InitShares, InitLocked DEF RInv
<1>2. (CInv /\ RInv) /\ [Next]_vars => (CInv /\ RInv)'
  BY SharesStep, RewardsStep
<1>3. CInv /\ RInv => SharesConserved
  BY SharesAddUp DEF RInv
<1> QED
  BY <1>1, <1>2, <1>3, PTL DEF Spec

-----------------------------------------------------------------------------
(* No handler makes shares.                                                *)

\* Nobody is promised more than was locked for it.
PaidFor ==
    \A h \in Active : TotalOf(utxo, escrow[h].receivers) <= TotalOf(utxo, escrow[h].givers)

MInv == CInv /\ PaidFor

LEMMA FeesNotNegative ==
    ASSUME TypeOK, NEW shares \in Int, shares >= 0, NEW give \in Int, give >= 0
    PROVE  RecordingFee(shares) >= 0 /\ ShareReward(give) >= 0
<1>1. ASSUME NEW a \in Nat, NEW b \in Nat \ {0} PROVE CeilDiv(a, b) >= 0
  <2>1. (-a) \div b <= 0 /\ (-a) \div b \in Int
    OBVIOUS
  <2> QED
    BY <2>1 DEF CeilDiv
<1>2. FeeNum * shares \in Nat /\ give * rewardNum \in Nat
  BY ConstantsAssumption DEF TypeOK
<1> QED
  BY <1>1, <1>2, ConstantsAssumption DEF RecordingFee, ShareReward

\* The receivers' rows alone hold what was not fee or reward.
LEMMA ReceiversHold ==
    ASSUME NEW total \in Int, nextSeq \in Nat, NEW rcv \in CaaReceiverLists(total),
           NEW f, RowsGive(f, rcv)
    PROVE  SumOver(f, NewSeqs(rcv)) = total
<1>1. PICK rew \in RewardRows(0) : rcv \o rew = rcv
  <2>1. <<>> \in RewardRows(0)
    BY DEF RewardRows
  <2>2. rcv \o <<>> = rcv
    BY ReceiverRows, ConcatEmptySeq
  <2> QED
    BY <2>1, <2>2
<1>2. RowsGive(f, rcv \o rew)
  BY <1>1
<1>3. SumOver(f, NewSeqs(rcv \o rew)) = total + 0
  BY <1>2, RowsHold
<1> QED
  BY <1>1, <1>3

\* Fewer rows hold no more.
LEMMA TotalGrows ==
    ASSUME NEW table \in [SeqIds -> Row], NEW B \in SUBSET SeqIds, NEW A \in SUBSET B
    PROVE  /\ TotalOf(table, A) \in Int /\ TotalOf(table, B) \in Int
           /\ 0 <= TotalOf(table, A) /\ TotalOf(table, A) <= TotalOf(table, B)
<1> DEFINE f == AmountsIn(table)
<1>1. \A s \in SeqIds : f[s] \in Nat
  BY DEF AmountsIn, Row
<1>2. /\ A \in SUBSET SeqIds /\ B \ A \in SUBSET SeqIds
      /\ IsFiniteSet(A) /\ IsFiniteSet(B) /\ IsFiniteSet(B \ A)
  BY SeqIdsFinite
<1>3. /\ TotalOf(table, A) = SumFunctionOnSet(f, A) /\ TotalOf(table, B) = SumFunctionOnSet(f, B)
  BY <1>2, TotalIs DEF SumOver
<1> HIDE DEF f
<1>4. SumFunctionOnSet(f, B \ A) = SumFunctionOnSet(f, B) - SumFunctionOnSet(f, A)
  <2>1. A \in SUBSET B /\ \A s \in B : f[s] \in Int
    BY <1>1
  <2> QED
    BY <1>2, <2>1, SumWithout
<1>5. SumFunctionOnSet(f, A) \in Nat
  <2>1. \A s \in A : f[s] \in Int /\ f[s] \in Nat
    BY <1>1, <1>2
  <2> QED
    BY <1>2, <2>1, SumTyped
<1>6. SumFunctionOnSet(f, B \ A) \in Nat
  <2>1. \A s \in B \ A : f[s] \in Int /\ f[s] \in Nat
    BY <1>1, <1>2
  <2> HIDE DEF f
  <2> QED
    BY <1>2, <2>1, SumTyped
<1>7. SumFunctionOnSet(f, B) \in Int
  <2>1. \A s \in B : f[s] \in Int
    BY <1>1
  <2> QED
    BY <1>2, <2>1, SumTyped
<1> QED
  BY <1>3, <1>4, <1>5, <1>6, <1>7

\* Rows that exist before and after a step hold what they held.
LEMMA TotalKept ==
    ASSUME TypeOK, RowsKept, NEW S \in SUBSET SeqIds,
           \A s \in S : utxo[s].status # "absent" /\ utxo'[s].status # "absent"
    PROVE  TotalOf(utxo', S) = TotalOf(utxo, S)
<1>1. \A s \in S : AmountsIn(utxo')[s] = AmountsIn(utxo)[s]
  BY AmountKept DEF AmountsIn
<1> QED
  BY <1>1, TotalIs, FlowNone

LEMMA RedeemableNow ==
    ASSUME IInv
    PROVE  /\ utxo \in [SeqIds -> Row] /\ Redeemable \in SUBSET SeqIds
           /\ \A s \in Redeemable : utxo[s].status \in {"unspent", "escrowed"}
           /\ \A s \in GiversInEscrow : s \in SeqIds /\ utxo[s].status = "escrowed"
<1>1. utxo \in [SeqIds -> Row]
  BY Typed DEF IInv
<1>2. \A h \in Active : h \in Caas /\ escrow[h].givers \subseteq SeqIds
                        /\ \A s \in escrow[h].givers : utxo[s].status = "escrowed"
  BY Typed DEF IInv, EscrowCoherence, Held, Active, ActiveIn
<1>3. \A s \in GiversInEscrow : s \in SeqIds /\ utxo[s].status = "escrowed"
  BY <1>2 DEF GiversInEscrow
<1> QED
  BY <1>1, <1>3 DEF Redeemable, Unspent

\* The rows G are handed on to the rows N.
LEMMA HandedOn ==
    ASSUME IInv, IInv', RowsKept, NEW G \in SUBSET Redeemable, NEW N \in SUBSET SeqIds,
           \A s \in Redeemable' : s \in N \/ (s \in Redeemable /\ s \notin G),
           TotalOf(utxo', N) <= TotalOf(utxo, G)
    PROVE  TotalOf(utxo', Redeemable') <= TotalOf(utxo, Redeemable)
<1> DEFINE K == Redeemable' \ N
           rest == Redeemable \ G
           f == AmountsIn(utxo)
           g == AmountsIn(utxo')
<1>0. /\ TypeOK /\ utxo \in [SeqIds -> Row] /\ Redeemable \in SUBSET SeqIds
      /\ \A s \in Redeemable : utxo[s].status \in {"unspent", "escrowed"}
  BY RedeemableNow DEF IInv
<1>1. /\ utxo' \in [SeqIds -> Row] /\ Redeemable' \in SUBSET SeqIds
      /\ \A s \in Redeemable' : utxo'[s].status \in {"unspent", "escrowed"}
  <2>1. (utxo \in [SeqIds -> Row])'
    BY Typed DEF IInv, TypeOK, Row
  <2>2. \A h \in Active' : h \in Caas /\ escrow'[h].givers \subseteq SeqIds
                           /\ \A s \in escrow'[h].givers : utxo'[s].status = "escrowed"
    BY DEF IInv, TypeOK, EscrowCoherence, Held, Active, ActiveIn
  <2>3. \A s \in GiversInEscrow' : s \in SeqIds /\ utxo'[s].status = "escrowed"
    BY <2>2 DEF GiversInEscrow
  <2> QED
    BY <2>1, <2>3 DEF Redeemable, Unspent
<1>2. K \in SUBSET rest /\ rest \in SUBSET SeqIds /\ K \in SUBSET SeqIds
  BY <1>0, <1>1
<1>3. TotalOf(utxo', K) = TotalOf(utxo, K)
  <2>1. \A s \in K : utxo[s].status # "absent" /\ utxo'[s].status # "absent"
    BY <1>0, <1>1, <1>2
  <2> HIDE DEF K
  <2> QED
    BY <1>0, <1>2, <2>1, TotalKept
<1>4. TotalOf(utxo', K \cup N) = TotalOf(utxo', K) + TotalOf(utxo', N)
  <2>1. /\ IsFiniteSet(K) /\ IsFiniteSet(N) /\ K \cap N = {} /\ K \cup N \in SUBSET SeqIds
        /\ \A s \in K \cup N : g[s] \in Int
    BY <1>1, <1>2, SeqIdsFinite, AmountsTyped
  <2>2. /\ TotalOf(utxo', K) = SumOver(g, K) /\ TotalOf(utxo', N) = SumOver(g, N)
        /\ TotalOf(utxo', K \cup N) = SumOver(g, K \cup N)
    BY <1>2, <2>1, TotalIs
  <2> HIDE DEF K, g
  <2> QED
    BY <2>1, <2>2, SumUnion DEF SumOver
<1>5. TotalOf(utxo, rest) = TotalOf(utxo, Redeemable) - TotalOf(utxo, G)
  <2>1. /\ IsFiniteSet(Redeemable) /\ G \in SUBSET Redeemable /\ G \in SUBSET SeqIds
        /\ \A s \in Redeemable : f[s] \in Int
    BY <1>0, SeqIdsFinite, AmountsTyped
  <2>2. /\ TotalOf(utxo, rest) = SumOver(f, rest) /\ TotalOf(utxo, G) = SumOver(f, G)
        /\ TotalOf(utxo, Redeemable) = SumOver(f, Redeemable)
    BY <1>0, <1>2, <2>1, TotalIs
  <2> HIDE DEF f
  <2> QED
    BY <2>1, <2>2, SumWithout DEF SumOver
<1> HIDE DEF K, rest
<1>6. TotalOf(utxo, K) <= TotalOf(utxo, rest)
  BY <1>0, <1>2, TotalGrows
<1>7. TotalOf(utxo', Redeemable') <= TotalOf(utxo', K \cup N)
  <2>1. Redeemable' \in SUBSET (K \cup N) /\ K \cup N \in SUBSET SeqIds
    BY <1>1, <1>2 DEF K
  <2> QED
    BY <1>1, <2>1, TotalGrows
<1>8. /\ TotalOf(utxo', Redeemable') \in Int /\ TotalOf(utxo', K \cup N) \in Int
      /\ TotalOf(utxo', N) \in Int /\ TotalOf(utxo', K) \in Int
      /\ TotalOf(utxo, rest) \in Int /\ TotalOf(utxo, Redeemable) \in Int
      /\ TotalOf(utxo, G) \in Int
  <2>1. K \cup N \in SUBSET SeqIds /\ G \in SUBSET SeqIds
    BY <1>0, <1>2
  <2> QED
    BY <1>0, <1>1, <1>2, <2>1, TotalGrows
<1> QED
  BY <1>3, <1>4, <1>5, <1>6, <1>7, <1>8

LEMMA NoneHandedOn ==
    ASSUME IInv, IInv', RowsKept, \A s \in Redeemable' : s \in Redeemable
    PROVE  TotalOf(utxo', Redeemable') <= TotalOf(utxo, Redeemable)
<1>1. TotalOf(utxo', {}) = TotalOf(utxo, {}) /\ TotalOf(utxo, {}) \in Int
  BY RedeemableNow, TotalKept, TotalGrows DEF IInv
<1> QED
  BY <1>1, HandedOn

\* An exchange that stays open keeps its shares.
LEMMA PaidStays ==
    ASSUME MInv, IInv', RowsKept, NEW h \in Active, h \in Active', escrow'[h] = escrow[h]
    PROVE  TotalOf(utxo', escrow'[h].receivers) <= TotalOf(utxo', escrow'[h].givers)
<1>1. /\ TypeOK /\ escrow[h].givers \in SUBSET SeqIds /\ escrow[h].receivers \in SUBSET SeqIds
      /\ \A s \in escrow[h].givers \cup escrow[h].receivers : utxo[s].status = "escrowed"
  BY Typed DEF MInv, CInv, IInv, EscrowCoherence, Held, Active, ActiveIn
<1>2. \A s \in escrow[h].givers \cup escrow[h].receivers : utxo'[s].status = "escrowed"
  BY DEF IInv, EscrowCoherence, Held
<1>3. /\ TotalOf(utxo', escrow[h].givers) = TotalOf(utxo, escrow[h].givers)
      /\ TotalOf(utxo', escrow[h].receivers) = TotalOf(utxo, escrow[h].receivers)
  BY <1>1, <1>2, TotalKept DEF MInv, CInv
<1> QED
  BY <1>3 DEF MInv, PaidFor

LEMMA AssignmentMints ==
    ASSUME MInv, IInv', RowsKept, sharesOut >= 0,
           NEW a \in Agreements \cup {NoAgreement}, NEW G \in SUBSET SeqIds,
           NEW wall \in WallReads, NEW crash \in BOOLEAN, SubmitAssignment(a, G, wall, crash)
    PROVE  PaidFor' /\ TotalOf(utxo', Redeemable') <= TotalOf(utxo, Redeemable)
<1> DEFINE ts == BlockTs(wall)
           give == TotalOf(utxo, G)
           fee == RecordingFee(sharesOut)
           reward == ShareReward(give)
           total == give - fee - reward
           t == SetStatus(SweptUtxo(ts), G, "spent")
           g == AmountsIn(utxo')
<1>1. escrow' = SweptEscrow(ts) /\ Spendable(G, ts)
  BY DEF SubmitAssignment
<1>2. PICK rcv \in ReceiverLists(total), rew \in RewardRows(reward) :
          /\ nextSeq + Len(rcv \o rew) - 1 <= MaxSeq /\ ts < MaxTime
          /\ utxo' = InsertRows(t, rcv \o rew, ts, "unspent")
  BY DEF SubmitAssignment
<1> DEFINE rows == rcv \o rew
           N == NewSeqs(rows)
<1>0. /\ TypeOK /\ EscrowCoherence /\ utxo \in [SeqIds -> Row] /\ escrow \in [Caas -> EscrowRow]
      /\ nextSeq \in Nat /\ rcv \in CaaReceiverLists(total) /\ sharesOut \in Int /\ IInv
  BY Typed DEF MInv, CInv, Counted, IInv, TypeOK, ReceiverLists
<1>3. give \in Int /\ fee \in Int /\ reward \in Int /\ total \in Int /\ fee >= 0
  <2>1. give \in Int /\ give >= 0
    BY <1>0, TotalGrows
  <2>2. fee \in Int /\ reward \in Int /\ fee >= 0
    BY <1>0, <2>1, FeesAreInts, FeesNotNegative
  <2> HIDE DEF fee, reward, give
  <2> QED
    BY <2>1, <2>2
<1>4. rows \in Seq(FreshRow)
  BY <1>0, NewRows
<1>5. /\ N \in SUBSET SeqIds /\ \A s \in N : utxo[s] = Absent
      /\ \A s \in N : utxo'[s].amount = rows[s - nextSeq + 1].amount
      /\ \A s \in SeqIds \ N : utxo'[s] = t[s]
  <2>1. nextSeq + Len(rows) - 1 <= MaxSeq /\ utxo' = InsertRows(t, rows, ts, "unspent")
    BY <1>2
  <2> HIDE DEF rows, t, ts
  <2> QED
    BY <1>0, <1>4, <2>1, InsertedRows
<1>6. TotalOf(utxo', N) = total + reward
  <2>1. RowsGive(g, rows)
    BY <1>5 DEF RowsGive, AmountsIn
  <2>2. rcv \in CaaReceiverLists(total) /\ rew \in RewardRows(reward)
    BY <1>0
  <2> HIDE DEF total, reward, g
  <2>3. SumOver(g, NewSeqs(rcv \o rew)) = total + reward
    BY <1>0, <1>3, <2>1, <2>2, RowsHold
  <2> QED
    BY <1>5, <2>3, TotalIs DEF g
<1>7. ts \in Times
  BY <1>0, <1>2, BlockTime
<1> HIDE DEF ts
<1>8. /\ \A h \in Active' : h \in Active /\ escrow'[h] = escrow[h]
  BY <1>0, <1>1, <1>7 DEF SweptEscrow, EscrowRow, TimedOut, Active, ActiveIn
<1>9. G \in SUBSET Redeemable /\ \A s \in G : utxo[s].status = "unspent"
  BY <1>1 DEF Spendable, Redeemable, Unspent
<1>10. ASSUME NEW s \in Redeemable' PROVE s \in N \/ (s \in Redeemable /\ s \notin G)
  <2>1. CASE s \in GiversInEscrow'
    <3>1. s \in GiversInEscrow
      BY <1>8, <2>1 DEF GiversInEscrow
    <3> QED
      BY <1>0, <1>9, <3>1, RedeemableNow DEF Redeemable
  <2>2. CASE s \notin GiversInEscrow' /\ s \notin N
    <3>1. s \in SeqIds /\ t[s].status = "unspent"
      BY <1>5, <2>2 DEF Redeemable, Unspent
    <3>2. SweptUtxo(ts)[s] \in Row /\ utxo[s] \in Row
      BY <1>0, <1>7, <3>1, SweepTables
    <3>3. s \notin G /\ SweptUtxo(ts)[s].status = "unspent"
      BY <3>1, <3>2 DEF SetStatus, Row
    <3>4. s \in ReleasedGivers(ts) \/ utxo[s].status = "unspent"
      BY <3>1, <3>2, <3>3 DEF SweptUtxo, Row, Absent
    <3>5. s \in ReleasedGivers(ts) => s \in GiversInEscrow
      BY DEF ReleasedGivers, TimedOut, GiversInEscrow
    <3> QED
      BY <3>1, <3>3, <3>4, <3>5 DEF Redeemable, Unspent
  <2> QED
    BY <2>1, <2>2
<1>11. TotalOf(utxo', N) <= TotalOf(utxo, G)
  <2>1. TotalOf(utxo', N) = (give - fee - reward) + reward
    BY <1>6
  <2> HIDE DEF fee, reward, N
  <2> QED
    BY <1>3, <2>1
<1>12. TotalOf(utxo', Redeemable') <= TotalOf(utxo, Redeemable)
  <2> HIDE DEF N
  <2> QED
    BY <1>0, <1>5, <1>9, <1>10, <1>11, HandedOn
<1>13. PaidFor'
  BY <1>8, PaidStays DEF PaidFor
<1> QED
  BY <1>12, <1>13

LEMMA CaaSubmitMints ==
    ASSUME MInv, IInv', RowsKept, sharesOut >= 0,
           NEW h \in Caas, NEW G \in SUBSET SeqIds, NEW wall \in WallReads, CaaSubmit(h, G, wall)
    PROVE  PaidFor' /\ TotalOf(utxo', Redeemable') <= TotalOf(utxo, Redeemable)
<1> DEFINE ts == BlockTs(wall)
           give == TotalOf(utxo, G)
           fee == RecordingFee(sharesOut)
           reward == ShareReward(give)
           total == give - fee - reward
           mid == SetStatus(utxo, G, "escrowed")
           g == AmountsIn(utxo')
<1>1. escrow[h].status = "none" /\ Spendable(G, ts)
  BY DEF CaaSubmit
<1>2. PICK rcv \in CaaReceiverLists(total), rew \in RewardRows(reward), deadline \in Times,
           bond \in Bonds \cup {0} :
          /\ nextSeq + Len(rcv \o rew) - 1 <= MaxSeq
          /\ utxo' = InsertRows(mid, rcv \o rew, ts, "escrowed")
          /\ escrow' = [escrow EXCEPT ![h] =
                 [status |-> "escrowed", deadline |-> deadline, givers |-> G,
                  receivers |-> NewSeqs(rcv),
                  rewards |-> NewSeqs(rcv \o rew) \ NewSeqs(rcv),
                  bond |-> bond, by |-> recorder]]
  BY ZenonT(60) DEF CaaSubmit
<1> DEFINE rows == rcv \o rew
           N == NewSeqs(rows)
           R == NewSeqs(rcv)
<1>0. /\ TypeOK /\ EscrowCoherence /\ utxo \in [SeqIds -> Row] /\ escrow \in [Caas -> EscrowRow]
      /\ nextSeq \in Nat /\ sharesOut \in Int /\ IInv
  BY Typed DEF MInv, CInv, Counted, IInv, TypeOK
<1>3. /\ give \in Int /\ fee \in Int /\ reward \in Int /\ total \in Int
      /\ fee >= 0 /\ reward >= 0 /\ total <= give
  <2>1. give \in Int /\ give >= 0
    BY <1>0, TotalGrows
  <2>2. fee \in Int /\ reward \in Int /\ fee >= 0 /\ reward >= 0
    BY <1>0, <2>1, FeesAreInts, FeesNotNegative
  <2> HIDE DEF fee, reward, give
  <2> QED
    BY <2>1, <2>2
<1>4. rows \in Seq(FreshRow)
  BY <1>0, NewRows
<1>5. /\ N \in SUBSET SeqIds /\ \A s \in N : utxo[s] = Absent
      /\ \A s \in N : utxo'[s].status = "escrowed" /\ utxo'[s].amount = rows[s - nextSeq + 1].amount
      /\ \A s \in SeqIds \ N : utxo'[s] = mid[s]
  <2>1. nextSeq + Len(rows) - 1 <= MaxSeq /\ utxo' = InsertRows(mid, rows, ts, "escrowed")
    BY <1>2
  <2> HIDE DEF rows, mid, ts
  <2> QED
    BY <1>0, <1>4, <2>1, InsertedRows
<1>6. TotalOf(utxo', R) = total
  <2>1. /\ \A s \in R : s \in N /\ rows[s - nextSeq + 1] = rcv[s - nextSeq + 1]
        /\ R \in SUBSET SeqIds
    BY <1>0, <1>5, NewRows DEF NewSeqs
  <2>2. RowsGive(g, rcv)
    BY <1>5, <2>1 DEF RowsGive, AmountsIn
  <2>3. TotalOf(utxo', R) = SumOver(g, R)
    BY <2>1, TotalIs
  <2> HIDE DEF total, g
  <2> QED
    BY <1>0, <1>3, <2>2, <2>3, ReceiversHold
<1>7. /\ escrow'[h].givers = G /\ escrow'[h].receivers = R
      /\ \A k \in Caas : k # h => escrow'[k] = escrow[k]
  BY <1>0, <1>2
<1>8. \A k \in Active' : k \in Caas /\ (k # h => k \in Active /\ escrow'[k] = escrow[k])
  BY <1>7 DEF Active, ActiveIn
<1>9. \A s \in G : s \in SeqIds /\ utxo[s].status = "unspent" /\ s \notin N
  BY <1>1, <1>5 DEF Spendable, Absent
<1>10. \A s \in G : utxo'[s].status = "escrowed"
  BY <1>0, <1>5, <1>9, StatusIs DEF UtxoStatus
<1>11. TotalOf(utxo', G) = give
  <2>1. \A s \in G : utxo[s].status # "absent" /\ utxo'[s].status # "absent"
    BY <1>9, <1>10
  <2> QED
    BY <1>0, <2>1, TotalKept
<1>12. ASSUME NEW s \in Redeemable' PROVE s \in Redeemable
  <2>1. CASE s \in Unspent'
    <3>1. s \in SeqIds /\ utxo'[s].status = "unspent"
      BY <2>1 DEF Unspent
    <3>2. s \notin N /\ s \notin G
      BY <1>5, <1>10, <3>1
    <3>3. utxo'[s] = utxo[s]
      BY <1>5, <3>1, <3>2 DEF SetStatus
    <3> QED
      BY <3>1, <3>3 DEF Redeemable, Unspent
  <2>2. CASE s \in GiversInEscrow'
    <3>1. PICK k \in Active' : s \in escrow'[k].givers
      BY <2>2 DEF GiversInEscrow
    <3>2. CASE k = h
      BY <1>7, <1>9, <3>1, <3>2 DEF Redeemable, Unspent
    <3>3. CASE k # h
      BY <1>8, <3>1, <3>3 DEF Redeemable, GiversInEscrow
    <3> QED
      BY <3>2, <3>3
  <2> QED
    BY <2>1, <2>2 DEF Redeemable
<1>13. TotalOf(utxo', Redeemable') <= TotalOf(utxo, Redeemable)
  BY <1>0, <1>12, NoneHandedOn
<1>14. PaidFor'
  <2> SUFFICES ASSUME NEW k \in Active'
               PROVE  TotalOf(utxo', escrow'[k].receivers) <= TotalOf(utxo', escrow'[k].givers)
    BY DEF PaidFor
  <2>1. CASE k = h
    <3> HIDE DEF give, total, R
    <3> QED
      BY <1>3, <1>6, <1>7, <1>11, <2>1
  <2>2. CASE k # h
    BY <1>8, <2>2, PaidStays
  <2> QED
    BY <2>1, <2>2
<1> QED
  BY <1>13, <1>14

LEMMA BindMints ==
    ASSUME MInv, IInv', RowsKept, NEW h \in Caas, NEW wall \in WallReads, NEW crash \in BOOLEAN,
           CaaBind(h, wall, crash)
    PROVE  PaidFor' /\ TotalOf(utxo', Redeemable') <= TotalOf(utxo, Redeemable)
<1> DEFINE G == escrow[h].givers
           N == escrow[h].receivers
<1>0. /\ TypeOK /\ EscrowCoherence /\ utxo \in [SeqIds -> Row] /\ escrow \in [Caas -> EscrowRow]
      /\ IInv /\ G \in SUBSET SeqIds /\ N \in SUBSET SeqIds
  BY Typed DEF MInv, CInv, IInv
<1>1. /\ h \in Active /\ utxo' = SetStatus(SetStatus(utxo, G, "spent"), N, "unspent")
      /\ escrow' = [escrow EXCEPT ![h].status = "finalized"]
  BY DEF CaaBind, Active, ActiveIn
<1>2. \A k \in Active' : k # h /\ k \in Active /\ escrow'[k] = escrow[k]
  BY <1>0, <1>1 DEF EscrowRow, Active, ActiveIn
<1>3. ASSUME NEW s \in SeqIds
      PROVE  /\ s \in N => utxo'[s].status = "unspent"
             /\ s \in G /\ s \notin N => utxo'[s].status = "spent"
             /\ s \notin G \cup N => utxo'[s] = utxo[s]
  <2>1. utxo[s] \in Row
    BY <1>0
  <2> HIDE DEF G, N
  <2> QED
    BY <1>1, <2>1 DEF SetStatus, Row
<1>4. /\ G \in SUBSET Redeemable
      /\ \A s \in N : utxo[s].status = "escrowed"
      /\ \A k \in Active : k # h => escrow[k].givers \cap G = {}
  BY <1>0, <1>1 DEF Redeemable, GiversInEscrow, EscrowCoherence, Held
<1>5. ASSUME NEW s \in Redeemable' PROVE s \in N \/ (s \in Redeemable /\ s \notin G)
  <2>1. CASE s \in GiversInEscrow'
    <3>1. PICK k \in Active' : s \in escrow'[k].givers
      BY <2>1 DEF GiversInEscrow
    <3> QED
      BY <1>2, <1>4, <3>1 DEF Redeemable, GiversInEscrow
  <2>2. CASE s \in Unspent'
    <3>1. s \in SeqIds /\ utxo'[s].status = "unspent"
      BY <2>2 DEF Unspent
    <3> HIDE DEF G, N
    <3> QED
      BY <1>3, <3>1 DEF Redeemable, Unspent
  <2> QED
    BY <2>1, <2>2 DEF Redeemable
<1>6. TotalOf(utxo', N) <= TotalOf(utxo, G)
  <2>1. TotalOf(utxo', N) = TotalOf(utxo, N)
    <3>1. \A s \in N : utxo[s].status # "absent" /\ utxo'[s].status # "absent"
      BY <1>0, <1>3, <1>4
    <3> QED
      BY <1>0, <3>1, TotalKept
  <2> QED
    BY <1>1, <2>1 DEF MInv, PaidFor
<1>7. TotalOf(utxo', Redeemable') <= TotalOf(utxo, Redeemable)
  <2> HIDE DEF G, N
  <2> QED
    BY <1>0, <1>4, <1>5, <1>6, HandedOn
<1>8. PaidFor'
  BY <1>2, PaidStays DEF PaidFor
<1> QED
  BY <1>7, <1>8

LEMMA MintsStep ==
    MInv /\ sharesOut >= 0 /\ [Next]_vars =>
        MInv' /\ TotalOf(utxo', Redeemable') <= TotalOf(utxo, Redeemable)
<1> SUFFICES ASSUME MInv, sharesOut >= 0, [Next]_vars
             PROVE  PaidFor' /\ TotalOf(utxo', Redeemable') <= TotalOf(utxo, Redeemable)
  BY SharesStep DEF MInv
<1>0. IInv /\ IInv' /\ RowsKept
  BY StepInv DEF MInv, CInv
<1>1. CASE \E a \in Agreements \cup {NoAgreement}, G \in SUBSET SeqIds, w \in WallReads,
              crash \in BOOLEAN : SubmitAssignment(a, G, w, crash)
  BY <1>0, <1>1, AssignmentMints
<1>2. CASE \E h \in Caas, G \in SUBSET SeqIds, w \in WallReads : CaaSubmit(h, G, w)
  BY <1>0, <1>2, CaaSubmitMints
<1>3. CASE \E h \in Caas, w \in WallReads, crash \in BOOLEAN : CaaBind(h, w, crash)
  BY <1>0, <1>3, BindMints
<1>4. CASE \E w \in WallReads : SubmitMigration(w)
  <2>1. PICK w \in WallReads : /\ utxo' = SetStatus(utxo, Expirable(BlockTs(w)), "expired")
                               /\ escrow' = escrow /\ Active = {}
    BY <1>4 DEF SubmitMigration, Migratable
  <2>2. ASSUME NEW s \in SeqIds, utxo'[s].status = "unspent" PROVE utxo[s].status = "unspent"
    <3>1. utxo[s] \in Row
      BY <1>0, RedeemableNow
    <3> QED
      BY <2>1, <2>2, <3>1 DEF SetStatus, Row
  <2>3. Active' = {}
    BY <2>1 DEF Active, ActiveIn
  <2>4. \A s \in Redeemable' : s \in Redeemable
    BY <2>2, <2>3 DEF Redeemable, GiversInEscrow, Unspent
  <2> QED
    BY <1>0, <2>3, <2>4, NoneHandedOn DEF PaidFor
<1>5. CASE UNCHANGED <<utxo, escrow>>
  <2>1. TotalOf(utxo, Redeemable) \in Int
    BY <1>0, RedeemableNow, TotalGrows
  <2>2. TotalOf(utxo', Redeemable') = TotalOf(utxo, Redeemable)
    BY <1>5 DEF TotalOf, Redeemable, Unspent, GiversInEscrow, Active, ActiveIn
  <2>3. PaidFor'
    BY <1>5 DEF MInv, PaidFor, TotalOf, Active, ActiveIn
  <2> QED
    BY <2>1, <2>2, <2>3
<1> QED
  BY <1>1, <1>2, <1>3, <1>4, <1>5
     DEF Next, vars, tables, SubmitAdmin, SubmitRewardRate, SubmitPending, SubmitRecorderChange,
         Refute, Tick

\* Nothing is minted at any reward rate, as long as shares_out is a number of
\* shares: what could be spent if every open CAA timed out never grows.  Bonds
\* forfeited again and again would take shares_out below zero, and the fee with it.
THEOREM NothingIsMinted == Spec /\ [](sharesOut >= 0) => NothingMinted
<1>1. Init => MInv
  <2>1. Init => PaidFor
    BY DEF Init, PaidFor, Active, ActiveIn, NoEscrow
  <2> QED
    BY <2>1, InitShares DEF MInv
<1>2. MInv /\ sharesOut >= 0 /\ [Next]_vars => MInv'
  BY MintsStep
<1>3. MInv /\ sharesOut >= 0 /\ [Next]_vars
         => [TotalOf(utxo', Redeemable') <= TotalOf(utxo, Redeemable)]_vars
  BY MintsStep
<1> QED
  BY <1>1, <1>2, <1>3, PTL DEF Spec, NothingMinted
=============================================================================
