--------------------------- MODULE ServicesProofs ---------------------------
(* Proofs about the daemons of MCServices, for every value of the constants:  *)
(* an owner remains (from OwnerKeysProofs), the validator's history is the    *)
(* recorder's, a trade is paid once, and every blob has its row.              *)
EXTENDS MCServices, SumLemmas, SequenceTheorems

-----------------------------------------------------------------------------
(* The owner keys of F, where OwnerKeysProofs has proved that an owner remains. *)

FP == INSTANCE OwnerKeysProofs WITH
        Lifetimes <- {}, Overrides <- TRUE,
        now <- freeNow, liveAt <- freeLiveAt, row <- freeRow, audit <- freeAudit,
        lastRevocation <- freeLast, revokers <- freeRevokers

LEMMA SameOwnerKeys ==
    /\ \A S : F!Cardinality(S) = FP!Cardinality(S)
    /\ \A table, t : F!ValidKeys(table, t) = FP!ValidKeys(table, t)
    /\ \A table, live, t, signer, new :
         F!CanRotate(table, live, t, signer, new) <=> FP!CanRotate(table, live, t, signer, new)
    /\ \A table, t, signer, new, expires :
         F!Rotated(table, t, signer, new, expires) = FP!Rotated(table, t, signer, new, expires)
<1>1. \A S : F!Cardinality(S) = FP!Cardinality(S)
  BY DEF F!Cardinality, FP!Cardinality
<1>2. \A table, k, t : F!Valid(table, k, t) <=> FP!Valid(table, k, t)
  BY DEF F!Valid, FP!Valid, F!Unexpired, FP!Unexpired, F!Never, FP!Never
<1>3. \A table, t : F!ValidKeys(table, t) = FP!ValidKeys(table, t)
  BY <1>2 DEF F!ValidKeys, FP!ValidKeys
<1>4. \A table, live, t, signer, new :
        F!CanRotate(table, live, t, signer, new) <=> FP!CanRotate(table, live, t, signer, new)
  BY <1>2 DEF F!CanRotate, FP!CanRotate, F!RotationDue, FP!RotationDue
<1>5. \A table, t, signer, new, expires :
        F!Rotated(table, t, signer, new, expires) = FP!Rotated(table, t, signer, new, expires)
  BY DEF F!Rotated, FP!Rotated, F!Inserted, FP!Inserted, F!NewRow, FP!NewRow, F!Never, FP!Never
<1>6. QED
  BY <1>1, <1>3, <1>4, <1>5

LEMMA FreeKeysMove == ASSUME F!Next PROVE FP!Next
<1>1. PICK t \in F!Time : t > freeNow /\ F!NextBlock(t)
  BY DEF F!Next
<1>2. t \in FP!Time
  BY DEF F!Time, FP!Time
<1>3. ASSUME NEW signer \in Keys, NEW new \in Keys, NEW expires \in F!Expiries(t),
             F!Rotate(t, signer, new, expires)
      PROVE  FP!Rotate(t, signer, new, expires) /\ expires \in FP!Expiries(t)
  BY <1>3, SameOwnerKeys
  DEF F!Rotate, FP!Rotate, F!Expiries, FP!Expiries, F!Never, FP!Never, F!history, FP!history
<1>4. ASSUME NEW signers \in SUBSET Keys, NEW target \in Keys, F!Revoke(t, signers, target)
      PROVE  FP!Revoke(t, signers, target)
  <2>1. ASSUME NEW table, NEW live
        PROVE  F!CanRevoke(table, live, t, signers, target)
                 <=> FP!CanRevoke(table, live, t, signers, target)
    BY SameOwnerKeys
    DEF F!CanRevoke, FP!CanRevoke, F!LeavesOne, FP!LeavesOne, F!RevocationDue,
        FP!RevocationDue, F!Valid, FP!Valid, F!Unexpired, FP!Unexpired, F!Never, FP!Never
  <2>2. QED
    BY <1>4, <2>1, SameOwnerKeys
    DEF F!Revoke, FP!Revoke, F!AuditRevoke, FP!AuditRevoke, F!Revoked, FP!Revoked
<1>5. ASSUME NEW signers \in SUBSET Keys, NEW held \in SUBSET Keys, NEW reinstated \in Keys,
             F!Override(t, signers, held, reinstated)
      PROVE  FP!Override(t, signers, held, reinstated)
  <2>1. F!CanOverride(t, signers, held, reinstated) => FP!CanOverride(t, signers, held, reinstated)
    BY SameOwnerKeys
    DEF F!CanOverride, FP!CanOverride, F!Valid, FP!Valid, F!Unexpired, FP!Unexpired,
        F!Never, FP!Never
  <2>2. QED
    BY <1>5, <2>1 DEF F!Override, FP!Override, F!history, FP!history
<1>6. F!GoLive(t) => FP!GoLive(t)
  BY DEF F!GoLive, FP!GoLive, F!history, FP!history
<1>7. FP!NextBlock(t)
  BY <1>1, <1>3, <1>4, <1>5, <1>6 DEF F!NextBlock, FP!NextBlock
<1>8. QED
  BY <1>1, <1>2, <1>7 DEF FP!Next

\* Where rotations set no expiry an owner remains, in the run's free keys as well.
THEOREM ServicesStayOwned == MCSpec => []AlwaysOwned
<1>1. MCInit => FP!Init
  BY DEF MCInit, F!Init, FP!Init, F!Genesis, FP!Genesis, F!NewRow, FP!NewRow, F!Absent,
         FP!Absent, F!Never, FP!Never
<1>2. [MCNext]_<<part, vars, freeVars, exchangeVars, validatorVars, blobVars>>
        => [FP!Next]_FP!vars
  BY FreeKeysMove
  DEF MCNext, OwnerKeysStep, FreeKeysStep, ExchangeStep, ValidatorStep, BlobStep, freeVars,
      FP!vars, FP!history
<1>3. FP!OwnerKeysConstants
  BY OwnerKeysConstants DEF FP!OwnerKeysConstants, IsFiniteSet, FP!IsFiniteSet
<1>4. FP!Spec => []FP!AlwaysAnOwner
  BY <1>3, FP!OwnerRemains
<1>5. FP!AlwaysAnOwner => AlwaysOwned
  BY SameOwnerKeys DEF AlwaysOwned, F!AlwaysAnOwner, FP!AlwaysAnOwner, F!Time, FP!Time
<1>6. QED
  BY <1>1, <1>2, <1>4, <1>5, PTL DEF MCSpec, FP!Spec

-----------------------------------------------------------------------------
(* The validator of a recorder that keeps its history. *)

VHash == Seq(V!Contents)
VBlock == [content : V!Contents, prev : VHash, hash : VHash]
VAnchor == [height : Nat, rolled : Seq(VHash)]

\* The hashes of the first n blocks.
Hist(n) == [i \in 1..n |-> chain[i].hash]

VTypes ==
    /\ chain \in Seq(VBlock) /\ altered = 0
    /\ db \in [height : 0..Len(chain), rolled : Seq(VHash),
               status : {"ok", "unreachable", "alert", "audit_alert"}]
    /\ anchors \in Seq(VAnchor) /\ anchorFile \in Seq(VAnchor)
    /\ phase \in {"idle", "genesis", "fetch", "audit", "save", "publish", "record"}
    /\ phase # "idle" =>
          /\ top \in 0..Len(chain) /\ at \in 1..(top + 1)
          /\ rolled \in Seq(VHash) /\ batch \in Seq(VBlock)

\* The poll stands on the recorder's blocks, where it has got to and beyond what is saved.
Under ==
    phase # "idle" =>
        /\ rolled = Hist(at - 1)
        /\ phase \in {"genesis", "fetch", "audit"} => db.height < at /\ at <= top
        /\ phase = "save" => db.height < at - 1
        /\ phase \in {"publish", "record"} => db.height = at - 1
        /\ phase = "audit" =>
              /\ Len(batch) >= 1 /\ at + Len(batch) - 1 <= top
              /\ \A i \in 1..Len(batch) : batch[i] = chain[at + i - 1]

\* No anchor is above what is saved; one that is being published is above those before.
Published ==
    /\ \A i \in 1..Len(anchorFile) : anchorFile[i].height <= db.height
    /\ phase = "publish" => \A i \in 1..Len(anchorFile) : anchorFile[i].height < db.height
    /\ phase = "record" => \E i \in 1..Len(anchorFile) : anchorFile[i] = V!Anchored

VInv ==
    /\ VTypes /\ Under /\ Published
    /\ db.rolled = Hist(db.height) /\ V!AnchorsIncrease

LEMMA ValidatorBounds ==
    MaxHeight \in Nat /\ MaxFails \in Nat /\ MaxCrashes \in Nat
    /\ Batch \in Nat \ {0} /\ Interval \in Nat \ {0}
BY PartsConstants DEF V!ValidatorAssumption

LEMMA ValidatorInit == V!Init => VInv
<1> SUFFICES ASSUME V!Init PROVE VInv
  OBVIOUS
<1>1. /\ chain = <<>> /\ altered = 0 /\ anchors = <<>> /\ anchorFile = <<>>
      /\ db = [height |-> 0, rolled |-> <<>>, status |-> "ok"] /\ phase = "idle"
  BY DEF V!Init
<1>2. VTypes
  BY <1>1 DEF VTypes
<1>3. Under /\ Published /\ V!AnchorsIncrease
  BY <1>1 DEF Under, Published, V!AnchorsIncrease, V!Range
<1>4. db.rolled = Hist(db.height)
  BY <1>1 DEF Hist
<1>5. QED
  BY <1>2, <1>3, <1>4 DEF VInv

\* The recorder goes on.
LEMMA RecordKeeps == ASSUME VInv, NEW c \in V!Contents, V!Record(c) PROVE VInv'
<1> DEFINE b == [content |-> c, prev |-> V!LastHash, hash |-> Append(V!LastHash, c)]
<1>1. chain \in Seq(VBlock)
  BY DEF VInv, VTypes
<1>2. b \in VBlock
  <2>1. V!LastHash \in VHash
    <3>1. CASE chain = <<>>
      BY <3>1 DEF V!LastHash, VHash
    <3>2. CASE chain # <<>>
      <4>1. chain[Len(chain)] \in VBlock
        BY <1>1, <3>2
      <4>2. QED
        BY <3>2, <4>1 DEF V!LastHash, VBlock
    <3>3. QED
      BY <3>1, <3>2
  <2>2. Append(V!LastHash, c) \in VHash
    BY <2>1, AppendProperties DEF VHash
  <2>3. QED
    BY <2>1, <2>2 DEF VBlock
<1> HIDE DEF b
<1>3. chain' = Append(chain, b)
      /\ UNCHANGED <<altered, db, anchors, anchorFile, phase, top, at, rolled, batch>>
  BY DEF V!Record, V!stored, V!poll, b
<1>4. /\ chain' \in Seq(VBlock) /\ Len(chain') = Len(chain) + 1 /\ Len(chain) \in Nat
      /\ \A i \in 1..Len(chain) : chain'[i] = chain[i]
  BY <1>1, <1>2, <1>3, AppendProperties
<1>5. \A n \in 0..Len(chain) : Hist(n)' = Hist(n)
  BY <1>4 DEF Hist
<1>6. VTypes'
  BY <1>3, <1>4 DEF VInv, VTypes
<1>7. Under'
  <2>1. phase # "idle" => at - 1 \in 0..Len(chain)
    BY <1>4 DEF VInv, VTypes
  <2>2. phase # "idle" =>
           [i \in 1..(at - 1) |-> chain'[i].hash] = [i \in 1..(at - 1) |-> chain[i].hash]
    BY <1>4, <2>1
  <2>3. phase = "audit" =>
           /\ Len(batch) >= 1 /\ at + Len(batch) - 1 <= top
           /\ \A i \in 1..Len(batch) : batch[i] = chain'[at + i - 1]
    <3> SUFFICES ASSUME phase = "audit", NEW i \in 1..Len(batch)
                 PROVE  chain'[at + i - 1] = chain[at + i - 1]
      BY DEF VInv, Under
    <3>1. at \in Nat /\ top \in Nat /\ at >= 1 /\ top <= Len(chain) /\ Len(batch) \in Nat
      BY <1>4 DEF VInv, VTypes
    <3>2. at + Len(batch) - 1 <= top
      BY DEF VInv, Under
    <3>3. at + i - 1 \in 1..Len(chain)
      BY <1>4, <3>1, <3>2
    <3>4. QED
      BY <1>4, <3>3
  <2>4. QED
    BY <1>3, <2>2, <2>3 DEF VInv, Under, Hist
<1>8. Published' /\ V!AnchorsIncrease'
  <2>1. V!Anchored' = V!Anchored
    BY <1>3 DEF V!Anchored
  <2>2. Published'
    BY <1>3, <2>1 DEF VInv, Published
  <2>3. V!AnchorsIncrease'
    BY <1>3 DEF VInv, V!AnchorsIncrease, V!Range
  <2>4. QED
    BY <2>2, <2>3
<1>9. (db.rolled = Hist(db.height))'
  BY <1>3, <1>5 DEF VInv, VTypes
<1>10. QED
  BY <1>6, <1>7, <1>8, <1>9 DEF VInv

\* Steps of the poll that save nothing.
LEMMA PollSame ==
    ASSUME VInv, UNCHANGED <<chain, altered, db, anchors, anchorFile>>, VTypes', Under',
           phase' \notin {"publish", "record"}
    PROVE  VInv'
<1>1. Published' /\ V!AnchorsIncrease'
  BY DEF VInv, Published, V!AnchorsIncrease, V!Range
<1>2. (db.rolled = Hist(db.height))'
  BY DEF VInv, Hist
<1>3. QED
  BY <1>1, <1>2 DEF VInv

LEMMA StatusSame ==
    ASSUME VInv, UNCHANGED <<chain, altered, anchors, anchorFile>>, phase' = "idle",
           NEW s \in {"ok", "unreachable", "alert", "audit_alert"},
           db' = [db EXCEPT !.status = s]
    PROVE  VInv'
<1>1. db' \in [height : 0..Len(chain), rolled : Seq(VHash),
               status : {"ok", "unreachable", "alert", "audit_alert"}]
      /\ db'.height = db.height /\ db'.rolled = db.rolled
  BY DEF VInv, VTypes
<1>2. VTypes' /\ Under'
  BY <1>1 DEF VInv, VTypes, Under
<1>3. Published' /\ V!AnchorsIncrease'
  BY <1>1 DEF VInv, Published, V!AnchorsIncrease, V!Range
<1>4. (db.rolled = Hist(db.height))'
  BY <1>1 DEF VInv, Hist
<1>5. QED
  BY <1>2, <1>3, <1>4 DEF VInv

LEMMA StartKeeps == ASSUME VInv, V!PollFails \/ V!Poll \/ V!InitAuditor PROVE VInv'
<1>0. Len(chain) \in Nat /\ db.height \in 0..Len(chain)
  BY DEF VInv, VTypes
<1>1. CASE V!PollFails
  BY <1>1, StatusSame DEF V!PollFails, V!recorder, V!poll
<1>2. CASE V!Poll /\ V!NothingNew(top')
  BY <1>2, StatusSame DEF V!Poll, V!recorder
<1>3. CASE V!Poll /\ ~V!NothingNew(top')
  <2>1. /\ top' = Len(chain) /\ db.height < Len(chain)
        /\ phase' \in {"fetch", "genesis"} /\ at' = db.height + 1 /\ rolled' = db.rolled
        /\ batch' = <<>> /\ UNCHANGED <<chain, altered, db, anchors, anchorFile>>
    BY <1>0, <1>3 DEF V!Poll, V!NothingNew, V!recorder
  <2>2. VTypes'
    BY <1>0, <2>1 DEF VInv, VTypes
  <2>3. at' - 1 = db.height
    BY <1>0, <2>1
  <2>4. rolled' = Hist(at - 1)'
    BY <2>1, <2>3 DEF VInv, Hist
  <2>5. Under'
    BY <1>0, <2>1, <2>4 DEF Under
  <2>6. QED
    BY <2>1, <2>2, <2>5, PollSame
<1>4. CASE V!InitAuditor
  <2>1. /\ phase = "genesis" /\ phase' = "fetch"
        /\ UNCHANGED <<chain, altered, db, anchors, anchorFile, top, at, rolled, batch>>
    BY <1>4 DEF V!InitAuditor, V!recorder
  <2>2. VTypes' /\ Under'
    BY <2>1 DEF VInv, VTypes, Under, Hist
  <2>3. QED
    BY <2>1, <2>2, PollSame
<1>5. QED
  BY <1>1, <1>2, <1>3, <1>4

LEMMA StopKeeps ==
    ASSUME VInv, UNCHANGED <<chain, altered, db, anchors, anchorFile>>, phase' = "idle"
    PROVE  VInv'
<1>1. VTypes' /\ Under'
  BY DEF VInv, VTypes, Under
<1>2. QED
  BY <1>1, PollSame

\* The least of the three bounds of a request.
LEMMA LeastOfThree ==
    ASSUME NEW a \in Int, NEW b \in Int, NEW c \in Int
    PROVE  LET m == V!Min({a, b, c})
           IN  m \in {a, b, c} /\ m <= a /\ m <= b /\ m <= c
<1>1. \E x \in {a, b, c} : \A y \in {a, b, c} : x <= y
  <2>1. CASE a <= b /\ a <= c
    BY <2>1
  <2>2. CASE b <= a /\ b <= c
    BY <2>2
  <2>3. CASE c <= a /\ c <= b
    BY <2>3
  <2>4. QED
    BY <2>1, <2>2, <2>3
<1>2. QED
  BY <1>1 DEF V!Min

LEMMA ServedBlocks ==
    ASSUME VInv, phase = "fetch"
    PROVE  /\ V!Served \in Seq(VBlock) /\ Len(V!Served) \in Nat
           /\ Len(V!Served) >= 1 /\ at + Len(V!Served) - 1 <= top
           /\ \A i \in 1..Len(V!Served) : V!Served[i] = chain[at + i - 1]
<1>1. /\ chain \in Seq(VBlock) /\ Len(chain) \in Nat /\ at \in Nat /\ at >= 1
      /\ top \in Nat /\ top <= Len(chain) /\ at <= top
  BY DEF VInv, VTypes, Under
<1> DEFINE m == V!Min({at + Batch - 1, top, Len(chain)})
<1>2. m \in Nat /\ m >= at /\ m <= top /\ m <= Len(chain)
  <2>1. at + Batch - 1 \in Int /\ at + Batch - 1 >= at /\ top \in Int /\ Len(chain) \in Int
    BY <1>1, ValidatorBounds
  <2>2. /\ m \in {at + Batch - 1, top, Len(chain)}
        /\ m <= at + Batch - 1 /\ m <= top /\ m <= Len(chain)
    BY <2>1, LeastOfThree
  <2> HIDE DEF m
  <2>3. QED
    BY <1>1, <2>1, <2>2
<1>3. V!Served = SubSeq(chain, at, m)
  BY DEF V!Served
<1> HIDE DEF m
<1>4. \A i \in at..m : chain[i] \in VBlock
  BY <1>1, <1>2
<1>5. /\ SubSeq(chain, at, m) \in Seq(VBlock)
      /\ Len(SubSeq(chain, at, m)) = m - at + 1
      /\ \A i \in 1..(m - at + 1) : SubSeq(chain, at, m)[i] = chain[at + i - 1]
  BY <1>1, <1>2, <1>4, SubSeqProperties
<1>6. QED
  BY <1>1, <1>2, <1>3, <1>5

\* ConcatProperties, of hashes.
LEMMA Concatenated ==
    \A p, q \in Seq(VHash) :
        /\ p \o q \in Seq(VHash) /\ Len(p \o q) = Len(p) + Len(q)
        /\ \A i \in 1..(Len(p) + Len(q)) : (p \o q)[i] = IF i <= Len(p) THEN p[i] ELSE q[i - Len(p)]
BY ConcatProperties

\* Verified blocks are the recorder's next.
LEMMA AdvanceKeeps ==
    ASSUME VInv, phase \in {"fetch", "audit"}, NEW bs \in Seq(VBlock),
           Len(bs) >= 1, at + Len(bs) - 1 <= top,
           \A i \in 1..Len(bs) : bs[i] = chain[at + i - 1],
           V!Advance(bs), UNCHANGED <<chain, altered, db, anchors, anchorFile, top>>
    PROVE  VInv'
<1>1. /\ chain \in Seq(VBlock) /\ Len(chain) \in Nat /\ at \in Nat /\ at >= 1
      /\ top \in Nat /\ top <= Len(chain) /\ rolled = Hist(at - 1) /\ Len(bs) \in Nat
      /\ db.height \in Nat /\ db.height < at
  BY SMTT(20) DEF VInv, VTypes, Under
<1> DEFINE hs == [i \in DOMAIN bs |-> bs[i].hash]
           n == at - 1
<1>2. /\ rolled' = rolled \o hs /\ at' = at + Len(bs) /\ batch' = <<>>
      /\ phase' = IF at' > top THEN "save" ELSE "fetch"
  BY DEF V!Advance
<1>3. \A i \in 1..Len(chain) : chain[i].hash \in VHash
  <2>1. \A i \in 1..Len(chain) : chain[i] \in VBlock
    BY <1>1
  <2>2. QED
    BY <2>1 DEF VBlock
<1>4. DOMAIN bs = 1..Len(bs)
  BY <1>1
<1>5. hs \in Seq(VHash) /\ Len(hs) = Len(bs)
      /\ \A i \in 1..Len(bs) : hs[i] = chain[n + i].hash
  <2>1. \A i \in 1..Len(bs) : n + i \in 1..Len(chain) /\ n + i = at + i - 1
    BY <1>1
  <2>2. \A i \in 1..Len(bs) : hs[i] = chain[n + i].hash
    BY <1>4, <2>1
  <2>3. hs = [i \in 1..Len(bs) |-> chain[n + i].hash]
    BY <1>4, <2>1
  <2> HIDE DEF hs, n
  <2>4. hs \in [1..Len(bs) -> VHash]
    BY <1>3, <2>1, <2>3
  <2>5. hs \in Seq(VHash) /\ Len(hs) = Len(bs)
    <3>1. Len(bs) \in Nat
      BY <1>1
    <3>2. hs \in Seq(VHash)
      BY <2>4, <3>1
    <3>3. DOMAIN hs = 1..Len(bs)
      BY <2>4
    <3>4. QED
      BY <3>1, <3>2, <3>3
  <2>6. QED
    BY <2>2, <2>5
<1>6. Hist(n) \in Seq(VHash) /\ Len(Hist(n)) = n /\ n \in Nat
  BY <1>1, <1>3 DEF Hist
<1> HIDE DEF hs
<1>7. rolled' = Hist(n + Len(bs)) /\ rolled' \in Seq(VHash)
  <2>1. n + Len(bs) \in 0..Len(chain)
    BY <1>1
  <2>2. Hist(n + Len(bs)) \in Seq(VHash) /\ Len(Hist(n + Len(bs))) = n + Len(bs)
    <3> DEFINE k == n + Len(bs)
    <3>1. k \in Nat /\ k <= Len(chain)
      BY <1>1, <2>1
    <3> HIDE DEF k
    <3>2. Hist(k) \in [1..k -> VHash]
      BY <1>1, <1>3, <3>1 DEF Hist
    <3> HIDE DEF Hist
    <3>3. Hist(k) \in Seq(VHash) /\ Len(Hist(k)) = k
      BY <3>1, <3>2
    <3>4. QED
      BY <3>3 DEF k
  <2>3. rolled' = Hist(n) \o hs
    BY <1>1, <1>2
  <2> HIDE DEF n
  <2>4. /\ Hist(n) \o hs \in Seq(VHash) /\ Len(Hist(n) \o hs) = n + Len(bs)
        /\ \A i \in 1..(n + Len(bs)) :
              (Hist(n) \o hs)[i] = IF i <= n THEN Hist(n)[i] ELSE hs[i - n]
    <3> DEFINE p == Hist(n)
    <3>1. p \in Seq(VHash) /\ Len(p) = n /\ hs \in Seq(VHash) /\ Len(hs) = Len(bs)
      BY <1>5, <1>6
    <3> HIDE DEF p
    <3>2. /\ p \o hs \in Seq(VHash) /\ Len(p \o hs) = Len(p) + Len(hs)
          /\ \A i \in 1..(Len(p) + Len(hs)) :
                (p \o hs)[i] = IF i <= Len(p) THEN p[i] ELSE hs[i - Len(p)]
      BY <3>1, Concatenated
    <3>3. /\ p \o hs \in Seq(VHash) /\ Len(p \o hs) = n + Len(bs)
          /\ \A i \in 1..(n + Len(bs)) : (p \o hs)[i] = IF i <= n THEN p[i] ELSE hs[i - n]
      BY <3>1, <3>2
    <3>4. QED
      BY <3>3 DEF p
  <2>5. ASSUME NEW i \in 1..(n + Len(bs)) PROVE (Hist(n) \o hs)[i] = Hist(n + Len(bs))[i]
    <3>1. CASE i <= n
      BY <1>6, <2>4, <3>1 DEF Hist
    <3>2. CASE i > n
      <4>1. i - n \in 1..Len(bs) /\ n + (i - n) = i
        BY <1>1, <1>6, <3>2
      <4>2. hs[i - n] = chain[i].hash
        BY <1>5, <4>1
      <4>3. (Hist(n) \o hs)[i] = hs[i - n]
        BY <1>6, <2>4, <3>2
      <4>4. Hist(n + Len(bs))[i] = chain[i].hash
        BY DEF Hist
      <4>5. QED
        BY <4>2, <4>3, <4>4
    <3>3. i \in Int /\ n \in Int
      BY <1>6
    <3>4. i <= n \/ i > n
      BY <3>3
    <3>5. QED
      BY <3>1, <3>2, <3>4
  <2>6. Hist(n) \o hs = Hist(n + Len(bs))
    BY <2>2, <2>4, <2>5, SeqEqual
  <2>7. QED
    BY <2>2, <2>3, <2>6
<1>8. at' - 1 = n + Len(bs) /\ at' \in 1..(top + 1)
  BY <1>1, <1>2
<1>9. VTypes'
  BY <1>1, <1>2, <1>7, <1>8 DEF VInv, VTypes
<1>10. Under'
  <2>1. Hist(at - 1)' = Hist(n + Len(bs))
    BY <1>8 DEF Hist
  <2>2. rolled' = Hist(at - 1)'
    BY <1>7, <2>1
  <2>3. at' > top => db.height < at' - 1
    BY <1>1, <1>2
  <2>4. at' <= top => db.height < at'
    BY <1>1, <1>2
  <2>5. at' \in Nat
    BY <1>1, <1>2
  <2>6. /\ phase' \in {"save", "fetch"} /\ db' = db /\ top' = top
        /\ phase' = "save" => at' > top
        /\ phase' = "fetch" => at' <= top
    BY <1>1, <1>2, <2>5
  <2>7. QED
    BY <2>2, <2>3, <2>4, <2>6 DEF Under
<1>11. QED
  BY <1>2, <1>9, <1>10, PollSame

LEMMA FetchKeeps ==
    ASSUME VInv, V!FetchFails \/ V!FetchNothing \/ V!FetchGood
    PROVE  VInv'
<1>1. CASE V!FetchFails
  BY <1>1, StopKeeps DEF V!FetchFails, V!recorder, V!stored
<1>2. ~V!FetchNothing
  BY ServedBlocks DEF V!FetchNothing
<1>3. CASE V!FetchGood /\ ~auditor.ready
  <2>1. V!Advance(V!Served) /\ phase = "fetch"
        /\ UNCHANGED <<chain, altered, db, anchors, anchorFile, top>>
    BY <1>3 DEF V!FetchGood, V!recorder, V!stored
  <2>2. QED
    BY <2>1, ServedBlocks, AdvanceKeeps
<1>4. CASE V!FetchGood /\ auditor.ready
  <2>1. /\ phase = "fetch" /\ phase' = "audit" /\ batch' = V!Served
        /\ UNCHANGED <<chain, altered, db, anchors, anchorFile, top, at, rolled>>
    BY <1>4 DEF V!FetchGood, V!recorder, V!stored
  <2>2. VTypes'
    BY <2>1, ServedBlocks DEF VInv, VTypes
  <2>3. Under'
    BY <2>1, ServedBlocks DEF VInv, Under, Hist
  <2>4. QED
    BY <2>1, <2>2, <2>3, PollSame
<1>5. QED
  BY <1>1, <1>2, <1>3, <1>4

LEMMA AuditKeeps ==
    ASSUME VInv, V!AuditBlock \/ V!AuditError \/ V!BatchAudited
    PROVE  VInv'
<1>1. CASE V!AuditBlock
  <2>1. UNCHANGED <<chain, altered, db, anchors, anchorFile, phase, top, at, rolled, batch>>
        /\ phase = "audit"
    BY <1>1 DEF V!AuditBlock, V!recorder
  <2>2. VTypes' /\ Under'
    BY <2>1 DEF VInv, VTypes, Under, Hist
  <2>3. QED
    BY <2>1, <2>2, PollSame
<1>2. CASE V!AuditError \/ V!BatchAudited
  <2>1. phase = "audit" /\ V!Advance(batch)
        /\ UNCHANGED <<chain, altered, db, anchors, anchorFile, top>>
    BY <1>2 DEF V!AuditError, V!BatchAudited, V!recorder, V!stored
  <2>2. /\ batch \in Seq(VBlock) /\ Len(batch) >= 1 /\ at + Len(batch) - 1 <= top
        /\ \A i \in 1..Len(batch) : batch[i] = chain[at + i - 1]
    BY <2>1 DEF VInv, VTypes, Under
  <2>3. QED
    BY <2>1, <2>2, AdvanceKeeps
<1>3. QED
  BY <1>1, <1>2

\* What is saved is where the poll stands.
LEMMA SaveKeeps == ASSUME VInv, V!Save \/ V!FetchAltered PROVE VInv'
<1>1. /\ chain \in Seq(VBlock) /\ Len(chain) \in Nat /\ altered = 0
      /\ phase \in {"fetch", "save"} /\ at - 1 \in 0..Len(chain) /\ db.height <= at - 1
      /\ phase = "save" => db.height < at - 1
      /\ rolled = Hist(at - 1) /\ rolled \in Seq(VHash) /\ db.height \in Nat
  BY DEF V!Save, V!FetchAltered, VInv, VTypes, Under
<1>2. /\ db'.height = at - 1 /\ db'.rolled = rolled
      /\ db' \in [height : 0..Len(chain), rolled : Seq(VHash),
                  status : {"ok", "unreachable", "alert", "audit_alert"}]
      /\ UNCHANGED <<chain, altered, anchors, anchorFile, top, at, rolled, batch>>
      /\ phase' \in {"idle", "publish"}
      /\ phase' = "publish" => phase = "save"
  BY <1>1 DEF V!Save, V!FetchAltered, V!recorder
<1>3. VTypes'
  BY <1>1, <1>2 DEF VInv, VTypes
<1>4. Under'
  BY <1>1, <1>2 DEF VInv, Under, Hist
<1>5. Published'
  <2>1. anchorFile \in Seq(VAnchor) /\ \A i \in 1..Len(anchorFile) : anchorFile[i].height <= db.height
    BY DEF VInv, VTypes, Published
  <2>2. \A i \in 1..Len(anchorFile) : anchorFile[i] \in VAnchor
    BY <2>1
  <2>3. \A i \in 1..Len(anchorFile) : anchorFile[i].height \in Nat
    BY <2>2 DEF VAnchor
  <2>4. \A i \in 1..Len(anchorFile) :
           /\ anchorFile[i].height <= at - 1
           /\ phase = "save" => anchorFile[i].height < at - 1
    BY <1>1, <2>1, <2>3
  <2>5. QED
    BY <1>2, <2>4 DEF Published
<1>6. V!AnchorsIncrease' /\ (db.rolled = Hist(db.height))'
  <2>1. V!AnchorsIncrease'
    BY <1>2 DEF VInv, V!AnchorsIncrease, V!Range
  <2>2. (db.rolled = Hist(db.height))'
    BY <1>1, <1>2 DEF Hist
  <2>3. QED
    BY <2>1, <2>2
<1>7. QED
  BY <1>3, <1>4, <1>5, <1>6 DEF VInv

LEMMA AnchoredType ==
    ASSUME VInv, phase \in {"publish", "record"}
    PROVE  V!Anchored \in VAnchor /\ V!Anchored.height = db.height
<1>1. at - 1 \in Nat /\ rolled \in Seq(VHash) /\ db.height = at - 1
  BY DEF VInv, VTypes, Under
<1>2. QED
  BY <1>1 DEF V!Anchored, VAnchor

LEMMA PublishKeeps == ASSUME VInv, V!Publish PROVE VInv'
<1>1. phase = "publish" /\ UNCHANGED <<chain, altered, db, anchors, top, at, rolled, batch>>
  BY DEF V!Publish, V!recorder
<1>2. CASE phase' = "idle" /\ UNCHANGED anchorFile
  BY <1>1, <1>2, StopKeeps
<1>3. CASE phase' = "record" /\ anchorFile' = Append(anchorFile, V!Anchored)
  <2>1. anchorFile \in Seq(VAnchor) /\ Len(anchorFile) \in Nat /\ anchors \in Seq(VAnchor)
    BY DEF VInv, VTypes
  <2>2. V!Anchored \in VAnchor /\ V!Anchored.height = db.height
    BY <1>1, AnchoredType
  <2>3. /\ anchorFile' \in Seq(VAnchor) /\ Len(anchorFile') = Len(anchorFile) + 1
        /\ \A i \in 1..Len(anchorFile) : anchorFile'[i] = anchorFile[i]
        /\ anchorFile'[Len(anchorFile) + 1] = V!Anchored
    BY <1>3, <2>1, <2>2, AppendProperties
  <2>4. DOMAIN anchorFile = 1..Len(anchorFile) /\ DOMAIN anchorFile' = 1..(Len(anchorFile) + 1)
    BY <2>1, <2>3
  <2>5. VTypes'
    BY <1>1, <1>3, <2>3 DEF VInv, VTypes
  <2>6. Under'
    BY <1>1, <1>3 DEF VInv, Under, Hist
  <2>7. db.height \in Nat /\ \A i \in 1..Len(anchorFile) : anchorFile[i].height < db.height
    BY <1>1 DEF VInv, VTypes, Published
  <2>8. V!Anchored' = V!Anchored
    BY <1>1 DEF V!Anchored
  <2>9. Published'
    <3>1. ASSUME NEW i \in 1..Len(anchorFile') PROVE anchorFile'[i].height <= db.height
      <4>1. i \in 1..Len(anchorFile) \/ i = Len(anchorFile) + 1
        BY <2>1, <2>3
      <4>2. CASE i \in 1..Len(anchorFile)
        <5>1. anchorFile[i].height <= db.height
          BY <4>2 DEF VInv, Published
        <5>2. QED
          BY <2>3, <4>2, <5>1
      <4>3. CASE i = Len(anchorFile) + 1
        BY <2>2, <2>3, <2>7, <4>3
      <4>4. QED
        BY <4>1, <4>2, <4>3
    <3>2. Len(anchorFile) + 1 \in 1..Len(anchorFile')
      BY <2>1, <2>3
    <3>3. QED
      BY <1>1, <1>3, <2>3, <2>8, <3>1, <3>2 DEF Published
  <2>10. V!AnchorsIncrease'
    <3>1. ASSUME NEW i \in 1..(Len(anchorFile) + 1), NEW j \in 1..(Len(anchorFile) + 1), i < j
          PROVE  anchorFile'[i].height < anchorFile'[j].height
      <4>1. i \in 1..Len(anchorFile)
        BY <2>1, <3>1
      <4>2. CASE j \in 1..Len(anchorFile)
        <5>1. anchorFile[i].height < anchorFile[j].height
          BY <2>4, <3>1, <4>1, <4>2 DEF VInv, V!AnchorsIncrease
        <5>2. QED
          BY <2>3, <4>1, <4>2, <5>1
      <4>3. CASE j = Len(anchorFile) + 1
        BY <2>2, <2>3, <2>7, <4>1, <4>3
      <4>4. QED
        BY <2>1, <4>2, <4>3
    <3>2. V!Range(anchorFile) \subseteq V!Range(anchorFile')
      BY <2>3, <2>4 DEF V!Range
    <3>3. V!Range(anchors) \subseteq V!Range(anchorFile)
      BY DEF VInv, V!AnchorsIncrease
    <3>4. V!Range(anchors') = V!Range(anchors)
      BY <1>1
    <3>5. QED
      BY <1>1, <2>4, <3>1, <3>2, <3>3, <3>4 DEF V!AnchorsIncrease, V!Range
  <2>11. (db.rolled = Hist(db.height))'
    BY <1>1 DEF VInv, Hist
  <2>12. QED
    BY <2>5, <2>6, <2>9, <2>10, <2>11 DEF VInv
<1>4. QED
  BY <1>2, <1>3 DEF V!Publish

LEMMA AnchorKeeps == ASSUME VInv, V!RecordAnchor PROVE VInv'
<1>1. /\ phase = "record" /\ phase' = "idle" /\ anchors' = Append(anchors, V!Anchored)
      /\ UNCHANGED <<chain, altered, db, anchorFile>>
  BY DEF V!RecordAnchor, V!recorder
<1>2. anchors \in Seq(VAnchor) /\ anchorFile \in Seq(VAnchor) /\ Len(anchors) \in Nat
  BY DEF VInv, VTypes
<1>3. V!Anchored \in VAnchor
  BY <1>1, AnchoredType
<1>4. /\ anchors' \in Seq(VAnchor) /\ Len(anchors') = Len(anchors) + 1
      /\ \A i \in 1..Len(anchors) : anchors'[i] = anchors[i]
      /\ anchors'[Len(anchors) + 1] = V!Anchored
  BY <1>1, <1>2, <1>3, AppendProperties
<1>5. V!Range(anchors') \subseteq V!Range(anchorFile)
  <2>1. V!Range(anchors) \subseteq V!Range(anchorFile)
    BY DEF VInv, V!AnchorsIncrease
  <2>11. V!Anchored \in V!Range(anchorFile)
    BY <1>1, <1>2 DEF VInv, Published, V!Range
  <2>2. V!Range(anchors') \subseteq V!Range(anchors) \cup {V!Anchored}
    BY <1>2, <1>4 DEF V!Range
  <2>3. QED
    BY <2>1, <2>11, <2>2
<1>6. VTypes' /\ Under' /\ Published'
  BY <1>1, <1>4 DEF VInv, VTypes, Under, Published
<1>7. V!AnchorsIncrease'
  <2>1. V!Range(anchorFile') = V!Range(anchorFile)
    BY <1>1
  <2>2. (V!Range(anchors) \subseteq V!Range(anchorFile))'
    BY <1>5, <2>1
  <2>3. (\A i, j \in DOMAIN anchorFile : i < j => anchorFile[i].height < anchorFile[j].height)'
    BY <1>1 DEF VInv, V!AnchorsIncrease
  <2>4. QED
    BY <2>2, <2>3 DEF V!AnchorsIncrease
<1>8. (db.rolled = Hist(db.height))'
  BY <1>1 DEF VInv, Hist
<1>9. QED
  BY <1>6, <1>7, <1>8 DEF VInv

LEMMA ValidatorStepKeeps == VInv /\ [V!Next]_V!vars => VInv'
<1> SUFFICES ASSUME VInv, [V!Next]_V!vars PROVE VInv'
  OBVIOUS
<1>1. \A k, c : ~V!Cut(k) /\ ~V!Damage(k, c)
  BY DEF V!Cut, V!Damage, VInv, VTypes
<1>2. CASE V!Crash
  BY <1>2, StopKeeps DEF V!Crash, V!recorder, V!stored
<1>3. CASE UNCHANGED V!vars
  <2>1. UNCHANGED <<chain, altered, db, anchors, anchorFile, phase, top, at, rolled, batch>>
    BY <1>3 DEF V!vars, V!recorder, V!stored, V!poll
  <2>2. VTypes' /\ Under'
    BY <2>1 DEF VInv, VTypes, Under, Hist
  <2>3. Published' /\ V!AnchorsIncrease'
    BY <2>1 DEF VInv, Published, V!AnchorsIncrease, V!Range, V!Anchored
  <2>4. (db.rolled = Hist(db.height))'
    BY <2>1 DEF VInv, Hist
  <2>5. QED
    BY <2>2, <2>3, <2>4 DEF VInv
<1>4. QED
  BY <1>1, <1>2, <1>3, RecordKeeps, StartKeeps, FetchKeeps, AuditKeeps, SaveKeeps,
     PublishKeeps, AnchorKeeps DEF V!Next, V!Step

LEMMA HistoryFollows == VInv => V!RolledIsHistory /\ V!AnchorsIncrease
BY DEF VInv, VTypes, Hist, V!RolledIsHistory

\* However often a poll is cut short: what is saved is one pass over the recorder's blocks,
\* and the anchor file rises and has all anchors of the table.
THEOREM ValidatorKeepsHistory ==
    V!Init /\ [][V!Next]_V!vars => [](V!RolledIsHistory /\ V!AnchorsIncrease)
BY ValidatorInit, ValidatorStepKeeps, HistoryFollows, PTL

\* The run's property.
THEOREM ServicesKeepHistory == MCSpec => []HistoryKept
<1>1. MCInit => V!Init
  BY DEF MCInit
<1>2. [MCNext]_<<part, vars, freeVars, exchangeVars, validatorVars, blobVars>>
        => [V!Next]_V!vars
  BY DEF MCNext, OwnerKeysStep, FreeKeysStep, ExchangeStep, ValidatorStep, BlobStep,
         validatorVars, V!vars, V!recorder, V!stored, V!poll
<1>3. V!RolledIsHistory /\ V!AnchorsIncrease => HistoryKept
  BY DEF HistoryKept
<1>4. QED
  BY <1>1, <1>2, <1>3, ValidatorKeepsHistory, PTL DEF MCSpec

-----------------------------------------------------------------------------
(* The exchange agent pays a trade once. *)

\* The recorders' tables are lists of UTXOs.
Lists(s) == \E S : s \in Seq(S)
IsUtxo(u) == u = [key |-> u.key, amount |-> u.amount, spent |-> u.spent]
XShape ==
    /\ utxos = [c \in Markets |-> utxos[c]]
    /\ \A c \in Markets : Lists(utxos[c]) /\ \A i \in 1..Len(utxos[c]) : IsUtxo(utxos[c][i])

\* Trades are numbered, and a pending trade is one that was asked for.
XAsked ==
    /\ issued \in Nat /\ trades \subseteq asked
    /\ \A t \in asked : t.sell \in Markets /\ t.id \in 1..issued
    /\ \A t, q \in asked : t.id = q.id => t = q

\* A trade's keys are not in use before it is asked for, and its deposit key
\* never on the chain it sells on.
XKeys ==
    \A c \in Markets : \A i \in 1..Len(utxos[c]) :
        /\ \A n \in Nat : n > issued => utxos[c][i].key \notin {X!Deposit(n), X!Receive(n)}
        /\ \A t \in asked : utxos[c][i].key = X!Deposit(t.id) => c = X!Other(t.sell)

\* A deposit of amount to the trade t is on its chain.
DepositedIn(table, t, amount) ==
    \E j \in 1..Len(table[X!Other(t.sell)]) :
        /\ table[X!Other(t.sell)][j].key = X!Deposit(t.id)
        /\ table[X!Other(t.sell)][j].amount = amount
Deposited(t, amount) == DepositedIn(utxos, t, amount)

\* The check under way stays on the chains, and has matched deposits only.
XCycle ==
    /\ cycle = [pc |-> cycle.pc, todo |-> cycle.todo, chain |-> cycle.chain,
                next |-> cycle.next, end |-> cycle.end, matched |-> cycle.matched]
    /\ last \in [Markets -> Nat] /\ cycle.todo \subseteq Markets
    /\ cycle.pc = "fetch" =>
          /\ cycle.chain \in Markets /\ cycle.next \in Nat \ {0} /\ cycle.end \in Nat
          /\ cycle.end <= Len(utxos[cycle.chain]) + 1
    /\ Lists(cycle.matched)
    /\ \A i \in 1..Len(cycle.matched) :
          /\ cycle.matched[i].trade \in asked
          /\ Deposited(cycle.matched[i].trade, cycle.matched[i].amount)

\* A pending trade is unpaid; a paid one is paid once, for one of its deposits.
XPaid ==
    /\ \A t \in trades : \A i \in 1..Len(utxos[t.sell]) : utxos[t.sell][i].key # X!Receive(t.id)
    /\ \A t \in asked : \A i, j \in 1..Len(utxos[t.sell]) :
          utxos[t.sell][i].key = X!Receive(t.id) /\ utxos[t.sell][j].key = X!Receive(t.id) => i = j
    /\ \A t \in asked : \A i \in 1..Len(utxos[t.sell]) :
          utxos[t.sell][i].key = X!Receive(t.id) =>
              \E amount : Deposited(t, amount) /\ utxos[t.sell][i].amount = X!Sell(amount)

XInv == XShape /\ XAsked /\ XKeys /\ XCycle /\ XPaid

LEMMA SameCardinality == \A S : X!Cardinality(S) = Cardinality(S)
BY DEF X!Cardinality, Cardinality

LEMMA OtherMarket ==
    ASSUME NEW c \in Markets
    PROVE  X!Other(c) \in Markets /\ X!Other(c) # c
<1>1. Cardinality(Markets) = 2
  BY PartsConstants, SameCardinality DEF X!ExchangeConstants
<1>2. \E x \in Markets : x # c
  <2> SUFFICES ASSUME \A x \in Markets : x = c PROVE FALSE
    OBVIOUS
  <2>1. Markets = {c}
    OBVIOUS
  <2> QED
    BY <1>1, <2>1, FS_Singleton
<1> QED
  BY <1>2 DEF X!Other

LEMMA ListsAre ==
    ASSUME NEW s, Lists(s)
    PROVE  /\ Len(s) \in Nat /\ DOMAIN s = 1..Len(s)
           /\ s # <<>> => Lists(Tail(s)) /\ Len(Tail(s)) = Len(s) - 1 /\ Len(s) >= 1
                          /\ Head(s) = s[1] /\ \A i \in 1..Len(Tail(s)) : Tail(s)[i] = s[i + 1]
<1>1. PICK S : s \in Seq(S)
  BY DEF Lists
<1>2. Len(s) \in Nat /\ DOMAIN s = 1..Len(s)
  BY <1>1
<1>3. ASSUME s # <<>>
      PROVE  /\ Lists(Tail(s)) /\ Len(Tail(s)) = Len(s) - 1 /\ Len(s) >= 1
             /\ Head(s) = s[1] /\ \A i \in 1..Len(Tail(s)) : Tail(s)[i] = s[i + 1]
  <2>1. Tail(s) \in Seq(S) /\ Len(Tail(s)) = Len(s) - 1 /\ Head(s) = s[1]
        /\ \A i \in 1..Len(Tail(s)) : Tail(s)[i] = s[i + 1]
    BY <1>1, <1>3, HeadTailProperties
  <2>2. Len(s) >= 1
    BY <1>1, <1>3, EmptySeq
  <2> QED
    BY <2>1, <2>2 DEF Lists
<1> QED
  BY <1>2, <1>3

LEMMA ListsAppend ==
    ASSUME NEW s, Lists(s), NEW e
    PROVE  /\ Lists(Append(s, e)) /\ Len(Append(s, e)) = Len(s) + 1
           /\ \A i \in 1..Len(s) : Append(s, e)[i] = s[i]
           /\ Append(s, e)[Len(s) + 1] = e
<1>1. PICK S : s \in Seq(S)
  BY DEF Lists
<1> DEFINE U == S \cup {e}
<1>2. s \in Seq(U) /\ e \in U
  BY <1>1
<1> HIDE DEF U
<1>3. Append(s, e) \in Seq(U) /\ Len(Append(s, e)) = Len(s) + 1
      /\ \A i \in 1..Len(s) : Append(s, e)[i] = s[i]
      /\ Append(s, e)[Len(s) + 1] = e
  BY <1>2, AppendProperties
<1> QED
  BY <1>3 DEF Lists

LEMMA ListsConcat ==
    ASSUME NEW s, Lists(s), NEW a, NEW b
    PROVE  /\ Lists(s \o <<a, b>>) /\ Len(s \o <<a, b>>) = Len(s) + 2
           /\ \A i \in 1..Len(s) : (s \o <<a, b>>)[i] = s[i]
           /\ (s \o <<a, b>>)[Len(s) + 1] = a /\ (s \o <<a, b>>)[Len(s) + 2] = b
<1>1. PICK S : s \in Seq(S)
  BY DEF Lists
<1> DEFINE U == S \cup {a, b}
           e == <<a, b>>
<1>2. s \in Seq(U) /\ e \in Seq(U) /\ Len(e) = 2 /\ e[1] = a /\ e[2] = b
  BY <1>1
<1> HIDE DEF U, e
<1>3. /\ s \o e \in Seq(U) /\ Len(s \o e) = Len(s) + Len(e)
      /\ \A i \in 1..Len(s) + Len(e) : (s \o e)[i] = IF i <= Len(s) THEN s[i] ELSE e[i - Len(s)]
  BY <1>2, ConcatProperties
<1>4. Len(s) \in Nat
  BY <1>1
<1>5. Lists(s \o e) /\ Len(s \o e) = Len(s) + 2
  BY <1>2, <1>3 DEF Lists
<1>6. \A i \in 1..Len(s) : (s \o e)[i] = s[i]
  BY <1>2, <1>3, <1>4
<1>7. (s \o e)[Len(s) + 1] = a /\ (s \o e)[Len(s) + 2] = b
  BY <1>2, <1>3, <1>4
<1> QED
  BY <1>5, <1>6, <1>7 DEF e

Replaced(s, n, e) == [s EXCEPT ![n] = e]

LEMMA ListsExcept ==
    ASSUME NEW s, Lists(s), NEW n, NEW e, NEW r, r = Replaced(s, n, e)
    PROVE  /\ Lists(r) /\ Len(r) = Len(s)
           /\ n \in 1..Len(s) => r[n] = e
           /\ \A i \in 1..Len(s) : i # n => r[i] = s[i]
<1>1. PICK S : s \in Seq(S)
  BY DEF Lists
<1> DEFINE U == S \cup {e}
<1>2. s \in Seq(U) /\ e \in U
  BY <1>1
<1>3. s \in [1..Len(s) -> U] /\ Len(s) \in Nat
  BY <1>2
<1> HIDE DEF U
<1>4. /\ r \in [1..Len(s) -> U]
      /\ n \in 1..Len(s) => r[n] = e
      /\ \A i \in 1..Len(s) : i # n => r[i] = s[i]
  BY <1>2, <1>3 DEF Replaced
<1>5. r \in Seq(U) /\ Len(r) = Len(s)
  BY <1>3, <1>4
<1> QED
  BY <1>4, <1>5 DEF Lists

LEMMA AgentInit == X!Init => XInv
<1> SUFFICES ASSUME X!Init PROVE XInv
  OBVIOUS
<1> DEFINE u == [key |-> X!OwnKey, amount |-> 8, spent |-> FALSE]
<1>1. /\ utxos = [c \in Markets |-> <<u>>] /\ trades = {} /\ asked = {} /\ issued = 0
      /\ last = [c \in Markets |-> X!None] /\ cycle = X!Idle
  BY DEF X!Init
<1>2. \A c \in Markets : /\ utxos[c] = <<u>> /\ Lists(utxos[c])
                         /\ \A i \in 1..Len(utxos[c]) : utxos[c][i] = u
  <2>1. <<u>> \in Seq({u}) /\ Len(<<u>>) = 1 /\ <<u>>[1] = u
    OBVIOUS
  <2>2. Lists(<<u>>) /\ \A i \in 1..Len(<<u>>) : <<u>>[i] = u
    <3> HIDE DEF u
    <3>1. \A i \in 1..Len(<<u>>) : i = 1
      BY <2>1
    <3> QED
      BY <2>1, <3>1 DEF Lists
  <2>3. \A c \in Markets : utxos[c] = <<u>>
    BY <1>1
  <2> HIDE DEF u
  <2> QED
    BY <2>2, <2>3
<1>3. XShape
  <2>1. IsUtxo(u)
    BY DEF IsUtxo
  <2>2. utxos = [c \in Markets |-> utxos[c]]
    BY <1>1
  <2> HIDE DEF u
  <2> QED
    BY <1>2, <2>1, <2>2 DEF XShape
<1>4. XAsked /\ XPaid
  BY <1>1 DEF XAsked, XPaid
<1>5. XKeys
  BY <1>1, <1>2 DEF XKeys, X!OwnKey, X!Deposit, X!Receive
<1>6. XCycle
  <2>1. <<>> \in Seq({}) /\ Len(<<>>) = 0
    OBVIOUS
  <2>2. Lists(<<>>)
    BY <2>1 DEF Lists
  <2> QED
    BY <1>1, <2>1, <2>2 DEF XCycle, X!Idle, X!None
<1> QED
  BY <1>3, <1>4, <1>5, <1>6 DEF XInv

\* Steps of the agent that move no UTXO.
LEMMA AgentQuiet ==
    ASSUME XInv, UNCHANGED <<utxos, asked, issued>>, trades' \subseteq trades, XCycle'
    PROVE  XInv'
<1>1. XShape' /\ XAsked' /\ XKeys' /\ XPaid'
  BY DEF XInv, XShape, XAsked, XKeys, XPaid, Deposited
<1> QED
  BY <1>1 DEF XInv

LEMMA AgentChecks == ASSUME XInv, X!CheckDeposits PROVE XInv'
<1>1. /\ UNCHANGED <<utxos, asked, issued, last>> /\ trades' \subseteq trades
      /\ cycle' = [X!Idle EXCEPT !.pc = "poll", !.todo = Markets]
  BY DEF X!CheckDeposits, X!counters
<1>2. Lists(<<>>) /\ Len(<<>>) = 0
  <2>1. <<>> \in Seq({}) /\ Len(<<>>) = 0
    OBVIOUS
  <2> QED
    BY <2>1 DEF Lists
<1>3. XCycle'
  <2>1. last' \in [Markets -> Nat]
    BY <1>1 DEF XInv, XCycle
  <2>2. /\ cycle'.pc = "poll" /\ cycle'.todo = Markets /\ cycle'.matched = <<>>
        /\ cycle' = [pc |-> cycle'.pc, todo |-> cycle'.todo, chain |-> cycle'.chain,
                     next |-> cycle'.next, end |-> cycle'.end, matched |-> cycle'.matched]
    BY <1>1 DEF X!Idle
  <2> QED
    BY <1>2, <2>1, <2>2 DEF XCycle
<1> QED
  BY <1>1, <1>3, AgentQuiet

LEMMA AgentRestarts == ASSUME XInv, X!Restart PROVE XInv'
<1>1. /\ UNCHANGED <<utxos, asked, issued>> /\ trades' \subseteq trades
      /\ cycle' = X!Idle /\ last' = [c \in Markets |-> X!None]
  BY DEF X!Restart
<1>2. Lists(<<>>) /\ Len(<<>>) = 0
  <2>1. <<>> \in Seq({}) /\ Len(<<>>) = 0
    OBVIOUS
  <2> QED
    BY <2>1 DEF Lists
<1>3. XCycle'
  <2>1. last' \in [Markets -> Nat]
    BY <1>1 DEF X!None
  <2>2. /\ cycle'.pc = "idle" /\ cycle'.todo = {} /\ cycle'.matched = <<>>
        /\ cycle' = [pc |-> cycle'.pc, todo |-> cycle'.todo, chain |-> cycle'.chain,
                     next |-> cycle'.next, end |-> cycle'.end, matched |-> cycle'.matched]
    BY <1>1 DEF X!Idle
  <2> QED
    BY <1>2, <2>1, <2>2 DEF XCycle
<1> QED
  BY <1>1, <1>3, AgentQuiet

LEMMA AgentDone == ASSUME XInv, X!CycleDone PROVE XInv'
<1>1. /\ UNCHANGED <<utxos, asked, issued, trades, last>> /\ cycle' = X!Idle
  BY DEF X!CycleDone, X!counters
<1>2. Lists(<<>>) /\ Len(<<>>) = 0
  <2>1. <<>> \in Seq({}) /\ Len(<<>>) = 0
    OBVIOUS
  <2> QED
    BY <2>1 DEF Lists
<1>3. XCycle'
  BY <1>1, <1>2 DEF XInv, XCycle, X!Idle
<1> QED
  BY <1>1, <1>3, AgentQuiet

LEMMA AgentFetched == ASSUME XInv, X!Fetched PROVE XInv'
<1>1. /\ UNCHANGED <<utxos, asked, issued, trades, last>>
      /\ cycle' = [cycle EXCEPT !.pc = IF cycle.todo = {} THEN "execute" ELSE "poll"]
  BY DEF X!Fetched, X!counters
<1>2. XCycle'
  BY <1>1 DEF XInv, XCycle, Deposited
<1> QED
  BY <1>1, <1>2, AgentQuiet

LEMMA AgentPolls == ASSUME XInv, X!Poll PROVE XInv'
<1>0. UNCHANGED <<utxos, asked, issued, trades>>
  BY DEF X!Poll, X!counters
<1>1. PICK c \in cycle.todo :
        LET next == X!NextSeq(c)
            prev == IF last[c] = X!None THEN next ELSE last[c] IN
        \/ /\ last' = [last EXCEPT ![c] = next]
           /\ cycle' = [cycle EXCEPT !.pc = "fetch", !.todo = @ \ {c}, !.chain = c,
                                     !.next = prev, !.end = next]
        \/ /\ cycle' = [cycle EXCEPT !.todo = @ \ {c}]
           /\ UNCHANGED last
  BY DEF X!Poll
<1> DEFINE next == X!NextSeq(c)
           prev == IF last[c] = X!None THEN next ELSE last[c]
<1>2. cycle.pc = "poll" /\ c \in Markets
  BY DEF X!Poll, XInv, XCycle
<1>3. next = Len(utxos[c]) + 1 /\ next \in Nat \ {0} /\ prev \in Nat \ {0}
  <2>1. Len(utxos[c]) \in Nat
    BY <1>2, ListsAre DEF XInv, XShape
  <2> QED
    BY <1>2, <2>1 DEF X!NextSeq, X!None, XInv, XCycle
<1> HIDE DEF next, prev
<1>4. CASE /\ last' = [last EXCEPT ![c] = next]
           /\ cycle' = [cycle EXCEPT !.pc = "fetch", !.todo = @ \ {c}, !.chain = c,
                                     !.next = prev, !.end = next]
  <2>1. /\ cycle'.matched = cycle.matched /\ cycle'.next = prev
        /\ cycle'.pc = "fetch" /\ cycle'.chain = c /\ cycle'.end = next
        /\ cycle'.todo = cycle.todo \ {c}
        /\ cycle' = [pc |-> cycle'.pc, todo |-> cycle'.todo, chain |-> cycle'.chain,
                     next |-> cycle'.next, end |-> cycle'.end, matched |-> cycle'.matched]
    BY <1>4 DEF XInv, XCycle
  <2>2. last' \in [Markets -> Nat]
    BY <1>2, <1>3, <1>4 DEF XInv, XCycle
  <2>3. Len(utxos[c]) \in Nat
    BY <1>2, ListsAre DEF XInv, XShape
  <2>4. XCycle'
    BY <1>0, <1>2, <1>3, <2>1, <2>2, <2>3 DEF XInv, XCycle, Deposited
  <2> QED
    BY <1>0, <2>4, AgentQuiet
<1>5. CASE cycle' = [cycle EXCEPT !.todo = @ \ {c}] /\ UNCHANGED last
  <2>1. XCycle'
    BY <1>0, <1>2, <1>5 DEF XInv, XCycle, Deposited
  <2> QED
    BY <1>0, <2>1, AgentQuiet
<1> QED
  BY <1>1, <1>4, <1>5 DEF next, prev

LEMMA AgentFetches == ASSUME XInv, X!Fetch PROVE XInv'
<1> DEFINE u == utxos[cycle.chain][cycle.next]
           m == [trade |-> CHOOSE t \in X!Matching(u) : TRUE, amount |-> u.amount]
           more == [cycle EXCEPT !.next = cycle.next + 1, !.matched = Append(cycle.matched, m)]
<1>1. /\ UNCHANGED <<utxos, asked, issued, trades, last>>
      /\ cycle.pc = "fetch" /\ cycle.next < cycle.end
      /\ \/ X!Matching(u) # {} /\ cycle' = more
         \/ cycle' = [cycle EXCEPT !.next = cycle.next + 1]
  BY DEF X!Fetch, X!counters
<1>2. /\ cycle.chain \in Markets /\ cycle.next \in Nat \ {0} /\ cycle.end \in Nat
      /\ cycle.end <= Len(utxos[cycle.chain]) + 1 /\ Len(utxos[cycle.chain]) \in Nat
      /\ cycle.next \in 1..Len(utxos[cycle.chain])
      /\ last \in [Markets -> Nat]
  <2>1. /\ cycle.chain \in Markets /\ cycle.next \in Nat \ {0} /\ cycle.end \in Nat
        /\ cycle.end <= Len(utxos[cycle.chain]) + 1 /\ last \in [Markets -> Nat]
    BY <1>1 DEF XInv, XCycle
  <2>2. Len(utxos[cycle.chain]) \in Nat
    BY <2>1, ListsAre DEF XInv, XShape
  <2> QED
    BY <1>1, <2>1, <2>2
<1>3. CASE cycle' = [cycle EXCEPT !.next = cycle.next + 1]
  <2>1. XCycle'
    BY <1>1, <1>2, <1>3 DEF XInv, XCycle, Deposited
  <2> QED
    BY <1>1, <2>1, AgentQuiet
<1>4. CASE X!Matching(u) # {} /\ cycle' = more
  <2>1. m.trade \in trades /\ u.key = X!Deposit(m.trade.id) /\ m.amount = u.amount
    BY <1>4 DEF X!Matching
  <2>2. m.trade \in asked /\ Deposited(m.trade, m.amount)
    <3>1. m.trade \in asked /\ cycle.chain = X!Other(m.trade.sell)
      BY <1>2, <2>1 DEF XInv, XAsked, XKeys
    <3> QED
      BY <1>2, <2>1, <3>1 DEF Deposited, DepositedIn
  <2> HIDE DEF m, u
  <2>3. /\ Lists(Append(cycle.matched, m)) /\ Len(Append(cycle.matched, m)) = Len(cycle.matched) + 1
        /\ \A i \in 1..Len(cycle.matched) : Append(cycle.matched, m)[i] = cycle.matched[i]
        /\ Append(cycle.matched, m)[Len(cycle.matched) + 1] = m /\ Len(cycle.matched) \in Nat
    BY ListsAppend, ListsAre DEF XInv, XCycle
  <2>4. /\ cycle'.matched = Append(cycle.matched, m) /\ cycle'.next = cycle.next + 1
        /\ cycle'.pc = "fetch" /\ cycle'.chain = cycle.chain /\ cycle'.end = cycle.end
        /\ cycle'.todo = cycle.todo
        /\ cycle' = [pc |-> cycle'.pc, todo |-> cycle'.todo, chain |-> cycle'.chain,
                     next |-> cycle'.next, end |-> cycle'.end, matched |-> cycle'.matched]
    BY <1>1, <1>4 DEF XInv, XCycle
  <2>5. ASSUME NEW i \in 1..Len(cycle'.matched)
        PROVE  cycle'.matched[i].trade \in asked
               /\ Deposited(cycle'.matched[i].trade, cycle'.matched[i].amount)
    <3>1. i \in 1..Len(cycle.matched) \/ i = Len(cycle.matched) + 1
      BY <2>3, <2>4
    <3> QED
      BY <2>2, <2>3, <2>4, <3>1 DEF XInv, XCycle
  <2>8. /\ last' \in [Markets -> Nat] /\ cycle'.todo \subseteq Markets
        /\ cycle'.chain \in Markets /\ cycle'.next \in Nat \ {0} /\ cycle'.end \in Nat
        /\ cycle'.end <= Len(utxos'[cycle'.chain]) + 1
    BY <1>1, <1>2, <2>4 DEF XInv, XCycle
  <2> HIDE DEF more
  <2>6. XCycle'
    BY <1>1, <2>3, <2>4, <2>5, <2>8 DEF XCycle, Deposited
  <2> QED
    BY <1>1, <2>6, AgentQuiet
<1> QED
  BY <1>1, <1>3, <1>4

\* One match is dealt with.
LEMMA MatchGone ==
    ASSUME XInv, cycle.matched # <<>>, cycle' = [cycle EXCEPT !.matched = Tail(cycle.matched)],
           UNCHANGED <<asked, last>>, cycle.pc = "execute",
           \A t \in asked : \A amount : Deposited(t, amount) => DepositedIn(utxos', t, amount)
    PROVE  XCycle'
<1>1. /\ cycle'.matched = Tail(cycle.matched) /\ cycle'.pc = "execute"
      /\ cycle'.todo = cycle.todo
      /\ cycle' = [pc |-> cycle'.pc, todo |-> cycle'.todo, chain |-> cycle'.chain,
                   next |-> cycle'.next, end |-> cycle'.end, matched |-> cycle'.matched]
  BY DEF XInv, XCycle
<1>2. /\ Lists(Tail(cycle.matched)) /\ Len(Tail(cycle.matched)) = Len(cycle.matched) - 1
      /\ \A i \in 1..Len(Tail(cycle.matched)) : Tail(cycle.matched)[i] = cycle.matched[i + 1]
      /\ Len(cycle.matched) \in Nat
  BY ListsAre DEF XInv, XCycle
<1>3. last' \in [Markets -> Nat] /\ cycle.todo \subseteq Markets
  BY DEF XInv, XCycle
<1>4. ASSUME NEW i \in 1..Len(cycle'.matched)
      PROVE  cycle'.matched[i].trade \in asked'
             /\ DepositedIn(utxos', cycle'.matched[i].trade, cycle'.matched[i].amount)
  <2>1. i + 1 \in 1..Len(cycle.matched) /\ cycle'.matched[i] = cycle.matched[i + 1]
    BY <1>1, <1>2
  <2>2. cycle.matched[i + 1].trade \in asked
        /\ Deposited(cycle.matched[i + 1].trade, cycle.matched[i + 1].amount)
    BY <2>1 DEF XInv, XCycle
  <2> DEFINE t == cycle.matched[i + 1].trade
             a == cycle.matched[i + 1].amount
  <2>4. t \in asked /\ Deposited(t, a)
    BY <2>2
  <2> QED
    BY <2>1, <2>2, <2>4
<1> QED
  BY <1>1, <1>2, <1>3, <1>4 DEF XCycle, Deposited

LEMMA AgentSkips == ASSUME XInv, X!SkipGone PROVE XInv'
<1>1. /\ UNCHANGED <<utxos, asked, issued, last>> /\ trades' \subseteq trades
      /\ cycle.pc = "execute" /\ cycle.matched # <<>>
      /\ cycle' = [cycle EXCEPT !.matched = Tail(cycle.matched)]
  BY DEF X!SkipGone, X!Consumed, X!counters
<1>2. \A t, amount : Deposited(t, amount) => DepositedIn(utxos', t, amount)
  BY <1>1 DEF Deposited
<1>3. XCycle'
  BY <1>1, <1>2, MatchGone
<1> QED
  BY <1>1, <1>3, AgentQuiet

\* What it takes to keep the invariant when the chains grow.
Grown ==
    \A c \in Markets :
        /\ Len(utxos[c]) \in Nat /\ Len(utxos'[c]) \in Nat /\ Len(utxos[c]) <= Len(utxos'[c])
        /\ \A i \in 1..Len(utxos[c]) : /\ utxos'[c][i].key = utxos[c][i].key
                                       /\ utxos'[c][i].amount = utxos[c][i].amount

LEMMA DepositsStay ==
    ASSUME Grown, XAsked, NEW t \in asked, NEW amount, Deposited(t, amount)
    PROVE  DepositedIn(utxos', t, amount)
<1>1. X!Other(t.sell) \in Markets
  BY OtherMarket DEF XAsked
<1> DEFINE c == X!Other(t.sell)
<1>2. PICK j \in 1..Len(utxos[c]) : /\ utxos[c][j].key = X!Deposit(t.id)
                                    /\ utxos[c][j].amount = amount
  BY DEF Deposited, DepositedIn
<1>3. j \in 1..Len(utxos'[c]) /\ utxos'[c][j].key = X!Deposit(t.id) /\ utxos'[c][j].amount = amount
  <2> HIDE DEF c
  <2> QED
    BY <1>1, <1>2 DEF Grown, c
<1> QED
  BY <1>3 DEF DepositedIn

\* A block that only brings a deposit.
LEMMA AgentPaid == ASSUME XInv, X!Pay PROVE XInv'
<1>1. PICK t \in asked, amount \in Amounts :
          utxos' = [utxos EXCEPT ![X!Other(t.sell)] =
                      Append(utxos[X!Other(t.sell)],
                             [key |-> X!Deposit(t.id), amount |-> amount, spent |-> FALSE])]
  BY DEF X!Pay
<1> DEFINE d == X!Other(t.sell)
           u == [key |-> X!Deposit(t.id), amount |-> amount, spent |-> FALSE]
<1>2. UNCHANGED <<asked, issued, trades, last, cycle>>
  BY DEF X!Pay, X!agent
<1>3. d \in Markets /\ t.sell \in Markets /\ t.id \in 1..issued /\ issued \in Nat /\ d # t.sell
  BY OtherMarket DEF XInv, XAsked
<1> HIDE DEF d
<1>4. /\ utxos = [c \in Markets |-> utxos[c]] /\ utxos' = [c \in Markets |-> utxos'[c]]
      /\ utxos'[d] = Append(utxos[d], u)
      /\ \A c \in Markets : c # d => utxos'[c] = utxos[c]
  BY <1>1, <1>3 DEF XInv, XShape, d
<1> HIDE DEF u
<1>5. /\ Lists(utxos'[d]) /\ Len(utxos'[d]) = Len(utxos[d]) + 1 /\ Len(utxos[d]) \in Nat
      /\ \A i \in 1..Len(utxos[d]) : utxos'[d][i] = utxos[d][i]
      /\ utxos'[d][Len(utxos[d]) + 1] = u
  BY <1>3, <1>4, ListsAppend, ListsAre DEF XInv, XShape
<1>6. ASSUME NEW c \in Markets
      PROVE  /\ Lists(utxos'[c]) /\ Len(utxos[c]) \in Nat /\ Len(utxos'[c]) \in Nat
             /\ Len(utxos[c]) <= Len(utxos'[c])
             /\ \A i \in 1..Len(utxos[c]) : utxos'[c][i] = utxos[c][i]
             /\ \A i \in 1..Len(utxos'[c]) :
                    i \in 1..Len(utxos[c]) \/ (c = d /\ utxos'[c][i] = u)
  <2>1. CASE c = d
    BY <1>5, <2>1
  <2>2. CASE c # d
    <3>1. utxos'[c] = utxos[c] /\ Len(utxos[c]) \in Nat /\ Lists(utxos[c])
      BY <1>4, <2>2, ListsAre DEF XInv, XShape
    <3> QED
      BY <3>1
  <2> QED
    BY <2>1, <2>2
<1>7. IsUtxo(u) /\ u.key = X!Deposit(t.id)
  BY DEF IsUtxo, u
<1>8. Grown
  BY <1>6 DEF Grown
<1>9. XShape'
  BY <1>4, <1>6, <1>7 DEF XInv, XShape
<1>10. XAsked'
  BY <1>2 DEF XInv, XAsked
<1>11. XKeys'
  <2>1. \A n \in Nat : n > issued => u.key \notin {X!Deposit(n), X!Receive(n)}
    BY <1>3, <1>7 DEF X!Deposit, X!Receive
  <2>2. \A q \in asked : u.key = X!Deposit(q.id) => d = X!Other(q.sell)
    BY <1>7 DEF XInv, XAsked, X!Deposit, d
  <2> QED
    BY <1>2, <1>6, <2>1, <2>2 DEF XInv, XKeys
<1>12. \A q \in asked : \A a : Deposited(q, a) => DepositedIn(utxos', q, a)
  BY <1>8, DepositsStay DEF XInv
<1>13. XCycle'
  <2>1. \A i \in 1..Len(cycle.matched) :
            /\ cycle.matched[i].trade \in asked
            /\ DepositedIn(utxos', cycle.matched[i].trade, cycle.matched[i].amount)
    BY <1>12 DEF XInv, XCycle
  <2>2. cycle.pc = "fetch" => cycle.end <= Len(utxos'[cycle.chain]) + 1
    BY <1>6 DEF XInv, XCycle
  <2>3. cycle'.matched = cycle.matched /\ asked' = asked
    BY <1>2
  <2> QED
    BY <1>2, <2>1, <2>2, <2>3 DEF XInv, XCycle, Deposited
<1>14. \A n : u.key # X!Receive(n)
  BY <1>7 DEF X!Deposit, X!Receive
<1>15. ASSUME NEW q \in asked, NEW i \in 1..Len(utxos'[q.sell]),
              utxos'[q.sell][i].key = X!Receive(q.id)
       PROVE  i \in 1..Len(utxos[q.sell]) /\ utxos[q.sell][i].key = X!Receive(q.id)
              /\ utxos'[q.sell][i] = utxos[q.sell][i]
  BY <1>6, <1>14, <1>15 DEF XInv, XAsked
<1>16. XPaid'
  <2>1. \A q \in trades : \A i \in 1..Len(utxos'[q.sell]) : utxos'[q.sell][i].key # X!Receive(q.id)
    BY <1>15 DEF XInv, XAsked, XPaid
  <2>2. \A q \in asked : \A i, j \in 1..Len(utxos'[q.sell]) :
          utxos'[q.sell][i].key = X!Receive(q.id) /\ utxos'[q.sell][j].key = X!Receive(q.id) => i = j
    BY <1>15 DEF XInv, XPaid
  <2>3. ASSUME NEW q \in asked, NEW i \in 1..Len(utxos'[q.sell]),
               utxos'[q.sell][i].key = X!Receive(q.id)
        PROVE  \E a : DepositedIn(utxos', q, a) /\ utxos'[q.sell][i].amount = X!Sell(a)
    <3>1. PICK a : Deposited(q, a) /\ utxos[q.sell][i].amount = X!Sell(a)
      BY <1>15, <2>3 DEF XInv, XPaid
    <3> QED
      BY <1>12, <1>15, <2>3, <3>1
  <2> QED
    BY <1>2, <2>1, <2>2, <2>3 DEF XPaid, Deposited
<1> QED
  BY <1>9, <1>10, <1>11, <1>13, <1>16 DEF XInv

LEMMA AgentAsked == ASSUME XInv, X!request_trade PROVE XInv'
<1>1. PICK c \in Markets, amount \in Amounts :
          LET t == [id |-> issued + 1, sell |-> c, amount |-> amount, expires |-> clock + Ttl] IN
          trades' = trades \cup {t} /\ asked' = asked \cup {t}
  BY DEF X!request_trade
<1> DEFINE t == [id |-> issued + 1, sell |-> c, amount |-> amount, expires |-> clock + Ttl]
<1>2. trades' = trades \cup {t} /\ asked' = asked \cup {t}
      /\ issued' = issued + 1 /\ UNCHANGED <<utxos, last, cycle>>
  BY <1>1 DEF X!request_trade
<1>3. t.id = issued + 1 /\ t.sell = c /\ issued \in Nat
  BY DEF XInv, XAsked
<1> HIDE DEF t
<1>4. XShape'
  BY <1>2 DEF XInv, XShape
<1>5. XAsked'
  BY <1>2, <1>3 DEF XInv, XAsked
<1>6. \A d \in Markets : \A i \in 1..Len(utxos[d]) :
          utxos[d][i].key \notin {X!Deposit(t.id), X!Receive(t.id)}
  BY <1>3 DEF XInv, XKeys
<1>7. XKeys'
  BY <1>2, <1>3, <1>6 DEF XInv, XKeys
<1>8. XCycle'
  BY <1>2 DEF XInv, XCycle, Deposited
<1>9. XPaid'
  <2>1. /\ t.sell = c /\ c \in Markets
        /\ \A i \in 1..Len(utxos[c]) : utxos[c][i].key # X!Receive(t.id)
    BY <1>3, <1>6
  <2>2. \A q, a : DepositedIn(utxos', q, a) <=> DepositedIn(utxos, q, a)
    BY <1>2
  <2>3. \A q \in trades' : \A i \in 1..Len(utxos'[q.sell]) : utxos'[q.sell][i].key # X!Receive(q.id)
    BY <1>2, <2>1 DEF XInv, XPaid
  <2>4. ASSUME NEW q \in asked', NEW i \in 1..Len(utxos'[q.sell]), utxos'[q.sell][i].key = X!Receive(q.id)
        PROVE  q \in asked
    BY <1>2, <2>1, <2>4
  <2>5. \A q \in asked' : \A i, j \in 1..Len(utxos'[q.sell]) :
            utxos'[q.sell][i].key = X!Receive(q.id) /\ utxos'[q.sell][j].key = X!Receive(q.id) => i = j
    BY <1>2, <2>4 DEF XInv, XPaid
  <2>6. \A q \in asked' : \A i \in 1..Len(utxos'[q.sell]) : utxos'[q.sell][i].key = X!Receive(q.id) =>
            \E x : DepositedIn(utxos', q, x) /\ utxos'[q.sell][i].amount = X!Sell(x)
    BY <1>2, <2>2, <2>4 DEF XInv, XPaid, Deposited
  <2> QED
    BY <2>3, <2>5, <2>6 DEF XPaid, Deposited
<1> QED
  BY <1>4, <1>5, <1>7, <1>8, <1>9 DEF XInv

\* The payout is one block with one receiver, and the trade is no longer pending.
LEMMA AgentExecutes == ASSUME XInv, X!execute_trade PROVE XInv'
<1> DEFINE m == Head(cycle.matched)
           t == m.trade
           c == t.sell
           g == Head(X!Held(c)).seq
           s == utxos[c]
           spent == [s[g] EXCEPT !.spent = TRUE]
           mid == [s EXCEPT ![g] = spent]
<1>1. /\ cycle.pc = "execute" /\ cycle.matched # <<>> /\ t \in trades
      /\ cycle' = [cycle EXCEPT !.matched = Tail(cycle.matched)] /\ trades' = trades \ {t}
      /\ UNCHANGED <<last, issued, asked>>
  BY DEF X!execute_trade, X!Consumed
<1>2. \/ UNCHANGED utxos
      \/ \E change : utxos' = [utxos EXCEPT ![c] =
            mid \o <<[key |-> X!Receive(t.id), amount |-> X!Sell(m.amount), spent |-> FALSE],
                     [key |-> X!Change(t.id), amount |-> change, spent |-> FALSE]>>]
  BY DEF X!execute_trade
<1>3. /\ m = cycle.matched[1] /\ t \in asked /\ Deposited(t, m.amount)
      /\ c \in Markets /\ t.id \in 1..issued /\ issued \in Nat
  <2>1. m = cycle.matched[1] /\ 1 \in 1..Len(cycle.matched)
    BY <1>1, ListsAre DEF XInv, XCycle
  <2>2. t \in asked /\ Deposited(t, m.amount)
    BY <2>1 DEF XInv, XCycle
  <2> QED
    BY <2>1, <2>2 DEF XInv, XAsked
<1> HIDE DEF m, t, c
<1>4. CASE UNCHANGED utxos
  <2>1. \A q \in asked : \A a : Deposited(q, a) => DepositedIn(utxos', q, a)
    BY <1>4 DEF Deposited
  <2>2. XCycle'
    BY <1>1, <2>1, MatchGone
  <2> QED
    BY <1>1, <1>4, <2>2, AgentQuiet
<1>5. CASE \E change : utxos' = [utxos EXCEPT ![c] =
            mid \o <<[key |-> X!Receive(t.id), amount |-> X!Sell(m.amount), spent |-> FALSE],
                     [key |-> X!Change(t.id), amount |-> change, spent |-> FALSE]>>]
  <2>1. PICK change : utxos' = [utxos EXCEPT ![c] =
            mid \o <<[key |-> X!Receive(t.id), amount |-> X!Sell(m.amount), spent |-> FALSE],
                     [key |-> X!Change(t.id), amount |-> change, spent |-> FALSE]>>]
    BY <1>5
  <2> DEFINE a == [key |-> X!Receive(t.id), amount |-> X!Sell(m.amount), spent |-> FALSE]
             b == [key |-> X!Change(t.id), amount |-> change, spent |-> FALSE]
             n == Len(s)
  <2>2. /\ Lists(s) /\ n \in Nat /\ \A i \in 1..n : IsUtxo(s[i])
        /\ utxos = [d \in Markets |-> utxos[d]]
    BY <1>3, ListsAre DEF XInv, XShape
  <2>3. Lists(mid) /\ Len(mid) = n /\ \A i \in 1..n : (i = g => mid[i] = spent) /\ (i # g => mid[i] = s[i])
    <3>1. n = Len(s) /\ mid = Replaced(s, g, spent)
      BY DEF Replaced
    <3> HIDE DEF mid, n, s, spent, g
    <3>2. Lists(s)
      BY <2>2
    <3>3. /\ Lists(mid) /\ Len(mid) = Len(s)
          /\ g \in 1..Len(s) => mid[g] = spent
          /\ \A i \in 1..Len(s) : i # g => mid[i] = s[i]
      BY <3>1, <3>2, ListsExcept
    <3> QED
      BY <3>1, <3>3
  <2>4. \A i \in 1..n : IsUtxo(mid[i]) /\ mid[i].key = s[i].key /\ mid[i].amount = s[i].amount
    <3> SUFFICES ASSUME NEW i \in 1..n
                 PROVE  IsUtxo(mid[i]) /\ mid[i].key = s[i].key /\ mid[i].amount = s[i].amount
      OBVIOUS
    <3>1. IsUtxo(s[i])
      BY <2>2
    <3>2. CASE i = g
      <4>1. mid[i] = [s[i] EXCEPT !.spent = TRUE]
        BY <2>3, <3>2
      <4> HIDE DEF mid, s
      <4> QED
        BY <3>1, <4>1 DEF IsUtxo
    <3>3. CASE i # g
      BY <2>3, <3>1, <3>3
    <3> QED
      BY <3>2, <3>3
  <2>5. utxos' = [utxos EXCEPT ![c] = mid \o <<a, b>>]
    BY <2>1
  <2>6. /\ IsUtxo(a) /\ IsUtxo(b) /\ a.key = X!Receive(t.id) /\ a.amount = X!Sell(m.amount)
        /\ b.key = X!Change(t.id)
    BY DEF IsUtxo
  <2> HIDE DEF a, b, mid, n, s
  <2>7. /\ Lists(mid \o <<a, b>>) /\ Len(mid \o <<a, b>>) = n + 2
        /\ \A i \in 1..n : (mid \o <<a, b>>)[i] = mid[i]
        /\ (mid \o <<a, b>>)[n + 1] = a /\ (mid \o <<a, b>>)[n + 2] = b
    BY <2>3, ListsConcat
  <2>8. /\ utxos' = [d \in Markets |-> utxos'[d]] /\ utxos'[c] = mid \o <<a, b>>
        /\ \A d \in Markets : d # c => utxos'[d] = utxos[d]
        /\ utxos[c] = s
    BY <1>3, <2>2, <2>5 DEF s
  <2>9. ASSUME NEW d \in Markets
        PROVE  /\ Lists(utxos'[d]) /\ Len(utxos[d]) \in Nat /\ Len(utxos'[d]) \in Nat
               /\ Len(utxos[d]) <= Len(utxos'[d])
               /\ \A i \in 1..Len(utxos[d]) : /\ utxos'[d][i].key = utxos[d][i].key
                                              /\ utxos'[d][i].amount = utxos[d][i].amount
                                              /\ IsUtxo(utxos'[d][i])
               /\ \A i \in 1..Len(utxos'[d]) :
                      \/ i \in 1..Len(utxos[d])
                      \/ (d = c /\ i = n + 1 /\ utxos'[d][i] = a)
                      \/ (d = c /\ i = n + 2 /\ utxos'[d][i] = b)
    <3>1. CASE d = c
      <4>1. n = Len(utxos[d]) /\ utxos[d] = s /\ utxos'[d] = mid \o <<a, b>>
        BY <2>8, <3>1 DEF n
      <4> HIDE DEF n
      <4> QED
        BY <2>2, <2>4, <2>7, <3>1, <4>1
    <3>2. CASE d # c
      <4>1. utxos'[d] = utxos[d] /\ Lists(utxos[d]) /\ Len(utxos[d]) \in Nat
            /\ \A i \in 1..Len(utxos[d]) : IsUtxo(utxos[d][i])
        BY <2>8, <3>2, ListsAre DEF XInv, XShape
      <4> QED
        BY <4>1
    <3> QED
      BY <3>1, <3>2
  <2>10. Grown
    BY <2>9 DEF Grown
  <2>11. XShape'
    BY <2>6, <2>8, <2>9 DEF XShape
  <2>12. XAsked'
    BY <1>1 DEF XInv, XAsked
  <2>13. XKeys'
    <3>1. /\ \A k \in Nat : k > issued => a.key \notin {X!Deposit(k), X!Receive(k)}
          /\ \A k : a.key # X!Deposit(k)
      BY <1>3, <2>6 DEF X!Deposit, X!Receive
    <3>2. \A k : b.key \notin {X!Deposit(k), X!Receive(k)}
      BY <2>6 DEF X!Deposit, X!Receive, X!Change
    <3> QED
      BY <1>1, <2>9, <3>1, <3>2 DEF XInv, XKeys
  <2>14. \A q \in asked : \A x : Deposited(q, x) => DepositedIn(utxos', q, x)
    BY <2>10, DepositsStay DEF XInv
  <2>15. XCycle'
    BY <1>1, <2>14, MatchGone
  <2>16. ASSUME NEW q \in asked, NEW i \in 1..Len(utxos'[q.sell]),
                utxos'[q.sell][i].key = X!Receive(q.id)
         PROVE  \/ i \in 1..Len(utxos[q.sell]) /\ utxos[q.sell][i].key = X!Receive(q.id)
                   /\ utxos'[q.sell][i].amount = utxos[q.sell][i].amount
                \/ q = t /\ i = n + 1 /\ utxos'[q.sell][i] = a
    <3>1. q.sell \in Markets
      BY DEF XInv, XAsked
    <3>2. CASE i \in 1..Len(utxos[q.sell])
      BY <2>9, <2>16, <3>1, <3>2
    <3>3. CASE i = n + 1 /\ utxos'[q.sell][i] = a
      <4>1. q.id = t.id
        BY <2>6, <2>16, <3>3 DEF X!Receive
      <4> QED
        BY <1>3, <3>3, <4>1 DEF XInv, XAsked
    <3>4. CASE i = n + 2 /\ utxos'[q.sell][i] = b
      BY <2>6, <2>16, <3>4 DEF X!Receive, X!Change
    <3> QED
      BY <2>9, <3>1, <3>2, <3>3, <3>4
  <2>17. \A i \in 1..Len(utxos[c]) : utxos[c][i].key # X!Receive(t.id)
    BY <1>1 DEF XInv, XPaid, c
  <2>18. \A q \in trades' : \A i \in 1..Len(utxos'[q.sell]) : utxos'[q.sell][i].key # X!Receive(q.id)
    BY <1>1, <2>16 DEF XInv, XAsked, XPaid
  <2>19. ASSUME NEW q \in asked, NEW i \in 1..Len(utxos'[q.sell]), NEW j \in 1..Len(utxos'[q.sell]),
                utxos'[q.sell][i].key = X!Receive(q.id), utxos'[q.sell][j].key = X!Receive(q.id)
         PROVE  i = j
    <3>1. CASE q = t
      <4>1. i = n + 1 /\ j = n + 1
        BY <2>16, <2>17, <2>19, <3>1 DEF c
      <4> QED
        BY <4>1
    <3>2. CASE q # t
      BY <2>16, <2>19, <3>2 DEF XInv, XPaid
    <3> QED
      BY <3>1, <3>2
  <2>20. ASSUME NEW q \in asked, NEW i \in 1..Len(utxos'[q.sell]),
                utxos'[q.sell][i].key = X!Receive(q.id)
         PROVE  \E x : DepositedIn(utxos', q, x) /\ utxos'[q.sell][i].amount = X!Sell(x)
    <3>1. CASE i \in 1..Len(utxos[q.sell]) /\ utxos[q.sell][i].key = X!Receive(q.id)
               /\ utxos'[q.sell][i].amount = utxos[q.sell][i].amount
      <4>1. PICK x : Deposited(q, x) /\ utxos[q.sell][i].amount = X!Sell(x)
        BY <3>1 DEF XInv, XPaid
      <4> QED
        BY <2>14, <3>1, <4>1
    <3>2. CASE q = t /\ utxos'[q.sell][i] = a
      BY <1>3, <2>6, <2>14, <3>2
    <3> QED
      BY <2>16, <2>20, <3>1, <3>2
  <2>21. XPaid'
    BY <1>1, <2>18, <2>19, <2>20 DEF XPaid, Deposited
  <2> QED
    BY <2>11, <2>12, <2>13, <2>15, <2>21 DEF XInv
<1> QED
  BY <1>2, <1>4, <1>5

LEMMA AgentStep == XInv /\ [X!Next]_X!vars => XInv'
<1> SUFFICES ASSUME XInv, [X!Next]_X!vars PROVE XInv'
  OBVIOUS
<1>1. CASE X!Tick \/ X!StreamLost \/ UNCHANGED X!vars
  <2>1. UNCHANGED <<utxos, asked, issued, trades, last, cycle>>
    BY <1>1 DEF X!Tick, X!StreamLost, X!vars, X!agent, X!counters
  <2>2. XCycle'
    BY <2>1 DEF XInv, XCycle, Deposited
  <2> QED
    BY <2>1, <2>2, AgentQuiet
<1> QED
  BY <1>1, AgentAsked, AgentPaid, AgentChecks, AgentPolls, AgentFetches, AgentFetched, AgentSkips,
     AgentExecutes, AgentDone, AgentRestarts DEF X!Next, X!Check

LEMMA PaidFollows == XInv => X!PaidOnce
<1> SUFFICES ASSUME XInv, NEW t \in asked
             PROVE  /\ X!Cardinality(X!Payouts(t)) <= 1
                    /\ \A i \in X!Payouts(t) : \E j \in X!DepositsOf(t) :
                           utxos[t.sell][i].amount = X!Sell(utxos[X!Other(t.sell)][j].amount)
  BY DEF X!PaidOnce
<1>1. t.sell \in Markets /\ X!Other(t.sell) \in Markets
  BY OtherMarket DEF XInv, XAsked
<1>2. /\ DOMAIN utxos[t.sell] = 1..Len(utxos[t.sell])
      /\ DOMAIN utxos[X!Other(t.sell)] = 1..Len(utxos[X!Other(t.sell)])
  BY <1>1, ListsAre DEF XInv, XShape
<1>3. \A i, j \in X!Payouts(t) : i = j
  BY <1>2 DEF XInv, XPaid, X!Payouts
<1>4. Cardinality(X!Payouts(t)) <= 1
  <2> DEFINE P == X!Payouts(t)
  <2> HIDE DEF P
  <2>1. CASE P = {}
    BY <2>1, FS_EmptySet DEF P
  <2>2. CASE P # {}
    <3>1. PICK i : i \in P
      BY <2>2
    <3>2. P = {i}
      BY <1>3, <3>1 DEF P
    <3>3. Cardinality({i}) = 1
      BY FS_Singleton
    <3>4. Cardinality(P) = 1
      BY <3>2, <3>3
    <3> QED
      BY <3>4 DEF P
  <2> QED
    BY <2>1, <2>2
<1>5. ASSUME NEW i \in X!Payouts(t)
      PROVE  \E j \in X!DepositsOf(t) :
                 utxos[t.sell][i].amount = X!Sell(utxos[X!Other(t.sell)][j].amount)
  <2>1. PICK amount : Deposited(t, amount) /\ utxos[t.sell][i].amount = X!Sell(amount)
    BY <1>2 DEF XInv, XPaid, X!Payouts
  <2> QED
    BY <1>2, <2>1 DEF Deposited, DepositedIn, X!DepositsOf
<1> QED
  BY <1>4, <1>5, SameCardinality

\* Whatever is deposited, lost or restarted, a trade is paid out once at most.
THEOREM AgentPaysOnce ==
    X!Init /\ [][X!Next]_X!vars => []X!PaidOnce
BY AgentInit, AgentStep, PaidFollows, PTL

\* The exchange of the run as well.
THEOREM ServicesPayOnce == MCSpec => []PaidOnce
<1>1. MCInit => XInv
  BY AgentInit DEF MCInit
<1>2. [MCNext]_<<part, vars, freeVars, exchangeVars, validatorVars, blobVars>>
        => [X!Next]_X!vars
  BY DEF MCNext, OwnerKeysStep, FreeKeysStep, ExchangeStep, ValidatorStep, BlobStep, exchangeVars,
         X!vars, X!agent, X!counters
<1>3. XInv => PaidOnce
  BY PaidFollows DEF PaidOnce
<1> QED
  BY <1>1, <1>2, <1>3, AgentStep, PTL DEF MCSpec

-----------------------------------------------------------------------------
(* The blob store accounts for every file. *)

UShape ==
    /\ rows = [b \in Blobs |-> rows[b]]
    /\ file \in [Blobs -> {"none", "partial", "full"}]
    /\ temp \in [Blobs -> {"none", "partial", "full"}]
    /\ ticks \in 0..MaxTicks /\ pruning = {}
    /\ upload = [u \in Uploads |-> upload[u]]
    /\ \A u \in Uploads :
          /\ upload[u] = [chain |-> upload[u].chain, blob |-> upload[u].blob,
                          step |-> upload[u].step, on |-> upload[u].on]
          /\ upload[u].step \in {"idle", "look", "known", "reserve", "open", "write", "rename"}
          /\ upload[u].step # "idle" => upload[u].chain \in Tenants /\ upload[u].blob \in Blobs

\* What there is of a blob: some file of its own, or a temporary one.
OnDiskOf(t, f, b) == t[b] # "none" \/ f[b] # "none"
OnDisk(b) == OnDiskOf(temp, file, b)

\* A row is there before the file and as long as the file is; a request that has
\* its row is on its way to a file, and one whose look found the file still finds it.
\* What a request never does is give its row back.
UFiles ==
    /\ \A b \in Blobs : OnDisk(b) => rows[b] # NoRow
    /\ \A u \in Uploads :
          /\ upload[u].step \in {"open", "write", "rename"} => rows[upload[u].blob] # NoRow
          /\ upload[u].step \in {"write", "rename"} => OnDisk(upload[u].blob)
          /\ upload[u].step = "known" => file[upload[u].blob] # "none"

UQuota == \A c \in Tenants : IsFiniteSet(B!Owned(c)) /\ B!Usage(c) <= Quota

UInv == UShape /\ UFiles /\ UQuota

LEMMA StoreConstants ==
    /\ Quota \in Nat /\ MaxTicks \in Nat
    /\ \A b \in Blobs : Size[b] \in Nat
    /\ \A c \in Tenants, t \in 0..MaxTicks : [chain |-> c, at |-> t] # NoRow
BY PartsConstants DEF B!BlobConstants

LEMMA SizesSum ==
    ASSUME NEW S, IsFiniteSet(S)
    PROVE  B!SumFunction([b \in S |-> Size[b]]) = SumFunctionOnSet(Size, S)
<1> DEFINE f == [b \in S |-> Size[b]]
<1>1. B!SumFunctionOnSet(f, S) = SumFunctionOnSet(f, S)
  BY DEF B!SumFunctionOnSet, SumFunctionOnSet, B!FoldFunctionOnSet, FoldFunctionOnSet,
         B!MapThenFoldSet, MapThenFoldSet
<1>2. B!SumFunction(f) = B!SumFunctionOnSet(f, S)
  BY DEF B!SumFunction
<1>3. SumFunctionOnSet(f, S) = SumFunctionOnSet(Size, S)
  <2>1. \A x \in S : f[x] = Size[x]
    OBVIOUS
  <2> HIDE DEF f
  <2> QED
    BY <2>1, SumSame
<1> QED
  BY <1>1, <1>2, <1>3

LEMMA UsageIs ==
    ASSUME NEW c, IsFiniteSet(B!Owned(c))
    PROVE  B!Usage(c) = SumFunctionOnSet(Size, B!Owned(c))
BY SizesSum DEF B!Usage

LEMMA StoreInit == B!Init => UInv
<1> SUFFICES ASSUME B!Init PROVE UInv
  OBVIOUS
<1>1. UShape
  BY StoreConstants DEF B!Init, B!Idle, UShape
<1>2. UFiles
  BY DEF B!Init, B!Idle, UFiles, OnDisk, OnDiskOf
<1>3. ASSUME NEW c \in Tenants PROVE IsFiniteSet(B!Owned(c)) /\ B!Usage(c) <= Quota
  <2>1. B!Owned(c) = {}
    BY DEF B!Init, B!Owned
  <2>2. IsFiniteSet(B!Owned(c))
    BY <2>1, FS_EmptySet
  <2>3. SumFunctionOnSet(Size, {}) = 0
    BY FS_EmptySet, SumUnfolds
  <2> QED
    BY <2>1, <2>2, <2>3, UsageIs, StoreConstants
<1> QED
  BY <1>1, <1>2, <1>3 DEF UInv, UQuota

LEMMA QuotaQuiet == ASSUME UQuota, UNCHANGED rows PROVE UQuota'
BY DEF UQuota, B!Owned, B!Usage

Becomes(u, c, b, step, on) ==
    upload' = [upload EXCEPT ![u] = [chain |-> c, blob |-> b, step |-> step, on |-> on]]

\* Where no row and no file goes, requests may only move along.
LEMMA StoreQuiet ==
    ASSUME UInv, NEW u \in Uploads, UNCHANGED <<rows, file, temp, pruning, ticks>>,
           NEW c, NEW b, NEW step, NEW on, Becomes(u, c, b, step, on),
           \/ step = "idle"
           \/ /\ step \in {"look", "reserve", "known"} /\ c \in Tenants /\ b \in Blobs
              /\ step = "known" => file[b] # "none"
    PROVE  UInv'
<1>1. /\ upload' = [v \in Uploads |-> upload'[v]] /\ \A v \in Uploads : v # u => upload'[v] = upload[v]
      /\ upload'[u] = [chain |-> c, blob |-> b, step |-> step, on |-> on]
  BY DEF UInv, UShape, Becomes
<1>2. UShape'
  BY <1>1 DEF UInv, UShape
<1>3. UFiles'
  BY <1>1 DEF UInv, UFiles, OnDisk, OnDiskOf
<1> QED
  BY <1>2, <1>3, QuotaQuiet DEF UInv

LEMMA StorePosts == ASSUME UInv, NEW u \in Uploads, NEW c \in Tenants, NEW b \in Blobs, B!Post(u, c, b)
                    PROVE  UInv'
<1>1. Becomes(u, c, b, "look", "none") /\ UNCHANGED <<rows, file, temp, pruning, ticks>>
  BY DEF Becomes, B!Post, B!disk
<1> QED
  BY <1>1, StoreQuiet

LEMMA StoreLooks == ASSUME UInv, NEW u \in Uploads, B!Look(u) PROVE UInv'
<1> DEFINE c == upload[u].chain
           b == upload[u].blob
           next == IF file[b] # "none" THEN "known" ELSE "reserve"
           on == upload[u].on
<1>1. upload' = [upload EXCEPT ![u].step = next] /\ UNCHANGED <<rows, file, temp, pruning, ticks>>
      /\ upload[u].step = "look"
  BY DEF B!Look, B!Go, B!disk, B!world
<1>2. /\ c \in Tenants /\ b \in Blobs
      /\ [upload[u] EXCEPT !.step = next] = [chain |-> c, blob |-> b, step |-> next, on |-> on]
  BY <1>1 DEF UInv, UShape
<1>3. Becomes(u, c, b, next, on)
  BY <1>1, <1>2 DEF Becomes
<1>4. next \in {"reserve", "known"} /\ (next = "known" => file[b] # "none")
  OBVIOUS
<1> HIDE DEF c, b, next, on
<1> QED
  BY <1>1, <1>2, <1>3, <1>4, StoreQuiet

LEMMA StoreRefuses == ASSUME UInv, NEW u \in Uploads, B!Refuse(u) PROVE UInv'
<1>1. Becomes(u, NoRow, NoRow, "idle", "none") /\ UNCHANGED <<rows, file, temp, pruning, ticks>>
  BY DEF Becomes, B!Refuse, B!Done, B!Idle, B!disk, B!world
<1> QED
  BY <1>1, StoreQuiet

\* The file that the look found is still there, so its row is as well.
LEMMA StoreKnows == ASSUME UInv, NEW u \in Uploads, B!Known(u) PROVE UInv'
<1>1. rows[upload[u].blob] # NoRow
  BY DEF B!Known, UInv, UShape, UFiles, OnDisk, OnDiskOf
<1>2. Becomes(u, NoRow, NoRow, "idle", "none") /\ UNCHANGED <<rows, file, temp, pruning, ticks>>
  BY <1>1 DEF Becomes, B!Known, B!Done, B!Idle, B!disk, B!world
<1> QED
  BY <1>2, StoreQuiet

\* One more row for the owner, none more for the others.
LEMMA StoreReserves == ASSUME UInv, NEW u \in Uploads, B!Reserve(u) PROVE UInv'
<1> DEFINE b == upload[u].blob
           c == upload[u].chain
           new == [upload[u] EXCEPT !.step = "open"]
           fresh == [chain |-> c, at |-> ticks]
<1>1. /\ rows' = [rows EXCEPT ![b] = fresh] /\ upload' = [upload EXCEPT ![u] = new]
      /\ UNCHANGED <<file, temp, pruning, ticks>> /\ upload[u].step = "reserve"
      /\ B!Usage(c) + Size[b] <= Quota
  BY DEF B!Reserve, B!Go, B!disk, B!world, B!Fits, B!Row
<1>2. /\ b \in Blobs /\ c \in Tenants /\ fresh # NoRow
      /\ new = [chain |-> c, blob |-> b, step |-> "open", on |-> upload[u].on]
  BY <1>1, StoreConstants DEF UInv, UShape
<1> HIDE DEF b, c, new, fresh
<1>3. /\ rows' = [x \in Blobs |-> rows'[x]] /\ rows'[b] = fresh /\ fresh.chain = c
      /\ \A x \in Blobs : x # b => rows'[x] = rows[x]
  BY <1>1, <1>2 DEF UInv, UShape, fresh
<1>4. /\ upload' = [v \in Uploads |-> upload'[v]] /\ upload'[u] = new
      /\ \A v \in Uploads : v # u => upload'[v] = upload[v]
  BY <1>1 DEF UInv, UShape
<1>5. UShape'
  BY <1>1, <1>2, <1>3, <1>4 DEF UInv, UShape
<1>6. UFiles'
  <2>1. \A x \in Blobs : rows[x] # NoRow => rows'[x] # NoRow
    BY <1>2, <1>3
  <2>2. new.blob = b /\ new.step = "open" /\ rows'[b] # NoRow
    BY <1>2, <1>3
  <2> QED
    BY <1>1, <1>4, <2>1, <2>2 DEF UInv, UShape, UFiles, OnDisk, OnDiskOf
<1>7. ASSUME NEW d \in Tenants
      PROVE  IsFiniteSet(B!Owned(d)') /\ (B!Usage(d))' <= Quota
  <2> DEFINE S == B!Owned(d)
             T == B!Owned(d)'
  <2>1. /\ IsFiniteSet(S) /\ S \subseteq Blobs /\ T \subseteq Blobs
        /\ d = c => T = S \cup {b}
        /\ d # c => T = S \ {b}
    BY <1>2, <1>3 DEF UInv, UQuota, B!Owned
  <2>2. /\ \A x \in S \cup {b} : Size[x] \in Int /\ Size[x] \in Nat
        /\ SumFunctionOnSet(Size, S) <= Quota
        /\ d = c => SumFunctionOnSet(Size, S) + Size[b] <= Quota
    <3>1. B!Usage(d) = SumFunctionOnSet(Size, S) /\ B!Usage(d) <= Quota
      BY <2>1, UsageIs DEF UInv, UQuota
    <3> QED
      BY <1>1, <1>2, <2>1, <3>1, StoreConstants
  <2> HIDE DEF S, T
  <2>3. IsFiniteSet(T) /\ IsFiniteSet(S \cup {b})
    BY <2>1, FS_AddElement, FS_RemoveElement
  <2>4. SumFunctionOnSet(Size, T) <= Quota
    <3>1. CASE d = c /\ b \in S
      <4>1. T = S
        BY <2>1, <3>1
      <4> QED
        BY <2>2, <4>1
    <3>2. CASE d = c /\ b \notin S
      <4>1. T = S \cup {b} /\ T \ {b} = S /\ b \in T
        BY <2>1, <3>2
      <4>2. \A x \in T : Size[x] \in Int
        BY <2>2, <4>1
      <4>3. SumFunctionOnSet(Size, T) = Size[b] + SumFunctionOnSet(Size, T \ {b})
        BY <2>3, <4>1, <4>2, SumTakes
      <4>4. SumFunctionOnSet(Size, S) \in Int /\ Size[b] \in Int
        BY <2>1, <2>2, SumTyped
      <4>5. SumFunctionOnSet(Size, S) + Size[b] <= Quota
        BY <2>2, <3>2
      <4>6. SumFunctionOnSet(Size, T) = Size[b] + SumFunctionOnSet(Size, S)
        BY <4>1, <4>3
      <4> QED
        BY <4>4, <4>5, <4>6
    <3>3. CASE d # c /\ b \in S
      <4>0. \A x \in S : Size[x] \in Int
        BY <2>2
      <4>1. SumFunctionOnSet(Size, S) = Size[b] + SumFunctionOnSet(Size, S \ {b})
        BY <2>1, <3>3, <4>0, SumTakes
      <4>2. SumFunctionOnSet(Size, S \ {b}) \in Int
        BY <2>1, <4>0, SumTyped
      <4>3. T = S \ {b} /\ Size[b] \in Nat /\ Quota \in Nat
        BY <2>1, <2>2, <3>3, StoreConstants
      <4> QED
        BY <2>2, <4>1, <4>2, <4>3
    <3>4. CASE d # c /\ b \notin S
      <4>1. T = S
        BY <2>1, <3>4
      <4> QED
        BY <2>2, <4>1
    <3> QED
      BY <3>1, <3>2, <3>3, <3>4
  <2>5. (B!Usage(d))' = SumFunctionOnSet(Size, T)
    <3>1. (B!Usage(d))' = B!SumFunction([x \in T |-> Size[x]])
      BY DEF B!Usage, T
    <3> QED
      BY <2>3, <3>1, SizesSum
  <2> QED
    BY <2>3, <2>4, <2>5 DEF T
<1>8. UQuota'
  BY <1>7 DEF UQuota
<1> QED
  BY <1>5, <1>6, <1>8 DEF UInv

\* Files come, temporary files go, and the rows stay: what is on the disk of a
\* request in the middle of its work stays there.
LEMMA StoreWorks ==
    ASSUME UInv, UNCHANGED <<rows, pruning, ticks>>,
           file' \in [Blobs -> {"none", "partial", "full"}],
           temp' \in [Blobs -> {"none", "partial", "full"}],
           \A b \in Blobs : file[b] # "none" => file'[b] # "none",
           \A b \in Blobs : OnDiskOf(temp', file', b) => rows[b] # NoRow,
           upload' = [v \in Uploads |-> upload'[v]],
           \A v \in Uploads :
              /\ upload'[v] = [chain |-> upload'[v].chain, blob |-> upload'[v].blob,
                               step |-> upload'[v].step, on |-> upload'[v].on]
              /\ \/ upload'[v].step = "idle"
                 \/ /\ upload'[v].chain = upload[v].chain /\ upload'[v].blob = upload[v].blob
                    /\ \/ upload'[v].step = upload[v].step
                       \/ upload'[v].step \in {"write", "rename"} /\ upload[v].step \in {"open", "write"}
                    /\ upload'[v].step \in {"write", "rename"} => OnDiskOf(temp', file', upload'[v].blob)
    PROVE  UInv'
<1>1. UShape'
  BY DEF UInv, UShape
<1>2. \A b \in Blobs : OnDiskOf(temp', file', b) => rows'[b] # NoRow
  OBVIOUS
<1>3. ASSUME NEW v \in Uploads
      PROVE  /\ upload'[v].step \in {"open", "write", "rename"} => rows'[upload'[v].blob] # NoRow
             /\ upload'[v].step \in {"write", "rename"} => OnDiskOf(temp', file', upload'[v].blob)
             /\ upload'[v].step = "known" => file'[upload'[v].blob] # "none"
  <2>1. CASE upload'[v].step = "idle"
    BY <2>1
  <2>2. CASE /\ upload'[v].chain = upload[v].chain /\ upload'[v].blob = upload[v].blob
             /\ \/ upload'[v].step = upload[v].step
                \/ upload'[v].step \in {"write", "rename"} /\ upload[v].step \in {"open", "write"}
             /\ upload'[v].step \in {"write", "rename"} => OnDiskOf(temp', file', upload'[v].blob)
    <3>1. upload[v].step # "idle" => upload[v].blob \in Blobs
      BY DEF UInv, UShape
    <3> QED
      BY <2>2, <3>1 DEF UInv, UFiles
  <2> QED
    BY <2>1, <2>2
<1>4. UFiles'
  BY <1>2, <1>3 DEF UFiles, OnDisk
<1> QED
  BY <1>1, <1>4, QuotaQuiet DEF UInv

LEMMA StoreOpens == ASSUME UInv, NEW u \in Uploads, B!OpenTemp(u) PROVE UInv'
<1> DEFINE b == upload[u].blob
<1>1. /\ upload[u].step = "open" /\ temp' = [temp EXCEPT ![b] = "partial"]
      /\ upload' = [upload EXCEPT ![u].step = "write", ![u].on = "temp"]
      /\ UNCHANGED <<file, rows, pruning, ticks>>
  BY DEF B!OpenTemp, B!world
<1>2. b \in Blobs /\ rows[b] # NoRow
  BY <1>1 DEF UInv, UShape, UFiles
<1>3. /\ upload' = [v \in Uploads |-> upload'[v]]
      /\ upload'[u] = [chain |-> upload[u].chain, blob |-> b, step |-> "write", on |-> "temp"]
      /\ \A v \in Uploads : v # u => upload'[v] = upload[v]
  <2>1. /\ upload[u] = [chain |-> upload[u].chain, blob |-> upload[u].blob,
                        step |-> upload[u].step, on |-> upload[u].on]
        /\ upload = [v \in Uploads |-> upload[v]]
    BY DEF UInv, UShape
  <2> DEFINE q == [upload[u] EXCEPT !.step = "write"]
             r == [q EXCEPT !.on = "temp"]
  <2>2. r = [chain |-> upload[u].chain, blob |-> b, step |-> "write", on |-> "temp"]
    <3>1. q = [chain |-> upload[u].chain, blob |-> b, step |-> "write", on |-> upload[u].on]
      BY <2>1
    <3> HIDE DEF q, b
    <3> QED
      BY <3>1
  <2>3. upload' = [upload EXCEPT ![u] = r]
    BY <1>1, <2>1
  <2> HIDE DEF r, q
  <2> QED
    BY <2>1, <2>2, <2>3
<1>8. upload[u].step = "open"
  BY <1>1
<1> HIDE DEF b
<1>4. /\ file' \in [Blobs -> {"none", "partial", "full"}]
      /\ temp' \in [Blobs -> {"none", "partial", "full"}]
      /\ temp'[b] = "partial" /\ \A x \in Blobs : x # b => temp'[x] = temp[x]
  BY <1>1, <1>2 DEF UInv, UShape
<1>5. \A x \in Blobs : OnDiskOf(temp', file', x) => rows[x] # NoRow
  BY <1>1, <1>2, <1>4 DEF UInv, UFiles, OnDisk, OnDiskOf
<1>6. \A x \in Blobs : OnDisk(x) => OnDiskOf(temp', file', x)
  BY <1>1, <1>4 DEF OnDisk, OnDiskOf
<1>7. ASSUME NEW v \in Uploads
      PROVE  /\ upload'[v] = [chain |-> upload'[v].chain, blob |-> upload'[v].blob,
                              step |-> upload'[v].step, on |-> upload'[v].on]
             /\ \/ upload'[v].step = "idle"
                \/ /\ upload'[v].chain = upload[v].chain /\ upload'[v].blob = upload[v].blob
                   /\ \/ upload'[v].step = upload[v].step
                      \/ upload'[v].step \in {"write", "rename"} /\ upload[v].step \in {"open", "write"}
                   /\ upload'[v].step \in {"write", "rename"} => OnDiskOf(temp', file', upload'[v].blob)
  <2>1. CASE v = u
    <3>1. OnDiskOf(temp', file', b)
      BY <1>4 DEF OnDisk, OnDiskOf
    <3> QED
      BY <1>8, <1>3, <2>1, <3>1 DEF b
  <2>2. CASE v # u
    <3>1. /\ upload[v] = [chain |-> upload[v].chain, blob |-> upload[v].blob,
                          step |-> upload[v].step, on |-> upload[v].on]
          /\ upload[v].step \in {"write", "rename"} => OnDisk(upload[v].blob) /\ upload[v].blob \in Blobs
      BY DEF UInv, UShape, UFiles
    <3> QED
      BY <1>3, <1>6, <2>2, <3>1
  <2> QED
    BY <2>1, <2>2
<1> QED
  BY <1>1, <1>3, <1>4, <1>5, <1>7, StoreWorks

LEMMA StoreWrites == ASSUME UInv, NEW u \in Uploads, B!Write(u) PROVE UInv'
<1> DEFINE b == upload[u].blob
<1>1. /\ upload[u].step = "write"
      /\ temp' = IF upload[u].on = "temp" THEN [temp EXCEPT ![b] = "full"] ELSE temp
      /\ file' = IF upload[u].on = "file" THEN [file EXCEPT ![b] = "full"] ELSE file
      /\ upload' = [upload EXCEPT ![u].step = "rename"]
      /\ UNCHANGED <<rows, pruning, ticks>>
  BY DEF B!Write, B!Go, B!world
<1>2. b \in Blobs /\ rows[b] # NoRow /\ OnDisk(b)
  BY <1>1 DEF UInv, UShape, UFiles
<1>3. /\ upload' = [v \in Uploads |-> upload'[v]]
      /\ upload'[u] = [chain |-> upload[u].chain, blob |-> b, step |-> "rename", on |-> upload[u].on]
      /\ \A v \in Uploads : v # u => upload'[v] = upload[v]
  BY <1>1 DEF UInv, UShape
<1> HIDE DEF b
<1>4. /\ file' \in [Blobs -> {"none", "partial", "full"}]
      /\ temp' \in [Blobs -> {"none", "partial", "full"}]
      /\ temp'[b] \in {temp[b], "full"} /\ \A x \in Blobs : x # b => temp'[x] = temp[x]
      /\ file'[b] \in {file[b], "full"} /\ \A x \in Blobs : x # b => file'[x] = file[x]
  BY <1>1, <1>2 DEF UInv, UShape
<1>5. \A x \in Blobs : OnDiskOf(temp', file', x) => rows[x] # NoRow
  BY <1>2, <1>4 DEF UInv, UFiles, OnDisk, OnDiskOf
<1>6. \A x \in Blobs : (OnDisk(x) => OnDiskOf(temp', file', x)) /\ (file[x] # "none" => file'[x] # "none")
  BY <1>4 DEF OnDisk, OnDiskOf
<1>7. ASSUME NEW v \in Uploads
      PROVE  /\ upload'[v] = [chain |-> upload'[v].chain, blob |-> upload'[v].blob,
                              step |-> upload'[v].step, on |-> upload'[v].on]
             /\ \/ upload'[v].step = "idle"
                \/ /\ upload'[v].chain = upload[v].chain /\ upload'[v].blob = upload[v].blob
                   /\ \/ upload'[v].step = upload[v].step
                      \/ upload'[v].step \in {"write", "rename"} /\ upload[v].step \in {"open", "write"}
                   /\ upload'[v].step \in {"write", "rename"} => OnDiskOf(temp', file', upload'[v].blob)
  <2>1. CASE v = u
    <3>1. OnDiskOf(temp', file', b)
      BY <1>2, <1>6 DEF OnDisk
    <3> DEFINE x == upload'[v]
    <3>2. x = [chain |-> upload[u].chain, blob |-> b, step |-> "rename", on |-> upload[u].on]
      BY <1>3, <2>1
    <3> HIDE DEF x
    <3>3. /\ x.chain = upload[u].chain /\ x.blob = b /\ x.step = "rename" /\ x.on = upload[u].on
          /\ x = [chain |-> x.chain, blob |-> x.blob, step |-> x.step, on |-> x.on]
      BY <3>2
    <3>4. upload[v].chain = upload[u].chain /\ upload[v].blob = b /\ upload[v].step = "write"
      BY <1>1, <2>1 DEF b
    <3>5. /\ x = [chain |-> x.chain, blob |-> x.blob, step |-> x.step, on |-> x.on]
          /\ x.chain = upload[v].chain /\ x.blob = upload[v].blob
          /\ x.step \in {"write", "rename"} /\ upload[v].step \in {"open", "write"}
          /\ OnDiskOf(temp', file', x.blob)
      BY <3>1, <3>3, <3>4
    <3> QED
      BY <3>5 DEF x
  <2>2. CASE v # u
    <3>1. /\ upload[v] = [chain |-> upload[v].chain, blob |-> upload[v].blob,
                          step |-> upload[v].step, on |-> upload[v].on]
          /\ upload[v].step \in {"write", "rename"} => OnDisk(upload[v].blob) /\ upload[v].blob \in Blobs
      BY DEF UInv, UShape, UFiles
    <3> QED
      BY <1>3, <1>6, <2>2, <3>1
  <2> QED
    BY <2>1, <2>2
<1> QED
  BY <1>1, <1>3, <1>4, <1>5, <1>6, <1>7, StoreWorks

\* Moved changes under which name a request's file is open, and nothing else.
LEMMA MovedIs ==
    ASSUME UShape, NEW b, NEW from, NEW to
    PROVE  /\ B!Moved(b, from, to) = [v \in Uploads |-> B!Moved(b, from, to)[v]]
           /\ \A v \in Uploads :
                 /\ B!Moved(b, from, to)[v].step = upload[v].step
                 /\ B!Moved(b, from, to)[v].chain = upload[v].chain
                 /\ B!Moved(b, from, to)[v].blob = upload[v].blob
                 /\ B!Moved(b, from, to)[v] =
                       [chain |-> upload[v].chain, blob |-> upload[v].blob, step |-> upload[v].step,
                        on |-> B!Moved(b, from, to)[v].on]
<1> DEFINE m == B!Moved(b, from, to)
<1>1. m = [v \in Uploads |-> IF upload[v].blob = b /\ upload[v].on = from
                             THEN [upload[v] EXCEPT !.on = to] ELSE upload[v]]
  BY DEF B!Moved
<1> HIDE DEF m
<1>2. m = [v \in Uploads |-> m[v]]
  BY <1>1
<1>3. ASSUME NEW v \in Uploads
      PROVE  m[v] = [chain |-> upload[v].chain, blob |-> upload[v].blob, step |-> upload[v].step,
                     on |-> m[v].on]
  <2>1. upload[v] = [chain |-> upload[v].chain, blob |-> upload[v].blob,
                     step |-> upload[v].step, on |-> upload[v].on]
    BY DEF UShape
  <2>2. [upload[v] EXCEPT !.on = to] = [chain |-> upload[v].chain, blob |-> upload[v].blob,
                                        step |-> upload[v].step, on |-> to]
    BY <2>1
  <2>3. m[v] = upload[v] \/ m[v] = [upload[v] EXCEPT !.on = to]
    BY <1>1
  <2> QED
    BY <2>1, <2>2, <2>3
<1>4. \A v \in Uploads : m[v].step = upload[v].step /\ m[v].chain = upload[v].chain
                         /\ m[v].blob = upload[v].blob
  <2> SUFFICES ASSUME NEW v \in Uploads
               PROVE  m[v].step = upload[v].step /\ m[v].chain = upload[v].chain
                      /\ m[v].blob = upload[v].blob
    OBVIOUS
  <2> DEFINE on == m[v].on
  <2>1. m[v] = [chain |-> upload[v].chain, blob |-> upload[v].blob, step |-> upload[v].step,
                on |-> on]
    BY <1>3
  <2> HIDE DEF on
  <2> QED
    BY <2>1
<1> QED
  BY <1>2, <1>3, <1>4 DEF m

\* The temporary file takes the file's place; every request that shares it has a
\* file to go on with.
LEMMA StoreRenames == ASSUME UInv, NEW u \in Uploads, B!Rename(u) PROVE UInv'
<1> DEFINE b == upload[u].blob
           away == B!Moved(b, "file", "gone")
           moved == IF file[b] = "none" THEN B!Moved(b, "temp", "file")
                    ELSE [v \in Uploads |-> IF away[v].blob = b /\ away[v].on = "temp"
                                            THEN [away[v] EXCEPT !.on = "file"] ELSE away[v]]
<1>1. /\ upload[u].step = "rename" /\ temp[b] # "none"
      /\ file' = [file EXCEPT ![b] = temp[b]] /\ temp' = [temp EXCEPT ![b] = "none"]
      /\ upload' = [moved EXCEPT ![u] = B!Idle]
      /\ UNCHANGED <<rows, pruning, ticks>>
  BY DEF B!Rename, B!world
<1>2. b \in Blobs /\ rows[b] # NoRow
  BY <1>1 DEF UInv, UShape, UFiles
<1>3. moved = [v \in Uploads |-> moved[v]]
      /\ \A v \in Uploads :
            /\ moved[v] = [chain |-> upload[v].chain, blob |-> upload[v].blob,
                           step |-> upload[v].step, on |-> moved[v].on]
  <2>1. CASE file[b] = "none"
    <3>1. moved = B!Moved(b, "temp", "file")
      BY <2>1
    <3> HIDE DEF moved
    <3> QED
      BY <3>1, MovedIs DEF UInv
  <2>2. CASE file[b] # "none"
    <3>1. moved = [v \in Uploads |-> IF away[v].blob = b /\ away[v].on = "temp"
                                     THEN [away[v] EXCEPT !.on = "file"] ELSE away[v]]
      BY <2>2
    <3> HIDE DEF moved
    <3>2. moved = [v \in Uploads |-> moved[v]]
      BY <3>1
    <3>3. ASSUME NEW v \in Uploads
          PROVE  moved[v] = [chain |-> upload[v].chain, blob |-> upload[v].blob,
                             step |-> upload[v].step, on |-> moved[v].on]
      <4>1. away[v] = [chain |-> upload[v].chain, blob |-> upload[v].blob, step |-> upload[v].step,
                       on |-> away[v].on]
        BY MovedIs DEF UInv
      <4> HIDE DEF away
      <4>2. [away[v] EXCEPT !.on = "file"] = [chain |-> upload[v].chain, blob |-> upload[v].blob,
                                              step |-> upload[v].step, on |-> "file"]
        BY <4>1
      <4>3. moved[v] = away[v] \/ moved[v] = [away[v] EXCEPT !.on = "file"]
        BY <3>1
      <4> QED
        BY <4>1, <4>2, <4>3
    <3> QED
      BY <3>2, <3>3
  <2> QED
    BY <2>1, <2>2
<1> HIDE DEF b, moved, away
<1>4. /\ upload' = [v \in Uploads |-> upload'[v]]
      /\ upload'[u] = B!Idle
      /\ \A v \in Uploads : v # u => upload'[v] = moved[v]
  BY <1>1, <1>3
<1>5. /\ file' \in [Blobs -> {"none", "partial", "full"}]
      /\ temp' \in [Blobs -> {"none", "partial", "full"}]
      /\ file'[b] # "none" /\ \A x \in Blobs : x # b => file'[x] = file[x] /\ temp'[x] = temp[x]
  BY <1>1, <1>2 DEF UInv, UShape
<1>6. /\ \A x \in Blobs : file[x] # "none" => file'[x] # "none"
      /\ \A x \in Blobs : OnDiskOf(temp', file', x) => rows[x] # NoRow
      /\ \A x \in Blobs : OnDisk(x) => OnDiskOf(temp', file', x)
  BY <1>2, <1>5 DEF UInv, UFiles, OnDisk, OnDiskOf
<1>7. ASSUME NEW v \in Uploads
      PROVE  /\ upload'[v] = [chain |-> upload'[v].chain, blob |-> upload'[v].blob,
                              step |-> upload'[v].step, on |-> upload'[v].on]
             /\ \/ upload'[v].step = "idle"
                \/ /\ upload'[v].chain = upload[v].chain /\ upload'[v].blob = upload[v].blob
                   /\ \/ upload'[v].step = upload[v].step
                      \/ upload'[v].step \in {"write", "rename"} /\ upload[v].step \in {"open", "write"}
                   /\ upload'[v].step \in {"write", "rename"} => OnDiskOf(temp', file', upload'[v].blob)
  <2>1. CASE v = u
    BY <1>4, <2>1 DEF B!Idle
  <2>2. CASE v # u
    <3>1. upload'[v] = [chain |-> upload[v].chain, blob |-> upload[v].blob,
                        step |-> upload[v].step, on |-> upload'[v].on]
      BY <1>3, <1>4, <2>2
    <3>2. upload[v].step \in {"write", "rename"} => OnDisk(upload[v].blob) /\ upload[v].blob \in Blobs
      BY DEF UInv, UShape, UFiles
    <3>3. /\ upload'[v].chain = upload[v].chain /\ upload'[v].blob = upload[v].blob
          /\ upload'[v].step = upload[v].step
      BY <3>1
    <3> QED
      BY <1>6, <3>1, <3>2, <3>3
  <2> QED
    BY <2>1, <2>2
<1> QED
  BY <1>1, <1>4, <1>5, <1>6, <1>7, StoreWorks

\* The request that was overtaken only drops the temporary name.
LEMMA StoreOvertaken == ASSUME UInv, NEW u \in Uploads, B!Overtaken(u) PROVE UInv'
<1> DEFINE b == upload[u].blob
           moved == B!Moved(b, "temp", "gone")
<1>1. /\ upload[u].step = "rename" /\ file[b] # "none" /\ temp[b] = "none"
      /\ temp' = [temp EXCEPT ![b] = "none"]
      /\ upload' = [moved EXCEPT ![u] = B!Idle]
      /\ UNCHANGED <<file, rows, pruning, ticks>>
  BY DEF B!Overtaken, B!world
<1>2. b \in Blobs
  BY <1>1 DEF UInv, UShape
<1>3. moved = [v \in Uploads |-> moved[v]]
      /\ \A v \in Uploads : moved[v] = [chain |-> upload[v].chain, blob |-> upload[v].blob,
                                        step |-> upload[v].step, on |-> moved[v].on]
  BY MovedIs DEF UInv
<1> HIDE DEF b, moved
<1>4. /\ upload' = [v \in Uploads |-> upload'[v]]
      /\ upload'[u] = B!Idle
      /\ \A v \in Uploads : v # u => upload'[v] = moved[v]
  BY <1>1, <1>3
<1>5. /\ file' = file /\ temp' = temp
      /\ file' \in [Blobs -> {"none", "partial", "full"}]
      /\ temp' \in [Blobs -> {"none", "partial", "full"}]
  BY <1>1, <1>2 DEF UInv, UShape
<1>6. /\ \A x \in Blobs : OnDiskOf(temp', file', x) => rows[x] # NoRow
      /\ \A x \in Blobs : OnDisk(x) => OnDiskOf(temp', file', x)
  BY <1>5 DEF UInv, UFiles, OnDisk
<1>7. ASSUME NEW v \in Uploads
      PROVE  /\ upload'[v] = [chain |-> upload'[v].chain, blob |-> upload'[v].blob,
                              step |-> upload'[v].step, on |-> upload'[v].on]
             /\ \/ upload'[v].step = "idle"
                \/ /\ upload'[v].chain = upload[v].chain /\ upload'[v].blob = upload[v].blob
                   /\ \/ upload'[v].step = upload[v].step
                      \/ upload'[v].step \in {"write", "rename"} /\ upload[v].step \in {"open", "write"}
                   /\ upload'[v].step \in {"write", "rename"} => OnDiskOf(temp', file', upload'[v].blob)
  <2>1. CASE v = u
    BY <1>4, <2>1 DEF B!Idle
  <2>2. CASE v # u
    <3>1. upload'[v] = [chain |-> upload[v].chain, blob |-> upload[v].blob,
                        step |-> upload[v].step, on |-> upload'[v].on]
      BY <1>3, <1>4, <2>2
    <3>2. upload[v].step \in {"write", "rename"} => OnDisk(upload[v].blob) /\ upload[v].blob \in Blobs
      BY DEF UInv, UShape, UFiles
    <3>3. /\ upload'[v].chain = upload[v].chain /\ upload'[v].blob = upload[v].blob
          /\ upload'[v].step = upload[v].step
      BY <3>1
    <3> QED
      BY <1>6, <3>1, <3>2, <3>3
  <2> QED
    BY <2>1, <2>2
<1> QED
  BY <1>1, <1>4, <1>5, <1>6, <1>7, StoreWorks

\* The host is back without the requests and without temporary files.
LEMMA StoreCrashes == ASSUME UInv, B!Crash PROVE UInv'
<1>1. /\ upload' = [u \in Uploads |-> B!Idle] /\ temp' = [b \in Blobs |-> "none"]
      /\ UNCHANGED <<file, rows, pruning, ticks>>
  BY DEF B!Crash, B!Cleaned, B!world, UInv, UShape
<1>2. UShape'
  BY <1>1 DEF UInv, UShape, B!Idle
<1>3. UFiles'
  BY <1>1 DEF UInv, UFiles, B!Idle, OnDisk, OnDiskOf
<1> QED
  BY <1>1, <1>2, <1>3, QuotaQuiet DEF UInv

\* Nothing else happens: the disk does not fail, nothing is pruned.
LEMMA StoreStep == UInv /\ [B!Next]_B!vars => UInv'
<1> SUFFICES ASSUME UInv, [B!Next]_B!vars PROVE UInv'
  OBVIOUS
<1>1. CASE UNCHANGED B!vars \/ \E c \in Tenants, b \in Blobs : B!Record(c, b)
  <2>1. UNCHANGED <<rows, file, temp, upload, pruning, ticks>>
    BY <1>1 DEF B!vars, B!Record, B!disk, B!world
  <2> QED
    BY <2>1, QuotaQuiet DEF UInv, UShape, UFiles, OnDisk
<1>2. CASE B!Tick
  <2>1. UNCHANGED <<rows, file, temp, upload, pruning>> /\ ticks < MaxTicks /\ ticks' = ticks + 1
    BY <1>2 DEF B!Tick, B!disk
  <2> QED
    BY <2>1, QuotaQuiet, StoreConstants DEF UInv, UShape, UFiles, OnDisk
<1>3. ~B!PruneStart /\ ~B!Command /\ \A b \in Blobs : ~B!Prune(b)
  BY DEF B!PruneStart, B!Command, B!Prune, UInv, UShape
<1>4. \A u \in Uploads : ~B!WriteFails(u) /\ ~B!Undo(u)
  BY DEF B!WriteFails, B!Undo, UInv, UShape
<1>5. \A u \in Uploads : ~B!RenameFails(u)
  BY DEF B!RenameFails, UInv, UFiles, OnDisk, OnDiskOf
<1>6. ASSUME NEW u \in Uploads, B!Step(u) PROVE UInv'
  BY <1>4, <1>5, <1>6, StoreLooks, StoreKnows, StoreReserves, StoreRefuses, StoreOpens, StoreWrites,
     StoreRenames, StoreOvertaken DEF B!Step
<1> QED
  BY <1>1, <1>2, <1>3, <1>6, StorePosts, StoreCrashes DEF B!Next

\* Without errors of the disk and without pruning every file has its row and no
\* chain exceeds its quota, for any number of uploads, chains and blobs.
THEOREM BlobsHaveOwners ==
    B!Init /\ [][B!Next]_B!vars => [](B!FilesAreOwned /\ B!QuotaKept)
<1>1. UInv => B!FilesAreOwned /\ B!QuotaKept
  BY DEF UInv, UFiles, UQuota, OnDisk, OnDiskOf, B!FilesAreOwned, B!QuotaKept
<1> QED
  BY <1>1, StoreInit, StoreStep, PTL

\* The blob store of the run as well.
THEOREM ServicesAccountForBlobs == MCSpec => []BlobsAccounted
<1>1. MCInit => UInv
  BY StoreInit DEF MCInit
<1>2. [MCNext]_<<part, vars, freeVars, exchangeVars, validatorVars, blobVars>> => [B!Next]_B!vars
  BY DEF MCNext, OwnerKeysStep, FreeKeysStep, ExchangeStep, ValidatorStep, BlobStep,
         blobVars, B!vars, B!disk, B!world
<1>3. UInv => BlobsAccounted
  BY DEF UInv, UFiles, UQuota, OnDisk, OnDiskOf, BlobsAccounted, B!FilesAreOwned, B!QuotaKept
<1> QED
  BY <1>1, <1>2, <1>3, StoreStep, PTL DEF MCSpec

=============================================================================
