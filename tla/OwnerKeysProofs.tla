-------------------------- MODULE OwnerKeysProofs ---------------------------
(***************************************************************************)
(* For any keys, rates and times: an owner remains where rotations set no  *)
(* expiry; the rate limits hold; without overrides the auditor agrees with *)
(* the recorder and a revoked key stays out.                               *)
(***************************************************************************)
EXTENDS OwnerKeys, FiniteSetTheorems, TLAPS

\* A key that is valid or was revoked does not expire.
NoExpiry == \A k \in Keys : row[k].status \in {"valid", "revoked"} => row[k].expires = Never

SomeValid == \E k \in Keys : row[k].status = "valid"

OwnerInv == TypeOK /\ NoExpiry /\ SomeValid

\* The last revocation is still in the table.
LastIsKept ==
    lastRevocation > 0 =>
        \E k \in Keys : row[k].status = "revoked" /\ row[k].revokedAt = lastRevocation

SpacedStep ==
    lastRevocation' # lastRevocation /\ liveAt > 0 /\ lastRevocation > 0
        => \E n \in 1..Cardinality(Keys), k \in Keys :
              /\ revokers'[k] = n /\ row'[k].revokedAt = lastRevocation'
              /\ lastRevocation' - lastRevocation >= RevocationBase \div n

-----------------------------------------------------------------------------
(* Tables                                                                  *)

LEMMA NewRowType == ASSUME NEW t \in Time
                    PROVE  /\ NewRow(t) \in Rows /\ Absent \in Rows
                           /\ NewRow(t).status = "valid" /\ NewRow(t).expires = Never
                           /\ NewRow(t).added = t /\ NewRow(t).revokedAt = 0
                           /\ Absent.status = "absent" /\ Absent.added = 0 /\ Absent.revokedAt = 0
<1>1. 0 \in Time
  BY OwnerKeysConstants DEF Time
<1> QED
  BY <1>1 DEF NewRow, Absent, Rows

LEMMA InsertedRows ==
  ASSUME NEW table \in [Keys -> Rows], NEW t \in Time, NEW new \in Keys
  PROVE  /\ Inserted(table, new, t) \in [Keys -> Rows]
         /\ \A k \in Keys : Inserted(table, new, t)[k] =
              IF k = new /\ table[new].status = "absent" THEN NewRow(t) ELSE table[k]
  BY NewRowType DEF Inserted

\* A rotation: the rows but the inserted one keep all but an expiry.
LEMMA RotatedRows ==
  ASSUME NEW table \in [Keys -> Rows], NEW t \in Time, NEW signer \in Keys, NEW new \in Keys,
         NEW expires \in Nat \cup {Never}
  PROVE  /\ Rotated(table, t, signer, new, expires) \in [Keys -> Rows]
         /\ \A k \in Keys : k = new /\ table[new].status = "absent" =>
              /\ Rotated(table, t, signer, new, expires)[k].status = "valid"
              /\ Rotated(table, t, signer, new, expires)[k].added = t
              /\ Rotated(table, t, signer, new, expires)[k].revokedAt = 0
              /\ expires = Never => Rotated(table, t, signer, new, expires)[k].expires = Never
         /\ \A k \in Keys : ~(k = new /\ table[new].status = "absent") =>
              /\ Rotated(table, t, signer, new, expires)[k].status = table[k].status
              /\ Rotated(table, t, signer, new, expires)[k].added = table[k].added
              /\ Rotated(table, t, signer, new, expires)[k].revokedAt = table[k].revokedAt
              /\ expires = Never => Rotated(table, t, signer, new, expires)[k] = table[k]
<1> DEFINE ins == Inserted(table, new, t)
<1>1. /\ ins \in [Keys -> Rows]
      /\ \A k \in Keys : ins[k] =
           IF k = new /\ table[new].status = "absent" THEN NewRow(t) ELSE table[k]
  BY InsertedRows
<1> HIDE DEF ins
<1>2. CASE expires = Never
  <2>1. Rotated(table, t, signer, new, expires) = ins
    BY <1>2 DEF Rotated, ins
  <2> QED
    BY <1>1, <2>1, NewRowType
<1>3. CASE expires # Never
  <2>1. Rotated(table, t, signer, new, expires) = [ins EXCEPT ![signer].expires = expires]
    BY <1>3 DEF Rotated, ins
  <2>2. ASSUME NEW r \in Rows
        PROVE  /\ [r EXCEPT !.expires = expires] \in Rows
               /\ [r EXCEPT !.expires = expires].status = r.status
               /\ [r EXCEPT !.expires = expires].added = r.added
               /\ [r EXCEPT !.expires = expires].revokedAt = r.revokedAt
    BY DEF Rows
  <2>3. ASSUME NEW k \in Keys
        PROVE  [ins EXCEPT ![signer].expires = expires][k] =
                 IF k = signer THEN [ins[k] EXCEPT !.expires = expires] ELSE ins[k]
    BY <1>1
  <2>4. [ins EXCEPT ![signer].expires = expires] \in [Keys -> Rows]
    BY <1>1, <2>2
  <2>5. ASSUME NEW k \in Keys
        PROVE  LET after == [ins EXCEPT ![signer].expires = expires][k]
               IN /\ after.status = ins[k].status /\ after.added = ins[k].added
                  /\ after.revokedAt = ins[k].revokedAt
    BY <1>1, <2>2, <2>3
  <2>6. ASSUME NEW k \in Keys
        PROVE  LET after == Rotated(table, t, signer, new, expires)[k]
               IN /\ after.status = ins[k].status /\ after.added = ins[k].added
                  /\ after.revokedAt = ins[k].revokedAt
    BY <2>1, <2>5
  <2>7. Rotated(table, t, signer, new, expires) \in [Keys -> Rows]
    BY <2>1, <2>4
  <2> QED
    BY <1>1, <1>3, <2>6, <2>7, NewRowType
<1> QED
  BY <1>2, <1>3

LEMMA RevokedRows ==
  ASSUME NEW table \in [Keys -> Rows], NEW t \in Time, NEW target \in Keys
  PROVE  /\ Revoked(table, t, target) \in [Keys -> Rows]
         /\ \A k \in Keys : k # target => Revoked(table, t, target)[k] = table[k]
         /\ Revoked(table, t, target)[target].status = "revoked"
         /\ Revoked(table, t, target)[target].revokedAt = t
         /\ Revoked(table, t, target)[target].added = table[target].added
         /\ Revoked(table, t, target)[target].expires = table[target].expires
<1> DEFINE new == [table[target] EXCEPT !.status = "revoked", !.revokedAt = t]
<1>1. table[target] \in Rows
  OBVIOUS
<1>2. /\ new \in Rows /\ new.status = "revoked" /\ new.revokedAt = t
      /\ new.added = table[target].added /\ new.expires = table[target].expires
  BY <1>1 DEF Rows
<1>3. Revoked(table, t, target) = [table EXCEPT ![target] = new]
  BY DEF Revoked, Rows
<1> HIDE DEF new
<1> QED
  BY <1>2, <1>3

LEMMA SignersCounted ==
  ASSUME NEW table, NEW t, NEW signers \in SUBSET Keys, signers # {}
  PROVE  Cardinality(signers) \in 1..Cardinality(Keys)
<1>1. IsFiniteSet(Keys)
  BY OwnerKeysConstants
<1>2. IsFiniteSet(signers) /\ Cardinality(signers) <= Cardinality(Keys)
  BY <1>1, FS_Subset
<1>3. Cardinality(signers) \in Nat /\ Cardinality(Keys) \in Nat
  BY <1>1, <1>2, FS_CardinalityType
<1>4. Cardinality(signers) # 0
  BY <1>2, FS_EmptySet
<1> QED
  BY <1>2, <1>3, <1>4

LEMMA ExpiriesType == ASSUME NEW t \in Time, NEW e \in Expiries(t)
                      PROVE  e \in Nat \cup {Never}
  BY OwnerKeysConstants DEF Expiries, Time

LEMMA TimeFacts == Time \subseteq Nat /\ 0 \in Time /\ Genesis \in [Keys -> Rows]
<1>1. 0 \in Time
  BY OwnerKeysConstants DEF Time
<1> QED
  BY <1>1, NewRowType DEF Genesis, Time

\* An override: the reinstated row, the held rows and the others.
LEMMA OverrideRows ==
  ASSUME TypeOK, NEW t \in Time, NEW signers \in SUBSET Keys, NEW held \in SUBSET Keys,
         NEW reinstated \in Keys, Override(t, signers, held, reinstated)
  PROVE  /\ row' \in [Keys -> Rows]
         /\ row'[reinstated].status = "valid"
         /\ row'[reinstated].expires = row[reinstated].expires
         /\ \A k \in Keys : row'[k].added = row[k].added
         /\ \A k \in Keys : row'[k].revokedAt \in {0, t, row[k].revokedAt}
         /\ \A k \in Keys \ {reinstated} :
              row'[k].status = "held" \/ row'[k] = row[k]
         /\ \A k \in Keys : row'[k].status = "absent" <=> row[k].status = "absent"
<1> DEFINE back(k) == [row[k] EXCEPT !.status = "valid", !.revokedAt = 0]
           onHold(k) == [row[k] EXCEPT !.status = "held", !.revokedAt = t,
                                       !.expires = t + HoldTime]
<1>1. row' = [k \in Keys |-> IF k = reinstated THEN back(k)
                             ELSE IF k \in held THEN onHold(k) ELSE row[k]]
  BY DEF Override
<1>2. row[reinstated].status = "revoked" /\ \A k \in held : row[k].status = "valid"
  BY DEF Override, CanOverride, ValidKeys, Valid
<1>3. ASSUME NEW k \in Keys
      PROVE  /\ back(k) \in Rows /\ back(k).status = "valid" /\ back(k).added = row[k].added
             /\ back(k).expires = row[k].expires /\ back(k).revokedAt = 0
  <2>1. row[k] \in Rows
    BY DEF TypeOK
  <2> QED
    BY <2>1, TimeFacts DEF Rows
<1>4. ASSUME NEW k \in Keys
      PROVE  /\ onHold(k) \in Rows /\ onHold(k).status = "held"
             /\ onHold(k).added = row[k].added /\ onHold(k).revokedAt = t
  <2>1. row[k] \in Rows
    BY DEF TypeOK
  <2>2. t + HoldTime \in Nat
    BY TimeFacts, OwnerKeysConstants
  <2> QED
    BY <2>1, <2>2 DEF Rows
<1> HIDE DEF back, onHold
<1>5. row \in [Keys -> Rows]
  BY DEF TypeOK
<1>6. row' \in [Keys -> Rows]
  BY <1>1, <1>3, <1>4, <1>5
<1>7. /\ row'[reinstated].status = "valid"
      /\ row'[reinstated].expires = row[reinstated].expires
  BY <1>1, <1>3
<1>8. ASSUME NEW k \in Keys
      PROVE  /\ row'[k].added = row[k].added
             /\ row'[k].revokedAt \in {0, t, row[k].revokedAt}
             /\ row'[k].status = "absent" <=> row[k].status = "absent"
             /\ k # reinstated => row'[k].status = "held" \/ row'[k] = row[k]
  BY <1>1, <1>2, <1>3, <1>4
<1> QED
  BY <1>6, <1>7, <1>8

-----------------------------------------------------------------------------
(* Types                                                                   *)

LEMMA InitType == Init => TypeOK
<1> SUFFICES ASSUME Init PROVE TypeOK
  OBVIOUS
<1>1. \A k \in Keys : row[k].added = 0 /\ row[k].revokedAt = 0
  BY NewRowType, TimeFacts DEF Init, Genesis
<1> QED
  BY <1>1, TimeFacts DEF Init, TypeOK

LEMMA RotateType ==
  ASSUME TypeOK, NEW t \in Time, t > now, NEW signer \in Keys, NEW new \in Keys,
         NEW expires \in Expiries(t), Rotate(t, signer, new, expires)
  PROVE  TypeOK'
<1>1. expires \in Nat \cup {Never}
  BY ExpiriesType
<1>2. row \in [Keys -> Rows] /\ audit \in [Keys -> Rows] /\ now \in Nat /\ t \in Nat
  BY TimeFacts DEF TypeOK
<1>3. row' = Rotated(row, t, signer, new, expires) /\ now' = t
      /\ audit' \in {audit, Rotated(audit, t, signer, new, expires)}
      /\ UNCHANGED <<liveAt, lastRevocation, revokers>>
  BY DEF Rotate, history
<1>4. row' \in [Keys -> Rows] /\ audit' \in [Keys -> Rows]
  BY <1>1, <1>2, <1>3, RotatedRows, SMTT(30)
<1>5. ASSUME NEW k \in Keys
      PROVE  row'[k].added <= now' /\ row'[k].revokedAt <= now'
  <2>1. row[k].added <= now /\ row[k].revokedAt <= now
        /\ row[k].added \in Nat /\ row[k].revokedAt \in Nat
    BY <1>2, TimeFacts DEF TypeOK, Rows
  <2>2. row'[k].added \in {t, row[k].added} /\ row'[k].revokedAt \in {0, row[k].revokedAt}
    <3> DEFINE rotated == Rotated(row, t, signer, new, expires)
               fresh == k = new /\ row[new].status = "absent"
    <3>3. /\ fresh => rotated[k].added = t /\ rotated[k].revokedAt = 0
          /\ ~fresh => /\ rotated[k].added = row[k].added
                      /\ rotated[k].revokedAt = row[k].revokedAt
      BY <1>1, <1>2, RotatedRows, SMTT(30)
    <3>4. row'[k] = rotated[k]
      BY <1>3
    <3> HIDE DEF rotated, fresh
    <3>1. CASE fresh
      BY <3>1, <3>3, <3>4
    <3>2. CASE ~fresh
      BY <3>2, <3>3, <3>4
    <3> QED
      BY <3>1, <3>2
  <2> QED
    BY <1>2, <1>3, <2>1, <2>2
<1> QED
  BY <1>2, <1>3, <1>4, <1>5 DEF TypeOK

LEMMA RevokeType ==
  ASSUME TypeOK, NEW t \in Time, t > now, NEW signers \in SUBSET Keys, NEW target \in Keys,
         Revoke(t, signers, target)
  PROVE  TypeOK'
<1>1. row \in [Keys -> Rows] /\ audit \in [Keys -> Rows] /\ now \in Nat /\ t \in Nat
  BY TimeFacts DEF TypeOK
<1>2. /\ row' = Revoked(row, t, target) /\ now' = t /\ UNCHANGED liveAt
      /\ audit' \in {audit, Revoked(audit, t, target)}
      /\ lastRevocation' = t /\ revokers' = [revokers EXCEPT ![target] = Cardinality(signers)]
  BY DEF Revoke, AuditRevoke
<1>3. row' \in [Keys -> Rows] /\ audit' \in [Keys -> Rows]
  BY <1>1, <1>2, RevokedRows, SMTT(30)
<1>4. Cardinality(signers) \in Nat
  BY SignersCounted DEF Revoke, CanRevoke
<1>5. ASSUME NEW k \in Keys
      PROVE  row'[k].added <= now' /\ row'[k].revokedAt <= now'
  <2>1. row[k].added <= now /\ row[k].revokedAt <= now
        /\ row[k].added \in Nat /\ row[k].revokedAt \in Nat
    BY <1>1, TimeFacts DEF TypeOK, Rows
  <2>2. row'[k].added = row[k].added /\ row'[k].revokedAt \in {t, row[k].revokedAt}
    BY <1>1, <1>2, RevokedRows, SMTT(30)
  <2> QED
    BY <1>1, <1>2, <2>1, <2>2
<1>6. revokers' \in [Keys -> Nat]
  BY <1>2, <1>4 DEF TypeOK
<1>7. now' \in Time /\ liveAt' \in 0..now' /\ lastRevocation' \in 0..now'
  BY <1>1, <1>2 DEF TypeOK
<1> QED
  BY <1>3, <1>5, <1>6, <1>7 DEF TypeOK

LEMMA OverrideType ==
  ASSUME TypeOK, NEW t \in Time, t > now, NEW signers \in SUBSET Keys,
         NEW held \in SUBSET Keys, NEW reinstated \in Keys,
         Override(t, signers, held, reinstated)
  PROVE  TypeOK'
<1>1. row \in [Keys -> Rows] /\ now \in Nat /\ t \in Nat
  BY TimeFacts DEF TypeOK
<1>2. now' = t /\ UNCHANGED <<liveAt, audit, lastRevocation, revokers>>
  BY DEF Override, history
<1>3. row' \in [Keys -> Rows]
  BY OverrideRows
<1>4. ASSUME NEW k \in Keys
      PROVE  row'[k].added <= now' /\ row'[k].revokedAt <= now'
  <2>1. row[k].added <= now /\ row[k].revokedAt <= now
        /\ row[k].added \in Nat /\ row[k].revokedAt \in Nat
    BY <1>1, TimeFacts DEF TypeOK, Rows
  <2>2. row'[k].added = row[k].added /\ row'[k].revokedAt \in {0, t, row[k].revokedAt}
    BY OverrideRows, SMTT(30)
  <2> QED
    BY <1>1, <1>2, <2>1, <2>2
<1>5. now' \in Time /\ liveAt' \in 0..now' /\ lastRevocation' \in 0..now'
  BY <1>1, <1>2 DEF TypeOK
<1> QED
  BY <1>2, <1>3, <1>4, <1>5 DEF TypeOK

LEMMA GoLiveType == ASSUME TypeOK, NEW t \in Time, t > now, GoLive(t) PROVE TypeOK'
<1>1. now \in Nat /\ t \in Nat /\ row \in [Keys -> Rows]
  BY TimeFacts DEF TypeOK
<1>2. now' = t /\ liveAt' = t /\ UNCHANGED <<row, audit, lastRevocation, revokers>>
  BY DEF GoLive, history
<1>3. ASSUME NEW k \in Keys PROVE row[k].added <= t /\ row[k].revokedAt <= t
  <2>1. row[k].added <= now /\ row[k].revokedAt <= now
        /\ row[k].added \in Nat /\ row[k].revokedAt \in Nat
    BY <1>1, TimeFacts DEF TypeOK, Rows
  <2> QED
    BY <1>1, <2>1
<1> QED
  BY <1>1, <1>2, <1>3 DEF TypeOK

LEMMA NextType == TypeOK /\ [Next]_vars => TypeOK'
<1> SUFFICES ASSUME TypeOK, [Next]_vars PROVE TypeOK'
  OBVIOUS
<1>1. CASE Next
  <2>1. PICK t \in Time : t > now /\ NextBlock(t)
    BY <1>1 DEF Next
  <2> QED
    BY <2>1, RotateType, RevokeType, OverrideType, GoLiveType DEF NextBlock
<1>2. CASE UNCHANGED vars
  BY <1>2 DEF TypeOK, vars, history
<1> QED
  BY <1>1, <1>2

\* Types, and no row from the future, whatever the keys and rates.
THEOREM TypesHold == Spec => []TypeOK
<1>1. Init => TypeOK
  BY InitType
<1>2. TypeOK /\ [Next]_vars => TypeOK'
  BY NextType
<1> QED
  BY <1>1, <1>2, PTL DEF Spec

-----------------------------------------------------------------------------
(* An owner remains                                                        *)

LEMMA InitOwner == Init => OwnerInv
<1> SUFFICES ASSUME Init PROVE OwnerInv
  OBVIOUS
<1>1. ASSUME NEW k \in Keys
      PROVE  row[k].expires = Never /\ (k = Issuer => row[k].status = "valid")
  BY TimeFacts DEF Init, Genesis, NewRow, Absent
<1> QED
  BY <1>1, InitType, OwnerKeysConstants DEF OwnerInv, NoExpiry, SomeValid

LEMMA RotateOwner ==
  ASSUME Lifetimes = {}, OwnerInv, NEW t \in Time, NEW signer \in Keys, NEW new \in Keys,
         NEW expires \in Expiries(t), Rotate(t, signer, new, expires)
  PROVE  NoExpiry' /\ SomeValid'
<1>1. expires = Never /\ expires \in Nat \cup {Never}
  BY DEF Expiries
<1>2. row \in [Keys -> Rows] /\ row' = Rotated(row, t, signer, new, expires)
  BY DEF OwnerInv, TypeOK, Rotate
<1>3. ASSUME NEW k \in Keys, row'[k].status \in {"valid", "revoked"}
      PROVE  row'[k].expires = Never
  <2>1. CASE k = new /\ row[new].status = "absent"
    BY <1>1, <1>2, <2>1, RotatedRows, SMTT(30)
  <2>2. CASE ~(k = new /\ row[new].status = "absent")
    <3>1. row'[k] = row[k]
      BY <1>1, <1>2, <2>2, RotatedRows, SMTT(30)
    <3> QED
      BY <1>3, <3>1 DEF OwnerInv, NoExpiry
  <2> QED
    BY <2>1, <2>2
<1>4. row[signer].status = "valid"
  BY DEF Rotate, CanRotate, Valid
<1>5. row'[signer].status = "valid"
  BY <1>1, <1>2, <1>4, RotatedRows, SMTT(30)
<1> QED
  BY <1>3, <1>5 DEF NoExpiry, SomeValid

LEMMA RevokeOwner ==
  ASSUME OwnerInv, NEW t \in Time, NEW signers \in SUBSET Keys, NEW target \in Keys,
         Revoke(t, signers, target)
  PROVE  NoExpiry' /\ SomeValid'
<1>1. row \in [Keys -> Rows] /\ row' = Revoked(row, t, target)
  BY DEF OwnerInv, TypeOK, Revoke
<1>2. Cardinality(ValidKeys(row, t)) > 1 /\ row[target].status = "valid"
  BY DEF Revoke, CanRevoke, LeavesOne, Valid
<1>3. \E k \in ValidKeys(row, t) : k # target
  <2>1. SUFFICES ASSUME \A k \in ValidKeys(row, t) : k = target PROVE FALSE
    OBVIOUS
  <2>2. ValidKeys(row, t) = {} \/ ValidKeys(row, t) = {target}
    BY <2>1
  <2>3. Cardinality({}) = 0 /\ Cardinality({target}) = 1
    BY FS_EmptySet, FS_Singleton
  <2> QED
    BY <1>2, <2>2, <2>3
<1>4. PICK k \in Keys : k # target /\ row[k].status = "valid"
  BY <1>3 DEF ValidKeys, Valid
<1>5. row'[k].status = "valid"
  BY <1>1, <1>4, RevokedRows, SMTT(30)
<1>6. ASSUME NEW j \in Keys, row'[j].status \in {"valid", "revoked"}
      PROVE  row'[j].expires = Never
  <2>1. row'[j].expires = row[j].expires /\ row[j].status \in {"valid", "revoked"}
    <3>1. CASE j = target
      BY <1>1, <1>2, <3>1, RevokedRows, SMTT(30)
    <3>2. CASE j # target
      BY <1>1, <1>6, <3>2, RevokedRows, SMTT(30)
    <3> QED
      BY <3>1, <3>2
  <2> QED
    BY <2>1 DEF OwnerInv, NoExpiry
<1> QED
  BY <1>5, <1>6 DEF NoExpiry, SomeValid

LEMMA OverrideOwner ==
  ASSUME OwnerInv, NEW t \in Time, NEW signers \in SUBSET Keys, NEW held \in SUBSET Keys,
         NEW reinstated \in Keys, Override(t, signers, held, reinstated)
  PROVE  NoExpiry' /\ SomeValid'
<1>1. TypeOK /\ NoExpiry
  BY DEF OwnerInv
<1>2. row[reinstated].status = "revoked"
  BY DEF Override, CanOverride
<1>3. row'[reinstated].status = "valid" /\ row'[reinstated].expires = Never
  BY <1>1, <1>2, OverrideRows DEF NoExpiry
<1>4. ASSUME NEW k \in Keys, row'[k].status \in {"valid", "revoked"}
      PROVE  row'[k].expires = Never
  <2>1. k = reinstated \/ row'[k] = row[k]
    BY <1>1, <1>4, OverrideRows, SMTT(30)
  <2> QED
    BY <1>1, <1>3, <1>4, <2>1 DEF NoExpiry
<1> QED
  BY <1>3, <1>4 DEF NoExpiry, SomeValid

LEMMA NextOwner == Lifetimes = {} /\ OwnerInv /\ [Next]_vars => OwnerInv'
<1> SUFFICES ASSUME Lifetimes = {}, OwnerInv, [Next]_vars PROVE NoExpiry' /\ SomeValid'
  BY NextType DEF OwnerInv
<1>1. CASE Next
  <2>1. PICK t \in Time : t > now /\ NextBlock(t)
    BY <1>1 DEF Next
  <2>2. CASE GoLive(t)
    BY <2>2 DEF GoLive, OwnerInv, NoExpiry, SomeValid
  <2> QED
    BY <2>1, <2>2, RotateOwner, RevokeOwner, OverrideOwner DEF NextBlock
<1>2. CASE UNCHANGED vars
  BY <1>2 DEF OwnerInv, NoExpiry, SomeValid, vars, history
<1> QED
  BY <1>1, <1>2

LEMMA OwnerThere == OwnerInv => AlwaysAnOwner
  BY DEF OwnerInv, NoExpiry, SomeValid, AlwaysAnOwner, ValidKeys, Valid, Unexpired

\* Where rotations set no expiry, revocations and overrides in any order leave the owner a
\* key that can sign, at every later time.
THEOREM OwnerRemains == Lifetimes = {} /\ Spec => []AlwaysAnOwner
<1> SUFFICES ASSUME Lifetimes = {} PROVE Spec => []AlwaysAnOwner
  OBVIOUS
<1>1. Init => OwnerInv
  BY InitOwner
<1>2. OwnerInv /\ [Next]_vars => OwnerInv'
  BY NextOwner
<1>3. OwnerInv => AlwaysAnOwner
  BY OwnerThere
<1> QED
  BY <1>1, <1>2, <1>3, PTL DEF Spec

-----------------------------------------------------------------------------
(* The limit on rotations                                                  *)

SpacedInv == TypeOK /\ NewKeysSpaced

LEMMA InitSpaced == Init => SpacedInv
<1> SUFFICES ASSUME Init PROVE NewKeysSpaced
  BY InitType DEF SpacedInv
<1> QED
  BY DEF Init, NewKeysSpaced

\* A table that differs in no key's presence or time of adding.
LEMMA SameAdded ==
  ASSUME NewKeysSpaced, liveAt' = liveAt,
         \A k \in Keys : /\ row'[k].added = row[k].added
                         /\ row'[k].status = "absent" <=> row[k].status = "absent"
  PROVE  NewKeysSpaced'
  BY DEF NewKeysSpaced

LEMMA RotateSpaced ==
  ASSUME SpacedInv, NEW t \in Time, t > now, NEW signer \in Keys, NEW new \in Keys,
         NEW expires \in Expiries(t), Rotate(t, signer, new, expires)
  PROVE  NewKeysSpaced'
<1>1. expires \in Nat \cup {Never}
  BY ExpiriesType
<1>2. /\ row \in [Keys -> Rows] /\ row' = Rotated(row, t, signer, new, expires)
      /\ liveAt' = liveAt /\ NewKeysSpaced
  BY DEF SpacedInv, TypeOK, Rotate
<1>3. CASE row[new].status # "absent"
  <2>1. ASSUME NEW k \in Keys
        PROVE  row'[k].added = row[k].added /\ row'[k].status = row[k].status
    BY <1>1, <1>2, <1>3, RotatedRows, SMTT(30)
  <2> QED
    BY <1>2, <2>1, SameAdded
<1>4. CASE row[new].status = "absent"
  <2>1. row'[new].added = t
    BY <1>1, <1>2, <1>4, RotatedRows, SMTT(30)
  <2>2. ASSUME NEW k \in Keys, k # new
        PROVE  row'[k].added = row[k].added /\ row'[k].status = row[k].status
    BY <1>1, <1>2, <2>2, RotatedRows, SMTT(30)
  <2>3. ASSUME NEW j \in Keys, NEW k \in Keys, liveAt' > 0,
               row'[k].status # "absent", row'[k].added > liveAt',
               row'[j].status # "absent", row'[j].added < row'[k].added
        PROVE  row'[k].added - row'[j].added >= RotationRate
    <3>1. CASE k = new
      <4>1. j # new /\ row[j].status # "absent" /\ row'[j].added = row[j].added
        BY <2>2, <2>3, <3>1, TimeFacts, <2>1
      <4>2. RotationDue(row, t)
        BY <1>2, <2>3 DEF Rotate, CanRotate
      <4> QED
        BY <2>1, <3>1, <4>1, <4>2 DEF RotationDue
    <3>2. CASE k # new /\ j = new
      <4>1. row[k].added <= now /\ row'[k].added = row[k].added /\ row[k].added \in Nat
        BY <1>2, <2>2, <3>2, TimeFacts DEF SpacedInv, TypeOK, Rows
      <4>2. now \in Nat /\ t \in Nat
        BY TimeFacts DEF SpacedInv, TypeOK
      <4> QED
        BY <2>1, <2>3, <3>2, <4>1, <4>2
    <3>3. CASE k # new /\ j # new
      BY <1>2, <2>2, <2>3, <3>3 DEF NewKeysSpaced
    <3> QED
      BY <3>1, <3>2, <3>3
  <2> QED
    BY <2>3 DEF NewKeysSpaced
<1> QED
  BY <1>3, <1>4

LEMMA RevokeSpaced ==
  ASSUME SpacedInv, NEW t \in Time, NEW signers \in SUBSET Keys, NEW target \in Keys,
         Revoke(t, signers, target)
  PROVE  NewKeysSpaced'
<1>1. /\ row \in [Keys -> Rows] /\ row' = Revoked(row, t, target)
      /\ liveAt' = liveAt /\ NewKeysSpaced /\ row[target].status = "valid"
  BY DEF SpacedInv, TypeOK, Revoke, CanRevoke, Valid
<1>2. ASSUME NEW k \in Keys
      PROVE  row'[k].added = row[k].added
             /\ (row'[k].status = "absent" <=> row[k].status = "absent")
  <2>1. CASE k = target
    BY <1>1, <2>1, RevokedRows, SMTT(30)
  <2>2. CASE k # target
    BY <1>1, <2>2, RevokedRows, SMTT(30)
  <2> QED
    BY <2>1, <2>2
<1> QED
  BY <1>1, <1>2, SameAdded

LEMMA OverrideSpaced ==
  ASSUME SpacedInv, NEW t \in Time, NEW signers \in SUBSET Keys, NEW held \in SUBSET Keys,
         NEW reinstated \in Keys, Override(t, signers, held, reinstated)
  PROVE  NewKeysSpaced'
<1>1. TypeOK /\ NewKeysSpaced /\ liveAt' = liveAt
  BY DEF SpacedInv, Override
<1>2. ASSUME NEW k \in Keys
      PROVE  row'[k].added = row[k].added
             /\ (row'[k].status = "absent" <=> row[k].status = "absent")
  BY <1>1, OverrideRows, SMTT(30)
<1> QED
  BY <1>1, <1>2, SameAdded

\* When the chain goes live no key has been added after it.
LEMMA GoLiveSpaced == ASSUME SpacedInv, NEW t \in Time, t > now, GoLive(t)
                      PROVE  NewKeysSpaced'
<1>1. liveAt' = t /\ row' = row /\ now \in Nat /\ t \in Nat /\ row \in [Keys -> Rows]
  BY TimeFacts DEF GoLive, SpacedInv, TypeOK
<1>2. ASSUME NEW k \in Keys PROVE ~(row'[k].added > liveAt')
  <2>1. row[k].added <= now /\ row[k].added \in Nat
    BY <1>1, TimeFacts DEF SpacedInv, TypeOK, Rows
  <2> QED
    BY <1>1, <2>1
<1> QED
  BY <1>2 DEF NewKeysSpaced

LEMMA NextSpaced == SpacedInv /\ [Next]_vars => SpacedInv'
<1> SUFFICES ASSUME SpacedInv, [Next]_vars PROVE NewKeysSpaced'
  BY NextType DEF SpacedInv
<1>1. CASE Next
  <2>1. PICK t \in Time : t > now /\ NextBlock(t)
    BY <1>1 DEF Next
  <2> QED
    BY <2>1, RotateSpaced, RevokeSpaced, OverrideSpaced, GoLiveSpaced DEF NextBlock
<1>2. CASE UNCHANGED vars
  BY <1>2 DEF SpacedInv, NewKeysSpaced, vars, history
<1> QED
  BY <1>1, <1>2

\* On a live chain no two keys are added closer than key_rotation_rate, whatever is revoked,
\* overridden, or rotated to again in between.
THEOREM KeysAreSpaced == Spec => []NewKeysSpaced
<1>1. Init => SpacedInv
  BY InitSpaced
<1>2. SpacedInv /\ [Next]_vars => SpacedInv'
  BY NextSpaced
<1>3. SpacedInv => NewKeysSpaced
  BY DEF SpacedInv
<1> QED
  BY <1>1, <1>2, <1>3, PTL DEF Spec

-----------------------------------------------------------------------------
(* Without overrides                                                       *)

HostInv == TypeOK /\ AuditAgrees /\ LastIsKept

RevokedStays == \A k \in Keys : row[k].status = "revoked" => row'[k].status = "revoked"

LEMMA InitHost == Init => HostInv
  BY InitType DEF Init, HostInv, AuditAgrees, LastIsKept

\* What the recorder accepts the auditor accepts: its rules are those of a chain not yet live.
LEMMA RotateHost ==
  ASSUME HostInv, NEW t \in Time, NEW signer \in Keys, NEW new \in Keys,
         NEW expires \in Expiries(t), Rotate(t, signer, new, expires)
  PROVE  AuditAgrees' /\ LastIsKept' /\ RevokedStays /\ lastRevocation' = lastRevocation
<1>1. expires \in Nat \cup {Never}
  BY ExpiriesType
<1>2. /\ row \in [Keys -> Rows] /\ row' = Rotated(row, t, signer, new, expires)
      /\ audit = row /\ lastRevocation' = lastRevocation
  BY DEF HostInv, AuditAgrees, TypeOK, Rotate, history
<1>3. CanRotate(row, FALSE, t, signer, new)
  BY DEF Rotate, CanRotate
<1>4. audit' = row'
  BY <1>2, <1>3 DEF Rotate
<1>5. ASSUME NEW k \in Keys, row[k].status = "revoked"
      PROVE  row'[k].status = "revoked" /\ row'[k].revokedAt = row[k].revokedAt
  <2>1. ~(k = new /\ row[new].status = "absent")
    BY <1>5
  <2> QED
    BY <1>1, <1>2, <1>5, <2>1, RotatedRows, SMTT(30)
<1>6. LastIsKept'
  BY <1>2, <1>5 DEF HostInv, LastIsKept
<1> QED
  BY <1>2, <1>4, <1>5, <1>6 DEF AuditAgrees, RevokedStays

LEMMA RevokeHost ==
  ASSUME HostInv, NEW t \in Time, NEW signers \in SUBSET Keys, NEW target \in Keys,
         Revoke(t, signers, target)
  PROVE  AuditAgrees' /\ LastIsKept' /\ RevokedStays /\ SpacedStep
<1>1. /\ row \in [Keys -> Rows] /\ row' = Revoked(row, t, target)
      /\ audit = row /\ lastRevocation' = t /\ row[target].status = "valid"
      /\ revokers' = [revokers EXCEPT ![target] = Cardinality(signers)]
      /\ revokers \in [Keys -> Nat]
  BY DEF HostInv, AuditAgrees, TypeOK, Revoke, CanRevoke, Valid
<1>2. CanRevoke(row, FALSE, t, signers, target)
  BY DEF Revoke, CanRevoke
<1>3. audit' = row'
  BY <1>1, <1>2 DEF Revoke, AuditRevoke
<1>4. row'[target].status = "revoked" /\ row'[target].revokedAt = t
  BY <1>1, RevokedRows, SMTT(30)
<1>5. ASSUME NEW k \in Keys, row[k].status = "revoked"
      PROVE  row'[k].status = "revoked"
  <2>1. k # target
    BY <1>1, <1>5
  <2> QED
    BY <1>1, <1>5, <2>1, RevokedRows, SMTT(30)
<1>6. SpacedStep
  <2>1. SUFFICES ASSUME liveAt > 0, lastRevocation > 0
                 PROVE  t - lastRevocation >= RevocationBase \div Cardinality(signers)
    <3>1. signers # {}
      BY DEF Revoke, CanRevoke
    <3>2. Cardinality(signers) \in 1..Cardinality(Keys)
      BY <3>1, SignersCounted
    <3>3. revokers'[target] = Cardinality(signers)
      BY <1>1
    <3> QED
      BY <1>1, <1>4, <2>1, <3>2, <3>3 DEF SpacedStep
  <2>2. RevocationDue(row, t, Cardinality(signers))
    BY <2>1 DEF Revoke, CanRevoke
  <2>3. PICK k \in Keys : row[k].status = "revoked" /\ row[k].revokedAt = lastRevocation
    BY <2>1 DEF HostInv, LastIsKept
  <2> QED
    BY <2>2, <2>3 DEF RevocationDue
<1> QED
  BY <1>1, <1>3, <1>4, <1>5, <1>6 DEF AuditAgrees, LastIsKept, RevokedStays

LEMMA NextHost ==
  Overrides = FALSE /\ HostInv /\ [Next]_vars
      => HostInv' /\ [SpacedStep]_vars /\ [RevokedStays]_vars
<1> SUFFICES ASSUME Overrides = FALSE, HostInv, [Next]_vars
             PROVE  /\ AuditAgrees' /\ LastIsKept'
                    /\ [SpacedStep]_vars /\ [RevokedStays]_vars
  BY NextType DEF HostInv
<1>1. CASE Next
  <2>1. PICK t \in Time : t > now /\ NextBlock(t)
    BY <1>1 DEF Next
  <2>2. CASE \E signer, new \in Keys, expires \in Expiries(t) : Rotate(t, signer, new, expires)
    BY <2>2, RotateHost DEF SpacedStep
  <2>3. CASE \E signers \in SUBSET Keys, target \in Keys : Revoke(t, signers, target)
    BY <2>3, RevokeHost
  <2>4. CASE GoLive(t)
    BY <2>4 DEF GoLive, history, HostInv, AuditAgrees, LastIsKept, SpacedStep, RevokedStays
  <2> QED
    BY <2>1, <2>2, <2>3, <2>4 DEF NextBlock, Override
<1>2. CASE UNCHANGED vars
  BY <1>2 DEF HostInv, AuditAgrees, LastIsKept, vars, history
<1> QED
  BY <1>1, <1>2

\* Without overrides the auditor's keys are the recorder's after every block.
THEOREM AuditorAgrees == Overrides = FALSE /\ Spec => []AuditAgrees
<1> SUFFICES ASSUME Overrides = FALSE PROVE Spec => []AuditAgrees
  OBVIOUS
<1>1. Init => HostInv
  BY InitHost
<1>2. HostInv /\ [Next]_vars => HostInv'
  BY NextHost
<1>3. HostInv => AuditAgrees
  BY DEF HostInv
<1> QED
  BY <1>1, <1>2, <1>3, PTL DEF Spec

\* Without overrides the limit, reckoned from the table, is the distance of the revocations.
THEOREM RevocationsAreSpaced == Overrides = FALSE /\ Spec => RevocationsSpaced
<1> SUFFICES ASSUME Overrides = FALSE PROVE Spec => RevocationsSpaced
  OBVIOUS
<1>1. Init => HostInv
  BY InitHost
<1>2. HostInv /\ [Next]_vars => HostInv' /\ [SpacedStep]_vars
  BY NextHost
<1> QED
  BY <1>1, <1>2, PTL DEF Spec, RevocationsSpaced, SpacedStep

\* Without overrides a revoked key never signs again.
THEOREM RevokedIsForGood == Overrides = FALSE /\ Spec => RevokedForGood
<1> SUFFICES ASSUME Overrides = FALSE PROVE Spec => RevokedForGood
  OBVIOUS
<1>1. Init => HostInv
  BY InitHost
<1>2. HostInv /\ [Next]_vars => HostInv' /\ [RevokedStays]_vars
  BY NextHost
<1> QED
  BY <1>1, <1>2, PTL DEF Spec, RevokedForGood, RevokedStays
=============================================================================
