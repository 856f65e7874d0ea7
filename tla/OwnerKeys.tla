----------------------------- MODULE OwnerKeys ------------------------------
(***************************************************************************)
(* The owner keys of a chain (ao-chain/src/owner_keys.rs and the table     *)
(* owner_keys of store.rs): rotation, revocation and override as the       *)
(* recorder validates and applies them in one block, the auditor that      *)
(* replays the blocks (ao-validator/src/chain_audit.rs) and the cooldown   *)
(* the wallet displays (ao-pwa/src/core/ownerKeys.ts).  Signatures are     *)
(* those of the keys they name; time is that of the blocks.                *)
(***************************************************************************)
EXTENDS Integers, FiniteSets

CONSTANTS
    Keys,
    Issuer,             \* the key of the genesis block
    RotationRate,       \* key_rotation_rate
    RevocationBase,     \* revocation_rate_base
    Lifetimes,          \* what rotations leave the key that signs them
    HoldTime,           \* how long an override holds a key
    Overrides,          \* overrides are recorded
    \* bound of the instance
    MaxTime

ASSUME OwnerKeysConstants ==
    /\ Issuer \in Keys /\ IsFiniteSet(Keys)
    /\ RotationRate \in Nat /\ RevocationBase \in Nat
    /\ Lifetimes \subseteq Nat /\ HoldTime \in Nat
    /\ Overrides \in BOOLEAN /\ MaxTime \in Nat

VARIABLES
    now,        \* timestamp of the last block
    liveAt,     \* of the first block after which next_seq_id > 2; 0: there is none
    row,        \* the recorder's table
    audit,      \* the auditor's table
    \* what was recorded, for the properties
    lastRevocation,     \* timestamp of the last revocation; 0: there is none
    revokers            \* how many signed the last revocation of a key

history == <<lastRevocation, revokers>>
vars == <<now, liveAt, row, audit, history>>

Never == -1             \* expires_at IS NULL
Time == 0..MaxTime
Rows == [status : {"absent", "valid", "held", "revoked"}, expires : Nat \cup {Never},
         added : Time, revokedAt : Time]
Absent == [status |-> "absent", expires |-> Never, added |-> 0, revokedAt |-> 0]
NewRow(t) == [status |-> "valid", expires |-> Never, added |-> t, revokedAt |-> 0]

Genesis == [k \in Keys |-> IF k = Issuer THEN NewRow(0) ELSE Absent]
Init ==
    /\ now = 0 /\ liveAt = 0
    /\ row = Genesis /\ audit = Genesis
    /\ lastRevocation = 0 /\ revokers = [k \in Keys |-> 0]

Unexpired(r, t) == r.expires = Never \/ r.expires > t
Valid(table, k, t) == table[k].status = "valid" /\ Unexpired(table[k], t)
ValidKeys(table, t) == {k \in Keys : Valid(table, k, t)}

-----------------------------------------------------------------------------
(* Rotation.  A key the table has, whatever became of it, is not inserted. *)

RotationDue(table, t) ==
    \A j \in Keys : table[j].status # "absent" => t - table[j].added >= RotationRate

CanRotate(table, live, t, signer, new) ==
    /\ ~Valid(table, new, t)
    /\ Valid(table, signer, t)
    /\ live => RotationDue(table, t)

Inserted(table, k, t) ==
    IF table[k].status = "absent" THEN [table EXCEPT ![k] = NewRow(t)] ELSE table

Rotated(table, t, signer, new, expires) ==
    IF expires = Never THEN Inserted(table, new, t)
    ELSE [Inserted(table, new, t) EXCEPT ![signer].expires = expires]

Expiries(t) == {Never} \cup {t + d : d \in Lifetimes}

Rotate(t, signer, new, expires) ==
    /\ CanRotate(row, liveAt > 0, t, signer, new)
    /\ row' = Rotated(row, t, signer, new, expires)
    /\ audit' = IF CanRotate(audit, FALSE, t, signer, new)
                THEN Rotated(audit, t, signer, new, expires) ELSE audit
    /\ now' = t
    /\ UNCHANGED <<liveAt, history>>

-----------------------------------------------------------------------------
(* Revocation.  Its rate limit asks for the keys that are revoked now.     *)

RevocationDue(table, t, n) ==
    \A j \in Keys : table[j].status = "revoked"
        => t - table[j].revokedAt >= RevocationBase \div n

LeavesTarget(table, t) == Cardinality(ValidKeys(table, t)) > 0      \* mutant: off by one
LeavesOne(table, t) == Cardinality(ValidKeys(table, t)) > 1

CanRevoke(table, live, t, signers, target) ==
    /\ Valid(table, target, t)
    /\ signers # {} /\ signers \subseteq ValidKeys(table, t)
    /\ LeavesOne(table, t)
    /\ live => RevocationDue(table, t, Cardinality(signers))

Revoked(table, t, target) ==
    [table EXCEPT ![target].status = "revoked", ![target].revokedAt = t]

AuditRevokeSigner(t, signers, target) ==      \* mutant: the auditor revokes who signed
    audit' = IF CanRevoke(audit, FALSE, t, signers, target)
             THEN Revoked(audit, t, CHOOSE k \in signers : TRUE) ELSE audit
AuditRevoke(t, signers, target) ==
    audit' = IF CanRevoke(audit, FALSE, t, signers, target)
             THEN Revoked(audit, t, target) ELSE audit

Revoke(t, signers, target) ==
    /\ CanRevoke(row, liveAt > 0, t, signers, target)
    /\ row' = Revoked(row, t, target)
    /\ AuditRevoke(t, signers, target)
    /\ lastRevocation' = t /\ revokers' = [revokers EXCEPT ![target] = Cardinality(signers)]
    /\ now' = t
    /\ UNCHANGED liveAt

-----------------------------------------------------------------------------
(* Override.  The revocation it names is not looked up: the keys to hold   *)
(* are those it lists.  The auditor passes it over.                        *)

CanOverride(t, signers, held, reinstated) ==
    /\ signers \subseteq {k \in Keys : Valid(row, k, t) \/ row[k].status = "revoked"}
    /\ held # {} /\ Cardinality(signers) > Cardinality(held)
    /\ reinstated \in signers /\ row[reinstated].status = "revoked"
    /\ held \subseteq ValidKeys(row, t)

Override(t, signers, held, reinstated) ==
    /\ Overrides
    /\ CanOverride(t, signers, held, reinstated)
    /\ row' = [k \in Keys |->
                 IF k = reinstated THEN [row[k] EXCEPT !.status = "valid", !.revokedAt = 0]
                 ELSE IF k \in held THEN [row[k] EXCEPT !.status = "held", !.revokedAt = t,
                                                         !.expires = t + HoldTime]
                 ELSE row[k]]
    /\ now' = t
    /\ UNCHANGED <<liveAt, audit, history>>

\* A transfer is recorded: the chain has more than the issuer's share.
GoLive(t) ==
    /\ liveAt = 0 /\ liveAt' = t /\ now' = t
    /\ UNCHANGED <<row, audit, history>>

NextBlock(t) ==
    \/ \E signer, new \in Keys, expires \in Expiries(t) : Rotate(t, signer, new, expires)
    \/ \E signers \in SUBSET Keys, target \in Keys : Revoke(t, signers, target)
    \/ \E signers, held \in SUBSET Keys, reinstated \in Keys :
          Override(t, signers, held, reinstated)
    \/ GoLive(t)

\* A block is later than the one before it.
Next == \E t \in Time : t > now /\ NextBlock(t)
Spec == Init /\ [][Next]_vars

-----------------------------------------------------------------------------
(* The panel "Owner Keys" of the wallet, with the table it has read.       *)

Shown == {j \in Keys : row[j].status # "absent"}
RotationCooldown(t) ==
    LET lastRotationTs == CHOOSE a \in {row[j].added : j \in Shown} :
                             \A j \in Shown : row[j].added <= a
        left == lastRotationTs + RotationRate - t
    IN IF left > 0 THEN left ELSE 0

-----------------------------------------------------------------------------
(* Properties *)

\* Both tables hold rows of the table's type; a row is no younger than the chain.
TypeOK ==
    /\ now \in Time /\ liveAt \in 0..now
    /\ row \in [Keys -> Rows] /\ audit \in [Keys -> Rows]
    /\ \A k \in Keys : row[k].added <= now /\ row[k].revokedAt <= now
    /\ lastRevocation \in 0..now /\ revokers \in [Keys -> Nat]

\* There is a key that may sign for the owner in the next block, at whatever time it comes.
\* Revocation counts the valid keys, override lets revoked keys vote the valid ones onto hold.
AlwaysAnOwner == \A t \in Time : t >= now => ValidKeys(row, t) # {}

\* Of two keys added after the chain went live the later came at least key_rotation_rate after
\* the other: no path around the limit, which reads MAX(added_timestamp), adds keys faster.
NewKeysSpaced ==
    \A j, k \in Keys :
        /\ liveAt > 0 /\ row[k].status # "absent" /\ row[k].added > liveAt
        /\ row[j].status # "absent" /\ row[j].added < row[k].added
        => row[k].added - row[j].added >= RotationRate

\* On a live chain a revocation comes at least base / N after the one before it, although
\* the limit is reckoned from the rows that are revoked at the time.
RevocationsSpaced ==
    [][ lastRevocation' # lastRevocation /\ liveAt > 0 /\ lastRevocation > 0
        => \E n \in 1..Cardinality(Keys), k \in Keys :
              /\ revokers'[k] = n /\ row'[k].revokedAt = lastRevocation'
              /\ lastRevocation' - lastRevocation >= RevocationBase \div n ]_vars

\* Replaying the blocks gives the auditor the recorder's keys, although it never leaves the
\* rules of a chain that is not live.
AuditAgrees == audit = row

\* Without overrides a key that was revoked is out for good: a rotation to it restores nothing.
RevokedForGood ==
    [][\A k \in Keys : row[k].status = "revoked" => row'[k].status = "revoked"]_vars

-----------------------------------------------------------------------------
(* What documents and comments say and the code does not keep for some     *)
(* values of the constants: README, 3.4.                                   *)

\* A rotation makes its new key valid.
NewKeyUsable ==
    [][\A t \in Time, signer, new \in Keys, expires \in Expiries(now') :
          t = now' /\ Rotate(t, signer, new, expires) => Valid(row', new, t)]_vars

\* The time at which a key ends is not put off.
ExpiryStands ==
    [][\A k \in Keys : Valid(row, k, now') /\ row[k].expires # Never
          => row'[k].expires # Never /\ row'[k].expires <= row[k].expires]_vars

\* Whoever undoes a revocation outnumbers those who signed it.
OverrideOutvotes ==
    [][\A t \in Time, signers, held \in SUBSET Keys, k \in Keys :
          t = now' /\ Override(t, signers, held, k) => Cardinality(signers) > revokers[k]]_vars

\* No key is on hold after its hold has ended.
HoldEnds == \A k \in Keys : row[k].status = "held" => now <= row[k].expires

\* While the wallet says when the next rotation is available, the recorder refuses one.
CooldownTrue ==
    \A t \in Time, signer, new \in Keys :
        t > now /\ RotationCooldown(t) > 0 => ~CanRotate(row, liveAt > 0, t, signer, new)
=============================================================================
