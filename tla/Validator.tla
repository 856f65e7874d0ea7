------------------------------ MODULE Validator ------------------------------
\* The validator's poll loop for one chain: it asks the recorder for its height,
\* fetches the blocks it has not seen in batches, checks and audits them, saves
\* height and rolled hash, and publishes an anchor. A recorder that keeps or alters
\* its history, requests that fail, and crashes between any two writes.
\* A hash is the sequence of what it commits to: a block's hash is the contents of
\* the chain up to it, the rolled hash is the sequence of the block hashes.
EXTENDS Naturals, Sequences, FiniteSetsExt

CONSTANTS MaxHeight,    \* bound on the blocks after genesis
          MaxAlter,     \* bound on alterations of the history by the recorder
          MaxFails,     \* bound on requests and writes that fail
          MaxCrashes,   \* bound on crashes of the validator
          Batch,        \* blocks per request (MAX_BLOCK_RANGE, 1000)
          Interval      \* blocks between anchors

ValidatorAssumption ==
    /\ {MaxHeight, MaxAlter, MaxFails, MaxCrashes} \subseteq Nat
    /\ {Batch, Interval} \subseteq Nat \ {0}

VARIABLES
    chain,      \* the recorder's blocks 1 .. , each [content, prev, hash]
    altered, fails, crashes,             \* counters for the bounds
    db,         \* chain_state: [height, rolled, status]
    anchors,    \* the anchors table, and
    file,       \* the anchor file: [height, rolled] in order of writing
    audit,      \* the auditor's store: [ready, keys, height]
    conn,       \* the last alert about the connection
    alarmed,    \* an alteration alert has been dispatched
    phase,      \* of the poll: "idle", "genesis", "fetch", "audit", "save",
                \* "publish" or "record"
    top,        \* recorder_height
    at,         \* current_height
    rolled,
    batch,      \* verified blocks whose audit is not over, and
    done,       \* how many of them are audited
    auditFailed
recorder == <<chain, altered>>
stored == <<db, anchors, file, audit>>
poll == <<phase, top, at, rolled, batch, done, auditFailed>>
vars == <<recorder, fails, crashes, stored, conn, alarmed, poll>>

Contents == {"plain", "rotation"}

\* ---- the recorder ----
BlockHash(b) == Append(b.prev, b.content)
Damaged(k) == k \in 1 .. Len(chain) /\ chain[k].hash /= BlockHash(chain[k])
LastHash == IF chain = <<>> THEN <<>> ELSE chain[Len(chain)].hash

Record(c) ==
    /\ Len(chain) < MaxHeight
    /\ chain' = Append(chain, [content |-> c, prev |-> LastHash,
                               hash |-> Append(LastHash, c)])
    /\ UNCHANGED <<altered, fails, crashes, stored, conn, alarmed, poll>>

\* The history is cut, by the restoration of a backup say, and goes on otherwise.
Cut(k) ==
    /\ altered < MaxAlter /\ k < Len(chain)
    /\ chain' = SubSeq(chain, 1, k) /\ altered' = altered + 1
    /\ UNCHANGED <<fails, crashes, stored, conn, alarmed, poll>>

\* The content of a block changes under its hash, or is put right again.
Damage(k, c) ==
    /\ altered < MaxAlter /\ k \in 1 .. Len(chain) /\ c /= chain[k].content
    /\ chain' = [chain EXCEPT ![k].content = c] /\ altered' = altered + 1
    /\ UNCHANGED <<fails, crashes, stored, conn, alarmed, poll>>

\* ---- the validator ----
Init ==
    /\ chain = <<>> /\ altered = 0 /\ fails = 0 /\ crashes = 0
    /\ db = [height |-> 0, rolled |-> <<>>, status |-> "ok"]
    /\ anchors = <<>> /\ file = <<>>
    /\ audit = [ready |-> FALSE, keys |-> {}, height |-> 0]
    /\ conn = "none" /\ alarmed = FALSE
    /\ phase = "idle" /\ top = 0 /\ at = 1 /\ rolled = <<>>
    /\ batch = <<>> /\ done = 0 /\ auditFailed = FALSE

Fail == fails < MaxFails /\ fails' = fails + 1

\* chain_info fails: an alert unless one was given, and the status says so.
PollFails ==
    /\ phase = "idle" /\ Fail
    /\ conn' = IF db.status = "ok" THEN "unreachable" ELSE conn
    /\ db' = [db EXCEPT !.status = "unreachable"]
    /\ UNCHANGED <<recorder, crashes, anchors, file, audit, alarmed, poll>>

NothingNew(height) == height <= db.height

Poll ==
    /\ phase = "idle"
    /\ top' = Len(chain)
    /\ conn' = IF db.status = "unreachable" THEN "recovered" ELSE conn
    /\ IF NothingNew(top')
       THEN /\ db' = [db EXCEPT !.status = "ok"]
            /\ UNCHANGED <<phase, at, rolled, batch, done, auditFailed>>
       ELSE /\ phase' = IF audit.ready THEN "fetch" ELSE "genesis"
            /\ at' = db.height + 1 /\ rolled' = db.rolled
            /\ batch' = <<>> /\ done' = 0 /\ auditFailed' = FALSE
            /\ UNCHANGED db
    /\ UNCHANGED <<recorder, fails, crashes, anchors, file, audit, alarmed>>

\* The auditor is set up from genesis, or the poll goes on without it.
InitAuditor ==
    /\ phase = "genesis" /\ phase' = "fetch"
    /\ \/ audit' = [audit EXCEPT !.ready = TRUE, !.keys = {<<>>}] /\ UNCHANGED fails
       \/ Fail /\ UNCHANGED audit
    /\ UNCHANGED <<recorder, crashes, db, anchors, file, conn, alarmed, top, at,
                   rolled, batch, done, auditFailed>>

\* mutant: the first block of a batch is not checked.
VerifiedButFirst(blocks) ==
    \A i \in 2 .. Len(blocks) : /\ blocks[i].hash = BlockHash(blocks[i])
                                /\ blocks[i].prev = blocks[i - 1].hash

\* verify_block_batch: every block by itself, and the links within the batch.
Verified(blocks) ==
    \A i \in 1 .. Len(blocks) : /\ blocks[i].hash = BlockHash(blocks[i])
                                /\ i > 1 => blocks[i].prev = blocks[i - 1].hash

\* What the recorder answers to a request for the next batch.
Served == SubSeq(chain, at, Min({at + Batch - 1, top, Len(chain)}))

\* A batch is done with: the poll goes on to the next, or is over.
Advance(blocks) == /\ rolled' = rolled \o [i \in DOMAIN blocks |-> blocks[i].hash]
                   /\ at' = at + Len(blocks)
                   /\ batch' = <<>> /\ done' = 0
                   /\ phase' = IF at' > top THEN "save" ELSE "fetch"

\* mutant: the height reached is saved, the rolled hash is not.
FetchFailsSaving == /\ phase = "fetch" /\ Fail
                    /\ phase' = "idle" /\ db' = [db EXCEPT !.height = at - 1]
                    /\ UNCHANGED <<recorder, crashes, anchors, file, audit, conn,
                                   alarmed, top, at, rolled, batch, done, auditFailed>>

\* A batch cannot be had: nothing is saved, not even the batches before it.
FetchFails == /\ phase = "fetch" /\ Fail
              /\ phase' = "idle"
              /\ UNCHANGED <<recorder, crashes, stored, conn, alarmed, top, at, rolled,
                             batch, done, auditFailed>>

FetchNothing == /\ phase = "fetch" /\ Served = <<>>
                /\ phase' = "save"
                /\ UNCHANGED <<recorder, fails, crashes, stored, conn, alarmed, top, at,
                               rolled, batch, done, auditFailed>>

FetchAltered == /\ phase = "fetch" /\ ~Verified(Served)
                /\ alarmed' = TRUE /\ phase' = "idle"
                /\ db' = [height |-> at - 1, rolled |-> rolled, status |-> "alert"]
                /\ UNCHANGED <<recorder, fails, crashes, anchors, file, audit, conn, top,
                               at, rolled, batch, done, auditFailed>>

FetchGood == /\ phase = "fetch" /\ Served /= <<>> /\ Verified(Served)
             /\ IF audit.ready
                THEN /\ phase' = "audit" /\ batch' = Served /\ done' = 0
                     /\ UNCHANGED <<at, rolled>>
                ELSE Advance(Served)
             /\ UNCHANGED <<recorder, fails, crashes, stored, conn, alarmed, top,
                            auditFailed>>

\* ---- the audit of a batch, block by block ----
\* A rotation makes its own hash a key; it is signed with the key before.
Rotations(h) == {i \in 1 .. Len(h) : h[i] = "rotation"}
Signer(b) == IF Rotations(b.prev) = {} THEN <<>>
             ELSE SubSeq(b.prev, 1, Max(Rotations(b.prev)))
Allowed(b) == b.content = "rotation" =>
                  Signer(b) \in audit.keys /\ b.hash \notin audit.keys

\* audit_block: a rotation that is not allowed is reported and not applied.
AuditBlock ==
    /\ phase = "audit" /\ done < Len(batch)
    /\ LET b == batch[done + 1] IN
       /\ audit' = [audit EXCEPT !.height = at + done,
                                 !.keys = IF b.content = "rotation" /\ Allowed(b)
                                          THEN @ \cup {b.hash} ELSE @]
       /\ alarmed' = (alarmed \/ ~Allowed(b))
       /\ auditFailed' = (auditFailed \/ ~Allowed(b))
    /\ done' = done + 1
    /\ UNCHANGED <<recorder, fails, crashes, db, anchors, file, conn, phase, top, at,
                   rolled, batch>>

\* The auditor's store fails: an alert, and the rest of the batch is not audited.
AuditError ==
    /\ phase = "audit" /\ done < Len(batch) /\ Fail
    /\ alarmed' = TRUE /\ auditFailed' = TRUE
    /\ Advance(batch)
    /\ UNCHANGED <<recorder, crashes, stored, conn, top>>

BatchAudited == /\ phase = "audit" /\ done = Len(batch)
                /\ Advance(batch)
                /\ UNCHANGED <<recorder, fails, crashes, stored, conn, alarmed, top,
                               auditFailed>>

\* ---- what is kept ----
LastAnchor == IF anchors = <<>> THEN 0 ELSE anchors[Len(anchors)].height
AnchorDue(height) == height >= LastAnchor + Interval
Anchored == [height |-> at - 1, rolled |-> rolled]

Save ==
    /\ phase = "save"
    /\ db' = [height |-> at - 1, rolled |-> rolled,
              status |-> IF auditFailed THEN "audit_alert" ELSE "ok"]
    /\ phase' = IF AnchorDue(at - 1) THEN "publish" ELSE "idle"
    /\ UNCHANGED <<recorder, fails, crashes, anchors, file, audit, conn, alarmed, top,
                   at, rolled, batch, done, auditFailed>>

Publish ==
    /\ phase = "publish"
    /\ \/ file' = Append(file, Anchored) /\ phase' = "record" /\ UNCHANGED fails
       \/ Fail /\ phase' = "idle" /\ UNCHANGED file
    /\ UNCHANGED <<recorder, crashes, db, anchors, audit, conn, alarmed, top, at, rolled,
                   batch, done, auditFailed>>

RecordAnchor ==
    /\ phase = "record" /\ phase' = "idle"
    /\ anchors' = Append(anchors, Anchored)
    /\ UNCHANGED <<recorder, fails, crashes, db, file, audit, conn, alarmed, top, at,
                   rolled, batch, done, auditFailed>>

\* The validator stops and is started again: the poll is gone.
Crash == /\ crashes < MaxCrashes /\ crashes' = crashes + 1
         /\ phase /= "idle" /\ phase' = "idle"
         /\ UNCHANGED <<recorder, fails, stored, conn, alarmed, top, at, rolled, batch,
                        done, auditFailed>>

Step == \/ Poll \/ InitAuditor \/ FetchNothing \/ FetchAltered \/ FetchGood
        \/ AuditBlock \/ BatchAudited \/ Save \/ Publish \/ RecordAnchor
Next == \/ Step
        \/ \E c \in Contents : Record(c)
        \/ \E k \in 0 .. MaxHeight : Cut(k)
        \/ \E k \in 1 .. MaxHeight, c \in Contents : Damage(k, c)
        \/ PollFails \/ FetchFails \/ AuditError \/ Crash

Spec == Init /\ [][Next]_vars

\* The loop goes round; the recorder answers.
FairSpec == Spec /\ WF_vars(Step)

\* ---- properties ----
\* Types; the poll works on top of what is saved.
Hash == Seq(Contents)
TypeOK == /\ {altered, fails, crashes, top, done} \subseteq Nat /\ at \in Nat \ {0}
          /\ db.status \in {"ok", "unreachable", "alert", "audit_alert"}
          /\ \A h \in Range(rolled) : h \in Hash
          /\ done <= Len(batch)
          /\ phase /= "idle" => at > db.height \/ phase \in {"publish", "record"}

\* However often a poll was cut short, by a request that failed or by a crash, what
\* is saved is what one pass over the recorder's blocks gives.
RolledIsHistory ==
    altered = 0 =>
        /\ db.height <= Len(chain)
        /\ db.rolled = [i \in 1 .. db.height |-> chain[i].hash]

\* The anchor file names every height at most once, in rising order, and holds every
\* anchor of the table: what it says of a height is found by reading it.
AnchorsIncrease == /\ \A i, j \in DOMAIN file : i < j => file[i].height < file[j].height
                   /\ Range(anchors) \subseteq Range(file)

\* A block damaged before it was fetched raises the alert, unless it is put right.
Fetched == IF phase = "idle" THEN db.height ELSE at - 1 + Len(batch)
DamageFound == \A k \in 1 .. MaxHeight :
                   Damaged(k) /\ k > Fetched ~> db.status = "alert" \/ ~Damaged(k)

\* ---- what documents and comments say and the code does not keep for some values
\* of the constants (README, 3.4) ----
\* "Cross-batch linkage is verified by the caller": the blocks taken as validated
\* follow one another.
Linked == \A i \in 2 .. Len(db.rolled) :
              db.rolled[i - 1] = SubSeq(db.rolled[i], 1, Len(db.rolled[i]) - 1)

\* "Recovery from alert requires manual intervention."
AlertHolds == [][db.status = "alert" => db'.height = db.height]_vars

\* Deleted blocks are an alteration: with status "ok" the recorder had, when asked,
\* the blocks that count as validated.
OkIsPresent == phase = "idle" /\ db.status = "ok" => db.height <= top

\* An alteration alert means that a hash does not match.
NoFalseAlarm == alarmed => altered > 0

\* "Treat audit errors as verification failures so the auditor doesn't fall
\* permanently behind": what counts as validated has been audited.
AuditKeepsUp == phase = "idle" /\ audit.ready => audit.height >= db.height

\* "Recovered" follows "unreachable": of a recorder that is unreachable, the last
\* alert says so.
ConnectionTold == phase = "idle" /\ db.status = "unreachable" => conn = "unreachable"
=============================================================================
