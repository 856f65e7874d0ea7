----------------------------- MODULE BlobStore ------------------------------
(***************************************************************************)
(* The recorder's blob store (ao-recorder/src/blob.rs): content-addressed  *)
(* files in one directory, shared by the chains of the host, and a table   *)
(* of who owns them, behind a lock that is held per statement.  Uploads    *)
(* run side by side with each other and with the pruning of expired blobs. *)
(*                                                                         *)
(* A blob stands for its content and for the hash of its content.  Types   *)
(* and sizes that the upload handler turns down are left out.              *)
(***************************************************************************)
EXTENDS Integers, FiniteSets, Functions

CONSTANTS
    Chains, Blobs, NoRow,
    Size,           \* bytes of each blob
    Quota,          \* quota_per_chain
    Ruled,          \* chains whose policy has a retention rule for the blobs
    Retention,      \* of that rule
    Cheap,          \* blobs too small to change the fee of a transfer
    Happenings,     \* what may happen besides: see Possible
    \* bounds of the instance
    Uploads,        \* requests that may be under way at once
    MaxTime, MaxRequests

Possible == {"io", "crash", "prune", "command", "record"}

BlobConstants ==
    /\ {Quota, Retention, MaxTime, MaxRequests} \subseteq Nat
    /\ Size \in [Blobs -> Nat \ {0}] /\ Ruled \subseteq Chains
    /\ Happenings \subseteq Possible
    /\ \A c \in Chains, t \in 0..MaxTime : [chain |-> c, at |-> t] # NoRow

VARIABLES
    file, temp,     \* of each blob: "none", "partial" or "full"
    rows,           \* blob_meta
    upload,         \* store() for each request under way
    pruning,        \* rows the pruning under way has yet to look at
    answered,       \* <<chain, blob>> of uploads answered with the hash, and
    pruned,         \* blobs removed, by the last pruning that touched the blob
    refused,        \* <<chain, blob>> of transfers turned down for their fee
    requests, now

disk == <<file, temp>>
world == <<refused, requests, now>>
vars == <<disk, rows, upload, pruning, answered, pruned, world>>

Idle == [chain |-> NoRow, blob |-> NoRow, step |-> "idle", on |-> "none"]
Row(c) == [chain |-> c, at |-> now]
Owned(c) == {b \in Blobs : rows[b] # NoRow /\ rows[b].chain = c}

\* chain_usage_from_db: what the rows say, files or not.
Usage(c) == SumFunction([b \in Owned(c) |-> Size[b]])

----------------------------------------------------------------------------
(* store() *)

Go(u, step) == upload' = [upload EXCEPT ![u].step = step]
Done(u) == upload' = [upload EXCEPT ![u] = Idle]

Post(u, c, b) ==            \* upload_blob
    /\ upload[u].step = "idle" /\ requests < MaxRequests
    /\ upload' = [upload EXCEPT ![u] = [chain |-> c, blob |-> b, step |-> "look", on |-> "none"]]
    /\ requests' = requests + 1
    /\ UNCHANGED <<disk, rows, pruning, answered, pruned, refused, now>>

Look(u) ==
    /\ upload[u].step = "look"
    /\ Go(u, IF file[upload[u].blob] # "none" THEN "known" ELSE "reserve")
    /\ UNCHANGED <<disk, rows, pruning, answered, pruned, world>>

\* The file is there: INSERT OR IGNORE.
Known(u) ==
    LET b == upload[u].blob IN
    /\ upload[u].step = "known"
    /\ rows' = IF rows[b] = NoRow THEN [rows EXCEPT ![b] = Row(upload[u].chain)] ELSE rows
    /\ answered' = answered \cup {<<upload[u].chain, b>>}
    /\ Done(u)
    /\ UNCHANGED <<disk, pruning, pruned, world>>

Fits(c, b) == Usage(c) + Size[b] <= Quota

ReserveUnreserved(u) ==     \* mutant: the check alone, no row
    LET b == upload[u].blob  c == upload[u].chain IN
    /\ upload[u].step = "reserve" /\ Fits(c, b)
    /\ Go(u, "open")
    /\ UNCHANGED <<disk, rows, pruning, answered, pruned, world>>
\* Quota check and INSERT OR REPLACE under one lock.
Reserve(u) ==
    LET b == upload[u].blob  c == upload[u].chain IN
    /\ upload[u].step = "reserve" /\ Fits(c, b)
    /\ rows' = [rows EXCEPT ![b] = Row(c)]
    /\ Go(u, "open")
    /\ UNCHANGED <<disk, pruning, answered, pruned, world>>

Refuse(u) ==
    /\ upload[u].step = "reserve" /\ ~Fits(upload[u].chain, upload[u].blob)
    /\ Done(u)
    /\ UNCHANGED <<disk, rows, pruning, answered, pruned, world>>

\* fs::write opens and truncates the temporary file, which is named by the hash.
OpenTemp(u) ==
    /\ upload[u].step = "open"
    /\ temp' = [temp EXCEPT ![upload[u].blob] = "partial"]
    /\ upload' = [upload EXCEPT ![u].step = "write", ![u].on = "temp"]
    /\ UNCHANGED <<file, rows, pruning, answered, pruned, world>>

\* The bytes go to the file opened, under whatever name it has by now.
Write(u) ==
    LET b == upload[u].blob IN
    /\ upload[u].step = "write"
    /\ temp' = IF upload[u].on = "temp" THEN [temp EXCEPT ![b] = "full"] ELSE temp
    /\ file' = IF upload[u].on = "file" THEN [file EXCEPT ![b] = "full"] ELSE file
    /\ Go(u, "rename")
    /\ UNCHANGED <<rows, pruning, answered, pruned, world>>

WriteFails(u) ==
    /\ "io" \in Happenings /\ upload[u].step \in {"open", "write"}
    /\ Go(u, "undo")
    /\ UNCHANGED <<disk, rows, pruning, answered, pruned, world>>

\* Files of one name that are open are renamed or removed with the name.
Moved(b, from, to) ==
    [u \in Uploads |-> IF upload[u].blob = b /\ upload[u].on = from
                       THEN [upload[u] EXCEPT !.on = to] ELSE upload[u]]

Rename(u) ==
    LET b == upload[u].blob
        moved == IF file[b] = "none" THEN Moved(b, "temp", "file")
                 ELSE LET away == Moved(b, "file", "gone") IN
                      [v \in Uploads |-> IF away[v].blob = b /\ away[v].on = "temp"
                                         THEN [away[v] EXCEPT !.on = "file"] ELSE away[v]]
    IN
    /\ upload[u].step = "rename" /\ temp[b] # "none"
    /\ file' = [file EXCEPT ![b] = temp[b]]
    /\ temp' = [temp EXCEPT ![b] = "none"]
    /\ upload' = [moved EXCEPT ![u] = Idle]
    /\ answered' = answered \cup {<<upload[u].chain, b>>}
    /\ pruned' = pruned \ {b}
    /\ UNCHANGED <<rows, pruning, world>>

\* The rename fails, but the file is there: another request has moved the
\* temporary file already.
Overtaken(u) ==
    LET b == upload[u].blob IN
    /\ upload[u].step = "rename" /\ file[b] # "none"
    /\ temp[b] = "none" \/ "io" \in Happenings
    /\ temp' = [temp EXCEPT ![b] = "none"]
    /\ upload' = [Moved(b, "temp", "gone") EXCEPT ![u] = Idle]
    /\ answered' = answered \cup {<<upload[u].chain, b>>}
    /\ UNCHANGED <<file, rows, pruning, pruned, world>>

\* The rename fails: for good, or because neither file is there any more.
RenameFails(u) ==
    LET b == upload[u].blob IN
    /\ upload[u].step = "rename" /\ file[b] = "none"
    /\ temp[b] = "none" \/ "io" \in Happenings
    /\ temp' = [temp EXCEPT ![b] = "none"]
    /\ upload' = [Moved(b, "temp", "gone") EXCEPT ![u].step = "undo"]
    /\ UNCHANGED <<file, rows, pruning, answered, pruned, world>>

Undo(u) ==
    /\ upload[u].step = "undo"
    /\ rows' = [rows EXCEPT ![upload[u].blob] = NoRow]
    /\ Done(u)
    /\ UNCHANGED <<disk, pruning, answered, pruned, world>>

----------------------------------------------------------------------------
(* get() and prune() *)

\* What GET answers chain c for blob b.
Gets(c, b) ==
    IF rows[b] # NoRow /\ rows[b].chain # c THEN "not found"
    ELSE IF file[b] # "none" THEN file[b]
    ELSE IF rows[b] # NoRow THEN "gone" ELSE "not found"

Expired(b, r) == r # NoRow /\ r.chain \in Ruled /\ now - r.at > Retention

\* What was answered about blobs ends with their removal.
Forget(bs) ==
    /\ pruned' = pruned \cup bs
    /\ answered' = {p \in answered : p[2] \notin bs}

PruneStartFirst ==          \* mutant: the loop ends after its first blob
    /\ "prune" \in Happenings /\ pruning = {}
    /\ \E b \in Blobs : Expired(b, rows[b])
    /\ pruning' = {CHOOSE b \in Blobs : Expired(b, rows[b])}
    /\ UNCHANGED <<disk, rows, upload, answered, pruned, world>>
\* prune reads the table; later it removes the files of the expired rows.
PruneStart ==
    /\ "prune" \in Happenings /\ pruning = {}
    /\ pruning' = {b \in Blobs : Expired(b, rows[b])}
    /\ pruning' # {}
    /\ UNCHANGED <<disk, rows, upload, answered, pruned, world>>

Prune(b) ==
    /\ b \in pruning
    /\ pruning' = pruning \ {b}
    /\ Forget({b})
    /\ file' = [file EXCEPT ![b] = "none"]
    /\ upload' = Moved(b, "file", "gone")
    /\ UNCHANGED <<temp, rows, world>>

\* Opening the store removes what look like leftovers.
Cleaned == temp' = [b \in Blobs |-> "none"]

\* The host dies and comes back.
Crash ==
    /\ "crash" \in Happenings
    /\ upload' = [u \in Uploads |-> Idle] /\ pruning' = {}
    /\ Cleaned
    /\ UNCHANGED <<file, rows, answered, pruned, world>>

\* `ao-recorder prune` opens the same store beside the running host.
Command ==
    /\ "command" \in Happenings
    /\ Cleaned
    /\ LET old == {b \in Blobs : Expired(b, rows[b])} IN
       /\ file' = [b \in Blobs |-> IF b \in old THEN "none" ELSE file[b]]
       /\ Forget(old)
       /\ upload' = [u \in Uploads |->
             IF upload[u].on = "temp" \/ (upload[u].on = "file" /\ upload[u].blob \in old)
             THEN [upload[u] EXCEPT !.on = "gone"] ELSE upload[u]]
    /\ UNCHANGED <<rows, pruning, world>>

\* A file is named by the hash of its bytes, an attachment's place in the
\* transfer is taken by the hash of the DATA_BLOB item that holds them.
Name(b) == [hashOf |-> "bytes", blob |-> b]
Link(b) == [hashOf |-> "item", blob |-> b]

\* collect_blob_sizes: the sizes of the transfer's hashes, as far as they are
\* known; the wallet has paid for the whole blob, and the fee must be exact.
Record(c, b) ==
    /\ "record" \in Happenings /\ <<c, b>> \in answered
    /\ LET known == \E x \in Owned(c) : Name(x) = Link(b) IN
       refused' = IF known \/ b \in Cheap THEN refused ELSE refused \cup {<<c, b>>}
    /\ UNCHANGED <<disk, rows, upload, pruning, answered, pruned, requests, now>>

Tick ==
    /\ now < MaxTime
    /\ now' = now + 1
    /\ UNCHANGED <<disk, rows, upload, pruning, answered, pruned, refused, requests>>

----------------------------------------------------------------------------
Init ==
    /\ file = [b \in Blobs |-> "none"] /\ temp = file
    /\ rows = [b \in Blobs |-> NoRow]
    /\ upload = [u \in Uploads |-> Idle]
    /\ pruning = {} /\ answered = {} /\ pruned = {} /\ refused = {}
    /\ requests = 0 /\ now = 0

Step(u) ==
    \/ Look(u) \/ Known(u) \/ Reserve(u) \/ Refuse(u) \/ OpenTemp(u) \/ Write(u)
    \/ WriteFails(u) \/ Rename(u) \/ Overtaken(u) \/ RenameFails(u) \/ Undo(u)

Next ==
    \/ \E u \in Uploads : Step(u) \/ \E c \in Chains, b \in Blobs : Post(u, c, b)
    \/ \E c \in Chains, b \in Blobs : Record(c, b)
    \/ PruneStart \/ \E b \in Blobs : Prune(b)
    \/ Crash \/ Command \/ Tick

Spec == Init /\ [][Next]_vars

\* The clock and the pruning loop go on; requests need not.
FairSpec ==
    /\ Spec /\ WF_vars(Tick)
    /\ WF_vars(PruneStart \/ \E b \in Blobs : Prune(b))

----------------------------------------------------------------------------
\* Types, and a temporary file has its request: no crash leaves one behind for
\* good (the cleanup of BlobStore::new).
TypeOK ==
    /\ file \in [Blobs -> {"none", "partial", "full"}]
    /\ temp \in [Blobs -> {"none", "partial", "full"}]
    /\ \A b \in Blobs : rows[b] = NoRow \/ (rows[b].chain \in Chains /\ rows[b].at \in 0..now)
    /\ \A b \in Blobs : temp[b] # "none" =>
          "io" \in Happenings \/ \E u \in Uploads : upload[u].blob = b
    /\ \A u \in Uploads :
          /\ upload[u].on = "temp" => temp[upload[u].blob] # "none"
          /\ upload[u].on = "file" => file[upload[u].blob] # "none"

\* No chain's rows exceed its quota, however many uploads run side by side (the
\* lock over check and insert in store()).
QuotaKept == \A c \in Chains : Usage(c) <= Quota

\* Every file has its row, so every byte counts for somebody and only the owner
\* reads it (the row is reserved before the file is written).
FilesAreOwned == \A b \in Blobs : file[b] # "none" => rows[b] # NoRow

\* Expired blobs go in the end, all of them.
ExpiredGo ==
    \A b \in Blobs :
        Expired(b, rows[b]) ~> (file[b] = "none" \/ ~Expired(b, rows[b]))

----------------------------------------------------------------------------
(* What documents and comments say and the code does not keep for some     *)
(* values of the constants: README, 3.4.                                   *)

\* A hash answered to a chain can be fetched by it, whole, until it is pruned.
AnsweredIsReadable ==
    \A p \in answered : Gets(p[1], p[2]) = "full"

\* What is served is whole ("atomic write").
ServedIsWhole == \A c \in Chains, b \in Blobs : Gets(c, b) # "partial"

\* A blob is removed only after its retention (BLOB_POLICY).
KeptUntilExpiry ==
    [][\A b \in Blobs : (file[b] # "none" /\ file'[b] = "none") =>
          Expired(b, rows[b])]_vars

\* Chains see only what they uploaded themselves.
Isolated ==
    \A c \in Chains, b \in Blobs :
        Gets(c, b) \in {"full", "partial"} =>
            <<c, b>> \in answered
            \/ \E u \in Uploads : upload[u].chain = c /\ upload[u].blob = b

\* An upload is refused only if the chain's files fill its quota.
RefusedWhenFull ==
    \A u \in Uploads :
        (upload[u].step = "reserve" /\ ~Fits(upload[u].chain, upload[u].blob)) =>
            SumFunction([b \in {x \in Owned(upload[u].chain) : file[x] # "none"} |-> Size[b]])
                + Size[upload[u].blob] > Quota

\* 410 means that the blob was pruned.
GoneIsPruned == \A c \in Chains, b \in Blobs : Gets(c, b) = "gone" => b \in pruned

\* A transfer is not turned down for the blob it carries, once that is uploaded.
AttachmentIsTaken == refused = {}
=============================================================================
