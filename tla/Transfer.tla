------------------------------ MODULE Transfer ------------------------------
(***************************************************************************)
(* The wallet's single-key transfer and its offline queue: generate, import*)
(* and clear the active key, scan for its UTXOs, build, confirm, and the   *)
(* flushes that resubmit what was queued (ao-pwa: ConsumerView.tsx,        *)
(* offlineQueue.ts, App.tsx).  React state and the keys of an unfinished   *)
(* transfer are memory and die with the page; the tables of IndexedDB stay.*)
(*                                                                         *)
(* A key holds at most one UTXO, so a UTXO is named by its key.  Amounts   *)
(* and the fee are in TransferFee; attachments are left out.               *)
(***************************************************************************)
EXTENDS Integers, SequencesExt

CONSTANTS
    Keys,           \* signing keys
    Funded,         \* keys the wallet holds with an unspent UTXO at the start
    Flushers,       \* concurrent runs of flushPending: the 30 s interval, the
                    \* online event, another tab
    Happenings,     \* what may happen besides: see Possible
    NoKey,
    \* bound of the instance
    MaxBuilds       \* assignments built

Possible == {"lost", "reload", "clear", "unlock", "external", "overdue"}

TransferConstants ==
    /\ IsFiniteSet(Keys) /\ Funded \subseteq Keys /\ Funded # {} /\ NoKey \notin Keys
    /\ Flushers \cap {"confirm", "nobody"} = {}
    /\ Happenings \subseteq Possible
    /\ MaxBuilds \in Nat

VARIABLES
    \* the recorder
    chain,          \* state of each key's UTXO
    recorded,       \* assignments it has recorded
    overdue,        \* assignments whose DEADLINE has passed
    \* IndexedDB
    rows,           \* keys table in order of insertion
    queue,          \* offline queue in order of insertion
    \* the page
    active,         \* publicKeyHex, storedSeedHex
    scanning,       \* key whose scan is under way
    selected,       \* selectedUtxo
    pending,        \* pendingTransfer, a sequence of at most one assignment
    confirm,        \* the running handleConfirm
    flush,          \* entries each flush has still to try
    \* network
    wire, online, built

server == <<chain, recorded, overdue>>
page == <<active, scanning, selected, pending, confirm, flush>>
vars == <<server, rows, queue, page, wire, online, built>>

Senders == {"confirm"} \cup Flushers
Assignments == [id : 1..MaxBuilds, giver : Keys, signer : Keys,
                own : SUBSET Keys, external : BOOLEAN]
Idle == [step |-> "idle"]

RowKeys == {rows[i].key : i \in DOMAIN rows}
Known == RowKeys \cup {k \in Keys : chain[k] # "none"}
              \cup UNION {a.own : a \in {queue[i].asg : i \in DOMAIN queue} \cup {w.asg : w \in wire}}
              \cup UNION {pending[i].own : i \in DOMAIN pending} \cup ({active} \ {NoKey})
Fresh == Keys \ Known

\* The n keys generateSigningKey returns.
NewKeys(n) ==
    IF n > Cardinality(Fresh) THEN {}
    ELSE CHOOSE s \in SUBSET Fresh : Cardinality(s) = n

\* importKeyIfNew: one readwrite transaction
WithRow(rs, k) ==
    IF \E i \in DOMAIN rs : rs[i].key = k THEN rs
    ELSE Append(rs, [key |-> k, status |-> "unconfirmed"])

\* markKeySpent: only rows that are unspent
WithSpent(rs, k) ==
    [i \in DOMAIN rs |-> IF rs[i].key = k /\ rs[i].status = "unspent"
                         THEN [rs[i] EXCEPT !.status = "spent"] ELSE rs[i]]

Init ==
    /\ chain = [k \in Keys |-> IF k \in Funded THEN "unspent" ELSE "none"]
    /\ rows = SetToSeq({[key |-> k, status |-> "unspent"] : k \in Funded})
    /\ active = Last(rows).key
    /\ recorded = {} /\ overdue = {} /\ wire = {} /\ built = 0
    /\ queue = <<>> /\ pending = <<>>
    /\ scanning = NoKey /\ selected = NoKey /\ confirm = Idle
    /\ flush = [f \in Flushers |-> {}] /\ online = TRUE

-----------------------------------------------------------------------------
(* The wallet panel. *)

\* Generate and Import are offered while there is no active key.
handleImport(k) ==
    /\ active = NoKey
    /\ k \in RowKeys \cup NewKeys(1)
    /\ active' = k /\ rows' = WithRow(rows, k) /\ selected' = NoKey
    /\ UNCHANGED <<server, queue, scanning, pending, confirm, flush, wire, online, built>>

\* pendingTransfer survives, and so does a scan under way.
handleClear ==
    /\ "clear" \in Happenings /\ active # NoKey
    /\ active' = NoKey /\ selected' = NoKey
    /\ UNCHANGED <<server, rows, queue, scanning, pending, confirm, flush, wire, online, built>>

\* The effect of App.tsx runs at start and whenever the passphrase changes.
Restored ==
    LET live == {i \in DOMAIN rows : rows[i].status \in {"unspent", "unconfirmed"}}
    IN  IF live = {} THEN active ELSE rows[Max(live)].key

Unlock ==
    /\ "unlock" \in Happenings /\ active # Restored
    /\ active' = Restored
    /\ UNCHANGED <<server, rows, queue, scanning, selected, pending, confirm, flush, wire, online, built>>

ScanStart ==
    /\ active # NoKey /\ scanning = NoKey /\ online
    /\ scanning' = active
    /\ UNCHANGED <<server, rows, queue, active, selected, pending, confirm, flush, wire, online, built>>

\* The result is for the key that was active when the button was pressed.
ScanEnd ==
    /\ scanning # NoKey
    /\ selected' = IF online /\ chain[scanning] = "unspent" THEN scanning ELSE NoKey
    /\ scanning' = NoKey
    /\ UNCHANGED <<server, rows, queue, active, pending, confirm, flush, wire, online, built>>

-----------------------------------------------------------------------------
(* The transfer. *)

\* The assignment is signed with the seed of the active key.
handleBuild(own, external) ==
    /\ active # NoKey /\ selected # NoKey /\ pending = <<>> /\ confirm = Idle
    /\ built < MaxBuilds
    /\ pending' = <<[id |-> built + 1, giver |-> selected, signer |-> active,
                     own |-> own, external |-> external]>>
    /\ built' = built + 1
    /\ UNCHANGED <<server, rows, queue, active, scanning, selected, confirm, flush, wire, online>>

\* A receiver of one's own or an external one, with or without change.
Build ==
    \E external, needsChange \in BOOLEAN :
        LET n == (IF external THEN 0 ELSE 1) + (IF needsChange THEN 1 ELSE 0) IN
        /\ external => "external" \in Happenings
        /\ Cardinality(NewKeys(n)) = n
        /\ handleBuild(NewKeys(n), external)

Edit ==
    /\ pending # <<>> /\ confirm = Idle
    /\ pending' = <<>>
    /\ UNCHANGED <<server, rows, queue, active, scanning, selected, confirm, flush, wire, online, built>>

\* A fetch is under way or its answer has not been looked at.
Waiting(by) == \E w \in wire : w.by = by

Post(a, by) == wire' = wire \cup {[asg |-> a, by |-> by, state |-> "request"]}

\* The handler keeps the publicKeyHex of the moment it was clicked; an absent
\* one makes markKeySpent look for no key at all.
handleConfirm ==
    /\ pending # <<>> /\ confirm = Idle
    /\ confirm' = [step |-> "sending", asg |-> pending[1], payer |-> active]
    /\ IF online THEN Post(pending[1], "confirm") ELSE UNCHANGED wire
    /\ UNCHANGED <<server, rows, queue, active, scanning, selected, pending, flush, online, built>>

Recorded ==
    \E w \in wire :
        /\ w.by = "confirm" /\ w.state = "ok"
        /\ wire' = wire \ {w}
        /\ rows' = WithSpent(rows, confirm.payer)
        /\ confirm' = [step |-> "saving", asg |-> confirm.asg, left |-> confirm.asg.own]
        /\ UNCHANGED <<server, queue, active, scanning, selected, pending, flush, online, built>>

SaveKey ==
    /\ confirm.step = "saving"
    /\ \E k \in confirm.left :
        /\ rows' = WithRow(rows, k)
        /\ confirm' = [confirm EXCEPT !.left = @ \ {k}]
    /\ UNCHANGED <<server, queue, active, scanning, selected, pending, flush, wire, online, built>>

FinishEarly ==      \* mutant: the keys are saved without waiting
    /\ confirm.step = "saving"
    /\ confirm' = Idle /\ pending' = <<>> /\ selected' = NoKey
    /\ UNCHANGED <<server, rows, queue, active, scanning, flush, wire, online, built>>
Finish ==
    /\ confirm.step = "saving" /\ confirm.left = {}
    /\ confirm' = Idle /\ pending' = <<>> /\ selected' = NoKey
    /\ UNCHANGED <<server, rows, queue, active, scanning, flush, wire, online, built>>

\* The recorder's refusal is shown and the transfer can be confirmed again.
Refused ==
    \E w \in wire :
        /\ w.by = "confirm" /\ w.state = "refused"
        /\ wire' = wire \ {w} /\ confirm' = Idle
        /\ UNCHANGED <<server, rows, queue, active, scanning, selected, pending, flush, online, built>>

\* fetch failed: the assignment is queued, the keys it pays to are dropped.
Queued ==
    /\ confirm.step = "sending" /\ ~Waiting("confirm")
    /\ queue' = Append(queue, [asg |-> confirm.asg, status |-> "pending"])
    /\ confirm' = Idle /\ pending' = <<>> /\ selected' = NoKey
    /\ UNCHANGED <<server, rows, active, scanning, flush, wire, online, built>>

-----------------------------------------------------------------------------
(* The offline queue. *)

PendingIds == {i \in DOMAIN queue : queue[i].status = "pending"}

\* A flush goes through the entries it has read in the order of insertion.
AfterFirst(ids) == ids \ {Min(ids)}

flushPending(f) ==
    /\ online /\ flush[f] = {} /\ PendingIds # {}
    /\ flush' = [flush EXCEPT ![f] = PendingIds]
    /\ UNCHANGED <<server, rows, queue, active, scanning, selected, pending, confirm, wire, online, built>>

FlushSend(f) ==
    /\ flush[f] # {} /\ ~Waiting(f) /\ online
    /\ Post(queue[Min(flush[f])].asg, f)
    /\ UNCHANGED <<server, rows, queue, page, online, built>>

MarkedAlways(ok) == "submitted"     \* mutant: res.ok is not looked at
Marked(ok) == IF ok THEN "submitted" ELSE "failed"

FlushAnswer(f) ==
    \E w \in wire :
        /\ w.by = f /\ w.state # "request"
        /\ wire' = wire \ {w}
        /\ queue' = [queue EXCEPT ![Min(flush[f])].status = Marked(w.state = "ok")]
        /\ flush' = [flush EXCEPT ![f] = AfterFirst(@)]
        /\ UNCHANGED <<server, rows, active, scanning, selected, pending, confirm, online, built>>

\* A network error leaves the entry pending and goes on with the next.
FlushError(f) ==
    /\ flush[f] # {} /\ ~Waiting(f) /\ ~online
    /\ flush' = [flush EXCEPT ![f] = AfterFirst(@)]
    /\ UNCHANGED <<server, rows, queue, active, scanning, selected, pending, confirm, wire, online, built>>

-----------------------------------------------------------------------------
(* The recorder, the network and the page's life. *)

\* ao-recorder's submit, as far as an honest wallet sees it: the giver's UTXO
\* is unspent, givers and receivers have signed, the deadline has not passed.
Accepts(a) ==
    /\ chain[a.giver] = "unspent" /\ a.signer = a.giver
    /\ ~a.external /\ a \notin overdue

Submit(by) ==
    \E w \in wire :
        /\ w.by = by /\ w.state = "request"
        /\ LET ok == Accepts(w.asg) IN
            /\ wire' = (wire \ {w}) \cup (IF by = "nobody" THEN {}
                       ELSE {[w EXCEPT !.state = IF ok THEN "ok" ELSE "refused"]})
            /\ recorded' = IF ok THEN recorded \cup {w.asg} ELSE recorded
            /\ chain' = IF ok THEN [k \in Keys |-> IF k = w.asg.giver THEN "spent"
                                    ELSE IF k \in w.asg.own THEN "unspent" ELSE chain[k]]
                        ELSE chain
        /\ UNCHANGED <<overdue, rows, queue, page, online, built>>

\* The connection breaks: requests may still arrive, answers do not.
Abandoned(ws) == {[w EXCEPT !.by = "nobody"] : w \in {v \in ws : v.state = "request"}}

GoOffline ==
    /\ "lost" \in Happenings /\ online
    /\ online' = FALSE
    /\ wire' = Abandoned(wire)
    /\ flush' = [f \in Flushers |-> IF Waiting(f) THEN AfterFirst(flush[f]) ELSE flush[f]]
    /\ UNCHANGED <<server, rows, queue, active, scanning, selected, pending, confirm, built>>

GoOnline ==
    /\ ~online /\ online' = TRUE
    /\ UNCHANGED <<server, rows, queue, page, wire, built>>

\* The page is closed or killed and opened again.
Reload ==
    /\ "reload" \in Happenings
    /\ wire' = Abandoned(wire)
    /\ active' = (IF Restored \in RowKeys THEN Restored ELSE NoKey)
    /\ scanning' = NoKey /\ selected' = NoKey /\ pending' = <<>> /\ confirm' = Idle
    /\ flush' = [f \in Flushers |-> {}]
    /\ UNCHANGED <<server, rows, queue, online, built>>

Overdue ==
    /\ "overdue" \in Happenings
    /\ \E i \in DOMAIN queue : /\ queue[i].asg \notin overdue
                               /\ overdue' = overdue \cup {queue[i].asg}
    /\ UNCHANGED <<chain, recorded, rows, queue, page, wire, online, built>>

Network ==
    \/ \E by \in Senders \cup {"nobody"} : Submit(by)
    \/ GoOffline \/ GoOnline

Flush(f) ==
    flushPending(f) \/ FlushSend(f) \/ FlushAnswer(f) \/ FlushError(f)

Next ==
    \/ \E k \in Keys : handleImport(k)
    \/ handleClear \/ Unlock \/ ScanStart \/ ScanEnd
    \/ Build \/ Edit \/ handleConfirm \/ Recorded \/ SaveKey \/ Finish \/ Refused \/ Queued
    \/ \E f \in Flushers : Flush(f)
    \/ Network \/ Reload \/ Overdue

Spec == Init /\ [][Next]_vars

-----------------------------------------------------------------------------
(* Properties. *)

\* Types; and importKeyIfNew keeps the keys table free of duplicates although
\* the handlers that call it overlap.
TypeOK ==
    /\ chain \in [Keys -> {"none", "unspent", "spent"}]
    /\ recorded \subseteq Assignments /\ overdue \subseteq Assignments
    /\ rows \in Seq([key : Keys, status : {"unconfirmed", "unspent", "spent"}])
    /\ Cardinality(RowKeys) = Len(rows)
    /\ queue \in Seq([asg : Assignments, status : {"pending", "submitted", "failed"}])
    /\ {active, scanning, selected} \subseteq Keys \cup {NoKey}
    /\ pending \in Seq(Assignments) /\ Len(pending) <= 1
    /\ confirm.step \in {"idle", "sending", "saving"}
    /\ flush \in [Flushers -> SUBSET DOMAIN queue]
    /\ wire \subseteq [asg : Assignments, by : Senders \cup {"nobody"},
                       state : {"request", "ok", "refused"}]
    /\ online \in BOOLEAN /\ built \in 0..MaxBuilds

\* What the queue calls submitted is in a block, whatever flushes overlap and
\* whenever the page dies between the answer and the mark.
SubmittedIsRecorded ==
    \A i \in DOMAIN queue : queue[i].status = "submitted" => queue[i].asg \in recorded

\* The seed of every key of one's own that a recorded assignment pays to is
\* stored, or the handler that will store it is still running.
NewKeysStored ==
    \A a \in recorded : \A k \in a.own :
        \/ k \in RowKeys
        \/ confirm.step # "idle" /\ confirm.asg = a

-----------------------------------------------------------------------------
(* What documents and comments say and the code does not keep for some     *)
(* values of the constants: README, 3.4.                                   *)

\* A row marked spent belongs to a key whose UTXO is spent.
SpentMarkIsTrue ==
    \A i \in DOMAIN rows : rows[i].status = "spent" => chain[rows[i].key] = "spent"

\* An assignment that was recorded does not end as failed in the queue.
CompletedIsKnown ==
    \A i \in DOMAIN queue : queue[i].status = "failed" => queue[i].asg \notin recorded

\* The UTXO offered for a transfer belongs to the active key.
SelectionIsOwn ==
    selected # NoKey => selected = active

\* The recorder refuses an assignment only when its giver's UTXO is spent or
\* its deadline has passed.
RefusedWithCause ==
    \A w \in wire : w.state = "refused" =>
        chain[w.asg.giver] = "spent" \/ w.asg \in overdue
=============================================================================
