----------------------------- MODULE CoopNotes -----------------------------
(***************************************************************************)
(* Cooperative notes in the wallet: a record is prepared in one view, put  *)
(* into the next transfer in another, recorded, and read back from the     *)
(* blocks as a ledger (ao-pwa: CooperativeView.tsx, ConsumerView.tsx,      *)
(* cooperativeMetadata.ts, assignment.ts, separable.ts).                   *)
(*                                                                         *)
(* A note is one entered record; entering the same words again is another  *)
(* note.  Keys, amounts and attachments are in Transfer and TransferFee;   *)
(* here a giver is one UTXO and a fee is what it is computed from.         *)
(***************************************************************************)
EXTENDS Integers, FiniteSets, SequencesExt

CONSTANTS
    Chains, Notes, NoNote,
    Givers,         \* UTXOs of the wallet, each on every chain
    LongNotes,      \* notes that cost more as text than as a hash
    BlockRange,     \* MAX_BLOCK_RANGE
    Happenings,     \* what may happen besides: see Possible
    \* bound of the instance
    MaxBlocks       \* blocks of one chain

Possible == {"select", "fail", "lost", "leave", "foreign"}

CoopConstants ==
    /\ NoNote \notin Notes /\ LongNotes \subseteq Notes
    /\ {BlockRange, MaxBlocks} \subseteq Nat \ {0}
    /\ Happenings \subseteq Possible

VARIABLES
    \* the recorder
    blocks,         \* of each chain: the note of a block, and whether as text
    spent,          \* givers spent, with their chain
    \* the page
    view, selected,
    pending,        \* pendingCoopNote
    prepared,       \* notes entered so far
    ledger,         \* records, whether they come from a load, and loadError
    loads,          \* getBlocks under way
    form,           \* pendingTransfer of the mounted ConsumerView
    confirms,       \* handleConfirm under way
    queue           \* offline queue

recorder == <<blocks, spent>>
reading == <<ledger, loads>>
writing == <<form, confirms, queue>>
vars == <<recorder, view, selected, pending, prepared, reading, writing>>

NoForm == [note |-> NoNote, giver |-> "none", chain |-> "none"]
Unread == [records |-> <<>>, at |-> 0, error |-> FALSE]

\* What the fee of an assignment is computed from.
TextCost(n) == IF n = NoNote THEN 0 ELSE IF n \in LongNotes THEN 2 ELSE 1
HashCost(n) == IF n = NoNote THEN 0 ELSE 1

\* scanBlocksForCoopRecords: NOTE items only, not the hash of one.
IsRecord(b) == b.text /\ b.note # NoNote
Records(bs) ==
    LET upTo[n \in 0..Len(bs)] ==
            IF n = 0 THEN <<>>
            ELSE IF IsRecord(bs[n]) THEN Append(upTo[n - 1], bs[n].note) ELSE upTo[n - 1]
    IN upTo[Len(bs)]

----------------------------------------------------------------------------
(* The ledger *)

\* The effect's clean-up cancels what is under way, the effect asks again.
Load(c) == {[l EXCEPT !.live = FALSE] : l \in loads}
           \cup {[chain |-> c, live |-> TRUE, step |-> "asked"]}

\* GET /chain/{id}/blocks without from and to
Serve(l) ==
    /\ l.step = "asked"
    /\ LET bs == blocks[l.chain]
           n == IF Len(bs) < BlockRange THEN Len(bs) ELSE BlockRange
       IN loads' = (loads \ {l}) \cup
            {[chain |-> l.chain, live |-> l.live, step |-> "served",
              records |-> Records(SubSeq(bs, 1, n)), at |-> Len(bs)]}
    /\ UNCHANGED <<recorder, view, selected, pending, prepared, ledger, writing>>

LoadedLate(l) ==         \* mutant: without `if (cancelled) return`
    /\ l.step = "served"
    /\ loads' = loads \ {l}
    /\ ledger' = [records |-> l.records, at |-> l.at, error |-> FALSE]
    /\ UNCHANGED <<recorder, view, selected, pending, prepared, writing>>
Loaded(l) ==
    /\ l.step = "served"
    /\ loads' = loads \ {l}
    /\ ledger' = IF l.live THEN [records |-> l.records, at |-> l.at, error |-> FALSE]
                 ELSE ledger
    /\ UNCHANGED <<recorder, view, selected, pending, prepared, writing>>

LoadFails(l) ==
    /\ "fail" \in Happenings
    /\ loads' = loads \ {l}
    /\ ledger' = IF l.live THEN [ledger EXCEPT !.error = TRUE] ELSE ledger
    /\ UNCHANGED <<recorder, view, selected, pending, prepared, writing>>

\* selectChain: a mounted CooperativeView loads the other chain's blocks.
Select(c) ==
    /\ "select" \in Happenings /\ c # selected
    /\ selected' = c
    /\ loads' = IF view = "coop" THEN Load(c) ELSE loads
    /\ UNCHANGED <<recorder, view, pending, prepared, ledger, writing>>

ToCoop ==           \* ConsumerView is unmounted, with its state
    /\ view = "consumer"
    /\ "leave" \in Happenings \/ \A r \in confirms : ~r.mounted
    /\ view' = "coop"
    /\ form' = NoForm
    /\ confirms' = {[r EXCEPT !.mounted = FALSE] : r \in confirms}
    /\ ledger' = Unread
    /\ loads' = Load(selected)
    /\ UNCHANGED <<recorder, selected, pending, prepared, queue>>

ToConsumer ==
    /\ view = "coop"
    /\ view' = "consumer"
    /\ loads' = {[l EXCEPT !.live = FALSE] : l \in loads}
    /\ UNCHANGED <<recorder, selected, pending, prepared, ledger, writing>>

\* handleAttachNote
Prepare(n) ==
    /\ view = "coop" /\ n \notin prepared
    /\ pending' = n
    /\ prepared' = prepared \cup {n}
    /\ UNCHANGED <<recorder, view, selected, reading, writing>>

Clear ==            \* PendingNoteIndicator
    /\ view = "coop" /\ pending # NoNote
    /\ pending' = NoNote
    /\ UNCHANGED <<recorder, view, selected, prepared, reading, writing>>

----------------------------------------------------------------------------
(* The transfer *)

Busy == \E r \in confirms : r.mounted      \* loading
Used == {r.giver : r \in confirms} \cup {q.giver : q \in Range(queue)}

\* handleBuild: the fee is computed with the note as text.
Build(g) ==
    /\ view = "consumer" /\ form = NoForm /\ ~Busy
    /\ g \notin Used /\ <<selected, g>> \notin spent
    /\ form' = [note |-> pending, giver |-> g, chain |-> selected]
    /\ UNCHANGED <<recorder, view, selected, pending, prepared, reading, confirms, queue>>

Edit ==
    /\ view = "consumer" /\ form # NoForm /\ ~Busy
    /\ form' = NoForm
    /\ UNCHANGED <<recorder, view, selected, pending, prepared, reading, confirms, queue>>

\* handleConfirm up to client.submit: the note as it is now, the fee of the form.
Confirm ==
    /\ view = "consumer" /\ form # NoForm /\ ~Busy
    /\ confirms' = confirms \cup
         {[note |-> pending, cost |-> TextCost(form.note), giver |-> form.giver,
           origin |-> form.chain, chain |-> selected, mounted |-> TRUE,
           step |-> "posted"]}
    /\ UNCHANGED <<recorder, view, selected, pending, prepared, reading, form, queue>>

\* The recorder's checks that matter here: the UTXO and the exact fee, which it
\* computes from the assignment as it was signed, the note replaced by its hash.
Accepted(a) ==
    /\ a.origin = a.chain /\ <<a.chain, a.giver>> \notin spent
    /\ a.cost = HashCost(a.note)
    /\ Len(blocks[a.chain]) < MaxBlocks

\* submit_assignment
Recorded(a) ==
    IF Accepted(a)
    THEN /\ blocks' = [blocks EXCEPT ![a.chain] = Append(@, [note |-> a.note, text |-> FALSE])]
         /\ spent' = spent \cup {<<a.chain, a.giver>>}
    ELSE UNCHANGED recorder

Submit(r) ==
    /\ r.step = "posted"
    /\ Recorded(r)
    /\ confirms' = (confirms \ {r}) \cup
         {[r EXCEPT !.step = IF Accepted(r) THEN "ok" ELSE "refused"]}
    /\ UNCHANGED <<view, selected, pending, prepared, reading, form, queue>>

\* fetch fails, before or after the recorder had its say.
Lost(r) ==
    /\ "lost" \in Happenings /\ r.step \in {"posted", "ok", "refused"}
    /\ confirms' = (confirms \ {r}) \cup {[r EXCEPT !.step = "lost"]}
    /\ UNCHANGED <<recorder, view, selected, pending, prepared, reading, form, queue>>

\* handleConfirm after the answer; a refusal leaves everything as it was.
Finish(r) ==
    /\ r.step \in {"ok", "refused", "lost"}
    /\ confirms' = confirms \ {r}
    /\ queue' = IF r.step = "lost" THEN Append(queue, r) ELSE queue
    /\ form' = IF r.step # "refused" /\ r.mounted THEN NoForm ELSE form
    /\ pending' = IF r.step # "refused" /\ r.note # NoNote THEN NoNote ELSE pending
    /\ UNCHANGED <<recorder, view, selected, prepared, reading>>

\* flushPending submits the oldest entry; its mark afterwards is in Transfer.
Flush ==
    /\ queue # <<>>
    /\ Recorded(Head(queue))
    /\ queue' = Tail(queue)
    /\ UNCHANGED <<view, selected, pending, prepared, reading, form, confirms>>

\* Another program records an assignment with the note as it is.
Foreign(c, n) ==
    /\ "foreign" \in Happenings /\ n \notin prepared /\ Len(blocks[c]) < MaxBlocks
    /\ prepared' = prepared \cup {n}
    /\ blocks' = [blocks EXCEPT ![c] = Append(@, [note |-> n, text |-> TRUE])]
    /\ UNCHANGED <<spent, view, selected, pending, reading, writing>>

----------------------------------------------------------------------------
Init ==
    /\ blocks = [c \in Chains |-> <<>>] /\ spent = {}
    /\ view = "consumer" /\ selected \in Chains
    /\ pending = NoNote /\ prepared = {}
    /\ ledger = Unread /\ loads = {}
    /\ form = NoForm /\ confirms = {} /\ queue = <<>>

Next ==
    \/ \E l \in loads : Serve(l) \/ Loaded(l) \/ LoadFails(l)
    \/ \E c \in Chains : Select(c) \/ \E n \in Notes : Foreign(c, n)
    \/ ToCoop \/ ToConsumer \/ Clear \/ Edit \/ Confirm \/ Flush
    \/ \E n \in Notes : Prepare(n)
    \/ \E g \in Givers : Build(g)
    \/ \E r \in confirms : Submit(r) \/ Lost(r) \/ Finish(r)

Spec == Init /\ [][Next]_vars

----------------------------------------------------------------------------
Shown == view = "coop" /\ ~ledger.error /\ \A l \in loads : ~l.live

\* Types, and one live load at most (the cleanup of CooperativeView.tsx).
TypeOK ==
    /\ \A c \in Chains : \A i \in DOMAIN blocks[c] : blocks[c][i].note \in Notes \cup {NoNote}
    /\ spent \subseteq Chains \X Givers
    /\ selected \in Chains /\ pending \in prepared \cup {NoNote} /\ prepared \subseteq Notes
    /\ Cardinality({l \in loads : l.live}) <= 1
    /\ form = NoForm \/ form.giver \in Givers

\* The ledger on screen is that of the selected chain, in its order and without
\* a hole, however loads and selections overtake each other; it may be behind
\* (the cancelled flag of CooperativeView.tsx).
LedgerIsPrefix ==
    Shown => IsPrefix(ledger.records, Records(blocks[selected]))

----------------------------------------------------------------------------
(* What documents and comments say and the code does not keep for some     *)
(* values of the constants: README, 3.4.                                   *)

\* A note goes into one recorded transfer at most, whatever is refused, lost or
\* queued in between (setPendingCoopNote(null) in ConsumerView.tsx).
NoteOnce ==
    \A n \in Notes :
        Cardinality({p \in Chains \X (1..MaxBlocks) :
                        /\ p[2] \in DOMAIN blocks[p[1]]
                        /\ blocks[p[1]][p[2]].note = n}) <= 1

\* A pending note stays until it is cleared or a transfer has taken it
\* (PendingNoteIndicator: it "will attach to next transfer").
PendingIsAttached ==
    [][(pending # NoNote /\ pending' = NoNote /\ view = "consumer") =>
        \E r \in confirms : r.note = pending]_vars

\* A recorded note is in the ledger once the ledger was loaded after it.
RecordedIsShown ==
    Shown => \A i \in DOMAIN blocks[selected] :
        LET n == blocks[selected][i].note
        IN (n # NoNote /\ i <= ledger.at) => Contains(ledger.records, n)

\* A transfer of an unspent UTXO built and confirmed with the same note is taken.
NotedIsTaken ==
    \A r \in confirms :
        r.step = "refused" => <<r.chain, r.giver>> \in spent \/ r.origin # r.chain
                                \/ Len(blocks[r.chain]) = MaxBlocks
=============================================================================
