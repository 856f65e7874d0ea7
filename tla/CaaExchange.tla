---------------------------- MODULE CaaExchange -----------------------------
(***************************************************************************)
(* One conditional assignment agreement (CAA) driven across N chains by a  *)
(* client-side coordinator: submit to chain 0, 1, ... N-1 with the proofs  *)
(* of the chains before, then bind.  The coordinator is execute_caa of     *)
(* ao-exchange/src/caa.rs and executeCaa of ao-pwa/src/core/caaEscrow.ts,  *)
(* which share their control; the recorders are ao-recorder's caa_submit   *)
(* and caa_bind, with all of a chain but this CAA's escrow abstracted.  On *)
(* the chains whose owners hand them over, another CAA may be open too: a  *)
(* recorder change waits for every escrow of its chain.                    *)
(*                                                                         *)
(* Each host reads its own clock.  A handler reads it when the request     *)
(* arrives and then waits for the chain's lock, so a request is stamped    *)
(* in one step and takes effect in a later one.                            *)
(***************************************************************************)
EXTENDS Integers, FiniteSets

CONSTANTS
    N,              \* chains of the CAA (MAX_CAA_CHAINS is 8)
    Deadline,       \* ESCROW_DEADLINE
    BondAttached,   \* the PWA adds COORDINATOR_BOND, the exchange agent does not
    Faulty,         \* replies get lost, chains reject, the coordinator dies
    HandOvers,      \* chains whose owners hand them over to other recorders
    Participants,   \* givers and receivers post the signed CAA themselves
    Clashes,        \* pairs <<p, c>>: the SEQ_ID of a giver on chain p is, on
                    \* chain c, that of a UTXO whose owner is not in the CAA
    \* bounds of the instance
    MaxAttempts,    \* sends of one request: 1 as shipped, more with the
                    \* caller's retry that execute_caa asks for
    MaxRequests,    \* requests under way when the coordinator sends another
    MaxSkew,        \* how far a host's clock runs ahead
    MaxTime         \* last instant

Chains == 0..N - 1
Last == N - 1
Unstamped == -1

ASSUME CaaConstants ==
    /\ N \in Nat /\ N >= 2
    /\ Deadline \in Nat /\ MaxTime \in Nat /\ MaxSkew \in Nat
    /\ MaxAttempts \in Nat \ {0} /\ MaxRequests \in Nat
    /\ BondAttached \in BOOLEAN /\ Faulty \in BOOLEAN /\ Participants \in BOOLEAN
    /\ Clashes \subseteq Chains \X Chains /\ HandOvers \subseteq Chains

VARIABLES
    escrow,         \* status of the CAA in each chain's caa_escrows table
    others,         \* the escrow of another CAA on each chain (bound: one at a time)
    draining,       \* chains with a pending recorder change
    blockTs,        \* time of each chain's newest block
    skew,           \* lead of each host's clock
    now,
    requests,       \* HTTP requests under way
    phase, at,      \* the coordinator: what it is doing and with which chain
    proofs,         \* chains whose recording proof it holds
    waiting,        \* whether it waits for the reply to its present request
    attempts        \* sends of the present request

chainVars == <<escrow, others, draining, blockTs>>
coordinator == <<phase, at, proofs, waiting, attempts>>
vars == <<chainVars, skew, now, requests, coordinator>>

Statuses == {"none", "escrowed", "finalized", "expired"}
OtherStatuses == {"none", "open", "overdue"}
Phases == {"submit", "bind", "done", "failed"}

Recorded == {c \in Chains : escrow[c] # "none"}
Wall(c) == now + skew[c]

\* The time of a block after one of time last.  Bound: a chain's blocks come up
\* to one instant after the last of the clocks, and its time stays there.
After(last, wall) ==
    IF wall > last THEN wall ELSE IF last <= MaxTime + MaxSkew THEN last + 1 ELSE last
NextTs(c, wall) == After(blockTs[c], wall)

-----------------------------------------------------------------------------

Init ==
    /\ escrow = [c \in Chains |-> "none"]
    /\ others = [c \in Chains |-> "none"]
    /\ draining = [c \in Chains |-> FALSE]
    /\ blockTs = [c \in Chains |-> 0]
    /\ skew \in [Chains -> 0..MaxSkew]
    /\ now = 1
    /\ requests = {}
    /\ phase = "submit" /\ at = 0 /\ proofs = {}
    /\ waiting = FALSE /\ attempts = 0

\* The coordinator sends the request of its present step.
Send ==
    /\ phase \in {"submit", "bind"} /\ ~waiting
    /\ Cardinality(requests) <= MaxRequests
    /\ requests' = requests \cup
          {[kind |-> phase, to |-> at, proofs |-> proofs, try |-> attempts + 1,
            stamp |-> Unstamped]}
    /\ waiting' = TRUE /\ attempts' = attempts + 1
    /\ UNCHANGED <<chainVars, skew, now, phase, at, proofs>>

\* Whoever holds the signed CAA may post it to any chain, with proofs the
\* chains have issued.  Bound: one such request, marked try 0, at a time; it
\* is stamped at once, for one that travels longer could be sent later.
Participant ==
    /\ Participants
    /\ \A m \in requests : m.try # 0
    /\ \E kind \in {"submit", "bind"}, c \in Chains, P \in SUBSET Recorded :
          requests' = requests \cup
              {[kind |-> kind, to |-> c, proofs |-> P, try |-> 0, stamp |-> Wall(c)]}
    /\ UNCHANGED <<chainVars, skew, now, coordinator>>

\* The handler reads the wall clock, then queues for the chain's lock.
Arrive(m) ==
    /\ m.stamp = Unstamped
    /\ requests' = (requests \ {m}) \cup {[m EXCEPT !.stamp = Wall(m.to)]}
    /\ UNCHANGED <<chainVars, skew, now, coordinator>>

\* What a reply does to the coordinator that still waits for it.  Any error
\* ends the run: neither coordinator looks at what went wrong.
Succeed(m) ==
    /\ waiting' = FALSE /\ attempts' = 0
    /\ \/ /\ m.kind = "submit"
          /\ proofs' = proofs \cup {m.to}
          /\ phase' = IF m.to = Last THEN "bind" ELSE "submit"
          /\ at' = IF m.to = Last THEN 0 ELSE m.to + 1
       \/ /\ m.kind = "bind"        \* chains 0..N-2 only
          /\ phase' = IF m.to = Last - 1 THEN "done" ELSE "bind"
          /\ at' = IF m.to = Last - 1 THEN at ELSE m.to + 1
          /\ UNCHANGED proofs
Fail ==
    /\ phase' = "failed" /\ waiting' = FALSE
    /\ UNCHANGED <<at, proofs, attempts>>
Awaited(m) == waiting /\ m.kind = phase /\ m.to = at /\ m.try = attempts

AnswerUnchecked(m, ok) ==    \* mutant: an error is taken for a success
    /\ requests' = requests \ {m}
    /\ IF Awaited(m) THEN Succeed(m) ELSE UNCHANGED coordinator

Answer(m, ok) ==
    /\ requests' = requests \ {m}
    /\ \/ Awaited(m) /\ ok /\ Succeed(m)
       \/ Awaited(m) /\ ~ok /\ Fail
       \/ (Faulty \/ ~Awaited(m)) /\ UNCHANGED coordinator    \* lost or too late

\* The request is stamped and waits for the lock.
Ready(m, kind) == m.kind = kind /\ m.stamp # Unstamped

\* Every participant whose key the chain finds must have signed, and it looks
\* the givers of the other chains up in its own UTXO table.
Signed(c) == \A p \in Chains : <<p, c>> \notin Clashes

AcceptsUnordered(m) ==       \* mutant: the earlier chains' proofs not required
    /\ ~draining[m.to] /\ escrow[m.to] = "none"
    /\ NextTs(m.to, m.stamp) < Deadline
    /\ m.to # Last => BondAttached
    /\ Signed(m.to)
AcceptsOwnProof(m) ==        \* mutant: off by one, a chain wants its own proof
    /\ AcceptsUnordered(m)
    /\ \A p \in Chains : p <= m.to => p \in m.proofs

\* caa_submit of a new CAA: lock the givers if the deadline is ahead of the
\* block, every earlier chain's proof is there, the bond is declared and
\* everybody has signed.
Accepts(m) ==
    /\ ~draining[m.to]
    /\ escrow[m.to] = "none"
    /\ NextTs(m.to, m.stamp) < Deadline
    /\ \A p \in Chains : p < m.to => p \in m.proofs
    /\ m.to # Last => BondAttached
    /\ Signed(m.to)
RecordComponent(m) ==
    /\ Ready(m, "submit") /\ Accepts(m)
    /\ escrow' = [escrow EXCEPT ![m.to] = "escrowed"]
    /\ blockTs' = [blockTs EXCEPT ![m.to] = NextTs(m.to, m.stamp)]
    /\ Answer(m, TRUE)
    /\ UNCHANGED <<others, draining, skew, now>>

\* caa_submit of a known CAA: the stored proof, whatever became of the escrow.
Resubmitted(m) ==
    /\ Ready(m, "submit") /\ ~draining[m.to] /\ escrow[m.to] # "none"
    /\ Answer(m, TRUE)
    /\ UNCHANGED <<chainVars, skew, now>>

\* caa_submit refused.  A chain may also refuse for reasons of its own: the
\* givers were spent, or SHARES_OUT moved and the fee no longer balances.
RefuseSubmit(m) ==
    /\ Ready(m, "submit")
    /\ \/ draining[m.to]
       \/ escrow[m.to] = "none" /\ (Faulty \/ ~Accepts(m))
    /\ Answer(m, FALSE)
    /\ UNCHANGED <<chainVars, skew, now>>

\* mutant: tried only by the step that settles an escrow, and never again
AutoRecorderChangeOnce(c, pending, wall, last, torn) ==
    LET fires == /\ pending /\ ~torn
                 /\ <<escrow, others>>' # <<escrow, others>>
                 /\ escrow'[c] # "escrowed" /\ others'[c] = "none" IN
    /\ draining' = [draining EXCEPT ![c] = pending /\ ~fires]
    /\ blockTs' = [blockTs EXCEPT ![c] = IF fires THEN After(last, wall) ELSE last]

\* The tail of every submission and bind, once its own block (of time last) is
\* committed: if a recorder change is pending and the chain has no open escrow
\* left, a second transaction makes the change's block.  When it is torn off, by
\* a crash before it or by its failure, the change stays pending.
AutoRecorderChange(c, pending, wall, last, torn) ==
    LET fires == /\ pending /\ ~torn
                 /\ escrow'[c] # "escrowed" /\ others'[c] = "none" IN
    /\ draining' = [draining EXCEPT ![c] = pending /\ ~fires]
    /\ blockTs' = [blockTs EXCEPT ![c] = IF fires THEN After(last, wall) ELSE last]

\* caa_bind: all N proofs, the escrow still open, the deadline ahead of the
\* clock as read on arrival.  The bind makes no block.  It is answered as done
\* even if its tail fails; after a crash the answer is lost.
BindsEarly(m) ==             \* mutant: the proofs are not counted
    escrow[m.to] = "escrowed" /\ m.stamp < Deadline
Binds(m) ==
    /\ escrow[m.to] = "escrowed" /\ m.stamp < Deadline /\ m.proofs = Chains
Bind(m, torn) ==
    /\ Ready(m, "bind") /\ Binds(m)
    /\ escrow' = [escrow EXCEPT ![m.to] = "finalized"]
    /\ UNCHANGED others
    /\ AutoRecorderChange(m.to, draining[m.to], m.stamp, blockTs[m.to], torn)
    /\ Answer(m, TRUE)
    /\ UNCHANGED <<skew, now>>
RefuseBind(m) ==
    /\ Ready(m, "bind") /\ ~Binds(m)
    /\ Answer(m, FALSE)
    /\ UNCHANGED <<chainVars, skew, now>>

\* The client gives up on a request and, while it may, sends it again.
Timeout ==
    /\ Faulty /\ waiting
    /\ \/ /\ attempts < MaxAttempts
          /\ waiting' = FALSE
          /\ UNCHANGED <<phase, at, proofs, attempts>>
       \/ attempts = MaxAttempts /\ Fail
    /\ UNCHANGED <<chainVars, skew, now, requests>>

\* The browser tab or the agent dies; nothing of the run is persisted.
Crash ==
    /\ Faulty /\ phase \in {"submit", "bind"}
    /\ Fail
    /\ UNCHANGED <<chainVars, skew, now, requests>>

SweptTwice(c, ts) ==         \* mutant: the sweep does not look at the status
    escrow[c] # "none" /\ Deadline < ts
SweptUnlessDraining(c, ts) ==   \* mutant: no sweep under a pending change
    escrow[c] = "escrowed" /\ ~draining[c] /\ Deadline < ts

\* The sweep of a block stamped ts.
Swept(c, ts) == escrow[c] = "escrowed" /\ Deadline < ts

\* Somebody else's assignment makes a block, and the block runs the sweep.
OtherAssignment(c, torn) ==
    LET ts == NextTs(c, Wall(c)) IN
    /\ escrow' = IF Swept(c, ts) THEN [escrow EXCEPT ![c] = "expired"] ELSE escrow
    /\ others' = IF others[c] = "overdue" THEN [others EXCEPT ![c] = "none"] ELSE others
    /\ AutoRecorderChange(c, draining[c], ts, ts, torn)
    /\ UNCHANGED <<skew, now, requests, coordinator>>

\* Other people's CAA: its givers are locked unless a change is pending, its
\* deadline passes, it is bound with a stamp taken before that.
OtherCaa(c) ==
    /\ ~draining[c] /\ others[c] = "none"
    /\ others' = [others EXCEPT ![c] = "open"]
    /\ blockTs' = [blockTs EXCEPT ![c] = NextTs(c, Wall(c))]
    /\ UNCHANGED <<escrow, draining, skew, now, requests, coordinator>>
OtherCaaOverdue(c) ==
    /\ others[c] = "open"
    /\ others' = [others EXCEPT ![c] = "overdue"]
    /\ UNCHANGED <<escrow, draining, blockTs, skew, now, requests, coordinator>>
OtherCaaBound(c, torn) ==
    /\ others[c] # "none"
    /\ others' = [others EXCEPT ![c] = "none"]
    /\ UNCHANGED escrow
    /\ AutoRecorderChange(c, draining[c], Wall(c), blockTs[c], torn)
    /\ UNCHANGED <<skew, now, requests, coordinator>>

\* The owner asks for a change of recorder, whatever is open on the chain, and
\* the tail of that submission completes it if nothing is.
RequestRecorderChange(c, torn) ==
    LET ts == NextTs(c, Wall(c)) IN
    /\ ~draining[c]
    /\ UNCHANGED <<escrow, others>>
    /\ AutoRecorderChange(c, TRUE, ts, ts, torn)
    /\ UNCHANGED <<skew, now, requests, coordinator>>

\* The owner submits the RECORDER_CHANGE of a pending change that the recorder
\* has not completed itself.
SubmitRecorderChange(c) ==
    /\ draining[c] /\ escrow[c] # "escrowed" /\ others[c] = "none"
    /\ draining' = [draining EXCEPT ![c] = FALSE]
    /\ blockTs' = [blockTs EXCEPT ![c] = NextTs(c, Wall(c))]
    /\ UNCHANGED <<escrow, others, skew, now, requests, coordinator>>

Tick ==
    /\ now < MaxTime
    /\ now' = now + 1
    /\ UNCHANGED <<chainVars, skew, requests, coordinator>>

\* A tail can be torn off only where a change is pending.
Handle(m) ==
    \/ Arrive(m)
    \/ RecordComponent(m) \/ Resubmitted(m) \/ RefuseSubmit(m)
    \/ \E torn \in {FALSE, draining[m.to]} : Bind(m, torn)
    \/ RefuseBind(m)

\* What happens to a chain whose owner may hand it over.
HandOver(c) ==
    \/ OtherCaa(c) \/ OtherCaaOverdue(c) \/ SubmitRecorderChange(c)
    \/ \E torn \in BOOLEAN : OtherCaaBound(c, torn) \/ RequestRecorderChange(c, torn)

Next ==
    \/ Send \/ Timeout \/ Crash \/ Participant \/ Tick
    \/ \E m \in requests : Handle(m)
    \/ \E c \in Chains : \E torn \in {FALSE, draining[c]} : OtherAssignment(c, torn)
    \/ \E c \in HandOvers : HandOver(c)

Spec == Init /\ [][Next]_vars

\* Hosts and clients keep running; nothing makes a chain record a block.
FairSpec ==
    /\ Spec
    /\ WF_vars(Tick) /\ WF_vars(Send)
    /\ WF_vars(\E m \in requests : Handle(m))

\* On a chain in use, other people's assignments keep coming, not every one of
\* them is cut off before its tail, and other CAAs' deadlines pass.  Owners and
\* the parties of other CAAs may do nothing more.
TrafficSpec ==
    /\ FairSpec
    /\ \A c \in Chains : WF_vars(OtherAssignment(c, FALSE))
    /\ \A c \in HandOvers : WF_vars(OtherCaaOverdue(c))

-----------------------------------------------------------------------------
(* Properties.                                                             *)

Request == [kind : {"submit", "bind"}, to : Chains, proofs : SUBSET Chains,
            try : 0..MaxAttempts, stamp : Nat \cup {Unstamped}]

\* Types of the chains' tables, of the requests and of the coordinator.
TypeOK ==
    /\ escrow \in [Chains -> Statuses]
    /\ others \in [Chains -> OtherStatuses] /\ draining \in [Chains -> BOOLEAN]
    /\ blockTs \in [Chains -> Nat]
    /\ skew \in [Chains -> Nat] /\ now \in Nat
    /\ requests \subseteq Request
    /\ phase \in Phases /\ at \in Chains /\ proofs \subseteq Chains
    /\ waiting \in BOOLEAN /\ attempts \in 0..MaxAttempts

\* A chain locks its givers' shares only after every chain before it did: the
\* ouroboros order, under lost replies and resent requests.
RecordedInOrder == \A c \in Recorded : \A p \in Chains : p < c => p \in Recorded

\* Shares change hands on one chain only if every chain has recorded the CAA:
\* no giver pays into an exchange the other side never entered.
BindingNeedsAll == (\E c \in Chains : escrow[c] = "finalized") => Recorded = Chains

\* The coordinator reports the exchange as done only when the chains it binds
\* have handed the shares over, and they have for good.
DoneMeansBound == phase = "done" => \A c \in Chains \ {Last} : escrow[c] = "finalized"

\* AtomicExchange.md 3.3: a CAA is fully binding or not binding at all.
AllOrNothing ==
    ~ \E c, d \in Chains : escrow[c] = "finalized" /\ escrow[d] = "expired"

\* Escrowed shares become available again (AtomicExchange.md 3.4).
EscrowSettles == \A c \in Chains : escrow[c] = "escrowed" ~> escrow[c] # "escrowed"

\* A requested hand-over of a chain comes about: the escrows it waits for are
\* settled, none is added meanwhile, and a completion that a crash or a failure
\* cut off is made up for by a later submission, without the owner's doing.
HandOverHappens == \A c \in Chains : draining[c] ~> ~draining[c]

\* With hosts and network in order, the exchange completes.
Completes == <>(phase = "done")

-----------------------------------------------------------------------------
(* The chains implement the ouroboros recording.                           *)

Outcome == [c \in Chains |-> CASE escrow[c] = "finalized" -> "taken"
                              [] escrow[c] = "expired" -> "returned"
                              [] OTHER -> "open"]
O == INSTANCE Ouroboros WITH recorded <- Recorded, outcome <- Outcome
OuroborosSpec == O!Spec
=============================================================================
