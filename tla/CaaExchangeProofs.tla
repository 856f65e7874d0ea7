------------------------- MODULE CaaExchangeProofs --------------------------
(***************************************************************************)
(* For any number of chains, retries and clock skews: what the recorders'  *)
(* proof checks guarantee, and that the chains implement Ouroboros.        *)
(***************************************************************************)
EXTENDS CaaExchange, TLAPS

\* A proof, held or under way, is of a chain that has recorded the CAA.
ProofsInv ==
    /\ proofs \subseteq Recorded
    /\ \A m \in requests : m.proofs \subseteq Recorded

\* A coordinator that still has a request to send has attempts left.
AttemptsInv ==
    phase \in {"submit", "bind"} /\ ~waiting => attempts < MaxAttempts

\* While it binds, the chains before the present one are finalized.
BindInv ==
    phase = "bind" =>
        at < Last /\ \A c \in Chains : c < at => escrow[c] = "finalized"

IInv ==
    /\ TypeOK /\ AttemptsInv /\ ProofsInv
    /\ RecordedInOrder /\ BindingNeedsAll /\ BindInv /\ DoneMeansBound

\* How an action may touch the escrow table: rows only leave "none", and
\* "finalized" is for good.
EscrowGrows ==
    \A c \in Chains : /\ escrow[c] # "none" => escrow'[c] # "none"
                      /\ escrow[c] = "finalized" => escrow'[c] = "finalized"

-----------------------------------------------------------------------------

LEMMA ChainFacts == ASSUME NEW c \in Chains
                    PROVE  c \in Nat /\ Last \in Chains /\ c <= Last /\ 0 \in Chains
                           /\ (c # Last => c + 1 \in Chains)
  BY CaaConstants DEF Chains, Last

LEMMA InitInv == Init => IInv
<1> SUFFICES ASSUME Init PROVE IInv
  OBVIOUS
<1> USE DEF Init
<1>1. TypeOK
  <2>1. 0 \in Chains /\ 0 \in 0..MaxAttempts /\ 0..MaxSkew \subseteq Nat
    BY CaaConstants DEF Chains
  <2>2. skew \in [Chains -> Nat]
    BY <2>1
  <2> QED
    BY <2>1, <2>2 DEF TypeOK, Statuses, OtherStatuses, Phases
<1>2. AttemptsInv
  BY CaaConstants DEF AttemptsInv
<1>3. Recorded = {}
  BY DEF Recorded
<1>4. ProofsInv /\ RecordedInOrder /\ BindingNeedsAll /\ BindInv /\ DoneMeansBound
  BY <1>3 DEF ProofsInv, RecordedInOrder, BindingNeedsAll, BindInv, DoneMeansBound
<1> QED
  BY <1>1, <1>2, <1>4 DEF IInv

\* The answer to a request leaves the coordinator in a legal state.
LEMMA AnswerKeepsTypes ==
    ASSUME TypeOK, AttemptsInv, BindInv, NEW m \in requests, NEW ok \in BOOLEAN,
           Answer(m, ok)
    PROVE  /\ requests' \subseteq requests
           /\ phase' \in Phases /\ at' \in Chains /\ waiting' \in BOOLEAN
           /\ attempts' \in 0..MaxAttempts /\ proofs' \subseteq Chains
           /\ AttemptsInv'
           /\ proofs' \subseteq proofs \cup (IF ok THEN {m.to} ELSE {})
<1>0. /\ m \in Request /\ m.to \in Chains /\ 0 \in 0..MaxAttempts /\ MaxAttempts > 0
      /\ MaxAttempts \in Nat
  BY CaaConstants DEF TypeOK, Request
<1>1. requests' \subseteq requests
  BY DEF Answer
<1>2. CASE Awaited(m) /\ ok /\ Succeed(m)
  <2>1. m.to = at /\ m.kind = phase
    BY <1>2 DEF Awaited
  <2>2. m.to # Last => m.to + 1 \in Chains
    BY <1>0, ChainFacts
  <2>3. 0 \in Chains
    BY <1>0, ChainFacts
  <2>4. CASE m.kind = "submit"
    BY <1>0, <1>1, <1>2, <2>1, <2>2, <2>3, <2>4
       DEF Succeed, TypeOK, Phases, AttemptsInv
  <2>5. CASE m.kind = "bind"
    <3>1. m.to < Last
      BY <2>1, <2>5 DEF BindInv
    <3>2. m.to # Last
      BY <1>0, <3>1, CaaConstants DEF Last, Chains
    <3> QED
      BY <1>0, <1>1, <1>2, <2>1, <2>2, <2>5, <3>2
         DEF Succeed, TypeOK, Phases, AttemptsInv
  <2> QED
    BY <1>2, <2>4, <2>5 DEF Succeed
<1>3. CASE Fail
  BY <1>0, <1>1, <1>3 DEF Fail, TypeOK, Phases, AttemptsInv
<1>4. CASE UNCHANGED coordinator
  BY <1>0, <1>1, <1>4 DEF coordinator, TypeOK, AttemptsInv
<1> QED
  BY <1>2, <1>3, <1>4 DEF Answer

\* The answer keeps what the coordinator's progress says about the chains, if
\* a positive answer to a bind is given by a finalized chain.
LEMMA AnswerKeepsProgress ==
    ASSUME TypeOK, BindInv, DoneMeansBound, EscrowGrows, escrow' \in [Chains -> Statuses],
           NEW m \in requests, NEW ok \in BOOLEAN, Answer(m, ok),
           ok /\ m.kind = "bind" => escrow'[m.to] = "finalized"
    PROVE  BindInv' /\ DoneMeansBound'
<1>0. /\ m.to \in Chains /\ m.to \in Nat /\ Last \in Nat /\ 0 < Last
      /\ \A c \in Chains : c \in Nat /\ c <= Last
  BY CaaConstants DEF TypeOK, Request, Chains, Last
<1>a. /\ \A c \in Chains : escrow[c] = "finalized" => escrow'[c] = "finalized"
  BY DEF EscrowGrows
<1>2. CASE Awaited(m) /\ ok /\ Succeed(m)
  <2>1. m.to = at /\ m.kind = phase
    BY <1>2 DEF Awaited
  <2>4. CASE m.kind = "submit"
    <3>1. CASE m.to = Last
      <4>1. phase' = "bind" /\ at' = 0
        BY <1>2, <2>4, <3>1 DEF Succeed
      <4> QED
        BY <4>1, <1>0 DEF BindInv, DoneMeansBound
    <3>2. CASE m.to # Last
      <4>1. phase' = "submit"
        BY <1>2, <2>4, <3>2 DEF Succeed
      <4> QED
        BY <4>1 DEF BindInv, DoneMeansBound
    <3> QED
      BY <3>1, <3>2
  <2>5. CASE m.kind = "bind"
    <3>1. /\ at < Last
          /\ \A c \in Chains : c <= at => escrow'[c] = "finalized"
      BY <1>0, <1>2, <1>a, <2>1, <2>5 DEF BindInv
    <3>2. CASE m.to = Last - 1
      <4>1. phase' = "done" /\ \A c \in Chains \ {Last} : c <= at
        BY <1>0, <1>2, <2>1, <2>5, <3>2 DEF Succeed
      <4> QED
        BY <3>1, <4>1 DEF BindInv, DoneMeansBound
    <3>3. CASE m.to # Last - 1
      <4>1. phase' = "bind" /\ at' = at + 1
        BY <1>2, <2>1, <2>5, <3>3 DEF Succeed
      <4>2. at' < Last /\ \A c \in Chains : c < at' => c <= at
        BY <1>0, <2>1, <3>1, <3>3, <4>1
      <4> QED
        BY <3>1, <4>1, <4>2 DEF BindInv, DoneMeansBound
    <3> QED
      BY <3>2, <3>3
  <2> QED
    BY <1>2, <2>4, <2>5 DEF Succeed
<1>3. CASE Fail
  BY <1>3 DEF Fail, BindInv, DoneMeansBound
<1>4. CASE UNCHANGED coordinator
  BY <1>4, <1>a DEF coordinator, BindInv, DoneMeansBound
<1> QED
  BY <1>2, <1>3, <1>4 DEF Answer

\* The proofs that are about after an answer are still of recorded chains, if a
\* positive answer is given by a chain that has recorded the CAA.
LEMMA AnswerKeepsProofs ==
    ASSUME TypeOK, AttemptsInv, BindInv, ProofsInv, EscrowGrows,
           NEW m \in requests, NEW ok \in BOOLEAN,
           Answer(m, ok), ok => m.to \in Recorded'
    PROVE  ProofsInv'
<1>1. /\ requests' \subseteq requests
      /\ proofs' \subseteq proofs \cup (IF ok THEN {m.to} ELSE {})
  BY AnswerKeepsTypes
<1>2. Recorded \subseteq Recorded'
  BY DEF EscrowGrows, Recorded
<1> QED
  BY <1>1, <1>2 DEF ProofsInv

-----------------------------------------------------------------------------
(* The steps.                                                              *)

\* Steps that leave the escrow table alone keep what is said about it.
LEMMA SameEscrow ==
    ASSUME RecordedInOrder, BindingNeedsAll, escrow' = escrow
    PROVE  RecordedInOrder' /\ BindingNeedsAll' /\ Recorded' = Recorded /\ EscrowGrows
  BY DEF RecordedInOrder, BindingNeedsAll, Recorded, EscrowGrows

LEMMA SendInv == IInv /\ Send => IInv'
<1> SUFFICES ASSUME IInv, Send PROVE IInv'
  OBVIOUS
<1> USE DEF IInv
<1>1. RecordedInOrder' /\ BindingNeedsAll' /\ Recorded' = Recorded
  BY SameEscrow DEF Send, chainVars
<1>2. attempts < MaxAttempts /\ attempts + 1 \in 1..MaxAttempts /\ attempts + 1 \in 0..MaxAttempts
  BY CaaConstants DEF AttemptsInv, Send, TypeOK
<1>3. [kind |-> phase, to |-> at, proofs |-> proofs, try |-> attempts + 1,
       stamp |-> Unstamped] \in Request
  BY <1>2 DEF Send, TypeOK, Request
<1>4. TypeOK'
  BY <1>2, <1>3 DEF TypeOK, Send, chainVars
<1>5. AttemptsInv' /\ ProofsInv'
  BY <1>1 DEF AttemptsInv, ProofsInv, Send
<1>6. BindInv' /\ DoneMeansBound'
  BY DEF BindInv, DoneMeansBound, Send, chainVars
<1> QED
  BY <1>1, <1>4, <1>5, <1>6

LEMMA ParticipantInv == IInv /\ Participant => IInv'
<1> SUFFICES ASSUME IInv, Participant PROVE IInv'
  OBVIOUS
<1> USE DEF IInv
<1>1. RecordedInOrder' /\ BindingNeedsAll' /\ Recorded' = Recorded
  BY SameEscrow DEF Participant, chainVars
<1>2. PICK kind \in {"submit", "bind"}, c \in Chains, P \in SUBSET Recorded :
          requests' = requests \cup {[kind |-> kind, to |-> c, proofs |-> P, try |-> 0,
                                     stamp |-> Wall(c)]}
  BY DEF Participant
<1>3. [kind |-> kind, to |-> c, proofs |-> P, try |-> 0, stamp |-> Wall(c)] \in Request
  <2>1. Wall(c) \in Nat /\ 0 \in 0..MaxAttempts /\ P \subseteq Chains
    BY CaaConstants DEF TypeOK, Wall, Recorded
  <2> QED
    BY <2>1 DEF Request
<1>4. TypeOK'
  BY <1>2, <1>3 DEF TypeOK, Participant, chainVars, coordinator
<1>5. AttemptsInv' /\ ProofsInv'
  BY <1>1, <1>2 DEF AttemptsInv, ProofsInv, Participant, coordinator
<1>6. BindInv' /\ DoneMeansBound'
  BY DEF BindInv, DoneMeansBound, Participant, chainVars, coordinator
<1> QED
  BY <1>1, <1>4, <1>5, <1>6

LEMMA ArriveInv == \A m \in requests : IInv /\ Arrive(m) => IInv'
<1> SUFFICES ASSUME NEW m \in requests, IInv, Arrive(m) PROVE IInv'
  OBVIOUS
<1> USE DEF IInv
<1>1. RecordedInOrder' /\ BindingNeedsAll' /\ Recorded' = Recorded
  BY SameEscrow DEF Arrive, chainVars
<1>2. m \in Request /\ Wall(m.to) \in Nat
  BY DEF TypeOK, Request, Wall
<1>3. [m EXCEPT !.stamp = Wall(m.to)] \in Request
      /\ [m EXCEPT !.stamp = Wall(m.to)].proofs = m.proofs
  BY <1>2 DEF Request
<1>4. TypeOK'
  BY <1>3 DEF TypeOK, Arrive, chainVars, coordinator
<1>5. AttemptsInv' /\ ProofsInv'
  BY <1>1, <1>3 DEF AttemptsInv, ProofsInv, Arrive, coordinator
<1>6. BindInv' /\ DoneMeansBound'
  BY DEF BindInv, DoneMeansBound, Arrive, chainVars, coordinator
<1> QED
  BY <1>1, <1>4, <1>5, <1>6

\* Every handler's step: what it writes to the chain, then its answer.
LEMMA HandlerInv ==
    ASSUME IInv, NEW m \in requests, NEW ok \in BOOLEAN, Answer(m, ok),
           escrow' \in [Chains -> Statuses], others' \in [Chains -> OtherStatuses],
           draining' \in [Chains -> BOOLEAN], blockTs' \in [Chains -> Nat],
           UNCHANGED <<skew, now>>, EscrowGrows, RecordedInOrder', BindingNeedsAll',
           ok => m.to \in Recorded',
           ok /\ m.kind = "bind" => escrow'[m.to] = "finalized"
    PROVE  IInv'
<1> USE DEF IInv
<1>1. TypeOK' /\ AttemptsInv'
  BY AnswerKeepsTypes DEF TypeOK
<1>2. ProofsInv'
  BY AnswerKeepsProofs
<1>3. BindInv' /\ DoneMeansBound'
  BY AnswerKeepsProgress
<1> QED
  BY <1>1, <1>2, <1>3

LEMMA NextTsNat == ASSUME TypeOK, NEW c \in Chains, NEW w \in Nat
                   PROVE  NextTs(c, w) \in Nat
  BY DEF TypeOK, NextTs, After

\* What the tail of a submission or bind leaves behind.
LEMMA TailKeepsTypes ==
    ASSUME TypeOK, NEW c \in Chains, NEW pending \in BOOLEAN, NEW wall \in Nat,
           NEW last \in Nat, NEW torn \in BOOLEAN,
           AutoRecorderChange(c, pending, wall, last, torn)
    PROVE  draining' \in [Chains -> BOOLEAN] /\ blockTs' \in [Chains -> Nat]
<1>1. /\ draining \in [Chains -> BOOLEAN] /\ blockTs \in [Chains -> Nat]
      /\ After(last, wall) \in Nat
  BY DEF TypeOK, After
<1>2. PICK fires \in BOOLEAN :
          /\ draining' = [draining EXCEPT ![c] = pending /\ ~fires]
          /\ blockTs' = [blockTs EXCEPT ![c] = IF fires THEN After(last, wall) ELSE last]
  <2> DEFINE fires == /\ pending /\ ~torn
                      /\ escrow'[c] # "escrowed" /\ others'[c] = "none"
  <2>1. fires \in BOOLEAN
    OBVIOUS
  <2>2. /\ draining' = [draining EXCEPT ![c] = pending /\ ~fires]
        /\ blockTs' = [blockTs EXCEPT ![c] = IF fires THEN After(last, wall) ELSE last]
    BY DEF AutoRecorderChange
  <2> HIDE DEF fires
  <2> QED
    BY <2>1, <2>2
<1>3. (pending /\ ~fires) \in BOOLEAN
  OBVIOUS
<1>4. (IF fires THEN After(last, wall) ELSE last) \in Nat
  BY <1>1
<1> QED
  BY <1>1, <1>2, <1>3, <1>4

LEMMA StampNat == ASSUME TypeOK, NEW m \in requests, m.stamp # Unstamped
                  PROVE  m \in Request /\ m.to \in Chains /\ m.stamp \in Nat
                         /\ m.kind \in {"submit", "bind"}
  BY DEF TypeOK, Request

LEMMA RecordComponentInv == \A m \in requests : IInv /\ RecordComponent(m) => IInv'
<1> SUFFICES ASSUME NEW m \in requests, IInv, RecordComponent(m) PROVE IInv'
  OBVIOUS
<1> USE DEF IInv, RecordComponent
<1>1. m.to \in Chains /\ m.stamp \in Nat /\ NextTs(m.to, m.stamp) \in Nat
  BY StampNat, NextTsNat DEF Ready
<1>2. /\ escrow' \in [Chains -> Statuses] /\ blockTs' \in [Chains -> Nat]
      /\ others' \in [Chains -> OtherStatuses] /\ draining' \in [Chains -> BOOLEAN]
  BY <1>1 DEF TypeOK, Statuses
<1>3. EscrowGrows /\ Recorded' = Recorded \cup {m.to}
  BY <1>1 DEF TypeOK, Accepts, EscrowGrows, Recorded
<1>4. RecordedInOrder'
  <2>1. \A p \in Chains : p < m.to => p \in Recorded
    BY DEF Accepts, ProofsInv
  <2> QED
    BY <1>3, <2>1 DEF RecordedInOrder
<1>5. BindingNeedsAll'
  <2>1. \A c \in Chains : escrow'[c] = "finalized" => escrow[c] = "finalized"
    BY <1>1 DEF TypeOK
  <2> QED
    BY <1>1, <1>3, <2>1 DEF BindingNeedsAll, Recorded
<1>6. m.kind # "bind"
  BY DEF Ready
<1> QED
  BY <1>2, <1>3, <1>4, <1>5, <1>6, HandlerInv DEF IInv

LEMMA ResubmittedInv == \A m \in requests : IInv /\ Resubmitted(m) => IInv'
<1> SUFFICES ASSUME NEW m \in requests, IInv, Resubmitted(m) PROVE IInv'
  OBVIOUS
<1> USE DEF IInv, Resubmitted
<1>1. m.to \in Chains /\ m.kind # "bind"
  BY StampNat DEF Ready
<1>2. /\ escrow' \in [Chains -> Statuses] /\ blockTs' \in [Chains -> Nat]
      /\ others' \in [Chains -> OtherStatuses] /\ draining' \in [Chains -> BOOLEAN]
  BY DEF TypeOK, chainVars
<1>3. EscrowGrows /\ RecordedInOrder' /\ BindingNeedsAll' /\ Recorded' = Recorded
  BY SameEscrow DEF chainVars
<1>4. m.to \in Recorded'
  BY <1>1, <1>3 DEF Recorded
<1> QED
  BY <1>1, <1>2, <1>3, <1>4, HandlerInv DEF IInv

LEMMA RefuseInv ==
    \A m \in requests : IInv /\ (RefuseSubmit(m) \/ RefuseBind(m)) => IInv'
<1> SUFFICES ASSUME NEW m \in requests, IInv, RefuseSubmit(m) \/ RefuseBind(m)
             PROVE  IInv'
  OBVIOUS
<1> USE DEF IInv, RefuseSubmit, RefuseBind
<1>1. Answer(m, FALSE) /\ UNCHANGED <<chainVars, skew, now>>
  OBVIOUS
<1>2. /\ escrow' \in [Chains -> Statuses] /\ blockTs' \in [Chains -> Nat]
      /\ others' \in [Chains -> OtherStatuses] /\ draining' \in [Chains -> BOOLEAN] /\ UNCHANGED <<skew, now>>
  BY <1>1 DEF TypeOK, chainVars
<1>3. EscrowGrows /\ RecordedInOrder' /\ BindingNeedsAll'
  BY <1>1, SameEscrow DEF chainVars
<1> QED
  BY <1>1, <1>2, <1>3, HandlerInv DEF IInv

LEMMA BindStepInv ==
    \A m \in requests, torn \in BOOLEAN : IInv /\ Bind(m, torn) => IInv'
<1> SUFFICES ASSUME NEW m \in requests, NEW torn \in BOOLEAN, IInv, Bind(m, torn)
             PROVE  IInv'
  OBVIOUS
<1> USE DEF IInv, Bind
<1>1. m.to \in Chains /\ m.stamp \in Nat /\ blockTs[m.to] \in Nat /\ draining[m.to] \in BOOLEAN
  BY StampNat DEF Ready, TypeOK
<1>2. /\ escrow' \in [Chains -> Statuses] /\ others' \in [Chains -> OtherStatuses]
      /\ draining' \in [Chains -> BOOLEAN] /\ blockTs' \in [Chains -> Nat]
  <2>1. draining' \in [Chains -> BOOLEAN] /\ blockTs' \in [Chains -> Nat]
    BY <1>1, TailKeepsTypes
  <2> QED
    BY <1>1, <2>1 DEF TypeOK, Statuses
<1>3. EscrowGrows /\ Recorded' = Recorded /\ escrow'[m.to] = "finalized"
  BY <1>1 DEF TypeOK, Binds, EscrowGrows, Recorded
<1>4. Recorded = Chains
  BY DEF Binds, ProofsInv, Recorded
<1>5. RecordedInOrder' /\ BindingNeedsAll' /\ m.to \in Recorded'
  BY <1>1, <1>3, <1>4 DEF RecordedInOrder, BindingNeedsAll
<1> QED
  BY <1>2, <1>3, <1>5, HandlerInv DEF IInv

\* Steps of the coordinator alone and of the clock.
LEMMA ClientInv == IInv /\ (Timeout \/ Crash \/ Tick) => IInv'
<1> SUFFICES ASSUME IInv, Timeout \/ Crash \/ Tick PROVE IInv'
  OBVIOUS
<1> USE DEF IInv
<1>1. RecordedInOrder' /\ BindingNeedsAll' /\ Recorded' = Recorded
  BY SameEscrow DEF Timeout, Crash, Tick, chainVars
<1>2. TypeOK'
  <2>1. CASE Timeout
    BY <2>1 DEF TypeOK, Timeout, Fail, Phases, chainVars
  <2>2. CASE Crash
    BY <2>2 DEF TypeOK, Crash, Fail, Phases, chainVars
  <2>3. CASE Tick
    BY <2>3 DEF TypeOK, Tick, chainVars, coordinator
  <2> QED
    BY <2>1, <2>2, <2>3
<1>3. AttemptsInv' /\ ProofsInv'
  BY <1>1 DEF AttemptsInv, ProofsInv, Timeout, Crash, Tick, Fail, coordinator
<1>4. BindInv' /\ DoneMeansBound'
  BY DEF BindInv, DoneMeansBound, Timeout, Crash, Tick, Fail, chainVars, coordinator
<1> QED
  BY <1>1, <1>2, <1>3, <1>4

\* Steps of a chain that no request of this CAA makes.
LEMMA ChainStep ==
    ASSUME IInv, UNCHANGED <<skew, now, requests, coordinator>>,
           escrow' \in [Chains -> Statuses], others' \in [Chains -> OtherStatuses],
           draining' \in [Chains -> BOOLEAN], blockTs' \in [Chains -> Nat],
           \A d \in Chains : /\ (escrow'[d] # "none") <=> (escrow[d] # "none")
                             /\ (escrow'[d] = "finalized") <=> (escrow[d] = "finalized")
    PROVE  IInv'
<1> USE DEF IInv
<1>1. Recorded' = Recorded
  BY DEF Recorded
<1>2. TypeOK' /\ AttemptsInv' /\ ProofsInv'
  BY <1>1 DEF TypeOK, AttemptsInv, ProofsInv, coordinator
<1>3. RecordedInOrder' /\ BindingNeedsAll'
  BY <1>1 DEF RecordedInOrder, BindingNeedsAll
<1>4. BindInv' /\ DoneMeansBound'
  BY DEF BindInv, DoneMeansBound, coordinator
<1> QED
  BY <1>2, <1>3, <1>4

LEMMA SweepInv ==
    \A c \in Chains, torn \in BOOLEAN : IInv /\ OtherAssignment(c, torn) => IInv'
<1> SUFFICES ASSUME NEW c \in Chains, NEW torn \in BOOLEAN, IInv, OtherAssignment(c, torn)
             PROVE  IInv'
  OBVIOUS
<1>1. TypeOK /\ draining[c] \in BOOLEAN /\ NextTs(c, Wall(c)) \in Nat
  <2>1. TypeOK /\ Wall(c) \in Nat
    BY DEF IInv, TypeOK, Wall
  <2> QED
    BY <2>1, NextTsNat DEF TypeOK
<1>2. draining' \in [Chains -> BOOLEAN] /\ blockTs' \in [Chains -> Nat]
  BY <1>1, TailKeepsTypes DEF OtherAssignment
<1>3. /\ \/ escrow' = escrow
         \/ escrow[c] = "escrowed" /\ escrow' = [escrow EXCEPT ![c] = "expired"]
      /\ others' = others \/ others' = [others EXCEPT ![c] = "none"]
      /\ UNCHANGED <<skew, now, requests, coordinator>>
  BY DEF OtherAssignment, Swept
<1>4. /\ escrow' \in [Chains -> Statuses] /\ others' \in [Chains -> OtherStatuses]
      /\ \A d \in Chains : /\ (escrow'[d] # "none") <=> (escrow[d] # "none")
                           /\ (escrow'[d] = "finalized") <=> (escrow[d] = "finalized")
  BY <1>1, <1>3 DEF TypeOK, Statuses, OtherStatuses
<1> QED
  BY <1>2, <1>3, <1>4, ChainStep

LEMMA HandOverInv == \A c \in HandOvers : IInv /\ HandOver(c) => IInv'
<1> SUFFICES ASSUME NEW c \in HandOvers, IInv, HandOver(c) PROVE IInv'
  OBVIOUS
<1>1. /\ c \in Chains /\ TypeOK /\ Wall(c) \in Nat /\ NextTs(c, Wall(c)) \in Nat
      /\ draining[c] \in BOOLEAN /\ blockTs[c] \in Nat
  <2>1. c \in Chains /\ TypeOK /\ Wall(c) \in Nat
    BY CaaConstants DEF IInv, TypeOK, Wall
  <2> QED
    BY <2>1, NextTsNat DEF TypeOK
<1>2. UNCHANGED <<escrow, skew, now, requests, coordinator>>
  BY DEF HandOver, OtherCaa, OtherCaaOverdue, SubmitRecorderChange, OtherCaaBound,
         RequestRecorderChange
<1>3. others' \in [Chains -> OtherStatuses]
  BY <1>1 DEF HandOver, OtherCaa, OtherCaaOverdue, SubmitRecorderChange, OtherCaaBound,
              RequestRecorderChange, TypeOK, OtherStatuses
<1>4. draining' \in [Chains -> BOOLEAN] /\ blockTs' \in [Chains -> Nat]
  <2>1. CASE OtherCaa(c) \/ OtherCaaOverdue(c) \/ SubmitRecorderChange(c)
    BY <1>1, <2>1 DEF OtherCaa, OtherCaaOverdue, SubmitRecorderChange, TypeOK
  <2>2. CASE \E torn \in BOOLEAN : OtherCaaBound(c, torn)
    BY <1>1, <2>2, TailKeepsTypes DEF OtherCaaBound
  <2>3. CASE \E torn \in BOOLEAN : RequestRecorderChange(c, torn)
    BY <1>1, <2>3, TailKeepsTypes DEF RequestRecorderChange
  <2> QED
    BY <2>1, <2>2, <2>3 DEF HandOver
<1> QED
  BY <1>1, <1>2, <1>3, <1>4, ChainStep DEF TypeOK

LEMMA NextInv == IInv /\ [Next]_vars => IInv'
<1> SUFFICES ASSUME IInv, [Next]_vars PROVE IInv'
  OBVIOUS
<1>1. CASE Send \/ Timeout \/ Crash \/ Participant \/ Tick
  BY <1>1, SendInv, ClientInv, ParticipantInv
<1>2. CASE \E m \in requests : Handle(m)
  <2>1. PICK m \in requests : Handle(m)
    BY <1>2
  <2>2. CASE \E torn \in {FALSE, draining[m.to]} : Bind(m, torn)
    <3>1. draining[m.to] \in BOOLEAN
      BY DEF IInv, TypeOK, Request
    <3> QED
      BY <2>2, <3>1, BindStepInv
  <2> QED
    BY <2>1, <2>2, ArriveInv, RecordComponentInv, ResubmittedInv, RefuseInv DEF Handle
<1>3. CASE \E c \in Chains : \E torn \in {FALSE, draining[c]} : OtherAssignment(c, torn)
  BY <1>3, SweepInv DEF IInv, TypeOK
<1>4. CASE \E c \in HandOvers : HandOver(c)
  BY <1>4, HandOverInv
<1>5. CASE UNCHANGED vars
  BY <1>5 DEF vars, chainVars, coordinator, IInv, TypeOK, AttemptsInv, ProofsInv, Recorded,
              RecordedInOrder, BindingNeedsAll, BindInv, DoneMeansBound
<1> QED
  BY <1>1, <1>2, <1>3, <1>4, <1>5 DEF Next

THEOREM Invariance == Spec => []IInv
BY InitInv, NextInv, PTL DEF Spec

\* Types of every variable, for any number of chains and attempts.
THEOREM TypeCorrect == Spec => []TypeOK
BY Invariance, PTL DEF IInv

\* Chains lock their shares in the ouroboros order.
THEOREM OrderHolds == Spec => []RecordedInOrder
BY Invariance, PTL DEF IInv

\* A finalized escrow means that every chain has recorded the CAA.
THEOREM BindingHolds == Spec => []BindingNeedsAll
BY Invariance, PTL DEF IInv

\* A coordinator that reports success has bound every chain but the last.
THEOREM DoneHolds == Spec => []DoneMeansBound
BY Invariance, PTL DEF IInv

-----------------------------------------------------------------------------
(* Refinement of Ouroboros.                                                *)

LEMMA SameChains == O!Chains = Chains
BY DEF O!Chains, Chains

LEMMA InitImplements == Init => O!Init
<1> SUFFICES ASSUME Init PROVE O!Init
  OBVIOUS
<1>1. Recorded = {} /\ Outcome = [c \in Chains |-> "open"]
  BY DEF Init, Recorded, Outcome
<1> QED
  BY <1>1, SameChains DEF O!Init

\* A step that leaves the escrow table alone is a stutter.
LEMMA StutterImplements ==
    ASSUME escrow' = escrow PROVE UNCHANGED <<Recorded, Outcome>>
BY DEF Recorded, Outcome

LEMMA RecordImplements ==
    ASSUME IInv, NEW m \in requests, RecordComponent(m)
    PROVE  O!Record(m.to)
<1>1. m.to \in Chains
  BY StampNat DEF IInv, RecordComponent, Ready
<1>2. m.to \notin Recorded /\ Recorded' = Recorded \cup {m.to}
  BY <1>1 DEF IInv, TypeOK, RecordComponent, Accepts, Recorded
<1>3. \A p \in Chains : p < m.to => p \in Recorded
  BY DEF IInv, ProofsInv, RecordComponent, Accepts
<1>4. Outcome' = Outcome
  <2>1. \A c \in Chains : /\ (escrow'[c] = "finalized") <=> (escrow[c] = "finalized")
                          /\ (escrow'[c] = "expired") <=> (escrow[c] = "expired")
    BY <1>1 DEF IInv, TypeOK, RecordComponent, Accepts
  <2> QED
    BY <2>1 DEF Outcome
<1> QED
  BY <1>2, <1>3, <1>4, SameChains DEF O!Record

LEMMA BindImplements ==
    ASSUME IInv, NEW m \in requests, NEW torn, Bind(m, torn)
    PROVE  O!Take(m.to)
<1>1. m.to \in Chains
  BY StampNat DEF IInv, Bind, Ready
<1>2. Recorded = Chains /\ Recorded' = Recorded
  BY <1>1 DEF IInv, TypeOK, ProofsInv, Bind, Binds, Recorded
<1>3. escrow[m.to] = "escrowed" /\ escrow' = [escrow EXCEPT ![m.to] = "finalized"]
  BY DEF Bind, Binds
<1>4. Outcome[m.to] = "open" /\ Outcome' = [Outcome EXCEPT ![m.to] = "taken"]
  BY <1>1, <1>3 DEF IInv, TypeOK, Outcome
<1> QED
  BY <1>2, <1>4, SameChains DEF O!Take

LEMMA SweepImplements ==
    ASSUME IInv, NEW c \in Chains, NEW torn, OtherAssignment(c, torn)
    PROVE  O!Return(c) \/ UNCHANGED <<Recorded, Outcome>>
<1>1. CASE escrow' = escrow
  BY <1>1, StutterImplements
<1>2. CASE escrow[c] = "escrowed" /\ escrow' = [escrow EXCEPT ![c] = "expired"]
  <2>1. c \in Recorded /\ Recorded' = Recorded
    BY <1>2 DEF IInv, TypeOK, Recorded
  <2>2. Outcome[c] = "open" /\ Outcome' = [Outcome EXCEPT ![c] = "returned"]
    BY <1>2 DEF IInv, TypeOK, Outcome
  <2> QED
    BY <2>1, <2>2 DEF O!Return
<1> QED
  BY <1>1, <1>2 DEF OtherAssignment, Swept

LEMMA StepImplements == IInv /\ [Next]_vars => [O!Next]_<<Recorded, Outcome>>
<1> SUFFICES ASSUME IInv, [Next]_vars PROVE [O!Next]_<<Recorded, Outcome>>
  OBVIOUS
<1>1. CASE \E m \in requests : RecordComponent(m)
  <2>1. PICK m \in requests : RecordComponent(m)
    BY <1>1
  <2>2. m.to \in O!Chains
    BY <2>1, StampNat, SameChains DEF IInv, RecordComponent, Ready
  <2> QED
    BY <2>1, <2>2, RecordImplements DEF O!Next
<1>2. CASE \E m \in requests : \E torn \in {FALSE, draining[m.to]} : Bind(m, torn)
  <2>1. PICK m \in requests : \E torn \in {FALSE, draining[m.to]} : Bind(m, torn)
    BY <1>2
  <2>2. m.to \in O!Chains
    BY <2>1, StampNat, SameChains DEF IInv, Bind, Ready
  <2> QED
    BY <2>1, <2>2, BindImplements DEF O!Next
<1>3. CASE \E c \in Chains : \E torn \in {FALSE, draining[c]} : OtherAssignment(c, torn)
  BY <1>3, SweepImplements, SameChains DEF O!Next
<1>4. CASE escrow' = escrow
  BY <1>4, StutterImplements
<1>5. \/ escrow' = escrow
      \/ \E m \in requests : \/ RecordComponent(m)
                             \/ \E torn \in {FALSE, draining[m.to]} : Bind(m, torn)
      \/ \E c \in Chains : \E torn \in {FALSE, draining[c]} : OtherAssignment(c, torn)
  BY DEF Next, Send, Timeout, Crash, Participant, Tick, Handle, Arrive, Resubmitted, RefuseSubmit,
         RefuseBind, HandOver, OtherCaa, OtherCaaOverdue, OtherCaaBound,
         RequestRecorderChange, SubmitRecorderChange, chainVars, vars
<1> QED
  BY <1>1, <1>2, <1>3, <1>4, <1>5

\* The chains of an exchange implement the ouroboros recording, whatever the
\* coordinator and the network do.
THEOREM Refinement == Spec => OuroborosSpec
BY InitImplements, StepImplements, Invariance, PTL DEF Spec, OuroborosSpec, O!Spec
=============================================================================
