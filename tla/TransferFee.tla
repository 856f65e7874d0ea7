---------------------------- MODULE TransferFee ----------------------------
\* How a transfer pays its recording fee. The fee depends on the size of the page,
\* the size on the amounts, and an amount on the fee; the builder goes round three
\* times, and the recorder, which computes the fee from the page it gets and from
\* its own shares_out, accepts only the exact amount. Two builders: the wallet
\* (ConsumerView.handleBuild), which guesses the part of the page that it has not
\* built yet, and the exchange agent (execute_transfer), which builds all of it.
\* Sizes are the real ones, in bytes of eight bits.
EXTENDS Integers, Sequences

CONSTANTS Builders,             \* a subset of {"wallet", "agent"}
          TotalLo, TotalHi,     \* what the giver holds
          Sends,                \* what the recipient is to get
          Shares,               \* shares_out at the start
          FeeNum, FeeDen, RewardNum, RewardDen,
          SeqId, ListingBytes,  \* the giver's SEQ_ID; the agent's EXCHANGE_LISTING
          OtherBlocks,          \* bound on the blocks others record meanwhile
          OtherFee              \* and the fee each of them retires

FeeAssumption ==
    /\ Builders \subseteq {"wallet", "agent"}
    /\ {TotalLo, TotalHi, SeqId, ListingBytes, OtherBlocks,
          OtherFee, FeeNum, RewardNum} \subseteq Nat
    /\ {FeeDen, RewardDen} \subseteq Nat \ {0}
    /\ Sends \subseteq Nat \ {0} /\ Shares \subseteq Nat \ {0}

VARIABLES shares,   \* the recorder's shares_out
          order,    \* [builder, total, send]: the transfer to be made
          info,     \* shares_out as the builder read it, 0 before
          amounts,  \* of the recipient and, if there is one, of the change key
          rounds,   \* rounds of the fee computation done
          fee,      \* the fee the builder arrived at
          outcome,  \* "building", "posted", "recorded", "refused" or "given up"
          others    \* blocks others have recorded
vars == <<shares, order, info, amounts, rounds, fee, outcome, others>>

Rounds == 3

\* ---- sizes ----
\* Bytes of an unsigned VBC field, and of a big integer in two's complement, whose
\* first byte holds the sign and seven bits.
VbcLen[n \in Nat] == IF n < 128 THEN 1 ELSE 1 + VbcLen[n \div 128]
SignedLen[m \in Nat] == IF m < 128 THEN 1 ELSE 1 + SignedLen[m \div 256]
BigLen(n) == IF n = 0 THEN 0 ELSE SignedLen[IF n < 0 THEN -n - 1 ELSE n]

\* An item with a size field, after a type code of tc bytes.
Sized(tc, bytes) == tc + VbcLen[bytes] + bytes
AmountItem(n) == Sized(1, VbcLen[BigLen(n)] + BigLen(n))
BidItem == Sized(1, 2 + BigLen(FeeNum) + BigLen(FeeDen))

Sum(s) == LET sum[n \in 0 .. Len(s)] == IF n = 0 THEN 0 ELSE sum[n - 1] + s[n]
          IN sum[Len(s)]

\* ASSIGNMENT: LIST_SIZE, the giver, the receivers, the bid, the deadline.
buildAssignment(total, recv, listing) ==
    LET giver == Sized(1, (1 + VbcLen[SeqId]) + AmountItem(total))
        receiver(n) == Sized(1, 33 + AmountItem(n))
    IN Sized(1, 2 + giver + Sum([i \in 1 .. Len(recv) |-> receiver(recv[i])])
                  + BidItem + 9 + listing)

\* AUTH_SIG: signature, time stamp, page index.
AuthSig == Sized(1, 65 + 9 + 2)

\* PAGE with its index and an AUTHORIZATION with a signature of every participant.
PageBytes(total, recv, listing) ==
    Sized(1, 2 + Sized(1, buildAssignment(total, recv, listing)
                          + (1 + Len(recv)) * AuthSig))

\* ---- fees ----
ceilDiv(a, b) == (a + b - 1) \div b

recordingFee(bytes, sharesOut) == ceilDiv(bytes * FeeNum * sharesOut, FeeDen)
shareReward(total) == IF RewardNum = 0 THEN 0 ELSE ceilDiv(total * RewardNum, RewardDen)

HasChange == order.builder = "agent" \/ order.send < order.total
Listing == IF order.builder = "agent" THEN ListingBytes ELSE 0

\* A part of the holdings with change, or all of them (the wallet's alone).
Orders ==
    {o \in [builder : Builders, total : TotalLo .. TotalHi, send : Sends] : o.send <= o.total}
    \cup {[builder |-> b, total |-> n, send |-> n] :
              b \in Builders \cap {"wallet"}, n \in TotalLo .. TotalHi}

Init ==
    /\ shares \in Shares
    /\ order \in Orders
    /\ amounts = IF HasChange THEN <<order.send, 0>> ELSE <<order.send>>
    /\ info = 0 /\ rounds = 0 /\ fee = 0 /\ outcome = "building" /\ others = 0

\* The builder has the chain's figures: the agent asks for them, the wallet has
\* them on the page, as of when the page was last refreshed.
ReadInfo == /\ outcome = "building" /\ info = 0
            /\ info' = shares
            /\ UNCHANGED <<shares, order, amounts, rounds, fee, outcome, others>>

\* What the wallet takes the size of the page to be: the assignment and 200 bytes.
WalletEstimate == buildAssignment(order.total, amounts, 0) + 200

\* mutant: the agent measures the page without its listing.
MeasuredBare == IF order.builder = "wallet" THEN WalletEstimate
                ELSE PageBytes(order.total, amounts, 0)

Measured == IF order.builder = "wallet" THEN WalletEstimate
            ELSE PageBytes(order.total, amounts, Listing)

\* The agent looks after every round, the wallet after the last.
Overspent(rest) == rest <= 0 /\ (order.builder = "agent" \/ rounds + 1 = Rounds)

\* One round: the fee of what is built so far, and the rest to the last receiver.
Round ==
    /\ outcome = "building" /\ info > 0 /\ rounds < Rounds
    /\ LET f == recordingFee(Measured, info)
           last == Len(amounts)
           rest == order.total - f - Sum(SubSeq(amounts, 1, last - 1))
       IN /\ fee' = f
          /\ amounts' = [amounts EXCEPT ![last] = rest]
          /\ rounds' = rounds + 1
          /\ outcome' = IF Overspent(rest) THEN "given up" ELSE "building"
    /\ UNCHANGED <<shares, order, info, others>>

Submit == /\ outcome = "building" /\ rounds = Rounds
          /\ outcome' = "posted"
          /\ UNCHANGED <<shares, order, info, amounts, rounds, fee, others>>

\* The recorder's equation: givers = receivers + fee + reward.
Balanced(recv, sharesOut) ==
    order.total = Sum(recv) + shareReward(order.total)
                  + recordingFee(PageBytes(order.total, recv, Listing), sharesOut)

Acceptable(recv, sharesOut) == /\ \A i \in 1 .. Len(recv) : recv[i] > 0
                               /\ Balanced(recv, sharesOut)

Record ==
    /\ outcome = "posted"
    /\ IF Acceptable(amounts, shares)
       THEN /\ outcome' = "recorded"
            /\ shares' = shares - recordingFee(PageBytes(order.total, amounts, Listing),
                                               shares)
       ELSE outcome' = "refused" /\ UNCHANGED shares
    /\ UNCHANGED <<order, info, amounts, rounds, fee, others>>

\* Another assignment is recorded and its fee retired.
OtherBlock == /\ outcome \in {"building", "posted"} /\ others < OtherBlocks
              /\ shares > OtherFee
              /\ shares' = shares - OtherFee /\ others' = others + 1
              /\ UNCHANGED <<order, info, amounts, rounds, fee, outcome>>

Next == ReadInfo \/ Round \/ Submit \/ Record \/ OtherBlock
Spec == Init /\ [][Next]_vars

\* Types; and nothing is posted that gives somebody nothing.
TypeOK == /\ {shares, info, rounds, fee, others} \subseteq Nat
          /\ amounts \in Seq(Int) /\ Len(amounts) \in 1 .. 2
          /\ outcome \in {"building", "posted", "recorded", "refused", "given up"}
          /\ outcome = "posted" => \A i \in 1 .. Len(amounts) : amounts[i] > 0

\* If an amount for the change key balances under the shares_out the agent read,
\* its three rounds find it: where the fee of a few bytes moves the amount past one
\* of its sizes at most, the rounds end on the size that fits. (A fee that moves it
\* past several can miss it: README, 4.)
RoundsSuffice ==
    order.builder = "agent" /\ outcome = "posted" =>
        \/ Balanced(amounts, info)
        \/ \A c \in 1 .. order.total : ~Balanced([amounts EXCEPT ![2] = c], info)

\* ---- what documents and comments say and the code does not keep for some values
\* of the constants (README, 3.4) ----
\* "The last receiver's amount is automatically adjusted to satisfy the balance
\* equation": what was built on present figures is recorded.
BuiltIsAccepted == outcome = "refused" => others > 0
=============================================================================
