--------------------------- MODULE ExchangeAgent ----------------------------
(***************************************************************************)
(* The exchange agent's trades against deposits: ExchangeEngine            *)
(* (ao-exchange/src/engine.rs), TradeManager (trade.rs), Wallet (wallet.rs)*)
(* and execute_transfer (transfer.rs), between two chains with a pair each *)
(* way.  The engine's mutex is held through a whole check_deposits, so     *)
(* requests wait; the chains, the clock and a crash do not.                *)
(***************************************************************************)
EXTENDS Integers, FiniteSets, SequencesExt

CONSTANTS
    Chains,
    Amounts,        \* what consumers ask for and deposit
    Fee,            \* recording fee of a payout
    Ttl,            \* trade_ttl_secs
    Sse,            \* deposit_detection = "sse"
    Faults,         \* requests to a recorder fail, answers get lost
    \* bounds of the instance
    MaxTrades, MaxDeposits, MaxTime, MaxRestarts

ExchangeConstants ==
    /\ Cardinality(Chains) = 2 /\ Amounts \subseteq Nat \ {0} /\ Fee \in Nat /\ Ttl \in Nat
    /\ {Sse, Faults} \subseteq BOOLEAN
    /\ {MaxTrades, MaxDeposits, MaxTime, MaxRestarts} \subseteq Nat

VARIABLES
    utxos,          \* the recorders: UTXOs of each chain by seq_id
    keys,           \* Wallet.keys, in the order of their generation
    trades,         \* TradeManager: the pending trades
    last,           \* last_seq
    cycle,          \* where check_deposits stands
    notice,         \* a notification waits in run_sse_loop's channel
    now,
    issued, deposits, restarts,     \* counters
    asked,          \* every trade ever handed to a consumer
    short           \* trades, paid no more than asked, whose payout found too little inventory

agent == <<keys, trades, last, cycle>>
counters == <<issued, deposits, restarts, asked, short>>
vars == <<utxos, agent, notice, now, counters>>

Other(c) == CHOOSE x \in Chains : x # c
None == 0           \* no entry in last_seq, no seq_id; sequence ids start at 1

\* Keys: the configured one, the deposit and receive key of a trade, change of a payout.
OwnKey == <<"own", 0>>
Deposit(t) == <<"deposit", t>>
Receive(t) == <<"receive", t>>
Change(t) == <<"change", t>>
Entry(key, c) == [key |-> key, chain |-> c, seq |-> None, amount |-> 0, spent |-> FALSE]

\* compute_sell_amount, for a rate of three both ways; zero when too little to trade.
Sell(amount) == amount \div 3

Idle == [pc |-> "idle", todo |-> {}, chain |-> CHOOSE c \in Chains : TRUE,
         next |-> 0, end |-> 0, matched |-> <<>>]

\* from_config: the configured keys are imported, nothing asks what they hold.
Started == SetToSeq({Entry(OwnKey, c) : c \in Chains})

Init ==
    /\ utxos = [c \in Chains |-> <<[key |-> OwnKey, amount |-> 8, spent |-> FALSE]>>]
    /\ keys = Started
    /\ trades = {} /\ last = [c \in Chains |-> None]
    /\ cycle = Idle /\ notice = Sse /\ now = 0
    /\ issued = 0 /\ deposits = 0 /\ restarts = 0 /\ asked = {} /\ short = {}

-----------------------------------------------------------------------------
(* Wallet. *)

Held(c) == SelectSeq(keys, LAMBDA k : k.chain = c /\ k.seq # None /\ ~k.spent)
Balance(c) == FoldLeft(LAMBDA sum, k : sum + k.amount, 0, Held(c))

Registered(ks, key, seq, amount) ==
    [i \in DOMAIN ks |-> IF ks[i].key = key THEN [ks[i] EXCEPT !.seq = seq, !.amount = amount]
                         ELSE ks[i]]
Spent(ks, key) == [i \in DOMAIN ks |-> IF ks[i].key = key THEN [ks[i] EXCEPT !.spent = TRUE] ELSE ks[i]]

-----------------------------------------------------------------------------
(* Consumers and time. *)

\* The agent sells on c what it has of c, for payment on the other chain.
request_trade ==
    \E c \in Chains, amount \in Amounts :
        /\ cycle.pc = "idle" /\ issued < MaxTrades /\ now + Ttl < MaxTime
        /\ Sell(amount) <= Balance(c)
        /\ LET t == [id |-> issued + 1, sell |-> c, amount |-> amount, expires |-> now + Ttl] IN
            /\ trades' = trades \cup {t}
            /\ asked' = asked \cup {t}
            /\ keys' = keys \o <<Entry(Deposit(t.id), Other(c)), Entry(Receive(t.id), c)>>
        /\ issued' = issued + 1
        /\ UNCHANGED <<utxos, last, cycle, notice, now, deposits, restarts, short>>

\* The consumer pays, as much and as often as it likes.  The block is announced.
Pay ==
    \E t \in asked, amount \in Amounts :
        /\ deposits < MaxDeposits
        /\ utxos' = [utxos EXCEPT ![Other(t.sell)] =
                        Append(@, [key |-> Deposit(t.id), amount |-> amount, spent |-> FALSE])]
        /\ deposits' = deposits + 1 /\ notice' = Sse
        /\ UNCHANGED <<agent, now, issued, restarts, asked, short>>

Tick ==
    /\ now < MaxTime /\ now' = now + 1
    /\ UNCHANGED <<utxos, agent, notice, counters>>

\* The stream broke: run_sse_loop's fallback.
StreamLost ==
    /\ Sse /\ Faults /\ ~notice /\ notice' = TRUE
    /\ UNCHANGED <<utxos, agent, now, counters>>

-----------------------------------------------------------------------------
(* check_deposits. *)

Expired(t) == t.expires < now

\* A notification or the poll interval starts it; expire_stale comes first.
CheckDeposits ==
    /\ cycle.pc = "idle" /\ (Sse => notice)
    /\ notice' = FALSE
    /\ trades' = {t \in trades : ~Expired(t)}
    /\ cycle' = [Idle EXCEPT !.pc = "poll", !.todo = Chains]
    /\ UNCHANGED <<utxos, keys, last, now, counters>>

NextSeq(c) == Len(utxos[c]) + 1
\* chain_info.  The position moves on before anything is fetched.
Poll ==
    /\ cycle.pc = "poll"
    /\ \E c \in cycle.todo :
        LET next == NextSeq(c)
            prev == IF last[c] = None THEN next ELSE last[c] IN
        \/ /\ last' = [last EXCEPT ![c] = next]
           /\ cycle' = [cycle EXCEPT !.pc = "fetch", !.todo = @ \ {c}, !.chain = c,
                                     !.next = prev, !.end = next]
        \/ /\ Faults /\ cycle' = [cycle EXCEPT !.todo = @ \ {c}]
           /\ UNCHANGED last
    /\ UNCHANGED <<utxos, keys, trades, notice, now, counters>>

MatchingAny(u) == trades      \* mutant: the key is not compared
Matching(u) == {t \in trades : u.key = Deposit(t.id)}

\* get_utxo of the next sequence id; one that fails is passed over.
Fetch ==
    /\ cycle.pc = "fetch" /\ cycle.next < cycle.end
    /\ LET u == utxos[cycle.chain][cycle.next] IN
        \/ /\ ~u.spent /\ Matching(u) # {}
           /\ keys' = Registered(keys, u.key, cycle.next, u.amount)
           /\ cycle' = [cycle EXCEPT !.next = @ + 1,
                            !.matched = Append(@, [trade |-> CHOOSE t \in Matching(u) : TRUE, amount |-> u.amount])]
        \/ /\ u.spent \/ Matching(u) = {} \/ Faults
           /\ cycle' = [cycle EXCEPT !.next = @ + 1]
           /\ UNCHANGED keys
    /\ UNCHANGED <<utxos, trades, last, notice, now, counters>>

Fetched ==
    /\ \/ cycle.pc = "fetch" /\ cycle.next = cycle.end
       \/ cycle.pc = "poll" /\ cycle.todo = {}
    /\ cycle' = [cycle EXCEPT !.pc = IF cycle.todo = {} THEN "execute" ELSE "poll"]
    /\ UNCHANGED <<utxos, keys, trades, last, notice, now, counters>>

Consumed(m) == cycle' = [cycle EXCEPT !.matched = Tail(@)] /\ trades' = trades \ {m.trade}

\* A second deposit to the trade in one cycle: it has been removed.
SkipGone ==
    /\ cycle.pc = "execute" /\ cycle.matched # <<>> /\ Head(cycle.matched).trade \notin trades
    /\ Consumed(Head(cycle.matched))
    /\ UNCHANGED <<utxos, keys, last, notice, now, counters>>

\* The first registered UTXO of the sell chain has to do.  The recorder takes
\* it only if it is unspent; the answer may be lost, and the wallet is not told.
execute_trade ==
    /\ cycle.pc = "execute" /\ cycle.matched # <<>> /\ Head(cycle.matched).trade \in trades
    /\ LET m == Head(cycle.matched)
           t == m.trade
           c == t.sell
           sell == Sell(m.amount)
           giver == Head(Held(c))
           change == giver.amount - Fee - sell
           covered == Held(c) # <<>> /\ change > 0
           withChange == Append(keys, Entry(Change(t.id), c))
           block == <<[key |-> Receive(t.id), amount |-> sell, spent |-> FALSE],
                      [key |-> Change(t.id), amount |-> change, spent |-> FALSE]>> IN
        /\ Consumed(m)
        /\ \/ /\ sell < 1
              /\ UNCHANGED <<utxos, keys, notice, short>>
           \/ /\ sell >= 1 /\ ~covered
              /\ keys' = IF Held(c) = <<>> THEN keys ELSE withChange
              /\ short' = IF m.amount <= t.amount THEN short \cup {t.id} ELSE short
              /\ UNCHANGED <<utxos, notice>>
           \/ /\ sell >= 1 /\ covered
              /\ \/ /\ ~utxos[c][giver.seq].spent
                    /\ utxos' = [utxos EXCEPT ![c] = [@ EXCEPT ![giver.seq].spent = TRUE] \o block]
                    /\ notice' = Sse
                    /\ \/ keys' = Registered(Spent(withChange, giver.key), Change(t.id),
                                             Len(utxos[c]) + 2, change)
                       \/ Faults /\ keys' = withChange
                 \/ /\ utxos[c][giver.seq].spent \/ Faults
                    /\ keys' = withChange /\ UNCHANGED <<utxos, notice>>
              /\ UNCHANGED short
    /\ UNCHANGED <<last, now, issued, deposits, restarts, asked>>

CycleDone ==
    /\ cycle.pc = "execute" /\ cycle.matched = <<>>
    /\ cycle' = Idle
    /\ UNCHANGED <<utxos, keys, trades, last, notice, now, counters>>

\* All of the engine is in memory; trade_history is only written.
Restart ==
    /\ restarts < MaxRestarts /\ restarts' = restarts + 1
    /\ keys' = Started /\ trades' = {} /\ last' = [c \in Chains |-> None]
    /\ cycle' = Idle /\ notice' = Sse
    /\ UNCHANGED <<utxos, now, issued, deposits, asked, short>>

Check == CheckDeposits \/ Poll \/ Fetch \/ Fetched \/ SkipGone \/ execute_trade \/ CycleDone

Next == request_trade \/ Pay \/ Tick \/ StreamLost \/ Check \/ Restart

\* The daemon's loop goes on and so does time; nobody has to trade.
Spec == Init /\ [][Next]_vars

-----------------------------------------------------------------------------
(* Properties. *)

\* Types; no check looks beyond what the chain has, and a pending trade has its key.
TypeOK ==
    /\ \A c \in Chains : \A i \in DOMAIN utxos[c] :
        utxos[c][i].amount \in Nat /\ utxos[c][i].spent \in BOOLEAN
    /\ \A t \in trades : t \in asked /\ Deposit(t.id) \in {keys[i].key : i \in DOMAIN keys}
    /\ \A c \in Chains : last[c] \in 0..(Len(utxos[c]) + 1)
    /\ cycle.pc = "fetch" => cycle.next <= cycle.end
    /\ notice \in BOOLEAN /\ now \in 0..MaxTime
    /\ cycle.pc \in {"idle", "poll", "fetch", "execute"}

Payouts(t) == {i \in DOMAIN utxos[t.sell] : utxos[t.sell][i].key = Receive(t.id)}
DepositsOf(t) == {i \in DOMAIN utxos[Other(t.sell)] : utxos[Other(t.sell)][i].key = Deposit(t.id)}

\* However often a consumer pays, answers are lost and the agent is restarted,
\* a trade is paid out once at most, for one of its deposits.
PaidOnce ==
    \A t \in asked :
        /\ Cardinality(Payouts(t)) <= 1
        /\ \A i \in Payouts(t) : \E j \in DepositsOf(t) :
                utxos[t.sell][i].amount = Sell(utxos[Other(t.sell)][j].amount)

-----------------------------------------------------------------------------
(* What documents and comments say and the code does not keep for some     *)
(* values of the constants: README, 3.4.                                   *)

\* Between checks, no deposit to a pending trade has been passed by.
DepositMatched ==
    cycle.pc = "idle" =>
        \A t \in trades : \A i \in DepositsOf(t) : last[Other(t.sell)] \in {None} \cup 1..i

\* A trade that was accepted, and paid no more than asked, finds the inventory it was promised.
AcceptedIsCovered == short = {}

\* The positions reported are what the agent's keys hold on the chains.
PositionsComplete ==
    cycle.pc = "idle" => \A c \in Chains : \A i \in DOMAIN utxos[c] :
        (utxos[c][i].key = OwnKey /\ ~utxos[c][i].spent) => \E j \in DOMAIN Held(c) : Held(c)[j].seq = i

Registers(ks) == {<<ks[i].chain, ks[i].seq>> : i \in {j \in DOMAIN ks : ks[j].seq # None}}

\* A running agent does not lose sight of a UTXO it has registered.
RegisteredStay == [][restarts' = restarts => Registers(keys) \subseteq Registers(keys')]_vars
=============================================================================
