----------------------------- MODULE SimViewer -----------------------------
(***************************************************************************)
(* The live feed of the economic simulations: agents report trades and     *)
(* their own state, the viewer server keeps both and pushes them over a    *)
(* WebSocket, the page lists the trades, shows toasts and can be paused    *)
(* (sims/src: agents.rs, viewer.rs; sims/viewer/src: api.ts, store.ts,     *)
(* App.tsx, TimeControls.tsx, TransactionToasts.tsx, AgentDetail.tsx).     *)
(*                                                                         *)
(* A trade is its id, which the server counts up.  The map tab is open, so *)
(* the timers of the toasts run.  Charts, filters and speed are left out.  *)
(***************************************************************************)
EXTENDS Integers, SequencesExt

CONSTANTS
    Agents,
    Cap, Drop,      \* the server keeps Cap trades and drops Drop of them above that
    SnapshotLimit,  \* trades in the first message of a connection
    UpdateLimit,    \* trades in each further one
    Life,           \* a toast's timer, in ticks
    Happenings,     \* what may happen besides: see Possible
    \* bounds of the instance
    MaxTrades, MaxLosses, Buffer

Possible == {"lose", "pause", "hold", "mute", "time"}

SimViewerConstants ==
    /\ {Cap, SnapshotLimit, UpdateLimit, Life, Buffer} \subseteq Nat \ {0}
    /\ Drop \in 1..Cap /\ {MaxTrades, MaxLosses} \subseteq Nat
    /\ Happenings \subseteq Possible

VARIABLES
    \* the simulation
    held,           \* the agents' pause flags
    phase,          \* where each agent is in its loop
    \* ViewerState
    reported,       \* AgentState.paused as each agent last reported it
    trades, next,   \* transactions, next_tx_id
    \* one connection
    conn,           \* ws_connection, as long as the socket is open
    wire,           \* messages sent and not yet received
    losses,
    \* the page
    shown,          \* paused of each agent, <<>> before the first message
    list,           \* transactions
    paused, muted,
    toasts, lastSeen,
    told            \* history: the trades toasted, in order

simulation == <<held, phase>>
server == <<reported, trades, next>>
socket == <<conn, wire, losses>>
noted == <<toasts, lastSeen, told>>
page == <<shown, list, paused, muted, noted>>
vars == <<simulation, server, socket, page>>

Closed == [step |-> "closed"]
LastN(s, n) == SubSeq(s, Len(s) - n + 1, Len(s))
Newest(s) == IF s = <<>> THEN 0 ELSE Last(s)

\* watch::Sender::send: the handler of an open socket has something to read.
Told(c) == IF c.step = "closed" THEN c ELSE [c EXCEPT !.dirty = TRUE]

----------------------------------------------------------------------------
(* Agents *)

\* wait_while_paused lets an agent begin a round.
Begin(a) ==
    /\ phase[a] = "wait" /\ ~held[a]
    /\ phase' = [phase EXCEPT ![a] = "work"]
    /\ UNCHANGED <<held, server, socket, page>>

\* ViewerEvent::Transaction and add_transaction
Trade(a) ==
    /\ phase[a] = "work" /\ next <= MaxTrades
    /\ LET all == Append(trades, next)
       IN trades' = IF Len(all) > Cap THEN SubSeq(all, Drop + 1, Len(all)) ELSE all
    /\ next' = next + 1
    /\ conn' = Told(conn)
    /\ phase' = [phase EXCEPT ![a] = "traded"]
    /\ UNCHANGED <<held, reported, wire, losses, page>>

\* ViewerEvent::State and update_agent: the flag as it is now.
Report(a) ==
    /\ phase[a] \in {"work", "traded"}
    /\ reported' = [reported EXCEPT ![a] = held[a]]
    /\ conn' = Told(conn)
    /\ phase' = [phase EXCEPT ![a] = "wait"]
    /\ UNCHANGED <<held, trades, next, wire, losses, page>>

----------------------------------------------------------------------------
(* The socket *)

\* What of s is in S, in its order.
Only(s, S) ==
    LET upTo[n \in 0..Len(s)] ==
            IF n = 0 THEN <<>>
            ELSE IF s[n] \in S THEN Append(upTo[n - 1], s[n]) ELSE upTo[n - 1]
    IN upTo[Len(s)]

After(id, n) ==     \* get_transactions
    LET later == Only(trades, {t \in Range(trades) : t > id})
    IN SubSeq(later, 1, IF n < Len(later) THEN n ELSE Len(later))

\* The page connects, now or when its retry timer fires; the clone of the
\* subscription has never been read.
Connect ==
    /\ conn = Closed
    /\ LET first == After(0, SnapshotLimit)
       IN /\ conn' = [step |-> "changed", dirty |-> TRUE, sent |-> Newest(first)]
          /\ wire' = <<[agents |-> reported, trades |-> first]>>
    /\ UNCHANGED <<simulation, server, losses, page>>

\* rx.changed() returns and marks the value as seen.
Changed ==
    /\ conn.step = "changed" /\ conn.dirty
    /\ conn' = [conn EXCEPT !.step = "push", !.dirty = FALSE]
    /\ UNCHANGED <<simulation, server, wire, losses, page>>

PushSkipping ==     \* mutant: the id of the notification, not of the last one sent
    /\ conn.step = "push" /\ Len(wire) < Buffer
    /\ LET more == After(conn.sent, UpdateLimit)
       IN /\ conn' = [conn EXCEPT !.step = "changed", !.sent = Newest(trades)]
          /\ wire' = Append(wire, [agents |-> reported, trades |-> more])
    /\ UNCHANGED <<simulation, server, losses, page>>
\* The handler reads what is new and sends it, once the socket takes it.
Push ==
    /\ conn.step = "push" /\ Len(wire) < Buffer
    /\ LET more == After(conn.sent, UpdateLimit)
       IN /\ conn' = [conn EXCEPT !.step = "changed",
                                  !.sent = IF more = <<>> THEN @ ELSE Last(more)]
          /\ wire' = Append(wire, [agents |-> reported, trades |-> more])
    /\ UNCHANGED <<simulation, server, losses, page>>

Lose ==
    /\ "lose" \in Happenings /\ conn # Closed /\ losses < MaxLosses
    /\ losses' = losses + 1
    /\ conn' = Closed /\ wire' = <<>>
    /\ UNCHANGED <<simulation, server, page>>

----------------------------------------------------------------------------
(* The page *)

NewToasts(ids) == [i \in DOMAIN ids |-> [trade |-> ids[i], left |-> Life, age |-> 0]]
Restarted(ts) == [i \in DOMAIN ts |-> [ts[i] EXCEPT !.left = Life]]

\* addToast for each id; as the stack changes, every timer starts anew.
Stack(ts, ids) ==
    LET all == Restarted(ts) \o NewToasts(ids)
    IN IF Len(all) > 3 THEN LastN(all, 3) ELSE all

\* useTransactionToasts' effect, after a change of its arguments.
Announce(l, m, p) ==
    LET fresh == SelectSeq(l, LAMBDA t : t > lastSeen)
        ids == IF Len(fresh) > 2 THEN LastN(fresh, 2) ELSE fresh
    IN IF m \/ p \/ fresh = <<>> THEN UNCHANGED noted
       ELSE /\ lastSeen' = Last(fresh)
            /\ toasts' = Stack(toasts, ids)
            /\ told' = told \o ids

\* addTransactions
With(l, new) == l \o Only(new, Range(new) \ Range(l))

\* The onMessage callback: a paused page drops what it gets.
Receive ==
    /\ wire # <<>>
    /\ wire' = Tail(wire)
    /\ IF paused THEN UNCHANGED page
       ELSE LET msg == Head(wire)
            IN /\ shown' = msg.agents
               /\ list' = With(list, msg.trades)
               /\ Announce(list', muted, paused)
               /\ UNCHANGED <<paused, muted>>
    /\ UNCHANGED <<simulation, server, conn, losses>>

\* The Pause / Resume button, there once a trade is listed.
TogglePause ==
    /\ "pause" \in Happenings /\ list # <<>>
    /\ paused' = ~paused
    /\ Announce(list, muted, paused')
    /\ UNCHANGED <<simulation, server, socket, shown, list, muted>>

ToggleMute ==
    /\ "mute" \in Happenings
    /\ muted' = ~muted
    /\ Announce(list, muted', paused)
    /\ UNCHANGED <<simulation, server, socket, shown, list, paused>>

\* The button of one agent: what it asks for is the opposite of what is shown.
\* It is on a page of its own; the map's toasts start anew when it is back.
ToggleAgent(a) ==
    /\ "hold" \in Happenings /\ a \in DOMAIN shown
    /\ shown' = [shown EXCEPT ![a] = ~@]
    /\ held' = [held EXCEPT ![a] = shown'[a]]
    /\ toasts' = Restarted(toasts)
    /\ UNCHANGED <<phase, server, socket, list, paused, muted, lastSeen, told>>

\* An age is counted up to the first tick beyond Life.
Tick ==
    /\ "time" \in Happenings /\ toasts # <<>>
    /\ \A i \in DOMAIN toasts : toasts[i].left > 0
    /\ toasts' = [i \in DOMAIN toasts |->
                    [toasts[i] EXCEPT !.left = @ - 1, !.age = IF @ > Life THEN @ ELSE @ + 1]]
    /\ UNCHANGED <<simulation, server, socket, shown, list, paused, muted, lastSeen, told>>

\* A timer fires: removeToast changes the stack, so the others start anew.
Expire ==
    /\ \E i \in DOMAIN toasts :
        /\ toasts[i].left = 0
        /\ toasts' = Restarted(RemoveAt(toasts, i))
    /\ UNCHANGED <<simulation, server, socket, shown, list, paused, muted, lastSeen, told>>

----------------------------------------------------------------------------
Init ==
    /\ held = [a \in Agents |-> FALSE] /\ phase = [a \in Agents |-> "wait"]
    /\ reported = [a \in Agents |-> FALSE] /\ trades = <<>> /\ next = 1
    /\ conn = Closed /\ wire = <<>> /\ losses = 0
    /\ shown = <<>> /\ list = <<>>
    /\ paused = FALSE /\ muted = FALSE
    /\ toasts = <<>> /\ lastSeen = 0 /\ told = <<>>

Next ==
    \/ \E a \in Agents : Begin(a) \/ Trade(a) \/ Report(a) \/ ToggleAgent(a)
    \/ Connect \/ Changed \/ Push \/ Lose
    \/ Receive \/ TogglePause \/ ToggleMute \/ Tick \/ Expire

Spec == Init /\ [][Next]_vars

----------------------------------------------------------------------------
Ids == 1..MaxTrades

\* Types; the stack never holds more than three toasts (store.ts, addToast).
TypeOK ==
    /\ {held, reported} \subseteq [Agents -> BOOLEAN]
    /\ shown \in [Agents -> BOOLEAN] \cup {<<>>}
    /\ phase \in [Agents -> {"wait", "work", "traded"}]
    /\ \A s \in {trades, list, told} : \A i \in DOMAIN s : s[i] \in Ids
    /\ Len(trades) <= Cap /\ Len(wire) <= Buffer /\ Len(toasts) <= 3
    /\ next \in 1..MaxTrades + 1 /\ lastSeen \in 0..MaxTrades
    /\ {paused, muted} \subseteq BOOLEAN
    /\ conn = Closed \/ conn.sent \in 0..MaxTrades

\* The list has no hole: whatever the server still keeps and is older than the
\* newest listed trade is listed too, across lost connections, limited messages
\* and a server that drops its oldest trades (the feed of docs/README.md).
NoGap ==
    \A i \in DOMAIN trades :
        (list # <<>> /\ trades[i] <= Last(list)) => Contains(list, trades[i])

----------------------------------------------------------------------------
(* What documents and comments say and the code does not keep for some     *)
(* values of the constants: README, 3.4.                                   *)

\* No trade is toasted twice, across muting and connections that start over
\* with all trades (lastSeenId of TransactionToasts.tsx).
ToastedOnce == IsInjective(told)

\* A toast goes after the time its timer is set to (TransactionToasts.tsx).
ToastsGo == \A i \in DOMAIN toasts : toasts[i].age <= Life

\* Once everything sent has arrived, an agent that waits because it is paused
\* is shown as paused (AgentDetail.tsx against the state the server keeps).
HeldIsShown ==
    (conn.step = "changed" /\ ~conn.dirty /\ wire = <<>> /\ ~paused) =>
        \A a \in DOMAIN shown : phase[a] = "wait" => shown[a] = held[a]
=============================================================================
