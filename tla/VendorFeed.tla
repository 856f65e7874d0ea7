----------------------------- MODULE VendorFeed -----------------------------
(***************************************************************************)
(* The vendor's view of its chains: the shared pool of event streams, the  *)
(* cards of the dashboard and the monitor of the selected chain (ao-pwa:   *)
(* api/client.ts SsePool, VendorDashboard.tsx, IncomingMonitor in          *)
(* VendorView.tsx, the poll in ChainList.tsx).                             *)
(*                                                                         *)
(* One recorder; every block records one assignment.  Profiles, chimes and *)
(* the list of events are left out.                                        *)
(***************************************************************************)
EXTENDS Integers, Sequences

CONSTANTS
    Chains,
    NoChain,
    \* bounds of the instance
    MaxHeight       \* of each chain

VendorFeedConstants == NoChain \notin Chains /\ MaxHeight \in Nat

VARIABLES
    height,         \* of each chain, at the recorder
    pool,           \* the entry of each chain: no listener, no entry
    wire,           \* blocks on their way in each open stream
    poll,           \* the answer to listChains on its way
    listed,         \* chains of the store, with their heights
    owned,          \* chains the keys table has a key of
    mounted,        \* is the vendor view open?
    load,           \* the run of loadOwnedChains that is not cancelled
    cards,          \* the dashboard's cards
    monitor,        \* the chain the monitor shows, and its connected flag
    counted         \* assignments that came while the view was open

view == <<mounted, load, cards, monitor, counted>>
vars == <<height, pool, wire, poll, listed, owned, view>>

Nothing == <<>>
Heights == UNION {[S -> 0..MaxHeight] : S \in SUBSET Chains}
Card == [height : 0..MaxHeight, count : Nat, live : BOOLEAN]
Entry == [listeners : SUBSET {"cards", "monitor"}, connected : BOOLEAN]
Closed == [listeners |-> {}, connected |-> FALSE]
NoMonitor == [chain |-> NoChain, connected |-> FALSE]

Init ==
    /\ height = [c \in Chains |-> 0]
    /\ pool = [c \in Chains |-> Closed]
    /\ wire = [c \in Chains |-> <<>>]
    /\ poll = Nothing /\ listed = Nothing
    /\ owned \in SUBSET Chains
    /\ mounted = FALSE /\ load = Nothing /\ cards = Nothing
    /\ monitor = NoMonitor
    /\ counted = [c \in Chains |-> 0]

----------------------------------------------------------------------------
\* The pool, as functions of an entry

\* The first listener opens the stream; it is not connected yet.
Subscribed(e, who) == [e EXCEPT !.listeners = @ \cup {who}]

\* mutant: the stream is closed when a listener leaves, others or none
UnsubscribedAll(e, who) == Closed
\* The last listener closes it.
Unsubscribed(e, who) ==
    IF e.listeners \subseteq {who} THEN Closed ELSE [e EXCEPT !.listeners = @ \ {who}]

\* A listener that joins is told the state at once.
Notified(e) == e.connected

\* Blocks in a stream that closes are lost.
Streams(entries) == [c \in Chains |-> IF entries[c].connected THEN wire[c] ELSE <<>>]
SetPool(entries) == pool' = entries /\ wire' = Streams(entries)

----------------------------------------------------------------------------
\* The recorder and its streams

Block(c) ==
    /\ height[c] < MaxHeight
    /\ height' = [height EXCEPT ![c] = @ + 1]
    /\ wire' = IF pool[c].connected THEN [wire EXCEPT ![c] = Append(@, height[c] + 1)] ELSE wire
    /\ UNCHANGED <<pool, poll, listed, owned, view>>

CardsTold(c, connected) ==
    cards' = IF c \in DOMAIN cards /\ "cards" \in pool[c].listeners
             THEN [cards EXCEPT ![c].live = connected] ELSE cards
MonitorTold(c, connected) ==
    monitor' = IF monitor.chain = c THEN [monitor EXCEPT !.connected = connected] ELSE monitor

\* onopen and onerror; the browser reconnects by itself
Status(c, connected) ==
    /\ pool[c].listeners # {} /\ pool[c].connected # connected
    /\ SetPool([pool EXCEPT ![c].connected = connected])
    /\ CardsTold(c, connected) /\ MonitorTold(c, connected)
    /\ UNCHANGED <<height, poll, listed, owned, mounted, load, counted>>

\* A block comes out of the stream.
Event(c) ==
    /\ wire[c] # <<>>
    /\ wire' = [wire EXCEPT ![c] = Tail(@)]
    /\ IF c \in DOMAIN cards
       THEN /\ cards' = [cards EXCEPT ![c].count = @ + 1, ![c].height = Head(wire[c])]
            /\ counted' = [counted EXCEPT ![c] = @ + 1]
       ELSE UNCHANGED <<cards, counted>>
    /\ UNCHANGED <<height, pool, poll, listed, owned, mounted, load, monitor>>

----------------------------------------------------------------------------
\* ChainList: listChains every 10 s

Poll ==
    /\ poll = Nothing
    /\ poll' = height
    /\ UNCHANGED <<height, pool, wire, listed, owned, view>>

\* A new array whatever is in it: the dashboard loads again, and what it was
\* loading is cancelled.
Listed ==
    /\ poll # Nothing
    /\ listed' = poll /\ poll' = Nothing
    /\ load' = IF mounted THEN poll ELSE load
    /\ UNCHANGED <<height, pool, wire, owned, mounted, cards, monitor, counted>>

\* A key of another chain is made or received.
Own(c) ==
    /\ c \notin owned
    /\ owned' = owned \cup {c}
    /\ UNCHANGED <<height, pool, wire, poll, listed, view>>

----------------------------------------------------------------------------
\* The vendor view

NewCard(c) == [height |-> load[c], count |-> 0, live |-> FALSE]

\* loadOwnedChains ends: new cards for all owned chains; when these are other
\* chains than before, all streams are left and the new ones subscribed to.
Load ==
    LET ids == owned \cap DOMAIN load
        left == [c \in Chains |-> IF c \in DOMAIN cards THEN Unsubscribed(pool[c], "cards") ELSE pool[c]]
    IN /\ load # Nothing
       /\ load' = Nothing
       /\ IF ids = DOMAIN cards
          THEN cards' = [c \in ids |-> NewCard(c)] /\ UNCHANGED <<pool, wire>>
          ELSE /\ cards' = [c \in ids |-> [NewCard(c) EXCEPT !.live = Notified(left[c])]]
               /\ SetPool([c \in Chains |-> IF c \in ids THEN Subscribed(left[c], "cards") ELSE left[c]])
       /\ counted' = [c \in Chains |-> IF c \in DOMAIN cards THEN counted[c] ELSE 0]
       /\ UNCHANGED <<height, poll, listed, owned, mounted, monitor>>

Open ==
    /\ ~mounted
    /\ mounted' = TRUE
    /\ load' = listed
    /\ counted' = [c \in Chains |-> 0]
    /\ UNCHANGED <<height, pool, wire, poll, listed, owned, cards, monitor>>

Close ==
    /\ mounted
    /\ mounted' = FALSE /\ load' = Nothing /\ cards' = Nothing /\ monitor' = NoMonitor
    /\ SetPool([c \in Chains |-> Unsubscribed(Unsubscribed(pool[c], "cards"), "monitor")])
    /\ UNCHANGED <<height, poll, listed, owned, counted>>

\* The monitor leaves the stream of its chain before it joins the other's.
Select(c) ==
    LET left == IF monitor.chain = NoChain THEN pool
                ELSE [pool EXCEPT ![monitor.chain] = Unsubscribed(@, "monitor")]
    IN /\ mounted /\ listed # Nothing /\ monitor.chain # c
       /\ monitor' = [chain |-> c, connected |-> Notified(left[c])]
       /\ SetPool([left EXCEPT ![c] = Subscribed(@, "monitor")])
       /\ UNCHANGED <<height, poll, listed, owned, mounted, load, cards, counted>>

Next ==
    \/ \E c \in Chains : Block(c) \/ Event(c) \/ Own(c) \/ Select(c)
    \/ \E c \in Chains, connected \in BOOLEAN : Status(c, connected)
    \/ Poll \/ Listed \/ Load \/ Open \/ Close

Spec == Init /\ [][Next]_vars

----------------------------------------------------------------------------
TypeOK ==
    /\ height \in [Chains -> 0..MaxHeight]
    /\ pool \in [Chains -> Entry]
    /\ \A c \in Chains : wire[c] = <<>> \/ (pool[c].connected /\ Len(wire[c]) <= height[c])
    /\ {poll, listed, load} \subseteq Heights
    /\ owned \subseteq Chains /\ mounted \in BOOLEAN
    /\ DOMAIN cards \subseteq owned /\ \A c \in DOMAIN cards : cards[c] \in Card
    /\ monitor \in [chain : Chains \cup {NoChain}, connected : BOOLEAN]
    /\ counted \in [Chains -> 0..MaxHeight]

\* Whatever order views open, close and change chains in, a stream is open for
\* exactly those who show its chain: none is left open, and none is closed
\* while another still listens (the unsubscribe functions of SsePool).
ListenersShow ==
    \A c \in Chains :
        /\ "cards" \in pool[c].listeners <=> c \in DOMAIN cards
        /\ "monitor" \in pool[c].listeners <=> c = monitor.chain

\* The monitor says "SSE connected" exactly when its stream is, also when it
\* joins a stream that others opened (the call of onStatus in subscribe).
MonitorAgrees == monitor.chain # NoChain => monitor.connected = pool[monitor.chain].connected

----------------------------------------------------------------------------
(* What documents and comments say and the code does not keep for some     *)
(* values of the constants: README, 3.4.                                   *)

\* A card is LIVE exactly when its stream is connected.
CardsAgree == \A c \in DOMAIN cards : cards[c].live = pool[c].connected

\* A card counts the assignments since the view was opened.
SessionCounts == \A c \in DOMAIN cards : cards[c].count = counted[c]
=============================================================================
