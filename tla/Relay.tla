------------------------------- MODULE Relay --------------------------------
(***************************************************************************)
(* Push sync of one wallet: RelayClient (ao-pwa/src/core/relayClient.ts) on*)
(* each device and the channel of ao-relay/src/main.rs between them.  All  *)
(* clients here use one relay key, hence one wallet_id; how they come by it*)
(* is in Pairing.  A message is its sender, the sender's seq and an        *)
(* identity that only the model sees.  sendSync has no caller in the app   *)
(* yet; heartbeats take the same path.                                     *)
(***************************************************************************)
EXTENDS Naturals, SequencesExt

CONSTANTS
    Devices,
    MaxRetained,    \* --max-retained
    Drops,          \* connections break
    Reloads,        \* devices whose page may be loaded anew
    Forgets,        \* the relay restarts, or a silent channel is cleaned up
    \* bounds of the instance
    MaxMsgs, MaxConnects

RelayConstants ==
    /\ MaxRetained \in Nat /\ MaxMsgs \in Nat /\ MaxConnects \in Nat
    /\ Drops \in BOOLEAN /\ Forgets \in BOOLEAN /\ Reloads \subseteq Devices

VARIABLES
    \* the relay
    retained,       \* messages kept for devices that are not connected
    handler,        \* handle_socket of each device's connection
    up, down,       \* the connection's two directions; down holds what rx holds
    \* the clients
    seq, seenSeqs,  \* RelayClient's fields
    handled,        \* messages this RelayClient has let through, in order
    storing,        \* messages let through, importSyncPayload not yet done
    got,            \* messages imported; survives a reload
    ignored,        \* messages dropped as replays
    \* bookkeeping
    sent, connects,
    owed            \* messages of others forwarded to a device in its handler's loop

relay == <<retained, handler, up, down>>
client == <<seq, seenSeqs, handled, storing>>
vars == <<relay, client, got, ignored, sent, connects, owed>>

Message == [from : Devices, seq : Nat, id : 1..MaxMsgs]
Down == "none"
Idle == [state |-> "loop", msg |-> <<>>]

NewClient(d) ==
    /\ seq' = [seq EXCEPT ![d] = 0]
    /\ seenSeqs' = [seenSeqs EXCEPT ![d] = [e \in Devices |-> 0]]
    /\ handled' = [handled EXCEPT ![d] = <<>>]
    /\ storing' = [storing EXCEPT ![d] = {}]

\* seenSeqs holds the highest seq plus one, 0 for none.
Init ==
    /\ retained = <<>>
    /\ handler = [d \in Devices |-> [state |-> Down, msg |-> <<>>]]
    /\ up = [d \in Devices |-> <<>>] /\ down = [d \in Devices |-> <<>>]
    /\ seq = [d \in Devices |-> 0]
    /\ seenSeqs = [d \in Devices |-> [e \in Devices |-> 0]]
    /\ handled = [d \in Devices |-> <<>>] /\ storing = [d \in Devices |-> {}]
    /\ got = [d \in Devices |-> {}] /\ ignored = [d \in Devices |-> {}]
    /\ sent = 0 /\ connects = 0
    /\ owed = [d \in Devices |-> {}]

Connected(d) == handler[d].state # Down

-----------------------------------------------------------------------------
(* The relay. *)

\* get_channel and subscribe; the client's onopen may come before or after.
Subscribe(d) ==
    /\ ~Connected(d) /\ connects < MaxConnects
    /\ handler' = [handler EXCEPT ![d] = [state |-> "subscribed", msg |-> <<>>]]
    /\ connects' = connects + 1
    /\ UNCHANGED <<retained, up, down, client, got, ignored, sent, owed>>

\* What is retained goes to the socket ahead of what rx has collected.
TakeRetained(d) ==
    /\ handler[d].state = "subscribed"
    /\ handler' = [handler EXCEPT ![d] = Idle]
    /\ down' = [down EXCEPT ![d] = retained \o @]
    /\ retained' = <<>>
    /\ UNCHANGED <<up, client, got, ignored, sent, connects, owed>>

\* tx.send reaches every subscriber, the sender's own handler included.
Broadcast(d) ==
    /\ handler[d].state = "loop" /\ up[d] # <<>>
    /\ up' = [up EXCEPT ![d] = Tail(@)]
    /\ down' = [e \in Devices |-> IF Connected(e) THEN Append(down[e], Head(up[d])) ELSE down[e]]
    /\ owed' = [e \in Devices |-> IF handler[e].state = "loop" /\ e # d
                                  THEN owed[e] \cup {Head(up[d]).id} ELSE owed[e]]
    /\ handler' = [handler EXCEPT ![d] = [state |-> "retaining", msg |-> <<Head(up[d])>>]]
    /\ UNCHANGED <<retained, client, got, ignored, sent, connects>>

Kept(m) == IF Len(retained) < MaxRetained THEN Append(retained, m) ELSE retained

retain_message(d) ==
    /\ handler[d].state = "retaining"
    /\ retained' = Kept(handler[d].msg[1])
    /\ handler' = [handler EXCEPT ![d] = Idle]
    /\ UNCHANGED <<up, down, client, got, ignored, sent, connects, owed>>

\* What is on the way is lost.  A handler that has broadcast retains first.
Disconnect(d) ==
    /\ Drops /\ handler[d].state \in {"subscribed", "loop"}
    /\ handler' = [handler EXCEPT ![d].state = Down]
    /\ up' = [up EXCEPT ![d] = <<>>] /\ down' = [down EXCEPT ![d] = <<>>]
    /\ owed' = [owed EXCEPT ![d] = {}]
    /\ UNCHANGED <<retained, client, got, ignored, sent, connects>>

\* cleanup, after retention_secs without activity, or a restart of the relay.
Forget ==
    /\ Forgets /\ \A d \in Devices : ~Connected(d)
    /\ retained' = <<>>
    /\ UNCHANGED <<handler, up, down, client, got, ignored, sent, connects, owed>>

-----------------------------------------------------------------------------
(* The clients. *)

\* sendEncrypted returns without a word unless the socket is open.
sendEncrypted(d) ==
    /\ sent < MaxMsgs
    /\ sent' = sent + 1
    /\ IF Connected(d)
       THEN /\ up' = [up EXCEPT ![d] = Append(@, [from |-> d, seq |-> seq[d], id |-> sent + 1])]
            /\ seq' = [seq EXCEPT ![d] = @ + 1]
       ELSE UNCHANGED <<up, seq>>
    /\ UNCHANGED <<retained, handler, down, seenSeqs, handled, storing, got, ignored, connects, owed>>

UnseenOrLast(m, seen) == m.seq + 1 >= seen      \* mutant: the last one counts as new
UnseenFromOne(m, seen) ==                       \* mutant: ?? 0 in place of ?? -1
    m.seq > IF seen = 0 THEN 0 ELSE seen - 1
Unseen(m, seen) == m.seq + 1 > seen

\* The seq is noted before anything else is done with the message.  Nothing
\* of rx is forwarded before the retained messages.
handleMessage(d) ==
    /\ down[d] # <<>> /\ handler[d].state # "subscribed"
    /\ down' = [down EXCEPT ![d] = Tail(@)]
    /\ LET m == Head(down[d]) IN
        IF Unseen(m, seenSeqs[d][m.from])
        THEN /\ seenSeqs' = [seenSeqs EXCEPT ![d][m.from] = m.seq + 1]
             /\ handled' = [handled EXCEPT ![d] = Append(@, m)]
             /\ storing' = [storing EXCEPT ![d] = IF m.from = d THEN @ ELSE @ \cup {m.id}]
             /\ UNCHANGED ignored
        ELSE /\ ignored' = [ignored EXCEPT ![d] = @ \cup {m.id}]
             /\ UNCHANGED <<seenSeqs, handled, storing>>
    /\ UNCHANGED <<retained, handler, up, seq, got, sent, connects, owed>>

importSyncPayload(d) ==
    \E id \in storing[d] :
        /\ got' = [got EXCEPT ![d] = @ \cup {id}]
        /\ storing' = [storing EXCEPT ![d] = @ \ {id}]
        /\ UNCHANGED <<relay, seq, seenSeqs, handled, ignored, sent, connects, owed>>

\* The page is loaded anew: a new RelayClient, connected when its effect runs.
Reload(d) ==
    /\ d \in Reloads /\ ~Connected(d) /\ seq[d] + Len(handled[d]) > 0
    /\ NewClient(d)
    /\ UNCHANGED <<relay, got, ignored, sent, connects, owed>>

Serve(d) == TakeRetained(d) \/ Broadcast(d) \/ retain_message(d)
Receive(d) == handleMessage(d) \/ importSyncPayload(d)

Next ==
    \/ \E d \in Devices : \/ Subscribe(d) \/ Serve(d) \/ Disconnect(d)
                          \/ sendEncrypted(d) \/ Receive(d) \/ Reload(d)
    \/ Forget

\* Handlers and event loops keep running; nobody has to connect or to send.
Spec ==
    /\ Init /\ [][Next]_vars
    /\ \A d \in Devices : WF_vars(Serve(d)) /\ WF_vars(Receive(d))

-----------------------------------------------------------------------------
(* Properties. *)

\* Types; and the relay keeps at most MaxRetained messages of a wallet.
TypeOK ==
    /\ retained \in Seq(Message) /\ Len(retained) <= MaxRetained
    /\ \A d \in Devices :
        /\ handler[d].state \in {Down, "subscribed", "loop", "retaining"}
        /\ handler[d].msg \in Seq(Message)
        /\ up[d] \in Seq(Message) /\ down[d] \in Seq(Message) /\ handled[d] \in Seq(Message)
        /\ ~Connected(d) => up[d] = <<>> /\ down[d] = <<>>
    /\ seq \in [Devices -> Nat] /\ seenSeqs \in [Devices -> [Devices -> Nat]]
    /\ \A s \in {storing, got, ignored, owed} : s \in [Devices -> SUBSET (1..MaxMsgs)]
    /\ sent \in 0..MaxMsgs /\ connects \in 0..MaxConnects

\* One RelayClient lets a message through at most once, and a sender's
\* messages in the order of their seq, although each is both broadcast and
\* retained, and the retained ones go to whoever connects next.
HandledOnceInOrder ==
    \A d \in Devices : \A i, j \in DOMAIN handled[d] :
        (i < j /\ handled[d][i].from = handled[d][j].from)
            => handled[d][i].seq < handled[d][j].seq

\* A message that another device sends while this one is connected is
\* imported, unless the connection breaks first.
LiveDelivery ==
    \A d \in Devices, id \in 1..MaxMsgs :
        id \in owed[d] ~> (id \in got[d] \/ id \notin owed[d])

-----------------------------------------------------------------------------
(* What documents and comments say and the code does not keep for some     *)
(* values of the constants: README, 3.4.                                   *)

\* Only replays are ignored: messages this device has let through before.
OnlyReplaysIgnored ==
    \A d \in Devices : \A id \in ignored[d] :
        id \in got[d] \cup storing[d] \cup {handled[d][i].id : i \in DOMAIN handled[d]}

\* The messages a device still may get.
Reachable(d) ==
    got[d] \cup storing[d]
    \cup UNION {{s[i].id : i \in DOMAIN s} :
                    s \in {retained, down[d]} \cup {handler[e].msg : e \in Devices}}

\* A message the relay has taken is not lost to the devices that were offline.
RetainedForOffline ==
    [][\A d, e \in Devices : \A i \in DOMAIN retained :
          (d # retained[i].from /\ ~Connected(d) /\ ~Forget)
              => retained[i].id \in Reachable(d)']_vars
=============================================================================
