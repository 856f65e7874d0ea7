--------------------------- MODULE ScreensProofs ---------------------------
(***************************************************************************)
(* The wallet's views of a chain, for any number of keys, reports, chains, *)
(* notes, blocks, agents and trades: the vendor's streams are open for     *)
(* those who show them (VendorFeed), the ledger on screen is the chain's   *)
(* (CoopNotes), a simulation's list of trades has no hole (SimViewer), and *)
(* the history's table is true of the chain and complete below its cursor  *)
(* (TxHistory), three rounds find the amounts of a transfer (TransferFee), *)
(* and what is written in any form is read as it was written (DataItems,   *)
(* whose own lemmas are in FormsProofs).  Each is proved of the part by    *)
(* itself, and carried over to MCScreens, where a behaviour moves one of   *)
(* them.                                                                   *)
(***************************************************************************)
EXTENDS MCScreens, FormsProofs, TLAPS, SumLemmas, SequenceTheorems, FiniteSetTheorems

-----------------------------------------------------------------------------
(* VendorFeed. *)

DTypes ==
    /\ pool \in [Chains -> D!Entry]
    /\ owned \subseteq Chains /\ DOMAIN cards \subseteq Chains
    /\ monitor \in [chain : Chains \cup {NoChain}, connected : BOOLEAN]

DInv == DTypes /\ D!ListenersShow /\ D!MonitorAgrees

LEMMA ViewsApart == NoChain \notin Chains
BY PartsConstants DEF D!VendorFeedConstants

\* Who leaves is gone, and the stream stays as it is while another listens.
LEMMA Leaving ==
    ASSUME NEW e \in D!Entry, NEW who \in {"cards", "monitor"}
    PROVE  /\ D!Unsubscribed(e, who) \in D!Entry
           /\ D!Unsubscribed(e, who).listeners = e.listeners \ {who}
           /\ e.listeners \ {who} # {} => D!Unsubscribed(e, who).connected = e.connected
BY DEF D!Unsubscribed, D!Entry, D!Closed

LEMMA Joining ==
    ASSUME NEW e \in D!Entry, NEW who \in {"cards", "monitor"}
    PROVE  /\ D!Subscribed(e, who) \in D!Entry
           /\ D!Subscribed(e, who).listeners = e.listeners \cup {who}
           /\ D!Subscribed(e, who).connected = e.connected
BY DEF D!Subscribed, D!Entry

LEMMA FeedInit == D!Init => DInv
BY ViewsApart DEF D!Init, DInv, DTypes, D!Entry, D!Closed, D!NoMonitor, D!Nothing, D!ListenersShow,
   D!MonitorAgrees

LEMMA FeedQuiet == ASSUME DInv, UNCHANGED <<pool, monitor>>, owned' \subseteq Chains,
                          DOMAIN cards' = DOMAIN cards
                   PROVE  DInv'
BY DEF DInv, DTypes, D!ListenersShow, D!MonitorAgrees

LEMMA FeedStatus ==
    ASSUME DInv, NEW c \in Chains, NEW connected \in BOOLEAN, D!Status(c, connected)
    PROVE  DInv'
<1>1. pool' = [pool EXCEPT ![c].connected = connected] /\ UNCHANGED owned
  BY DEF D!Status, D!SetPool
<1>2. DOMAIN cards' = DOMAIN cards
  BY DEF D!Status, D!CardsTold
<1>3. monitor' = IF monitor.chain = c THEN [monitor EXCEPT !.connected = connected] ELSE monitor
  BY DEF D!Status, D!MonitorTold
<1>4. /\ pool' \in [Chains -> D!Entry]
      /\ \A x \in Chains : pool'[x].listeners = pool[x].listeners
      /\ pool'[c].connected = connected
      /\ \A x \in Chains : x # c => pool'[x].connected = pool[x].connected
  BY <1>1 DEF DInv, DTypes, D!Entry
<1>5. /\ monitor' \in [chain : Chains \cup {NoChain}, connected : BOOLEAN]
      /\ monitor'.chain = monitor.chain
      /\ monitor.chain = c => monitor'.connected = connected
      /\ monitor.chain # c => monitor'.connected = monitor.connected
  BY <1>3 DEF DInv, DTypes
<1>6. D!ListenersShow'
  BY <1>2, <1>4, <1>5 DEF DInv, D!ListenersShow
<1>7. D!MonitorAgrees'
  BY <1>4, <1>5 DEF DInv, DTypes, D!MonitorAgrees
<1> QED
  BY <1>1, <1>2, <1>4, <1>5, <1>6, <1>7 DEF DInv, DTypes

LEMMA FeedLoads == ASSUME DInv, D!Load PROVE DInv'
<1> DEFINE ids == owned \cap DOMAIN load
           left == [c \in Chains |-> IF c \in DOMAIN cards THEN D!Unsubscribed(pool[c], "cards")
                                     ELSE pool[c]]
           joined == [c \in Chains |-> IF c \in ids THEN D!Subscribed(left[c], "cards") ELSE left[c]]
<1>1. UNCHANGED <<owned, monitor>>
  BY DEF D!Load
<1>2. CASE ids = DOMAIN cards
  <2>1. DOMAIN cards' = DOMAIN cards /\ UNCHANGED pool
    BY <1>2 DEF D!Load
  <2> QED
    BY <1>1, <2>1, FeedQuiet DEF DInv, DTypes
<1>3. CASE ids # DOMAIN cards
  <2>1. DOMAIN cards' = ids /\ pool' = joined
    BY <1>3 DEF D!Load, D!SetPool
  <2>2. ASSUME NEW c \in Chains
        PROVE  /\ left[c] \in D!Entry /\ left[c].listeners = pool[c].listeners \ {"cards"}
               /\ "monitor" \in pool[c].listeners => left[c].connected = pool[c].connected
    BY Leaving DEF DInv, DTypes, D!ListenersShow
  <2>3. ASSUME NEW c \in Chains
        PROVE  /\ joined[c] \in D!Entry
               /\ "cards" \in joined[c].listeners <=> c \in ids
               /\ "monitor" \in joined[c].listeners <=> "monitor" \in pool[c].listeners
               /\ "monitor" \in pool[c].listeners => joined[c].connected = pool[c].connected
    <3>1. CASE c \in ids
      BY <2>2, <3>1, Joining
    <3>2. CASE c \notin ids
      BY <2>2, <3>2
    <3> QED
      BY <3>1, <3>2
  <2>4. pool' \in [Chains -> D!Entry] /\ ids \subseteq Chains
    BY <2>1, <2>3 DEF DInv, DTypes
  <2> HIDE DEF ids, left, joined
  <2>5. D!ListenersShow'
    BY <1>1, <2>1, <2>3 DEF DInv, D!ListenersShow
  <2>6. D!MonitorAgrees'
    BY <1>1, <2>1, <2>3 DEF DInv, DTypes, D!ListenersShow, D!MonitorAgrees
  <2> QED
    BY <1>1, <2>1, <2>4, <2>5, <2>6 DEF DInv, DTypes
<1> QED
  BY <1>2, <1>3

LEMMA FeedCloses == ASSUME DInv, D!Close PROVE DInv'
<1>1. /\ cards' = <<>> /\ monitor' = [chain |-> NoChain, connected |-> FALSE] /\ UNCHANGED owned
      /\ pool' = [c \in Chains |-> D!Unsubscribed(D!Unsubscribed(pool[c], "cards"), "monitor")]
  BY DEF D!Close, D!SetPool, D!Nothing, D!NoMonitor
<1>2. ASSUME NEW c \in Chains
      PROVE  pool'[c] \in D!Entry /\ pool'[c].listeners = {}
  <2>1. pool[c] \in D!Entry /\ pool[c].listeners \subseteq {"cards", "monitor"}
    BY DEF DInv, DTypes, D!Entry
  <2> DEFINE once == D!Unsubscribed(pool[c], "cards")
  <2>2. once \in D!Entry /\ once.listeners = pool[c].listeners \ {"cards"}
    BY <2>1, Leaving
  <2>3. /\ D!Unsubscribed(once, "monitor") \in D!Entry
        /\ D!Unsubscribed(once, "monitor").listeners = once.listeners \ {"monitor"}
    BY <2>2, Leaving
  <2> QED
    BY <1>1, <2>1, <2>2, <2>3
<1>3. DOMAIN cards' = {} /\ monitor'.chain = NoChain
  BY <1>1
<1> QED
  BY <1>1, <1>2, <1>3, ViewsApart DEF DInv, DTypes, D!ListenersShow, D!MonitorAgrees

LEMMA FeedSelects == ASSUME DInv, NEW c \in Chains, D!Select(c) PROVE DInv'
<1> DEFINE old == monitor.chain
           left == IF old = NoChain THEN pool
                   ELSE [pool EXCEPT ![old] = D!Unsubscribed(@, "monitor")]
<1>1. /\ monitor' = [chain |-> c, connected |-> left[c].connected] /\ old # c
      /\ pool' = [left EXCEPT ![c] = D!Subscribed(@, "monitor")]
      /\ UNCHANGED <<owned, cards>>
  BY DEF D!Select, D!SetPool, D!Notified
<1>2. old \in Chains \cup {NoChain}
  BY DEF DInv, DTypes
<1>3. /\ left \in [Chains -> D!Entry]
      /\ \A x \in Chains : left[x].listeners = pool[x].listeners \ {"monitor"}
  <2>1. CASE old = NoChain
    BY <2>1, ViewsApart DEF DInv, DTypes, D!ListenersShow
  <2>2. CASE old \in Chains
    <3>1. /\ D!Unsubscribed(pool[old], "monitor") \in D!Entry
          /\ D!Unsubscribed(pool[old], "monitor").listeners = pool[old].listeners \ {"monitor"}
      BY <2>2, Leaving DEF DInv, DTypes
    <3>2. left = [pool EXCEPT ![old] = D!Unsubscribed(pool[old], "monitor")]
      BY <2>2, ViewsApart
    <3> QED
      BY <2>2, <3>1, <3>2 DEF DInv, DTypes, D!ListenersShow
  <2> QED
    BY <1>2, <2>1, <2>2
<1> HIDE DEF left, old
<1>4. /\ D!Subscribed(left[c], "monitor") \in D!Entry
      /\ D!Subscribed(left[c], "monitor").listeners = left[c].listeners \cup {"monitor"}
      /\ D!Subscribed(left[c], "monitor").connected = left[c].connected
  BY <1>3, Joining
<1>5. /\ pool' \in [Chains -> D!Entry]
      /\ pool'[c].listeners = pool[c].listeners \cup {"monitor"}
      /\ pool'[c].connected = left[c].connected
      /\ \A x \in Chains : x # c => pool'[x].listeners = pool[x].listeners \ {"monitor"}
  BY <1>1, <1>3, <1>4
<1>6. left[c].connected \in BOOLEAN
  BY <1>3 DEF D!Entry
<1>7. D!ListenersShow' /\ D!MonitorAgrees'
  BY <1>1, <1>5 DEF DInv, D!ListenersShow, D!MonitorAgrees
<1> QED
  BY <1>1, <1>5, <1>6, <1>7 DEF DInv, DTypes

LEMMA FeedStep == DInv /\ [D!Next]_D!vars => DInv'
<1> SUFFICES ASSUME DInv, [D!Next]_D!vars PROVE DInv'
  OBVIOUS
<1>1. CASE \E c \in Chains : D!Block(c) \/ D!Event(c) \/ D!Own(c)
  BY <1>1, FeedQuiet DEF D!Block, D!Event, D!Own, D!view, DInv, DTypes
<1>2. CASE D!Poll \/ D!Listed \/ D!Open \/ UNCHANGED D!vars
  BY <1>2, FeedQuiet DEF D!Poll, D!Listed, D!Open, D!vars, D!view, DInv, DTypes
<1> QED
  BY <1>1, <1>2, FeedStatus, FeedLoads, FeedCloses, FeedSelects DEF D!Next

\* Whatever views open, close and change chains, a stream is open for exactly those who
\* show its chain, and the monitor says of it what it is.
THEOREM StreamsOfTheirListeners ==
    D!Init /\ [][D!Next]_D!vars => [](D!ListenersShow /\ D!MonitorAgrees)
<1>1. DInv => D!ListenersShow /\ D!MonitorAgrees
  BY DEF DInv
<1> QED
  BY <1>1, FeedInit, FeedStep, PTL

\* The vendor's views of the run as well.
THEOREM ScreensStreamsTrue == MCSpec => []StreamsTrue
<1>1. MCInit => D!Init
  BY DEF MCInit
<1>2. [MCNext]_<<part, historyVars, vendorVars, coopVars, feeVars, vars, simVars>>
      => [D!Next]_D!vars
  BY DEF MCNext, HistoryStep, VendorStep, CoopStep, FeeStep, ItemStep, SimStep, vendorVars,
         D!vars, D!view
<1>3. StreamsTrue <=> D!ListenersShow /\ D!MonitorAgrees
  BY DEF StreamsTrue
<1> QED
  BY <1>1, <1>2, <1>3, StreamsOfTheirListeners, PTL DEF MCSpec

-----------------------------------------------------------------------------
(* What a scan from left to right keeps. *)

\* s is the beginning of t.
Starts(s, t) == Len(s) <= Len(t) /\ \A i \in 1..Len(s) : s[i] = t[i]

\* f[i] is what a scan has kept of the first i: the v[i] with i in c.
Scan(f, n, c, v, V) ==
    /\ f \in [0..n -> Seq(V)] /\ f[0] = <<>>
    /\ \A i \in 1..n : f[i] = IF i \in c THEN Append(f[i - 1], v[i]) ELSE f[i - 1]

\* x is one of those.
Wanted(x, n, c, v) == \E i \in 1..n : i \in c /\ x = v[i]

LEMMA RangeIs ==
    ASSUME NEW V, NEW s \in Seq(V)
    PROVE  \A x : x \in Range(s) <=> \E i \in 1..Len(s) : x = s[i]
<1>1. DOMAIN s = 1..Len(s)
  OBVIOUS
<1> QED
  BY <1>1 DEF Range

LEMMA PrefixStarts ==
    ASSUME NEW V, NEW s \in Seq(V), NEW t \in Seq(V)
    PROVE  IsPrefix(s, t) <=> Starts(s, t)
<1>1. /\ Len(s) \in Nat /\ Len(t) \in Nat /\ s \in [1..Len(s) -> V] /\ t \in [1..Len(t) -> V]
  BY LenProperties
<1>2. SubSeq(s, 1, Len(s)) = [i \in 1..Len(s) |-> s[i]]
  BY <1>1
<1>3. Len(s) <= Len(t) => SubSeq(t, 1, Len(s)) = [i \in 1..Len(s) |-> t[i]]
  BY <1>1
<1>4. [i \in 1..Len(s) |-> s[i]] = [i \in 1..Len(s) |-> t[i]] <=> \A i \in 1..Len(s) : s[i] = t[i]
  OBVIOUS
<1> QED
  BY <1>2, <1>3, <1>4 DEF IsPrefix, Starts

LEMMA StartsAgain ==
    ASSUME NEW V, NEW s \in Seq(V), NEW t \in Seq(V), NEW u \in Seq(V), Starts(s, t), Starts(t, u)
    PROVE  Starts(s, u)
<1>1. Len(s) \in Nat /\ Len(t) \in Nat /\ Len(u) \in Nat
  OBVIOUS
<1> QED
  BY <1>1 DEF Starts

LEMMA ScanExists ==
    ASSUME NEW n \in Nat, NEW V, NEW c, NEW v, \A i \in 1..n : v[i] \in V
    PROVE  \E f : Scan(f, n, c, v, V)
<1> DEFINE Good == {m \in Nat : m <= n => \E f : Scan(f, m, c, v, V)}
<1>1. 0 \in Good
  <2> DEFINE f == [i \in 0..0 |-> <<>>]
  <2>1. <<>> \in Seq(V)
    BY EmptySeq
  <2>2. f \in [0..0 -> Seq(V)] /\ f[0] = <<>>
    BY <2>1
  <2>3. Scan(f, 0, c, v, V)
    BY <2>2 DEF Scan
  <2> QED
    BY <2>3
<1>2. ASSUME NEW m \in Nat, m \in Good PROVE m + 1 \in Good
  <2> SUFFICES ASSUME m + 1 <= n PROVE \E f : Scan(f, m + 1, c, v, V)
    OBVIOUS
  <2>1. PICK f : Scan(f, m, c, v, V)
    BY <1>2
  <2> DEFINE last == IF m + 1 \in c THEN Append(f[m], v[m + 1]) ELSE f[m]
             g == [i \in 0..(m + 1) |-> IF i = m + 1 THEN last ELSE f[i]]
  <2>2. f[m] \in Seq(V) /\ v[m + 1] \in V
    BY <2>1 DEF Scan
  <2>3. last \in Seq(V)
    BY <2>2, AppendProperties
  <2>4. /\ \A i \in 0..m : g[i] = f[i] /\ f[i] \in Seq(V)
        /\ g[m + 1] = last /\ f[0] = <<>>
    BY <2>1 DEF Scan
  <2>5. g \in [0..(m + 1) -> Seq(V)] /\ g[0] = <<>>
    <3>1. \A i \in 0..(m + 1) : i \in 0..m \/ i = m + 1
      OBVIOUS
    <3>2. \A i \in 0..(m + 1) : g[i] \in Seq(V)
      BY <2>3, <2>4, <3>1
    <3>3. 0 \in 0..m
      OBVIOUS
    <3> HIDE DEF last
    <3> QED
      BY <2>4, <3>2, <3>3
  <2>6. ASSUME NEW i \in 1..(m + 1)
        PROVE  g[i] = IF i \in c THEN Append(g[i - 1], v[i]) ELSE g[i - 1]
    <3>1. CASE i = m + 1
      <4>1. (m + 1) - 1 = m /\ m \in 0..m
        OBVIOUS
      <4>2. g[i - 1] = f[m] /\ g[i] = last
        BY <2>4, <3>1, <4>1
      <4> QED
        BY <3>1, <4>2
    <3>2. CASE i # m + 1
      <4>1. i \in 1..m /\ i - 1 \in 0..m /\ i \in 0..m
        BY <3>2
      <4>2. f[i] = IF i \in c THEN Append(f[i - 1], v[i]) ELSE f[i - 1]
        BY <2>1, <4>1 DEF Scan
      <4> HIDE DEF g
      <4> QED
        BY <2>4, <4>1, <4>2
    <3> QED
      BY <3>1, <3>2
  <2> HIDE DEF g
  <2>7. Scan(g, m + 1, c, v, V)
    BY <2>5, <2>6 DEF Scan
  <2> QED
    BY <2>7
<1>3. n \in Good
  <2> HIDE DEF Good
  <2> QED
    BY <1>1, <1>2, SetInduction
<1> QED
  BY <1>3

\* Two scans that see the same keep the same.
LEMMA ScansAgree ==
    ASSUME NEW n \in Nat, NEW m \in Nat, NEW k \in Nat, k <= n, k <= m, NEW V,
           NEW c, NEW v, NEW d, NEW w, \A i \in 1..k : (i \in c <=> i \in d) /\ v[i] = w[i],
           NEW f, Scan(f, n, c, v, V), NEW g, Scan(g, m, d, w, V)
    PROVE  f[k] = g[k]
<1> DEFINE Good == {i \in Nat : i <= k => f[i] = g[i]}
<1>1. 0 \in Good
  BY DEF Scan
<1>2. ASSUME NEW i \in Nat, i \in Good PROVE i + 1 \in Good
  <2> SUFFICES ASSUME i + 1 <= k PROVE f[i + 1] = g[i + 1]
    OBVIOUS
  <2>1. f[i] = g[i] /\ i + 1 \in 1..k /\ i + 1 \in 1..n /\ i + 1 \in 1..m /\ (i + 1) - 1 = i
    BY <1>2
  <2> DEFINE j == i + 1
  <2>2. /\ f[j] = IF j \in c THEN Append(f[j - 1], v[j]) ELSE f[j - 1]
        /\ g[j] = IF j \in d THEN Append(g[j - 1], w[j]) ELSE g[j - 1]
    BY <2>1 DEF Scan
  <2>3. (j \in c <=> j \in d) /\ v[j] = w[j] /\ j - 1 = i
    BY <2>1
  <2> HIDE DEF j
  <2>4. f[j] = g[j]
    BY <2>1, <2>2, <2>3
  <2> QED
    BY <2>4 DEF j
<1>3. k \in Good
  <2> HIDE DEF Good
  <2> QED
    BY <1>1, <1>2, SetInduction
<1> QED
  BY <1>3

\* What is kept stays, in its place, and is what the scan has seen and wanted.
LEMMA ScanKeeps ==
    ASSUME NEW n \in Nat, NEW V, NEW c, NEW v, \A i \in 1..n : v[i] \in V,
           NEW f, Scan(f, n, c, v, V), NEW k \in 0..n
    PROVE  /\ f[n] \in Seq(V) /\ Starts(f[k], f[n])
           /\ \A x : x \in Range(f[n]) <=> Wanted(x, n, c, v)
<1> DEFINE Kept(m) == {v[i] : i \in {j \in 1..m : j \in c}}
           Good == {m \in Nat : m <= n => /\ Range(f[m]) = Kept(m)
                                          /\ k <= m => Starts(f[k], f[m])}
<1>0. \A m \in 0..n : f[m] \in Seq(V) /\ Len(f[m]) \in Nat
  BY DEF Scan
<1>1. 0 \in Good
  <2>1. f[0] = <<>> /\ (k <= 0 => k = 0)
    BY DEF Scan
  <2>2. Range(<<>>) = {} /\ Kept(0) = {}
    BY DEF Range
  <2>3. Starts(<<>>, <<>>)
    BY DEF Starts
  <2>4. Range(f[0]) = Kept(0) /\ (k <= 0 => Starts(f[k], f[0]))
    BY <2>1, <2>2, <2>3
  <2> HIDE DEF Kept
  <2> QED
    BY <2>4
<1>2. ASSUME NEW m \in Nat, m \in Good PROVE m + 1 \in Good
  <2> SUFFICES ASSUME m + 1 <= n
               PROVE  Range(f[m + 1]) = Kept(m + 1) /\ (k <= m + 1 => Starts(f[k], f[m + 1]))
    OBVIOUS
  <2> DEFINE j == m + 1
  <2>1. /\ Range(f[m]) = Kept(m) /\ (k <= m => Starts(f[k], f[m]))
        /\ j \in 1..n /\ j - 1 = m /\ m \in 0..n
    BY <1>2
  <2>2. f[j] = IF j \in c THEN Append(f[m], v[j]) ELSE f[m]
    BY <2>1 DEF Scan
  <2>3. 1..j = (1..m) \cup {j} /\ j \notin 1..m
    OBVIOUS
  <2> HIDE DEF j
  <2>4. Kept(j) = Kept(m) \cup (IF j \in c THEN {v[j]} ELSE {})
    BY <2>3
  <2>5. k <= j => k <= m \/ k = j
    BY DEF j
  <2>6. Starts(f[j], f[j])
    BY DEF Starts
  <2>7. f[m] \in Seq(V) /\ Len(f[m]) \in Nat /\ v[j] \in V /\ f[k] \in Seq(V) /\ Len(f[k]) \in Nat
    BY <1>0, <2>1
  <2>8. CASE j \in c
    <3> DEFINE s == f[m]
    <3>1. f[j] = Append(s, v[j])
      BY <2>2, <2>8
    <3> HIDE DEF s
    <3>2. /\ Len(f[j]) = Len(s) + 1 /\ DOMAIN f[j] = 1..(Len(s) + 1)
          /\ f[j][Len(s) + 1] = v[j] /\ \A i \in 1..Len(s) : f[j][i] = s[i]
          /\ Len(s) \in Nat /\ DOMAIN s = 1..Len(s)
      BY <2>7, <3>1, AppendProperties DEF s
    <3>3. Range(f[j]) = Range(s) \cup {v[j]}
      BY <3>2 DEF Range
    <3>4. Starts(s, f[j])
      BY <3>2 DEF Starts
    <3>5. k <= m => Starts(f[k], f[j])
      BY <2>1, <2>7, <3>2 DEF Starts, s
    <3> HIDE DEF Kept
    <3> QED
      BY <2>1, <2>4, <2>5, <2>6, <2>8, <3>3, <3>5 DEF s, j
  <2>9. CASE j \notin c
    <3> HIDE DEF Kept
    <3> QED
      BY <2>1, <2>2, <2>4, <2>5, <2>6, <2>9 DEF j
  <2> QED
    BY <2>8, <2>9
<1>3. n \in Good
  <2> HIDE DEF Good
  <2> QED
    BY <1>1, <1>2, SetInduction
<1>4. Range(f[n]) = Kept(n) /\ (k <= n => Starts(f[k], f[n]))
  BY <1>3
<1>5. \A x : x \in Kept(n) <=> Wanted(x, n, c, v)
  BY DEF Wanted
<1> HIDE DEF Kept
<1> QED
  BY <1>0, <1>4, <1>5

\* A scan as a recursive function.
ScanForm(f, n, c, v) ==
    f = [i \in 0..n |-> IF i = 0 THEN <<>>
                        ELSE IF i \in c THEN Append(f[i - 1], v[i]) ELSE f[i - 1]]

LEMMA ScanIsForm ==
    ASSUME NEW n \in Nat, NEW V, NEW c, NEW v, NEW f, Scan(f, n, c, v, V)
    PROVE  ScanForm(f, n, c, v)
<1>1. f \in [0..n -> Seq(V)] /\ f[0] = <<>>
  BY DEF Scan
<1>2. ASSUME NEW i \in 0..n
      PROVE  f[i] = IF i = 0 THEN <<>>
                    ELSE IF i \in c THEN Append(f[i - 1], v[i]) ELSE f[i - 1]
  <2>1. i = 0 \/ i \in 1..n
    OBVIOUS
  <2> QED
    BY <1>1, <2>1 DEF Scan
<1> QED
  BY <1>1, <1>2 DEF ScanForm

LEMMA FormIsScan ==
    ASSUME NEW n \in Nat, NEW V, NEW c, NEW v, \A i \in 1..n : v[i] \in V,
           NEW f, ScanForm(f, n, c, v)
    PROVE  Scan(f, n, c, v, V)
<1>1. \A i \in 0..n : f[i] = IF i = 0 THEN <<>>
                             ELSE IF i \in c THEN Append(f[i - 1], v[i]) ELSE f[i - 1]
  BY DEF ScanForm
<1>2. f[0] = <<>> /\ <<>> \in Seq(V)
  BY <1>1, EmptySeq
<1> DEFINE Good == {i \in Nat : i <= n => f[i] \in Seq(V)}
<1>3. 0 \in Good
  BY <1>2
<1>4. ASSUME NEW i \in Nat, i \in Good PROVE i + 1 \in Good
  <2> SUFFICES ASSUME i + 1 <= n PROVE f[i + 1] \in Seq(V)
    OBVIOUS
  <2> DEFINE j == i + 1
  <2>1. j \in 0..n /\ j \in 1..n /\ j # 0 /\ j - 1 = i /\ f[i] \in Seq(V)
    BY <1>4
  <2> HIDE DEF j
  <2>2. Append(f[i], v[j]) \in Seq(V)
    BY <2>1, AppendProperties
  <2>3. f[j] \in Seq(V)
    BY <1>1, <2>1, <2>2
  <2> QED
    BY <2>3 DEF j
<1>5. \A i \in 0..n : f[i] \in Seq(V)
  <2>1. Nat \subseteq Good
    <3> HIDE DEF Good
    <3> QED
      BY <1>3, <1>4, SetInduction
  <2> QED
    BY <2>1
<1>6. f \in [0..n -> Seq(V)]
  <2>1. DOMAIN f = 0..n /\ f = [i \in 0..n |-> f[i]]
    BY DEF ScanForm
  <2> QED
    BY <1>5, <2>1
<1>7. \A i \in 1..n : f[i] = IF i \in c THEN Append(f[i - 1], v[i]) ELSE f[i - 1]
  BY <1>1
<1> QED
  BY <1>2, <1>6, <1>7 DEF Scan

\* Numbers that grow.
Rising(s) == \A i, j \in 1..Len(s) : i < j => s[i] < s[j]

LEMMA ScanRises ==
    ASSUME NEW n \in Nat, NEW c, NEW v, \A i \in 1..n : v[i] \in Nat,
           \A i, j \in 1..n : i < j => v[i] < v[j], NEW f, Scan(f, n, c, v, Nat)
    PROVE  Rising(f[n])
<1> DEFINE Below(m) == \A i \in 1..Len(f[m]) : \E k \in 1..m : f[m][i] = v[k]
           Good == {m \in Nat : m <= n => Rising(f[m]) /\ Below(m)}
<1>1. 0 \in Good
  <2>1. f[0] = <<>>
    BY DEF Scan
  <2>2. Rising(f[0])
    BY <2>1 DEF Rising
  <2>3. Below(0)
    BY <2>1
  <2> HIDE DEF Below
  <2> QED
    BY <2>2, <2>3
<1>2. ASSUME NEW m \in Nat, m \in Good PROVE m + 1 \in Good
  <2> SUFFICES ASSUME m + 1 <= n PROVE Rising(f[m + 1]) /\ Below(m + 1)
    OBVIOUS
  <2> DEFINE j == m + 1
             s == f[m]
  <2>1. /\ Rising(f[m]) /\ Below(m) /\ j \in 1..n /\ j - 1 = m /\ m \in 0..n /\ m <= n
        /\ \A k \in 1..m : k < j /\ k \in 1..n /\ k \in 1..j
    BY <1>2
  <2>2. f[j] = IF j \in c THEN Append(f[j - 1], v[j]) ELSE f[j - 1]
    BY <2>1 DEF Scan
  <2>3. s \in Seq(Nat) /\ Len(s) \in Nat /\ v[j] \in Nat /\ j \in 1..j
    BY <2>1 DEF Scan
  <2>4. Rising(s) /\ \A i \in 1..Len(s) : \E k \in 1..m : s[i] = v[k]
    BY <2>1
  <2>5. \A i \in 1..Len(s) : s[i] \in Nat /\ s[i] < v[j]
    BY <2>1, <2>4
  <2>6. CASE j \in c
    <3>1. f[j] = Append(s, v[j])
      BY <2>1, <2>2, <2>6
    <3> HIDE DEF s, j
    <3>2. /\ Len(f[j]) = Len(s) + 1 /\ f[j][Len(s) + 1] = v[j]
          /\ \A i \in 1..Len(s) : f[j][i] = s[i]
      BY <2>3, <3>1, AppendProperties
    <3>3. Rising(f[j])
      <4> SUFFICES ASSUME NEW i \in 1..Len(f[j]), NEW k \in 1..Len(f[j]), i < k
                   PROVE  f[j][i] < f[j][k]
        BY DEF Rising
      <4>1. i \in 1..Len(s) /\ (k \in 1..Len(s) \/ k = Len(s) + 1)
        BY <2>3, <3>2
      <4>2. CASE k \in 1..Len(s)
        BY <2>4, <3>2, <4>1, <4>2 DEF Rising
      <4>3. CASE k = Len(s) + 1
        BY <2>5, <3>2, <4>1, <4>3
      <4> QED
        BY <4>1, <4>2, <4>3
    <3>4. Below(j)
      <4> SUFFICES ASSUME NEW i \in 1..Len(f[j]) PROVE \E k \in 1..j : f[j][i] = v[k]
        OBVIOUS
      <4>1. i \in 1..Len(s) \/ i = Len(s) + 1
        BY <2>3, <3>2
      <4> QED
        BY <2>1, <2>3, <2>4, <3>2, <4>1
    <3> QED
      BY <3>3, <3>4 DEF j
  <2>7. CASE j \notin c
    <3>1. f[j] = s
      BY <2>1, <2>2, <2>7
    <3>2. Below(j)
      BY <2>1, <2>4, <3>1
    <3> QED
      BY <2>4, <3>1, <3>2
  <2> QED
    BY <2>6, <2>7
<1>3. n \in Good
  <2> HIDE DEF Good
  <2> QED
    BY <1>1, <1>2, SetInduction
<1> QED
  BY <1>3

-----------------------------------------------------------------------------
(* CoopNotes. *)

Note == Notes \cup {NoNote}
NotedBlock == [note : Note, text : BOOLEAN]

LEMMA NotesOf ==
    ASSUME NEW bs \in Seq(NotedBlock)
    PROVE  Len(bs) \in Nat /\ \A i \in 1..Len(bs) : bs[i].note \in Note
<1>1. Len(bs) \in Nat /\ \A i \in 1..Len(bs) : bs[i] \in NotedBlock
  OBVIOUS
<1> QED
  BY <1>1 DEF NotedBlock

LEMMA RecordsScan ==
    ASSUME NEW bs \in Seq(NotedBlock)
    PROVE  \E f : /\ Scan(f, Len(bs), {i \in 1..Len(bs) : C!IsRecord(bs[i])},
                          [i \in 1..Len(bs) |-> bs[i].note], Note)
                  /\ C!Records(bs) = f[Len(bs)]
<1> DEFINE n == Len(bs)
           c == {i \in 1..n : C!IsRecord(bs[i])}
           v == [i \in 1..n |-> bs[i].note]
           Is(f) == f = [i \in 0..n |->
                          IF i = 0 THEN <<>>
                          ELSE IF C!IsRecord(bs[i]) THEN Append(f[i - 1], bs[i].note)
                          ELSE f[i - 1]]
           it == CHOOSE f : Is(f)
<1>1. n \in Nat /\ \A i \in 1..n : v[i] \in Note
  BY NotesOf
<1>2. \A i \in 0..n : i = 0 \/ (i \in 1..n /\ (i \in c <=> C!IsRecord(bs[i])) /\ v[i] = bs[i].note)
  BY <1>1
<1>3. \A f : ScanForm(f, n, c, v) <=> Is(f)
  <2> HIDE DEF c, v
  <2> QED
    BY <1>2 DEF ScanForm
<1> HIDE DEF n, c, v, Is
<1>4. Is(it)
  <2>1. PICK f : Scan(f, n, c, v, Note)
    BY <1>1, ScanExists
  <2>2. Is(f)
    BY <1>1, <1>3, <2>1, ScanIsForm
  <2> QED
    BY <2>2
<1>5. C!Records(bs) = it[n]
  BY DEF C!Records, n, Is
<1> HIDE DEF it
<1>6. Scan(it, n, c, v, Note)
  BY <1>1, <1>3, <1>4, FormIsScan
<1> QED
  BY <1>5, <1>6 DEF n, c, v

\* The records of a beginning of a chain are a beginning of the chain's.
LEMMA RecordsGrow ==
    ASSUME NEW bs \in Seq(NotedBlock), NEW cs \in Seq(NotedBlock), Starts(bs, cs)
    PROVE  /\ C!Records(bs) \in Seq(Note) /\ C!Records(cs) \in Seq(Note)
           /\ Starts(C!Records(bs), C!Records(cs))
<1> DEFINE n == Len(bs)
           m == Len(cs)
           c == {i \in 1..n : C!IsRecord(bs[i])}
           v == [i \in 1..n |-> bs[i].note]
           d == {i \in 1..m : C!IsRecord(cs[i])}
           w == [i \in 1..m |-> cs[i].note]
<1>1. /\ n \in Nat /\ m \in Nat /\ n <= m /\ \A i \in 1..n : bs[i] = cs[i] /\ i \in 1..m
      /\ \A i \in 1..n : bs[i] \in NotedBlock /\ \A j \in 1..m : cs[j] \in NotedBlock
  BY DEF Starts
<1>2. PICK f : Scan(f, n, c, v, Note) /\ C!Records(bs) = f[n]
  BY RecordsScan
<1>3. PICK g : Scan(g, m, d, w, Note) /\ C!Records(cs) = g[m]
  BY RecordsScan
<1>4. \A i \in 1..n : (i \in c <=> i \in d) /\ v[i] = w[i]
  BY <1>1
<1>5. (\A i \in 1..n : v[i] \in Note) /\ (\A i \in 1..m : w[i] \in Note)
  BY NotesOf
<1> HIDE DEF n, m, c, v, d, w
<1>6. f[n] = g[n] /\ n \in 0..m /\ n \in 0..n
  BY <1>1, <1>2, <1>3, <1>4, ScansAgree
<1>7. g[m] \in Seq(Note) /\ Starts(g[n], g[m])
  BY <1>1, <1>3, <1>5, <1>6, ScanKeeps
<1>8. f[n] \in Seq(Note)
  BY <1>1, <1>2, <1>5, <1>6, ScanKeeps
<1> QED
  BY <1>2, <1>3, <1>6, <1>7, <1>8

Asked == [chain : Chains, live : BOOLEAN, step : {"asked"}]
Served == [chain : Chains, live : BOOLEAN, step : {"served"}, records : Seq(Note), at : Nat]
FormState == [note : Note, giver : Givers \cup {"none"}, chain : Chains \cup {"none"}]
Confirmed == [note : Note, cost : 0..2, giver : Givers \cup {"none"},
              origin : Chains \cup {"none"}, chain : Chains, mounted : BOOLEAN,
              step : {"posted", "ok", "refused", "lost"}]

PageTypes ==
    /\ chosen \in Chains /\ tab \in {"consumer", "coop"} /\ pending \in Note
    /\ loads \subseteq Asked \cup Served
    /\ ledger \in [records : Seq(Note), at : Nat, error : BOOLEAN]
FormTypes == form \in FormState /\ confirms \subseteq Confirmed /\ queue \in Seq(Confirmed)

\* What is served was there, what is alive is for the chain on screen, and what
\* is on screen is there.
LoadsTrue ==
    \A l \in loads :
        /\ l.step = "served" => Starts(l.records, C!Records(ledgers[l.chain]))
        /\ l.live => tab = "coop" /\ l.chain = chosen
OnScreen == C!Shown => Starts(ledger.records, C!Records(ledgers[chosen]))

LedgerTypes == ledgers \in [Chains -> Seq(NotedBlock)]

CInv == LedgerTypes /\ PageTypes /\ FormTypes /\ LoadsTrue /\ OnScreen

LEMMA CoopInit == C!Init => CInv
<1> SUFFICES ASSUME C!Init PROVE CInv
  OBVIOUS
<1>1. /\ ledgers = [c \in Chains |-> <<>>] /\ tab = "consumer" /\ chosen \in Chains
      /\ pending = NoNote /\ loads = {} /\ confirms = {} /\ queue = <<>>
      /\ ledger = [records |-> <<>>, at |-> 0, error |-> FALSE]
      /\ form = [note |-> NoNote, giver |-> "none", chain |-> "none"]
  BY DEF C!Init, C!Unread, C!NoForm
<1>2. <<>> \in Seq(NotedBlock) /\ <<>> \in Seq(Note) /\ <<>> \in Seq(Confirmed)
  BY EmptySeq
<1>3. LedgerTypes /\ PageTypes /\ FormTypes
  BY <1>1, <1>2 DEF LedgerTypes, PageTypes, FormTypes, FormState, Note
<1>4. LoadsTrue /\ OnScreen
  BY <1>1 DEF LoadsTrue, OnScreen, C!Shown
<1> QED
  BY <1>3, <1>4 DEF CInv

-----------------------------------------------------------------------------
(* Steps that record. *)

Appended(c, b) == ledgers' = [ledgers EXCEPT ![c] = Append(@, b)]

LEMMA LedgersGrow ==
    ASSUME LedgerTypes, NEW c \in Chains, NEW b \in NotedBlock, Appended(c, b)
    PROVE  LedgerTypes' /\ \A k \in Chains : Starts(ledgers[k], ledgers'[k])
<1> DEFINE s == ledgers[c]
           t == Append(s, b)
<1>1. s \in Seq(NotedBlock) /\ ledgers' = [ledgers EXCEPT ![c] = t]
  BY DEF LedgerTypes, Appended
<1>2. /\ t \in Seq(NotedBlock) /\ Len(t) = Len(s) + 1 /\ Len(s) \in Nat
      /\ \A i \in 1..Len(s) : t[i] = s[i]
  BY <1>1, AppendProperties
<1>3. Starts(s, t)
  <2> HIDE DEF t, s
  <2> QED
    BY <1>2 DEF Starts
<1>4. ledgers'[c] = t /\ \A k \in Chains : k # c => ledgers'[k] = ledgers[k]
  BY <1>1 DEF LedgerTypes
<1>5. \A k : Starts(ledgers[k], ledgers[k])
  BY DEF Starts
<1>6. LedgerTypes'
  BY <1>1, <1>2 DEF LedgerTypes
<1> HIDE DEF t
<1> QED
  BY <1>3, <1>4, <1>5, <1>6

LEMMA RecordingKeeps ==
    ASSUME CInv, LedgerTypes', \A k \in Chains : Starts(ledgers[k], ledgers'[k]),
           UNCHANGED <<tab, chosen, pending, ledger, loads>>, FormTypes'
    PROVE  CInv'
<1>1. \A k \in Chains : /\ ledgers[k] \in Seq(NotedBlock) /\ ledgers'[k] \in Seq(NotedBlock)
  BY DEF CInv, LedgerTypes
<1>2. ASSUME NEW k \in Chains
      PROVE  /\ C!Records(ledgers[k]) \in Seq(Note) /\ C!Records(ledgers'[k]) \in Seq(Note)
             /\ Starts(C!Records(ledgers[k]), C!Records(ledgers'[k]))
  BY <1>1, RecordsGrow
<1>3. ASSUME NEW k \in Chains, NEW s \in Seq(Note), Starts(s, C!Records(ledgers[k]))
      PROVE  Starts(s, C!Records(ledgers'[k]))
  BY <1>2, <1>3, StartsAgain
<1>4. ASSUME NEW l \in loads, l.step = "served" PROVE l.chain \in Chains /\ l.records \in Seq(Note)
  BY <1>4 DEF CInv, PageTypes, Asked, Served
<1>5. LoadsTrue'
  BY <1>3, <1>4 DEF CInv, LoadsTrue
<1>6. OnScreen'
  <2>1. ledger.records \in Seq(Note) /\ chosen \in Chains
    BY DEF CInv, PageTypes
  <2> QED
    BY <1>3, <2>1 DEF CInv, OnScreen, C!Shown
<1> QED
  BY <1>5, <1>6 DEF CInv, PageTypes

LEMMA RecordedKeeps ==
    ASSUME CInv, NEW a \in Confirmed, C!Recorded(a),
           UNCHANGED <<tab, chosen, pending, ledger, loads>>, FormTypes'
    PROVE  CInv'
<1>1. CASE C!Accepted(a)
  <2> DEFINE b == [note |-> a.note, text |-> FALSE]
  <2>1. b \in NotedBlock /\ a.chain \in Chains
    BY DEF Confirmed, NotedBlock
  <2>2. Appended(a.chain, b)
    BY <1>1 DEF C!Recorded, Appended
  <2> HIDE DEF b
  <2>3. LedgerTypes' /\ \A k \in Chains : Starts(ledgers[k], ledgers'[k])
    BY <2>1, <2>2, LedgersGrow DEF CInv
  <2> QED
    BY <2>3, RecordingKeeps
<1>2. CASE ~C!Accepted(a)
  <2>1. ledgers' = ledgers
    BY <1>2 DEF C!Recorded, C!recorder
  <2>2. \A k \in Chains : Starts(ledgers[k], ledgers'[k])
    BY <2>1 DEF Starts
  <2> QED
    BY <2>1, <2>2, RecordingKeeps DEF CInv, LedgerTypes
<1> QED
  BY <1>1, <1>2

LEMMA SubmitKeeps == ASSUME CInv, NEW r \in confirms, C!Submit(r) PROVE CInv'
<1>1. /\ C!Recorded(r) /\ UNCHANGED <<tab, chosen, pending, ledger, loads, form, queue>>
      /\ confirms' = (confirms \ {r}) \cup {[r EXCEPT !.step = IF C!Accepted(r) THEN "ok" ELSE "refused"]}
  BY DEF C!Submit, C!reading
<1>2. r \in Confirmed
  BY DEF CInv, FormTypes
<1>3. \A s \in {"ok", "refused"} : [r EXCEPT !.step = s] \in Confirmed
  BY <1>2 DEF Confirmed
<1>4. FormTypes'
  BY <1>1, <1>3 DEF CInv, FormTypes
<1> QED
  BY <1>1, <1>2, <1>4, RecordedKeeps

LEMMA FlushKeeps == ASSUME CInv, C!Flush PROVE CInv'
<1>1. /\ C!Recorded(Head(queue)) /\ UNCHANGED <<tab, chosen, pending, ledger, loads, form, confirms>>
      /\ queue' = Tail(queue) /\ queue # <<>>
  BY DEF C!Flush, C!reading
<1>2. Head(queue) \in Confirmed /\ queue' \in Seq(Confirmed)
  BY <1>1, HeadTailProperties DEF CInv, FormTypes
<1>3. FormTypes'
  BY <1>1, <1>2 DEF CInv, FormTypes
<1> QED
  BY <1>1, <1>2, <1>3, RecordedKeeps

LEMMA ForeignKeeps ==
    ASSUME CInv, NEW c \in Chains, NEW n \in Notes, C!Foreign(c, n)
    PROVE  CInv'
<1> DEFINE b == [note |-> n, text |-> TRUE]
<1>1. Appended(c, b) /\ UNCHANGED <<tab, chosen, pending, ledger, loads, form, confirms, queue>>
  BY DEF C!Foreign, C!reading, C!writing, Appended
<1>2. b \in NotedBlock
  BY DEF NotedBlock, Note
<1> HIDE DEF b
<1>3. LedgerTypes' /\ \A k \in Chains : Starts(ledgers[k], ledgers'[k])
  BY <1>1, <1>2, LedgersGrow DEF CInv
<1> QED
  BY <1>1, <1>3, RecordingKeeps DEF CInv, FormTypes

-----------------------------------------------------------------------------
(* Steps of the page. *)

LEMMA ServeKeeps == ASSUME CInv, NEW l \in loads, C!Serve(l) PROVE CInv'
<1> DEFINE bs == ledgers[l.chain]
           n == IF Len(bs) < BlockRange THEN Len(bs) ELSE BlockRange
           served == [chain |-> l.chain, live |-> l.live, step |-> "served",
                      records |-> C!Records(SubSeq(bs, 1, n)), at |-> Len(bs)]
<1>1. /\ l.step = "asked" /\ loads' = (loads \ {l}) \cup {served}
      /\ UNCHANGED <<ledgers, tab, chosen, pending, ledger, form, confirms, queue>>
  BY DEF C!Serve, C!recorder, C!writing
<1>2. l.chain \in Chains /\ l.live \in BOOLEAN
  BY DEF CInv, PageTypes, Asked, Served
<1>3. bs \in Seq(NotedBlock) /\ Len(bs) \in Nat /\ n \in 0..Len(bs)
  <2>1. BlockRange \in Nat
    BY PartsConstants DEF C!CoopConstants
  <2> QED
    BY <1>2, <2>1 DEF CInv, LedgerTypes
<1>4. SubSeq(bs, 1, n) \in Seq(NotedBlock) /\ Starts(SubSeq(bs, 1, n), bs)
  <2> HIDE DEF bs, n
  <2>1. /\ SubSeq(bs, 1, n) \in Seq(NotedBlock) /\ Len(SubSeq(bs, 1, n)) = n
        /\ \A i \in 1..n : SubSeq(bs, 1, n)[i] = bs[i]
    BY <1>3, SubSeqProperties
  <2> QED
    BY <1>3, <2>1 DEF Starts
<1>5. /\ C!Records(SubSeq(bs, 1, n)) \in Seq(Note)
      /\ Starts(C!Records(SubSeq(bs, 1, n)), C!Records(bs))
  BY <1>3, <1>4, RecordsGrow
<1>6. served \in Served
  BY <1>2, <1>3, <1>5 DEF Served
<1>7. /\ served.chain = l.chain /\ served.live = l.live
      /\ Starts(served.records, C!Records(ledgers[l.chain]))
  BY <1>5
<1> HIDE DEF served, bs, n
<1>8. PageTypes'
  BY <1>1, <1>6 DEF CInv, PageTypes
<1>9. LoadsTrue'
  BY <1>1, <1>7 DEF CInv, LoadsTrue
<1>10. C!Shown' => C!Shown
  BY <1>1, <1>7 DEF C!Shown
<1>11. OnScreen'
  BY <1>1, <1>10 DEF CInv, OnScreen
<1> QED
  BY <1>1, <1>8, <1>9, <1>11 DEF CInv, LedgerTypes, FormTypes

LEMMA LoadedKeeps == ASSUME CInv, NEW l \in loads, C!Loaded(l) PROVE CInv'
<1>1. /\ l.step = "served" /\ loads' = loads \ {l}
      /\ ledger' = IF l.live THEN [records |-> l.records, at |-> l.at, error |-> FALSE] ELSE ledger
      /\ UNCHANGED <<ledgers, tab, chosen, pending, form, confirms, queue>>
  BY DEF C!Loaded, C!recorder, C!writing
<1>2. l \in Served
  BY <1>1 DEF CInv, PageTypes, Asked, Served
<1>3. l.records \in Seq(Note) /\ l.at \in Nat /\ l.live \in BOOLEAN
  BY <1>2 DEF Served
<1>4. PageTypes' /\ LoadsTrue'
  BY <1>1, <1>3 DEF CInv, PageTypes, LoadsTrue
<1>5. OnScreen'
  <2>1. CASE l.live
    BY <1>1, <2>1 DEF CInv, LoadsTrue, OnScreen
  <2>2. CASE ~l.live
    <3>1. C!Shown' => C!Shown
      BY <1>1, <2>2 DEF C!Shown
    <3> QED
      BY <1>1, <2>2, <3>1 DEF CInv, OnScreen
  <2> QED
    BY <2>1, <2>2
<1> QED
  BY <1>1, <1>4, <1>5 DEF CInv, LedgerTypes, FormTypes

LEMMA LoadFailsKeeps == ASSUME CInv, NEW l \in loads, C!LoadFails(l) PROVE CInv'
<1>1. /\ loads' = loads \ {l}
      /\ ledger' = IF l.live THEN [ledger EXCEPT !.error = TRUE] ELSE ledger
      /\ UNCHANGED <<ledgers, tab, chosen, pending, form, confirms, queue>>
  BY DEF C!LoadFails, C!recorder, C!writing
<1>2. l.live => ledger'.error
  BY <1>1 DEF CInv, PageTypes
<1>3. PageTypes' /\ LoadsTrue'
  BY <1>1 DEF CInv, PageTypes, LoadsTrue
<1>4. OnScreen'
  <2>1. CASE l.live
    BY <1>2, <2>1 DEF OnScreen, C!Shown
  <2>2. CASE ~l.live
    <3>1. C!Shown' => C!Shown
      BY <1>1, <2>2 DEF C!Shown
    <3> QED
      BY <1>1, <2>2, <3>1 DEF CInv, OnScreen
  <2> QED
    BY <2>1, <2>2
<1> QED
  BY <1>1, <1>3, <1>4 DEF CInv, LedgerTypes, FormTypes

\* The clean-up leaves no load alive.
LEMMA Cancelled ==
    ASSUME NEW l \in Asked \cup Served
    PROVE  /\ [l EXCEPT !.live = FALSE] \in Asked \cup Served
           /\ ~[l EXCEPT !.live = FALSE].live
           /\ [l EXCEPT !.live = FALSE].step = l.step
           /\ [l EXCEPT !.live = FALSE].chain = l.chain
           /\ l.step = "served" => [l EXCEPT !.live = FALSE].records = l.records
<1>1. CASE l \in Asked
  BY <1>1 DEF Asked
<1>2. CASE l \in Served
  BY <1>2 DEF Served
<1> QED
  BY <1>1, <1>2

LEMMA LoadAsks ==
    ASSUME CInv, NEW c \in Chains, chosen' = c, tab' = "coop",
           loads' = C!Load(c) \/ loads' = {[l EXCEPT !.live = FALSE] : l \in loads}, UNCHANGED ledgers
    PROVE  loads' \subseteq Asked \cup Served /\ LoadsTrue'
<1> DEFINE new == [chain |-> c, live |-> TRUE, step |-> "asked"]
<1>1. new \in Asked /\ new.chain = c /\ new.step = "asked"
  BY DEF Asked
<1>2. loads \subseteq Asked \cup Served
  BY DEF CInv, PageTypes
<1>3. \A l \in loads' : l = new \/ \E m \in loads : l = [m EXCEPT !.live = FALSE]
  BY DEF C!Load
<1>4. ASSUME NEW m \in loads
      PROVE  LET l == [m EXCEPT !.live = FALSE]
             IN /\ l \in Asked \cup Served /\ ~l.live
                /\ l.step = "served" => Starts(l.records, C!Records(ledgers[l.chain]))
  <2>1. m.step = "served" => Starts(m.records, C!Records(ledgers[m.chain]))
    BY DEF CInv, LoadsTrue
  <2> QED
    BY <1>2, <2>1, Cancelled
<1> HIDE DEF new
<1>5. ASSUME NEW l \in loads'
      PROVE  /\ l \in Asked \cup Served
             /\ l.step = "served" => Starts(l.records, C!Records(ledgers[l.chain]))
             /\ l.live => l.chain = c
  <2>1. CASE l = new
    BY <1>1, <2>1
  <2>2. CASE \E m \in loads : l = [m EXCEPT !.live = FALSE]
    BY <1>4, <2>2
  <2> QED
    BY <1>3, <2>1, <2>2
<1> QED
  BY <1>5 DEF LoadsTrue

LEMMA SelectKeeps == ASSUME CInv, NEW c \in Chains, C!Select(c) PROVE CInv'
<1>1. /\ chosen' = c /\ UNCHANGED <<ledgers, tab, pending, ledger, form, confirms, queue>>
      /\ loads' = IF tab = "coop" THEN C!Load(c) ELSE loads
  BY DEF C!Select, C!recorder, C!writing
<1>2. CASE tab = "coop"
  <2>1. loads' \subseteq Asked \cup Served /\ LoadsTrue'
    BY <1>1, <1>2, LoadAsks
  <2>2. ~C!Shown'
    <3> DEFINE new == [chain |-> c, live |-> TRUE, step |-> "asked"]
    <3>1. new \in loads' /\ new.live
      BY <1>1, <1>2 DEF C!Load
    <3> HIDE DEF new
    <3> QED
      BY <3>1 DEF C!Shown
  <2> QED
    BY <1>1, <2>1, <2>2 DEF CInv, LedgerTypes, PageTypes, FormTypes, OnScreen
<1>3. CASE tab # "coop"
  <2>1. ~C!Shown'
    BY <1>1, <1>3 DEF C!Shown
  <2> QED
    BY <1>1, <1>3, <2>1 DEF CInv, LedgerTypes, PageTypes, FormTypes, LoadsTrue, OnScreen
<1> QED
  BY <1>2, <1>3

LEMMA ToCoopKeeps == ASSUME CInv, C!ToCoop PROVE CInv'
<1>1. /\ tab' = "coop" /\ UNCHANGED <<ledgers, chosen, pending, queue>>
      /\ loads' = C!Load(chosen) /\ chosen \in Chains
      /\ ledger' = [records |-> <<>>, at |-> 0, error |-> FALSE]
      /\ form' = [note |-> NoNote, giver |-> "none", chain |-> "none"]
      /\ confirms' = {[r EXCEPT !.mounted = FALSE] : r \in confirms}
  BY DEF C!ToCoop, C!recorder, C!Unread, C!NoForm, CInv, PageTypes
<1>2. loads' \subseteq Asked \cup Served /\ LoadsTrue'
  BY <1>1, LoadAsks
<1>3. ~C!Shown'
  <2> DEFINE new == [chain |-> chosen, live |-> TRUE, step |-> "asked"]
  <2>1. new \in loads' /\ new.live
    BY <1>1 DEF C!Load
  <2> HIDE DEF new
  <2> QED
    BY <2>1 DEF C!Shown
<1>4. \A r \in Confirmed : [r EXCEPT !.mounted = FALSE] \in Confirmed
  BY DEF Confirmed
<1>5. FormTypes'
  BY <1>1, <1>4 DEF CInv, FormTypes, FormState, Note
<1>6. <<>> \in Seq(Note)
  BY EmptySeq
<1>7. PageTypes'
  BY <1>1, <1>2, <1>6 DEF CInv, PageTypes
<1> QED
  BY <1>1, <1>2, <1>3, <1>5, <1>7 DEF CInv, LedgerTypes, OnScreen

LEMMA ToConsumerKeeps == ASSUME CInv, C!ToConsumer PROVE CInv'
<1>1. /\ tab' = "consumer" /\ loads' = {[l EXCEPT !.live = FALSE] : l \in loads}
      /\ UNCHANGED <<ledgers, chosen, pending, ledger, form, confirms, queue>>
  BY DEF C!ToConsumer, C!recorder, C!writing
<1>2. ASSUME NEW l \in loads'
      PROVE  /\ l \in Asked \cup Served /\ ~l.live
             /\ l.step = "served" => Starts(l.records, C!Records(ledgers[l.chain]))
  <2>1. PICK m \in loads : l = [m EXCEPT !.live = FALSE]
    BY <1>1
  <2>2. m \in Asked \cup Served /\ (m.step = "served" => Starts(m.records, C!Records(ledgers[m.chain])))
    BY DEF CInv, PageTypes, LoadsTrue
  <2> QED
    BY <2>1, <2>2, Cancelled
<1>3. LoadsTrue'
  BY <1>1, <1>2 DEF LoadsTrue
<1>4. ~C!Shown'
  BY <1>1 DEF C!Shown
<1> QED
  BY <1>1, <1>2, <1>3, <1>4 DEF CInv, LedgerTypes, PageTypes, FormTypes, OnScreen

LEMMA FormKeeps ==
    ASSUME CInv, UNCHANGED <<ledgers, tab, chosen, ledger, loads>>, pending' \in Note, FormTypes'
    PROVE  CInv'
BY DEF CInv, LedgerTypes, PageTypes, LoadsTrue, OnScreen, C!Shown

LEMMA ConfirmKeeps == ASSUME CInv, C!Confirm PROVE CInv'
<1> DEFINE r == [note |-> pending, cost |-> C!TextCost(form.note), giver |-> form.giver,
                 origin |-> form.chain, chain |-> chosen, mounted |-> TRUE, step |-> "posted"]
<1>1. /\ confirms' = confirms \cup {r}
      /\ UNCHANGED <<ledgers, tab, chosen, pending, ledger, loads, form, queue>>
  BY DEF C!Confirm, C!recorder, C!reading
<1>2. C!TextCost(form.note) \in 0..2
  BY DEF C!TextCost
<1>3. r \in Confirmed
  BY <1>2 DEF CInv, FormTypes, PageTypes, FormState, Confirmed
<1> HIDE DEF r
<1> QED
  BY <1>1, <1>3, FormKeeps DEF CInv, FormTypes, PageTypes

LEMMA AnswerKeeps ==
    ASSUME CInv, NEW r \in confirms, C!Lost(r) \/ C!Finish(r)
    PROVE  CInv'
<1>1. r \in Confirmed /\ queue \in Seq(Confirmed)
  BY DEF CInv, FormTypes
<1>2. CASE C!Lost(r)
  <2>1. [r EXCEPT !.step = "lost"] \in Confirmed
    BY <1>1 DEF Confirmed
  <2> QED
    BY <1>2, <2>1, FormKeeps DEF C!Lost, C!recorder, C!reading, CInv, FormTypes, PageTypes
<1>3. CASE C!Finish(r)
  <2>1. Append(queue, r) \in Seq(Confirmed)
    BY <1>1, AppendProperties
  <2>2. C!NoForm \in FormState
    BY DEF C!NoForm, FormState, Note
  <2>3. /\ confirms' \subseteq Confirmed /\ queue' \in {queue, Append(queue, r)}
        /\ form' \in {form, C!NoForm} /\ pending' \in {pending, NoNote}
        /\ UNCHANGED <<ledgers, tab, chosen, ledger, loads>>
    BY <1>3 DEF C!Finish, C!recorder, C!reading, CInv, FormTypes
  <2>4. FormTypes' /\ pending' \in Note
    BY <1>1, <2>1, <2>2, <2>3 DEF CInv, FormTypes, PageTypes, Note
  <2> QED
    BY <2>3, <2>4, FormKeeps
<1> QED
  BY <1>2, <1>3

LEMMA CoopKeeps == CInv /\ [C!Next]_C!vars => CInv'
<1> SUFFICES ASSUME CInv, [C!Next]_C!vars PROVE CInv'
  OBVIOUS
<1>1. ASSUME NEW n \in Notes, C!Prepare(n) PROVE CInv'
  <2>1. /\ pending' = n /\ UNCHANGED <<ledgers, tab, chosen, ledger, loads, form, confirms, queue>>
    BY <1>1 DEF C!Prepare, C!recorder, C!reading, C!writing
  <2> QED
    BY <2>1, FormKeeps DEF CInv, FormTypes, Note
<1>2. CASE C!Clear \/ C!Edit
  <2>1. /\ pending' \in {pending, NoNote} /\ form' \in {form, C!NoForm}
        /\ UNCHANGED <<ledgers, tab, chosen, ledger, loads, confirms, queue>>
    BY <1>2 DEF C!Clear, C!Edit, C!recorder, C!reading, C!writing
  <2>2. C!NoForm \in FormState
    BY DEF C!NoForm, FormState, Note
  <2> QED
    BY <2>1, <2>2, FormKeeps DEF CInv, FormTypes, PageTypes, Note
<1>3. ASSUME NEW g \in Givers, C!Build(g) PROVE CInv'
  <2>1. /\ form' = [note |-> pending, giver |-> g, chain |-> chosen]
        /\ UNCHANGED <<ledgers, tab, chosen, pending, ledger, loads, confirms, queue>>
    BY <1>3 DEF C!Build, C!recorder, C!reading
  <2>2. form' \in FormState
    BY <2>1 DEF CInv, PageTypes, FormState
  <2> QED
    BY <2>1, <2>2, FormKeeps DEF CInv, FormTypes, PageTypes
<1>4. CASE UNCHANGED C!vars
  BY <1>4, FormKeeps DEF C!vars, C!recorder, C!reading, C!writing, CInv, FormTypes, PageTypes
<1> QED
  BY <1>1, <1>2, <1>3, <1>4, ServeKeeps, LoadedKeeps, LoadFailsKeeps, SelectKeeps, ForeignKeeps,
     ToCoopKeeps, ToConsumerKeeps, ConfirmKeeps, FlushKeeps, SubmitKeeps, AnswerKeeps DEF C!Next

LEMMA CoopShows == CInv => C!LedgerIsPrefix
<1>0. C!LedgerIsPrefix <=> (C!Shown => IsPrefix(ledger.records, C!Records(ledgers[chosen])))
  BY DEF C!LedgerIsPrefix, C!IsPrefix, IsPrefix
<1> SUFFICES ASSUME CInv, C!Shown
             PROVE  IsPrefix(ledger.records, C!Records(ledgers[chosen]))
  BY <1>0
<1>1. ledger.records \in Seq(Note) /\ ledgers[chosen] \in Seq(NotedBlock)
  BY DEF CInv, PageTypes, LedgerTypes
<1>2. Starts(ledgers[chosen], ledgers[chosen])
  BY DEF Starts
<1>3. C!Records(ledgers[chosen]) \in Seq(Note)
  BY <1>1, <1>2, RecordsGrow
<1> QED
  BY <1>1, <1>3, PrefixStarts DEF CInv, OnScreen

\* The ledger on screen is a prefix of the selected chain's, however loads, selections and
\* recordings overtake each other.
THEOREM LedgersOnScreen == C!Init /\ [][C!Next]_C!vars => []C!LedgerIsPrefix
BY CoopInit, CoopKeeps, CoopShows, PTL

\* In the run as well.
THEOREM ScreensLedgerIsPrefix == MCSpec => []LedgerIsPrefix
<1>1. MCInit => C!Init
  BY DEF MCInit
<1>2. [MCNext]_<<part, historyVars, vendorVars, coopVars, feeVars, vars, simVars>>
      => [C!Next]_C!vars
  BY DEF MCNext, HistoryStep, VendorStep, CoopStep, FeeStep, ItemStep, SimStep, coopVars,
         C!vars, C!recorder, C!reading, C!writing
<1>3. LedgerIsPrefix <=> C!LedgerIsPrefix
  BY DEF LedgerIsPrefix
<1> QED
  BY <1>1, <1>2, <1>3, LedgersOnScreen, PTL DEF MCSpec

-----------------------------------------------------------------------------
(* SimViewer. *)

LEMMA OnlyIs ==
    ASSUME NEW s \in Seq(Nat), NEW K
    PROVE  /\ S!Only(s, K) \in Seq(Nat)
           /\ \A x : x \in Range(S!Only(s, K)) <=> x \in Range(s) /\ x \in K
           /\ Rising(s) => Rising(S!Only(s, K))
<1> DEFINE n == Len(s)
           c == {i \in 1..n : s[i] \in K}
           Is(f) == f = [i \in 0..n |->
                          IF i = 0 THEN <<>>
                          ELSE IF s[i] \in K THEN Append(f[i - 1], s[i]) ELSE f[i - 1]]
           it == CHOOSE f : Is(f)
<1>1. n \in Nat /\ \A i \in 1..n : s[i] \in Nat
  OBVIOUS
<1>2. \A i \in 0..n : i = 0 \/ (i \in 1..n /\ (i \in c <=> s[i] \in K))
  <2>1. \A i \in 1..n : i \in c <=> s[i] \in K
    OBVIOUS
  <2>2. \A i \in 0..n : i = 0 \/ i \in 1..n
    BY <1>1
  <2> HIDE DEF c
  <2> QED
    BY <2>1, <2>2
<1>3. \A f : ScanForm(f, n, c, s) <=> Is(f)
  <2> HIDE DEF c
  <2> QED
    BY <1>2 DEF ScanForm
<1>4. \A i \in 1..n : i \in c <=> s[i] \in K
  OBVIOUS
<1>5. \A x : x \in Range(s) <=> \E i \in 1..n : x = s[i]
  BY RangeIs
<1>6. Rising(s) => \A i, j \in 1..n : i < j => s[i] < s[j]
  BY DEF Rising
<1> HIDE DEF n, c, Is
<1>7. Is(it)
  <2>1. PICK f : Scan(f, n, c, s, Nat)
    BY <1>1, ScanExists
  <2>2. Is(f)
    BY <1>1, <1>3, <2>1, ScanIsForm
  <2> QED
    BY <2>2
<1>8. S!Only(s, K) = it[n]
  BY DEF S!Only, n, Is
<1> HIDE DEF it
<1>9. Scan(it, n, c, s, Nat)
  BY <1>1, <1>3, <1>7, FormIsScan
<1>10. it[n] \in Seq(Nat) /\ \A x : x \in Range(it[n]) <=> Wanted(x, n, c, s)
  <2>1. n \in 0..n
    BY <1>1
  <2> QED
    BY <1>1, <1>9, <2>1, ScanKeeps
<1>11. \A x : x \in Range(it[n]) <=> x \in Range(s) /\ x \in K
  <2> SUFFICES ASSUME NEW x PROVE x \in Range(it[n]) <=> x \in Range(s) /\ x \in K
    OBVIOUS
  <2>1. x \in Range(it[n]) <=> \E i \in 1..n : i \in c /\ x = s[i]
    BY <1>10, Zenon DEF Wanted
  <2>2. x \in Range(s) <=> \E i \in 1..n : x = s[i]
    BY <1>5, Zenon
  <2>3. (\E i \in 1..n : i \in c /\ x = s[i]) <=> (\E i \in 1..n : x = s[i]) /\ x \in K
    BY <1>4, Zenon
  <2> QED
    BY <2>1, <2>2, <2>3
<1>12. Rising(s) => Rising(it[n])
  BY <1>1, <1>6, <1>9, ScanRises
<1> QED
  BY <1>8, <1>10, <1>11, <1>12

\* What get_transactions answers: of the trades kept after the one named, the oldest, without
\* a hole.
LEMMA AfterIs ==
    ASSUME trades \in Seq(Nat), Rising(trades), NEW id \in Nat, NEW n \in Nat \ {0}
    PROVE  /\ S!After(id, n) \in Seq(Nat)
           /\ \A l \in Range(S!After(id, n)) : l \in Range(trades) /\ id < l
           /\ \A t \in Range(trades), l \in Range(S!After(id, n)) :
                  id < t /\ t <= l => t \in Range(S!After(id, n))
<1> DEFINE later == S!Only(trades, {t \in Range(trades) : t > id})
           m == IF n < Len(later) THEN n ELSE Len(later)
           more == SubSeq(later, 1, m)
<1>1. /\ later \in Seq(Nat) /\ Rising(later)
      /\ \A x : x \in Range(later) <=> x \in Range(trades) /\ x > id
  BY OnlyIs
<1>2. S!After(id, n) = more
  BY DEF S!After, S!Range, Range
<1> HIDE DEF later
<1>3. Len(later) \in Nat /\ m \in 0..Len(later)
  BY <1>1
<1> HIDE DEF m
<1>4. /\ more \in Seq(Nat) /\ Len(more) = m /\ \A i \in 1..m : more[i] = later[i]
      /\ DOMAIN more = 1..m /\ DOMAIN later = 1..Len(later)
  BY <1>1, <1>3, SubSeqProperties
<1> HIDE DEF more
<1>5. ASSUME NEW l \in Range(more)
      PROVE  \E i \in 1..m : i \in 1..Len(later) /\ l = later[i] /\ l \in Range(later)
  <2>1. PICK i \in 1..m : l = more[i]
    BY <1>4 DEF Range
  <2>2. i \in 1..Len(later) /\ l = later[i]
    BY <1>3, <1>4, <2>1
  <2>3. l \in Range(later)
    BY <1>4, <2>2 DEF Range
  <2> QED
    BY <2>2, <2>3
<1>6. ASSUME NEW t \in Range(trades), NEW l \in Range(more), id < t, t <= l
      PROVE  t \in Range(more)
  <2>0. t \in Nat
    BY DEF Range
  <2>1. t \in Range(later)
    BY <1>1, <1>6, <2>0
  <2>2. PICK j \in 1..Len(later) : t = later[j]
    BY <1>4, <2>1 DEF Range
  <2>3. PICK i \in 1..m : i \in 1..Len(later) /\ l = later[i]
    BY <1>5
  <2>4. ~(i < j)
    <3> SUFFICES ASSUME i < j PROVE FALSE
      OBVIOUS
    <3>1. later[i] < later[j] /\ later[i] \in Nat /\ later[j] \in Nat
      BY <1>1, <2>2, <2>3 DEF Rising
    <3> QED
      BY <1>6, <2>2, <2>3, <3>1
  <2>5. j \in 1..m
    BY <1>3, <2>3, <2>4
  <2> QED
    BY <1>4, <2>2, <2>5 DEF Range
<1>7. \A l \in Range(more) : l \in Range(trades) /\ id < l
  <2>1. \A l \in Range(trades) : l \in Nat
    BY DEF Range
  <2> QED
    BY <1>1, <1>5, <2>1
<1> QED
  BY <1>2, <1>4, <1>6, <1>7

\* addTransactions adds what is new.
LEMMA WithIs ==
    ASSUME NEW l \in Seq(Nat), NEW new \in Seq(Nat)
    PROVE  /\ S!With(l, new) \in Seq(Nat)
           /\ \A x : x \in Range(S!With(l, new)) <=> x \in Range(l) \/ x \in Range(new)
<1> DEFINE added == S!Only(new, Range(new) \ Range(l))
           all == l \o added
<1>1. added \in Seq(Nat) /\ \A x : x \in Range(added) <=> x \in Range(new) /\ x \notin Range(l)
  BY OnlyIs
<1>2. S!With(l, new) = all
  BY DEF S!With, S!Range, Range
<1> HIDE DEF added
<1>3. /\ all \in Seq(Nat) /\ Len(all) = Len(l) + Len(added)
      /\ \A i \in 1..(Len(l) + Len(added)) : all[i] = IF i <= Len(l) THEN l[i] ELSE added[i - Len(l)]
      /\ Len(l) \in Nat /\ Len(added) \in Nat
  BY <1>1, ConcatProperties
<1> HIDE DEF all
<1>4. /\ \A x : x \in Range(all) <=> \E i \in 1..Len(all) : x = all[i]
      /\ \A x : x \in Range(l) <=> \E i \in 1..Len(l) : x = l[i]
      /\ \A x : x \in Range(added) <=> \E i \in 1..Len(added) : x = added[i]
  BY <1>1, <1>3, RangeIs
<1>5. ASSUME NEW x \in Range(all) PROVE x \in Range(l) \/ x \in Range(added)
  <2>1. PICK i \in 1..Len(all) : x = all[i]
    BY <1>4
  <2>2. CASE i <= Len(l)
    BY <1>3, <1>4, <2>1, <2>2
  <2>3. CASE ~(i <= Len(l))
    <3>1. i - Len(l) \in 1..Len(added) /\ x = added[i - Len(l)]
      BY <1>3, <2>1, <2>3
    <3> QED
      BY <1>4, <3>1
  <2> QED
    BY <2>2, <2>3
<1>6. ASSUME NEW x \in Range(l) PROVE x \in Range(all)
  <2>1. PICK i \in 1..Len(l) : x = l[i]
    BY <1>4
  <2>2. i \in 1..Len(all) /\ all[i] = x
    BY <1>3, <2>1
  <2> QED
    BY <1>4, <2>2
<1>7. ASSUME NEW x \in Range(added) PROVE x \in Range(all)
  <2>1. PICK i \in 1..Len(added) : x = added[i]
    BY <1>4
  <2> DEFINE j == i + Len(l)
  <2>2. j \in 1..Len(all) /\ ~(j <= Len(l)) /\ j - Len(l) = i
    BY <1>3
  <2>3. all[j] = x
    BY <1>3, <2>1, <2>2
  <2> HIDE DEF j
  <2> QED
    BY <1>4, <2>2, <2>3
<1> QED
  BY <1>1, <1>2, <1>3, <1>5, <1>6, <1>7

Flags == [Agents -> BOOLEAN]
Message == [agents : Flags, trades : Seq(Nat)]
Connection == [step : {"changed", "push"}, dirty : BOOLEAN, sent : Nat]

\* t is listed, or is once the first i messages of st are received.
Seen(ls, st, t, i) == t \in Range(ls) \/ \E j \in 1..i : t \in Range(st[j].trades)

FeedTypes ==
    /\ pausing \in Flags /\ reported \in Flags /\ agents \in Flags \cup {<<>>}
    /\ list \in Seq(Nat) /\ stream \in Seq(Message) /\ paused = FALSE
    /\ conn = S!Closed \/ conn \in Connection
KeptInOrder ==
    /\ trades \in Seq(Nat) /\ Rising(trades) /\ next \in Nat \ {0}
    /\ \A t \in Range(trades) : 0 < t /\ t < next

\* What is listed, now or once messages are received, has no hole; what is
\* kept up to the last id sent is among it; nothing of it is from the future.
NoHole ==
    \A i \in 0..Len(stream) : \A t \in Range(trades), l \in Nat :
        Seen(list, stream, l, i) /\ t <= l => Seen(list, stream, t, i)
SentSeen ==
    conn # S!Closed =>
        /\ conn.sent < next
        /\ \A t \in Range(trades) : t <= conn.sent => Seen(list, stream, t, Len(stream))
NoneAhead == \A l \in Nat : Seen(list, stream, l, Len(stream)) => l < next

SInv == FeedTypes /\ KeptInOrder /\ NoHole /\ SentSeen /\ NoneAhead

LEMMA SimInit == S!Init => SInv
<1> SUFFICES ASSUME S!Init PROVE SInv
  OBVIOUS
<1>1. /\ pausing \in Flags /\ reported \in Flags /\ agents = <<>> /\ list = <<>> /\ stream = <<>>
      /\ paused = FALSE /\ conn = S!Closed /\ trades = <<>> /\ next = 1
  BY DEF S!Init, Flags
<1>2. <<>> \in Seq(Nat) /\ <<>> \in Seq(Message) /\ Len(<<>>) = 0 /\ Range(<<>>) = {}
  BY EmptySeq DEF Range
<1>3. Rising(<<>>)
  BY DEF Rising
<1>4. \A l : ~Seen(list, stream, l, 0)
  BY <1>1, <1>2 DEF Seen
<1> QED
  BY <1>1, <1>2, <1>3, <1>4 DEF SInv, FeedTypes, KeptInOrder, NoHole, SentSeen, NoneAhead

LEMMA SimQuiet ==
    ASSUME SInv, UNCHANGED <<trades, next, list, stream, paused>>,
           pausing' \in Flags, reported' \in Flags, agents' \in Flags \cup {<<>>},
           \/ UNCHANGED conn
           \/ conn' \in Connection /\ conn # S!Closed /\ conn'.sent = conn.sent
    PROVE  SInv'
BY DEF SInv, FeedTypes, KeptInOrder, NoHole, SentSeen, NoneAhead

LEMMA Open ==
    ASSUME SInv, conn.step # "closed"
    PROVE  conn \in Connection /\ conn # S!Closed
BY DEF SInv, FeedTypes, S!Closed

LEMMA ToldConnection ==
    ASSUME SInv
    PROVE  \/ conn = S!Closed /\ S!Told(conn) = conn
           \/ /\ conn # S!Closed /\ S!Told(conn) \in Connection /\ S!Told(conn) # S!Closed
              /\ S!Told(conn).sent = conn.sent
<1>1. CASE conn = S!Closed
  BY <1>1 DEF S!Told, S!Closed
<1>2. CASE conn # S!Closed
  <2>1. conn \in Connection /\ conn.step # "closed"
    BY <1>2 DEF SInv, FeedTypes, Connection
  <2>2. S!Told(conn) = [conn EXCEPT !.dirty = TRUE]
    BY <2>1 DEF S!Told
  <2>3. /\ S!Told(conn) \in Connection /\ S!Told(conn).sent = conn.sent
        /\ S!Told(conn).step = conn.step
    BY <2>1, <2>2 DEF Connection
  <2>4. S!Told(conn) # S!Closed
    BY <2>1, <2>3 DEF S!Closed
  <2> QED
    BY <1>2, <2>3, <2>4
<1> QED
  BY <1>1, <1>2

\* add_transaction keeps the newest, in order.
LEMMA TradeKeeps == ASSUME SInv, NEW a \in Agents, S!Trade(a) PROVE SInv'
<1> DEFINE all == Append(trades, next)
           n == Len(trades)
           kept == IF Len(all) > Cap THEN SubSeq(all, Drop + 1, Len(all)) ELSE all
<1>1. /\ trades' = kept /\ next' = next + 1 /\ conn' = S!Told(conn)
      /\ UNCHANGED <<pausing, reported, agents, list, stream, paused>>
  BY DEF S!Trade, S!page
<1>2. /\ trades \in Seq(Nat) /\ Rising(trades) /\ next \in Nat \ {0} /\ n \in Nat
      /\ \A t \in Range(trades) : 0 < t /\ t < next
      /\ \A i \in 1..n : trades[i] \in Range(trades) /\ trades[i] \in Nat
  <2>1. /\ trades \in Seq(Nat) /\ Rising(trades) /\ next \in Nat \ {0}
        /\ \A t \in Range(trades) : 0 < t /\ t < next
    BY DEF SInv, KeptInOrder
  <2> QED
    BY <2>1, RangeIs
<1>3. /\ all \in Seq(Nat) /\ Len(all) = n + 1 /\ all[n + 1] = next
      /\ \A i \in 1..n : all[i] = trades[i] /\ all[i] < next /\ 0 < all[i] /\ all[i] \in Nat
  <2>1. \A i \in 1..n : trades[i] < next /\ 0 < trades[i]
    BY <1>2
  <2> QED
    BY <1>2, <2>1, AppendProperties
<1> HIDE DEF all
<1>4. \A i, j \in 1..(n + 1) : i < j => all[i] < all[j]
  <2> SUFFICES ASSUME NEW i \in 1..(n + 1), NEW j \in 1..(n + 1), i < j PROVE all[i] < all[j]
    OBVIOUS
  <2>1. i \in 1..n /\ (j \in 1..n \/ j = n + 1)
    BY <1>2
  <2> QED
    BY <1>2, <1>3, <2>1 DEF Rising
<1>5. PICK d \in 0..(n + 1) : /\ kept \in Seq(Nat) /\ Len(kept) = (n + 1) - d
                              /\ \A i \in 1..((n + 1) - d) : kept[i] = all[i + d]
  <2>1. Drop \in 1..Cap /\ Cap \in Nat \ {0}
    BY PartsConstants DEF S!SimViewerConstants
  <2>2. CASE Len(all) > Cap
    <3>1. kept = SubSeq(all, Drop + 1, n + 1) /\ Drop + 1 \in 1..(n + 2) /\ Drop \in 0..(n + 1)
      <4>1. kept = SubSeq(all, Drop + 1, n + 1)
        BY <1>3, <2>2
      <4>2. n + 1 > Cap
        BY <1>3, <2>2
      <4> QED
        BY <1>2, <2>1, <4>1, <4>2
    <3>2. /\ SubSeq(all, Drop + 1, n + 1) \in Seq(Nat)
          /\ Len(SubSeq(all, Drop + 1, n + 1)) = (n + 1) - Drop
          /\ \A i \in 1..((n + 1) - Drop) : SubSeq(all, Drop + 1, n + 1)[i] = all[i + Drop]
      <4>1. \A i \in (Drop + 1)..(n + 1) : i \in 1..Len(all)
        BY <1>2, <1>3, <2>1
      <4>2. SubSeq(all, Drop + 1, n + 1) = [i \in 1..((n + 1) - Drop) |-> all[i + Drop]]
        BY <1>2, <1>3, <2>1, <3>1
      <4>3. \A i \in 1..((n + 1) - Drop) : all[i + Drop] \in Nat
        BY <1>2, <1>3, <2>1
      <4> DEFINE m == (n + 1) - Drop
                 g == [i \in 1..m |-> all[i + Drop]]
      <4>4. m \in Nat
        BY <1>2, <3>1
      <4> HIDE DEF m
      <4>5. g \in [1..m -> Nat] /\ \A i \in 1..m : g[i] = all[i + Drop]
        BY <4>3 DEF m
      <4> HIDE DEF g
      <4>6. g \in Seq(Nat) /\ Len(g) = m
        BY <4>4, <4>5
      <4>7. SubSeq(all, Drop + 1, n + 1) = g
        BY <4>2 DEF g, m
      <4> QED
        BY <4>5, <4>6, <4>7 DEF m
    <3> QED
      BY <3>1, <3>2
  <2>3. CASE ~(Len(all) > Cap)
    <3>1. kept = all /\ 0 \in 0..(n + 1) /\ (n + 1) - 0 = n + 1 /\ \A i \in 1..(n + 1) : i + 0 = i
      BY <1>2, <2>3
    <3> QED
      BY <1>3, <3>1
  <2> QED
    BY <2>2, <2>3
<1> HIDE DEF kept
<1>6. Rising(kept)
  <2> SUFFICES ASSUME NEW i \in 1..Len(kept), NEW j \in 1..Len(kept), i < j PROVE kept[i] < kept[j]
    BY DEF Rising
  <2>1. /\ i + d \in 1..(n + 1) /\ j + d \in 1..(n + 1) /\ i + d < j + d
        /\ kept[i] = all[i + d] /\ kept[j] = all[j + d]
    BY <1>2, <1>5
  <2> QED
    BY <1>4, <2>1
<1>7. ASSUME NEW t \in Range(kept) PROVE t \in Range(trades) \/ t = next
  <2>1. PICK i \in 1..Len(kept) : t = kept[i]
    BY <1>5, RangeIs
  <2>2. t = all[i + d] /\ (i + d \in 1..n \/ i + d = n + 1)
    BY <1>2, <1>5, <2>1
  <2> QED
    BY <1>2, <1>3, <2>2
<1>8. FeedTypes'
  BY <1>1, ToldConnection DEF SInv, FeedTypes
<1>9. KeptInOrder'
  <2>1. \A t \in Range(kept) : 0 < t /\ t < next + 1
    <3> SUFFICES ASSUME NEW t \in Range(kept) PROVE 0 < t /\ t < next + 1
      OBVIOUS
    <3>1. CASE t \in Range(trades)
      <4>1. \E i \in 1..n : t = trades[i]
        BY <1>2, <3>1, RangeIs
      <4>2. t \in Nat /\ 0 < t /\ t < next
        BY <1>2, <3>1, <4>1
      <4> QED
        BY <1>2, <4>2
    <3>2. CASE t = next
      BY <1>2, <3>2
    <3> QED
      BY <1>7, <3>1, <3>2
  <2>2. next + 1 \in Nat \ {0}
    BY <1>2
  <2> QED
    BY <1>1, <1>5, <1>6, <2>1, <2>2 DEF KeptInOrder
<1>10. NoneAhead'
  BY <1>1, <1>2 DEF SInv, NoneAhead
<1>11. ASSUME NEW i \in 0..Len(stream), NEW l \in Nat, Seen(list, stream, l, i) PROVE l < next
  <2>1. Len(stream) \in Nat
    BY DEF SInv, FeedTypes
  <2>2. Seen(list, stream, l, Len(stream))
    BY <1>11, <2>1 DEF Seen
  <2> QED
    BY <2>2 DEF SInv, NoneAhead
<1>12. NoHole'
  <2> SUFFICES ASSUME NEW i \in 0..Len(stream), NEW t \in Range(kept), NEW l \in Nat,
                      Seen(list, stream, l, i), t <= l
               PROVE  Seen(list, stream, t, i)
    BY <1>1 DEF NoHole
  <2>1. l < next
    BY <1>11
  <2>2. t \in Range(trades)
    BY <1>2, <1>7, <2>1
  <2> QED
    BY <2>2 DEF SInv, NoHole
<1>13. SentSeen'
  <2> SUFFICES ASSUME conn' # S!Closed
               PROVE  /\ conn'.sent < next + 1
                      /\ \A t \in Range(kept) : t <= conn'.sent => Seen(list, stream, t, Len(stream))
    BY <1>1 DEF SentSeen, S!Closed
  <2>1. conn # S!Closed /\ conn'.sent = conn.sent
    BY <1>1, ToldConnection
  <2>2. conn.sent \in Nat /\ conn.sent < next
    BY <2>1 DEF SInv, FeedTypes, Connection, SentSeen
  <2>3. ASSUME NEW t \in Range(kept), t <= conn.sent PROVE t \in Range(trades)
    BY <1>2, <1>7, <2>2, <2>3
  <2> QED
    BY <1>2, <2>1, <2>2, <2>3 DEF SInv, SentSeen
<1> QED
  BY <1>8, <1>9, <1>10, <1>12, <1>13 DEF SInv

LEMMA SeenAppended ==
    ASSUME NEW st \in Seq(Message), NEW m \in Message, NEW ls
    PROVE  /\ Append(st, m) \in Seq(Message) /\ Len(Append(st, m)) = Len(st) + 1
           /\ \A t : \A i \in 0..Len(st) : Seen(ls, Append(st, m), t, i) <=> Seen(ls, st, t, i)
           /\ \A t : Seen(ls, Append(st, m), t, Len(st) + 1)
                     <=> Seen(ls, st, t, Len(st)) \/ t \in Range(m.trades)
<1> DEFINE n == Len(st)
           new == Append(st, m)
<1>1. /\ new \in Seq(Message) /\ Len(new) = n + 1 /\ n \in Nat
      /\ \A i \in 1..n : new[i] = st[i]
      /\ new[n + 1] = m
  BY AppendProperties
<1>2. 1..(n + 1) = (1..n) \cup {n + 1} /\ \A i \in 0..n : \A j \in 1..i : j \in 1..n
  BY <1>1
<1> HIDE DEF n, new
<1>3. \A t : \A i \in 0..n : Seen(ls, new, t, i) <=> Seen(ls, st, t, i)
  BY <1>1, <1>2 DEF Seen
<1>4. \A t : Seen(ls, new, t, n + 1) <=> Seen(ls, st, t, n) \/ t \in Range(m.trades)
  BY <1>1, <1>2 DEF Seen
<1> QED
  BY <1>1, <1>3, <1>4 DEF n, new

LEMMA NewestIs ==
    ASSUME NEW s \in Seq(Nat)
    PROVE  /\ S!Newest(s) \in Nat
           /\ s # <<>> => S!Newest(s) \in Range(s) /\ S!Last(s) = S!Newest(s)
           /\ s = <<>> => S!Newest(s) = 0
<1>1. CASE s = <<>>
  BY <1>1 DEF S!Newest
<1>2. CASE s # <<>>
  <2>1. Len(s) \in 1..Len(s)
    BY <1>2
  <2>2. S!Newest(s) = s[Len(s)] /\ S!Last(s) = s[Len(s)]
    BY <1>2 DEF S!Newest, S!Last
  <2> QED
    BY <1>2, <2>1, <2>2, RangeIs
<1> QED
  BY <1>1, <1>2

\* A message of the oldest trades kept after id, put after those that are on their way, of
\* which everything up to id is listed or on its way already.
LEMMA MessageKeeps ==
    ASSUME SInv, NEW id \in Nat, NEW n \in Nat \ {0}, NEW st \in Seq(Message),
           Len(st) <= Len(stream), \A i \in 1..Len(st) : st[i] = stream[i],
           \A t \in Range(trades) : t <= id => Seen(list, st, t, Len(st)),
           stream' = Append(st, [agents |-> reported, trades |-> S!After(id, n)]),
           conn' \in Connection, conn' # S!Closed, id < next,
           conn'.sent = IF S!After(id, n) = <<>> THEN id ELSE S!Newest(S!After(id, n)),
           UNCHANGED <<pausing, reported, agents, trades, next, list, paused>>
    PROVE  SInv'
<1> DEFINE more == S!After(id, n)
           m == [agents |-> reported, trades |-> more]
           k == Len(st)
<1>1. trades \in Seq(Nat) /\ Rising(trades) /\ next \in Nat /\ \A t \in Range(trades) : t < next
  BY DEF SInv, KeptInOrder
<1>2. /\ more \in Seq(Nat)
      /\ \A l \in Range(more) : l \in Range(trades) /\ id < l
      /\ \A t \in Range(trades), l \in Range(more) : id < t /\ t <= l => t \in Range(more)
  BY <1>1, AfterIs
<1>3. \A t \in Range(trades) : t \in Nat
  BY <1>1 DEF Range
<1> HIDE DEF more
<1>4. m \in Message /\ m.trades = more
  BY <1>2 DEF SInv, FeedTypes, Message
<1>5. stream' = Append(st, m) /\ conn'.sent = IF more = <<>> THEN id ELSE S!Newest(more)
  BY DEF more
<1> HIDE DEF m
<1>6. /\ stream' \in Seq(Message) /\ Len(stream') = k + 1 /\ k \in Nat
      /\ \A t : \A i \in 0..k : Seen(list, stream', t, i) <=> Seen(list, st, t, i)
      /\ \A t : Seen(list, stream', t, k + 1) <=> Seen(list, st, t, k) \/ t \in Range(more)
  <2>1. /\ Append(st, m) \in Seq(Message) /\ Len(Append(st, m)) = Len(st) + 1
        /\ \A t : \A i \in 0..Len(st) : Seen(list, Append(st, m), t, i) <=> Seen(list, st, t, i)
    BY <1>4, SeenAppended
  <2>2. \A t : Seen(list, Append(st, m), t, Len(st) + 1)
               <=> Seen(list, st, t, Len(st)) \/ t \in Range(m.trades)
    BY <1>4, SeenAppended
  <2>3. k \in Nat
    OBVIOUS
  <2> QED
    BY <1>4, <1>5, <2>1, <2>2, <2>3
<1>7. \A t : \A i \in 0..k : Seen(list, st, t, i) <=> Seen(list, stream, t, i)
  <2>1. \A i \in 0..k : \A j \in 1..i : st[j] = stream[j]
    BY <1>6
  <2> QED
    BY <2>1 DEF Seen
<1>8. k \in 0..Len(stream) /\ \A i \in 0..k : i \in 0..Len(stream) /\ Len(stream) \in Nat
  BY <1>6 DEF SInv, FeedTypes
<1>9. ASSUME NEW t \in Range(trades), NEW l \in Nat, t <= l, l \in Range(more)
      PROVE  Seen(list, stream', t, k + 1)
  <2>1. CASE t <= id
    BY <1>6, <2>1
  <2>2. CASE ~(t <= id)
    BY <1>2, <1>3, <1>6, <1>9, <2>2
  <2> QED
    BY <2>1, <2>2
<1>10. NoHole'
  <2> SUFFICES ASSUME NEW i \in 0..(k + 1), NEW t \in Range(trades), NEW l \in Nat,
                      Seen(list, stream', l, i), t <= l
               PROVE  Seen(list, stream', t, i)
    BY <1>6 DEF NoHole
  <2>1. CASE i \in 0..k
    <3>1. Seen(list, stream, l, i)
      BY <1>6, <1>7, <2>1
    <3>2. Seen(list, stream, t, i)
      BY <1>8, <2>1, <3>1 DEF SInv, NoHole
    <3> QED
      BY <1>6, <1>7, <2>1, <3>2
  <2>2. CASE i = k + 1 /\ l \in Range(more)
    BY <1>9, <2>2
  <2>3. CASE i = k + 1 /\ l \notin Range(more)
    <3>1. Seen(list, stream, l, k) /\ k \in 0..k
      BY <1>6, <1>7, <2>3
    <3>2. Seen(list, stream, t, k)
      BY <1>8, <3>1 DEF SInv, NoHole
    <3> QED
      BY <1>6, <1>7, <2>3, <3>1, <3>2
  <2> QED
    BY <1>6, <2>1, <2>2, <2>3
<1>11. SentSeen'
  <2> SUFFICES /\ conn'.sent < next
               /\ \A t \in Range(trades) : t <= conn'.sent => Seen(list, stream', t, k + 1)
    BY <1>6 DEF SentSeen
  <2>1. CASE more = <<>>
    BY <1>5, <1>6, <2>1
  <2>2. CASE more # <<>>
    <3>1. conn'.sent \in Nat /\ conn'.sent \in Range(more)
      BY <1>2, <1>5, <2>2, NewestIs
    <3> QED
      BY <1>1, <1>2, <1>9, <3>1
  <2> QED
    BY <2>1, <2>2
<1>12. NoneAhead'
  <2> SUFFICES ASSUME NEW l \in Nat, Seen(list, stream', l, k + 1) PROVE l < next
    BY <1>6 DEF NoneAhead
  <2>1. CASE l \in Range(more)
    BY <1>1, <1>2, <2>1
  <2>2. CASE l \notin Range(more)
    <3>1. Seen(list, stream, l, k) /\ k \in 0..k
      BY <1>6, <1>7, <2>2
    <3>2. Seen(list, stream, l, Len(stream))
      BY <1>8, <3>1 DEF Seen
    <3> QED
      BY <3>2 DEF SInv, NoneAhead
  <2> QED
    BY <2>1, <2>2
<1>13. FeedTypes' /\ KeptInOrder'
  BY <1>6 DEF SInv, FeedTypes, KeptInOrder
<1> QED
  BY <1>10, <1>11, <1>12, <1>13 DEF SInv

LEMMA ConnectKeeps == ASSUME SInv, S!Connect PROVE SInv'
<1> DEFINE first == S!After(0, SnapshotLimit)
           m == [agents |-> reported, trades |-> first]
<1>1. /\ conn' = [step |-> "changed", dirty |-> TRUE, sent |-> S!Newest(first)]
      /\ stream' = <<m>>
      /\ UNCHANGED <<pausing, reported, agents, trades, next, list, paused>>
  BY DEF S!Connect, S!simulation, S!server, S!page
<1>2. SnapshotLimit \in Nat \ {0}
  BY PartsConstants DEF S!SimViewerConstants
<1>3. /\ trades \in Seq(Nat) /\ Rising(trades) /\ next \in Nat /\ 0 < next
      /\ \A t \in Range(trades) : 0 < t
  BY DEF SInv, KeptInOrder
<1>4. first \in Seq(Nat)
  BY <1>2, <1>3, AfterIs
<1>5. \A t \in Range(trades) : t \in Nat
  BY <1>3 DEF Range
<1> HIDE DEF m
<1>6. PICK st \in Seq(Message) : st = <<>> /\ Len(st) = 0 /\ Append(st, m) = <<m>>
  <2>1. <<>> \in Seq(Message) /\ Len(<<>>) = 0
    BY EmptySeq
  <2>2. Append(<<>>, m) = <<m>>
    OBVIOUS
  <2> QED
    BY <2>1, <2>2
<1>7. Len(stream) \in Nat
  BY DEF SInv, FeedTypes
<1>8. /\ Len(st) <= Len(stream) /\ \A i \in 1..Len(st) : st[i] = stream[i]
      /\ \A t \in Range(trades) : t <= 0 => Seen(list, st, t, Len(st))
  BY <1>3, <1>5, <1>6, <1>7
<1>9. /\ conn' \in Connection /\ conn' # S!Closed
      /\ conn'.sent = IF first = <<>> THEN 0 ELSE S!Newest(first)
  <2>1. S!Newest(first) \in Nat /\ (first = <<>> => S!Newest(first) = 0)
    BY <1>4, NewestIs
  <2> HIDE DEF first
  <2> QED
    BY <1>1, <2>1 DEF Connection, S!Closed
<1>10. stream' = Append(st, [agents |-> reported, trades |-> S!After(0, SnapshotLimit)])
  BY <1>1, <1>6 DEF m
<1> HIDE DEF first
<1> QED
  BY <1>1, <1>2, <1>3, <1>8, <1>9, <1>10, MessageKeeps DEF first

LEMMA PushKeeps == ASSUME SInv, S!Push PROVE SInv'
<1> DEFINE more == S!After(conn.sent, UpdateLimit)
<1>1. /\ conn.step = "push"
      /\ conn' = [conn EXCEPT !.step = "changed",
                              !.sent = IF more = <<>> THEN @ ELSE S!Last(more)]
      /\ stream' = Append(stream, [agents |-> reported, trades |-> more])
      /\ UNCHANGED <<pausing, reported, agents, trades, next, list, paused>>
  BY DEF S!Push, S!simulation, S!server, S!page
<1>2. UpdateLimit \in Nat \ {0}
  BY PartsConstants DEF S!SimViewerConstants
<1>3. conn \in Connection /\ conn # S!Closed
  BY <1>1, Open
<1>4. /\ conn.sent \in Nat /\ conn.sent < next
      /\ \A t \in Range(trades) : t <= conn.sent => Seen(list, stream, t, Len(stream))
  BY <1>3 DEF SInv, SentSeen, Connection
<1>5. trades \in Seq(Nat) /\ Rising(trades) /\ stream \in Seq(Message) /\ Len(stream) \in Nat
  BY DEF SInv, KeptInOrder, FeedTypes
<1>6. more \in Seq(Nat)
  BY <1>2, <1>4, <1>5, AfterIs
<1>7. /\ conn' \in Connection /\ conn' # S!Closed
      /\ conn'.sent = IF more = <<>> THEN conn.sent ELSE S!Newest(more)
  <2>1. S!Newest(more) \in Nat /\ (more # <<>> => S!Last(more) = S!Newest(more))
    BY <1>6, NewestIs
  <2> HIDE DEF more
  <2>2. conn' \in Connection /\ conn'.sent = IF more = <<>> THEN conn.sent ELSE S!Newest(more)
    BY <1>1, <1>3, <2>1 DEF Connection
  <2>3. conn' # S!Closed
    BY <2>2 DEF Connection, S!Closed
  <2> QED
    BY <2>2, <2>3
<1>8. Len(stream) <= Len(stream) /\ \A i \in 1..Len(stream) : stream[i] = stream[i]
  BY <1>5
<1> HIDE DEF more
<1> QED
  BY <1>1, <1>2, <1>4, <1>5, <1>7, <1>8, MessageKeeps DEF more

LEMMA LoseKeeps == ASSUME SInv, S!Lose PROVE SInv'
<1>1. /\ conn' = S!Closed /\ stream' = <<>>
      /\ UNCHANGED <<pausing, reported, agents, trades, next, list, paused>>
  BY DEF S!Lose, S!simulation, S!server, S!page
<1>2. <<>> \in Seq(Message) /\ Len(<<>>) = 0 /\ Len(stream) \in Nat
  BY DEF SInv, FeedTypes
<1>3. \A t : Seen(list, <<>>, t, 0) <=> Seen(list, stream, t, 0)
  BY DEF Seen
<1>4. NoHole'
  <2> SUFFICES ASSUME NEW t \in Range(trades), NEW l \in Nat, Seen(list, <<>>, l, 0), t <= l
               PROVE  Seen(list, <<>>, t, 0)
    BY <1>1, <1>2 DEF NoHole
  <2>1. 0 \in 0..Len(stream)
    BY <1>2
  <2> QED
    BY <1>3, <2>1 DEF SInv, NoHole
<1>5. NoneAhead'
  <2> SUFFICES ASSUME NEW l \in Nat, Seen(list, <<>>, l, 0) PROVE l < next
    BY <1>1, <1>2 DEF NoneAhead
  <2>1. Seen(list, stream, l, Len(stream))
    BY <1>2 DEF Seen
  <2> QED
    BY <2>1 DEF SInv, NoneAhead
<1> QED
  BY <1>1, <1>2, <1>4, <1>5 DEF SInv, FeedTypes, KeptInOrder, SentSeen, S!Closed

LEMMA ReceiveKeeps == ASSUME SInv, S!Receive PROVE SInv'
<1> DEFINE msg == Head(stream)
           n == Len(stream)
<1>1. /\ stream # <<>> /\ stream' = Tail(stream) /\ agents' = msg.agents
      /\ list' = S!With(list, msg.trades)
      /\ UNCHANGED <<pausing, reported, conn, trades, next, paused>>
  BY DEF S!Receive, S!simulation, S!server, SInv, FeedTypes
<1>2. /\ stream \in Seq(Message) /\ list \in Seq(Nat) /\ n \in Nat \ {0}
      /\ msg \in Message /\ msg = stream[1]
      /\ stream' \in Seq(Message) /\ Len(stream') = n - 1
      /\ \A i \in 1..(n - 1) : stream'[i] = stream[i + 1]
  BY <1>1, HeadTailProperties DEF SInv, FeedTypes
<1>3. /\ list' \in Seq(Nat)
      /\ \A x : x \in Range(list') <=> x \in Range(list) \/ x \in Range(msg.trades)
  BY <1>1, <1>2, WithIs DEF Message
<1> HIDE DEF msg, n
<1>4. ASSUME NEW t, NEW i \in 0..(n - 1)
      PROVE  Seen(list', stream', t, i) <=> Seen(list, stream, t, i + 1)
  <2>1. ASSUME Seen(list', stream', t, i) PROVE Seen(list, stream, t, i + 1)
    <3>1. CASE t \in Range(list)
      BY <3>1 DEF Seen
    <3>2. CASE t \in Range(msg.trades)
      <4>1. 1 \in 1..(i + 1)
        OBVIOUS
      <4> QED
        BY <1>2, <3>2, <4>1 DEF Seen
    <3>3. CASE \E j \in 1..i : t \in Range(stream'[j].trades)
      <4>1. PICK j \in 1..i : t \in Range(stream'[j].trades)
        BY <3>3
      <4>2. j + 1 \in 1..(i + 1) /\ stream'[j] = stream[j + 1]
        BY <1>2
      <4> QED
        BY <4>1, <4>2 DEF Seen
    <3> QED
      BY <1>3, <2>1, <3>1, <3>2, <3>3 DEF Seen
  <2>2. ASSUME Seen(list, stream, t, i + 1) PROVE Seen(list', stream', t, i)
    <3>1. CASE t \in Range(list)
      BY <1>3, <3>1 DEF Seen
    <3>2. CASE \E j \in 1..(i + 1) : t \in Range(stream[j].trades)
      <4>1. PICK j \in 1..(i + 1) : t \in Range(stream[j].trades)
        BY <3>2
      <4>2. CASE j = 1
        BY <1>2, <1>3, <4>1, <4>2 DEF Seen
      <4>3. CASE j # 1
        <5>1. j - 1 \in 1..i /\ j - 1 \in 1..(n - 1) /\ (j - 1) + 1 = j
          BY <1>2, <4>3
        <5>2. stream'[j - 1] = stream[j]
          BY <1>2, <5>1
        <5> QED
          BY <4>1, <5>1, <5>2 DEF Seen
      <4> QED
        BY <4>2, <4>3
    <3> QED
      BY <2>2, <3>1, <3>2 DEF Seen
  <2> QED
    BY <2>1, <2>2
<1>5. NoHole'
  <2> SUFFICES ASSUME NEW i \in 0..(n - 1), NEW t \in Range(trades), NEW l \in Nat,
                      Seen(list', stream', l, i), t <= l
               PROVE  Seen(list', stream', t, i)
    BY <1>1, <1>2 DEF NoHole
  <2>1. i + 1 \in 0..n
    BY <1>2
  <2>2. Seen(list, stream, l, i + 1)
    BY <1>4
  <2>3. Seen(list, stream, t, i + 1)
    BY <2>1, <2>2 DEF SInv, NoHole, n
  <2> QED
    BY <1>4, <2>3
<1>6. \A t : Seen(list', stream', t, n - 1) <=> Seen(list, stream, t, n)
  <2>1. n - 1 \in 0..(n - 1) /\ (n - 1) + 1 = n
    BY <1>2
  <2> QED
    BY <1>4, <2>1
<1>7. SentSeen' /\ NoneAhead'
  BY <1>1, <1>2, <1>6 DEF SInv, SentSeen, NoneAhead, n, S!Closed
<1>8. FeedTypes' /\ KeptInOrder'
  BY <1>1, <1>2, <1>3 DEF SInv, FeedTypes, KeptInOrder, Message
<1> QED
  BY <1>5, <1>7, <1>8 DEF SInv

LEMMA SimKeeps == SInv /\ [S!Next]_S!vars => SInv'
<1> SUFFICES ASSUME SInv, [S!Next]_S!vars PROVE SInv'
  OBVIOUS
<1>0. pausing \in Flags /\ reported \in Flags /\ agents \in Flags \cup {<<>>}
  BY DEF SInv, FeedTypes
<1>1. ASSUME NEW a \in Agents, S!Begin(a) \/ S!Report(a) \/ S!ToggleAgent(a) PROVE SInv'
  <2>1. CASE S!Begin(a)
    BY <1>0, <2>1, SimQuiet DEF S!Begin, S!server, S!socket, S!page
  <2>2. CASE S!Report(a)
    <3>1. /\ reported' = [reported EXCEPT ![a] = pausing[a]] /\ conn' = S!Told(conn)
          /\ UNCHANGED <<trades, next, list, stream, paused, pausing, agents>>
      BY <2>2 DEF S!Report, S!page
    <3>2. reported' \in Flags
      BY <1>0, <3>1 DEF Flags
    <3> QED
      BY <1>0, <3>1, <3>2, SimQuiet, ToldConnection
  <2>3. CASE S!ToggleAgent(a)
    <3>1. /\ a \in DOMAIN agents /\ agents' = [agents EXCEPT ![a] = ~@]
          /\ pausing' = [pausing EXCEPT ![a] = agents'[a]]
          /\ UNCHANGED <<reported, conn, trades, next, list, stream, paused>>
      BY <2>3 DEF S!ToggleAgent, S!server, S!socket
    <3>2. agents \in Flags
      BY <1>0, <3>1
    <3>3. agents' \in Flags
      BY <3>1, <3>2 DEF Flags
    <3>4. pausing' \in Flags
      BY <1>0, <3>1, <3>3 DEF Flags
    <3> QED
      BY <1>0, <3>1, <3>3, <3>4, SimQuiet
  <2> QED
    BY <1>1, <2>1, <2>2, <2>3
<1>2. CASE S!Changed
  <2>1. /\ conn.step = "changed" /\ conn' = [conn EXCEPT !.step = "push", !.dirty = FALSE]
        /\ UNCHANGED <<trades, next, list, stream, paused, pausing, reported, agents>>
    BY <1>2 DEF S!Changed, S!simulation, S!server, S!page
  <2>2. conn \in Connection /\ conn # S!Closed
    BY <2>1, Open
  <2>3. conn' \in Connection /\ conn'.sent = conn.sent
    BY <2>1, <2>2 DEF Connection
  <2> QED
    BY <1>0, <2>1, <2>2, <2>3, SimQuiet
<1>3. ~S!TogglePause
  BY PartsConstants DEF S!TogglePause
<1>4. CASE S!ToggleMute \/ S!Tick \/ S!Expire \/ UNCHANGED S!vars
  <2>1. UNCHANGED <<trades, next, list, stream, paused, pausing, reported, agents, conn>>
    BY <1>4 DEF S!ToggleMute, S!Tick, S!Expire, S!vars, S!simulation, S!server, S!socket, S!page
  <2> QED
    BY <1>0, <2>1, SimQuiet
<1> QED
  BY <1>1, <1>2, <1>3, <1>4, TradeKeeps, ConnectKeeps, PushKeeps, LoseKeeps, ReceiveKeeps
     DEF S!Next

LEMMA SimShows == SInv => S!NoGap
<1> SUFFICES ASSUME SInv, NEW i \in DOMAIN trades, list # <<>>, trades[i] <= S!Last(list)
             PROVE  S!Contains(list, trades[i])
  BY DEF S!NoGap
<1>1. /\ list \in Seq(Nat) /\ trades \in Seq(Nat) /\ Len(stream) \in Nat
  BY DEF SInv, FeedTypes, KeptInOrder
<1>2. trades[i] \in Range(trades) /\ Len(list) \in 1..Len(list) /\ 0 \in 0..Len(stream)
  BY <1>1 DEF Range
<1>3. S!Last(list) \in Range(list) /\ S!Last(list) \in Nat
  BY <1>1, <1>2, RangeIs DEF S!Last
<1>4. Seen(list, stream, S!Last(list), 0)
  BY <1>3 DEF Seen
<1>5. Seen(list, stream, trades[i], 0)
  BY <1>2, <1>3, <1>4 DEF SInv, NoHole
<1>6. trades[i] \in Range(list)
  BY <1>5 DEF Seen
<1>7. \E j \in 1..Len(list) : trades[i] = list[j]
  BY <1>1, <1>6, RangeIs
<1> QED
  BY <1>7 DEF S!Contains

\* The list of trades has no hole, across lost connections, limited messages and a server that
\* drops its oldest trades, however many agents and trades there are.
THEOREM ListsWithoutGap == S!Init /\ [][S!Next]_S!vars => []S!NoGap
BY SimInit, SimKeeps, SimShows, PTL

\* In the run as well.
THEOREM ScreensNoGap == MCSpec => []NoGap
<1>1. MCInit => S!Init
  BY DEF MCInit
<1>2. [MCNext]_<<part, historyVars, vendorVars, coopVars, feeVars, vars, simVars>>
      => [S!Next]_S!vars
  BY DEF MCNext, HistoryStep, VendorStep, CoopStep, FeeStep, ItemStep, SimStep, simVars,
         S!vars, S!simulation, S!server, S!socket, S!page, S!noted
<1>3. NoGap <=> S!NoGap
  BY DEF NoGap
<1> QED
  BY <1>1, <1>2, <1>3, ListsWithoutGap, PTL DEF MCSpec

-----------------------------------------------------------------------------
(* TxHistory. *)

PaidBlock == [givers : SUBSET Keys, receivers : SUBSET Keys, held : SUBSET Keys, known : SUBSET Keys]
ScanState == [step : H!Steps, held : SUBSET Keys, known : SUBSET Keys, to : Nat, from : Nat,
              new : SUBSET H!Records]

\* A record the chain bears out, with all the keys the device knew when the
\* block was recorded.
Borne(r, bs) ==
    /\ r.height \in 1..Len(bs)
    /\ r.direction = "sent" =>
          /\ r.keys # {} /\ r.keys \subseteq bs[r.height].givers
          /\ bs[r.height].givers \cap bs[r.height].known \subseteq r.keys
    /\ r.direction = "received" => \E k \in bs[r.height].receivers : r.keys = {k}

\* R has a record for whatever the device could tell of block h.
Has(R, bs, h) ==
    /\ bs[h].receivers \cap bs[h].held # {} =>
          \E r \in R : r.height = h /\ r.direction = "received"
    /\ bs[h].givers \cap bs[h].known # {} =>
          \E r \in R : r.height = h /\ r.direction = "sent"

\* A scan in its middle has, with what is stored, everything up to where it is, and has read
\* the keys after the height it scans to.
ScanTrue(s, st, bs) ==
    /\ s \in ScanState /\ s.to <= Len(bs)
    /\ \A r \in s.new : Borne(r, bs)
    /\ s.step \in {"keys", "fetch"} => s.from < s.to /\ \A h \in 1..s.from : Has(st \cup s.new, bs, h)
    /\ s.step = "save" => \A h \in 1..s.to : Has(st \cup s.new, bs, h)
    /\ s.step \in {"fetch", "save"} =>
          \A h \in 1..s.to : bs[h].held \subseteq s.held /\ bs[h].known \subseteq s.known

ChainTrue ==
    /\ blocks \in Seq(PaidBlock) /\ held \in SUBSET Keys /\ known \in SUBSET Keys
    /\ \A h \in 1..Len(blocks) :
          /\ blocks[h].held \subseteq held /\ blocks[h].known \subseteq known
          /\ \A j, k \in blocks[h].receivers : j = k
TableTrue ==
    /\ stored \in SUBSET H!Records /\ \A r \in stored : Borne(r, blocks)
    /\ cursor \in 0..Len(blocks) /\ \A h \in 1..cursor : Has(stored, blocks, h)
ScansTrue ==
    /\ view = [v \in Reports |-> view[v]]
    /\ \A v \in Reports : ScanTrue(view[v], stored, blocks)

HInv == ChainTrue /\ TableTrue /\ ScansTrue

\* A scan that does nothing is true of every table and chain.
LEMMA QuietTrue ==
    ASSUME NEW st, NEW bs \in Seq(PaidBlock)
    PROVE  /\ ScanTrue(H!Quiet, st, bs)
           /\ ScanTrue([H!Quiet EXCEPT !.step = "info"], st, bs)
<1>1. Len(bs) \in Nat
  OBVIOUS
<1> QED
  BY <1>1 DEF ScanTrue, ScanState, H!Quiet, H!Steps

LEMMA HistoryInit == H!Init => HInv
<1> SUFFICES ASSUME H!Init PROVE HInv
  OBVIOUS
<1>1. /\ blocks = <<>> /\ held \in SUBSET Keys /\ known = {} /\ stored = {} /\ cursor = 0
      /\ view = [v \in Reports |-> H!Quiet]
  BY DEF H!Init, H!Views
<1>2. blocks \in Seq(PaidBlock) /\ Len(blocks) = 0
  BY <1>1, EmptySeq
<1>3. ChainTrue /\ TableTrue
  BY <1>1, <1>2 DEF ChainTrue, TableTrue
<1>4. ScansTrue
  BY <1>1, <1>2, QuietTrue DEF ScansTrue
<1> QED
  BY <1>3, <1>4 DEF HInv

\* Longer chains and fuller tables leave everything true.
LEMMA ChainGrows ==
    ASSUME NEW bs \in Seq(PaidBlock), NEW cs \in Seq(PaidBlock), Starts(bs, cs)
    PROVE  /\ \A r : Borne(r, bs) => Borne(r, cs)
           /\ \A R : \A h \in 1..Len(bs) : Has(R, bs, h) => Has(R, cs, h)
           /\ \A s, st : ScanTrue(s, st, bs) => ScanTrue(s, st, cs)
<1>1. Len(bs) \in Nat /\ Len(cs) \in Nat /\ Len(bs) <= Len(cs) /\ \A i \in 1..Len(bs) : bs[i] = cs[i]
  BY DEF Starts
<1>2. \A r : Borne(r, bs) => Borne(r, cs)
  BY <1>1 DEF Borne
<1>3. \A R : \A h \in 1..Len(bs) : Has(R, bs, h) => Has(R, cs, h)
  BY <1>1 DEF Has
<1>4. ASSUME NEW s, NEW st, ScanTrue(s, st, bs) PROVE ScanTrue(s, st, cs)
  <2>1. s \in ScanState /\ s.to <= Len(bs) /\ s.to \in Nat /\ s.from \in Nat
    BY <1>4 DEF ScanTrue, ScanState
  <2>2. s.to <= Len(cs) /\ \A h \in 1..s.to : h \in 1..Len(bs) /\ bs[h] = cs[h]
    BY <1>1, <2>1
  <2>3. s.from < s.to => \A h \in 1..s.from : h \in 1..Len(bs)
    BY <1>1, <2>1
  <2> QED
    BY <1>2, <1>3, <1>4, <2>1, <2>2, <2>3 DEF ScanTrue
<1> QED
  BY <1>2, <1>3, <1>4

LEMMA TableGrows ==
    ASSUME NEW st, NEW tt, \A r \in st : \E q \in tt : q.height = r.height /\ q.direction = r.direction,
           NEW bs
    PROVE  /\ \A h : Has(st, bs, h) => Has(tt, bs, h)
           /\ \A s : ScanTrue(s, st, bs) => ScanTrue(s, tt, bs)
<1>1. \A h : Has(st, bs, h) => Has(tt, bs, h)
  BY DEF Has
<1>2. ASSUME NEW s, NEW h, Has(st \cup s.new, bs, h) PROVE Has(tt \cup s.new, bs, h)
  <2>1. \A r \in st \cup s.new : \E q \in tt \cup s.new : q.height = r.height /\ q.direction = r.direction
    OBVIOUS
  <2> QED
    BY <1>2, <2>1 DEF Has
<1> QED
  BY <1>1, <1>2 DEF ScanTrue

-----------------------------------------------------------------------------
(* The chain and the keys. *)

LEMMA RecordKeeps ==
    ASSUME HInv, NEW givers \in SUBSET Keys, NEW receivers \in SUBSET Keys, H!Record(givers, receivers)
    PROVE  HInv'
<1> DEFINE b == [givers |-> givers, receivers |-> receivers, held |-> held, known |-> known]
           n == Len(blocks)
<1>0. /\ IsFiniteSet(Keys)
      /\ Cardinality(receivers) <= 1
  BY PartsConstants DEF H!Record, H!TxHistoryConstants, H!Cardinality, Cardinality, H!IsFiniteSet,
     IsFiniteSet
<1>1. blocks' = Append(blocks, b) /\ UNCHANGED <<held, known, stored, cursor, view>>
  BY DEF H!Record, H!wallet, H!cache
<1>2. blocks \in Seq(PaidBlock) /\ b \in PaidBlock /\ n \in Nat
  BY DEF HInv, ChainTrue, PaidBlock
<1>3. \A j, k \in receivers : j = k
  <2>1. IsFiniteSet(receivers)
    BY <1>0, FS_Subset
  <2>2. Cardinality(receivers) = 0 \/ Cardinality(receivers) = 1
    BY <1>0, <2>1, FS_CardinalityType
  <2>3. receivers = {} \/ \E x : receivers = {x}
    BY <2>1, <2>2, FS_EmptySet, FS_Singleton
  <2> QED
    BY <2>3
<1>4. b.held = held /\ b.known = known /\ b.receivers = receivers
  OBVIOUS
<1> HIDE DEF b
<1>5. /\ blocks' \in Seq(PaidBlock) /\ Len(blocks') = n + 1 /\ blocks'[n + 1] = b
      /\ \A i \in 1..n : blocks'[i] = blocks[i]
  BY <1>1, <1>2, AppendProperties
<1>6. Starts(blocks, blocks')
  BY <1>2, <1>5 DEF Starts
<1>7. ChainTrue'
  <2>1. \A h \in 1..(n + 1) : h \in 1..n \/ h = n + 1
    BY <1>2
  <2> QED
    BY <1>1, <1>3, <1>4, <1>5, <2>1 DEF HInv, ChainTrue
<1>8. TableTrue'
  <2>1. cursor \in 0..(n + 1) /\ \A h \in 1..cursor : h \in 1..n
    BY <1>2 DEF HInv, TableTrue
  <2> QED
    BY <1>1, <1>2, <1>5, <1>6, <2>1, ChainGrows DEF HInv, TableTrue
<1>9. ScansTrue'
  BY <1>1, <1>2, <1>5, <1>6, ChainGrows DEF HInv, ScansTrue
<1> QED
  BY <1>7, <1>8, <1>9 DEF HInv

LEMMA KeyKeeps == ASSUME HInv, NEW k \in Keys, H!importKeyIfNew(k) PROVE HInv'
<1>1. /\ held' = held \cup {k} /\ known' \in {known, known \cup {k}}
      /\ UNCHANGED <<blocks, stored, cursor, view>>
  BY DEF H!importKeyIfNew, H!cache
<1> QED
  BY <1>1 DEF HInv, ChainTrue, TableTrue, ScansTrue

-----------------------------------------------------------------------------
(* A scan. *)

\* A step of one scan that leaves the chain, the keys and the table.
LEMMA ScanKept ==
    ASSUME HInv, UNCHANGED <<blocks, held, known, stored, cursor>>, NEW v \in Reports, NEW s,
           ScanTrue(s, stored, blocks), H!Step(v, s)
    PROVE  HInv'
<1>1. /\ view' = [w \in Reports |-> view'[w]] /\ view'[v] = s
      /\ \A w \in Reports : w # v => view'[w] = view[w]
  BY DEF HInv, ScansTrue, H!Step
<1> QED
  BY <1>1 DEF HInv, ChainTrue, TableTrue, ScansTrue

LEMMA ScanIs ==
    ASSUME HInv, NEW v \in Reports
    PROVE  ScanTrue(view[v], stored, blocks) /\ view[v] \in ScanState /\ blocks \in Seq(PaidBlock)
BY DEF HInv, ScansTrue, ScanTrue, ChainTrue

LEMMA StartKeeps == ASSUME HInv, NEW v \in Reports, H!Start(v) \/ H!Fail(v) PROVE HInv'
<1>1. /\ H!Step(v, H!Quiet) \/ H!Step(v, [H!Quiet EXCEPT !.step = "info"])
      /\ UNCHANGED <<blocks, held, known, stored, cursor>>
  BY DEF H!Start, H!Fail, H!wallet, H!cache
<1> QED
  BY <1>1, ScanIs, QuietTrue, ScanKept

LEMMA HeightKeeps == ASSUME HInv, NEW v \in Reports, H!ReadHeight(v) PROVE HInv'
<1> DEFINE s == view[v]
           t == [s EXCEPT !.step = "cursor", !.to = Len(blocks)]
<1>1. H!Step(v, t) /\ UNCHANGED <<blocks, held, known, stored, cursor>>
  BY DEF H!ReadHeight, H!Height, H!wallet, H!cache
<1>2. s \in ScanState /\ (\A r \in s.new : Borne(r, blocks)) /\ Len(blocks) \in Nat
  <2>1. ScanTrue(s, stored, blocks) /\ blocks \in Seq(PaidBlock)
    BY ScanIs
  <2> HIDE DEF s
  <2> QED
    BY <2>1 DEF ScanTrue
<1> HIDE DEF s
<1>3. t \in ScanState /\ t.step = "cursor" /\ t.to = Len(blocks) /\ t.new = s.new
  BY <1>2 DEF ScanState, H!Steps
<1> HIDE DEF t
<1>4. ScanTrue(t, stored, blocks)
  BY <1>2, <1>3 DEF ScanTrue
<1> QED
  BY <1>1, <1>4, ScanKept

LEMMA CursorKeeps == ASSUME HInv, NEW v \in Reports, H!ReadCursor(v) PROVE HInv'
<1> DEFINE s == view[v]
           t == [s EXCEPT !.step = "keys", !.from = cursor]
<1>1. /\ \/ cursor < s.to /\ H!Step(v, t)
         \/ H!Step(v, H!Quiet)
      /\ UNCHANGED <<blocks, held, known, stored, cursor>>
  BY DEF H!ReadCursor, H!Behind, H!wallet, H!cache
<1>2. s \in ScanState /\ s.to <= Len(blocks) /\ \A r \in s.new : Borne(r, blocks)
  BY ScanIs DEF ScanTrue
<1>3. cursor \in Nat /\ \A h \in 1..cursor : Has(stored, blocks, h)
  BY DEF HInv, TableTrue
<1>4. ASSUME NEW h \in 1..cursor PROVE Has(stored \cup s.new, blocks, h)
  BY <1>3 DEF Has
<1> HIDE DEF s
<1>5. t \in ScanState /\ t.step = "keys" /\ t.to = s.to /\ t.new = s.new /\ t.from = cursor
  BY <1>2, <1>3 DEF ScanState, H!Steps
<1> HIDE DEF t
<1>6. cursor < s.to => ScanTrue(t, stored, blocks)
  BY <1>2, <1>4, <1>5 DEF ScanTrue
<1> QED
  BY <1>1, <1>6, ScanIs, QuietTrue, ScanKept

LEMMA KeysKeep == ASSUME HInv, NEW v \in Reports, H!ReadKeys(v) PROVE HInv'
<1> DEFINE s == view[v]
           t == [s EXCEPT !.step = "fetch", !.held = held, !.known = known]
<1>1. s.step = "keys" /\ H!Step(v, t) /\ UNCHANGED <<blocks, held, known, stored, cursor>>
  BY DEF H!ReadKeys, H!wallet, H!cache
<1>2. /\ s \in ScanState /\ s.to <= Len(blocks) /\ s.to \in Nat /\ Len(blocks) \in Nat
      /\ \A r \in s.new : Borne(r, blocks)
      /\ s.from < s.to /\ \A h \in 1..s.from : Has(stored \cup s.new, blocks, h)
  <2>1. ScanTrue(s, stored, blocks) /\ blocks \in Seq(PaidBlock)
    BY ScanIs
  <2>2. s.step = "keys"
    BY <1>1
  <2> HIDE DEF s
  <2>3. s \in ScanState /\ s.to <= Len(blocks) /\ \A r \in s.new : Borne(r, blocks)
    BY <2>1 DEF ScanTrue
  <2>4. s.from < s.to
    BY <2>1, <2>2 DEF ScanTrue
  <2>5. \A h \in 1..s.from : Has(stored \cup s.new, blocks, h)
    BY <2>1, <2>2 DEF ScanTrue
  <2>6. s.to \in Nat /\ Len(blocks) \in Nat
    BY <2>1, <2>3 DEF ScanState
  <2> QED
    BY <2>3, <2>4, <2>5, <2>6
<1>3. \A h \in 1..s.to : blocks[h].held \subseteq held /\ blocks[h].known \subseteq known
  BY <1>2 DEF HInv, ChainTrue
<1>4. held \in SUBSET Keys /\ known \in SUBSET Keys
  BY DEF HInv, ChainTrue
<1> HIDE DEF s
<1>5. /\ t \in ScanState /\ t.step = "fetch" /\ t.to = s.to /\ t.new = s.new /\ t.from = s.from
      /\ t.held = held /\ t.known = known
  BY <1>2, <1>4 DEF ScanState, H!Steps
<1> HIDE DEF t
<1>6. ScanTrue(t, stored, blocks)
  BY <1>2, <1>3, <1>5 DEF ScanTrue
<1> QED
  BY <1>1, <1>6, ScanKept

LEMMA Smaller2 ==
    ASSUME NEW a \in Int, NEW b \in Int
    PROVE  H!Min({a, b}) \in {a, b} /\ H!Min({a, b}) <= a /\ H!Min({a, b}) <= b
<1>1. \E x \in {a, b} : \A y \in {a, b} : x <= y
  OBVIOUS
<1> QED
  BY <1>1 DEF H!Min

\* What a scan reads of one block.
LEMMA ParsedTrue ==
    ASSUME NEW s \in ScanState, NEW bs \in Seq(PaidBlock), NEW h \in 1..Len(bs),
           bs[h].held \subseteq s.held, bs[h].known \subseteq s.known
    PROVE  /\ H!Parsed(s, bs[h], h) \subseteq H!Records
           /\ \A r \in H!Parsed(s, bs[h], h) : Borne(r, bs)
           /\ Has(H!Parsed(s, bs[h], h), bs, h)
<1> DEFINE b == bs[h]
           sent == [height |-> h, direction |-> "sent", keys |-> b.givers \cap s.known]
           Got(k) == [height |-> h, direction |-> "received", keys |-> {k}]
           P == H!Parsed(s, b, h)
<1>0. bs[h] \in PaidBlock /\ h \in Nat /\ Len(bs) \in Nat
  OBVIOUS
<1>1. /\ b \in PaidBlock /\ h \in Nat /\ Len(bs) \in Nat
      /\ b.givers \in SUBSET Keys /\ b.receivers \in SUBSET Keys
  BY <1>0 DEF PaidBlock
<1>2. \A r : r \in P <=> \/ r = sent /\ sent.keys # {}
                         \/ \E k \in b.receivers \cap s.held : r = Got(k)
  BY DEF H!Parsed
<1> HIDE DEF P
<1>3. ASSUME NEW r \in P PROVE r \in H!Records /\ Borne(r, bs)
  <2>1. CASE r = sent /\ sent.keys # {}
    <3>1. r.height = h /\ r.direction = "sent" /\ r.keys = b.givers \cap s.known /\ r.keys # {}
      BY <2>1
    <3>2. r \in H!Records
      BY <1>1, <2>1 DEF H!Records
    <3>3. Borne(r, bs)
      BY <1>1, <3>1 DEF Borne
    <3> QED
      BY <3>2, <3>3
  <2>2. CASE \E k \in b.receivers \cap s.held : r = Got(k)
    <3>1. PICK k \in b.receivers \cap s.held : r = Got(k)
      BY <2>2
    <3>2. r.height = h /\ r.direction = "received" /\ r.keys = {k} /\ k \in Keys
      BY <1>1, <3>1
    <3>3. r \in H!Records
      BY <1>1, <3>1, <3>2 DEF H!Records
    <3>4. Borne(r, bs)
      BY <1>1, <3>1, <3>2 DEF Borne
    <3> QED
      BY <3>3, <3>4
  <2> QED
    BY <1>2, <2>1, <2>2
<1>4. ASSUME NEW k \in b.receivers \cap b.held
      PROVE  \E r \in P : r.height = h /\ r.direction = "received"
  <2>1. Got(k) \in P /\ Got(k).height = h /\ Got(k).direction = "received"
    BY <1>2
  <2> QED
    BY <2>1
<1>5. ASSUME NEW k \in b.givers \cap b.known
      PROVE  \E r \in P : r.height = h /\ r.direction = "sent"
  <2>1. sent.keys # {}
    OBVIOUS
  <2>2. sent \in P /\ sent.height = h /\ sent.direction = "sent"
    BY <1>2, <2>1
  <2> QED
    BY <2>2
<1>6. Has(P, bs, h)
  BY <1>4, <1>5 DEF Has
<1> QED
  BY <1>3, <1>6 DEF P

LEMMA FetchKeeps == ASSUME HInv, NEW v \in Reports, H!Fetch(v) PROVE HInv'
<1> DEFINE s == view[v]
           to == H!Min({s.from + Batch, s.to})
           more == H!parseBlocks(s, to)
           next_step == IF s.from + Batch < s.to THEN "fetch" ELSE "save"
           t == [s EXCEPT !.new = @ \cup more, !.from = @ + Batch, !.step = next_step]
<1>1. s.step = "fetch" /\ H!Step(v, t) /\ UNCHANGED <<blocks, held, known, stored, cursor>>
  BY DEF H!Fetch, H!wallet, H!cache
<1>2. Batch \in Nat \ {0}
  BY PartsConstants DEF H!TxHistoryConstants
<1>3. ScanTrue(s, stored, blocks) /\ blocks \in Seq(PaidBlock) /\ Len(blocks) \in Nat
  BY ScanIs
<1> HIDE DEF s
<1>4. /\ s \in ScanState /\ s.to \in Nat /\ s.from \in Nat /\ s.to <= Len(blocks)
      /\ s.new \in SUBSET H!Records
  BY <1>3 DEF ScanTrue, ScanState
<1>5. s.from < s.to /\ \A r \in s.new : Borne(r, blocks)
  BY <1>1, <1>3 DEF ScanTrue
<1>6. \A h \in 1..s.from : Has(stored \cup s.new, blocks, h)
  BY <1>1, <1>3 DEF ScanTrue
<1>7. \A h \in 1..s.to : blocks[h].held \subseteq s.held /\ blocks[h].known \subseteq s.known
  BY <1>1, <1>3 DEF ScanTrue
<1>8. to \in Nat /\ to <= s.to /\ to <= s.from + Batch /\ (to = s.to \/ to = s.from + Batch)
  <2>1. s.from + Batch \in Int /\ s.to \in Int
    BY <1>2, <1>4
  <2>2. /\ H!Min({s.from + Batch, s.to}) \in {s.from + Batch, s.to}
        /\ H!Min({s.from + Batch, s.to}) <= s.from + Batch
        /\ H!Min({s.from + Batch, s.to}) <= s.to
    BY <2>1, Smaller2
  <2>3. to \in {s.from + Batch, s.to} /\ to <= s.from + Batch /\ to <= s.to
    BY <2>2 DEF to
  <2> HIDE DEF to
  <2> QED
    BY <1>2, <1>4, <2>3
<1> HIDE DEF to
<1>9. \A r : r \in more <=> \E h \in (s.from..to) \cap (1..Len(blocks)) : r \in H!Parsed(s, blocks[h], h)
  <2>1. DOMAIN blocks = 1..Len(blocks)
    BY <1>3
  <2> QED
    BY <2>1 DEF H!parseBlocks
<1> HIDE DEF more
<1>10. ASSUME NEW h \in (s.from..to) \cap (1..Len(blocks))
       PROVE  /\ H!Parsed(s, blocks[h], h) \subseteq H!Records
              /\ \A r \in H!Parsed(s, blocks[h], h) : Borne(r, blocks)
              /\ Has(H!Parsed(s, blocks[h], h), blocks, h)
  <2>1. h \in 1..s.to /\ h \in 1..Len(blocks)
    BY <1>4, <1>8
  <2> QED
    BY <1>3, <1>4, <1>7, <2>1, ParsedTrue
<1>11. more \subseteq H!Records /\ \A r \in more : Borne(r, blocks)
  BY <1>9, <1>10
<1>12. ASSUME NEW h \in 1..to PROVE Has(stored \cup (s.new \cup more), blocks, h)
  <2>1. CASE h \in 1..s.from
    <3>1. Has(stored \cup s.new, blocks, h)
      BY <1>6, <2>1
    <3> QED
      BY <3>1 DEF Has
  <2>2. CASE h \notin 1..s.from
    <3>1. h \in (s.from..to) \cap (1..Len(blocks))
      BY <1>4, <1>8, <2>2
    <3>2. H!Parsed(s, blocks[h], h) \subseteq more /\ Has(H!Parsed(s, blocks[h], h), blocks, h)
      BY <1>9, <1>10, <3>1
    <3> QED
      BY <3>2 DEF Has
  <2> QED
    BY <2>1, <2>2
<1>13. /\ t \in ScanState /\ t.to = s.to /\ t.from = s.from + Batch /\ t.new = s.new \cup more
       /\ t.held = s.held /\ t.known = s.known
       /\ t.step = next_step
  <2>1. next_step \in {"fetch", "save"}
    OBVIOUS
  <2> HIDE DEF next_step
  <2>2. /\ s.from + Batch \in Nat /\ s.new \cup more \in SUBSET H!Records
        /\ s.held \in SUBSET Keys /\ s.known \in SUBSET Keys /\ s.to \in Nat
    BY <1>2, <1>4, <1>11 DEF ScanState
  <2>3. t = [step |-> next_step, held |-> s.held, known |-> s.known, to |-> s.to,
             from |-> s.from + Batch, new |-> s.new \cup more]
    <3>1. s = [step |-> s.step, held |-> s.held, known |-> s.known, to |-> s.to,
               from |-> s.from, new |-> s.new]
      BY <1>4 DEF ScanState
    <3> DEFINE u == [s EXCEPT !.new = s.new \cup more]
               w == [u EXCEPT !.from = s.from + Batch]
    <3>2. t = [w EXCEPT !.step = next_step]
      OBVIOUS
    <3>3. u = [step |-> s.step, held |-> s.held, known |-> s.known, to |-> s.to,
               from |-> s.from, new |-> s.new \cup more]
      BY <3>1
    <3> HIDE DEF u, t
    <3>4. w = [step |-> s.step, held |-> s.held, known |-> s.known, to |-> s.to,
               from |-> s.from + Batch, new |-> s.new \cup more]
      BY <3>3
    <3> HIDE DEF w
    <3> QED
      BY <3>2, <3>4
  <2> HIDE DEF t
  <2>4. t \in ScanState
    BY <2>1, <2>2, <2>3 DEF ScanState, H!Steps
  <2> QED
    BY <2>3, <2>4
<1> HIDE DEF t
<1>14. /\ t.step = "fetch" => t.from < t.to /\ t.from = to
       /\ t.step = "save" => t.to = to
       /\ t.step \in {"fetch", "save"}
  BY <1>2, <1>4, <1>8, <1>13
<1>15. ScanTrue(t, stored, blocks)
  <2>1. \A r \in t.new : Borne(r, blocks)
    BY <1>5, <1>11, <1>13
  <2>2. t.step = "fetch" => t.from < t.to /\ \A h \in 1..t.from : Has(stored \cup t.new, blocks, h)
    BY <1>12, <1>13, <1>14
  <2>3. t.step = "save" => \A h \in 1..t.to : Has(stored \cup t.new, blocks, h)
    BY <1>12, <1>13, <1>14
  <2>4. \A h \in 1..t.to : blocks[h].held \subseteq t.held /\ blocks[h].known \subseteq t.known
    BY <1>7, <1>13
  <2>5. t \in ScanState /\ t.to <= Len(blocks) /\ t.step # "keys"
    BY <1>4, <1>13, <1>14
  <2> QED
    BY <2>1, <2>2, <2>3, <2>4, <2>5 DEF ScanTrue
<1> QED
  BY <1>1, <1>15, ScanKept

\* A put leaves no record without one of its key.
LEMMA PutKeeps ==
    ASSUME NEW new, H!Put(new)
    PROVE  /\ stored' \subseteq stored \cup new
           /\ \A r \in stored \cup new : \E q \in stored' :
                  q.height = r.height /\ q.direction = r.direction
<1>1. PICK last \in SUBSET new :
          /\ \A r \in new : \E q \in last : H!SameKey(q, r)
          /\ stored' = {r \in stored : \A q \in new : ~H!SameKey(q, r)} \cup last
  BY DEF H!Put
<1>2. \A r \in new : \E q \in stored' : H!SameKey(q, r)
  BY <1>1
<1>3. ASSUME NEW r \in stored PROVE \E q \in stored' : H!SameKey(q, r)
  <2>1. CASE \A q \in new : ~H!SameKey(q, r)
    BY <1>1, <2>1 DEF H!SameKey
  <2>2. CASE \E q \in new : H!SameKey(q, r)
    <3>1. PICK q \in new : H!SameKey(q, r)
      BY <2>2
    <3>2. PICK p \in stored' : H!SameKey(p, q)
      BY <1>2
    <3> QED
      BY <3>1, <3>2 DEF H!SameKey
  <2> QED
    BY <2>1, <2>2
<1> QED
  BY <1>1, <1>2, <1>3 DEF H!SameKey

LEMMA SaveKeeps == ASSUME HInv, NEW v \in Reports, H!Save(v) PROVE HInv'
<1> DEFINE s == view[v]
           new == s.new
<1>1. /\ s.step = "save" /\ H!Put(new) /\ cursor' = s.to /\ H!Step(v, H!Quiet)
      /\ UNCHANGED <<blocks, held, known>>
  BY DEF H!Save, H!Saves, H!Saved, H!wallet
<1>2. ScanTrue(s, stored, blocks) /\ blocks \in Seq(PaidBlock) /\ Len(blocks) \in Nat
  BY ScanIs
<1> HIDE DEF s
<1>3. s.to \in Nat /\ s.to <= Len(blocks) /\ new \in SUBSET H!Records
  BY <1>2 DEF ScanTrue, ScanState
<1>4. \A r \in new : Borne(r, blocks)
  BY <1>2 DEF ScanTrue
<1>5. \A h \in 1..s.to : Has(stored \cup new, blocks, h)
  BY <1>1, <1>2 DEF ScanTrue
<1> HIDE DEF new
<1>6. /\ stored' \subseteq stored \cup new
      /\ \A r \in stored \cup new : \E q \in stored' : q.height = r.height /\ q.direction = r.direction
  BY <1>1, PutKeeps
<1>7. \A h \in 1..s.to : Has(stored', blocks, h)
  BY <1>5, <1>6, TableGrows
<1>8. TableTrue'
  <2>1. stored' \in SUBSET H!Records /\ \A r \in stored' : Borne(r, blocks)
    BY <1>3, <1>4, <1>6 DEF HInv, TableTrue
  <2> QED
    BY <1>1, <1>3, <1>7, <2>1 DEF TableTrue
<1>9. ASSUME NEW x, ScanTrue(x, stored, blocks) PROVE ScanTrue(x, stored', blocks)
  <2>1. \A r \in stored : \E q \in stored' : q.height = r.height /\ q.direction = r.direction
    BY <1>6
  <2> QED
    BY <1>9, <2>1, TableGrows
<1>10. ScansTrue'
  <2>1. /\ view' = [w \in Reports |-> view'[w]] /\ view'[v] = H!Quiet
        /\ \A w \in Reports : w # v => view'[w] = view[w]
    BY <1>1 DEF HInv, ScansTrue, H!Step
  <2>2. ScanTrue(H!Quiet, stored', blocks)
    BY <1>2, QuietTrue
  <2> QED
    BY <1>1, <1>9, <2>1, <2>2 DEF HInv, ScansTrue
<1>11. ChainTrue'
  BY <1>1 DEF HInv, ChainTrue
<1> QED
  BY <1>8, <1>10, <1>11 DEF HInv

LEMMA HistoryKeeps == HInv /\ [H!Next]_H!vars => HInv'
<1> SUFFICES ASSUME HInv, [H!Next]_H!vars PROVE HInv'
  OBVIOUS
<1>1. CASE H!Select \/ UNCHANGED H!vars
  <2>1. UNCHANGED <<blocks, held, known, stored, cursor, view>>
    BY <1>1 DEF H!Select, H!vars, H!wallet, H!cache
  <2> QED
    BY <2>1 DEF HInv, ChainTrue, TableTrue, ScansTrue
<1>2. H!Views = Reports
  BY DEF H!Views
<1>3. ASSUME NEW v \in Reports, H!Scan(v) \/ H!Fail(v) PROVE HInv'
  BY <1>3, StartKeeps, HeightKeeps, CursorKeeps, KeysKeep, FetchKeeps, SaveKeeps DEF H!Scan
<1> QED
  BY <1>1, <1>2, <1>3, RecordKeeps, KeyKeeps DEF H!Next

LEMMA HistoryShows == HInv => H!Sound /\ H!Complete
<1> SUFFICES ASSUME HInv PROVE H!Sound /\ H!Complete
  OBVIOUS
<1>1. /\ blocks \in Seq(PaidBlock) /\ DOMAIN blocks = 1..Len(blocks) /\ Len(blocks) \in Nat
      /\ \A h \in 1..Len(blocks) : \A j, k \in blocks[h].receivers : j = k
      /\ stored \in SUBSET H!Records /\ \A r \in stored : Borne(r, blocks)
  BY DEF HInv, ChainTrue, TableTrue
<1>2. H!Sound
  <2> SUFFICES ASSUME NEW r \in stored
               PROVE  /\ r.height \in 1..Len(blocks) /\ r.keys # {}
                      /\ r.keys \subseteq IF r.direction = "sent" THEN blocks[r.height].givers
                                          ELSE blocks[r.height].receivers
    BY <1>1 DEF H!Sound
  <2>1. Borne(r, blocks) /\ r.direction \in {"sent", "received"}
    BY <1>1 DEF H!Records
  <2> QED
    BY <2>1 DEF Borne
<1>3. H!Complete
  <2> SUFFICES ASSUME NEW h \in 1..cursor
               PROVE  /\ \A k \in blocks[h].receivers \cap blocks[h].held :
                            [height |-> h, direction |-> "received", keys |-> {k}] \in stored
                      /\ LET mine == blocks[h].givers \cap blocks[h].known
                         IN mine = {} \/ \E r \in stored : /\ r.height = h /\ r.direction = "sent"
                                                          /\ mine \subseteq r.keys
    BY DEF H!Complete
  <2>1. Has(stored, blocks, h) /\ h \in 1..Len(blocks)
    BY <1>1 DEF HInv, TableTrue
  <2>2. ASSUME NEW k \in blocks[h].receivers \cap blocks[h].held
        PROVE  [height |-> h, direction |-> "received", keys |-> {k}] \in stored
    <3>1. PICK r \in stored : r.height = h /\ r.direction = "received"
      BY <2>1, <2>2 DEF Has
    <3>2. PICK j \in blocks[h].receivers : r.keys = {j}
      BY <1>1, <3>1 DEF Borne
    <3>3. j = k
      BY <1>1, <2>1, <3>2
    <3>4. r = [height |-> r.height, direction |-> r.direction, keys |-> r.keys]
      BY <1>1 DEF H!Records
    <3> QED
      BY <3>1, <3>2, <3>3, <3>4
  <2>3. ASSUME blocks[h].givers \cap blocks[h].known # {}
        PROVE  \E r \in stored : /\ r.height = h /\ r.direction = "sent"
                                 /\ blocks[h].givers \cap blocks[h].known \subseteq r.keys
    <3>1. PICK r \in stored : r.height = h /\ r.direction = "sent"
      BY <2>1, <2>3 DEF Has
    <3> QED
      BY <1>1, <3>1 DEF Borne
  <2> QED
    BY <2>2, <2>3
<1> QED
  BY <1>2, <1>3

\* What the table holds is on the chain, and whatever the device could tell of the blocks below
\* the cursor is in it, however many scans overlap and whenever keys arrive.
THEOREM TablesTrue == H!Init /\ [][H!Next]_H!vars => [](H!Sound /\ H!Complete)
BY HistoryInit, HistoryKeeps, HistoryShows, PTL

\* In the run as well.
THEOREM ScreensHistoryIsTrue == MCSpec => []HistoryIsTrue
<1>1. MCInit => H!Init
  BY DEF MCInit
<1>2. [MCNext]_<<part, historyVars, vendorVars, coopVars, feeVars, vars, simVars>>
      => [H!Next]_H!vars
  BY DEF MCNext, HistoryStep, VendorStep, CoopStep, FeeStep, ItemStep, SimStep, historyVars,
         H!vars, H!wallet, H!cache
<1>3. HistoryIsTrue <=> H!Sound /\ H!Complete
  BY DEF HistoryIsTrue
<1> QED
  BY <1>1, <1>2, <1>3, TablesTrue, PTL DEF MCSpec

-----------------------------------------------------------------------------
(* TransferFee: sizes. *)

\* The bytes of a number whose first byte takes what is below 128, every further one a
\* factor of q.
Lengths(f, q) == f = [n \in Nat |-> IF n < 128 THEN 1 ELSE 1 + f[n \div q]]

LEMMA LengthsExist ==
    ASSUME NEW q \in {128, 256}
    PROVE  \E f : Lengths(f, q)
<1> DEFINE V == Nat \ {0}
           stop == {n \in Nat : n < 128}
           base == [n \in Nat |-> 1]
           before == [n \in Nat |-> n \div q]
           step == [n \in Nat |-> [v \in V |-> 1 + v]]
<1>1. \A n \in Nat : n >= 128 => n \div q \in Nat /\ n \div q < n
  OBVIOUS
<1>2. Descends(Nat, stop, before)
  BY <1>1 DEF Descends
<1>3. \A n \in Nat \cap stop : base[n] \in V
  OBVIOUS
<1>4. \A n \in Nat \ stop : \A v \in V : step[n][v] \in V
  OBVIOUS
<1> HIDE DEF V, stop, base, before, step
<1>5. Grounded(Nat, V, stop, base, before, step)
  BY <1>2, <1>3, <1>4 DEF Grounded
<1>51. PICK f : Solves(f, Nat, V, stop, base, before, step)
  BY <1>5, SolutionExists DEF Solved
<1>6. f \in [Nat -> V]
  BY <1>51 DEF Solves
<1>7. \A n \in Nat : n \in stop <=> n < 128
  BY DEF stop
<1>8. \A n \in Nat : n \notin stop => before[n] = n \div q /\ f[n \div q] \in V
  BY <1>1, <1>6, <1>7 DEF before
<1>9. \A n \in Nat : \A v \in V : base[n] = 1 /\ step[n][v] = 1 + v
  BY DEF base, step
<1>10. \A n \in Nat : f[n] = IF n < 128 THEN 1 ELSE 1 + f[n \div q]
  BY <1>51, <1>7, <1>8, <1>9 DEF Solves
<1>11. f = [n \in Nat |-> f[n]]
  BY <1>6
<1>12. Lengths(f, q)
  BY <1>10, <1>11 DEF Lengths
<1> QED
  BY <1>12

\* It is never 0, and grows with the number, by one for a factor of q.
LEMMA LengthsGrow ==
    ASSUME NEW q \in {128, 256}, NEW f, Lengths(f, q)
    PROVE  /\ \A n \in Nat : f[n] \in Nat /\ f[n] >= 1 /\ (n < 128 => f[n] = 1)
                             /\ (n >= 128 => f[n] = 1 + f[n \div q])
           /\ \A n, m \in Nat : n <= m => f[n] <= f[m]
<1>1. \A n \in Nat : f[n] = IF n < 128 THEN 1 ELSE 1 + f[n \div q]
  BY DEF Lengths
<1>2. \A n \in Nat : n >= 128 => n \div q \in Nat /\ n \div q < n
  OBVIOUS
<1>3. \A n, m \in Nat : n <= m => n \div q <= m \div q
  OBVIOUS
<1> DEFINE Bad == {n \in Nat : ~(f[n] \in Nat /\ f[n] >= 1)}
           Dips == {m \in Nat : \E n \in Nat : n <= m /\ ~(f[n] <= f[m])}
<1>4. Bad = {}
  <2> SUFFICES ASSUME Bad # {} PROVE FALSE
    OBVIOUS
  <2>1. PICK n \in Bad : \A m \in Bad : n <= m
    BY SmallestExists
  <2>2. n \in Nat /\ n >= 128
    BY <1>1, <2>1
  <2>3. n \div q \notin Bad
    BY <1>2, <2>1, <2>2
  <2> QED
    BY <1>1, <1>2, <2>1, <2>2, <2>3
<1>5. \A n \in Nat : f[n] \in Nat /\ f[n] >= 1
  BY <1>4
<1>6. Dips = {}
  <2> SUFFICES ASSUME Dips # {} PROVE FALSE
    OBVIOUS
  <2>1. PICK m \in Dips : \A k \in Dips : m <= k
    BY SmallestExists
  <2>2. PICK n \in Nat : n <= m /\ ~(f[n] <= f[m])
    BY <2>1
  <2>3. m \in Nat
    BY <2>1
  <2>4. m >= 128 /\ n >= 128
    BY <1>1, <1>5, <2>2, <2>3
  <2>5. n \div q \in Nat /\ m \div q \in Nat /\ n \div q <= m \div q /\ m \div q < m
    BY <1>2, <1>3, <2>2, <2>3, <2>4
  <2>6. m \div q \notin Dips
    BY <2>1, <2>3, <2>5
  <2>7. f[n \div q] <= f[m \div q]
    BY <2>5, <2>6
  <2> QED
    BY <1>1, <1>5, <2>2, <2>3, <2>4, <2>5, <2>7
<1>7. \A n, m \in Nat : n <= m => f[n] <= f[m]
  BY <1>6
<1> QED
  BY <1>1, <1>5, <1>7

LEMMA VbcLenIs == Lengths(F!VbcLen, 128)
<1>1. PICK f : Lengths(f, 128)
  BY LengthsExist
<1> QED
  BY <1>1 DEF F!VbcLen, Lengths

LEMMA SignedLenIs == Lengths(F!SignedLen, 256)
<1>1. PICK f : Lengths(f, 256)
  BY LengthsExist
<1> QED
  BY <1>1 DEF F!SignedLen, Lengths

\* An item's contents with their size field.
Field(n) == n + F!VbcLen[n]

LEMMA FieldGrows ==
    ASSUME NEW n \in Nat, NEW m \in Nat, n <= m
    PROVE  /\ Field(n) \in Nat /\ n < Field(n) /\ Field(n) <= Field(m)
           /\ m - n <= 127 * n => Field(m) <= Field(n) + (m - n) + 1
           /\ m < 128 => Field(m) = m + 1
<1> DEFINE v == F!VbcLen
<1>1. /\ \A k \in Nat : v[k] \in Nat /\ v[k] >= 1 /\ (k < 128 => v[k] = 1)
                        /\ (k >= 128 => v[k] = 1 + v[k \div 128])
      /\ \A j, k \in Nat : j <= k => v[j] <= v[k]
  BY VbcLenIs, LengthsGrow
<1> HIDE DEF v
<1>2. v[n] \in Nat /\ v[n] >= 1 /\ v[m] \in Nat /\ v[n] <= v[m]
  BY <1>1
<1>3. m - n <= 127 * n => v[m] <= v[n] + 1
  <2> SUFFICES ASSUME m - n <= 127 * n, m >= 128 PROVE v[m] <= v[n] + 1
    BY <1>1, <1>2
  <2>1. m \div 128 \in Nat /\ m \div 128 <= n
    OBVIOUS
  <2>2. v[m \div 128] <= v[n] /\ v[m] = 1 + v[m \div 128] /\ v[m \div 128] \in Nat
    BY <1>1, <2>1
  <2> QED
    BY <1>2, <2>2
<1> QED
  BY <1>1, <1>2, <1>3 DEF Field, v

LEMMA BigLenIs ==
    ASSUME NEW n \in Nat
    PROVE  /\ F!BigLen(n) = IF n = 0 THEN 0 ELSE F!SignedLen[n]
           /\ F!BigLen(n) \in Nat /\ (n > 0 => F!BigLen(n) >= 1)
<1>1. n # 0 => F!SignedLen[n] \in Nat /\ F!SignedLen[n] >= 1
  BY SignedLenIs, LengthsGrow
<1> QED
  BY <1>1 DEF F!BigLen

LEMMA BigLenGrows ==
    ASSUME NEW c \in Nat, NEW d \in Nat, c <= d
    PROVE  F!BigLen(c) <= F!BigLen(d)
<1>1. F!SignedLen[c] <= F!SignedLen[d] /\ F!SignedLen[d] \in Nat
  BY SignedLenIs, LengthsGrow
<1> QED
  BY <1>1, BigLenIs

\* A number that takes two bytes less is small against the other, and far from it.
LEMMA TwoSizesApart ==
    ASSUME NEW c \in Nat, NEW d \in Nat, c > 0, c <= d, F!BigLen(d) > F!BigLen(c) + 1
    PROVE  d - c > 32640 /\ d > 2 * c /\ 2 * (d - c) > d
<1> DEFINE b == F!SignedLen
<1>1. /\ \A k \in Nat : b[k] \in Nat /\ b[k] >= 1 /\ (k < 128 => b[k] = 1)
                        /\ (k >= 128 => b[k] = 1 + b[k \div 256])
      /\ \A j, k \in Nat : j <= k => b[j] <= b[k]
  BY SignedLenIs, LengthsGrow
<1>2. b[d] > b[c] + 1
  BY BigLenIs
<1> HIDE DEF b
<1> DEFINE e == d \div 256
<1>3. e \in Nat /\ 256 * e <= d /\ d < 256 * e + 256
  OBVIOUS
<1> HIDE DEF e
<1>4. d >= 128 /\ b[d] = 1 + b[e]
  BY <1>1, <1>2 DEF e
<1>5. b[e] > b[c] /\ b[c] >= 1 /\ b[e] \in Nat /\ b[c] \in Nat
  BY <1>1, <1>2, <1>3, <1>4
<1>6. c < e
  <2>1. e <= c => b[e] <= b[c]
    BY <1>1, <1>3
  <2> QED
    BY <1>3, <1>5, <2>1
<1>7. e >= 128
  BY <1>1, <1>3, <1>5
<1> QED
  BY <1>3, <1>6, <1>7

LEMMA AmountGrows ==
    ASSUME NEW c \in Nat, NEW d \in Nat, c <= d, F!BigLen(d) <= 127
    PROVE  /\ F!AmountItem(c) \in Nat
           /\ F!AmountItem(c) <= F!AmountItem(d)
           /\ F!AmountItem(d) <= F!AmountItem(c) + (F!BigLen(d) - F!BigLen(c)) + 1
<1> DEFINE k == F!BigLen(c)
           l == F!BigLen(d)
<1>1. k \in Nat /\ l \in Nat /\ k <= l /\ l <= 127
  BY BigLenIs, BigLenGrows
<1>2. F!AmountItem(c) = 1 + Field(Field(k)) /\ F!AmountItem(d) = 1 + Field(Field(l))
  <2>1. F!VbcLen[k] + k = Field(k) /\ F!VbcLen[l] + l = Field(l)
    BY <1>1, VbcLenIs, LengthsGrow DEF Field
  <2>2. Field(k) \in Nat /\ Field(l) \in Nat
    BY <1>1, FieldGrows
  <2>3. /\ F!VbcLen[Field(k)] \in Nat /\ F!VbcLen[Field(l)] \in Nat
    BY <2>2, VbcLenIs, LengthsGrow
  <2>4. /\ F!AmountItem(c) = 1 + F!VbcLen[Field(k)] + Field(k)
        /\ F!AmountItem(d) = 1 + F!VbcLen[Field(l)] + Field(l)
    BY <2>1 DEF F!AmountItem, F!Sized
  <2>5. /\ Field(Field(k)) = Field(k) + F!VbcLen[Field(k)]
        /\ Field(Field(l)) = Field(l) + F!VbcLen[Field(l)]
    BY DEF Field
  <2> HIDE DEF k, l
  <2> QED
    BY <2>2, <2>3, <2>4, <2>5
<1> HIDE DEF k, l
<1>3. Field(k) = k + 1 /\ Field(l) = l + 1
  <2>1. \A n \in Nat : n <= n
    OBVIOUS
  <2>2. \A n \in Nat : n < 128 => Field(n) = n + 1
    BY <2>1, FieldGrows
  <2>3. k < 128 /\ l < 128
    BY <1>1
  <2> QED
    BY <1>1, <2>2, <2>3
<1>4. /\ Field(k + 1) \in Nat /\ Field(l + 1) \in Nat /\ Field(k + 1) <= Field(l + 1)
      /\ Field(l + 1) <= Field(k + 1) + ((l + 1) - (k + 1)) + 1
  <2> DEFINE m == k + 1
             n == l + 1
  <2>1. m \in Nat /\ n \in Nat /\ m <= n /\ n <= n /\ n - m <= 127 * m
    BY <1>1
  <2> HIDE DEF m, n
  <2>2. Field(m) \in Nat /\ Field(n) \in Nat /\ Field(m) <= Field(n)
    BY <2>1, FieldGrows
  <2>3. Field(n) <= Field(m) + (n - m) + 1
    BY <2>1, FieldGrows
  <2> QED
    BY <2>2, <2>3 DEF m, n
<1> QED
  BY <1>1, <1>2, <1>3, <1>4 DEF k, l

LEMMA SumOfTwo ==
    ASSUME NEW s \in Seq(Int), Len(s) \in 1 .. 2
    PROVE  F!Sum(s) = IF Len(s) = 1 THEN s[1] ELSE s[1] + s[2]
<1> DEFINE n == Len(s)
           Is(f) == f = [i \in 0 .. n |-> IF i = 0 THEN 0 ELSE f[i - 1] + s[i]]
           g == [i \in 0 .. n |-> IF i = 0 THEN 0 ELSE IF i = 1 THEN s[1] ELSE s[1] + s[2]]
           it == CHOOSE f : Is(f)
<1>1. s[1] \in Int /\ (n = 2 => s[2] \in Int) /\ n \in 1 .. 2
  OBVIOUS
<1> HIDE DEF n
<1>2. \A i \in 0 .. n : i \in Int /\ (i = 0 \/ i = 1 \/ (i = 2 /\ n = 2))
  BY <1>1
<1>3. \A i \in 0 .. n : i # 0 => i - 1 \in 0 .. n
  BY <1>1
<1>4. \A i \in 0 .. n : g[i] = IF i = 0 THEN 0 ELSE g[i - 1] + s[i]
  BY <1>1, <1>2, <1>3
<1>5. Is(g)
  <2>1. g = [i \in 0 .. n |-> g[i]]
    OBVIOUS
  <2> HIDE DEF g
  <2> QED
    BY <1>4, <2>1
<1>6. Is(it)
  <2> HIDE DEF Is
  <2> QED
    BY <1>5
<1>7. F!Sum(s) = it[n]
  BY DEF F!Sum, n
<1> HIDE DEF g, it
<1>8. \A i \in 0 .. n : it[i] = IF i = 0 THEN 0 ELSE it[i - 1] + s[i]
  BY <1>6
<1>9. 0 \in 0 .. n /\ 1 \in 0 .. n /\ n \in 0 .. n
  BY <1>1
<1>10. it[0] = 0 /\ it[1] = it[0] + s[1] /\ (n = 2 => it[2] = it[1] + s[2])
  BY <1>8, <1>9
<1>11. it[n] = IF n = 1 THEN s[1] ELSE s[1] + s[2]
  BY <1>1, <1>10
<1> QED
  BY <1>7, <1>11 DEF n

LEMMA FeeConstants ==
    /\ TotalLo \in Nat /\ TotalHi \in Nat /\ SeqId \in Nat /\ ListingBytes \in Nat
    /\ OtherBlocks \in Nat /\ OtherFee \in Nat /\ FeeNum \in Nat /\ FeeDen \in Nat
    /\ FeeDen > 0 /\ Sends \subseteq Nat \ {0} /\ Shares \subseteq Nat \ {0}
<1>1. F!FeeAssumption
  BY PartsConstants
<1> QED
  BY <1>1 DEF F!FeeAssumption

\* All of a page but the change key's amount, as fields around each other.
Around(rest, amount) ==
    1 + Field(3 + Field(1 + Field(rest + 1 + Field(33 + amount)) + 3 * F!AuthSig))

\* Everything else in the assignment.
Others(total, send) ==
    2 + F!Sized(1, (1 + F!VbcLen[SeqId]) + F!AmountItem(total))
      + F!Sized(1, 33 + F!AmountItem(send)) + F!BidItem + 9 + ListingBytes

LEMMA SizedIs ==
    ASSUME NEW n \in Nat
    PROVE  F!Sized(1, n) = 1 + Field(n) /\ F!Sized(1, n) \in Nat
<1>1. F!VbcLen[n] \in Nat
  BY VbcLenIs, LengthsGrow
<1> QED
  BY <1>1 DEF F!Sized, Field

LEMMA AmountIs == ASSUME NEW n \in Nat PROVE F!AmountItem(n) \in Nat
<1>1. F!BigLen(n) \in Nat
  BY BigLenIs
<1>2. F!VbcLen[F!BigLen(n)] \in Nat
  BY <1>1, VbcLenIs, LengthsGrow
<1>3. F!VbcLen[F!BigLen(n)] + F!BigLen(n) \in Nat
  BY <1>1, <1>2
<1> QED
  BY <1>3, SizedIs DEF F!AmountItem

LEMMA OthersIs ==
    ASSUME NEW total \in Nat, NEW send \in Nat
    PROVE  Others(total, send) \in Nat
<1>1. F!VbcLen[SeqId] \in Nat /\ F!BigLen(FeeNum) \in Nat /\ F!BigLen(FeeDen) \in Nat
  BY FeeConstants, VbcLenIs, LengthsGrow, BigLenIs
<1>2. F!AmountItem(total) \in Nat /\ F!AmountItem(send) \in Nat
  BY AmountIs
<1>3. F!Sized(1, (1 + F!VbcLen[SeqId]) + F!AmountItem(total)) \in Nat
  BY <1>1, <1>2, SizedIs
<1>4. F!Sized(1, 33 + F!AmountItem(send)) \in Nat
  BY <1>2, SizedIs
<1>5. F!BidItem \in Nat
  <2>1. 2 + F!BigLen(FeeNum) + F!BigLen(FeeDen) \in Nat
    BY <1>1
  <2> QED
    BY <2>1, SizedIs DEF F!BidItem
<1> QED
  BY <1>3, <1>4, <1>5, FeeConstants DEF Others

LEMMA PageIs ==
    ASSUME NEW total \in Nat, NEW send \in Nat, NEW c \in Nat
    PROVE  F!PageBytes(total, <<send, c>>, ListingBytes)
               = Around(Others(total, send), F!AmountItem(c))
<1> DEFINE recv == <<send, c>>
           receiver(n) == F!Sized(1, 33 + F!AmountItem(n))
           s == [i \in 1 .. Len(recv) |-> receiver(recv[i])]
           x == Others(total, send)
           w == 2 + F!Sized(1, (1 + F!VbcLen[SeqId]) + F!AmountItem(total)) + F!Sum(s)
                  + F!BidItem + 9 + ListingBytes
           a == F!AuthSig
           b == F!buildAssignment(total, recv, ListingBytes)
<1>1. Len(recv) = 2 /\ recv[1] = send /\ recv[2] = c
  OBVIOUS
<1>2. receiver(send) \in Nat /\ receiver(c) \in Nat /\ receiver(c) = 1 + Field(33 + F!AmountItem(c))
  <2>1. 33 + F!AmountItem(send) \in Nat /\ 33 + F!AmountItem(c) \in Nat
    BY AmountIs
  <2> QED
    BY <2>1, SizedIs
<1>3. F!Sum(s) = receiver(send) + receiver(c)
  <2> HIDE DEF receiver
  <2>1. s = [i \in 1 .. 2 |-> receiver(recv[i])]
    BY <1>1
  <2>2. \A i \in 1 .. 2 : receiver(recv[i]) \in Int
    BY <1>1, <1>2
  <2> HIDE DEF recv
  <2>3. s \in Seq(Int) /\ Len(s) = 2 /\ s[1] = receiver(send) /\ s[2] = receiver(c)
    BY <1>1, <2>1, <2>2
  <2> HIDE DEF s
  <2> QED
    BY <2>3, SumOfTwo
<1>4. x \in Nat
  BY OthersIs
<1>5. /\ F!VbcLen[SeqId] \in Nat /\ F!AmountItem(total) \in Nat /\ F!BidItem \in Nat
      /\ F!Sized(1, (1 + F!VbcLen[SeqId]) + F!AmountItem(total)) \in Nat
  <2>1. F!VbcLen[SeqId] \in Nat /\ F!AmountItem(total) \in Nat
    BY FeeConstants, VbcLenIs, LengthsGrow, AmountIs
  <2>2. F!BigLen(FeeNum) \in Nat /\ F!BigLen(FeeDen) \in Nat
    BY FeeConstants, BigLenIs
  <2>3. (1 + F!VbcLen[SeqId]) + F!AmountItem(total) \in Nat
        /\ 2 + F!BigLen(FeeNum) + F!BigLen(FeeDen) \in Nat
    BY <2>1, <2>2
  <2>4. F!BidItem \in Nat
    BY <2>3, SizedIs DEF F!BidItem
  <2> QED
    BY <2>1, <2>3, <2>4, SizedIs
<1>6. w = x + receiver(c) /\ w \in Nat
  BY <1>2, <1>3, <1>4, <1>5, FeeConstants DEF Others
<1>7. b = F!Sized(1, w)
  BY DEF F!buildAssignment
<1> HIDE DEF w
<1>8. b = 1 + Field(w) /\ b \in Nat
  BY <1>6, <1>7, SizedIs
<1>9. a \in Nat
  BY SizedIs DEF F!AuthSig
<1>10. F!PageBytes(total, recv, ListingBytes) = F!Sized(1, 2 + F!Sized(1, b + 3 * a))
  <2>1. 1 + Len(recv) = 3
    BY <1>1
  <2> HIDE DEF recv, b
  <2>2. F!PageBytes(total, recv, ListingBytes)
          = F!Sized(1, 2 + F!Sized(1, F!buildAssignment(total, recv, ListingBytes)
                                        + (1 + Len(recv)) * F!AuthSig))
    BY DEF F!PageBytes
  <2> QED
    BY <2>1, <2>2 DEF b
<1> HIDE DEF a, b, receiver, x
<1>11. b + 3 * a \in Nat
  BY <1>8, <1>9
<1>12. F!Sized(1, b + 3 * a) = 1 + Field(b + 3 * a) /\ F!Sized(1, b + 3 * a) \in Nat
  BY <1>11, SizedIs
<1>13. F!Sized(1, 2 + F!Sized(1, b + 3 * a)) = 1 + Field(2 + F!Sized(1, b + 3 * a))
  BY <1>12, SizedIs
<1>14. Field(b + 3 * a) \in Nat
  BY <1>11, FieldGrows
<1>15. 2 + F!Sized(1, b + 3 * a) = 3 + Field(b + 3 * a)
  BY <1>12, <1>14
<1>16. Field(33 + F!AmountItem(c)) \in Nat
  BY AmountIs, FieldGrows
<1>17. w = x + 1 + Field(33 + F!AmountItem(c))
  BY <1>2, <1>4, <1>6, <1>16
<1> QED
  BY <1>8, <1>10, <1>13, <1>15, <1>17 DEF Around, a, x, recv

\* n is m or up to d more.
Within(m, n, d) == m \in Nat /\ n \in Nat /\ d \in 0 .. 200 /\ m > 1 /\ m <= n /\ n <= m + d

LEMMA FieldWithin ==
    ASSUME NEW m, NEW n, NEW d \in 0 .. 199, Within(m, n, d)
    PROVE  Within(Field(m), Field(n), d + 1)
<1>1. m \in Nat /\ n \in Nat /\ m > 1 /\ m <= n /\ n <= m + d
  BY DEF Within
<1>2. n - m <= 127 * m
  BY <1>1
<1>3. /\ Field(m) \in Nat /\ m < Field(m) /\ Field(m) <= Field(n)
      /\ Field(n) <= Field(m) + (n - m) + 1
  BY <1>1, <1>2, FieldGrows
<1>4. n <= n /\ Field(n) \in Nat
  BY <1>1, FieldGrows
<1> QED
  BY <1>1, <1>3, <1>4 DEF Within

LEMMA WithinMoves ==
    ASSUME NEW m, NEW n, NEW d, Within(m, n, d), NEW k \in Nat
    PROVE  Within(k + m, k + n, d) /\ Within(m + k, n + k, d)
BY DEF Within

\* A page grows by the bytes the amount grows by and one for each size field.
LEMMA AroundGrows ==
    ASSUME NEW x \in Nat, NEW p \in Nat, NEW q \in Nat, p <= q, q - p <= 128
    PROVE  /\ Around(x, p) \in Nat /\ Around(x, p) <= Around(x, q)
           /\ Around(x, q) <= Around(x, p) + (q - p) + 4
<1> DEFINE d == q - p
           a == 3 * F!AuthSig
           r(n) == Field(33 + n)
           s(n) == Field(x + 1 + r(n))
           t(n) == Field(1 + s(n) + a)
           u(n) == Field(3 + t(n))
<1>1. a \in Nat
  <2>1. F!AuthSig \in Nat
    BY SizedIs DEF F!AuthSig
  <2> QED
    BY <2>1
<1>2. d \in 0 .. 199 /\ d + 1 \in 0 .. 199 /\ d + 2 \in 0 .. 199 /\ d + 3 \in 0 .. 199
  OBVIOUS
<1>3. Within(33 + p, 33 + q, d)
  BY DEF Within
<1> HIDE DEF d, a
<1>4. Within(r(p), r(q), d + 1)
  BY <1>2, <1>3, FieldWithin
<1> HIDE DEF r
<1>5. Within(s(p), s(q), d + 2)
  <2>1. Within((x + 1) + r(p), (x + 1) + r(q), d + 1)
    BY <1>4, WithinMoves
  <2>2. (d + 1) + 1 = d + 2
    BY <1>2
  <2> QED
    BY <1>2, <2>1, <2>2, FieldWithin
<1> HIDE DEF s
<1>6. Within(t(p), t(q), d + 3)
  <2>1. Within(1 + s(p), 1 + s(q), d + 2)
    BY <1>5, WithinMoves
  <2>2. Within((1 + s(p)) + a, (1 + s(q)) + a, d + 2)
    BY <1>1, <2>1, WithinMoves
  <2>3. (d + 2) + 1 = d + 3
    BY <1>2
  <2> QED
    BY <1>2, <2>2, <2>3, FieldWithin
<1> HIDE DEF t
<1>7. Within(u(p), u(q), d + 4)
  <2>1. Within(3 + t(p), 3 + t(q), d + 3)
    BY <1>6, WithinMoves
  <2>2. (d + 3) + 1 = d + 4
    BY <1>2
  <2> QED
    BY <1>2, <2>1, <2>2, FieldWithin
<1>8. Around(x, p) = 1 + u(p) /\ Around(x, q) = 1 + u(q)
  BY DEF Around, u, t, s, r, a
<1> HIDE DEF u
<1> QED
  BY <1>7, <1>8 DEF Within, d

\* Rounding up.
LEMMA CeilIs ==
    ASSUME NEW a \in Nat, NEW d \in Nat, d > 0
    PROVE  /\ F!ceilDiv(a, d) \in Nat
           /\ a <= F!ceilDiv(a, d) * d /\ F!ceilDiv(a, d) * d < a + d
           /\ \A w \in Int : a <= w * d => F!ceilDiv(a, d) <= w
<1> DEFINE u == (a + d - 1) \div d
<1>1. u \in Nat /\ u * d <= a + d - 1 /\ a + d - 1 < u * d + d
  OBVIOUS
<1> HIDE DEF u
<1>2. ASSUME NEW w \in Int, a <= w * d PROVE u <= w
  <2>1. u * d < (w + 1) * d
    <3>1. (w + 1) * d = w * d + d
      OBVIOUS
    <3>2. w * d \in Int /\ u * d \in Int
      BY <1>1
    <3> QED
      BY <1>1, <1>2, <3>1, <3>2
  <2>2. u >= w + 1 => u * d >= (w + 1) * d
    BY <1>1
  <2> QED
    BY <1>1, <2>1, <2>2
<1>3. F!ceilDiv(a, d) = u
  BY DEF F!ceilDiv, u
<1>4. u * d \in Int
  BY <1>1
<1> QED
  BY <1>1, <1>2, <1>3, <1>4

LEMMA FeeGrows ==
    ASSUME NEW a \in Nat, NEW b \in Nat, a <= b, NEW e \in Nat, b <= a + e, NEW s \in Nat
    PROVE  /\ F!recordingFee(a, s) \in Nat
           /\ F!recordingFee(a, s) <= F!recordingFee(b, s)
           /\ F!recordingFee(b, s) <= F!recordingFee(a, s) + F!recordingFee(e, s)
<1> DEFINE c(n) == n * FeeNum * s
           cost(n) == F!recordingFee(n, s)
           d == FeeDen
<1>1. FeeNum \in Nat /\ d \in Nat /\ d > 0
  BY FeeConstants
<1>2. c(a) \in Nat /\ c(b) \in Nat /\ c(e) \in Nat
  BY <1>1
<1>3. c(a) <= c(b) /\ c(b) <= c(a) + c(e)
  <2> DEFINE k == FeeNum * s
  <2>1. k \in Nat
    BY <1>1
  <2>2. c(a) = a * k /\ c(b) = b * k /\ c(e) = e * k
    BY <1>1
  <2> HIDE DEF k, c
  <2>3. a * k <= b * k /\ b * k <= (a + e) * k /\ (a + e) * k = a * k + e * k
    BY <2>1
  <2> QED
    BY <2>2, <2>3
<1>4. cost(a) = F!ceilDiv(c(a), d) /\ cost(b) = F!ceilDiv(c(b), d) /\ cost(e) = F!ceilDiv(c(e), d)
  BY DEF F!recordingFee
<1> HIDE DEF c, cost, d
<1>5. /\ cost(a) \in Nat /\ c(a) <= cost(a) * d /\ \A w \in Int : c(a) <= w * d => cost(a) <= w
      /\ cost(b) \in Nat /\ c(b) <= cost(b) * d /\ \A w \in Int : c(b) <= w * d => cost(b) <= w
      /\ cost(e) \in Nat /\ c(e) <= cost(e) * d
  <2>1. ASSUME NEW n \in {a, b, e}
        PROVE  /\ cost(n) \in Nat /\ c(n) <= cost(n) * d
               /\ \A w \in Int : c(n) <= w * d => cost(n) <= w
    <3>1. c(n) \in Nat /\ cost(n) = F!ceilDiv(c(n), d)
      BY <1>2, <1>4
    <3> QED
      BY <1>1, <3>1, CeilIs
  <2> QED
    BY <2>1
<1>6. cost(a) <= cost(b)
  <2>1. cost(b) * d \in Int
    BY <1>1, <1>5
  <2>2. c(a) <= cost(b) * d
    BY <1>2, <1>3, <1>5, <2>1
  <2> QED
    BY <1>5, <2>2
<1>7. cost(b) <= cost(a) + cost(e)
  <2>1. (cost(a) + cost(e)) * d = cost(a) * d + cost(e) * d /\ cost(a) * d \in Int /\ cost(e) * d \in Int
    BY <1>1, <1>5
  <2>2. c(b) <= (cost(a) + cost(e)) * d
    BY <1>2, <1>3, <1>5, <2>1
  <2>3. cost(a) + cost(e) \in Int
    BY <1>5
  <2> QED
    BY <1>5, <2>2, <2>3
<1> QED
  BY <1>5, <1>6, <1>7 DEF cost

-----------------------------------------------------------------------------
(* TransferFee: the agent's rounds. *)

\* What is left for the change key if the page is as long as with an amount of c.
PageOf(o, c) == F!PageBytes(o.total, <<o.send, c>>, ListingBytes)
RestOf(o, i, c) == o.total - F!recordingFee(PageOf(o, c), i) - o.send

Page(c) == PageOf(order, c)
Rest(c) == RestOf(order, info, c)

OrderTyped == order.total \in Nat /\ order.send \in Nat /\ info \in Nat

LEMMA PagesGrow ==
    ASSUME OrderTyped, NEW c \in Nat, NEW d \in Nat, c <= d, F!BigLen(d) <= 127
    PROVE  /\ Page(c) \in Nat /\ Page(d) \in Nat /\ Page(c) <= Page(d)
           /\ Page(d) <= Page(c) + (F!BigLen(d) - F!BigLen(c) + 5)
           /\ F!BigLen(d) = F!BigLen(c) => Page(d) = Page(c)
<1> DEFINE x == Others(order.total, order.send)
           p == F!AmountItem(c)
           q == F!AmountItem(d)
           k == F!BigLen(c)
           l == F!BigLen(d)
<1>1. x \in Nat
  BY OthersIs DEF OrderTyped
<1>2. k \in Nat /\ l \in Nat /\ k <= l /\ l <= 127
  BY BigLenIs, BigLenGrows
<1>3. p \in Nat /\ q \in Nat /\ p <= q /\ q <= p + (l - k) + 1
  BY AmountIs, AmountGrows
<1>4. Page(c) = Around(x, p) /\ Page(d) = Around(x, q)
  BY PageIs DEF Page, PageOf, OrderTyped
<1>5. l = k => q = p
  BY DEF F!AmountItem
<1> HIDE DEF x, p, q, k, l
<1>6. q - p <= 128
  BY <1>2, <1>3
<1>7. /\ Around(x, p) \in Nat /\ Around(x, p) <= Around(x, q)
      /\ Around(x, q) <= Around(x, p) + (q - p) + 4
  BY <1>1, <1>3, <1>6, AroundGrows
<1>8. Around(x, q) \in Nat
  <2>1. q <= q /\ q - q <= 128
    BY <1>3
  <2> QED
    BY <1>1, <1>3, <2>1, AroundGrows
<1> QED
  BY <1>2, <1>3, <1>4, <1>5, <1>7, <1>8 DEF k, l

LEMMA RestFalls ==
    ASSUME OrderTyped, NEW c \in Nat, NEW d \in Nat, c <= d, F!BigLen(d) <= 127
    PROVE  /\ Rest(c) \in Int /\ Rest(d) \in Int /\ Rest(d) <= Rest(c)
           /\ \A e \in Nat : F!BigLen(d) - F!BigLen(c) + 5 <= e =>
                  Rest(c) <= Rest(d) + F!recordingFee(e, info)
           /\ F!BigLen(d) = F!BigLen(c) => Rest(d) = Rest(c)
<1> DEFINE cost(n) == F!recordingFee(n, info)
           k == F!BigLen(c)
           l == F!BigLen(d)
<1>1. /\ Page(c) \in Nat /\ Page(d) \in Nat /\ Page(c) <= Page(d)
      /\ Page(d) <= Page(c) + (l - k + 5) /\ (l = k => Page(d) = Page(c))
  BY PagesGrow
<1>2. k \in Nat /\ l \in Nat /\ k <= l /\ info \in Nat
  BY BigLenIs, BigLenGrows DEF OrderTyped
<1> HIDE DEF k, l, cost
<1>3. ASSUME NEW e \in Nat, l - k + 5 <= e
      PROVE  /\ cost(Page(c)) \in Nat /\ cost(Page(c)) <= cost(Page(d))
             /\ cost(Page(d)) <= cost(Page(c)) + cost(e)
  <2>1. Page(d) <= Page(c) + e
    BY <1>1, <1>2, <1>3
  <2> QED
    BY <1>1, <1>2, <2>1, FeeGrows DEF cost
<1>4. cost(Page(d)) \in Nat
  <2>1. Page(d) <= Page(d) /\ Page(d) <= Page(d) + 0 /\ 0 \in Nat
    BY <1>1
  <2> QED
    BY <1>1, <1>2, <2>1, FeeGrows DEF cost
<1>5. ASSUME NEW e \in Nat PROVE cost(e) \in Nat
  <2>1. e <= e /\ e <= e + 0 /\ 0 \in Nat
    OBVIOUS
  <2> QED
    BY <1>2, <2>1, FeeGrows DEF cost
<1>6. l - k + 5 \in Nat
  BY <1>2
<1>7. cost(Page(c)) \in Nat /\ cost(Page(c)) <= cost(Page(d))
  BY <1>3, <1>6
<1>8. /\ Rest(c) = order.total - cost(Page(c)) - order.send
      /\ Rest(d) = order.total - cost(Page(d)) - order.send
  BY DEF Rest, RestOf, Page, cost
<1>9. ASSUME NEW e \in Nat, l - k + 5 <= e PROVE Rest(c) <= Rest(d) + cost(e)
  BY <1>3, <1>4, <1>5, <1>8, <1>9 DEF OrderTyped
<1> QED
  BY <1>1, <1>4, <1>7, <1>8, <1>9 DEF OrderTyped, k, l, cost

\* What a page can grow by costs little: less than one size of amounts is from the next but
\* one, or less than half of what is left after the first round.
Swing == F!recordingFee(F!BigLen(order.total) + 5, info)
Steady == /\ F!BigLen(order.total) <= 127
          /\ Swing <= 32640 \/ 2 * Swing <= Rest(0)

LEMMA RoundsFind ==
    ASSUME OrderTyped, Steady, Rest(0) > 0, Rest(Rest(0)) > 0, Rest(Rest(Rest(0))) > 0
    PROVE  \/ Rest(Rest(Rest(Rest(0)))) = Rest(Rest(Rest(0)))
           \/ \A c \in 1 .. order.total : Rest(c) # c
<1> DEFINE L(n) == F!BigLen(n)
           R(n) == Rest(n)
           N == {n \in Nat : n <= order.total}
<1>1. order.total \in Nat /\ order.send \in Nat /\ info \in Nat
  BY DEF OrderTyped
<1>2. L(order.total) \in Nat /\ L(order.total) <= 127
  BY <1>1, BigLenIs DEF Steady
<1>3. \A n \in N : L(n) \in Nat /\ L(n) <= L(order.total) /\ L(n) <= 127
  <2>1. ASSUME NEW n \in N PROVE L(n) \in Nat /\ L(n) <= L(order.total)
    BY <1>1, BigLenIs, BigLenGrows
  <2> QED
    BY <1>2, <2>1
<1>4. \A c, d \in N : c <= d => L(c) <= L(d)
  BY BigLenGrows
<1>5. \A c, d \in N : c <= d =>
          /\ R(c) \in Int /\ R(d) \in Int /\ R(d) <= R(c)
          /\ R(c) <= R(d) + Swing
          /\ L(d) = L(c) => R(d) = R(c)
  <2> SUFFICES ASSUME NEW c \in N, NEW d \in N, c <= d
               PROVE  /\ R(c) \in Int /\ R(d) \in Int /\ R(d) <= R(c)
                      /\ R(c) <= R(d) + Swing
                      /\ L(d) = L(c) => R(d) = R(c)
    OBVIOUS
  <2> DEFINE e == F!BigLen(order.total) + 5
  <2>1. e \in Nat /\ F!BigLen(d) - F!BigLen(c) + 5 <= e /\ c \in Nat /\ d \in Nat
        /\ F!BigLen(d) <= 127
    BY <1>2, <1>3
  <2> HIDE DEF e
  <2>2. /\ Rest(c) \in Int /\ Rest(d) \in Int /\ Rest(d) <= Rest(c)
        /\ Rest(c) <= Rest(d) + F!recordingFee(e, info)
        /\ F!BigLen(d) = F!BigLen(c) => Rest(d) = Rest(c)
    BY <2>1, RestFalls
  <2> QED
    BY <2>2 DEF Swing, e
<1>6. 0 \in N
  BY <1>1
<1>7. \A n \in N : R(n) \in Int /\ R(n) <= R(0) /\ R(0) <= R(n) + Swing
  BY <1>5, <1>6
<1>8. R(0) <= order.total
  <2>1. Page(0) \in Nat
    <3>1. F!BigLen(0) <= 127 /\ 0 \in Nat /\ 0 <= 0
      BY <1>3, <1>6
    <3> QED
      BY <3>1, PagesGrow
  <2>2. Page(0) <= Page(0) /\ Page(0) <= Page(0) + 0 /\ 0 \in Nat
    BY <2>1
  <2>3. F!recordingFee(Page(0), info) \in Nat
    BY <1>1, <2>1, <2>2, FeeGrows
  <2> QED
    BY <1>1, <2>3 DEF Rest, RestOf, Page
<1>9. Swing \in Int
  BY <1>1, <1>2, FeeGrows DEF Swing
<1> DEFINE c1 == R(0)
           c2 == R(c1)
           c3 == R(c2)
<1>10. c1 \in N /\ c1 > 0
  BY <1>7, <1>8, <1>6
<1>11. c2 \in N /\ c2 > 0 /\ c2 <= c1 /\ c1 <= c2 + Swing
  <2>1. c2 \in Int /\ c2 <= c1 /\ c1 <= c2 + Swing
    BY <1>7, <1>10
  <2>2. c2 > 0
    OBVIOUS
  <2> QED
    BY <1>1, <1>10, <2>1, <2>2
<1>12. c3 \in N /\ c3 > 0 /\ c2 <= c3 /\ c3 <= c1
  <2>1. c3 \in Int /\ c3 <= c1
    BY <1>7, <1>11
  <2>2. c2 <= c3
    BY <1>5, <1>10, <1>11
  <2>3. c3 > 0
    OBVIOUS
  <2> QED
    BY <1>1, <1>10, <2>1, <2>2, <2>3
<1>13. Swing <= 32640 \/ 2 * Swing <= c1
  BY DEF Steady
<1> HIDE DEF L, R, c1, c2, c3
<1>14. L(c1) <= L(c2) + 1
  <2> SUFFICES ASSUME L(c1) > L(c2) + 1 PROVE FALSE
    BY <1>3, <1>10, <1>11
  <2> DEFINE a == c2
             b == c1
  <2>1. a \in Nat /\ b \in Nat /\ a > 0 /\ a <= b /\ F!BigLen(b) > F!BigLen(a) + 1
    BY <1>10, <1>11 DEF L
  <2> HIDE DEF a, b
  <2>2. b - a > 32640 /\ 2 * (b - a) > b
    BY <2>1, TwoSizesApart
  <2>3. b - a <= Swing /\ (Swing <= 32640 \/ 2 * Swing <= b)
    BY <1>9, <1>10, <1>11, <1>13 DEF a, b
  <2> QED
    BY <1>9, <2>1, <2>2, <2>3
<1>15. L(c2) <= L(c3) /\ L(c3) <= L(c1)
  BY <1>4, <1>10, <1>11, <1>12
<1>16. CASE L(c3) = L(c2)
  <2>1. R(c3) = R(c2)
    BY <1>5, <1>11, <1>12, <1>16
  <2> QED
    BY <2>1 DEF R, c1, c2, c3
<1>17. CASE L(c3) # L(c2)
  <2>1. L(c3) = L(c1) /\ L(c1) = L(c2) + 1
    BY <1>3, <1>10, <1>11, <1>12, <1>14, <1>15, <1>17
  <2>2. ASSUME NEW c \in 1 .. order.total, R(c) = c PROVE FALSE
    <3>1. c \in N
      BY <1>1
    <3>2. c <= c1
      BY <1>7, <2>2, <3>1 DEF c1
    <3>3. c2 <= c
      BY <1>5, <1>10, <2>2, <3>1, <3>2 DEF c2
    <3>4. L(c2) <= L(c) /\ L(c) <= L(c1)
      BY <1>4, <1>10, <1>11, <3>1, <3>2, <3>3
    <3>5. CASE L(c) = L(c2)
      <4>1. R(c) = R(c2)
        BY <1>5, <1>11, <3>1, <3>3, <3>5
      <4> QED
        BY <1>17, <2>2, <3>5, <4>1 DEF c3
    <3>6. CASE L(c) = L(c1)
      <4>1. R(c) = R(c1)
        BY <1>5, <1>10, <3>1, <3>2, <3>6
      <4> QED
        BY <1>3, <1>11, <2>1, <2>2, <3>6, <4>1 DEF c2
    <3> QED
      BY <1>3, <1>10, <1>11, <2>1, <3>1, <3>4, <3>5, <3>6
  <2> QED
    BY <2>2 DEF R
<1> QED
  BY <1>16, <1>17

\* The change key's amount after n rounds.
ReachedOf(o, i, n) ==
    IF n = 0 THEN 0
    ELSE IF n = 1 THEN RestOf(o, i, 0)
    ELSE IF n = 2 THEN RestOf(o, i, RestOf(o, i, 0))
    ELSE RestOf(o, i, RestOf(o, i, RestOf(o, i, 0)))

Reached(n) == ReachedOf(order, info, n)

FeeInv ==
    /\ order \in F!Orders /\ info \in Nat
    /\ \E s \in Shares : /\ info <= s
                         /\ outcome \in {"building", "posted"} => shares \in Nat /\ shares <= s
    /\ order.builder = "agent" =>
           /\ rounds \in 0 .. 3
           /\ amounts = <<order.send, Reached(rounds)>>
           /\ rounds > 0 => info > 0
           /\ outcome # "given up" =>
                  \A n \in 1 .. rounds : Reached(n) \in Int /\ Reached(n) > 0
           /\ outcome = "posted" => rounds = 3

LEMMA OrdersTyped ==
    ASSUME order \in F!Orders, info \in Nat
    PROVE  OrderTyped /\ order.total <= TotalHi
<1>1. order.total \in TotalLo .. TotalHi /\ (order.send \in Sends \/ order.send = order.total)
  <2>1. CASE order \in {o \in [builder : Builders, total : TotalLo .. TotalHi, send : Sends] :
                           o.send <= o.total}
    BY <2>1
  <2>2. CASE order \in {[builder |-> b, total |-> n, send |-> n] :
                            b \in Builders \cap {"wallet"}, n \in TotalLo .. TotalHi}
    <3>1. PICK n \in TotalLo .. TotalHi : \E b \in Builders \cap {"wallet"} :
              order = [builder |-> b, total |-> n, send |-> n]
      BY <2>2
    <3>2. order.total = n /\ order.send = n
      BY <3>1
    <3> QED
      BY <3>2
  <2> QED
    BY <2>1, <2>2 DEF F!Orders
<1>2. order.total \in Nat /\ order.total <= TotalHi
  BY <1>1, FeeConstants
<1>3. order.send \in Nat
  BY <1>1, <1>2, FeeConstants
<1> QED
  BY <1>2, <1>3 DEF OrderTyped

LEMMA PageTyped ==
    ASSUME OrderTyped, NEW c \in Nat
    PROVE  Page(c) \in Nat
<1> DEFINE x == Others(order.total, order.send)
           p == F!AmountItem(c)
<1>1. x \in Nat /\ p \in Nat /\ info \in Nat
  BY OthersIs, AmountIs DEF OrderTyped
<1>2. Page(c) = Around(x, p)
  BY PageIs DEF Page, PageOf, OrderTyped
<1> HIDE DEF x, p
<1>3. p <= p /\ p - p <= 128
  BY <1>1
<1> QED
  BY <1>1, <1>2, <1>3, AroundGrows

LEMMA RestTyped ==
    ASSUME OrderTyped, NEW c \in Nat
    PROVE  Rest(c) \in Int
<1>4. Page(c) \in Nat /\ info \in Nat
  BY PageTyped DEF OrderTyped
<1>5. Page(c) <= Page(c) /\ Page(c) <= Page(c) + 0 /\ 0 \in Nat
  BY <1>4
<1>6. F!recordingFee(Page(c), info) \in Nat
  BY <1>4, <1>5, FeeGrows
<1> QED
  BY <1>6 DEF Rest, RestOf, Page, OrderTyped

LEMMA FeeInit == F!Init => FeeInv
<1> SUFFICES ASSUME F!Init PROVE FeeInv
  OBVIOUS
<1>1. /\ shares \in Shares /\ order \in F!Orders /\ info = 0 /\ rounds = 0
      /\ amounts = (IF F!HasChange THEN <<order.send, 0>> ELSE <<order.send>>)
      /\ outcome = "building"
  BY DEF F!Init
<1>2. Reached(0) = 0 /\ shares \in Nat
  BY <1>1, FeeConstants DEF Reached, ReachedOf
<1>3. order.builder = "agent" => amounts = <<order.send, 0>>
  BY <1>1 DEF F!HasChange
<1> QED
  BY <1>1, <1>2, <1>3 DEF FeeInv

LEMMA ReachedNext ==
    ASSUME NEW n \in 0 .. 2
    PROVE  Reached(n + 1) = Rest(Reached(n))
<1>1. CASE n = 0
  BY <1>1 DEF Reached, ReachedOf, Rest
<1>2. CASE n = 1
  BY <1>2 DEF Reached, ReachedOf, Rest
<1>3. CASE n = 2
  BY <1>3 DEF Reached, ReachedOf, Rest
<1> QED
  BY <1>1, <1>2, <1>3

\* Nothing but reading the chain's figures moves what the agent works with.
LEMMA ReachedStays ==
    ASSUME UNCHANGED <<order, info>>
    PROVE  \A n : Reached(n)' = Reached(n)
BY DEF Reached

LEMMA RoundKeeps == ASSUME FeeInv, F!Round PROVE FeeInv'
<1>1. /\ info > 0 /\ rounds < 3 /\ outcome = "building" /\ order \in F!Orders /\ info \in Nat
      /\ UNCHANGED <<shares, order, info, others>> /\ rounds' = rounds + 1
      /\ outcome' \in {"building", "given up"}
  BY DEF F!Round, F!Rounds, FeeInv
<1>2. CASE order.builder # "agent"
  BY <1>1, <1>2 DEF FeeInv
<1>3. CASE order.builder = "agent"
  <2> DEFINE c == Reached(rounds)
             f == F!recordingFee(F!Measured, info)
             rest == order.total - f - F!Sum(SubSeq(amounts, 1, Len(amounts) - 1))
  <2>1. /\ rounds \in 0 .. 2 /\ amounts = <<order.send, c>>
        /\ \A n \in 1 .. rounds : Reached(n) \in Int /\ Reached(n) > 0
    <3>1. rounds \in 0 .. 3 /\ amounts = <<order.send, c>>
      BY <1>3 DEF FeeInv
    <3>2. outcome # "given up"
      BY <1>1
    <3>3. \A n \in 1 .. rounds : Reached(n) \in Int /\ Reached(n) > 0
      BY <1>3, <3>2 DEF FeeInv
    <3>4. rounds \in 0 .. 2
      <4>1. rounds < 3 /\ rounds \in 0 .. 3
        BY <1>1, <3>1
      <4> QED
        BY <4>1
    <3> HIDE DEF c, f, rest
    <3> QED
      BY <3>1, <3>3, <3>4
  <2>2. c \in Nat
    <3>1. CASE rounds = 0
      BY <3>1 DEF Reached, ReachedOf
    <3>2. CASE rounds # 0
      <4>1. rounds \in 1 .. rounds
        BY <2>1, <3>2
      <4> QED
        BY <2>1, <4>1
    <3> QED
      BY <3>1, <3>2
  <2>3. OrderTyped
    BY <1>1, OrdersTyped
  <2> HIDE DEF c
  <2>4. Len(amounts) = 2
    BY <2>1
  <2>5. f = F!recordingFee(PageOf(order, c), info)
    BY <1>3, <2>1 DEF F!Measured, F!Listing, PageOf
  <2>6. F!Sum(SubSeq(amounts, 1, Len(amounts) - 1)) = order.send
    <3> DEFINE s == SubSeq(amounts, 1, Len(amounts) - 1)
    <3>0. order.send \in Int
      BY <2>3 DEF OrderTyped
    <3>1. s = <<order.send>> /\ order.send \in Int
      <4>1. s = SubSeq(<<order.send, c>>, 1, 1)
        BY <2>1, <2>4
      <4>2. \A a \in Int, b \in Int : SubSeq(<<a, b>>, 1, 1) = <<a>>
        <5> SUFFICES ASSUME NEW a \in Int, NEW b \in Int PROVE SubSeq(<<a, b>>, 1, 1) = <<a>>
          OBVIOUS
        <5>1. <<a, b>> \in Seq(Int) /\ Len(<<a, b>>) = 2 /\ <<a, b>>[1] = a
          OBVIOUS
        <5> DEFINE t == SubSeq(<<a, b>>, 1, 1)
        <5>2. t \in Seq(Int) /\ Len(t) = 1 /\ t[1] = a
          BY <5>1, SubSeqProperties
        <5> HIDE DEF t
        <5>3. t = <<a>>
          BY <5>2
        <5> QED
          BY <5>3 DEF t
      <4>3. c \in Int
        BY <2>2
      <4> HIDE DEF s
      <4> QED
        BY <3>0, <4>1, <4>2, <4>3
    <3> HIDE DEF s
    <3>2. s \in Seq(Int) /\ Len(s) = 1 /\ s[1] = order.send
      BY <3>1
    <3>3. F!Sum(s) = order.send
      BY <3>2, SumOfTwo
    <3> QED
      BY <3>3 DEF s
  <2>7. rest = Rest(c)
    BY <2>5, <2>6 DEF Rest, RestOf
  <2>8. /\ amounts' = [amounts EXCEPT ![2] = rest]
        /\ outcome' = IF F!Overspent(rest) THEN "given up" ELSE "building"
    BY <2>4 DEF F!Round
  <2> HIDE DEF rest, f
  <2>90. Reached(rounds + 1) = rest
    BY <2>1, <2>7, ReachedNext DEF c
  <2>9. amounts' = <<order.send, rest>>
    <3>1. amounts' = [<<order.send, c>> EXCEPT ![2] = rest]
      BY <2>1, <2>8
    <3> QED
      BY <3>1
  <2>10. outcome' # "given up" => rest \in Int /\ rest > 0
    <3>1. rest \in Int
      BY <2>2, <2>3, <2>7, RestTyped
    <3>2. F!Overspent(rest) <=> rest <= 0
      BY <1>3 DEF F!Overspent
    <3>3. outcome' # "given up" => ~F!Overspent(rest)
      BY <2>8
    <3>4. rest \in Int => rest > 0 \/ rest <= 0
      OBVIOUS
    <3> QED
      BY <3>1, <3>2, <3>3, <3>4
  <2>11. \A n : Reached(n)' = Reached(n)
    BY <1>1, ReachedStays
  <2>12. \A n \in 1 .. rounds + 1 : n \in 1 .. rounds \/ n = rounds + 1
    BY <2>1
  <2>13. outcome' # "given up" => \A n \in 1 .. rounds' : Reached(n)' \in Int /\ Reached(n)' > 0
    BY <1>1, <2>1, <2>90, <2>10, <2>11, <2>12
  <2>14. amounts' = <<order.send', Reached(rounds)'>>
    BY <1>1, <2>9, <2>90, <2>11
  <2>15. rounds' \in 0 .. 3 /\ outcome' # "posted"
    <3>1. outcome' \in {"building", "given up"}
      BY <1>1
    <3>2. rounds' = rounds + 1 /\ rounds \in 0 .. 2
      BY <1>1, <2>1
    <3>3. \A n \in 0 .. 2 : n + 1 \in 0 .. 3
      OBVIOUS
    <3>4. outcome' # "posted"
      BY <3>1
    <3>5. rounds' \in 0 .. 3
      BY <3>2, <3>3
    <3> QED
      BY <3>4, <3>5
  <2> QED
    BY <1>1, <2>13, <2>14, <2>15 DEF FeeInv
<1> QED
  BY <1>2, <1>3

LEMMA FeeKeeps == FeeInv /\ [F!Next]_F!vars => FeeInv'
<1> SUFFICES ASSUME FeeInv, [F!Next]_F!vars PROVE FeeInv'
  OBVIOUS
<1>1. CASE F!ReadInfo
  <2>1. /\ info = 0 /\ info' = shares /\ outcome = "building"
        /\ UNCHANGED <<shares, order, amounts, rounds, fee, outcome, others>>
    BY <1>1 DEF F!ReadInfo
  <2>2. shares \in Nat /\ \E s \in Shares : shares <= s
    BY <2>1 DEF FeeInv
  <2>3. order.builder = "agent" => rounds = 0 /\ amounts = <<order.send, Reached(0)>>
    BY <2>1 DEF FeeInv
  <2>4. Reached(0) = 0 /\ Reached(0)' = 0
    BY DEF Reached, ReachedOf
  <2> HIDE DEF Reached
  <2> QED
    BY <2>1, <2>2, <2>3, <2>4 DEF FeeInv
<1>2. CASE F!Round
  BY <1>2, RoundKeeps
<1>3. CASE F!Submit
  <2>1. /\ UNCHANGED <<shares, order, info, amounts, rounds, fee, others>>
        /\ outcome = "building" /\ outcome' = "posted" /\ rounds = 3
    BY <1>3 DEF F!Submit, F!Rounds
  <2>2. \A n : Reached(n)' = Reached(n)
    BY <2>1, ReachedStays
  <2> QED
    BY <2>1, <2>2 DEF FeeInv
<1>4. CASE F!Record
  <2>1. /\ UNCHANGED <<order, info, amounts, rounds, fee, others>>
        /\ outcome = "posted" /\ outcome' \in {"recorded", "refused"}
    BY <1>4 DEF F!Record
  <2>2. \A n : Reached(n)' = Reached(n)
    BY <2>1, ReachedStays
  <2> QED
    BY <2>1, <2>2 DEF FeeInv
<1>5. CASE F!OtherBlock
  <2>1. /\ UNCHANGED <<order, info, amounts, rounds, fee, outcome>> /\ shares > OtherFee
        /\ shares' = shares - OtherFee /\ outcome \in {"building", "posted"}
    BY <1>5 DEF F!OtherBlock
  <2>2. \A n : Reached(n)' = Reached(n)
    BY <2>1, ReachedStays
  <2>3. PICK s \in Shares : info <= s /\ shares \in Nat /\ shares <= s
    BY <2>1 DEF FeeInv
  <2>4. shares' \in Nat /\ shares' <= s
    BY <2>1, <2>3, FeeConstants
  <2> QED
    BY <2>1, <2>2, <2>3, <2>4 DEF FeeInv
<1>6. CASE UNCHANGED F!vars
  <2>1. UNCHANGED <<shares, order, info, amounts, rounds, fee, outcome, others>>
    BY <1>6 DEF F!vars
  <2>2. \A n : Reached(n)' = Reached(n)
    BY <2>1, ReachedStays
  <2> QED
    BY <2>1, <2>2 DEF FeeInv
<1> QED
  BY <1>1, <1>2, <1>3, <1>4, <1>5, <1>6 DEF F!Next

LEMMA BalancedIs ==
    ASSUME OrderTyped, order.builder = "agent", RewardNum = 0, NEW c \in Nat
    PROVE  F!Balanced(<<order.send, c>>, info) <=> Rest(c) = c
<1> DEFINE recv == <<order.send, c>>
           f == F!recordingFee(PageOf(order, c), info)
<1>1. order.total \in Int /\ order.send \in Int
  BY DEF OrderTyped
<1>2. F!Sum(recv) = order.send + c
  <2>1. recv \in Seq(Int) /\ Len(recv) = 2 /\ recv[1] = order.send /\ recv[2] = c
    BY <1>1
  <2> HIDE DEF recv
  <2> QED
    BY <2>1, SumOfTwo
<1>3. F!shareReward(order.total) = 0
  BY DEF F!shareReward
<1>4. F!Listing = ListingBytes
  BY DEF F!Listing
<1>5. F!Balanced(recv, info)
          <=> order.total = F!Sum(recv) + F!shareReward(order.total) + f
  BY <1>4 DEF F!Balanced, PageOf
<1>6. Rest(c) = order.total - f - order.send /\ Rest(c) \in Int
  BY RestTyped DEF Rest, RestOf
<1>7. f \in Int
  <2> DEFINE b == PageOf(order, c)
  <2>1. b \in Nat
    BY PageTyped DEF Page
  <2>2. b <= b /\ b <= b + 0 /\ 0 \in Nat /\ info \in Nat
    BY <2>1 DEF OrderTyped
  <2> HIDE DEF b
  <2>3. F!recordingFee(b, info) \in Nat
    BY <2>1, <2>2, FeeGrows
  <2> QED
    BY <2>3 DEF b
<1> HIDE DEF f, recv
<1> QED
  BY <1>1, <1>2, <1>3, <1>5, <1>6, <1>7 DEF recv

LEMMA FeeShows ==
    ASSUME FeeInv, RewardNum = 0, Steady
    PROVE  F!RoundsSuffice
<1> SUFFICES ASSUME order.builder = "agent", outcome = "posted"
             PROVE  \/ F!Balanced(amounts, info)
                    \/ \A c \in 1 .. order.total :
                           ~F!Balanced([amounts EXCEPT ![2] = c], info)
  BY DEF F!RoundsSuffice
<1> DEFINE last == Rest(Rest(Rest(0)))
<1>1. OrderTyped
  BY OrdersTyped DEF FeeInv
<1>2. amounts = <<order.send, Reached(rounds)>> /\ rounds = 3
      /\ \A n \in 1 .. rounds : Reached(n) \in Int /\ Reached(n) > 0
  BY DEF FeeInv
<1>3. amounts = <<order.send, last>> /\ last \in Int /\ last > 0
      /\ Rest(Rest(0)) > 0 /\ Rest(0) > 0
  <2>1. Reached(1) = Rest(0) /\ Reached(2) = Rest(Rest(0)) /\ Reached(3) = last
    BY DEF Reached, ReachedOf, Rest
  <2>2. 1 \in 1 .. 3 /\ 2 \in 1 .. 3 /\ 3 \in 1 .. 3
    OBVIOUS
  <2> QED
    BY <1>2, <2>1, <2>2
<1>4. Rest(last) = last \/ \A c \in 1 .. order.total : Rest(c) # c
  BY <1>1, <1>3, RoundsFind
<1> HIDE DEF last
<1>5. CASE Rest(last) = last
  <2>1. last \in Nat
    BY <1>3
  <2>2. F!Balanced(<<order.send, last>>, info)
    BY <1>1, <1>5, <2>1, BalancedIs
  <2> QED
    BY <1>3, <2>2
<1>6. CASE \A c \in 1 .. order.total : Rest(c) # c
  <2>1. ASSUME NEW c \in 1 .. order.total
        PROVE  ~F!Balanced([amounts EXCEPT ![2] = c], info)
    <3>1. [amounts EXCEPT ![2] = c] = <<order.send, c>>
      BY <1>3
    <3>2. c \in Nat /\ Rest(c) # c
      BY <1>1, <1>6 DEF OrderTyped
    <3>3. ~F!Balanced(<<order.send, c>>, info)
      BY <1>1, <3>2, BalancedIs
    <3> QED
      BY <3>1, <3>3
  <2> QED
    BY <2>1
<1> QED
  BY <1>4, <1>5, <1>6

\* For every fee rate, every number of shares and every size of listing: where what a page
\* can grow by costs little against the amounts (Steady), the agent's three rounds find an
\* amount that balances, if there is one (execute_transfer).
THEOREM RoundsFindAmounts ==
    RewardNum = 0 => (F!Init /\ [][F!Next]_F!vars => [](Steady => F!RoundsSuffice))
<1> SUFFICES ASSUME RewardNum = 0
             PROVE  F!Init /\ [][F!Next]_F!vars => [](Steady => F!RoundsSuffice)
  OBVIOUS
<1>1. FeeInv => (Steady => F!RoundsSuffice)
  BY FeeShows
<1> QED
  BY <1>1, FeeInit, FeeKeeps, PTL

LEMMA FeesOfMore ==
    ASSUME NEW n \in Nat, NEW m \in Nat, n <= m, NEW i \in Nat, NEW s \in Nat, i <= s
    PROVE  F!recordingFee(n, i) <= F!recordingFee(m, s)
<1> DEFINE a == n * FeeNum * i
           b == m * FeeNum * s
           d == FeeDen
<1>1. FeeNum \in Nat /\ d \in Nat /\ d > 0
  BY FeeConstants
<1>2. a \in Nat /\ b \in Nat /\ a <= b
  <2> DEFINE k == n * FeeNum
             l == m * FeeNum
  <2>1. k \in Nat /\ l \in Nat /\ k <= l
    BY <1>1
  <2> HIDE DEF k, l
  <2>2. k * i <= l * i /\ l * i <= l * s /\ k * i \in Nat /\ l * i \in Nat /\ l * s \in Nat
    BY <2>1
  <2> QED
    BY <2>2 DEF k, l
<1>3. F!recordingFee(n, i) = F!ceilDiv(a, d) /\ F!recordingFee(m, s) = F!ceilDiv(b, d)
  BY DEF F!recordingFee
<1> HIDE DEF a, b, d
<1>4. F!ceilDiv(b, d) \in Nat /\ b <= F!ceilDiv(b, d) * d
  BY <1>1, <1>2, CeilIs
<1>5. F!ceilDiv(b, d) * d \in Int
  BY <1>1, <1>4
<1>6. a <= F!ceilDiv(b, d) * d
  BY <1>2, <1>4, <1>5
<1>7. F!ceilDiv(a, d) <= F!ceilDiv(b, d)
  BY <1>1, <1>2, <1>4, <1>6, CeilIs
<1> QED
  BY <1>3, <1>7

\* The bytes a page can grow by never cost more than one size of amounts is from the next
\* but one.
BytesAreCheap ==
    /\ F!BigLen(TotalHi) <= 127
    /\ \A s \in Shares : F!recordingFee(F!BigLen(TotalHi) + 5, s) <= 32640

LEMMA CheapIsSteady == ASSUME FeeInv, BytesAreCheap PROVE Steady
<1>1. order.total \in Nat /\ order.total <= TotalHi /\ info \in Nat
  BY OrdersTyped DEF FeeInv, OrderTyped
<1>2. PICK s \in Shares : info <= s
  BY DEF FeeInv
<1> DEFINE k == F!BigLen(order.total)
           l == F!BigLen(TotalHi)
<1>3. k \in Nat /\ l \in Nat /\ k <= l /\ l <= 127 /\ F!recordingFee(l + 5, s) <= 32640
  BY <1>1, FeeConstants, BigLenIs, BigLenGrows DEF BytesAreCheap
<1>4. s \in Nat
  BY FeeConstants
<1> HIDE DEF k, l
<1>5. k + 5 \in Nat /\ l + 5 \in Nat /\ k + 5 <= l + 5 /\ l + 5 <= l + 5
  BY <1>3
<1>6. F!recordingFee(k + 5, info) <= F!recordingFee(l + 5, s)
  BY <1>1, <1>2, <1>4, <1>5, FeesOfMore
<1>7. F!recordingFee(k + 5, info) \in Int /\ F!recordingFee(l + 5, s) \in Int
  <2>1. l + 5 <= l + 5 + 0 /\ k + 5 <= k + 5 /\ k + 5 <= k + 5 + 0 /\ 0 \in Nat
    BY <1>5
  <2> QED
    BY <1>1, <1>4, <1>5, <2>1, FeeGrows
<1> QED
  BY <1>3, <1>6, <1>7 DEF Steady, Swing, k

\* RoundsFindAmounts for the orders of the run, wherever a byte is cheap.
THEOREM ScreensRoundsSuffice ==
    RewardNum = 0 /\ BytesAreCheap => (MCSpec => []RoundsSuffice)
<1> SUFFICES ASSUME RewardNum = 0, BytesAreCheap PROVE MCSpec => []RoundsSuffice
  OBVIOUS
<1>1. MCInit => F!Init
  BY DEF MCInit
<1>2. [MCNext]_<<part, historyVars, vendorVars, coopVars, feeVars, vars, simVars>>
      => [F!Next]_F!vars
  BY DEF MCNext, HistoryStep, VendorStep, CoopStep, FeeStep, ItemStep, SimStep, feeVars, F!vars
<1>3. FeeInv => RoundsSuffice
  BY FeeShows, CheapIsSteady DEF RoundsSuffice
<1> QED
  BY <1>1, <1>2, <1>3, FeeInit, FeeKeeps, PTL DEF MCSpec

-----------------------------------------------------------------------------
(* DataItems. *)

ScreensItemInv ==
    IF part = "items" THEN ItemInv ELSE item = NotYet /\ wire = <<>> /\ json = NotYet

LEMMA ScreensItemInit == MCInit => ScreensItemInv
BY ItemInit DEF MCInit, ScreensItemInv

LEMMA ScreensItemKeeps ==
    ScreensItemInv /\ [MCNext]_<<part, historyVars, vendorVars, coopVars, feeVars, vars, simVars>>
        => ScreensItemInv'
<1> SUFFICES ASSUME ScreensItemInv,
                    [MCNext]_<<part, historyVars, vendorVars, coopVars, feeVars, vars, simVars>>
             PROVE  ScreensItemInv'
  OBVIOUS
<1>1. ASSUME UNCHANGED <<part, vars>> PROVE ScreensItemInv'
  <2>1. part' = part /\ item' = item /\ wire' = wire /\ json' = json
    BY <1>1 DEF vars
  <2>2. ItemInv => ItemInv'
    BY <1>1, ItemKeeps
  <2> QED
    BY <2>1, <2>2 DEF ScreensItemInv
<1>2. ASSUME ItemStep PROVE ScreensItemInv'
  <2>1. part = "items" /\ part' = part /\ Next
    BY <1>2 DEF ItemStep
  <2>2. ItemInv'
    BY <2>1, ItemKeeps DEF ScreensItemInv
  <2> QED
    BY <2>1, <2>2 DEF ScreensItemInv
<1> QED
  BY <1>1, <1>2 DEF MCNext, HistoryStep, VendorStep, CoopStep, FeeStep, SimStep

LEMMA ScreensItemShows == ASSUME ScreensItemInv PROVE ItemsTrue
<1>1. CASE part = "items"
  BY <1>1, ItemShows DEF ScreensItemInv, ItemsTrue
<1>2. CASE part # "items"
  <2>1. item = NotYet /\ wire = <<>> /\ json = NotYet
    BY <1>2 DEF ScreensItemInv
  <2>2. ~IsItem
    BY <2>1 DEF IsItem
  <2> QED
    BY <2>1, <2>2 DEF ItemsTrue, FormsAgree, SigningCovers, ReadBack, PostedAsSigned, AmountsExact,
                      BidsExact, SignedApart, DigestStands
<1> QED
  BY <1>1, <1>2

\* ItemsAreTrue in the run: whatever is written is read as it was written, and a signature
\* is for one item alone.
THEOREM ScreensItemsTrue == MCSpec => []ItemsTrue
BY ScreensItemInit, ScreensItemKeeps, ScreensItemShows, PTL DEF MCSpec

=============================================================================
