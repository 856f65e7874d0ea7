---------------------------- MODULE EscrowCards -----------------------------
(***************************************************************************)
(* The wallet's list of atomic swaps: cards kept in memory by every tab    *)
(* and, whole lists at a time, in localStorage (ao-pwa: EscrowView.tsx,    *)
(* useStore.ts), while executeCaa locks shares on the source chain.        *)
(*                                                                         *)
(* EscrowView signs for the counterparty with a key made on the spot, so   *)
(* the destination chain never takes its component: binding, the status    *)
(* 'finalized', the CAA hash of a card and with it polling are never       *)
(* reached from the view, and are left to CaaExchange.                     *)
(***************************************************************************)
EXTENDS Naturals

CONSTANTS
    Tabs,           \* tabs of the wallet in one browser
    Swaps,
    Secs,           \* duration of an escrow
    Happenings,     \* what may happen besides: see Possible
    \* bound of the instance
    MaxTime

Possible == {"lost", "reload", "leave"}

CardConstants == {Secs, MaxTime} \subseteq Nat \ {0} /\ Happenings \subseteq Possible

VARIABLES
    escrow,         \* of each swap, on the source chain
    deadline,       \* 0 until the swap is proposed
    cards,          \* activeEscrows of each tab
    stored,         \* ao_escrows in localStorage
    run,            \* executeCaa of each swap
    open,           \* tabs that show EscrowView
    submitting,     \* tabs whose view executes a swap
    dismissed,      \* swaps the user has taken off the list
    now

vars == <<escrow, deadline, cards, stored, run, open, submitting, dismissed, now>>
page == <<cards, stored>>

Statuses == {"absent", "submitting", "expired", "failed"}
NoList == [s \in Swaps |-> "absent"]
NoRun == [tab |-> "none", step |-> "none", reply |-> "none", alive |-> FALSE, mounted |-> FALSE]

----------------------------------------------------------------------------
\* saveEscrows: the whole list of the tab.
Save(t, list) ==
    /\ cards' = [cards EXCEPT ![t] = list]
    /\ stored' = list

\* updateEscrow: a card that is not there stays away.
Update(t, s, status) ==
    Save(t, IF cards[t][s] = "absent" THEN cards[t] ELSE [cards[t] EXCEPT ![s] = status])

\* handleSubmit: the card first, then executeCaa and its first request.
Propose(t, s) ==
    /\ t \in open /\ t \notin submitting /\ deadline[s] = 0 /\ now < MaxTime
    /\ deadline' = [deadline EXCEPT ![s] = now + Secs]
    /\ Save(t, [cards[t] EXCEPT ![s] = "submitting"])
    /\ run' = [run EXCEPT ![s] = [tab |-> t, step |-> "source", reply |-> "none",
                                  alive |-> TRUE, mounted |-> TRUE]]
    /\ submitting' = submitting \cup {t}
    /\ UNCHANGED <<escrow, open, dismissed, now>>

\* A recorder answers.  The source chain takes the component before the
\* deadline if the view's guess of the fee is right; the destination refuses.
Serve(s) ==
    /\ run[s].step # "none" /\ run[s].reply = "none"
    /\ \/ /\ run[s].step = "source" /\ now < deadline[s]
          /\ escrow' = [escrow EXCEPT ![s] = "escrowed"]
          /\ run' = [run EXCEPT ![s].reply = "ok"]
       \/ /\ run' = [run EXCEPT ![s].reply = "refused"]
          /\ UNCHANGED escrow
    /\ UNCHANGED <<deadline, page, open, submitting, dismissed, now>>

\* executeCaa goes on to the next chain.
Continue(s) ==
    /\ run[s].alive /\ run[s].reply = "ok"
    /\ run' = [run EXCEPT ![s].step = "destination", ![s].reply = "none"]
    /\ UNCHANGED <<escrow, deadline, page, open, submitting, dismissed, now>>

\* The catch and the finally of handleSubmit; setSubmitting does nothing once
\* the view it belongs to is gone.
Fail(s) ==
    /\ run[s].alive
    /\ run[s].reply = "refused" \/ "lost" \in Happenings
    /\ Update(run[s].tab, s, "failed")
    /\ run' = [run EXCEPT ![s].alive = FALSE]
    /\ submitting' = IF run[s].mounted THEN submitting \ {run[s].tab} ELSE submitting
    /\ UNCHANGED <<escrow, deadline, open, dismissed, now>>

CountdownRunning(t, s) ==   \* mutant: the timer runs with the swap only
    /\ t \in open /\ run[s].alive
    /\ cards[t][s] = "submitting" /\ now >= deadline[s]
    /\ Update(t, s, "expired")
    /\ UNCHANGED <<escrow, deadline, run, open, submitting, dismissed, now>>
\* The timer of a card; expiry of the card stops it.
Countdown(t, s) ==
    /\ t \in open
    /\ cards[t][s] = "submitting" /\ now >= deadline[s]
    /\ Update(t, s, "expired")
    /\ UNCHANGED <<escrow, deadline, run, open, submitting, dismissed, now>>

Dismiss(t, s) ==            \* removeEscrow
    /\ t \in open /\ cards[t][s] \in {"expired", "failed"}
    /\ Save(t, [cards[t] EXCEPT ![s] = "absent"])
    /\ dismissed' = dismissed \cup {s}
    /\ UNCHANGED <<escrow, deadline, run, open, submitting, now>>

Leave(t) ==
    /\ "leave" \in Happenings /\ t \in open
    /\ open' = open \ {t}
    /\ submitting' = submitting \ {t}
    /\ run' = [s \in Swaps |-> IF run[s].tab = t THEN [run[s] EXCEPT !.mounted = FALSE]
                               ELSE run[s]]
    /\ UNCHANGED <<escrow, deadline, page, dismissed, now>>

Open(t) ==
    /\ t \notin open
    /\ open' = open \cup {t}
    /\ UNCHANGED <<escrow, deadline, page, run, submitting, dismissed, now>>

\* The page is loaded again: loadEscrows, and no executeCaa any more.
Reload(t) ==
    /\ "reload" \in Happenings
    /\ cards' = [cards EXCEPT ![t] = stored]
    /\ run' = [s \in Swaps |-> IF run[s].tab = t
                               THEN [run[s] EXCEPT !.alive = FALSE, !.mounted = FALSE]
                               ELSE run[s]]
    /\ submitting' = submitting \ {t}
    /\ UNCHANGED <<escrow, deadline, stored, open, dismissed, now>>

\* A later block of the source chain releases the escrow.
Sweep(s) ==
    /\ escrow[s] = "escrowed" /\ now > deadline[s]
    /\ escrow' = [escrow EXCEPT ![s] = "expired"]
    /\ UNCHANGED <<deadline, page, run, open, submitting, dismissed, now>>

Tick ==
    /\ now < MaxTime + Secs
    /\ now' = now + 1
    /\ UNCHANGED <<escrow, deadline, page, run, open, submitting, dismissed>>

----------------------------------------------------------------------------
Init ==
    /\ escrow = [s \in Swaps |-> "none"] /\ deadline = [s \in Swaps |-> 0]
    /\ cards = [t \in Tabs |-> NoList] /\ stored = NoList
    /\ run = [s \in Swaps |-> NoRun]
    /\ open = Tabs /\ submitting = {} /\ dismissed = {} /\ now = 1

Next ==
    \/ Tick
    \/ \E s \in Swaps : Serve(s) \/ Continue(s) \/ Fail(s) \/ Sweep(s)
    \/ \E t \in Tabs : Leave(t) \/ Open(t) \/ Reload(t)
    \/ \E t \in Tabs, s \in Swaps : Propose(t, s) \/ Countdown(t, s) \/ Dismiss(t, s)

Spec == Init /\ [][Next]_vars

\* Time passes, and the user comes back to the view now and then and stays for
\* the second a timer takes.
FairSpec ==
    /\ Spec /\ WF_vars(Tick)
    /\ \A t \in Tabs : WF_vars(Open(t))
    /\ \A t \in Tabs, s \in Swaps : SF_vars(Countdown(t, s))

----------------------------------------------------------------------------
\* Types, and the button of a view is off only while a swap of that very view
\* is under way (the finally of EscrowView.tsx).
TypeOK ==
    /\ escrow \in [Swaps -> {"none", "escrowed", "expired"}]
    /\ cards \in [Tabs -> [Swaps -> Statuses]] /\ stored \in [Swaps -> Statuses]
    /\ open \subseteq Tabs /\ submitting \subseteq open /\ dismissed \subseteq Swaps
    /\ \A t \in submitting : \E s \in Swaps : run[s].tab = t /\ run[s].alive /\ run[s].mounted

\* No card stays 'submitting', not even when the page that proposed the swap
\* is gone (the countdown of EscrowCard).
CardSettles ==
    \A t \in Tabs, s \in Swaps :
        cards[t][s] = "submitting" ~> cards[t][s] # "submitting"

----------------------------------------------------------------------------
(* What documents and comments say and the code does not keep for some     *)
(* values of the constants: README, 3.4.                                   *)

\* Shares that are locked are on the stored list until the user takes the swap
\* off, whenever the page is loaded again (addEscrow before executeCaa).
LockedIsListed ==
    \A s \in Swaps : (escrow[s] = "escrowed" /\ s \notin dismissed) => stored[s] # "absent"
=============================================================================
