---------------------------- MODULE AuctionHouse ----------------------------
(***************************************************************************)
(* What the auction server promises its clients, with no files, no crashes *)
(* and no lazy closing: an ascending auction with a deadline.              *)
(*                                                                         *)
(* Only what clients have been told is visible: the auctions whose aid was *)
(* given out, the bids that were accepted, the auctions that are over.     *)
(* AuctionServer is shown to implement this.                               *)
(***************************************************************************)
EXTENDS Integers

CONSTANTS
    Users,
    Values,
    Durations,
    MaxAuctions,
    Lag             \* seconds the house takes over one request

VARIABLES
    sales,          \* the auctions opened: [aid, info]
    bids,           \* the bids accepted: [aid, uid, value]
    ended,          \* the aids of the auctions that are over
    clock

vars == <<sales, bids, ended, clock>>

\* What an auction can be opened with at the moment t.
Terms(t) == [owner : Users, value : Values, duration : Durations, time : {t}]

Aids == 1 .. MaxAuctions

AidsOf(S) == {x.aid : x \in S}

\* Time passes while the house deals with a request.
Elapse == clock' \in clock .. clock + Lag

Init ==
    /\ sales = {}
    /\ bids = {}
    /\ ended = {}
    /\ clock = 1

\* A new auction starts now, under an aid that no auction had before.
Open(a, terms) ==
    /\ a \notin AidsOf(sales)
    /\ sales' = sales \cup {[aid |-> a, info |-> terms]}
    /\ Elapse
    /\ UNCHANGED <<bids, ended>>

\* A bid is accepted while the auction is on, from anyone but its owner, and
\* only above the start value and every bid accepted before.
Accept(x, u, v) ==
    /\ x \in sales
    /\ x.aid \notin ended
    /\ clock <= x.info.time + x.info.duration
    /\ u # x.info.owner
    /\ v > x.info.value
    /\ \A b \in bids : b.aid = x.aid => v > b.value
    /\ bids' = bids \cup {[aid |-> x.aid, uid |-> u, value |-> v]}
    /\ Elapse
    /\ UNCHANGED <<sales, ended>>

\* Auctions end, by their owners or by the clock, and stay ended.
End(S) ==
    /\ S \subseteq AidsOf(sales)
    /\ ended' = ended \cup S
    /\ Elapse
    /\ UNCHANGED <<sales, bids>>

Tick ==
    /\ clock' = clock + 1
    /\ UNCHANGED <<sales, bids, ended>>

Next ==
    \/ \E a \in Aids, terms \in Terms(clock) : Open(a, terms)
    \/ \E x \in sales, u \in Users, v \in Values : Accept(x, u, v)
    \/ \E S \in SUBSET AidsOf(sales) : End(S)
    \/ Tick

Spec == Init /\ [][Next]_vars

============================================================================
