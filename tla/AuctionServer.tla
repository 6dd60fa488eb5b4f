--------------------------- MODULE AuctionServer ---------------------------
(***************************************************************************)
(* The request handlers of the auction server, src/server/server.c, over   *)
(* the database of AuctionDb.                                              *)
(*                                                                         *)
(* The server is one process with one select loop, so a handler is not     *)
(* interrupted by another one.  Three things make it hard all the same:    *)
(*   - the process may die between two file operations of a handler (the   *)
(*     SIGINT handler calls exit wherever the signal finds the program),   *)
(*     and the next server starts from the files it left;                  *)
(*   - the clock moves while a handler runs, and a handler reads it more   *)
(*     than once: the later readings of one handler are at most Lag        *)
(*     seconds after the first;                                            *)
(*   - nothing closes an auction when its time is up: the first request    *)
(*     that looks at it afterwards does.                                   *)
(* A handler is one action.  Its last disjunct, Die, leaves on disk one of *)
(* the trees that its file operations go through.                          *)
(***************************************************************************)
EXTENDS AuctionDb

CONSTANTS
    MaxTime,        \* bound: the last second of the clock
    MaxCrashes,     \* bound: how often the server dies
    Lag,            \* seconds between the first and last clock reading of a handler
    NoReply         \* the server died before it answered

ASSUME MaxTimeAssumption == MaxTime \in Nat
ASSUME MaxCrashesAssumption == MaxCrashes \in Nat
ASSUME LagAssumption == Lag \in Nat

Statuses == {"OK", "NOK", "REG", "UNR", "NLG", "EAU", "EOW", "END",
             "ACC", "REF", "ILG", "ERR", NoReply}

VARIABLES
    disk,           \* the file tree, which outlives the server
    up,             \* the server process runs
    now,            \* time(NULL), in seconds
    reply,          \* the status of the last answer
    crashes,        \* how often the server died
    accepted,       \* the bids answered with ACC
    announced       \* the auctions answered with an aid, as they were requested

vars == <<disk, up, now, reply, crashes, accepted, announced>>

\* What clients have been told.  No action reads these two.
promises == <<accepted, announced>>

TypeOK ==
    /\ disk \in Tree
    /\ up \in BOOLEAN
    /\ now \in Nat
    /\ reply \in Statuses
    /\ crashes \in Nat
    /\ accepted \subseteq [aid : Aids, uid : Users, value : Values]
    /\ announced \subseteq [aid : Aids, info : StartInfo]

\* The clock starts at 1, long after the second 0 of an unreadable START.
Init ==
    /\ disk = create_defaults
    /\ up = TRUE
    /\ now = 1
    /\ reply = NoReply
    /\ crashes = 0
    /\ accepted = {}
    /\ announced = {}

----------------------------------------------------------------------------
(***************************************************************************)
(* How a handler ends.                                                     *)
(***************************************************************************)

\* It answers with status r, its last clock reading being t.
Answer(d, t, r) ==
    /\ disk' = d
    /\ now' = t
    /\ reply' = r
    /\ UNCHANGED <<up, crashes>>

\* It dies leaving one of the trees D.
Die(D, t) ==
    /\ crashes < MaxCrashes
    /\ disk' \in D
    /\ now' = t
    /\ reply' = NoReply
    /\ up' = FALSE
    /\ crashes' = crashes + 1
    /\ UNCHANGED promises

\* It turns d into the tree of its last file operation, by way of D.
Complete(D, d, t, r) ==
    \/ Answer(d, t, r) /\ UNCHANGED promises
    \/ Die(D \cup {d}, t)

Refuse(r) == Answer(disk, now, r) /\ UNCHANGED promises

\* The later readings of the clock.
Readings == {t \in now .. now + Lag : t <= MaxTime}

----------------------------------------------------------------------------
(***************************************************************************)
(* Accounts.                                                               *)
(***************************************************************************)

Login(u, p) ==
    /\ up
    /\ \/ /\ ~user_registered(disk, u)
          /\ LET registered == user_register(disk, u, p)
             IN  Complete(user_register_torn(disk, u) \cup {registered},
                          user_login(registered, u), now, "REG")
       \/ /\ user_registered(disk, u)
          /\ ~user_loggedin(disk, u)
          /\ user_ok_password(disk, u, p)
          /\ Complete({}, user_login(disk, u), now, "OK")
       \/ /\ user_registered(disk, u)
          /\ user_loggedin(disk, u)
          /\ user_ok_password(disk, u, p)
          /\ Refuse("OK")
       \/ /\ user_registered(disk, u)
          /\ ~user_ok_password(disk, u, p)
          /\ Refuse("NOK")

Logout(u, p) ==
    /\ up
    /\ \/ /\ ~user_registered(disk, u)
          /\ Refuse("UNR")
       \/ /\ user_registered(disk, u)
          /\ ~user_loggedin(disk, u)
          /\ Refuse("NOK")
       \/ /\ user_registered(disk, u)
          /\ user_loggedin(disk, u)
          /\ ~user_ok_password(disk, u, p)
          /\ Refuse("ERR")
       \/ /\ user_registered(disk, u)
          /\ user_loggedin(disk, u)
          /\ user_ok_password(disk, u, p)
          /\ Complete({}, user_logout(disk, u), now, "OK")

Unregister(u, p) ==
    /\ up
    /\ \/ /\ ~user_registered(disk, u)
          /\ Refuse("UNR")
       \/ /\ user_registered(disk, u)
          /\ ~user_ok_password(disk, u, p)
          /\ Refuse("ERR")
       \/ /\ user_registered(disk, u)
          /\ user_ok_password(disk, u, p)
          /\ ~user_loggedin(disk, u)
          /\ Refuse("NOK")
       \/ /\ user_registered(disk, u)
          /\ user_ok_password(disk, u, p)
          /\ user_loggedin(disk, u)
          /\ Complete(unregister_torn(disk, u),
                      user_unregister(user_logout(disk, u), u), now, "OK")

----------------------------------------------------------------------------
(***************************************************************************)
(* Auctions.                                                               *)
(***************************************************************************)

\* The checks that open_auc and close_auc share, answered with r.
Unauthorised(u, p, r) ==
    \/ /\ ~user_registered(disk, u)
       /\ r = "NOK"
    \/ /\ user_registered(disk, u)
       /\ ~user_loggedin(disk, u)
       /\ r = "NLG"
    \/ /\ user_registered(disk, u)
       /\ user_loggedin(disk, u)
       /\ ~user_ok_password(disk, u, p)
       /\ r = "NOK"

Authorised(u, p) ==
    /\ user_registered(disk, u)
    /\ user_loggedin(disk, u)
    /\ user_ok_password(disk, u, p)

Announce(u, v, s) ==
    LET a == auction_count(disk) + 1
        info == [owner |-> u, value |-> v, duration |-> s, time |-> now]
    IN  \/ /\ a \notin Aids \/ auction_exists(disk, a)
           /\ Refuse("ERR")
        \/ /\ a \in Aids
           /\ ~auction_exists(disk, a)
           /\ u \in disk.hostedDir
           /\ \/ /\ Answer(auction_open(disk, a, info), now, "OK")
                 /\ announced' = announced \cup {[aid |-> a, info |-> info]}
                 /\ UNCHANGED accepted
              \/ Die(auction_open_torn(disk, a, info)
                        \cup {auction_open(disk, a, info)}, now)
        \/ /\ a \in Aids
           /\ ~auction_exists(disk, a)
           /\ u \notin disk.hostedDir
           /\ Complete(auction_open_failed_torn(disk, a, info),
                       auction_open_failed(disk, a), now, "ERR")

OpenAuc(u, p, v, s) ==
    /\ up
    /\ \/ \E r \in Statuses : Unauthorised(u, p, r) /\ Refuse(r)
       \/ Authorised(u, p) /\ Announce(u, v, s)

\* Looks at the auctions S, closing the ones whose time is up.  An auction
\* that expires while the handler runs is found expired or not.
Look(S, r) ==
    \E t \in Readings :
        \E E \in SUBSET {a \in S : expired(disk, a, t)} :
            /\ {a \in S : expired(disk, a, now)} \subseteq E
            /\ Complete(auction_update_torn(disk, E), auction_update(disk, E), t, r)

CloseAuc(u, p, a) ==
    /\ up
    /\ \/ \E r \in Statuses : Unauthorised(u, p, r) /\ Refuse(r)
       \/ /\ Authorised(u, p)
          /\ ~auction_exists(disk, a)
          /\ Refuse("EAU")
       \/ /\ Authorised(u, p)
          /\ auction_exists(disk, a)
          /\ ~auction_is_owner(disk, a, u)
          /\ Refuse("EOW")
       \/ /\ Authorised(u, p)
          /\ auction_exists(disk, a)
          /\ auction_is_owner(disk, a, u)
          /\ \/ /\ expired(disk, a, now) \/ auction_closed(disk, a)
                /\ LET E == {b \in {a} : expired(disk, b, now)}
                   IN  Complete(auction_update_torn(disk, E),
                                auction_update(disk, E), now, "END")
             \/ /\ ~expired(disk, a, now)
                /\ ~auction_closed(disk, a)
                /\ \E t \in Readings :
                      Complete(auction_close_torn(disk, a, t),
                               auction_close_now(disk, a, t), t, "OK")

UserAuctions(u) ==
    /\ up
    /\ \/ /\ ~user_registered(disk, u) \/ ~user_loggedin(disk, u)
          /\ Refuse("NLG")
       \/ /\ user_registered(disk, u)
          /\ user_loggedin(disk, u)
          /\ \/ /\ u \in disk.hostedDir
                /\ disk.hosted[u] = {}
                /\ Refuse("NOK")
             \/ /\ disk.hosted[u] # {}
                /\ Look(disk.hosted[u], "OK")
             \* count_entries is -1, list_auctions NULL, and list_res reads it.
             \/ /\ u \notin disk.hostedDir
                /\ Die({disk}, now)

UserBids(u) ==
    /\ up
    /\ \/ /\ ~user_registered(disk, u) \/ ~user_loggedin(disk, u)
          /\ Refuse("NLG")
       \/ /\ user_registered(disk, u)
          /\ user_loggedin(disk, u)
          /\ \/ /\ u \in disk.biddedDir
                /\ disk.bidded[u] = {}
                /\ Refuse("NOK")
             \/ /\ disk.bidded[u] # {}
                /\ Look(disk.bidded[u], "OK")
             \/ /\ u \notin disk.biddedDir
                /\ Die({disk}, now)

List ==
    /\ up
    /\ \/ /\ disk.auction = {}
          /\ Refuse("NOK")
       \/ /\ disk.auction # {}
          /\ Look(disk.auction, "OK")

\* Reads the clock for its own auction_update and again in auction_end_info.
ShowRecord(a) ==
    /\ up
    /\ \/ /\ ~auction_exists(disk, a)
          /\ Refuse("NOK")
       \/ /\ auction_exists(disk, a)
          /\ Look({a}, "OK")

----------------------------------------------------------------------------
(***************************************************************************)
(* Bids.                                                                   *)
(***************************************************************************)

PlaceBid(u, a, v, t) ==
    \/ /\ a \notin disk.bidsDir
       /\ Refuse("ERR")
    \/ /\ a \in disk.bidsDir
       /\ u \in disk.biddedDir
       /\ \/ /\ Answer(make_bid(disk, u, a, v, t), t, "ACC")
             /\ accepted' = accepted \cup {[aid |-> a, uid |-> u, value |-> v]}
             /\ UNCHANGED announced
          \/ Die(make_bid_torn(disk, u, a, v, t)
                    \cup {make_bid(disk, u, a, v, t)}, t)
    \/ /\ a \in disk.bidsDir
       /\ u \notin disk.biddedDir
       /\ Complete({create_bid(disk, a, v)},
                   make_bid_failed(disk, u, a, v, t), t, "ERR")

\* The first check is the one of the auction: it does not ask whether the
\* auction exists, nor any later one whether the user is registered.
Bid(u, p, a, v) ==
    /\ up
    /\ \/ /\ expired(disk, a, now) \/ auction_closed(disk, a)
          /\ LET E == {b \in {a} : expired(disk, b, now)}
             IN  Complete(auction_update_torn(disk, E),
                          auction_update(disk, E), now, "NOK")
       \/ /\ ~expired(disk, a, now)
          /\ ~auction_closed(disk, a)
          /\ \/ /\ ~user_loggedin(disk, u)
                /\ Refuse("NLG")
             \/ /\ user_loggedin(disk, u)
                /\ ~user_ok_password(disk, u, p) \/ v = 0
                /\ Refuse("ERR")
             \/ /\ user_loggedin(disk, u)
                /\ user_ok_password(disk, u, p)
                /\ v # 0
                /\ ~bid_value_ok(disk, a, v)
                /\ Refuse("REF")
             \/ /\ user_loggedin(disk, u)
                /\ user_ok_password(disk, u, p)
                /\ v # 0
                /\ bid_value_ok(disk, a, v)
                /\ auction_is_owner(disk, a, u)
                /\ Refuse("ILG")
             \/ /\ user_loggedin(disk, u)
                /\ user_ok_password(disk, u, p)
                /\ v # 0
                /\ bid_value_ok(disk, a, v)
                /\ ~auction_is_owner(disk, a, u)
                /\ \E t \in Readings : PlaceBid(u, a, v, t)

----------------------------------------------------------------------------
(***************************************************************************)
(* The world around the handlers.                                          *)
(***************************************************************************)

Tick ==
    /\ now < MaxTime
    /\ now' = now + 1
    /\ UNCHANGED <<disk, up, reply, crashes, promises>>

\* The process dies before a handler's first file operation or between two
\* requests: by SIGINT, or because strtok was handed the NULL of a missing
\* START file (undefined: it may also carry on as if the file were blank).
Kill ==
    /\ up
    /\ Die({disk}, now)

\* main: create_defaults finds its directories and changes nothing.
Restart ==
    /\ ~up
    /\ up' = TRUE
    /\ UNCHANGED <<disk, now, reply, crashes, promises>>

Next ==
    \/ \E u \in Users, p \in Passwords :
           \/ Login(u, p)
           \/ Logout(u, p)
           \/ Unregister(u, p)
           \/ \E v \in Values, s \in Durations : OpenAuc(u, p, v, s)
           \/ \E a \in Aids : CloseAuc(u, p, a)
           \/ \E a \in Aids, v \in Values : Bid(u, p, a, v)
    \/ \E u \in Users : UserAuctions(u) \/ UserBids(u)
    \/ List
    \/ \E a \in Aids : ShowRecord(a)
    \/ Tick
    \/ Kill
    \/ Restart

Spec == Init /\ [][Next]_vars

----------------------------------------------------------------------------
(***************************************************************************)
(* Properties.                                                             *)
(***************************************************************************)

\* A logged-in user has a complete password file.  bid checks that the user
\* is logged in but never that he is registered: it relies on login writing
\* the password before the login file and on unregister removing them in the
\* opposite order, whenever the process dies in between.
LoggedInHasPassword ==
    \A u \in disk.login :
        /\ u \in disk.userDir
        /\ disk.pass[u] \in Passwords

\* A bid that was answered with ACC is never lost: it is on file under its
\* bidder, its auction is in the bidder's BIDDED list, and the current bid is
\* at least as high, whatever later bids, unregistrations and crashes did.
\* The file is named after the value and overwritten without a check, so this
\* hangs on make_bid raising CURRENT_BID before it answers.
AcceptedBidStands ==
    \A b \in accepted :
        /\ disk.bids[b.aid][b.value] \in BidInfo
        /\ disk.bids[b.aid][b.value].uid = b.uid
        /\ b.aid \in disk.bidded[b.uid]
        /\ get_current_bid(disk, b.aid) >= b.value

\* An auction whose aid the owner was given keeps the terms it was opened
\* with, stays in the owner's HOSTED list and never takes a current bid below
\* its start value.
AnnouncedAuctionStands ==
    \A x \in announced :
        /\ disk.start[x.aid] = x.info
        /\ x.aid \in disk.hosted[x.info.owner]
        /\ x.aid \in disk.bidsDir
        /\ disk.current[x.aid] \in Nat
        /\ disk.current[x.aid] >= x.info.value

\* Every bid on file for an announced auction is above its start value, is not
\* the owner's, and was made before the auction's time was up, give or take
\* the seconds that bid itself runs: even one that was never acknowledged.
BidsAreLegal ==
    \A x \in announced : \A v \in Values :
        disk.bids[x.aid][v] # NoFile =>
            /\ v > x.info.value
            /\ disk.bids[x.aid][v] \in BidInfo =>
                   /\ disk.bids[x.aid][v].uid # x.info.owner
                   /\ disk.bids[x.aid][v].elapsed <= x.info.duration + Lag

\* As long as the server has not died, CURRENT_BID is the highest bid on file,
\* or the start value of an auction without bids.
CurrentBidIsHighest ==
    crashes = 0 =>
        \A x \in announced :
            LET bidden == {v \in Values : disk.bids[x.aid][v] # NoFile}
            IN  /\ disk.current[x.aid] \in bidden \cup {x.info.value}
                /\ \A v \in bidden : v <= disk.current[x.aid]

\* The aids handed out are 1, 2, 3, ...: auction_open derives the next one
\* from the number of directories, so a gap would make it hand one out twice.
AidsContiguous == disk.auction = 1 .. Cardinality(disk.auction)

\* As long as the server has not died, a closed auction's record is complete,
\* its date and its duration tell the same moment, and that moment is not
\* after the time the auction was to stay open, give or take the seconds the
\* handler runs.  There is one exception: a closing by the owner that is dated
\* so late that it takes a digit more than the planned time.  When the planned
\* time is written over it, that digit stays behind.
EndRecordAgrees ==
    crashes = 0 =>
        \A x \in announced :
            disk.end[x.aid] # NoFile =>
                LET end == disk.end[x.aid]
                    planned == x.info.duration
                    late == {[time |-> x.info.time + s, elapsed |-> s] :
                                s \in (planned + 1) .. (planned + Lag)}
                IN  /\ end.elapsed \in Nat
                    /\ \/ /\ end.time = x.info.time + end.elapsed
                          /\ end.elapsed <= planned + Lag
                       \/ /\ end.time = x.info.time + planned
                          /\ end.elapsed \in {rewritten(e, planned) : e \in late}

\* No bid on file is younger than the closing of its auction, give or take the
\* seconds a handler runs.
NoBidAfterEnd ==
    \A x \in announced :
        disk.end[x.aid] # NoFile /\ disk.end[x.aid].elapsed \in Nat =>
            \A v \in Values :
                disk.bids[x.aid][v] \in BidInfo =>
                    disk.bids[x.aid][v].elapsed <= disk.end[x.aid].elapsed + Lag

\* Once an END file exists the auction is closed for good: no step of any
\* handler, crash or restart removes it, nor adds or changes a bid.
ClosedIsFinal ==
    [][\A a \in Aids :
           disk.end[a] # NoFile =>
               /\ disk'.end[a] # NoFile
               /\ disk'.bids[a] = disk.bids[a]
               /\ disk'.current[a] = disk.current[a]]_vars

\* What the test report tests/good/report_15 shows of a closed auction: the
\* record of when it was closed does not change any more.
EndRecordIsFinal ==
    [][\A a \in Aids :
           (/\ disk.end[a] # NoFile
            /\ disk.end[a].elapsed \in Nat) => disk'.end[a] = disk.end[a]]_vars

----------------------------------------------------------------------------
(***************************************************************************)
(* The promise to the clients.  An auction that a crash left without an    *)
(* answer to its owner is not part of it; bids on it are not either.       *)
(***************************************************************************)

AnnouncedAids == {x.aid : x \in announced}

House == INSTANCE AuctionHouse WITH
             sales <- announced,
             bids  <- {b \in accepted : b.aid \in AnnouncedAids},
             ended <- {a \in AnnouncedAids : disk.end[a] # NoFile},
             clock <- now

\* Seen through its answers, the server is an ascending auction with a
\* deadline (AuctionHouse), whatever crashes it goes through.
ImplementsHouse == House!Spec

----------------------------------------------------------------------------
(***************************************************************************)
(* The inductive invariant behind the safety properties, which             *)
(* AuctionServerProofs shows to be one.                                    *)
(***************************************************************************)

\* The files of an auction come after its directory.
UnusedAids ==
    \A a \in Aids \ disk.auction :
        /\ a \notin disk.bidsDir
        /\ disk.start[a] = NoFile
        /\ disk.current[a] = NoFile
        /\ disk.end[a] = NoFile
        /\ \A v \in Values : disk.bids[a][v] = NoFile

StartedInThePast ==
    \A a \in Aids : auction_parse_info(disk, a).time <= now

PromisesHaveDirectories ==
    /\ \A b \in accepted : b.aid \in disk.auction
    /\ \A x \in announced : x.aid \in disk.auction

BidsInThePast ==
    \A x \in announced : \A v \in Values :
        disk.bids[x.aid][v] \in BidInfo =>
            x.info.time + disk.bids[x.aid][v].elapsed <= now

\* What the handlers rely on when they read the tree.
Readable ==
    /\ TypeOK
    /\ LoggedInHasPassword
    /\ AidsContiguous
    /\ UnusedAids
    /\ StartedInThePast

Inv ==
    /\ Readable
    /\ PromisesHaveDirectories
    /\ AcceptedBidStands
    /\ AnnouncedAuctionStands
    /\ BidsAreLegal
    /\ BidsInThePast
    /\ NoBidAfterEnd

============================================================================
