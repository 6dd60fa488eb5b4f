------------------------ MODULE AuctionServerProofs ------------------------
(***************************************************************************)
(* Proofs about AuctionServer, for any number of users, bids, auctions and *)
(* crashes and any lag.                                                    *)
(*                                                                         *)
(* The first half reduces every action to one of five kinds of step, with  *)
(* the relations of AuctionDbProofs.  The second half shows that each kind *)
(* preserves the inductive invariant Inv.                                  *)
(***************************************************************************)
EXTENDS AuctionServer, AuctionDbProofs, FiniteSetTheorems

----------------------------------------------------------------------------
(***************************************************************************)
(* The five kinds of step.                                                 *)
(***************************************************************************)

IdleStep ==
    /\ disk' = disk
    /\ now' \in {now, now + 1}
    /\ UNCHANGED promises

AccountStep ==
    /\ ChangesAccount(disk, disk')
    /\ crashes' = 0 /\ DirsWhole(disk) => DirsWhole(disk')
    /\ now' = now
    /\ UNCHANGED promises

\* The END files of e that d has not: of an auction whose time is up, or of
\* one closed by its owner at the moment t.
RecordsEnds(d, e, t) ==
    \A a \in Aids :
        \/ e.end[a] = d.end[a]
        \/ e.end[a] = [time |-> deadline(d, a),
                       elapsed |-> rewritten(d.end[a], auction_parse_info(d, a).duration)]
        \/ /\ d.end[a] = NoFile
           /\ t <= deadline(d, a) + Lag
           /\ e.end[a] = [time |-> t, elapsed |-> t - auction_parse_info(d, a).time]

CloseStep ==
    /\ ClosesAuctions(disk, disk', now')
    /\ crashes' = 0 => RecordsEnds(disk, disk', now')
    /\ now' \in now .. now + Lag
    /\ UNCHANGED promises

OpenStep(a, info) ==
    /\ a = Cardinality(disk.auction) + 1
    /\ a \notin disk.auction
    /\ info.time = now
    /\ OpensAuction(disk, disk', a, info)
    /\ now' = now
    /\ UNCHANGED accepted
    /\ \/ UNCHANGED announced
       \/ /\ announced' = announced \cup {[aid |-> a, info |-> info]}
          /\ disk'.start[a] = info
          /\ a \in disk'.hosted[info.owner]
          /\ a \in disk'.bidsDir
          /\ disk'.current[a] = info.value

BidStep(u, a, v) ==
    /\ a \in disk.auction
    /\ disk.end[a] = NoFile
    /\ now <= deadline(disk, a)
    /\ v > get_current_bid(disk, a)
    /\ v # 0
    /\ u # auction_parse_info(disk, a).owner
    /\ FilesBid(disk, disk', u, a, v, now')
    /\ crashes' = 0 /\ DirsWhole(disk) =>
           disk'.bids[a][v] \in BidInfo /\ disk'.current[a] = v
    /\ now' \in now .. now + Lag
    /\ UNCHANGED announced
    /\ \/ UNCHANGED accepted
       \/ /\ accepted' = accepted \cup {[aid |-> a, uid |-> u, value |-> v]}
          /\ disk'.bids[a][v] \in BidInfo
          /\ disk'.bids[a][v].uid = u
          /\ a \in disk'.bidded[u]
          /\ disk'.current[a] = v

Step ==
    \/ IdleStep
    \/ AccountStep
    \/ CloseStep
    \/ \E a \in Aids, info \in StartInfo : OpenStep(a, info)
    \/ \E u \in Users, a \in Aids, v \in Values : BidStep(u, a, v)

----------------------------------------------------------------------------

\* A handler that completes or dies leaves one of its trees and promises nothing.
LEMMA CompleteEffect ==
    ASSUME NEW D, NEW d, NEW t, NEW r, Complete(D, d, t, r)
    PROVE  /\ disk' \in D \cup {d}
           /\ now' = t
           /\ UNCHANGED promises
  BY DEF Complete, Answer, Die, promises

\* One that has not died leaves the last of its trees.
LEMMA CompletedEffect ==
    ASSUME Readable, NEW D, NEW d, NEW t, NEW r, Complete(D, d, t, r), crashes' = 0
    PROVE  disk' = d
  BY DEF Complete, Answer, Die, Readable, TypeOK

\* A refusal changes no file.
LEMMA RefuseStep ==
    ASSUME NEW r, Refuse(r)
    PROVE  IdleStep
  BY DEF Refuse, Answer, IdleStep, promises

\* What Readable says of the accounts and the clock, in the terms of the
\* database lemmas.
LEMMA SoundAccounts ==
    ASSUME Readable
    PROVE  disk \in Tree /\ AccountsSound(disk) /\ now \in Nat /\ Lag \in Nat
  BY LagAssumption DEF Readable, TypeOK, LoggedInHasPassword, AccountsSound

\* login (server.c:42) changes an account or nothing.
LEMMA LoginStep ==
    ASSUME Readable, NEW u \in Users, NEW p \in Passwords, Login(u, p)
    PROVE  Step
  <1> USE SoundAccounts
  <1> DEFINE r == user_register(disk, u, p)
  <1>1. CASE /\ ~user_registered(disk, u)
             /\ Complete(user_register_torn(disk, u) \cup {r}, user_login(r, u), now, "REG")
    <2>1. /\ disk' \in user_register_torn(disk, u) \cup {r, user_login(r, u)}
          /\ now' = now
          /\ UNCHANGED promises
      BY <1>1, CompleteEffect
    <2>2. ChangesAccount(disk, disk')
      BY <1>1, <2>1, RegisterChangesAccount
    <2>3. crashes' = 0 /\ DirsWhole(disk) => DirsWhole(disk')
      BY <1>1, CompletedEffect, AccountsKeepDirs
    <2> QED BY <2>1, <2>2, <2>3 DEF Step, AccountStep
  <1>2. CASE /\ user_registered(disk, u)
             /\ user_ok_password(disk, u, p)
             /\ Complete({}, user_login(disk, u), now, "OK")
    <2>1. disk' = user_login(disk, u) /\ now' = now /\ UNCHANGED promises
      BY <1>2, CompleteEffect
    <2>2. ChangesAccount(disk, disk')
      BY <1>2, <2>1, LoginChangesAccount
    <2>3. DirsWhole(disk) => DirsWhole(disk')
      BY <2>1, AccountsKeepDirs
    <2> QED BY <2>1, <2>2, <2>3 DEF Step, AccountStep
  <1>3. CASE \E s \in Statuses : Refuse(s)
    BY <1>3, RefuseStep DEF Step
  <1> QED BY <1>1, <1>2, <1>3 DEF Login, Statuses

\* logout (server.c:70) changes an account or nothing.
LEMMA LogoutStep ==
    ASSUME Readable, NEW u \in Users, NEW p \in Passwords, Logout(u, p)
    PROVE  Step
  <1> USE SoundAccounts
  <1>1. CASE Complete({}, user_logout(disk, u), now, "OK")
    <2>1. disk' = user_logout(disk, u) /\ now' = now /\ UNCHANGED promises
      BY <1>1, CompleteEffect
    <2>2. ChangesAccount(disk, disk')
      BY <2>1, UnregisterChangesAccount
    <2>3. DirsWhole(disk) => DirsWhole(disk')
      BY <2>1, AccountsKeepDirs
    <2> QED BY <2>1, <2>2, <2>3 DEF Step, AccountStep
  <1>2. CASE \E s \in Statuses : Refuse(s)
    BY <1>2, RefuseStep DEF Step
  <1> QED BY <1>1, <1>2 DEF Logout, Statuses

\* unregister (server.c:88) changes an account or nothing.
LEMMA UnregisterStep ==
    ASSUME Readable, NEW u \in Users, NEW p \in Passwords, Unregister(u, p)
    PROVE  Step
  <1> USE SoundAccounts
  <1> DEFINE gone == user_unregister(user_logout(disk, u), u)
  <1>1. CASE Complete(unregister_torn(disk, u), gone, now, "OK")
    <2>1. disk' \in {user_logout(disk, u), gone} /\ now' = now /\ UNCHANGED promises
      BY <1>1, CompleteEffect DEF unregister_torn
    <2>2. ChangesAccount(disk, disk')
      BY <2>1, UnregisterChangesAccount
    <2>3. DirsWhole(disk) => DirsWhole(disk')
      BY <2>1, AccountsKeepDirs
    <2> QED BY <2>1, <2>2, <2>3 DEF Step, AccountStep
  <1>2. CASE \E s \in Statuses : Refuse(s)
    BY <1>2, RefuseStep DEF Step
  <1> QED BY <1>1, <1>2 DEF Unregister, Statuses

\* A request refused for who makes it changes nothing (server.c:124).
LEMMA UnauthorisedStep ==
    ASSUME NEW u, NEW p, \E r \in Statuses : Unauthorised(u, p, r) /\ Refuse(r)
    PROVE  Step
  BY RefuseStep DEF Step

\* auction_open as open_auc calls it opens the next aid or nothing (server.c:116).
LEMMA AnnounceStep ==
    ASSUME Readable, NEW u \in Users, NEW v \in Values, NEW s \in Durations,
           Announce(u, v, s)
    PROVE  Step
  <1> USE SoundAccounts
  <1> DEFINE a == auction_count(disk) + 1
             info == [owner |-> u, value |-> v, duration |-> s, time |-> now]
             D == auction_open_torn(disk, a, info) \cup {auction_open(disk, a, info)}
  <1>1. a = Cardinality(disk.auction) + 1
    BY DEF auction_count
  <1>2. info \in StartInfo /\ info.time = now /\ info.owner = u
    BY DEF StartInfo
  <1>3. a \in Aids /\ ~auction_exists(disk, a) => a \notin disk.auction /\ disk.start[a] = NoFile
    BY DEF auction_exists, Readable, UnusedAids
  <1>4. CASE Refuse("ERR")
    BY <1>4, RefuseStep DEF Step
  <1>5. CASE /\ a \in Aids
             /\ ~auction_exists(disk, a)
             /\ Answer(auction_open(disk, a, info), now, "OK")
             /\ announced' = announced \cup {[aid |-> a, info |-> info]}
             /\ UNCHANGED accepted
    <2>1. disk' = auction_open(disk, a, info) /\ now' = now
      BY <1>5 DEF Answer
    <2> HIDE DEF a, info
    <2>2. OpensAuction(disk, disk', a, info)
      BY <1>2, <1>3, <1>5, <2>1, OpenOpensAuction
    <2>3. /\ disk'.start[a] = info
          /\ a \in disk'.hosted[info.owner]
          /\ a \in disk'.bidsDir
          /\ disk'.current[a] = info.value
      BY <1>2, <1>5, <2>1, OpenedAuction
    <2>4. OpenStep(a, info)
      BY <1>1, <1>2, <1>3, <1>5, <2>1, <2>2, <2>3 DEF OpenStep
    <2> QED BY <1>2, <1>5, <2>4 DEF Step
  <1>6. CASE /\ a \in Aids
             /\ ~auction_exists(disk, a)
             /\ Die(D, now)
    <2>1. disk' \in D /\ now' = now /\ UNCHANGED promises
      BY <1>6 DEF Die
    <2> HIDE DEF a, info
    <2>2. OpensAuction(disk, disk', a, info)
      BY <1>2, <1>3, <1>6, <2>1, OpenOpensAuction
    <2>3. OpenStep(a, info)
      BY <1>1, <1>2, <1>3, <1>6, <2>1, <2>2 DEF OpenStep, promises
    <2> QED BY <1>2, <1>6, <2>3 DEF Step
  <1>7. CASE /\ a \in Aids
             /\ ~auction_exists(disk, a)
             /\ Complete(auction_open_failed_torn(disk, a, info),
                         auction_open_failed(disk, a), now, "ERR")
    <2>1. /\ disk' \in auction_open_failed_torn(disk, a, info)
                          \cup {auction_open_failed(disk, a)}
          /\ now' = now
          /\ UNCHANGED promises
      BY <1>7, CompleteEffect
    <2> HIDE DEF a, info
    <2>2. OpensAuction(disk, disk', a, info)
      BY <1>2, <1>3, <1>7, <2>1, OpenOpensAuction
    <2>3. OpenStep(a, info)
      BY <1>1, <1>2, <1>3, <1>7, <2>1, <2>2 DEF OpenStep, promises
    <2> QED BY <1>2, <1>7, <2>3 DEF Step
  <1> QED BY <1>4, <1>5, <1>6, <1>7 DEF Announce

\* open_auc (server.c:105) opens an auction or nothing.
LEMMA OpenAucStep ==
    ASSUME Readable, NEW u \in Users, NEW p \in Passwords, NEW v \in Values,
           NEW s \in Durations, OpenAuc(u, p, v, s)
    PROVE  Step
  BY UnauthorisedStep, AnnounceStep DEF OpenAuc

\* Every request that calls auction_update on expired auctions.
LEMMA UpdateStep ==
    ASSUME Readable, NEW t \in now .. now + Lag, NEW E \in SUBSET disk.auction, NEW r,
           Complete(auction_update_torn(disk, E), auction_update(disk, E), t, r)
    PROVE  Step
  <1> USE SoundAccounts
  <1>1. t \in Nat
    OBVIOUS
  <1>2. /\ disk' \in auction_update_torn(disk, E) \cup {auction_update(disk, E)}
        /\ now' = t
        /\ UNCHANGED promises
    BY CompleteEffect
  <1>3. ClosesAuctions(disk, disk', t)
    BY <1>1, <1>2, UpdateClosesAuctions, TornUpdateClosesAuctions
  <1>4. ASSUME crashes' = 0 PROVE RecordsEnds(disk, disk', t)
    <2>1. disk' = auction_update(disk, E)
      BY <1>4, CompletedEffect
    <2>2. \A a \in Aids : disk'.end[a] =
              IF a \in E
              THEN [time |-> deadline(disk, a),
                    elapsed |-> rewritten(disk.end[a], auction_parse_info(disk, a).duration)]
              ELSE disk.end[a]
      BY <2>1 DEF Tree, auction_update
    <2> QED BY <2>2 DEF RecordsEnds
  <1> QED BY <1>2, <1>3, <1>4 DEF Step, CloseStep

\* Look (db.c:225, server.c:232) closes auctions whose time is up, some or none.
LEMMA LookStep ==
    ASSUME Readable, NEW S, NEW r, Look(S, r)
    PROVE  Step
  <1>0. PICK t \in Readings :
            \E E \in SUBSET {a \in S : expired(disk, a, t)} :
                Complete(auction_update_torn(disk, E), auction_update(disk, E), t, r)
    BY DEF Look
  <1>1. PICK E \in SUBSET {a \in S : expired(disk, a, t)} :
            Complete(auction_update_torn(disk, E), auction_update(disk, E), t, r)
    BY <1>0
  <1>2. E \in SUBSET disk.auction
    BY <1>1 DEF expired, auction_exists
  <1>3. t \in now .. now + Lag
    BY <1>1 DEF Readings
  <1> QED BY <1>1, <1>2, <1>3, UpdateStep

\* close_auc and bid look at one auction first.
LEMMA UpdateOneStep ==
    ASSUME Readable, NEW a, NEW r,
           LET E == {b \in {a} : expired(disk, b, now)}
           IN  Complete(auction_update_torn(disk, E), auction_update(disk, E), now, r)
    PROVE  Step
  <1> DEFINE E == {b \in {a} : expired(disk, b, now)}
  <1>1. E \in SUBSET disk.auction
    BY DEF expired, auction_exists
  <1>2. now \in now .. now + Lag
    BY SoundAccounts
  <1> QED BY <1>1, <1>2, UpdateStep

\* close_auc (server.c:123) closes an auction or nothing.
LEMMA CloseAucStep ==
    ASSUME Readable, NEW u \in Users, NEW p \in Passwords, NEW a \in Aids,
           CloseAuc(u, p, a)
    PROVE  Step
  <1> USE SoundAccounts
  <1>1. CASE \E r \in Statuses : Refuse(r)
    BY <1>1, RefuseStep DEF Step
  <1>2. CASE LET E == {b \in {a} : expired(disk, b, now)}
             IN  Complete(auction_update_torn(disk, E), auction_update(disk, E), now, "END")
    BY <1>2, UpdateOneStep
  <1>3. CASE /\ auction_exists(disk, a)
             /\ ~expired(disk, a, now)
             /\ ~auction_closed(disk, a)
             /\ \E t \in Readings :
                    Complete(auction_close_torn(disk, a, t),
                             auction_close_now(disk, a, t), t, "OK")
    <2>1. PICK t \in Readings : Complete(auction_close_torn(disk, a, t),
                                         auction_close_now(disk, a, t), t, "OK")
      BY <1>3
    <2>2. t \in now .. now + Lag /\ t \in Nat
      BY <2>1 DEF Readings
    <2>3. /\ disk' \in auction_close_torn(disk, a, t) \cup {auction_close_now(disk, a, t)}
          /\ now' = t
          /\ UNCHANGED promises
      BY <2>1, CompleteEffect
    <2>4. a \in disk.auction /\ auction_parse_info(disk, a).time <= t
      <3>1. auction_parse_info(disk, a).time <= now
        BY DEF Readable, StartedInThePast
      <3>2. auction_parse_info(disk, a).time \in Nat
        BY InfoType
      <3> QED BY <1>3, <2>2, <3>1, <3>2 DEF auction_exists
    <2>5. ClosesAuctions(disk, disk', t)
      BY <2>2, <2>3, <2>4, CloseNowClosesAuctions
    <2>6. ASSUME crashes' = 0 PROVE RecordsEnds(disk, disk', t)
      <3>1. disk' = auction_close_now(disk, a, t)
        BY <2>1, <2>6, CompletedEffect
      <3>2. disk.end[a] = NoFile /\ t <= deadline(disk, a) + Lag
        BY <1>3, <2>2, InfoType DEF auction_closed, expired
      <3>3. rewritten(disk.end[a], t - auction_parse_info(disk, a).time)
                = t - auction_parse_info(disk, a).time
        BY <3>2 DEF rewritten
      <3>4. \A b \in Aids : disk'.end[b] =
                IF b = a
                THEN [time |-> t, elapsed |-> t - auction_parse_info(disk, a).time]
                ELSE disk.end[b]
        BY <3>1, <3>3 DEF Tree, auction_close_now, auction_close
      <3> QED BY <3>2, <3>4 DEF RecordsEnds
    <2> QED BY <2>2, <2>3, <2>5, <2>6 DEF Step, CloseStep
  <1> QED BY <1>1, <1>2, <1>3 DEF CloseAuc, Statuses

\* Dying before a handler's first file operation changes no file (server.c:28).
LEMMA KillStep ==
    ASSUME Die({disk}, now)
    PROVE  Step
  BY DEF Die, Step, IdleStep

\* The requests that only look close the auctions whose time is up
\* (server.c:142 to 252).
LEMMA ListsStep ==
    ASSUME Readable
    PROVE  /\ \A u \in Users : UserAuctions(u) \/ UserBids(u) => Step
           /\ List => Step
           /\ \A a \in Aids : ShowRecord(a) => Step
  <1>1. (\E r \in Statuses : Refuse(r)) => Step
    BY RefuseStep DEF Step
  <1>2. \A u \in Users : UserAuctions(u) => Step
    BY <1>1, LookStep, KillStep DEF UserAuctions, Statuses
  <1>3. \A u \in Users : UserBids(u) => Step
    BY <1>1, LookStep, KillStep DEF UserBids, Statuses
  <1>4. List => Step
    BY <1>1, LookStep DEF List, Statuses
  <1>5. \A a \in Aids : ShowRecord(a) => Step
    BY <1>1, LookStep DEF ShowRecord, Statuses
  <1> QED BY <1>2, <1>3, <1>4, <1>5

\* make_bid as bid calls it files one bid, above the current one (server.c:226).
LEMMA PlaceBidStep ==
    ASSUME Readable, NEW u \in Users, NEW a \in Aids, NEW v \in Values,
           NEW t \in Readings, PlaceBid(u, a, v, t),
           ~expired(disk, a, now), ~auction_closed(disk, a), v # 0,
           bid_value_ok(disk, a, v), ~auction_is_owner(disk, a, u),
           user_loggedin(disk, u)
    PROVE  Step
  <1> USE SoundAccounts
  <1>1. CASE Refuse("ERR")
    BY <1>1, RefuseStep DEF Step
  <1>2. CASE a \in disk.bidsDir /\ ~Refuse("ERR")
    <2>1. t \in Nat /\ t \in now .. now + Lag
      BY DEF Readings
    <2>2. auction_parse_info(disk, a).time \in Nat /\ auction_parse_info(disk, a).time <= t
      BY <2>1, InfoType DEF Readable, StartedInThePast
    <2>3. a \in disk.auction
      BY <1>2 DEF Readable, UnusedAids
    <2>4. now <= deadline(disk, a)
      BY <2>3, InfoType DEF expired, auction_exists
    <2>5. /\ disk.end[a] = NoFile
          /\ v > get_current_bid(disk, a)
          /\ u # auction_parse_info(disk, a).owner
      BY DEF auction_closed, bid_value_ok, auction_is_owner
    <2>6. CASE /\ Answer(make_bid(disk, u, a, v, t), t, "ACC")
               /\ accepted' = accepted \cup {[aid |-> a, uid |-> u, value |-> v]}
               /\ UNCHANGED announced
      <3>1. disk' = make_bid(disk, u, a, v, t) /\ now' = t
        BY <2>6 DEF Answer
      <3>2. FilesBid(disk, disk', u, a, v, t)
        BY <2>1, <2>2, <3>1, MakeBidFilesBid
      <3>3. /\ disk'.bids[a][v] \in BidInfo
            /\ disk'.bids[a][v].uid = u
            /\ a \in disk'.bidded[u]
            /\ disk'.current[a] = v
        <4> DEFINE e == make_bid(disk, u, a, v, t)
        <4>1. /\ e.bids[a][v] \in BidInfo
              /\ e.bids[a][v].uid = u
              /\ a \in e.bidded[u]
              /\ e.current[a] = v
          BY <2>1, <2>2, MadeBid
        <4> QED BY <3>1, <4>1
      <3>4. BidStep(u, a, v)
        BY <2>1, <2>3, <2>4, <2>5, <2>6, <3>1, <3>2, <3>3 DEF BidStep
      <3> QED BY <3>4 DEF Step
    <2>7. CASE Die(make_bid_torn(disk, u, a, v, t) \cup {make_bid(disk, u, a, v, t)}, t)
      <3>1. /\ disk' \in make_bid_torn(disk, u, a, v, t) \cup {make_bid(disk, u, a, v, t)}
            /\ now' = t
            /\ UNCHANGED promises
        BY <2>7 DEF Die
      <3>2. FilesBid(disk, disk', u, a, v, t)
        BY <2>1, <2>2, <3>1, MakeBidFilesBid
      <3>3. crashes' # 0
        BY <2>7 DEF Die, Readable, TypeOK
      <3>4. BidStep(u, a, v)
        BY <2>1, <2>3, <2>4, <2>5, <3>1, <3>2, <3>3 DEF BidStep, promises
      <3> QED BY <3>4 DEF Step
    <2>8. CASE /\ u \notin disk.biddedDir
               /\ Complete({create_bid(disk, a, v)},
                           make_bid_failed(disk, u, a, v, t), t, "ERR")
      <3>1. /\ disk' \in {create_bid(disk, a, v), make_bid_failed(disk, u, a, v, t)}
            /\ now' = t
            /\ UNCHANGED promises
        BY <2>8, CompleteEffect
      <3>2. FilesBid(disk, disk', u, a, v, t)
        BY <2>1, <2>2, <3>1, MakeBidFilesBid
      <3>3. ~ DirsWhole(disk)
        BY <2>8 DEF DirsWhole, Readable, LoggedInHasPassword, user_loggedin
      <3>4. BidStep(u, a, v)
        BY <2>1, <2>3, <2>4, <2>5, <3>1, <3>2, <3>3 DEF BidStep, promises
      <3> QED BY <3>4 DEF Step
    <2> QED BY <1>2, <2>6, <2>7, <2>8 DEF PlaceBid
  <1> QED BY <1>1, <1>2 DEF PlaceBid

\* bid (server.c:211) files a bid, closes an auction or does nothing.
LEMMA BidRequestStep ==
    ASSUME Readable, NEW u \in Users, NEW p \in Passwords, NEW a \in Aids,
           NEW v \in Values, Bid(u, p, a, v)
    PROVE  Step
  <1>1. CASE \E r \in Statuses : Refuse(r)
    BY <1>1, RefuseStep DEF Step
  <1>2. CASE LET E == {b \in {a} : expired(disk, b, now)}
             IN  Complete(auction_update_torn(disk, E), auction_update(disk, E), now, "NOK")
    BY <1>2, UpdateOneStep
  <1>3. CASE /\ ~expired(disk, a, now)
             /\ ~auction_closed(disk, a)
             /\ v # 0
             /\ bid_value_ok(disk, a, v)
             /\ ~auction_is_owner(disk, a, u)
             /\ user_loggedin(disk, u)
             /\ \E t \in Readings : PlaceBid(u, a, v, t)
    BY <1>3, PlaceBidStep
  <1> QED BY <1>1, <1>2, <1>3 DEF Bid, Statuses

\* The reduction: whatever the server does is one of the five kinds of step.
LEMMA NextStep ==
    ASSUME Readable, [Next]_vars
    PROVE  Step
  <1>1. CASE UNCHANGED vars
    BY <1>1 DEF vars, Step, IdleStep, promises
  <1>2. CASE Tick \/ Restart \/ Kill
    BY <1>2, KillStep DEF Tick, Restart, Kill, Step, IdleStep, promises
  <1>3. ASSUME NEW u \in Users, NEW p \in Passwords,
               \/ Login(u, p)
               \/ Logout(u, p)
               \/ Unregister(u, p)
               \/ \E v \in Values, s \in Durations : OpenAuc(u, p, v, s)
               \/ \E a \in Aids : CloseAuc(u, p, a)
               \/ \E a \in Aids, v \in Values : Bid(u, p, a, v)
        PROVE  Step
    BY <1>3, LoginStep, LogoutStep, UnregisterStep, OpenAucStep, CloseAucStep,
       BidRequestStep
  <1>4. CASE \/ \E u \in Users : UserAuctions(u) \/ UserBids(u)
             \/ List
             \/ \E a \in Aids : ShowRecord(a)
    BY <1>4, ListsStep
  <1> QED BY <1>1, <1>2, <1>3, <1>4 DEF Next
----------------------------------------------------------------------------
(***************************************************************************)
(* The invariant.                                                          *)
(***************************************************************************)

\* The clock does not go back.
LEMMA StepClock ==
    ASSUME Readable, Step
    PROVE  now' \in Nat /\ now <= now'
  BY SoundAccounts DEF Step, IdleStep, AccountStep, CloseStep, OpenStep, BidStep

\* At most one promise is made at a time, and none is taken back.
LEMMA StepPromises ==
    ASSUME Readable, Step
    PROVE  /\ \/ accepted' = accepted
              \/ \E b \in [aid : Aids, uid : Users, value : Values] :
                     accepted' = accepted \cup {b}
           /\ \/ announced' = announced
              \/ \E x \in [aid : Aids, info : StartInfo] :
                     announced' = announced \cup {x}
  BY DEF Step, IdleStep, AccountStep, CloseStep, OpenStep, BidStep, promises

\* Whatever the server does, it answers with a status or dies once more.
LEMMA ProcessEffect ==
    ASSUME Readable, [Next]_vars
    PROVE  /\ up' \in BOOLEAN
           /\ crashes' \in Nat
           /\ crashes <= crashes'
           /\ reply' \in Statuses
  <1> DEFINE T == up' \in BOOLEAN /\ crashes' \in Nat /\ crashes <= crashes' /\ reply' \in Statuses
  <1>0. up \in BOOLEAN /\ crashes \in Nat /\ reply \in Statuses
    BY DEF Readable, TypeOK
  <1>1. ASSUME NEW d, NEW t, NEW r \in Statuses, Answer(d, t, r) PROVE T
    BY <1>0, <1>1 DEF Answer
  <1>2. ASSUME NEW D, NEW t, Die(D, t) PROVE T
    <2>1. up' \in BOOLEAN
      BY <1>2 DEF Die
    <2>2. crashes' \in Nat /\ crashes <= crashes'
      BY <1>0, <1>2 DEF Die
    <2>3. reply' \in Statuses
      BY <1>2 DEF Die, Statuses
    <2> QED BY <2>1, <2>2, <2>3
  <1>3. ASSUME NEW D, NEW d, NEW t, NEW r \in Statuses, Complete(D, d, t, r) PROVE T
    BY <1>1, <1>2, <1>3 DEF Complete
  <1>4. ASSUME NEW r \in Statuses, Refuse(r) PROVE T
    BY <1>1, <1>4 DEF Refuse
  <1>5. ASSUME NEW S, Look(S, "OK") PROVE T
    BY <1>3, <1>5 DEF Look, Statuses
  <1> HIDE DEF T
  <1>6. ASSUME NEW u \in Users, NEW p \in Passwords PROVE
        /\ Login(u, p) \/ Logout(u, p) \/ Unregister(u, p) => T
        /\ \A v \in Values, s \in Durations : OpenAuc(u, p, v, s) => T
        /\ \A a \in Aids : CloseAuc(u, p, a) => T
        /\ \A a \in Aids, v \in Values : Bid(u, p, a, v) => T
    <2>1. Login(u, p) \/ Logout(u, p) \/ Unregister(u, p) => T
      BY <1>3, <1>4 DEF Login, Logout, Unregister, Statuses
    <2>2. \A v \in Values, s \in Durations : OpenAuc(u, p, v, s) => T
      BY <1>1, <1>2, <1>3, <1>4 DEF OpenAuc, Announce, Statuses
    <2>3. \A a \in Aids : CloseAuc(u, p, a) => T
      BY <1>3, <1>4 DEF CloseAuc, Statuses
    <2>4. \A a \in Aids, v \in Values, t \in Readings : PlaceBid(u, a, v, t) => T
      BY <1>1, <1>2, <1>3, <1>4 DEF PlaceBid, Statuses
    <2>5. \A a \in Aids, v \in Values : Bid(u, p, a, v) => T
      BY <1>3, <1>4, <2>4 DEF Bid, Statuses
    <2> QED BY <2>1, <2>2, <2>3, <2>5
  <1>7. /\ \A u \in Users : UserAuctions(u) \/ UserBids(u) => T
        /\ List => T
        /\ \A a \in Aids : ShowRecord(a) => T
    BY <1>2, <1>4, <1>5 DEF UserAuctions, UserBids, List, ShowRecord, Statuses
  <1>8. Tick \/ Kill \/ Restart \/ UNCHANGED vars => T
    <2>1. crashes <= crashes
      BY <1>0
    <2>2. Tick \/ Restart \/ UNCHANGED vars => T
      BY <1>0, <2>1 DEF Tick, Restart, vars, T
    <2> QED BY <1>2, <2>2 DEF Kill
  <1>9. T
    BY <1>6, <1>7, <1>8 DEF Next
  <1> QED BY <1>9 DEF T

\* Every kind of step keeps the types.
LEMMA TypePreserved ==
    ASSUME Readable, [Next]_vars, Step
    PROVE  TypeOK'
  <1>1. disk' \in Tree
    <2>1. CASE IdleStep
      BY <2>1, SoundAccounts DEF IdleStep
    <2>2. CASE AccountStep
      BY <2>2 DEF AccountStep, ChangesAccount
    <2>3. CASE CloseStep
      BY <2>3 DEF CloseStep, ClosesAuctions
    <2>4. CASE \E a \in Aids, info \in StartInfo : OpenStep(a, info)
      BY <2>4 DEF OpenStep, OpensAuction
    <2>5. CASE \E u \in Users, a \in Aids, v \in Values : BidStep(u, a, v)
      BY <2>5 DEF BidStep, FilesBid
    <2> QED BY <2>1, <2>2, <2>3, <2>4, <2>5 DEF Step
  <1>2. now' \in Nat
    BY StepClock
  <1>3. /\ accepted' \subseteq [aid : Aids, uid : Users, value : Values]
        /\ announced' \subseteq [aid : Aids, info : StartInfo]
    BY StepPromises DEF Readable, TypeOK
  <1>4. up' \in BOOLEAN /\ crashes' \in Nat /\ reply' \in Statuses
    BY ProcessEffect
  <1> QED BY <1>1, <1>2, <1>3, <1>4 DEF TypeOK

\* Every kind of step keeps a password behind every login.
LEMMA AccountsPreserved ==
    ASSUME Readable, Step
    PROVE  LoggedInHasPassword'
  <1>1. LoggedInHasPassword
    BY DEF Readable
  <1>2. CASE AccountStep
    BY <1>2 DEF AccountStep, ChangesAccount, AccountsSound, LoggedInHasPassword
  <1>3. CASE SameAccounts(disk, disk')
    BY <1>1, <1>3 DEF SameAccounts, LoggedInHasPassword
  <1>4. AccountStep \/ SameAccounts(disk, disk')
    <2>1. IdleStep => SameAccounts(disk, disk')
      BY DEF IdleStep, SameAccounts
    <2>2. CloseStep => SameAccounts(disk, disk')
      BY DEF CloseStep, ClosesAuctions
    <2>3. \A a \in Aids, info \in StartInfo :
              OpenStep(a, info) => SameAccounts(disk, disk')
      BY DEF OpenStep, OpensAuction
    <2>4. \A u \in Users, a \in Aids, v \in Values :
              BidStep(u, a, v) => SameAccounts(disk, disk')
      BY DEF BidStep, FilesBid
    <2> QED BY <2>1, <2>2, <2>3, <2>4 DEF Step
  <1> QED BY <1>2, <1>3, <1>4

\* Every kind of step keeps the aids without a gap (db.c:738).
LEMMA AidsPreserved ==
    ASSUME Readable, Step
    PROVE  AidsContiguous'
  <1>1. AidsContiguous
    BY DEF Readable
  <1>2. CASE disk'.auction = disk.auction
    BY <1>1, <1>2 DEF AidsContiguous
  <1>3. CASE \E a \in Aids, info \in StartInfo : OpenStep(a, info)
    <2>1. PICK a \in Aids, info \in StartInfo : OpenStep(a, info)
      BY <1>3
    <2> DEFINE n == Cardinality(disk.auction)
    <2>2. IsFiniteSet(disk.auction)
      <3>1. Aids = 1 .. MaxAuctions /\ IsFiniteSet(Aids)
        BY MaxAuctionsAssumption, FS_Interval DEF Aids
      <3> QED BY <3>1, FS_Subset, SoundAccounts DEF Tree
    <2>3. n \in Nat /\ disk.auction = 1 .. n
      BY <1>1, <2>2, FS_CardinalityType DEF AidsContiguous
    <2>4. a = n + 1 /\ a \notin disk.auction /\ disk'.auction = disk.auction \cup {a}
      BY <2>1 DEF OpenStep, OpensAuction
    <2>5. Cardinality(disk'.auction) = n + 1
      BY <2>2, <2>4, FS_AddElement
    <2>6. disk'.auction = 1 .. (n + 1)
      BY <2>3, <2>4
    <2> QED BY <2>5, <2>6 DEF AidsContiguous
  <1>4. IdleStep \/ AccountStep => disk'.auction = disk.auction
    BY DEF IdleStep, AccountStep, ChangesAccount, SameAuctions
  <1>5. CloseStep => disk'.auction = disk.auction
    BY DEF CloseStep, ClosesAuctions, SameAuctions
  <1>6. \A u \in Users, a \in Aids, v \in Values :
            BidStep(u, a, v) => disk'.auction = disk.auction
    BY DEF BidStep, FilesBid
  <1> QED BY <1>2, <1>3, <1>4, <1>5, <1>6 DEF Step
----------------------------------------------------------------------------

\* A step that leaves auctions and promises alone.
QuietStep ==
    /\ SameAuctions(disk, disk')
    /\ SameIndexes(disk, disk')
    /\ disk'.end = disk.end
    /\ UNCHANGED <<accepted, announced>>

\* The steps that change no auction are alike for what follows.
LEMMA StepCases ==
    ASSUME Step
    PROVE  \/ QuietStep
           \/ CloseStep
           \/ \E a \in Aids, info \in StartInfo : OpenStep(a, info)
           \/ \E u \in Users, a \in Aids, v \in Values : BidStep(u, a, v)
  BY DEF Step, IdleStep, AccountStep, QuietStep, ChangesAccount, SameAuctions,
     SameIndexes, promises

\* No file of an auction appears before its directory (db.c:753).
LEMMA UnusedAidsPreserved ==
    ASSUME Readable, Step
    PROVE  UnusedAids'
  <1> USE DEF UnusedAids
  <1>0. UnusedAids
    BY DEF Readable
  <1>1. CASE QuietStep
    BY <1>0, <1>1 DEF QuietStep, SameAuctions
  <1>2. CASE CloseStep
    <2>1. \A a \in Aids \ disk.auction : disk'.end[a] = disk.end[a]
      BY <1>2 DEF CloseStep, ClosesAuctions, WritesEnd
    <2> QED BY <1>0, <1>2, <2>1 DEF CloseStep, ClosesAuctions, SameAuctions
  <1>3. ASSUME NEW a \in Aids, NEW info \in StartInfo, OpenStep(a, info)
        PROVE  UnusedAids'
    BY <1>0, <1>3 DEF OpenStep, OpensAuction
  <1>4. ASSUME NEW u \in Users, NEW a \in Aids, NEW v \in Values, BidStep(u, a, v)
        PROVE  UnusedAids'
    <2>1. a \in disk.auction
      BY <1>4 DEF BidStep
    <2>2. \A b \in Aids \ disk.auction :
              /\ disk'.current[b] = disk.current[b]
              /\ \A w \in Values : disk'.bids[b][w] = disk.bids[b][w]
      BY <1>4, <2>1 DEF BidStep, FilesBid
    <2> QED BY <1>0, <1>4, <2>2 DEF BidStep, FilesBid
  <1> QED BY <1>1, <1>2, <1>3, <1>4, StepCases

\* No auction starts in the future (db.c:769).
LEMMA StartedInThePastPreserved ==
    ASSUME Readable, Step
    PROVE  StartedInThePast'
  <1>0. /\ StartedInThePast
        /\ now \in Nat
        /\ now' \in Nat
        /\ now <= now'
        /\ \A a \in Aids : auction_parse_info(disk, a).time \in Nat
    BY StepClock, InfoType, SoundAccounts DEF Readable
  <1>1. CASE disk'.start = disk.start
    BY <1>0, <1>1 DEF StartedInThePast, auction_parse_info
  <1>2. ASSUME NEW a \in Aids, NEW info \in StartInfo, OpenStep(a, info)
        PROVE  StartedInThePast'
    <2>1. /\ disk'.start[a] \in {NoFile, Blank, info}
          /\ \A b \in Aids \ {a} : disk'.start[b] = disk.start[b]
          /\ info.time = now
      BY <1>2 DEF OpenStep, OpensAuction
    <2>2. auction_parse_info(disk, a)'.time \in {0, now}
      BY <2>1 DEF auction_parse_info, ZeroInfo
    <2>3. \A b \in Aids \ {a} : auction_parse_info(disk, b)' = auction_parse_info(disk, b)
      BY <2>1 DEF auction_parse_info
    <2> QED BY <1>0, <2>2, <2>3 DEF StartedInThePast
  <1>3. QuietStep \/ CloseStep => disk'.start = disk.start
    BY DEF QuietStep, SameAuctions, CloseStep, ClosesAuctions
  <1>4. \A u \in Users, a \in Aids, v \in Values :
            BidStep(u, a, v) => disk'.start = disk.start
    BY DEF BidStep, FilesBid
  <1> QED BY <1>1, <1>2, <1>3, <1>4, StepCases

\* Auctions are never removed, so promises keep their directories.
LEMMA PromisesHaveDirectoriesPreserved ==
    ASSUME Inv, Step
    PROVE  PromisesHaveDirectories'
  <1> USE DEF PromisesHaveDirectories
  <1>0. PromisesHaveDirectories
    BY DEF Inv
  <1>1. CASE QuietStep
    BY <1>0, <1>1 DEF QuietStep, SameAuctions
  <1>2. CASE CloseStep
    BY <1>0, <1>2 DEF CloseStep, ClosesAuctions, SameAuctions, promises
  <1>3. ASSUME NEW a \in Aids, NEW info \in StartInfo, OpenStep(a, info)
        PROVE  PromisesHaveDirectories'
    BY <1>0, <1>3 DEF OpenStep, OpensAuction
  <1>4. ASSUME NEW u \in Users, NEW a \in Aids, NEW v \in Values, BidStep(u, a, v)
        PROVE  PromisesHaveDirectories'
    BY <1>0, <1>4 DEF BidStep, FilesBid
  <1> QED BY <1>1, <1>2, <1>3, <1>4, StepCases
\* A bid of value v sets a current bid that reads as v.
LEMMA CurrentBidReads ==
    ASSUME NEW v \in Values, v # 0
    PROVE  v \notin {NoFile, Blank, 0}
  BY FileAssumption, ValuesAssumption

\* Every kind of step keeps the accepted bids (db.c:916).
LEMMA AcceptedBidPreserved ==
    ASSUME Inv, Step
    PROVE  AcceptedBidStands'
  <1>0. /\ \A b \in accepted : b.aid \in Aids /\ b.value \in Values /\ b.uid \in Users
        /\ AcceptedBidStands
        /\ PromisesHaveDirectories
    BY DEF Inv, Readable, TypeOK
  <1>1. CASE QuietStep
    BY <1>0, <1>1 DEF AcceptedBidStands, QuietStep, SameAuctions, SameIndexes, get_current_bid
  <1>2. CASE CloseStep
    BY <1>0, <1>2 DEF AcceptedBidStands, CloseStep, ClosesAuctions, SameAuctions,
       SameIndexes, get_current_bid, promises
  <1>3. ASSUME NEW a \in Aids, NEW info \in StartInfo, OpenStep(a, info)
        PROVE  AcceptedBidStands'
    <2>1. /\ accepted' = accepted
          /\ disk'.bids = disk.bids
          /\ disk'.bidded = disk.bidded
          /\ \A b \in accepted : disk'.current[b.aid] = disk.current[b.aid]
      BY <1>0, <1>3 DEF OpenStep, OpensAuction, PromisesHaveDirectories
    <2> QED BY <1>0, <2>1 DEF AcceptedBidStands, get_current_bid
  <1>4. ASSUME NEW u \in Users, NEW a \in Aids, NEW v \in Values, BidStep(u, a, v)
        PROVE  AcceptedBidStands'
    <2>0. /\ v \in Nat
          /\ v # 0
          /\ v \notin {NoFile, Blank, 0}
          /\ v > get_current_bid(disk, a)
          /\ FilesBid(disk, disk', u, a, v, now')
      BY <1>4, CurrentBidReads, ValuesAssumption DEF BidStep
    <2>1. ASSUME NEW b \in accepted
          PROVE  /\ disk'.bids[b.aid][b.value] = disk.bids[b.aid][b.value]
                 /\ b.aid \in disk'.bidded[b.uid]
                 /\ get_current_bid(disk', b.aid) >= b.value
      <3>1. /\ get_current_bid(disk, b.aid) >= b.value
            /\ b.value \in Nat
            /\ b.aid \in disk.bidded[b.uid]
        BY <1>0, ValuesAssumption DEF AcceptedBidStands
      <3>2. disk.current[b.aid] \notin {NoFile, Blank, 0}
        BY <3>1 DEF get_current_bid
      <3>3. b.aid \in disk'.bidded[b.uid]
        BY <1>0, <2>0, <3>1 DEF FilesBid
      <3>4. CASE b.aid # a
        <4>1. /\ disk'.bids[b.aid][b.value] = disk.bids[b.aid][b.value]
              /\ disk'.current[b.aid] = disk.current[b.aid]
          BY <1>0, <2>0, <3>4 DEF FilesBid
        <4> QED BY <3>1, <3>3, <4>1 DEF get_current_bid
      <3>5. CASE b.aid = a
        <4>1. disk.current[a] \in Nat /\ get_current_bid(disk, a) = disk.current[a]
          BY <1>0, <3>2, <3>5, ValuesAssumption, SoundAccounts DEF get_current_bid, Tree, Inv
        <4>2. b.value # v
          BY <2>0, <3>1, <3>5, <4>1
        <4>3. disk'.bids[b.aid][b.value] = disk.bids[b.aid][b.value]
          BY <1>0, <2>0, <4>2 DEF FilesBid
        <4>4. disk'.current[a] = disk.current[a] \/ disk'.current[a] = v
          BY <2>0, <3>2, <3>5 DEF FilesBid
        <4>5. get_current_bid(disk', a) >= b.value
          <5>1. CASE disk'.current[a] = disk.current[a]
            BY <3>1, <3>5, <5>1 DEF get_current_bid
          <5>2. CASE disk'.current[a] = v
            BY <2>0, <3>1, <3>5, <4>1, <5>2 DEF get_current_bid
          <5> QED BY <4>4, <5>1, <5>2
        <4> QED BY <3>3, <3>5, <4>3, <4>5
      <3> QED BY <3>4, <3>5
    <2>2. CASE UNCHANGED accepted
      BY <1>0, <2>1, <2>2 DEF AcceptedBidStands
    <2>3. CASE /\ accepted' = accepted \cup {[aid |-> a, uid |-> u, value |-> v]}
               /\ disk'.bids[a][v] \in BidInfo
               /\ disk'.bids[a][v].uid = u
               /\ a \in disk'.bidded[u]
               /\ disk'.current[a] = v
      <3>1. get_current_bid(disk', a) >= v
        BY <2>0, <2>3 DEF get_current_bid
      <3> QED BY <1>0, <2>1, <2>3, <3>1 DEF AcceptedBidStands
    <2> QED BY <1>4, <2>2, <2>3 DEF BidStep
  <1> QED BY <1>1, <1>2, <1>3, <1>4, StepCases

\* Every kind of step keeps the announced auctions (db.c:733).
LEMMA AnnouncedAuctionPreserved ==
    ASSUME Inv, Step
    PROVE  AnnouncedAuctionStands'
  <1>0. /\ \A x \in announced : x.aid \in Aids /\ x.info \in StartInfo
        /\ AnnouncedAuctionStands
        /\ PromisesHaveDirectories
        /\ \A info \in StartInfo : info.value \in Nat /\ info.owner \in Users
    BY ValuesAssumption DEF Inv, Readable, TypeOK, StartInfo
  <1>1. CASE QuietStep
    BY <1>0, <1>1 DEF AnnouncedAuctionStands, QuietStep, SameAuctions, SameIndexes
  <1>2. CASE CloseStep
    BY <1>0, <1>2 DEF AnnouncedAuctionStands, CloseStep, ClosesAuctions, SameAuctions,
       SameIndexes, promises
  <1>3. ASSUME NEW a \in Aids, NEW info \in StartInfo, OpenStep(a, info)
        PROVE  AnnouncedAuctionStands'
    <2>1. \A x \in announced :
              /\ disk'.start[x.aid] = disk.start[x.aid]
              /\ disk'.current[x.aid] = disk.current[x.aid]
              /\ disk.hosted[x.info.owner] \subseteq disk'.hosted[x.info.owner]
              /\ disk.bidsDir \subseteq disk'.bidsDir
      BY <1>0, <1>3 DEF OpenStep, OpensAuction, PromisesHaveDirectories
    <2> QED BY <1>0, <1>3, <2>1 DEF AnnouncedAuctionStands, OpenStep
  <1>4. ASSUME NEW u \in Users, NEW a \in Aids, NEW v \in Values, BidStep(u, a, v)
        PROVE  AnnouncedAuctionStands'
    <2>1. /\ v \in Nat
          /\ v > get_current_bid(disk, a)
          /\ disk'.start = disk.start
          /\ disk'.hosted = disk.hosted
          /\ disk'.bidsDir = disk.bidsDir
          /\ announced' = announced
      BY <1>4, ValuesAssumption DEF BidStep, FilesBid
    <2>2. ASSUME NEW x \in announced
          PROVE  disk'.current[x.aid] \in Nat /\ disk'.current[x.aid] >= x.info.value
      <3>1. disk.current[x.aid] \in Nat /\ disk.current[x.aid] >= x.info.value
        BY <1>0 DEF AnnouncedAuctionStands
      <3>2. CASE x.aid # a
        BY <1>0, <1>4, <3>1, <3>2 DEF BidStep, FilesBid
      <3>3. CASE x.aid = a
        <4>1. disk.current[a] # NoFile /\ disk.current[a] # Blank
          BY <3>1, <3>3, FileAssumption
        <4>2. v >= disk.current[a]
          BY <2>1, <3>1, <3>3, <4>1 DEF get_current_bid
        <4>3. disk'.current[a] \in {disk.current[a], v}
          BY <1>4, <4>1 DEF BidStep, FilesBid
        <4> QED BY <1>0, <2>1, <3>1, <3>3, <4>2, <4>3
      <3> QED BY <3>2, <3>3
    <2> QED BY <1>0, <2>1, <2>2 DEF AnnouncedAuctionStands
  <1> QED BY <1>1, <1>2, <1>3, <1>4, StepCases
----------------------------------------------------------------------------

\* What an announced auction reads as.
LEMMA AnnouncedReads ==
    ASSUME Inv, NEW x \in announced
    PROVE  /\ x.aid \in Aids
           /\ x.aid \in disk.auction
           /\ x.info \in StartInfo
           /\ x.info.value \in Nat
           /\ x.info.duration \in Nat
           /\ x.info.time \in Nat
           /\ auction_parse_info(disk, x.aid) = x.info
           /\ deadline(disk, x.aid) = x.info.time + x.info.duration
           /\ x.info.time <= now
  <1>1. x.aid \in Aids /\ x.info \in StartInfo /\ x.aid \in disk.auction
    BY DEF Inv, Readable, TypeOK, PromisesHaveDirectories
  <1>2. /\ x.info.value \in Nat
        /\ x.info.duration \in Nat
        /\ x.info.time \in Nat
    BY <1>1, ValuesAssumption, DurationsAssumption DEF StartInfo
  <1>3. auction_parse_info(disk, x.aid) = x.info
    BY <1>1, FileAssumption DEF Inv, AnnouncedAuctionStands, auction_parse_info
  <1>4. x.info.time <= now
    BY <1>1, <1>3 DEF Inv, Readable, StartedInThePast
  <1> QED BY <1>1, <1>2, <1>3, <1>4 DEF deadline

\* A bid filed on an announced auction.
LEMMA LegalBid ==
    ASSUME Inv, NEW u \in Users, NEW v \in Values,
           NEW x \in announced, BidStep(u, x.aid, v)
    PROVE  /\ v > x.info.value
           /\ disk'.bids[x.aid][v] \in BidInfo /\ disk'.bids[x.aid][v] # disk.bids[x.aid][v] =>
                  /\ disk'.bids[x.aid][v].uid # x.info.owner
                  /\ disk'.bids[x.aid][v].elapsed = now' - x.info.time
                  /\ disk'.bids[x.aid][v].elapsed <= x.info.duration + Lag
           /\ now' \in Nat
           /\ now <= now'
           /\ x.aid \in Aids
           /\ \A a \in Aids, w \in Values :
                  a # x.aid \/ w # v => disk'.bids[a][w] = disk.bids[a][w]
  <1>1. /\ auction_parse_info(disk, x.aid) = x.info
        /\ deadline(disk, x.aid) = x.info.time + x.info.duration
        /\ x.info.value \in Nat /\ x.info.duration \in Nat /\ x.info.time \in Nat
        /\ x.aid \in Aids
    BY AnnouncedReads
  <1>2. now \in Nat /\ Lag \in Nat /\ v \in Nat
    BY SoundAccounts, ValuesAssumption DEF Inv
  <1>3. now' \in now .. now + Lag /\ now <= deadline(disk, x.aid)
    BY DEF BidStep
  <1>4. v > x.info.value
    <2>1. disk.current[x.aid] \in Nat /\ disk.current[x.aid] >= x.info.value
      BY DEF Inv, AnnouncedAuctionStands
    <2>2. disk.current[x.aid] # NoFile /\ disk.current[x.aid] # Blank
      BY <2>1, FileAssumption
    <2>3. v > get_current_bid(disk, x.aid) /\ v # 0
      BY DEF BidStep
    <2> QED BY <1>1, <1>2, <2>1, <2>2, <2>3 DEF get_current_bid
  <1>5. ASSUME disk'.bids[x.aid][v] \in BidInfo, disk'.bids[x.aid][v] # disk.bids[x.aid][v]
        PROVE  /\ disk'.bids[x.aid][v].uid # x.info.owner
               /\ disk'.bids[x.aid][v].elapsed = now' - x.info.time
               /\ disk'.bids[x.aid][v].elapsed <= x.info.duration + Lag
    <2>1. disk'.bids[x.aid][v] = [uid |-> u, elapsed |-> now' - x.info.time]
      BY <1>1, <1>5, FileAssumption DEF BidStep, FilesBid
    <2>2. u # x.info.owner
      BY <1>1 DEF BidStep
    <2> QED BY <1>1, <1>2, <1>3, <2>1, <2>2
  <1>6. \A a \in Aids, w \in Values :
            a # x.aid \/ w # v => disk'.bids[a][w] = disk.bids[a][w]
    BY DEF BidStep, FilesBid
  <1>7. now' \in Nat /\ now <= now'
    BY <1>2, <1>3
  <1>8. x.aid \in Aids
    BY <1>1
  <1> QED BY <1>4, <1>5, <1>6, <1>7, <1>8, Zenon

\* Every kind of step keeps the bids on file legal and in the past (db.c:891).
LEMMA BidsPreserved ==
    ASSUME Inv, Step
    PROVE  BidsAreLegal' /\ BidsInThePast'
  <1> DEFINE Legal(x) ==
                 \A v \in Values :
                     disk.bids[x.aid][v] # NoFile =>
                         /\ v > x.info.value
                         /\ disk.bids[x.aid][v] \in BidInfo =>
                                /\ disk.bids[x.aid][v].uid # x.info.owner
                                /\ disk.bids[x.aid][v].elapsed <= x.info.duration + Lag
             Past(x) ==
                 \A v \in Values :
                     disk.bids[x.aid][v] \in BidInfo =>
                         x.info.time + disk.bids[x.aid][v].elapsed <= now
  <1>0. /\ \A x \in announced : Legal(x) /\ Past(x)
        /\ now \in Nat /\ now' \in Nat /\ now <= now'
        /\ \A f \in BidInfo : f.elapsed \in Nat
    BY StepClock, SoundAccounts DEF Inv, BidsAreLegal, BidsInThePast, BidInfo
  <1>1. ASSUME NEW x \in announced, disk'.bids[x.aid] = disk.bids[x.aid]
        PROVE  Legal(x)' /\ Past(x)'
    <2>1. x.info.time \in Nat
      BY AnnouncedReads
    <2> QED BY <1>0, <1>1, <2>1
  <1>2. ASSUME NEW u \in Users, NEW a \in Aids, NEW v \in Values, BidStep(u, a, v),
               NEW x \in announced
        PROVE  Legal(x)' /\ Past(x)'
    <2>1. x.aid \in Aids /\ x.info.time \in Nat
      BY AnnouncedReads
    <2>2. CASE x.aid # a
      <3>1. disk'.bids[x.aid] = disk.bids[x.aid]
        <4>1. \A w \in Values : disk'.bids[x.aid][w] = disk.bids[x.aid][w]
          BY <1>2, <2>1, <2>2 DEF BidStep, FilesBid
        <4>2. disk \in Tree /\ disk' \in Tree
          BY <1>2, SoundAccounts DEF Inv, BidStep, FilesBid
        <4> QED BY <2>1, <4>1, <4>2 DEF Tree
      <3> QED BY <1>1, <3>1
    <2>3. CASE x.aid = a
      <3>1. /\ v > x.info.value
            /\ disk'.bids[a][v] \in BidInfo /\ disk'.bids[a][v] # disk.bids[a][v] =>
                  /\ disk'.bids[a][v].uid # x.info.owner
                  /\ disk'.bids[a][v].elapsed = now' - x.info.time
                  /\ disk'.bids[a][v].elapsed <= x.info.duration + Lag
            /\ \A w \in Values \ {v} : disk'.bids[a][w] = disk.bids[a][w]
        BY <1>2, <2>3, LegalBid
      <3>2. ASSUME NEW w \in Values, w # v
            PROVE  /\ disk'.bids[a][w] # NoFile =>
                          /\ w > x.info.value
                          /\ disk'.bids[a][w] \in BidInfo =>
                                /\ disk'.bids[a][w].uid # x.info.owner
                                /\ disk'.bids[a][w].elapsed <= x.info.duration + Lag
                   /\ disk'.bids[a][w] \in BidInfo =>
                          x.info.time + disk'.bids[a][w].elapsed <= now'
        BY <1>0, <2>1, <2>3, <3>1, <3>2
      <3>3. /\ disk'.bids[a][v] # NoFile =>
                   /\ v > x.info.value
                   /\ disk'.bids[a][v] \in BidInfo =>
                         /\ disk'.bids[a][v].uid # x.info.owner
                         /\ disk'.bids[a][v].elapsed <= x.info.duration + Lag
            /\ disk'.bids[a][v] \in BidInfo =>
                   x.info.time + disk'.bids[a][v].elapsed <= now'
        <4>1. CASE disk'.bids[a][v] = disk.bids[a][v]
          BY <1>0, <2>1, <2>3, <3>1, <4>1, FileAssumption
        <4>2. CASE disk'.bids[a][v] # disk.bids[a][v]
          BY <1>0, <2>1, <2>3, <3>1, <4>2
        <4> QED BY <4>1, <4>2
      <3> QED BY <2>3, <3>2, <3>3
    <2> QED BY <2>2, <2>3
  <1>3. CASE disk'.bids = disk.bids /\ announced' = announced
    BY <1>1, <1>3 DEF BidsAreLegal, BidsInThePast
  <1>4. ASSUME NEW a \in Aids, NEW info \in StartInfo, OpenStep(a, info)
        PROVE  BidsAreLegal' /\ BidsInThePast'
    <2>1. disk'.bids = disk.bids /\ a \notin disk.auction
      BY <1>4 DEF OpenStep, OpensAuction
    <2>2. \A v \in Values : disk'.bids[a][v] = NoFile
      BY <2>1 DEF Inv, Readable, UnusedAids
    <2>3. \A x \in announced : Legal(x)' /\ Past(x)'
      BY <1>1, <2>1
    <2>4. \A x \in announced' : x \in announced \/ x.aid = a
      BY <1>4 DEF OpenStep
    <2> QED BY <2>2, <2>3, <2>4, FileAssumption DEF BidsAreLegal, BidsInThePast
  <1>5. ASSUME NEW u \in Users, NEW a \in Aids, NEW v \in Values, BidStep(u, a, v)
        PROVE  BidsAreLegal' /\ BidsInThePast'
    <2>1. announced' = announced
      BY <1>5 DEF BidStep
    <2> QED BY <1>2, <1>5, <2>1 DEF BidsAreLegal, BidsInThePast
  <1> QED BY <1>3, <1>4, <1>5, StepCases DEF QuietStep, CloseStep, ClosesAuctions,
       SameAuctions, promises
\* Every kind of step keeps the bids before the end (db.c:649).
LEMMA NoBidAfterEndPreserved ==
    ASSUME Inv, Step
    PROVE  NoBidAfterEnd'
  <1> DEFINE EndsLast(x) ==
                 disk.end[x.aid] # NoFile /\ disk.end[x.aid].elapsed \in Nat =>
                     \A v \in Values :
                         disk.bids[x.aid][v] \in BidInfo =>
                             disk.bids[x.aid][v].elapsed <= disk.end[x.aid].elapsed + Lag
  <1>0. /\ \A x \in announced : EndsLast(x)
        /\ now \in Nat /\ now' \in Nat /\ now <= now' /\ Lag \in Nat
        /\ \A f \in BidInfo : f.elapsed \in Nat
        /\ Blank \notin Nat
    BY StepClock, SoundAccounts, FileAssumption DEF Inv, NoBidAfterEnd, BidInfo
  <1>1. CASE QuietStep
    BY <1>0, <1>1 DEF QuietStep, SameAuctions, NoBidAfterEnd
  <1>2. CASE CloseStep
    <2>1. /\ disk'.bids = disk.bids
          /\ announced' = announced
          /\ \A a \in Aids : disk'.end[a] = disk.end[a] \/ WritesEnd(disk, disk', a, now')
      BY <1>2 DEF CloseStep, ClosesAuctions, SameAuctions, promises
    <2>2. ASSUME NEW x \in announced, disk'.end[x.aid].elapsed \in Nat,
                 disk'.end[x.aid] # NoFile,
                 NEW v \in Values, disk.bids[x.aid][v] \in BidInfo
          PROVE  disk.bids[x.aid][v].elapsed <= disk'.end[x.aid].elapsed + Lag
      <3> DEFINE e == disk.bids[x.aid][v].elapsed
      <3>1. /\ x.aid \in Aids
            /\ auction_parse_info(disk, x.aid) = x.info
            /\ x.info.time \in Nat
            /\ x.info.duration \in Nat
        BY AnnouncedReads
      <3>2. /\ e \in Nat
            /\ e <= x.info.duration + Lag
            /\ x.info.time + e <= now
        BY <1>0, <2>2, FileAssumption DEF Inv, BidsAreLegal, BidsInThePast
      <3>3. CASE disk'.end[x.aid] = disk.end[x.aid]
        BY <1>0, <2>2, <3>3
      <3>4. CASE disk.end[x.aid] # NoFile /\ disk'.end[x.aid].elapsed = disk.end[x.aid].elapsed
        BY <1>0, <2>2, <3>4
      <3>5. CASE disk'.end[x.aid].elapsed >= x.info.duration
        BY <1>0, <2>2, <3>1, <3>2, <3>5
      <3>6. CASE disk'.end[x.aid].elapsed >= now' - x.info.time
        BY <1>0, <2>2, <3>1, <3>2, <3>6
      <3> QED BY <1>0, <2>1, <2>2, <3>1, <3>3, <3>4, <3>5, <3>6 DEF WritesEnd
    <2> QED BY <2>1, <2>2 DEF NoBidAfterEnd
  <1>3. ASSUME NEW a \in Aids, NEW info \in StartInfo, OpenStep(a, info)
        PROVE  NoBidAfterEnd'
    <2>1. disk'.bids = disk.bids /\ disk'.end = disk.end /\ a \notin disk.auction
      BY <1>3 DEF OpenStep, OpensAuction
    <2>2. \A v \in Values : disk'.bids[a][v] = NoFile
      BY <2>1 DEF Inv, Readable, UnusedAids
    <2>3. \A x \in announced' : x \in announced \/ x.aid = a
      BY <1>3 DEF OpenStep
    <2> QED BY <1>0, <2>1, <2>2, <2>3, FileAssumption DEF NoBidAfterEnd
  <1>4. ASSUME NEW u \in Users, NEW a \in Aids, NEW v \in Values, BidStep(u, a, v)
        PROVE  NoBidAfterEnd'
    <2>1. /\ disk'.end = disk.end
          /\ disk.end[a] = NoFile
          /\ announced' = announced
          /\ \A b \in Aids \ {a}, w \in Values : disk'.bids[b][w] = disk.bids[b][w]
      BY <1>4 DEF BidStep, FilesBid
    <2>2. \A x \in announced : x.aid \in Aids
      BY AnnouncedReads
    <2> QED BY <1>0, <2>1, <2>2 DEF NoBidAfterEnd
  <1> QED BY <1>1, <1>2, <1>3, <1>4, StepCases

----------------------------------------------------------------------------
(***************************************************************************)
(* The theorems.                                                           *)
(***************************************************************************)

\* The empty database satisfies the invariant (db.c:14).
LEMMA InitInv ==
    ASSUME Init
    PROVE  Inv
  <1>1. create_defaults \in Tree
    BY DEF create_defaults, Tree
  <1>2. TypeOK
    BY <1>1 DEF Init, TypeOK, Statuses
  <1>3. LoggedInHasPassword /\ UnusedAids
    BY DEF Init, create_defaults, LoggedInHasPassword, UnusedAids
  <1>4. StartedInThePast
    BY DEF Init, create_defaults, StartedInThePast, auction_parse_info, ZeroInfo
  <1>5. AidsContiguous
    <2>1. Cardinality({}) = 0
      BY FS_EmptySet
    <2> QED BY <2>1 DEF Init, create_defaults, AidsContiguous
  <1>6. /\ PromisesHaveDirectories
        /\ AcceptedBidStands
        /\ AnnouncedAuctionStands
        /\ BidsAreLegal
        /\ BidsInThePast
        /\ NoBidAfterEnd
    BY DEF Init, PromisesHaveDirectories, AcceptedBidStands, AnnouncedAuctionStands,
       BidsAreLegal, BidsInThePast, NoBidAfterEnd
  <1> QED BY <1>2, <1>3, <1>4, <1>5, <1>6 DEF Inv, Readable

\* The invariant is inductive.
LEMMA NextInv ==
    ASSUME Inv, [Next]_vars
    PROVE  Inv'
  <1>1. Readable /\ Step
    BY NextStep DEF Inv
  <1>2. Readable'
    BY <1>1, TypePreserved, AccountsPreserved, AidsPreserved, UnusedAidsPreserved,
       StartedInThePastPreserved DEF Readable
  <1>3. /\ PromisesHaveDirectories'
        /\ AcceptedBidStands'
        /\ AnnouncedAuctionStands'
        /\ BidsAreLegal'
        /\ BidsInThePast'
        /\ NoBidAfterEnd'
    BY <1>1, PromisesHaveDirectoriesPreserved, AcceptedBidPreserved,
       AnnouncedAuctionPreserved, BidsPreserved, NoBidAfterEndPreserved
  <1> QED BY <1>2, <1>3 DEF Inv

\* Inv holds in every state the server and its disk can be in, through any
\* number of requests, crashes and restarts.
THEOREM Invariance == Spec => []Inv
  <1>1. Init => Inv
    BY InitInv
  <1>2. Inv /\ [Next]_vars => Inv'
    BY NextInv
  <1> QED BY <1>1, <1>2, PTL DEF Spec

\* Every variable keeps its type; in particular no bid is filed with a negative
\* elapsed time and no aid above the limit is given out (db.c:733, db.c:891).
THEOREM TypeCorrect == Spec => []TypeOK
  <1>1. Inv => TypeOK
    BY DEF Inv, Readable
  <1> QED BY <1>1, Invariance, PTL

\* A logged-in user has a complete password file (server.c:42, server.c:88).
THEOREM LoginsHavePasswords == Spec => []LoggedInHasPassword
  <1>1. Inv => LoggedInHasPassword
    BY DEF Inv, Readable
  <1> QED BY <1>1, Invariance, PTL

\* auction_open never meets a gap in the aids (db.c:738).
THEOREM AidsHaveNoGaps == Spec => []AidsContiguous
  <1>1. Inv => AidsContiguous
    BY DEF Inv, Readable
  <1> QED BY <1>1, Invariance, PTL

\* No accepted bid is ever lost or overwritten (db.c:916).
THEOREM AcceptedBidsAreDurable == Spec => []AcceptedBidStands
  <1>1. Inv => AcceptedBidStands
    BY DEF Inv
  <1> QED BY <1>1, Invariance, PTL

\* An announced auction keeps its terms and its place in HOSTED (db.c:733).
THEOREM AnnouncedAuctionsAreDurable == Spec => []AnnouncedAuctionStands
  <1>1. Inv => AnnouncedAuctionStands
    BY DEF Inv
  <1> QED BY <1>1, Invariance, PTL

\* Every bid on file is above the start value, not the owner's and in time
\* (server.c:211).
THEOREM FiledBidsAreLegal == Spec => []BidsAreLegal
  <1>1. Inv => BidsAreLegal
    BY DEF Inv
  <1> QED BY <1>1, Invariance, PTL

\* No bid on file is younger than the end of its auction (db.c:649, db.c:685).
THEOREM BidsPrecedeTheEnd == Spec => []NoBidAfterEnd
  <1>1. Inv => NoBidAfterEnd
    BY DEF Inv
  <1> QED BY <1>1, Invariance, PTL

\* A closed auction stays closed and takes no more bids (db.c:635).
THEOREM ClosingIsFinal == Spec => ClosedIsFinal
  <1> DEFINE Final == \A a \in Aids :
                          disk.end[a] # NoFile =>
                              /\ disk'.end[a] # NoFile
                              /\ disk'.bids[a] = disk.bids[a]
                              /\ disk'.current[a] = disk.current[a]
  <1>1. ASSUME Inv, [Next]_vars
        PROVE  Final
    <2>1. Step /\ Readable
      BY <1>1, NextStep DEF Inv
    <2>2. CASE QuietStep
      BY <2>2 DEF QuietStep, SameAuctions
    <2>3. CASE CloseStep
      BY <2>3, FileAssumption DEF CloseStep, ClosesAuctions, SameAuctions, WritesEnd
    <2>4. ASSUME NEW a \in Aids, NEW info \in StartInfo, OpenStep(a, info)
          PROVE  Final
      <3>1. disk.end[a] = NoFile
        BY <2>1, <2>4 DEF OpenStep, Readable, UnusedAids
      <3> QED BY <2>4, <3>1 DEF OpenStep, OpensAuction
    <2>5. ASSUME NEW u \in Users, NEW a \in Aids, NEW v \in Values, BidStep(u, a, v)
          PROVE  Final
      <3>1. /\ disk.end[a] = NoFile
            /\ disk'.end = disk.end
            /\ \A b \in Aids \ {a} : disk'.current[b] = disk.current[b]
            /\ \A b \in Aids \ {a}, w \in Values : disk'.bids[b][w] = disk.bids[b][w]
        BY <2>5 DEF BidStep, FilesBid
      <3>2. disk \in Tree /\ disk' \in Tree
        BY <2>1, <2>5, SoundAccounts DEF BidStep, FilesBid
      <3>3. \A b \in Aids \ {a} : disk'.bids[b] = disk.bids[b]
        BY <3>1, <3>2 DEF Tree
      <3> QED BY <3>1, <3>3
    <2> QED BY <2>1, <2>2, <2>3, <2>4, <2>5, StepCases
  <1>2. Inv /\ [Next]_vars => [Final]_vars
    BY <1>1
  <1> QED BY <1>2, Invariance, PTL DEF Spec, ClosedIsFinal
----------------------------------------------------------------------------
(***************************************************************************)
(* The server implements the abstract auction house.                       *)
(***************************************************************************)

HouseBids == {b \in accepted : b.aid \in AnnouncedAids}
HouseEnded == {a \in AnnouncedAids : disk.end[a] # NoFile}

\* Two definitions of the abstract house in the terms of the server.
LEMMA HouseDefs ==
    /\ House!Elapse <=> now' \in now .. now + Lag
    /\ House!AidsOf(announced) = AnnouncedAids
  BY DEF House!Elapse, House!AidsOf, AnnouncedAids

\* A request without an effect that clients are told of.
LEMMA HouseUnseen ==
    ASSUME now' \in now .. now + Lag, announced' = announced,
           HouseBids' = HouseBids, HouseEnded' = HouseEnded
    PROVE  House!Next
  <1>1. House!End({})
    BY HouseDefs DEF House!End, HouseBids, HouseEnded
  <1>2. {} \in SUBSET House!AidsOf(announced)
    OBVIOUS
  <1> QED BY <1>1, <1>2 DEF House!Next

\* Account requests, refusals and the clock are a tick or nothing.
LEMMA HouseQuiet ==
    ASSUME Inv, IdleStep \/ AccountStep
    PROVE  [House!Next]_(House!vars)
  <1>1. /\ announced' = announced
        /\ HouseBids' = HouseBids
        /\ HouseEnded' = HouseEnded
        /\ now' \in {now, now + 1}
    BY DEF IdleStep, AccountStep, ChangesAccount, promises, HouseBids, HouseEnded, AnnouncedAids
  <1>2. CASE now' = now
    BY <1>1, <1>2 DEF House!vars, HouseBids, HouseEnded
  <1>3. CASE now' = now + 1
    BY <1>1, <1>3 DEF House!Next, House!Tick, HouseBids, HouseEnded
  <1> QED BY <1>1, <1>2, <1>3

\* Closing, by the owner or the clock, ends auctions (db.c:649).
LEMMA HouseClose ==
    ASSUME Inv, CloseStep
    PROVE  House!Next
  <1>1. /\ announced' = announced
        /\ accepted' = accepted
        /\ now' \in now .. now + Lag
        /\ \A a \in Aids : disk'.end[a] = disk.end[a] \/ WritesEnd(disk, disk', a, now')
    BY DEF CloseStep, ClosesAuctions, promises
  <1>2. HouseBids' = HouseBids /\ AnnouncedAids' = AnnouncedAids
    BY <1>1 DEF HouseBids, AnnouncedAids
  <1>3. \A a \in AnnouncedAids : disk.end[a] # NoFile => disk'.end[a] # NoFile
    <2>1. AnnouncedAids \subseteq Aids
      BY AnnouncedReads DEF AnnouncedAids
    <2> QED BY <1>1, <2>1, FileAssumption DEF WritesEnd
  <1>4. HouseEnded' = HouseEnded \cup HouseEnded' /\ HouseEnded' \subseteq AnnouncedAids
    BY <1>2, <1>3 DEF HouseEnded
  <1>5. PICK S : S = HouseEnded'
    OBVIOUS
  <1>6. S \in SUBSET House!AidsOf(announced) /\ House!End(S)
    BY <1>1, <1>2, <1>4, <1>5, HouseDefs DEF House!End, HouseBids, HouseEnded
  <1> QED BY <1>6 DEF House!Next

\* An announced auction is opened now; one nobody was told of is not seen
\* (server.c:116).
LEMMA HouseOpen ==
    ASSUME Inv, NEW a \in Aids, NEW info \in StartInfo, OpenStep(a, info)
    PROVE  House!Next
  <1>1. /\ accepted' = accepted
        /\ disk'.end = disk.end
        /\ now' = now
        /\ a \notin disk.auction
        /\ info.time = now
    BY DEF OpenStep, OpensAuction
  <1>2. now' \in now .. now + Lag
    BY <1>1, SoundAccounts DEF Inv
  <1>3. CASE announced' = announced
    BY <1>1, <1>2, <1>3, HouseUnseen DEF HouseBids, HouseEnded, AnnouncedAids
  <1>4. CASE announced' = announced \cup {[aid |-> a, info |-> info]}
    <2>1. a \notin AnnouncedAids /\ AnnouncedAids' = AnnouncedAids \cup {a}
      <3>1. a \notin AnnouncedAids
        BY <1>1 DEF AnnouncedAids, Inv, PromisesHaveDirectories
      <3>2. AnnouncedAids' = {x.aid : x \in announced \cup {[aid |-> a, info |-> info]}}
        BY <1>4 DEF AnnouncedAids
      <3>3. [aid |-> a, info |-> info].aid = a
        OBVIOUS
      <3> QED BY <3>1, <3>2, <3>3 DEF AnnouncedAids
    <2>2. HouseBids' = HouseBids
      BY <1>1, <2>1 DEF HouseBids, Inv, PromisesHaveDirectories
    <2>3. HouseEnded' = HouseEnded
      <3>1. disk'.end[a] = NoFile
        BY <1>1 DEF Inv, Readable, UnusedAids
      <3> QED BY <1>1, <2>1, <3>1 DEF HouseEnded
    <2>4. House!Open(a, info)
      BY <1>2, <1>4, <2>1, <2>2, <2>3, HouseDefs DEF House!Open, HouseBids, HouseEnded
    <2>5. info \in House!Terms(now) /\ a \in House!Aids
      BY <1>1 DEF House!Terms, House!Aids, StartInfo, Aids
    <2> QED BY <2>4, <2>5 DEF House!Next
  <1> QED BY <1>3, <1>4 DEF OpenStep

\* An accepted bid is one the house accepts; one nobody was told of is not
\* seen (server.c:226).
LEMMA HouseBid ==
    ASSUME Inv, NEW u \in Users, NEW a \in Aids, NEW v \in Values, BidStep(u, a, v)
    PROVE  House!Next
  <1> DEFINE b == [aid |-> a, uid |-> u, value |-> v]
  <1>1. /\ announced' = announced
        /\ disk'.end = disk.end
        /\ disk.end[a] = NoFile
        /\ now' \in now .. now + Lag
    BY DEF BidStep, FilesBid
  <1>2. AnnouncedAids' = AnnouncedAids /\ HouseEnded' = HouseEnded
    BY <1>1 DEF AnnouncedAids, HouseEnded
  <1>3. CASE accepted' = accepted \/ a \notin AnnouncedAids
    <2>1. HouseBids' = HouseBids
      BY <1>2, <1>3 DEF HouseBids, BidStep
    <2> QED BY <1>1, <1>2, <2>1, HouseUnseen
  <1>4. CASE accepted' = accepted \cup {b} /\ a \in AnnouncedAids
    <2>1. PICK x \in announced : x.aid = a
      BY <1>4 DEF AnnouncedAids
    <2>2. /\ v > x.info.value
          /\ now <= x.info.time + x.info.duration
          /\ u # x.info.owner
      BY <2>1, LegalBid, AnnouncedReads DEF BidStep
    <2>3. ASSUME NEW c \in HouseBids, c.aid = a
          PROVE  v > c.value
      <3>1. c \in accepted /\ c.value \in Nat /\ v \in Nat
        BY <2>3, ValuesAssumption DEF HouseBids, Inv, Readable, TypeOK
      <3>2. get_current_bid(disk, a) >= c.value /\ v > get_current_bid(disk, a)
        BY <2>3, <3>1 DEF Inv, AcceptedBidStands, BidStep
      <3>3. get_current_bid(disk, a) \in Int
        <4>1. disk.current[a] \in Nat
          BY <2>1 DEF Inv, AnnouncedAuctionStands
        <4> QED BY <4>1 DEF get_current_bid
      <3> QED BY <3>1, <3>2, <3>3
    <2>4. HouseBids' = HouseBids \cup {b}
      BY <1>2, <1>4 DEF HouseBids
    <2>5. a \notin HouseEnded
      BY <1>1 DEF HouseEnded
    <2>6. House!Accept(x, u, v)
      BY <1>1, <1>2, <2>1, <2>2, <2>3, <2>4, <2>5, HouseDefs
      DEF House!Accept, HouseBids, HouseEnded
    <2> QED BY <2>6 DEF House!Next
  <1> QED BY <1>3, <1>4 DEF BidStep

\* Seen through its answers the server is an ascending auction with a deadline
\* (server.c:254, treat_request): every step is one of AuctionHouse's or none.
THEOREM Implementation == Spec => ImplementsHouse
  <1>1. Init => House!Init
    BY DEF Init, House!Init, AnnouncedAids
  <1>2. Inv /\ [Next]_vars => [House!Next]_(House!vars)
    <2> SUFFICES ASSUME Inv, [Next]_vars
                 PROVE  [House!Next]_(House!vars)
      OBVIOUS
    <2>1. Step
      BY NextStep DEF Inv
    <2> QED BY <2>1, HouseQuiet, HouseClose, HouseOpen, HouseBid DEF Step
  <1> QED BY <1>1, <1>2, Invariance, PTL DEF Spec, ImplementsHouse, House!Spec

============================================================================
