-------------------------- MODULE AuctionDbProofs --------------------------
(***************************************************************************)
(* What each request may do to the file tree, crashes included.            *)
(*                                                                         *)
(* A handler of the server changes the tree in one of four ways: it        *)
(* changes an account, it writes END files, it opens an auction or it      *)
(* files a bid.  Each is a relation between the tree before and the tree   *)
(* after, and the lemmas show that every tree a function of db.c goes      *)
(* through, torn or complete, is in its relation with the tree it began    *)
(* with.  The proofs about the server need no more than the relations.     *)
(***************************************************************************)
EXTENDS AuctionDb, FiniteSetTheorems, TLAPS

SameAccounts(d, e) ==
    /\ e.userDir = d.userDir
    /\ e.biddedDir = d.biddedDir
    /\ e.hostedDir = d.hostedDir
    /\ e.pass = d.pass
    /\ e.login = d.login

SameIndexes(d, e) == e.bidded = d.bidded /\ e.hosted = d.hosted

SameAuctions(d, e) ==
    /\ e.auction = d.auction
    /\ e.bidsDir = d.bidsDir
    /\ e.start = d.start
    /\ e.current = d.current
    /\ e.bids = d.bids

AccountsSound(d) ==
    \A u \in d.login : u \in d.userDir /\ d.pass[u] \in Passwords

\* A request about an account.
ChangesAccount(d, e) ==
    /\ e \in Tree
    /\ SameIndexes(d, e)
    /\ SameAuctions(d, e)
    /\ e.end = d.end
    /\ AccountsSound(e)

\* Without crashes a user's directory is never without its BIDDED.
DirsWhole(d) == d.userDir \subseteq d.biddedDir

\* The END file of auction a, opened or written at the moment t.
WritesEnd(d, e, a, t) ==
    /\ a \in d.auction
    /\ e.end[a] \in EndInfo
    /\ \/ e.end[a].elapsed = Blank
       \/ d.end[a] # NoFile /\ e.end[a].elapsed = d.end[a].elapsed
       \/ /\ e.end[a].elapsed \in Nat
          /\ \/ e.end[a].elapsed >= auction_parse_info(d, a).duration
             \/ e.end[a].elapsed >= t - auction_parse_info(d, a).time

\* A request that closes auctions.
ClosesAuctions(d, e, t) ==
    /\ e \in Tree
    /\ SameAccounts(d, e)
    /\ SameIndexes(d, e)
    /\ SameAuctions(d, e)
    /\ \A a \in Aids : e.end[a] = d.end[a] \/ WritesEnd(d, e, a, t)

\* A request that opens auction a on the terms info.
OpensAuction(d, e, a, info) ==
    /\ e \in Tree
    /\ SameAccounts(d, e)
    /\ e.auction = d.auction \cup {a}
    /\ d.bidsDir \subseteq e.bidsDir
    /\ e.bidsDir \subseteq d.bidsDir \cup {a}
    /\ e.start[a] \in {NoFile, Blank, info}
    /\ \A b \in Aids \ {a} : e.start[b] = d.start[b] /\ e.current[b] = d.current[b]
    /\ e.bids = d.bids
    /\ e.end = d.end
    /\ e.bidded = d.bidded
    /\ \A u \in Users : d.hosted[u] \subseteq e.hosted[u]

\* A request that files the bid of user u with value v on auction a.
FilesBid(d, e, u, a, v, t) ==
    /\ e \in Tree
    /\ SameAccounts(d, e)
    /\ e.auction = d.auction
    /\ e.bidsDir = d.bidsDir
    /\ e.start = d.start
    /\ e.end = d.end
    /\ e.hosted = d.hosted
    /\ \A w \in Users : d.bidded[w] \subseteq e.bidded[w]
    /\ \A b \in Aids, w \in Values :
           b # a \/ w # v => e.bids[b][w] = d.bids[b][w]
    /\ \/ e.bids[a][v] = d.bids[a][v]
       \/ e.bids[a][v] = Blank
       \/ e.bids[a][v] = [uid |-> u, elapsed |-> t - auction_parse_info(d, a).time]
    /\ \A b \in Aids \ {a} : e.current[b] = d.current[b]
    /\ \/ e.current[a] = d.current[a]
       \/ d.current[a] = NoFile /\ e.current[a] = Blank
       \/ e.current[a] = v

----------------------------------------------------------------------------

\* What auction_parse_info returns has numbers where its readers want
\* numbers, also for a missing START (db.c:526).
LEMMA InfoType ==
    ASSUME NEW d \in Tree, NEW a \in Aids
    PROVE  /\ auction_parse_info(d, a).time \in Nat
           /\ auction_parse_info(d, a).duration \in Nat
           /\ deadline(d, a) \in Nat
  BY DurationsAssumption
  DEF Tree, auction_parse_info, ZeroInfo, StartInfo, deadline

\* Any change to the password file of a user who is not logged in keeps the
\* accounts sound.
LEMMA PassChangesAccount ==
    ASSUME NEW d \in Tree, NEW m, ChangesAccount(d, m),
           NEW u \in Users, u \notin m.login,
           NEW f \in Passwords \cup {NoFile, Blank}
    PROVE  ChangesAccount(d, [m EXCEPT !.pass[u] = f])
  BY DEF Tree, AccountsSound, ChangesAccount, SameIndexes, SameAuctions

\* Making a user's directories, or the first ones of them, touches no login
\* and no password (db.c:79).
LEMMA DirsChangeAccount ==
    ASSUME NEW d \in Tree, NEW u \in Users, AccountsSound(d)
    PROVE  /\ \A e \in make_user_dirs_torn(d, u) : ChangesAccount(d, e) /\ e.login = d.login
           /\ ChangesAccount(d, make_user_dirs(d, u))
           /\ make_user_dirs(d, u).login = d.login
           /\ u \in make_user_dirs(d, u).userDir
           /\ make_user_dirs(d, u).pass = d.pass
  <1>1. LET e == [d EXCEPT !.userDir = @ \cup {u}]
        IN  ChangesAccount(d, e) /\ e.login = d.login
    BY DEF Tree, AccountsSound, ChangesAccount, SameIndexes, SameAuctions
  <1>2. LET e == [d EXCEPT !.userDir = @ \cup {u}, !.biddedDir = @ \cup {u}]
        IN  ChangesAccount(d, e) /\ e.login = d.login
    BY DEF Tree, AccountsSound, ChangesAccount, SameIndexes, SameAuctions
  <1>3. LET e == [d EXCEPT !.userDir = @ \cup {u}, !.biddedDir = @ \cup {u},
                           !.hostedDir = @ \cup {u}]
        IN  /\ ChangesAccount(d, e)
            /\ e.login = d.login
            /\ u \in e.userDir
            /\ e.pass = d.pass
    BY DEF Tree, AccountsSound, ChangesAccount, SameIndexes, SameAuctions
  <1>4. ChangesAccount(d, d)
    BY DEF Tree, AccountsSound, ChangesAccount, SameIndexes, SameAuctions
  <1> QED BY <1>1, <1>2, <1>3, <1>4 DEF make_user_dirs_torn, make_user_dirs

\* Registering a new user and logging him in, or dying on the way, keeps the
\* accounts sound (db.c:71).
LEMMA RegisterChangesAccount ==
    ASSUME NEW d \in Tree, NEW u \in Users, NEW p \in Passwords,
           AccountsSound(d), ~user_registered(d, u)
    PROVE  /\ \A e \in user_register_torn(d, u) : ChangesAccount(d, e)
           /\ ChangesAccount(d, user_register(d, u, p))
           /\ ChangesAccount(d, user_login(user_register(d, u, p), u))
  <1> DEFINE m == make_user_dirs(d, u)
             r == user_register(d, u, p)
  <1>0. u \notin d.login
    BY FileAssumption DEF AccountsSound, user_registered
  <1>1. /\ \A e \in make_user_dirs_torn(d, u) : ChangesAccount(d, e)
        /\ ChangesAccount(d, m)
        /\ u \notin m.login
        /\ u \in m.userDir
    BY <1>0, DirsChangeAccount
  <1>2. m \in Tree
    BY <1>1 DEF ChangesAccount
  <1>3. created(m.pass[u]) \in Passwords \cup {NoFile, Blank}
    BY <1>2 DEF Tree, created
  <1>4. ChangesAccount(d, create_pass(m, u))
    BY <1>1, <1>3, PassChangesAccount DEF create_pass
  <1>5. ChangesAccount(d, r)
    BY <1>1, PassChangesAccount DEF user_register
  <1>6. r.pass[u] = p /\ u \in r.userDir
    BY <1>1, <1>2 DEF user_register, Tree
  <1>7. ChangesAccount(d, user_login(r, u))
    <2> HIDE DEF m, r
    <2> QED BY <1>5, <1>6 DEF Tree, AccountsSound, ChangesAccount, SameIndexes,
                SameAuctions, user_login
  <1> QED BY <1>1, <1>4, <1>5, <1>7 DEF user_register_torn

\* Logging in a user who gave his password keeps the accounts sound (db.c:128).
LEMMA LoginChangesAccount ==
    ASSUME NEW d \in Tree, NEW u \in Users, NEW p \in Passwords,
           AccountsSound(d), user_registered(d, u), user_ok_password(d, u, p)
    PROVE  ChangesAccount(d, user_login(d, u))
  BY DEF Tree, AccountsSound, ChangesAccount, SameIndexes, SameAuctions,
         user_registered, user_ok_password, user_login

\* A login, a logout or a registration that is completed leaves no directory
\* half made.
LEMMA AccountsKeepDirs ==
    ASSUME NEW d \in Tree, NEW u \in Users, NEW p \in Passwords, DirsWhole(d)
    PROVE  /\ DirsWhole(user_login(user_register(d, u, p), u))
           /\ DirsWhole(user_login(d, u))
           /\ DirsWhole(user_logout(d, u))
           /\ DirsWhole(user_unregister(user_logout(d, u), u))
  <1>1. ASSUME NEW e \in Tree, DirsWhole(e)
        PROVE  /\ DirsWhole(user_login(e, u))
               /\ DirsWhole(user_logout(e, u))
               /\ \A f \in Passwords \cup {NoFile} :
                      LET g == [e EXCEPT !.pass[u] = f]
                      IN  g \in Tree /\ DirsWhole(g)
    BY <1>1 DEF Tree, DirsWhole, user_login, user_logout
  <1>2. make_user_dirs(d, u) \in Tree /\ DirsWhole(make_user_dirs(d, u))
    BY DEF Tree, DirsWhole, make_user_dirs
  <1>3. user_register(d, u, p) \in Tree /\ DirsWhole(user_register(d, u, p))
    BY <1>1, <1>2 DEF user_register
  <1>4. user_logout(d, u) \in Tree
    BY DEF Tree, user_logout
  <1> QED BY <1>1, <1>3, <1>4 DEF user_unregister

\* Removing the login and then the password keeps the accounts sound after
\* each of the two (server.c:96).
LEMMA UnregisterChangesAccount ==
    ASSUME NEW d \in Tree, NEW u \in Users, AccountsSound(d)
    PROVE  /\ ChangesAccount(d, user_logout(d, u))
           /\ ChangesAccount(d, user_unregister(user_logout(d, u), u))
  <1>1. ChangesAccount(d, user_logout(d, u))
    BY DEF Tree, AccountsSound, ChangesAccount, SameIndexes, SameAuctions, user_logout
  <1>2. ChangesAccount(d, user_unregister(user_logout(d, u), u))
    BY DEF Tree, AccountsSound, ChangesAccount, SameIndexes, SameAuctions,
           user_logout, user_unregister
  <1> QED BY <1>1, <1>2
----------------------------------------------------------------------------

\* Digits left behind make a number longer, never smaller (db.c:656).
LEMMA RewrittenGrows ==
    ASSUME NEW end \in EndInfo \cup {NoFile}, NEW n \in Nat
    PROVE  rewritten(end, n) \in Nat /\ rewritten(end, n) >= n
  <1>1. CASE end = NoFile \/ end.elapsed = Blank
    BY <1>1 DEF rewritten
  <1>2. CASE end # NoFile /\ end.elapsed # Blank
    <2> DEFINE K == {k \in 1 .. 9 : n < DigitBase^k /\ DigitBase^k <= end.elapsed}
               p == DigitBase^Cardinality(K)
               rest == end.elapsed % p
    <2>1. end.elapsed \in Nat
      BY <1>2 DEF EndInfo
    <2>2. Cardinality(K) \in 0 .. 9
      <3> DEFINE nine == 1 .. 9
      <3>1. IsFiniteSet(nine) /\ Cardinality(nine) = 9
        <4>1. 1 \in Int /\ 9 \in Int
          OBVIOUS
        <4>2. /\ IsFiniteSet(nine)
              /\ Cardinality(nine) = IF 1 > 9 THEN 0 ELSE 9 - 1 + 1
          BY <4>1, FS_Interval, Zenon
        <4> HIDE DEF nine
        <4> QED BY <4>2
      <3>2. K \subseteq 1 .. 9
        OBVIOUS
      <3>3. Cardinality(K) \in Nat /\ Cardinality(K) <= 9
        BY <3>1, <3>2, FS_Subset, FS_CardinalityType
      <3> QED BY <3>3
    <2>3. p \in Nat \ {0}
      BY <2>2, DigitBaseAssumption
    <2>4. rewritten(end, n) = n * p + rest
      BY <1>2 DEF rewritten
    <2> HIDE DEF p
    <2>5. rest \in Nat
      BY <2>1, <2>3
    <2> HIDE DEF rest
    <2>6. n * p \in Nat /\ n * p >= n
      <3>1. p - 1 \in Nat /\ p = 1 + (p - 1)
        BY <2>3
      <3>2. \A q \in Nat : n * (1 + q) = n + n * q /\ n * q \in Nat
        OBVIOUS
      <3> QED BY <3>1, <3>2
    <2> QED BY <2>4, <2>5, <2>6
  <1> QED BY <1>1, <1>2

\* Closing the auctions E by the clock changes only their END files (db.c:685).
LEMMA UpdateClosesAuctions ==
    ASSUME NEW d \in Tree, NEW t \in Nat, NEW E \in SUBSET d.auction
    PROVE  ClosesAuctions(d, auction_update(d, E), t)
  <1>1. E \subseteq Aids
    BY DEF Tree
  <1> DEFINE planned(a) == [time |-> deadline(d, a),
                            elapsed |-> rewritten(d.end[a],
                                                  auction_parse_info(d, a).duration)]
  <1>2. ASSUME NEW a \in Aids
        PROVE  /\ planned(a) \in EndInfo
               /\ planned(a).elapsed \in Nat
               /\ planned(a).elapsed >= auction_parse_info(d, a).duration
    <2>1. /\ deadline(d, a) \in Nat
          /\ auction_parse_info(d, a).duration \in Nat
          /\ d.end[a] \in EndInfo \cup {NoFile}
      BY InfoType DEF Tree
    <2>2. /\ rewritten(d.end[a], auction_parse_info(d, a).duration) \in Nat
          /\ rewritten(d.end[a], auction_parse_info(d, a).duration)
                >= auction_parse_info(d, a).duration
      BY <2>1, RewrittenGrows
    <2> QED BY <2>1, <2>2 DEF EndInfo
  <1> DEFINE e == auction_update(d, E)
  <1>3. \A a \in Aids :
            e.end[a] = IF a \in E THEN planned(a) ELSE d.end[a]
    BY DEF Tree, auction_update
  <1>4. e \in Tree
    BY <1>2 DEF Tree, auction_update
  <1>5. SameAccounts(d, e) /\ SameIndexes(d, e) /\ SameAuctions(d, e)
    BY DEF Tree, SameAccounts, SameIndexes, SameAuctions, auction_update
  <1> HIDE DEF e
  <1>6. ASSUME NEW a \in Aids
        PROVE  e.end[a] = d.end[a] \/ WritesEnd(d, e, a, t)
    <2>1. CASE a \in E
      <3>1. e.end[a] = planned(a)
        BY <1>3, <2>1
      <3> HIDE DEF planned
      <3> QED BY <1>2, <2>1, <3>1 DEF WritesEnd
    <2>2. CASE a \notin E
      BY <1>3, <2>2
    <2> QED BY <2>1, <2>2
  <1> QED BY <1>4, <1>5, <1>6 DEF ClosesAuctions, e

\* A torn write of one END file changes that file only.
LEMMA TornEndClosesAuctions ==
    ASSUME NEW d \in Tree, NEW t \in Nat, NEW a \in d.auction,
           NEW m, ClosesAuctions(d, m, t),
           NEW when \in Nat, NEW e \in auction_close_torn(m, a, when)
    PROVE  ClosesAuctions(d, e, t)
  <1>1. a \in Aids
    BY DEF Tree
  <1>2. m \in Tree
    BY DEF ClosesAuctions
  <1>3. BlankEnd \in EndInfo
    BY DEF BlankEnd, EndInfo
  <1> DEFINE c == create_end(m, a)
  <1>4. ClosesAuctions(d, c, t) /\ c.end[a] \in EndInfo
    <2>1. /\ c.end[a] = IF m.end[a] = NoFile THEN BlankEnd ELSE m.end[a]
          /\ \A b \in Aids \ {a} : c.end[b] = m.end[b]
      BY <1>1, <1>2 DEF Tree, create_end
    <2>2. c.end[a] \in EndInfo
      BY <1>1, <1>2, <1>3, <2>1 DEF Tree
    <2>3. c \in Tree
      BY <1>1, <1>2, <1>3 DEF Tree, create_end
    <2>4. SameAccounts(d, c) /\ SameIndexes(d, c) /\ SameAuctions(d, c)
      BY <1>2 DEF Tree, ClosesAuctions, SameAccounts, SameIndexes, SameAuctions, create_end
    <2> HIDE DEF c
    <2>5. WritesEnd(d, c, a, t) \/ c.end[a] = d.end[a]
      <3>1. CASE m.end[a] = NoFile
        BY <2>1, <2>2, <3>1 DEF WritesEnd, BlankEnd
      <3>2. CASE m.end[a] # NoFile
        BY <1>1, <2>1, <3>2 DEF ClosesAuctions, WritesEnd
      <3> QED BY <3>1, <3>2
    <2>6. \A b \in Aids : c.end[b] = d.end[b] \/ WritesEnd(d, c, b, t)
      BY <2>1, <2>5 DEF ClosesAuctions, WritesEnd
    <2> QED BY <2>2, <2>3, <2>4, <2>6 DEF ClosesAuctions
  <1>5. ClosesAuctions(d, date_end(m, a, when), t)
    <2>1. date_end(m, a, when) = [c EXCEPT !.end[a].time = when]
      BY DEF date_end
    <2> HIDE DEF c
    <2>2. /\ [c.end[a] EXCEPT !.time = when] \in EndInfo
          /\ [c.end[a] EXCEPT !.time = when].elapsed = c.end[a].elapsed
      BY <1>4 DEF EndInfo
    <2>3. c \in Tree
      BY <1>4 DEF ClosesAuctions
    <2> DEFINE x == [c EXCEPT !.end[a].time = when]
    <2>4. x.end = [c.end EXCEPT ![a].time = when]
      BY <2>3 DEF Tree
    <2>5. /\ x.end[a] = [c.end[a] EXCEPT !.time = when]
          /\ \A b \in Aids \ {a} : x.end[b] = c.end[b]
          /\ x.end \in [Aids -> EndInfo \cup {NoFile}]
      BY <1>1, <2>2, <2>3, <2>4 DEF Tree
    <2>6. x \in Tree
      BY <2>3, <2>5 DEF Tree
    <2>7. SameAccounts(d, x) /\ SameIndexes(d, x) /\ SameAuctions(d, x)
      BY <1>4, <2>3 DEF Tree, ClosesAuctions, SameAccounts, SameIndexes, SameAuctions
    <2> HIDE DEF x
    <2>8. WritesEnd(d, x, a, t)
      <3>1. x.end[a].elapsed = c.end[a].elapsed /\ x.end[a] \in EndInfo
        BY <2>2, <2>5
      <3>2. c.end[a] = d.end[a] \/ WritesEnd(d, c, a, t)
        BY <1>1, <1>4 DEF ClosesAuctions
      <3>3. d.end[a] = c.end[a] => d.end[a] # NoFile
        BY <1>4, FileAssumption
      <3> QED BY <3>1, <3>2, <3>3 DEF WritesEnd
    <2>9. \A b \in Aids : x.end[b] = d.end[b] \/ WritesEnd(d, x, b, t)
      BY <1>4, <2>5, <2>8 DEF ClosesAuctions, WritesEnd
    <2> QED BY <2>1, <2>6, <2>7, <2>9 DEF ClosesAuctions, x
  <1> QED BY <1>4, <1>5 DEF auction_close_torn

\* Dying while closing the auctions E changes only their END files (db.c:649).
LEMMA TornUpdateClosesAuctions ==
    ASSUME NEW d \in Tree, NEW t \in Nat, NEW E \in SUBSET d.auction,
           NEW e \in auction_update_torn(d, E)
    PROVE  ClosesAuctions(d, e, t)
  <1>1. CASE e \in {auction_update(d, F) : F \in SUBSET E}
    BY <1>1, UpdateClosesAuctions
  <1>2. CASE \E F \in SUBSET E, a \in E :
                 e \in auction_close_torn(auction_update(d, F), a, deadline(d, a))
    <2>1. PICK F \in SUBSET E, a \in E :
              e \in auction_close_torn(auction_update(d, F), a, deadline(d, a))
      BY <1>2
    <2>2. a \in d.auction /\ deadline(d, a) \in Nat
      BY InfoType DEF Tree
    <2>3. ClosesAuctions(d, auction_update(d, F), t)
      BY UpdateClosesAuctions
    <2> QED BY <2>1, <2>2, <2>3, TornEndClosesAuctions
  <1> QED BY <1>1, <1>2 DEF auction_update_torn

\* An owner's close changes only the END file of his auction (db.c:670).
LEMMA CloseNowClosesAuctions ==
    ASSUME NEW d \in Tree, NEW t \in Nat, NEW a \in d.auction,
           auction_parse_info(d, a).time <= t
    PROVE  /\ ClosesAuctions(d, auction_close_now(d, a, t), t)
           /\ \A e \in auction_close_torn(d, a, t) : ClosesAuctions(d, e, t)
  <1>1. a \in Aids
    BY DEF Tree
  <1> DEFINE open == t - auction_parse_info(d, a).time
             closed == [time |-> t, elapsed |-> rewritten(d.end[a], open)]
  <1>2. /\ closed \in EndInfo
        /\ closed.elapsed \in Nat
        /\ closed.elapsed >= open
    <2>1. open \in Nat /\ d.end[a] \in EndInfo \cup {NoFile}
      BY <1>1, InfoType DEF Tree
    <2> HIDE DEF open
    <2> QED BY <2>1, RewrittenGrows DEF EndInfo
  <1>3. ClosesAuctions(d, d, t)
    BY DEF ClosesAuctions, SameAccounts, SameIndexes, SameAuctions
  <1>4. ClosesAuctions(d, auction_close_now(d, a, t), t)
    <2> DEFINE e == [d EXCEPT !.end[a] = closed]
    <2>1. auction_close_now(d, a, t) = e
      BY DEF auction_close_now, auction_close
    <2>2. e.end[a] = closed /\ \A b \in Aids : b # a => e.end[b] = d.end[b]
      BY <1>1 DEF Tree
    <2>3. closed.time = t /\ closed.elapsed >= t - auction_parse_info(d, a).time
      BY <1>2
    <2>4. e \in Tree /\ SameAccounts(d, e) /\ SameIndexes(d, e) /\ SameAuctions(d, e)
      <3> HIDE DEF closed
      <3> QED BY <1>1, <1>2 DEF Tree, SameAccounts, SameIndexes, SameAuctions
    <2> HIDE DEF e, closed
    <2>5. WritesEnd(d, e, a, t)
      BY <1>2, <2>2, <2>3 DEF WritesEnd
    <2>6. \A b \in Aids : e.end[b] = d.end[b] \/ WritesEnd(d, e, b, t)
      BY <2>2, <2>5
    <2> QED BY <2>1, <2>4, <2>6 DEF ClosesAuctions
  <1> QED BY <1>3, <1>4, TornEndClosesAuctions
----------------------------------------------------------------------------

\* auction_open up to its START file touches only the new aid (db.c:753).
LEMMA WriteStartOpensAuction ==
    ASSUME NEW d \in Tree, NEW a \in Aids, NEW info \in StartInfo,
           d.start[a] = NoFile, NEW e \in write_start_torn(d, a, info)
    PROVE  OpensAuction(d, e, a, info)
  <1>1. OpensAuction(d, [d EXCEPT !.auction = @ \cup {a}], a, info)
    BY DEF Tree, OpensAuction, SameAccounts
  <1> DEFINE m == make_auction_dirs(d, a)
  <1>2. OpensAuction(d, m, a, info)
    <2>1. m \in Tree
      BY DEF Tree, make_auction_dirs
    <2> QED BY <2>1 DEF Tree, OpensAuction, SameAccounts, make_auction_dirs
  <1>3. m.start[a] = NoFile
    BY DEF make_auction_dirs, Tree
  <1>4. /\ create_start(d, a) = [m EXCEPT !.start[a] = Blank]
        /\ write_start(d, a, info) = [m EXCEPT !.start[a] = info]
    BY <1>3 DEF create_start, write_start, created
  <1> HIDE DEF m
  <1>5. ASSUME NEW f \in {Blank, info}
        PROVE  OpensAuction(d, [m EXCEPT !.start[a] = f], a, info)
    <2> DEFINE s == [m EXCEPT !.start[a] = f]
    <2>1. m \in Tree
      BY <1>2 DEF OpensAuction
    <2>2. s \in Tree
      <3>1. f \in StartInfo \cup {NoFile, Blank}
        BY <1>5
      <3> QED BY <2>1, <3>1 DEF Tree
    <2>3. s.start[a] \in {NoFile, Blank, info}
      BY <1>5, <2>1 DEF Tree
    <2>4. \A b \in Aids \ {a} : s.start[b] = d.start[b] /\ s.current[b] = d.current[b]
      BY <1>2, <2>1 DEF Tree, OpensAuction
    <2>5. SameAccounts(d, s)
      BY <1>2, <2>1 DEF Tree, OpensAuction, SameAccounts
    <2>6. /\ s.auction = m.auction
          /\ s.bidsDir = m.bidsDir
          /\ s.bids = m.bids
          /\ s.end = m.end
          /\ s.bidded = m.bidded
          /\ s.hosted = m.hosted
      BY <2>1 DEF Tree
    <2> HIDE DEF s
    <2> QED BY <1>2, <2>2, <2>3, <2>4, <2>5, <2>6 DEF OpensAuction, s
  <1>6. OpensAuction(d, create_start(d, a), a, info)
    BY <1>4, <1>5
  <1>7. OpensAuction(d, write_start(d, a, info), a, info)
    BY <1>4, <1>5
  <1> QED BY <1>1, <1>2, <1>6, <1>7 DEF m, write_start_torn

\* The later files of the new auction leave it in the relation.
LEMMA HostedOpensAuction ==
    ASSUME NEW d \in Tree, NEW a \in Aids, NEW info \in StartInfo,
           NEW m, OpensAuction(d, m, a, info)
    PROVE  OpensAuction(d, add_to_hosted(m, info.owner, a), a, info)
  BY DEF Tree, StartInfo, OpensAuction, SameAccounts, add_to_hosted

\* The CURRENT_BID file comes last in auction_open, and may be blank or not
\* be there (db.c:806).
LEMMA CurrentOpensAuction ==
    ASSUME NEW d \in Tree, NEW a \in Aids, NEW info \in StartInfo,
           NEW m, OpensAuction(d, m, a, info),
           NEW f \in Values \cup {NoFile, Blank}
    PROVE  OpensAuction(d, [m EXCEPT !.current[a] = f], a, info)
  BY DEF Tree, OpensAuction, SameAccounts

\* auction_open, completed, cut short or backed out of, touches only the new aid
\* and the owner's index (db.c:733).
LEMMA OpenOpensAuction ==
    ASSUME NEW d \in Tree, NEW a \in Aids, NEW info \in StartInfo, d.start[a] = NoFile
    PROVE  /\ \A e \in auction_open_torn(d, a, info) \cup {auction_open(d, a, info)} :
                  OpensAuction(d, e, a, info)
           /\ \A e \in auction_open_failed_torn(d, a, info) \cup {auction_open_failed(d, a)} :
                  OpensAuction(d, e, a, info)
  <1> DEFINE w == write_start(d, a, info)
             h == add_to_hosted(w, info.owner, a)
  <1>1. \A e \in write_start_torn(d, a, info) : OpensAuction(d, e, a, info)
    BY WriteStartOpensAuction
  <1>2. OpensAuction(d, w, a, info)
    BY <1>1 DEF write_start_torn
  <1>3. OpensAuction(d, h, a, info)
    BY <1>2, HostedOpensAuction
  <1>4. created(h.current[a]) \in Values \cup {NoFile, Blank} /\ info.value \in Values
    BY <1>3 DEF OpensAuction, Tree, created, StartInfo
  <1>5. \A e \in set_current_bid_torn(h, a) \cup {set_current_bid(h, a, info.value)} :
            OpensAuction(d, e, a, info)
    BY <1>3, <1>4, CurrentOpensAuction DEF set_current_bid_torn, set_current_bid
  <1>6. OpensAuction(d, auction_open_failed(d, a), a, info)
    BY DEF Tree, OpensAuction, SameAccounts, auction_open_failed
  <1>7. OpensAuction(d, [make_auction_dirs(d, a) EXCEPT !.start[a] = NoFile], a, info)
    BY DEF Tree, OpensAuction, SameAccounts, make_auction_dirs
  <1> QED BY <1>1, <1>3, <1>5, <1>6, <1>7
      DEF auction_open_torn, auction_open, auction_open_failed_torn

\* What the owner is told of is all there.
LEMMA OpenedAuction ==
    ASSUME NEW d \in Tree, NEW a \in Aids, NEW info \in StartInfo
    PROVE  LET e == auction_open(d, a, info)
           IN  /\ e.start[a] = info
               /\ a \in e.hosted[info.owner]
               /\ a \in e.bidsDir
               /\ e.current[a] = info.value
  <1> DEFINE w == write_start(d, a, info)
             h == add_to_hosted(w, info.owner, a)
  <1>1. w \in Tree /\ w.start[a] = info /\ a \in w.bidsDir
    BY DEF Tree, make_auction_dirs, write_start
  <1>2. h \in Tree /\ h.start = w.start /\ a \in h.hosted[info.owner] /\ h.bidsDir = w.bidsDir
    BY <1>1 DEF Tree, add_to_hosted, StartInfo
  <1> HIDE DEF w, h
  <1>3. /\ set_current_bid(h, a, info.value).start = h.start
        /\ set_current_bid(h, a, info.value).hosted = h.hosted
        /\ set_current_bid(h, a, info.value).bidsDir = h.bidsDir
        /\ set_current_bid(h, a, info.value).current[a] = info.value
    BY <1>2 DEF Tree, set_current_bid
  <1> QED BY <1>1, <1>2, <1>3 DEF auction_open, w, h

----------------------------------------------------------------------------

\* Filing a bid touches one file of one auction (db.c:891).
LEMMA AddToBidsFilesBid ==
    ASSUME NEW d \in Tree, NEW u \in Users, NEW a \in Aids, NEW v \in Values,
           NEW t \in Nat, auction_parse_info(d, a).time <= t
    PROVE  /\ FilesBid(d, create_bid(d, a, v), u, a, v, t)
           /\ FilesBid(d, add_to_bids(d, a, u, v, t), u, a, v, t)
  <1>1. [uid |-> u, elapsed |-> t - auction_parse_info(d, a).time] \in BidInfo
    BY InfoType DEF BidInfo
  <1>2. FilesBid(d, create_bid(d, a, v), u, a, v, t)
    <2> DEFINE f == created(d.bids[a][v])
               e == [d EXCEPT !.bids[a][v] = f]
    <2>1. f \in BidInfo \cup {NoFile, Blank} /\ f \in {d.bids[a][v], Blank}
      BY DEF Tree, created
    <2> HIDE DEF f
    <2>2. FilesBid(d, e, u, a, v, t)
      BY <2>1 DEF Tree, FilesBid, SameAccounts
    <2> QED BY <2>2 DEF create_bid, f
  <1>3. FilesBid(d, add_to_bids(d, a, u, v, t), u, a, v, t)
    BY <1>1 DEF Tree, FilesBid, SameAccounts, add_to_bids
  <1> QED BY <1>2, <1>3

\* The bidder's index grows after the bid is filed (db.c:36).
LEMMA BiddedFilesBid ==
    ASSUME NEW d \in Tree, NEW u \in Users, NEW a \in Aids, NEW v \in Values, NEW t,
           NEW m, FilesBid(d, m, u, a, v, t)
    PROVE  FilesBid(d, add_to_bidded(m, u, a), u, a, v, t)
  <1> DEFINE e == add_to_bidded(m, u, a)
  <1>1. m \in Tree
    BY DEF FilesBid
  <1>2. e \in Tree /\ \A w \in Users : m.bidded[w] \subseteq e.bidded[w]
    BY <1>1 DEF Tree, add_to_bidded
  <1>3. /\ SameAccounts(m, e)
        /\ e.auction = m.auction
        /\ e.bidsDir = m.bidsDir
        /\ e.start = m.start
        /\ e.end = m.end
        /\ e.hosted = m.hosted
        /\ e.bids = m.bids
        /\ e.current = m.current
    BY <1>1 DEF Tree, SameAccounts, add_to_bidded
  <1> HIDE DEF e
  <1>4. FilesBid(d, e, u, a, v, t)
    BY <1>2, <1>3 DEF FilesBid, SameAccounts
  <1> QED BY <1>4 DEF e

\* CURRENT_BID is raised after the bid is filed, or created and left blank
\* (db.c:191).
LEMMA CurrentFilesBid ==
    ASSUME NEW d \in Tree, NEW u \in Users, NEW a \in Aids, NEW v \in Values, NEW t,
           NEW m, FilesBid(d, m, u, a, v, t), m.current[a] = d.current[a],
           NEW f, f = v \/ f = created(d.current[a])
    PROVE  FilesBid(d, [m EXCEPT !.current[a] = f], u, a, v, t)
  <1>1. f \in Values \cup {NoFile, Blank}
    BY DEF Tree, created
  <1>2. f = d.current[a] \/ (d.current[a] = NoFile /\ f = Blank) \/ f = v
    BY DEF created
  <1> QED BY <1>1, <1>2 DEF Tree, FilesBid, SameAccounts

\* make_bid, completed, cut short or failed, files at most one bid (db.c:916).
LEMMA MakeBidFilesBid ==
    ASSUME NEW d \in Tree, NEW u \in Users, NEW a \in Aids, NEW v \in Values,
           NEW t \in Nat, auction_parse_info(d, a).time <= t
    PROVE  /\ \A e \in make_bid_torn(d, u, a, v, t) \cup {make_bid(d, u, a, v, t)} :
                  FilesBid(d, e, u, a, v, t)
           /\ \A e \in {create_bid(d, a, v), make_bid_failed(d, u, a, v, t)} :
                  FilesBid(d, e, u, a, v, t)
  <1> DEFINE f == add_to_bids(d, a, u, v, t)
             x == add_to_bidded(f, u, a)
  <1>1. FilesBid(d, create_bid(d, a, v), u, a, v, t) /\ FilesBid(d, f, u, a, v, t)
    BY AddToBidsFilesBid
  <1>2. FilesBid(d, x, u, a, v, t)
    BY <1>1, BiddedFilesBid
  <1>3. x.current[a] = d.current[a]
    BY DEF Tree, add_to_bids, add_to_bidded
  <1>4. \A e \in set_current_bid_torn(x, a) \cup {set_current_bid(x, a, v)} :
            FilesBid(d, e, u, a, v, t)
    BY <1>2, <1>3, CurrentFilesBid DEF set_current_bid_torn, set_current_bid
  <1> QED BY <1>1, <1>2, <1>4 DEF make_bid_torn, make_bid, make_bid_failed

\* What the bidder is told of is all there.
LEMMA MadeBid ==
    ASSUME NEW d \in Tree, NEW u \in Users, NEW a \in Aids, NEW v \in Values,
           NEW t \in Nat, auction_parse_info(d, a).time <= t
    PROVE  LET e == make_bid(d, u, a, v, t)
           IN  /\ e.bids[a][v] \in BidInfo
               /\ e.bids[a][v].uid = u
               /\ a \in e.bidded[u]
               /\ e.current[a] = v
  <1> DEFINE f == add_to_bids(d, a, u, v, t)
             x == add_to_bidded(f, u, a)
             i == [uid |-> u, elapsed |-> t - auction_parse_info(d, a).time]
  <1>1. i \in BidInfo /\ i.uid = u
    BY InfoType DEF BidInfo
  <1> HIDE DEF i
  <1>2. f \in Tree /\ f.bids[a][v] = i
    BY <1>1 DEF Tree, add_to_bids, i
  <1>3. x \in Tree /\ x.bids = f.bids /\ a \in x.bidded[u]
    BY <1>2 DEF Tree, add_to_bidded
  <1> HIDE DEF f, x
  <1>4. /\ set_current_bid(x, a, v).bids = x.bids
        /\ set_current_bid(x, a, v).bidded = x.bidded
        /\ set_current_bid(x, a, v).current[a] = v
    BY <1>3 DEF Tree, set_current_bid
  <1> QED BY <1>1, <1>2, <1>3, <1>4 DEF make_bid, f, x, i

============================================================================
