----------------------------- MODULE AuctionDb -----------------------------
(***************************************************************************)
(* The database of the auction server, src/server/db.c.                    *)
(*                                                                         *)
(* The server keeps nothing in memory: an account, an auction, a bid is a  *)
(* directory or a small text file, and every request reads the files again.*)
(* This module is the file tree and what each function of db.c does to it. *)
(* It has no variables: a tree is a record d, and a function of db.c is an *)
(* operator from a tree to a tree.  db.c updates several files in a row    *)
(* with nothing to undo a part of it, so beside each such operator stands  *)
(* its "torn" set: the trees left on disk when the process dies between    *)
(* two of its file operations.                                             *)
(***************************************************************************)
EXTENDS Integers, FiniteSets

CONSTANTS
    Users,          \* user ids
    Passwords,      \* passwords a user may choose
    Values,         \* bid values and start values, 0 included
    Durations,      \* seconds an auction may stay open ("timeactive")
    MaxAuctions,    \* auctions there may ever be: 999 in auction_open
    DigitBase,      \* 10: numbers are written in its digits
    NoUser,         \* the uid read from an empty or missing START file
    NoFile,         \* the content of a file that does not exist
    Blank           \* the content of a file created but not yet written

ASSUME MaxAuctionsAssumption == MaxAuctions \in Nat
ASSUME ValuesAssumption == Values \subseteq Nat
ASSUME DurationsAssumption == Durations \subseteq Nat
\* What ^ means, as far as the nine digits of a number go.
ASSUME DigitBaseAssumption ==
    /\ DigitBase \in Nat \ {0, 1}
    /\ DigitBase^0 = 1
    /\ \A k \in 1 .. 9 : DigitBase^k = DigitBase * DigitBase^(k - 1)
ASSUME NoUserAssumption == NoUser \notin Users
ASSUME NoFileAssumption == NoFile # Blank

Aids == 1 .. MaxAuctions

\* START_aid.txt, a line of bids/, END_aid.txt.  A missing and a blank file
\* are values of their own.
StartInfo == [owner : Users, value : Values, duration : Durations, time : Nat]
BidInfo == [uid : Users, elapsed : Nat]
EndInfo == [time : Nat \cup {Blank}, elapsed : Nat \cup {Blank}]

ASSUME FileAssumption ==
    \A f \in {NoFile, Blank} :
        /\ f \notin Passwords
        /\ f \notin Nat
        /\ f \notin StartInfo
        /\ f \notin BidInfo
        /\ f \notin EndInfo

----------------------------------------------------------------------------
(***************************************************************************)
(* The tree.  USERS/uid/ holds uid_pass.txt, uid_login.txt, HOSTED/ and    *)
(* BIDDED/; AUCTIONS/aid/ holds START_aid, END_aid, CURRENT_BID and bids/. *)
(* The uploaded asset is the business of the connection layer.             *)
(***************************************************************************)

Tree ==
    [userDir   : SUBSET Users,
     biddedDir : SUBSET Users,
     hostedDir : SUBSET Users,
     pass      : [Users -> Passwords \cup {NoFile, Blank}],
     login     : SUBSET Users,
     bidded    : [Users -> SUBSET Aids],
     hosted    : [Users -> SUBSET Aids],
     auction   : SUBSET Aids,
     bidsDir   : SUBSET Aids,
     start     : [Aids -> StartInfo \cup {NoFile, Blank}],
     current   : [Aids -> Values \cup {NoFile, Blank}],
     bids      : [Aids -> [Values -> BidInfo \cup {NoFile, Blank}]],
     end       : [Aids -> EndInfo \cup {NoFile}]]

create_defaults ==
    [userDir   |-> {},
     biddedDir |-> {},
     hostedDir |-> {},
     pass      |-> [u \in Users |-> NoFile],
     login     |-> {},
     bidded    |-> [u \in Users |-> {}],
     hosted    |-> [u \in Users |-> {}],
     auction   |-> {},
     bidsDir   |-> {},
     start     |-> [a \in Aids |-> NoFile],
     current   |-> [a \in Aids |-> NoFile],
     bids      |-> [a \in Aids |-> [v \in Values |-> NoFile]],
     end       |-> [a \in Aids |-> NoFile]]

\* open(O_CREAT): an existing file keeps its content (there is no O_TRUNC).
created(file) == IF file = NoFile THEN Blank ELSE file

----------------------------------------------------------------------------
(***************************************************************************)
(* Accounts.                                                               *)
(***************************************************************************)

user_registered(d, u) == u \in d.userDir /\ d.pass[u] # NoFile

user_loggedin(d, u) == u \in d.login

\* A blank password file reads as "", which no request can carry.
user_ok_password(d, u, p) == d.pass[u] = p

make_user_dirs(d, u) ==
    IF u \in d.userDir
    THEN d
    ELSE [d EXCEPT !.userDir = @ \cup {u},
                   !.biddedDir = @ \cup {u},
                   !.hostedDir = @ \cup {u}]

\* BIDDED and HOSTED are made only together with the user's directory.
make_user_dirs_torn(d, u) ==
    {e \in {[d EXCEPT !.userDir = @ \cup {u}],
            [d EXCEPT !.userDir = @ \cup {u}, !.biddedDir = @ \cup {u}]} :
        u \notin d.userDir}

create_pass(d, u) == [d EXCEPT !.pass[u] = created(@)]

user_register(d, u, p) == [make_user_dirs(d, u) EXCEPT !.pass[u] = p]

user_register_torn(d, u) ==
    make_user_dirs_torn(d, u)
        \cup {make_user_dirs(d, u), create_pass(make_user_dirs(d, u), u)}

user_unregister(d, u) == [d EXCEPT !.pass[u] = NoFile]

user_login(d, u) == [d EXCEPT !.login = @ \cup {u}]

user_logout(d, u) == [d EXCEPT !.login = @ \ {u}]

\* Variant: the password goes before the login.
unregister_torn_password_first(d, u) == {user_unregister(d, u)}

\* Between the two removals of a request to unregister.
unregister_torn(d, u) == {user_logout(d, u)}

----------------------------------------------------------------------------
(***************************************************************************)
(* The life of an auction.                                                 *)
(***************************************************************************)

auction_exists(d, a) == a \in d.auction

\* What auction_parse_info leaves in its zero-filled buffers.
ZeroInfo == [owner |-> NoUser, value |-> 0, duration |-> 0, time |-> 0]

auction_parse_info(d, a) ==
    IF d.start[a] \in {NoFile, Blank} THEN ZeroInfo ELSE d.start[a]

auction_is_owner(d, a, u) == auction_parse_info(d, a).owner = u

deadline(d, a) ==
    auction_parse_info(d, a).time + auction_parse_info(d, a).duration

\* Variant: the difference the wrong way round.
expired_reversed(d, a, t) == auction_exists(d, a) /\ t - deadline(d, a) < 0

\* The test of auction_update: end_time - curr_time < 0.  The write that
\* follows fails when the auction has no directory.
expired(d, a, t) == auction_exists(d, a) /\ deadline(d, a) - t < 0

BlankEnd == [time |-> Blank, elapsed |-> Blank]

create_end(d, a) == [d EXCEPT !.end[a] = IF @ = NoFile THEN BlankEnd ELSE @]

date_end(d, a, t) == [create_end(d, a) EXCEPT !.end[a].time = t]

\* What the digits of n make of an END file that is opened without O_TRUNC
\* (elapsed_str has nine at most): the last digits of a longer number stay
\* behind them.  The result is the number that is read back: a 0 in front of
\* them is not part of it.
rewritten(end, n) ==
    IF end = NoFile \/ end.elapsed = Blank
    THEN n
    ELSE LET more == Cardinality({k \in 1 .. 9 :
                                    n < DigitBase^k /\ DigitBase^k <= end.elapsed})
         IN  n * DigitBase^more + (end.elapsed % DigitBase^more)

auction_close(d, a, t, elapsed) ==
    [d EXCEPT !.end[a] = [time |-> t, elapsed |-> rewritten(@, elapsed)]]

auction_close_torn(d, a, t) == {create_end(d, a), date_end(d, a, t)}

\* The calls of auction_update a request makes, one for each auction it
\* touches: E are the ones it finds expired.  Each gets its END file written,
\* whether or not it has one already.
auction_update(d, E) ==
    [d EXCEPT !.end =
        [a \in Aids |->
            IF a \in E
            THEN [time |-> deadline(d, a),
                  elapsed |-> rewritten(@[a], auction_parse_info(d, a).duration)]
            ELSE @[a]]]

\* The process dies after some of E (in whatever order readdir names them)
\* and perhaps half way through the next.
auction_update_torn(d, E) ==
    {auction_update(d, F) : F \in SUBSET E}
        \cup UNION {auction_close_torn(auction_update(d, F), a, deadline(d, a)) :
                        F \in SUBSET E, a \in E}

\* Variant: an END file counts once it is complete.
auction_closed_if_complete(d, a) ==
    d.end[a] # NoFile /\ d.end[a].elapsed # Blank

\* Variant: only an auction that ran its full time is closed.
auction_closed_by_time(d, a) ==
    d.end[a] # NoFile /\ d.end[a].elapsed = auction_parse_info(d, a).duration

auction_closed(d, a) == d.end[a] # NoFile

\* Variant: records the time the auction was to stay open.
auction_close_now_planned(d, a, t) ==
    auction_close(d, a, t, auction_parse_info(d, a).duration)

auction_close_now(d, a, t) ==
    auction_close(d, a, t, t - auction_parse_info(d, a).time)

\* Variant: counts an entry too many, as readdir's "." is.
auction_count_with_dot(d) == Cardinality(d.auction) + 1

auction_count(d) == Cardinality(d.auction)

add_to_hosted(d, u, a) == [d EXCEPT !.hosted[u] = @ \cup {a}]

set_current_bid(d, a, v) == [d EXCEPT !.current[a] = v]

set_current_bid_torn(d, a) == {[d EXCEPT !.current[a] = created(@)]}

make_auction_dirs(d, a) ==
    [d EXCEPT !.auction = @ \cup {a}, !.bidsDir = @ \cup {a}]

create_start(d, a) == [make_auction_dirs(d, a) EXCEPT !.start[a] = created(@)]

write_start(d, a, info) == [make_auction_dirs(d, a) EXCEPT !.start[a] = info]

auction_open(d, a, info) ==
    set_current_bid(add_to_hosted(write_start(d, a, info), info.owner, a),
                    a, info.value)

\* The prefix of auction_open up to its START file.
write_start_torn(d, a, info) ==
    {[d EXCEPT !.auction = @ \cup {a}],
     make_auction_dirs(d, a),
     create_start(d, a),
     write_start(d, a, info)}

auction_open_torn(d, a, info) ==
    write_start_torn(d, a, info)
        \cup LET hosted == add_to_hosted(write_start(d, a, info), info.owner, a)
             IN  {hosted} \cup set_current_bid_torn(hosted, a)

\* Without a HOSTED directory auction_open backs out.  It removes START and
\* bids/, but not the auction's directory, which is not empty: the aid is spent.
auction_open_failed(d, a) ==
    [d EXCEPT !.auction = @ \cup {a}, !.start[a] = NoFile]

auction_open_failed_torn(d, a, info) ==
    write_start_torn(d, a, info)
        \cup {[make_auction_dirs(d, a) EXCEPT !.start[a] = NoFile]}

----------------------------------------------------------------------------
(***************************************************************************)
(* Bids.                                                                   *)
(***************************************************************************)

\* -1 when the file is missing or blank, and when it holds 0.
get_current_bid(d, a) ==
    IF d.current[a] \in {NoFile, Blank, 0} THEN -1 ELSE d.current[a]

\* Variant: a bid equal to the current one will do.
bid_value_ok_equal(d, a, v) == v >= get_current_bid(d, a)

\* Variant: no comparison at all.
bid_value_ok_any(d, a, v) == TRUE

bid_value_ok(d, a, v) == v > get_current_bid(d, a)

create_bid(d, a, v) == [d EXCEPT !.bids[a][v] = created(@)]

\* Variant: the subtraction the wrong way round.
add_to_bids_negative(d, a, u, v, t) ==
    [d EXCEPT !.bids[a][v] =
        [uid |-> u, elapsed |-> auction_parse_info(d, a).time - t]]

\* bids/value.txt is written over whatever bears the same name.
add_to_bids(d, a, u, v, t) ==
    [d EXCEPT !.bids[a][v] =
        [uid |-> u, elapsed |-> t - auction_parse_info(d, a).time]]

add_to_bidded(d, u, a) == [d EXCEPT !.bidded[u] = @ \cup {a}]

make_bid(d, u, a, v, t) ==
    set_current_bid(add_to_bidded(add_to_bids(d, a, u, v, t), u, a), a, v)

make_bid_torn(d, u, a, v, t) ==
    LET filed == add_to_bids(d, a, u, v, t)
        indexed == add_to_bidded(filed, u, a)
    IN  {create_bid(d, a, v), filed, indexed} \cup set_current_bid_torn(indexed, a)

\* add_to_bidded fails without a BIDDED directory: the bid stays on file.
make_bid_failed(d, u, a, v, t) == add_to_bids(d, a, u, v, t)

============================================================================
