---------------------------- MODULE SessionProofs ----------------------------
(***************************************************************************)
(* Proofs about Session, for any number of clients, users, passwords and   *)
(* requests under way.                                                     *)
(*                                                                         *)
(* First what a handler of accounts does to the accounts, then what the    *)
(* steps of the clients and the network do to the requests under way, then *)
(* the inductive invariant SessionInv.                                     *)
(***************************************************************************)
EXTENDS Session, AuctionServerProofs, SequenceTheorems

-----------------------------------------------------------------------------
(***************************************************************************)
(* The server.                                                             *)
(***************************************************************************)

\* A request about user u leaves every other user's login and password alone.
Spares(d, e, u) ==
    \A w \in Users \ {u} :
        /\ w \in e.login <=> w \in d.login
        /\ e.pass[w] = d.pass[w]

SameOtherUsers(u) ==
    \A as \in Credentials :
        as.uid # u => (LoggedInAs(as)' <=> LoggedInAs(as))

LEMMA SparedUsers ==
    ASSUME NEW u, Spares(disk, disk', u)
    PROVE  SameOtherUsers(u)
  BY DEF Spares, SameOtherUsers, Credentials, LoggedInAs, user_loggedin, user_ok_password

\* The file operations of login, logout and unregister, each by itself.
LEMMA OperationsSpare ==
    ASSUME NEW d \in Tree, NEW u \in Users, NEW p \in Passwords
    PROVE  /\ \A e \in user_register_torn(d, u) : Spares(d, e, u)
           /\ Spares(d, user_register(d, u, p), u)
           /\ Spares(d, user_login(user_register(d, u, p), u), u)
           /\ Spares(d, user_login(d, u), u)
           /\ Spares(d, user_logout(d, u), u)
           /\ Spares(d, user_unregister(user_logout(d, u), u), u)
  <1> DEFINE m == make_user_dirs(d, u)
  <1>1. m.login = d.login /\ m.pass = d.pass
    BY DEF Tree, make_user_dirs
  <1>2. m \in Tree
    BY DEF Tree, make_user_dirs
  <1>3. \A e \in make_user_dirs_torn(d, u) : e.login = d.login /\ e.pass = d.pass
    BY DEF Tree, make_user_dirs_torn
  <1>4. /\ create_pass(m, u).login = m.login
        /\ \A w \in Users \ {u} : create_pass(m, u).pass[w] = m.pass[w]
    BY <1>2 DEF Tree, create_pass
  <1>5. /\ user_register(d, u, p).login = m.login
        /\ \A w \in Users \ {u} : user_register(d, u, p).pass[w] = m.pass[w]
        /\ user_register(d, u, p).pass[u] = p
        /\ user_register(d, u, p) \in Tree
    BY <1>2 DEF Tree, user_register
  <1> HIDE DEF m
  <1>6. \A e \in user_register_torn(d, u) : Spares(d, e, u)
    BY <1>1, <1>3, <1>4 DEF user_register_torn, Spares, m
  <1>7. Spares(d, user_register(d, u, p), u)
    BY <1>1, <1>5 DEF Spares
  <1>8. \A x \in Tree : Spares(d, x, u) => Spares(d, user_login(x, u), u)
    BY DEF Tree, Spares, user_login
  <1>9. Spares(d, user_logout(d, u), u)
    BY DEF Tree, Spares, user_logout
  <1>10. Spares(d, user_unregister(user_logout(d, u), u), u)
    BY DEF Tree, Spares, user_logout, user_unregister
  <1>11. Spares(d, d, u)
    BY DEF Spares
  <1> QED BY <1>5, <1>6, <1>7, <1>8, <1>9, <1>10, <1>11

\* A login that is answered with success (server.c:42) means that the user is
\* logged in with that password; no other user changes.
LEMMA LoginOutcome ==
    ASSUME Inv, NEW as \in Credentials, Login(as.uid, as.password)
    PROVE  /\ SameOtherUsers(as.uid)
           /\ reply' # NoReply /\ login_res(reply') => LoggedInAs(as)'
  <1> DEFINE u == as.uid
             p == as.password
             r == user_register(disk, u, p)
  <1>0. u \in Users /\ p \in Passwords /\ disk \in Tree
    BY DEF Credentials, Inv, Readable, TypeOK
  <1>1. CASE /\ ~user_registered(disk, u)
             /\ Complete(user_register_torn(disk, u) \cup {r}, user_login(r, u), now, "REG")
    <2>1. disk' \in user_register_torn(disk, u) \cup {r, user_login(r, u)}
      BY <1>1, CompleteEffect
    <2>2. SameOtherUsers(u)
      BY <1>0, <2>1, OperationsSpare, SparedUsers
    <2>3. ASSUME reply' # NoReply
          PROVE  LoggedInAs(as)'
      <3>1. disk' = user_login(r, u)
        BY <1>1, <2>3 DEF Complete, Answer, Die
      <3> QED BY <1>0, <3>1 DEF LoggedInAs, user_loggedin, user_ok_password,
                 user_register, user_login, make_user_dirs, Tree
    <2> QED BY <2>2, <2>3
  <1>2. CASE /\ user_ok_password(disk, u, p)
             /\ Complete({}, user_login(disk, u), now, "OK")
    <2>1. disk' = user_login(disk, u)
      BY <1>2 DEF Complete, Answer, Die
    <2>2. SameOtherUsers(u)
      BY <1>0, <2>1, OperationsSpare, SparedUsers
    <2> QED BY <1>0, <1>2, <2>1, <2>2 DEF LoggedInAs, user_loggedin, user_ok_password,
               user_login, Tree
  <1>3. CASE /\ user_loggedin(disk, u)
             /\ user_ok_password(disk, u, p)
             /\ Refuse("OK")
    BY <1>3 DEF Refuse, Answer, SameOtherUsers, LoggedInAs, user_loggedin, user_ok_password
  <1>4. CASE Refuse("NOK")
    BY <1>4 DEF Refuse, Answer, SameOtherUsers, LoggedInAs, user_loggedin,
                user_ok_password, login_res
  <1> QED BY <1>1, <1>2, <1>3, <1>4 DEF Login

\* Whatever logout answers (server.c:70), the user is not logged in with that
\* password afterwards; no other user changes.
LEMMA LogoutOutcome ==
    ASSUME Inv, NEW as \in Credentials, Logout(as.uid, as.password)
    PROVE  /\ SameOtherUsers(as.uid)
           /\ reply' # NoReply => ~LoggedInAs(as)'
  <1> DEFINE u == as.uid
             p == as.password
  <1>0. u \in Users /\ p \in Passwords /\ disk \in Tree
    BY DEF Credentials, Inv, Readable, TypeOK
  <1>1. CASE Complete({}, user_logout(disk, u), now, "OK")
    <2>1. disk' = user_logout(disk, u)
      BY <1>1 DEF Complete, Answer, Die
    <2>2. SameOtherUsers(u)
      BY <1>0, <2>1, OperationsSpare, SparedUsers
    <2> QED BY <1>0, <2>1, <2>2 DEF LoggedInAs, user_loggedin, user_logout, Tree
  <1>2. CASE /\ ~user_registered(disk, u) \/ ~user_loggedin(disk, u)
                   \/ ~user_ok_password(disk, u, p)
             /\ \E s \in Statuses : Refuse(s)
    <2>1. disk' = disk
      BY <1>2 DEF Refuse, Answer
    <2>2. ~user_registered(disk, u) => ~user_loggedin(disk, u)
      BY <1>0, NoFileAssumption, FileAssumption DEF Inv, Readable, LoggedInHasPassword, user_registered, user_loggedin
    <2> QED BY <1>2, <2>1, <2>2 DEF SameOtherUsers, LoggedInAs, user_loggedin,
               user_ok_password
  <1> QED BY <1>1, <1>2 DEF Logout, Statuses

\* The same for unregister (server.c:88).
LEMMA UnregisterOutcome ==
    ASSUME Inv, NEW as \in Credentials, Unregister(as.uid, as.password)
    PROVE  /\ SameOtherUsers(as.uid)
           /\ reply' # NoReply => ~LoggedInAs(as)'
  <1> DEFINE u == as.uid
             p == as.password
             gone == user_unregister(user_logout(disk, u), u)
  <1>0. u \in Users /\ p \in Passwords /\ disk \in Tree
    BY DEF Credentials, Inv, Readable, TypeOK
  <1>1. CASE Complete(unregister_torn(disk, u), gone, now, "OK")
    <2>1. disk' \in {user_logout(disk, u), gone}
      BY <1>1, CompleteEffect DEF unregister_torn
    <2>2. SameOtherUsers(u)
      BY <1>0, <2>1, OperationsSpare, SparedUsers
    <2>3. u \notin disk'.login
      <3>1. u \notin user_logout(disk, u).login
        BY <1>0 DEF user_logout, Tree
      <3>2. gone.login = user_logout(disk, u).login
        BY <1>0 DEF user_unregister, user_logout, Tree
      <3> QED BY <2>1, <3>1, <3>2
    <2> QED BY <2>2, <2>3 DEF LoggedInAs, user_loggedin
  <1>2. CASE /\ ~user_registered(disk, u) \/ ~user_loggedin(disk, u)
                   \/ ~user_ok_password(disk, u, p)
             /\ \E s \in Statuses : Refuse(s)
    <2>1. disk' = disk
      BY <1>2 DEF Refuse, Answer
    <2>2. ~user_registered(disk, u) => ~user_loggedin(disk, u)
      BY <1>0, NoFileAssumption, FileAssumption DEF Inv, Readable, LoggedInHasPassword, user_registered, user_loggedin
    <2> QED BY <1>2, <2>1, <2>2 DEF SameOtherUsers, LoggedInAs, user_loggedin,
               user_ok_password
  <1> QED BY <1>1, <1>2 DEF Unregister, Statuses

-----------------------------------------------------------------------------
(***************************************************************************)
(* The clients.  None of their steps touches the disk.                     *)
(***************************************************************************)

\* A request that has been removed is the only change to what is under way.
LEMMA RemovedRequest ==
    ASSUME SessionTypeOK, LiveIsLast, NEW k \in DOMAIN network,
           network' = RemoveAt(network, k), UNCHANGED call
    PROVE  /\ network' \in Seq(Request)
           /\ Len(network') <= MaxRequests
           /\ \A i \in DOMAIN network' :
                  network'[i].live => call'[network'[i].by] = network'[i]
           /\ LiveIsLast'
           /\ \A i \in DOMAIN network' :
                  \E j \in DOMAIN network \ {k} : network'[i] = network[j]
  <1> DEFINE n == Len(network)
             front == SubSeq(network, 1, k - 1)
             back == SubSeq(network, k + 1, n)
             at(i) == IF i < k THEN i ELSE i + 1
  <1>1. network \in Seq(Request) /\ n \in Nat /\ DOMAIN network = 1 .. n /\ k \in 1 .. n
    BY DEF SessionTypeOK
  <1>2. /\ front \in Seq(Request)
        /\ Len(front) = k - 1
        /\ \A i \in 1 .. k - 1 : front[i] = network[i]
    BY <1>1
  <1>3. /\ back \in Seq(Request)
        /\ Len(back) = n - k
        /\ \A i \in 1 .. n - k : back[i] = network[k + i]
    BY <1>1
  <1>4. network' = front \o back
    BY DEF RemoveAt
  <1> HIDE DEF front, back
  <1>5. /\ network' \in Seq(Request)
        /\ Len(network') = n - 1
        /\ DOMAIN network' = 1 .. n - 1
        /\ \A i \in 1 .. n - 1 : network'[i] = network[at(i)]
    <2>1. /\ network' \in Seq(Request)
          /\ Len(network') = (k - 1) + (n - k)
          /\ \A i \in 1 .. (k - 1) + (n - k) :
                 network'[i] = IF i <= k - 1 THEN front[i] ELSE back[i - (k - 1)]
      BY <1>2, <1>3, <1>4, ConcatProperties
    <2>2. \A i \in 1 .. n - 1 : network'[i] = network[at(i)]
      <3> SUFFICES ASSUME NEW i \in 1 .. n - 1 PROVE network'[i] = network[at(i)]
        OBVIOUS
      <3>1. CASE i < k
        BY <1>1, <1>2, <2>1, <3>1
      <3>2. CASE ~(i < k)
        <4>1. i - (k - 1) \in 1 .. n - k /\ k + (i - (k - 1)) = i + 1
          BY <1>1, <3>2
        <4>2. network'[i] = back[i - (k - 1)]
          BY <1>1, <2>1, <3>2
        <4> QED BY <1>3, <3>2, <4>1, <4>2
      <3> QED BY <3>1, <3>2
    <2> QED BY <1>1, <2>1, <2>2
  <1>6. /\ \A i \in 1 .. n - 1 : at(i) \in 1 .. n \ {k}
        /\ \A i, j \in 1 .. n - 1 : at(j) <= at(i) => j <= i
    BY <1>1
  <1>7. Len(network') <= MaxRequests
    BY <1>1, <1>5, MaxRequestsAssumption DEF SessionTypeOK
  <1> HIDE DEF n, at
  <1>8. \A i \in DOMAIN network' :
            network'[i].live => call'[network'[i].by] = network'[i]
    BY <1>1, <1>5, <1>6 DEF SessionTypeOK
  <1>9. LiveIsLast'
    BY <1>1, <1>5, <1>6 DEF LiveIsLast
  <1> QED BY <1>1, <1>5, <1>6, <1>7, <1>8, <1>9

\* A command sends its request (client/connection.c:23).
LEMMA SendKeeps ==
    ASSUME SessionInv, NEW c \in Clients, NEW op \in Operations, NEW as \in Credentials,
           use_udp(c, op, as),
           IF op = "LIN" THEN user[c] = LoggedOut ELSE as = user[c]
    PROVE  SessionInv'
  <1> DEFINE r == [by |-> c, live |-> TRUE, op |-> op, as |-> as]
             n == Len(network)
  <1>1. /\ SessionTypeOK /\ LiveIsLast /\ CallsAreOpen /\ Inv
        /\ InOrder => NothingBehindAnswer /\ WaitingAnswersTrue /\ AnswersStayTrue
    BY DEF SessionInv
  <1>2. /\ UNCHANGED <<user, answer, overtaken, vars, disk>>
        /\ call[c] = Idle
        /\ n < MaxRequests
        /\ told' = [told EXCEPT ![c] = Idle]
        /\ call' = [call EXCEPT ![c] = r]
        /\ network' = Append(network, r)
    BY DEF use_udp, vars
  <1>3. r \in Request /\ r.by = c /\ r.op = op /\ r.as = as
    BY DEF Request
  <1> HIDE DEF r
  <1>4. /\ network \in Seq(Request) /\ n \in Nat /\ DOMAIN network = 1 .. n
        /\ network' \in Seq(Request)
        /\ Len(network') = n + 1
        /\ DOMAIN network' = 1 .. n + 1
        /\ \A k \in 1 .. n : network'[k] = network[k]
        /\ network'[n + 1] = r
    BY <1>1, <1>2, <1>3 DEF SessionTypeOK
  <1>5. \A k \in 1 .. n : network[k].live => network[k].by # c
    BY <1>1, <1>2, <1>4, IdleAssumption, ElementOfSeq DEF SessionTypeOK
  <1>6. \A d \in Clients : /\ call'[d] = IF d = c THEN r ELSE call[d]
                           /\ told'[d] = IF d = c THEN Idle ELSE told[d]
    BY <1>1, <1>2 DEF SessionTypeOK
  <1>7. \A k \in 1 .. n : network[k].by \in Clients
    <2>1. \A k \in 1 .. n : network[k] \in Request
      BY <1>4
    <2> QED BY <2>1 DEF Request
  <1>8. SessionTypeOK'
    <2>1. call' \in [Clients -> Request \cup {Idle}] /\ told' \in [Clients -> Facts \cup {Idle}]
      BY <1>1, <1>2, <1>3 DEF SessionTypeOK
    <2>2. \A d \in Clients :
              call'[d] # Idle =>
                  IF call'[d].op = "LIN" THEN user'[d] = LoggedOut ELSE user'[d] = call'[d].as
      BY <1>1, <1>2, <1>3, <1>6 DEF SessionTypeOK
    <2>3. \A k \in DOMAIN network' :
              network'[k].live => call'[network'[k].by] = network'[k]
      <3>1. \A k \in 1 .. n : network[k].live => call[network[k].by] = network[k]
        BY <1>1, <1>4 DEF SessionTypeOK
      <3>2. \A k \in 1 .. n : network[k].live => call'[network[k].by] = network[k]
        BY <1>5, <1>6, <1>7, <3>1
      <3>3. call'[r.by] = r
        BY <1>3, <1>6
      <3> QED BY <1>4, <3>2, <3>3
    <2>4. Len(network') <= MaxRequests
      BY <1>2, <1>4, MaxRequestsAssumption
    <2> QED BY <1>1, <1>2, <1>4, <2>1, <2>2, <2>3, <2>4 DEF SessionTypeOK
  <1>9. LiveIsLast'
    BY <1>1, <1>3, <1>4, <1>5 DEF LiveIsLast
  <1>10. CallsAreOpen'
    BY <1>1, <1>2, <1>3, <1>6, IdleAssumption DEF CallsAreOpen
  <1>11. InOrder => NothingBehindAnswer'
    BY <1>1, <1>2, <1>3, <1>4, <1>6 DEF CallsAreOpen, NothingBehindAnswer
  <1>12. InOrder => WaitingAnswersTrue' /\ AnswersStayTrue'
    <2>1. \A x : LoggedInAs(x)' <=> LoggedInAs(x)
      BY <1>2 DEF LoggedInAs
    <2>2. InOrder => WaitingAnswersTrue'
      BY <1>1, <1>2, <1>6, <2>1 DEF CallsAreOpen, WaitingAnswersTrue, LoggedInAs
    <2>3. InOrder => AnswersStayTrue'
      BY <1>1, <1>2, <1>6, <2>1 DEF AnswersStayTrue, LoggedInAs
    <2> QED BY <2>2, <2>3
  <1>13. Inv'
    BY <1>1, <1>2, NextInv
  <1> QED BY <1>8, <1>9, <1>10, <1>11, <1>12, <1>13 DEF SessionInv

\* A command ends, and its socket with it: what is under way from there stays
\* under way, and the client is told nothing, or what an answer has said.
LEMMA CloseKeeps ==
    ASSUME SessionInv, NEW c \in Clients,
           call' = [call EXCEPT ![c] = Idle],
           answer' = [answer EXCEPT ![c] = NoReply],
           network' = Abandoned(c),
           UNCHANGED <<overtaken, vars>>,
           user' \in [Clients -> Credentials \cup {LoggedOut}],
           told' \in [Clients -> Facts \cup {Idle}],
           \A d \in Clients \ {c} : user'[d] = user[d] /\ told'[d] = told[d],
           told'[c] # Idle =>
               /\ answer[c] # NoReply \/ told[c] # Idle
               /\ InOrder /\ <<c, told'[c].as.uid>> \notin overtaken =>
                      (LoggedInAs(told'[c].as) <=> told'[c].in)
    PROVE  SessionInv'
  <1> DEFINE n == Len(network)
  <1>1. /\ SessionTypeOK /\ LiveIsLast /\ CallsAreOpen /\ Inv
        /\ InOrder => NothingBehindAnswer /\ WaitingAnswersTrue /\ AnswersStayTrue
    BY DEF SessionInv
  <1>2. /\ disk' = disk
        /\ overtaken' = overtaken
    BY DEF vars
  <1>3. \A d \in Clients : /\ call'[d] = IF d = c THEN Idle ELSE call[d]
                           /\ answer'[d] = IF d = c THEN NoReply ELSE answer[d]
    BY <1>1 DEF SessionTypeOK
  <1>4. network \in Seq(Request) /\ n \in Nat /\ DOMAIN network = 1 .. n
    BY <1>1 DEF SessionTypeOK
  <1>5. \A k \in 1 .. n : network[k] \in Request
    BY <1>4
  <1>6. \A k \in 1 .. n :
            /\ network'[k] = IF network[k].by = c
                             THEN [network[k] EXCEPT !.live = FALSE] ELSE network[k]
            /\ network'[k] \in Request
            /\ network'[k].by = network[k].by
            /\ network'[k].live => network[k].live /\ network[k].by # c
                                       /\ network'[k] = network[k]
    BY <1>4, <1>5 DEF Abandoned, Request
  <1>7. /\ network' \in Seq(Request)
        /\ Len(network') = n
        /\ DOMAIN network' = 1 .. n
    <2>1. network' = [k \in 1 .. n |-> network'[k]]
      BY <1>4 DEF Abandoned
    <2>2. network' \in [1 .. n -> Request]
      BY <1>6, <2>1
    <2> HIDE DEF n
    <2>3. network' \in Seq(Request)
      BY <1>4, <2>2
    <2>4. DOMAIN network' = 1 .. n
      BY <2>1
    <2> QED BY <1>4, <2>3, <2>4
  <1> HIDE DEF n
  <1>8. SessionTypeOK'
    <2>1. call' \in [Clients -> Request \cup {Idle}] /\ answer' \in [Clients -> Statuses]
      BY <1>1 DEF SessionTypeOK, Statuses
    <2>2. \A d \in Clients :
              call'[d] # Idle =>
                  IF call'[d].op = "LIN" THEN user'[d] = LoggedOut ELSE user'[d] = call'[d].as
      BY <1>1, <1>3 DEF SessionTypeOK
    <2>3. \A k \in DOMAIN network' :
              network'[k].live => call'[network'[k].by] = network'[k]
      <3>1. \A k \in 1 .. n : network[k].live => call[network[k].by] = network[k]
        BY <1>1, <1>4 DEF SessionTypeOK
      <3>2. \A k \in 1 .. n : network[k].by \in Clients
        BY <1>5 DEF Request
      <3> QED BY <1>3, <1>6, <1>7, <3>1, <3>2
    <2>4. Len(network') <= MaxRequests /\ overtaken' \subseteq Clients \X Users
      BY <1>1, <1>2, <1>7 DEF SessionTypeOK, n
    <2> QED BY <1>7, <2>1, <2>2, <2>3, <2>4 DEF SessionTypeOK
  <1>9. LiveIsLast'
    BY <1>1, <1>4, <1>6, <1>7 DEF LiveIsLast
  <1>10. CallsAreOpen'
    BY <1>1, <1>3 DEF CallsAreOpen
  <1>11. InOrder => NothingBehindAnswer'
    BY <1>1, <1>3, <1>4, <1>6, <1>7 DEF NothingBehindAnswer
  <1>12. InOrder => WaitingAnswersTrue' /\ AnswersStayTrue'
    <2>1. \A x : LoggedInAs(x)' <=> LoggedInAs(x)
      BY <1>2 DEF LoggedInAs
    <2>2. InOrder => WaitingAnswersTrue'
      BY <1>1, <1>2, <1>3, <2>1 DEF WaitingAnswersTrue, LoggedInAs
    <2>3. InOrder => AnswersStayTrue'
      BY <1>1, <1>2, <2>1 DEF AnswersStayTrue, LoggedInAs
    <2> QED BY <2>2, <2>3
  <1>13. Inv'
    BY <1>1, NextInv
  <1> QED BY <1>8, <1>9, <1>10, <1>11, <1>12, <1>13 DEF SessionInv

\* The three ends of a command (client/client.c:43-129).
LEMMA ClientEndKeeps ==
    ASSUME SessionInv, NEW c \in Clients, Timeout(c) \/ Receive(c) \/ RestartClient(c)
    PROVE  SessionInv'
  <1>1. /\ SessionTypeOK /\ CallsAreOpen
        /\ InOrder => WaitingAnswersTrue
    BY DEF SessionInv
  <1>2. CASE Timeout(c)
    <2>1. told[c] = Idle
      BY <1>1, <1>2 DEF Timeout, CallsAreOpen
    <2> QED BY <1>1, <1>2, <2>1, CloseKeeps DEF Timeout, SessionTypeOK
  <1>3. CASE RestartClient(c)
    BY <1>1, <1>3, CloseKeeps DEF RestartClient, SessionTypeOK
  <1>4. CASE Receive(c)
    <2> DEFINE in == IF call[c].op = "LIN" THEN login_res(answer[c]) ELSE FALSE
               fact == [as |-> call[c].as, in |-> in]
               as == call[c].as
    <2>1. /\ call[c] # Idle
          /\ answer[c] # NoReply
          /\ user' = [user EXCEPT ![c] = IF in THEN as ELSE LoggedOut]
          /\ told' = [told EXCEPT ![c] = IF call[c].op = "LIN" /\ ~in THEN Idle ELSE fact]
      BY <1>4 DEF Receive
    <2>2. in \in BOOLEAN /\ as \in Credentials
      <3>1. login_res(answer[c]) \in BOOLEAN
        BY DEF login_res
      <3>2. call[c] \in Request
        BY <1>1, <2>1 DEF SessionTypeOK
      <3>3. as \in Credentials
        BY <3>2 DEF Request
      <3>4. in \in BOOLEAN
        <4>1. CASE call[c].op = "LIN"
          BY <3>1, <4>1, Zenon
        <4>2. CASE call[c].op # "LIN"
          BY <4>2
        <4> QED BY <4>1, <4>2, Zenon
      <3> QED BY <3>3, <3>4, Zenon
    <2>3. fact \in Facts /\ fact.as = as /\ fact.in = in
      BY <2>2 DEF Facts
    <2>4. InOrder /\ <<c, as.uid>> \notin overtaken =>
              IF call[c].op = "LIN" THEN in => LoggedInAs(as) ELSE ~LoggedInAs(as) /\ ~in
      BY <1>1, <2>1 DEF WaitingAnswersTrue
    <2> HIDE DEF in, fact
    <2>5. /\ user' \in [Clients -> Credentials \cup {LoggedOut}]
          /\ told' \in [Clients -> Facts \cup {Idle}]
          /\ \A d \in Clients \ {c} : user'[d] = user[d] /\ told'[d] = told[d]
          /\ told'[c] = IF call[c].op = "LIN" /\ ~in THEN Idle ELSE fact
      BY <1>1, <2>1, <2>2, <2>3 DEF SessionTypeOK
    <2>6. told'[c] # Idle =>
              /\ answer[c] # NoReply
              /\ InOrder /\ <<c, told'[c].as.uid>> \notin overtaken =>
                     (LoggedInAs(told'[c].as) <=> told'[c].in)
      BY <2>1, <2>2, <2>3, <2>4, <2>5
    <2> QED BY <1>4, <2>5, <2>6, CloseKeeps DEF Receive
  <1> QED BY <1>2, <1>3, <1>4

-----------------------------------------------------------------------------
(***************************************************************************)
(* The network and the server.                                             *)
(***************************************************************************)

\* A datagram gets lost.
LEMMA LoseKeeps ==
    ASSUME SessionInv, Lose
    PROVE  SessionInv'
  <1>1. /\ SessionTypeOK /\ LiveIsLast /\ CallsAreOpen /\ Inv
        /\ InOrder => NothingBehindAnswer /\ WaitingAnswersTrue /\ AnswersStayTrue
    BY DEF SessionInv
  <1>2. PICK k \in DOMAIN network : network' = RemoveAt(network, k)
    BY DEF Lose
  <1>3. UNCHANGED <<user, call, answer, told, overtaken, vars, disk>>
    BY DEF Lose, vars
  <1>4. /\ network' \in Seq(Request)
        /\ Len(network') <= MaxRequests
        /\ \A i \in DOMAIN network' :
               network'[i].live => call'[network'[i].by] = network'[i]
        /\ LiveIsLast'
        /\ \A i \in DOMAIN network' :
               \E j \in DOMAIN network \ {k} : network'[i] = network[j]
    BY <1>1, <1>2, <1>3, RemovedRequest
  <1>5. SessionTypeOK'
    BY <1>1, <1>3, <1>4 DEF SessionTypeOK
  <1>6. CallsAreOpen'
    BY <1>1, <1>3 DEF CallsAreOpen
  <1>7. InOrder => NothingBehindAnswer'
    BY <1>1, <1>3, <1>4 DEF NothingBehindAnswer
  <1>8. InOrder => WaitingAnswersTrue' /\ AnswersStayTrue'
    BY <1>1, <1>3 DEF WaitingAnswersTrue, AnswersStayTrue, LoggedInAs
  <1>9. Inv'
    BY <1>1, <1>3, NextInv
  <1> QED BY <1>4, <1>5, <1>6, <1>7, <1>8, <1>9 DEF SessionInv

\* The server dies between two requests, or starts again.
LEMMA ServerKeeps ==
    ASSUME SessionInv, Server
    PROVE  SessionInv'
  <1>1. /\ SessionTypeOK /\ LiveIsLast /\ CallsAreOpen /\ Inv
        /\ InOrder => NothingBehindAnswer /\ WaitingAnswersTrue /\ AnswersStayTrue
    BY DEF SessionInv
  <1>2. UNCHANGED <<user, call, answer, network, told, overtaken, disk>>
    BY DEF Server, sessionVars, Kill, Die, Restart
  <1>3. /\ SessionTypeOK' /\ LiveIsLast' /\ CallsAreOpen'
        /\ InOrder => NothingBehindAnswer'
    BY <1>1, <1>2 DEF SessionTypeOK, LiveIsLast, CallsAreOpen, NothingBehindAnswer
  <1>4. InOrder => WaitingAnswersTrue' /\ AnswersStayTrue'
    BY <1>1, <1>2 DEF WaitingAnswersTrue, AnswersStayTrue, LoggedInAs
  <1>5. Inv'
    BY <1>1, NextInv DEF Server, Next
  <1> QED BY <1>1, <1>3, <1>4, <1>5 DEF SessionInv

\* What treating request r does to the accounts (receive_udp): only the one
\* of its user changes, and its answer is true.
LEMMA TreatOutcome ==
    ASSUME Inv, NEW k \in DOMAIN network, NEW r \in Request, r = network[k], Treat(k)
    PROVE  /\ Next
           /\ SameOtherUsers(r.as.uid)
           /\ reply' # NoReply =>
                  IF r.op = "LIN"
                  THEN login_res(reply') => LoggedInAs(r.as)'
                  ELSE ~LoggedInAs(r.as)'
  <1> DEFINE as == r.as
  <1>1. as \in Credentials /\ as.uid \in Users /\ as.password \in Passwords
    <2>1. as \in Credentials
      BY DEF Request
    <2> QED BY <2>1 DEF Credentials
  <1>2. \/ r.op = "LIN" /\ Login(as.uid, as.password)
        \/ r.op = "LOU" /\ Logout(as.uid, as.password)
        \/ r.op = "UNR" /\ Unregister(as.uid, as.password)
    BY DEF Treat
  <1>3. Next
    BY <1>1, <1>2 DEF Next
  <1> HIDE DEF as
  <1>4. CASE r.op = "LIN" /\ Login(as.uid, as.password)
    BY <1>1, <1>3, <1>4, LoginOutcome DEF as
  <1>5. CASE r.op = "LOU" /\ Logout(as.uid, as.password)
    BY <1>1, <1>3, <1>5, LogoutOutcome DEF as
  <1>6. CASE r.op = "UNR" /\ Unregister(as.uid, as.password)
    BY <1>1, <1>3, <1>6, UnregisterOutcome DEF as
  <1> QED BY <1>2, <1>4, <1>5, <1>6

\* The server treats a datagram, the oldest if they stay in order
\* (server.c:632, server.c:260).
LEMMA TreatKeeps ==
    ASSUME SessionInv, handle_sockets
    PROVE  SessionInv'
  <1>1. /\ SessionTypeOK /\ LiveIsLast /\ CallsAreOpen /\ Inv
        /\ InOrder => NothingBehindAnswer /\ WaitingAnswersTrue /\ AnswersStayTrue
    BY DEF SessionInv
  <1>2. PICK k \in DOMAIN network : (InOrder => k = 1) /\ Treat(k)
    BY DEF handle_sockets
  <1>3. PICK r \in Request : r = network[k]
    BY <1>1 DEF SessionTypeOK
  <1> DEFINE b == r.by
             u == r.as.uid
  <1>4. /\ network' = RemoveAt(network, k)
        /\ UNCHANGED <<user, call, told>>
        /\ \/ answer' = answer
           \/ r.live /\ answer' = [answer EXCEPT ![b] = reply']
        /\ overtaken' = (overtaken \cup ((Clients \ {b}) \X {u})) \ {x \in {<<b, u>>} : r.live}
    BY <1>2, <1>3 DEF Treat
  <1>5. b \in Clients /\ u \in Users /\ r.live \in BOOLEAN
    BY <1>3 DEF Request, Credentials
  <1>6. /\ Next
        /\ SameOtherUsers(u)
        /\ reply' # NoReply =>
               IF r.op = "LIN"
               THEN login_res(reply') => LoggedInAs(r.as)'
               ELSE ~LoggedInAs(r.as)'
    BY <1>1, <1>2, <1>3, TreatOutcome
  <1>7. Inv'
    BY <1>1, <1>6, NextInv
  <1>8. /\ network' \in Seq(Request)
        /\ Len(network') <= MaxRequests
        /\ \A i \in DOMAIN network' :
               network'[i].live => call'[network'[i].by] = network'[i]
        /\ LiveIsLast'
        /\ \A i \in DOMAIN network' :
               \E j \in DOMAIN network \ {k} : network'[i] = network[j]
    BY <1>1, <1>4, RemovedRequest
  <1>9. r.live => /\ call[b] = r
                  /\ call[b] # Idle
                  /\ InOrder => \A i \in DOMAIN network' : network'[i].by # b
    <2>1. r.live => call[b] = r /\ call[b] # Idle
      BY <1>1, <1>2, <1>3, IdleAssumption DEF SessionTypeOK
    <2>2. DOMAIN network = 1 .. Len(network)
      BY <1>1 DEF SessionTypeOK
    <2>3. \A j \in DOMAIN network \ {k} : InOrder /\ r.live => network[j].by # b
      BY <1>1, <1>2, <1>3, <2>2 DEF LiveIsLast
    <2> QED BY <1>8, <2>1, <2>3
  <1>10. InOrder => told[b] = Idle /\ answer[b] = NoReply
    BY <1>1, <1>2, <1>3, <1>5 DEF NothingBehindAnswer
  <1>11. \A c \in Clients \ {b} : answer'[c] = answer[c]
    BY <1>1, <1>4 DEF SessionTypeOK
  <1>12. InOrder /\ answer'[b] # NoReply => r.live /\ answer'[b] = reply'
    BY <1>1, <1>4, <1>5, <1>10 DEF SessionTypeOK
  <1>13. \A c \in Clients \ {b} : \A w :
             <<c, w>> \notin overtaken' => <<c, w>> \notin overtaken /\ w # u
    BY <1>4
  <1>14. SessionTypeOK'
    <2>1. reply' \in Statuses
      BY <1>7 DEF Inv, Readable, TypeOK
    <2>2. answer' \in [Clients -> Statuses]
      BY <1>1, <1>4, <2>1 DEF SessionTypeOK
    <2>3. overtaken' \subseteq Clients \X Users
      BY <1>1, <1>4, <1>5 DEF SessionTypeOK
    <2> QED BY <1>1, <1>4, <1>8, <2>2, <2>3 DEF SessionTypeOK
  <1>15. CallsAreOpen'
    BY <1>1, <1>4, <1>9, <1>11 DEF CallsAreOpen
  <1>16. InOrder => NothingBehindAnswer'
    BY <1>1, <1>4, <1>8, <1>9, <1>10, <1>11, <1>12 DEF NothingBehindAnswer
  <1>17. \A as \in Credentials : as.uid # u => (LoggedInAs(as)' <=> LoggedInAs(as))
    BY <1>6 DEF SameOtherUsers
  <1>18. ASSUME InOrder PROVE WaitingAnswersTrue'
    <2> SUFFICES ASSUME NEW c \in Clients,
                        answer'[c] # NoReply,
                        <<c, call'[c].as.uid>> \notin overtaken'
                 PROVE  IF call'[c].op = "LIN"
                        THEN login_res(answer'[c]) => LoggedInAs(call[c].as)'
                        ELSE ~LoggedInAs(call[c].as)'
      BY DEF WaitingAnswersTrue
    <2>1. CASE c = b
      BY <1>4, <1>6, <1>9, <1>12, <1>18, <2>1 DEF LoggedInAs
    <2>2. CASE c # b
      <3>1. call[c] \in Request /\ answer[c] # NoReply
        BY <1>1, <1>11, <2>2 DEF CallsAreOpen, SessionTypeOK
      <3>2. call[c].as \in Credentials
        BY <3>1 DEF Request
      <3>3. call[c].as.uid # u /\ <<c, call[c].as.uid>> \notin overtaken
        BY <1>4, <1>13, <2>2
      <3>4. IF call[c].op = "LIN"
            THEN login_res(answer[c]) => LoggedInAs(call[c].as)
            ELSE ~LoggedInAs(call[c].as)
        BY <1>1, <1>18, <3>1, <3>3 DEF WaitingAnswersTrue
      <3> QED BY <1>4, <1>11, <1>17, <2>2, <3>2, <3>3, <3>4 DEF LoggedInAs
    <2> QED BY <2>1, <2>2
  <1>19. ASSUME InOrder PROVE AnswersStayTrue'
    <2> SUFFICES ASSUME NEW c \in Clients,
                        told[c] # Idle,
                        <<c, told[c].as.uid>> \notin overtaken'
                 PROVE  LoggedInAs(told[c].as)' <=> told'[c].in
      BY <1>4 DEF AnswersStayTrue
    <2>1. c # b
      BY <1>10, <1>19
    <2>2. told[c].as \in Credentials
      BY <1>1 DEF SessionTypeOK, Facts
    <2>3. told[c].as.uid # u /\ <<c, told[c].as.uid>> \notin overtaken
      BY <1>13, <2>1
    <2>4. LoggedInAs(told[c].as) <=> told[c].in
      BY <1>1, <1>19, <2>3 DEF AnswersStayTrue
    <2> QED BY <1>4, <1>17, <2>2, <2>3, <2>4 DEF LoggedInAs
  <1> QED BY <1>7, <1>8, <1>14, <1>15, <1>16, <1>18, <1>19 DEF SessionInv

-----------------------------------------------------------------------------
(***************************************************************************)
(* The theorems.                                                           *)
(***************************************************************************)

\* Nobody has said anything yet.
LEMMA SessionInitInv == SessionInit => SessionInv
  <1> SUFFICES ASSUME SessionInit PROVE SessionInv
    OBVIOUS
  <1>1. Inv
    BY InitInv DEF SessionInit
  <1>2. SessionTypeOK
    BY MaxRequestsAssumption DEF SessionInit, SessionTypeOK, Statuses
  <1>3. /\ LiveIsLast /\ CallsAreOpen
        /\ NothingBehindAnswer /\ WaitingAnswersTrue /\ AnswersStayTrue
    BY DEF SessionInit, LiveIsLast, CallsAreOpen, NothingBehindAnswer,
           WaitingAnswersTrue, AnswersStayTrue
  <1> QED BY <1>1, <1>2, <1>3 DEF SessionInv

\* Every step of a client, of the network and of the server keeps SessionInv.
LEMMA SessionNextInv ==
    ASSUME SessionInv, [SessionNext]_allVars
    PROVE  SessionInv'
  <1>1. SessionTypeOK
    BY DEF SessionInv
  <1>2. ASSUME NEW c \in Clients, NEW as \in Credentials, login(c, as)
        PROVE  SessionInv'
    BY <1>2, SendKeeps DEF login, Operations
  <1>3. ASSUME NEW c \in Clients, logout(c) \/ unregister(c)
        PROVE  SessionInv'
    <2>1. user[c] \in Credentials
      BY <1>1, <1>3 DEF SessionTypeOK, logout, unregister
    <2>2. CASE logout(c)
      <3>1. PICK as \in Credentials : as = user[c]
        BY <2>1
      <3>2. use_udp(c, "LOU", as)
        BY <2>2, <3>1 DEF logout
      <3> QED BY <3>1, <3>2, SendKeeps DEF Operations
    <2>3. CASE unregister(c)
      <3>1. PICK as \in Credentials : as = user[c]
        BY <2>1
      <3>2. use_udp(c, "UNR", as)
        BY <2>3, <3>1 DEF unregister
      <3> QED BY <3>1, <3>2, SendKeeps DEF Operations
    <2> QED BY <1>3, <2>2, <2>3
  <1>4. CASE UNCHANGED allVars
    <2>1. UNCHANGED <<user, call, answer, network, told, overtaken, disk, vars>>
      BY <1>4 DEF allVars, sessionVars, vars
    <2>2. Inv'
      BY <2>1, NextInv DEF SessionInv
    <2>3. /\ SessionTypeOK' /\ LiveIsLast' /\ CallsAreOpen'
          /\ InOrder => NothingBehindAnswer' /\ WaitingAnswersTrue' /\ AnswersStayTrue'
      BY <2>1 DEF SessionInv, SessionTypeOK, LiveIsLast, CallsAreOpen, NothingBehindAnswer,
         WaitingAnswersTrue, AnswersStayTrue, LoggedInAs
    <2> QED BY <2>2, <2>3 DEF SessionInv
  <1> QED BY <1>2, <1>3, <1>4, ClientEndKeeps, LoseKeeps, TreatKeeps, ServerKeeps
          DEF SessionNext

\* SessionInv is an invariant.
LEMMA SessionInvariance == SessionSpec => []SessionInv
  <1>1. SessionInit => SessionInv
    BY SessionInitInv
  <1>2. SessionInv /\ [SessionNext]_allVars => SessionInv'
    BY SessionNextInv
  <1> QED BY <1>1, <1>2, PTL DEF SessionSpec

\* As long as datagrams stay in order, what a client was last told of its user
\* is true until somebody is served after it, for any number of clients,
\* requests given up, answers lost and deaths of the server
\* (client.c:18-120, server.c:42-106).
THEOREM ToldIsTrue ==
    ASSUME InOrder
    PROVE  SessionSpec => []AnswersStayTrue
  <1>1. SessionInv => AnswersStayTrue
    BY DEF SessionInv
  <1> QED BY <1>1, SessionInvariance, PTL

\* The clients' sessions, calls and requests agree, in whatever order datagrams
\* come: a request that somebody waits for is the one he waits for (use_udp).
THEOREM SessionsAgree == SessionSpec => []SessionTypeOK
  <1>1. SessionInv => SessionTypeOK
    BY DEF SessionInv
  <1> QED BY <1>1, SessionInvariance, PTL

\* Behind its clients and the network, in whatever order datagrams come, the
\* server is still the one of AuctionServer, so that all theorems about it hold
\* for Session too: no client makes it take a step that is not a handler's
\* (receive_udp, treat_request).
THEOREM SessionServer == SessionSpec => Spec
  <1>1. SessionInit => Init
    BY DEF SessionInit
  <1>2. SessionInv /\ [SessionNext]_allVars => [Next]_vars
    <2> SUFFICES ASSUME SessionInv, [SessionNext]_allVars PROVE [Next]_vars
      OBVIOUS
    <2>1. ASSUME handle_sockets PROVE Next
      <3>1. PICK k \in DOMAIN network : Treat(k)
        BY <2>1 DEF handle_sockets
      <3>2. PICK r \in Request : r = network[k]
        BY DEF SessionInv, SessionTypeOK
      <3> QED BY <3>1, <3>2, TreatOutcome DEF SessionInv
    <2>2. ASSUME Server PROVE Next
      BY <2>2 DEF Server, Next
    <2>3. ASSUME UNCHANGED allVars PROVE UNCHANGED vars
      BY <2>3 DEF allVars
    <2>4. ASSUME Lose PROVE UNCHANGED vars
      BY <2>4 DEF Lose
    <2>5. ASSUME NEW c \in Clients,
                 \/ \E as \in Credentials : login(c, as)
                 \/ logout(c)
                 \/ unregister(c)
                 \/ Timeout(c)
                 \/ Receive(c)
                 \/ RestartClient(c)
          PROVE  UNCHANGED vars
      BY <2>5 DEF login, logout, unregister, use_udp, Timeout, Receive, RestartClient
    <2> QED BY <2>1, <2>2, <2>3, <2>4, <2>5 DEF SessionNext
  <1> QED BY <1>1, <1>2, SessionInvariance, PTL DEF SessionSpec, Spec

\* Nobody is logged in without a complete password, whatever clients there
\* are (server.c:42, server.c:88).
THEOREM SessionLoginsHavePasswords == SessionSpec => []LoggedInHasPassword
  <1> QED BY SessionServer, LoginsHavePasswords, PTL

=============================================================================
