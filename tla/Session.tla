------------------------------- MODULE Session -------------------------------
(***************************************************************************)
(* The session of a user: what the client keeps in its struct user, what   *)
(* the server keeps on disk, and the datagrams of use_udp between the two. *)
(*                                                                         *)
(* login, logout and unregister send one datagram, wait up to TIMEOUT_SECS *)
(* for one answer, and send nothing again.  Each opens a socket of its own *)
(* and closes it, so an answer that is late finds nobody; a request that   *)
(* is late is treated all the same.  The server is AuctionServer: it takes *)
(* one datagram after another, and may die in the middle of one.           *)
(***************************************************************************)
EXTENDS AuctionServer, Sequences, SequencesExt

CONSTANTS
    Clients,        \* client processes
    MaxRequests,    \* bound: requests under way at a time
    InOrder,        \* datagrams are not reordered
    Idle,           \* the client is at its prompt
    LoggedOut       \* user.logged_in is false

ASSUME MaxRequestsAssumption == MaxRequests \in Nat
ASSUME InOrderAssumption == InOrder \in BOOLEAN

VARIABLES
    user,           \* the struct user of each client
    call,           \* the request each client waits to see answered
    answer,         \* the answer that has come for it
    network,        \* requests under way, or in the server's socket
    told,           \* what the last answer a client was given says of its user
    overtaken       \* clients and users another client was served for since

sessionVars == <<user, call, answer, network, told, overtaken>>

allVars == <<vars, sessionVars>>

Credentials == [uid : Users, password : Passwords]

Operations == {"LIN", "LOU", "UNR"}

\* "live" as long as the socket it came from is open.
Request ==
    [by : Clients, live : BOOLEAN, op : Operations, as : Credentials]

Facts == [as : Credentials, in : BOOLEAN]

ASSUME IdleAssumption == Idle \notin Request

\* A request is the one its client waits for, made with the credentials of the
\* session it is about.
SessionTypeOK ==
    /\ user \in [Clients -> Credentials \cup {LoggedOut}]
    /\ call \in [Clients -> Request \cup {Idle}]
    /\ answer \in [Clients -> Statuses]
    /\ network \in Seq(Request)
    /\ Len(network) <= MaxRequests
    /\ told \in [Clients -> Facts \cup {Idle}]
    /\ overtaken \subseteq Clients \X Users
    /\ \A c \in Clients :
           call[c] # Idle =>
               IF call[c].op = "LIN" THEN user[c] = LoggedOut ELSE user[c] = call[c].as
    /\ \A k \in DOMAIN network : network[k].live => call[network[k].by] = network[k]

SessionInit ==
    /\ Init
    /\ user = [c \in Clients |-> LoggedOut]
    /\ call = [c \in Clients |-> Idle]
    /\ answer = [c \in Clients |-> NoReply]
    /\ network = <<>>
    /\ told = [c \in Clients |-> Idle]
    /\ overtaken = {}

-----------------------------------------------------------------------------
(***************************************************************************)
(* The clients.                                                            *)
(***************************************************************************)

\* The first half of use_udp, up to its select.
use_udp(c, op, as) ==
    LET r == [by |-> c, live |-> TRUE, op |-> op, as |-> as]
    IN  /\ call[c] = Idle
        /\ Len(network) < MaxRequests
        /\ call' = [call EXCEPT ![c] = r]
        /\ network' = Append(network, r)
        /\ told' = [told EXCEPT ![c] = Idle]
        /\ UNCHANGED <<user, answer, overtaken, vars>>

\* Variant: does not look whether somebody is logged in already.
login_again(c, as) == use_udp(c, "LIN", as)

login(c, as) ==
    /\ user[c] = LoggedOut
    /\ use_udp(c, "LIN", as)

logout(c) ==
    /\ user[c] # LoggedOut
    /\ use_udp(c, "LOU", user[c])

unregister(c) ==
    /\ user[c] # LoggedOut
    /\ use_udp(c, "UNR", user[c])

\* Variant: the next command uses the same socket.
Abandoned_not(c) == network

\* The requests under way once the socket of c is closed.
Abandoned(c) ==
    [k \in DOMAIN network |->
        IF network[k].by = c THEN [network[k] EXCEPT !.live = FALSE] ELSE network[k]]

\* The second half of use_udp returns NULL.  The command leaves the session as
\* it is, whatever the server has done or will do with the request.
Timeout(c) ==
    /\ call[c] # Idle
    /\ call' = [call EXCEPT ![c] = Idle]
    /\ answer' = [answer EXCEPT ![c] = NoReply]
    /\ network' = Abandoned(c)
    /\ UNCHANGED <<user, told, overtaken, vars>>

\* Variant: whatever is not an error is a success.
login_res_lenient(status) == status # "ERR"

login_res(status) == status \in {"OK", "REG"}

\* The answer comes in time.  Any answer ends a session, also a refusal.
Receive(c) ==
    /\ call[c] # Idle
    /\ answer[c] # NoReply
    /\ LET in == IF call[c].op = "LIN" THEN login_res(answer[c]) ELSE FALSE
       IN  /\ user' = [user EXCEPT ![c] = IF in THEN call[c].as ELSE LoggedOut]
           /\ told' = [told EXCEPT ![c] =
                  IF call[c].op = "LIN" /\ ~in THEN Idle ELSE [as |-> call[c].as, in |-> in]]
    /\ call' = [call EXCEPT ![c] = Idle]
    /\ answer' = [answer EXCEPT ![c] = NoReply]
    /\ network' = Abandoned(c)
    /\ UNCHANGED <<overtaken, vars>>

\* The process ends, logged in or not, and is started again.
RestartClient(c) ==
    /\ user' = [user EXCEPT ![c] = LoggedOut]
    /\ call' = [call EXCEPT ![c] = Idle]
    /\ answer' = [answer EXCEPT ![c] = NoReply]
    /\ network' = Abandoned(c)
    /\ told' = [told EXCEPT ![c] = Idle]
    /\ UNCHANGED <<overtaken, vars>>

-----------------------------------------------------------------------------
(***************************************************************************)
(* The network and the server.                                             *)
(***************************************************************************)

Lose ==
    /\ \E k \in DOMAIN network : network' = RemoveAt(network, k)
    /\ UNCHANGED <<user, call, answer, told, overtaken, vars>>

\* receive_udp and treat_request.  The answer goes to the socket the request
\* came from, and may get lost.
Treat(k) ==
    LET r == network[k]
    IN  /\ \/ r.op = "LIN" /\ Login(r.as.uid, r.as.password)
           \/ r.op = "LOU" /\ Logout(r.as.uid, r.as.password)
           \/ r.op = "UNR" /\ Unregister(r.as.uid, r.as.password)
        /\ network' = RemoveAt(network, k)
        /\ answer' \in {answer} \cup
               {[answer EXCEPT ![r.by] = reply'] : b \in {TRUE} \cap {r.live}}
        /\ overtaken' = (overtaken \cup ((Clients \ {r.by}) \X {r.as.uid}))
                            \ {x \in {<<r.by, r.as.uid>>} : r.live}
        /\ UNCHANGED <<user, call, told>>

handle_sockets ==
    \E k \in DOMAIN network : (InOrder => k = 1) /\ Treat(k)

\* The server dies between two requests, or starts again.
Server == (Kill \/ Restart) /\ UNCHANGED sessionVars

SessionNext ==
    \/ \E c \in Clients :
           \/ \E as \in Credentials : login(c, as)
           \/ logout(c)
           \/ unregister(c)
           \/ Timeout(c)
           \/ Receive(c)
           \/ RestartClient(c)
    \/ Lose
    \/ handle_sockets
    \/ Server

SessionSpec == SessionInit /\ [][SessionNext]_allVars

-----------------------------------------------------------------------------
(***************************************************************************)
(* Properties.                                                             *)
(***************************************************************************)

\* The user is logged in, and that is his password.
LoggedInAs(as) ==
    /\ user_loggedin(disk, as.uid)
    /\ user_ok_password(disk, as.uid, as.password)

\* What the answer to a command says of the user stays true until that client
\* sends again or the server serves another client for that user: after a
\* login the server has the user logged in with that password, after a logout
\* or unregister, refused or not, it does not.  Neither the requests that timed
\* out before, and are treated late, nor lost answers, nor the server's death
\* change that, as long as datagrams stay in order.
AnswersStayTrue ==
    \A c \in Clients :
        told[c] # Idle /\ <<c, told[c].as.uid>> \notin overtaken =>
            LoggedInAs(told[c].as) <=> told[c].in

-----------------------------------------------------------------------------
(***************************************************************************)
(* The inductive invariant behind AnswersStayTrue, which SessionProofs     *)
(* shows to be one.  Its last part holds for datagrams that stay in order. *)
(***************************************************************************)

\* A client waits for the last of its requests.
LiveIsLast ==
    \A i, j \in DOMAIN network :
        network[i].live /\ network[j].by = network[i].by => j <= i

\* Only a client that waits has an answer, and it has not been told one.
CallsAreOpen ==
    \A c \in Clients :
        IF call[c] = Idle THEN answer[c] = NoReply ELSE told[c] = Idle

\* Once its last request is answered, nothing of a client is under way.
NothingBehindAnswer ==
    \A c \in Clients :
        answer[c] # NoReply \/ told[c] # Idle =>
            \A k \in DOMAIN network : network[k].by # c

\* An answer that waits for its client is true already.
WaitingAnswersTrue ==
    \A c \in Clients :
        /\ answer[c] # NoReply
        /\ <<c, call[c].as.uid>> \notin overtaken
        => IF call[c].op = "LIN"
           THEN login_res(answer[c]) => LoggedInAs(call[c].as)
           ELSE ~LoggedInAs(call[c].as)

SessionInv ==
    /\ Inv
    /\ SessionTypeOK
    /\ LiveIsLast
    /\ CallsAreOpen
    /\ InOrder => NothingBehindAnswer /\ WaitingAnswersTrue /\ AnswersStayTrue

=============================================================================
