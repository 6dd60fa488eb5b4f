---------------------------- MODULE Connections ----------------------------
(***************************************************************************)
(* The TCP connections of the server: the loop of handle_sockets over      *)
(* select, the table tcp_conns of the requests that are still coming in,   *)
(* and the file descriptors both are keyed by.                             *)
(*                                                                         *)
(* Many connections, one thread.  A client writes its request in pieces;   *)
(* a read returns any number of those that have come; the pieces of an     *)
(* unfinished request wait in the slot of the table that bears the         *)
(* descriptor.  Descriptors and slots are used again, the lowest first.    *)
(* The requests themselves are treated in AuctionServer and Upload.        *)
(***************************************************************************)
EXTENDS Integers, FiniteSets, Sequences, FiniteSetsExt

CONSTANTS
    NumClients,     \* runs of use_tcp, transfer_file and send_file
    Requests,       \* what the clients may ask for, in the order they connect
    MaxGone,        \* bound: clients that go away before the answer
    MaxTcpCount,    \* MAX_TCP_COUNT
    RequestPieces,  \* pieces of a request that ends with its newline
    FilePieces,     \* pieces of a file, its final newline included
    None,           \* no client, no asset
    AssetFile       \* what is behind a descriptor that is no connection

ASSUME NumClientsAssumption == NumClients \in Nat
ASSUME MaxGoneAssumption == MaxGone \in Nat
ASSUME MaxTcpCountAssumption == MaxTcpCount \in Nat \ {0}
ASSUME PiecesAssumption == RequestPieces \in Nat \ {0} /\ FilePieces \in Nat \ {0}

\* Numbered in the order in which they connect.
Clients == 1 .. NumClients

\* "bid" stands for CLS too: both are answered by one write.
Kinds == {"bid", "sas", "opa"}

ASSUME RequestsAssumption == Requests \subseteq [Clients -> Kinds]

ASSUME NoneAssumption == None \notin Clients /\ AssetFile \notin Clients \cup {None}

tcp_main == 3

\* Enough descriptors for every connection and every file of a run.
Fds == 5 .. (5 + MaxTcpCount + Cardinality(Clients))

Slots == 1 .. MaxTcpCount

VARIABLES
    request,        \* what each client asks for
    client,         \* its end of the connection
    written,        \* pieces it has written
    taken,          \* pieces the server has read
    answer,         \* what the server has written on the connection
    asset,          \* the file of the auction each client has opened
    backlog,        \* connections that wait for accept
    fds,            \* what is behind each descriptor
    tcp_conns,
    current_sockets,
    ready_sockets,  \* those that this pass of the loop has not visited yet
    alive           \* the server runs

vars == <<request, client, written, taken, answer, asset, backlog, fds,
          tcp_conns, current_sockets, ready_sockets, alive>>

clientVars == <<request, client, written>>

\* The header of an OPA comes in one piece: Upload looks inside it.
Total(c) == IF request[c] = "opa" THEN 1 + FilePieces ELSE RequestPieces

Piece == Clients \X (1 .. (1 + RequestPieces + FilePieces))

\* A zero of the cleared buffer.
Zero == <<None, 0>>

\* An auction without a file is not one whose file is empty.
ASSUME NoFileAssumption == None \notin Seq(Piece \cup {Zero})

\* The pieces of c after the first a, up to the b-th.
PiecesOf(c, a, b) == [j \in 1 .. (b - a) |-> <<c, a + j>>]

UnusedSlot ==
    [socket_id |-> -1, buffer |-> <<>>, buffer_i |-> 0, in_file |-> FALSE,
     remaining_size |-> 0, excess |-> 0, final_response |-> None]

SlotType ==
    [socket_id : Fds \cup {-1}, buffer : Seq(Piece \cup {Zero}), buffer_i : Nat,
     in_file : BOOLEAN, remaining_size : Int, excess : Int,
     final_response : Clients \cup {None}]

\* "NOK" stands for every refusal.
Statuses == {"OK", "NOK"}

Answer == [status : Statuses \cup {"ERR"}, to : Clients \cup {None}]

TypeOK ==
    /\ request \in Requests
    /\ client \in [Clients -> {"new", "connected", "left", "broken"}]
    /\ written \in [Clients -> Nat]
    /\ taken \in [Clients -> Nat]
    /\ \A c \in Clients : taken[c] <= written[c] /\ written[c] <= Total(c)
    /\ answer \in [Clients -> Seq(Answer)]
    /\ asset \in [Clients -> {None} \cup Seq(Piece \cup {Zero})]
    /\ backlog \in Seq(Clients)
    /\ fds \in [Fds -> Clients \cup {None, AssetFile}]
    /\ tcp_conns \in [Slots -> SlotType]
    /\ current_sockets \subseteq Fds \cup {tcp_main}
    /\ ready_sockets \subseteq current_sockets
    /\ alive \in BOOLEAN

Init ==
    /\ request \in Requests
    /\ client = [c \in Clients |-> "new"]
    /\ written = [c \in Clients |-> 0]
    /\ taken = [c \in Clients |-> 0]
    /\ answer = [c \in Clients |-> <<>>]
    /\ asset = [c \in Clients |-> None]
    /\ backlog = <<>>
    /\ fds = [f \in Fds |-> None]
    /\ tcp_conns = [i \in Slots |-> UnusedSlot]
    /\ current_sockets = {tcp_main}
    /\ ready_sockets = {}
    /\ alive = TRUE

----------------------------------------------------------------------------
(***************************************************************************)
(* The clients.                                                            *)
(***************************************************************************)

serverVars == <<taken, answer, asset, fds, tcp_conns, current_sockets,
                ready_sockets, alive>>

\* Nothing is looked at after the server's end.
Waits(c) == alive /\ client[c] = "connected" /\ answer[c] = <<>>

Gone == Cardinality({c \in Clients : client[c] \in {"left", "broken"}})

Connect(c) ==
    /\ alive
    /\ client[c] = "new"
    /\ \A b \in Clients : b < c => client[b] # "new"
    /\ client' = [client EXCEPT ![c] = "connected"]
    /\ backlog' = Append(backlog, c)
    /\ UNCHANGED <<request, written, serverVars>>

WritePiece(c) ==
    /\ Waits(c)
    /\ written[c] < Total(c)
    /\ written' = [written EXCEPT ![c] = @ + 1]
    /\ UNCHANGED <<request, client, backlog, serverVars>>

\* The client gives up, or its user kills it: the server reads what is there
\* and then, for ever, the end of the stream.
Leave(c) ==
    /\ Waits(c)
    /\ Gone < MaxGone
    /\ client' = [client EXCEPT ![c] = "left"]
    /\ UNCHANGED <<request, written, backlog, serverVars>>

\* The connection is reset: the server reads what is there and then an error.
Break(c) ==
    /\ Waits(c)
    /\ Gone < MaxGone
    /\ client' = [client EXCEPT ![c] = "broken"]
    /\ UNCHANGED <<request, written, backlog, serverVars>>

----------------------------------------------------------------------------
(***************************************************************************)
(* The table of connections.                                               *)
(***************************************************************************)

FirstFree(t) == Min({f \in Fds : t[f] = None})

\* new_tcpconn fills in the descriptor and allocates a cleared buffer; it
\* counts on rm_tcpconn for the other fields.
new_tcpconn(t, i, f) == [t EXCEPT ![i].socket_id = f, ![i].buffer = <<>>]

\* Variant: the place in the buffer is not reset.
rm_tcpconn_keeps_place(t, f) ==
    [i \in Slots |->
        IF t[i].socket_id = f
        THEN [UnusedSlot EXCEPT !.buffer_i = t[i].buffer_i]
        ELSE t[i]]

\* Variant: frees the slot in name only.
rm_tcpconn_forgotten(t, f) == t

rm_tcpconn(t, f) ==
    [i \in Slots |-> IF t[i].socket_id = f THEN UnusedSlot ELSE t[i]]

SlotOf(f) == Min({i \in Slots : tcp_conns[i].socket_id = f})

----------------------------------------------------------------------------
(***************************************************************************)
(* The server.  ready_sockets holds what select reported and the loop over *)
(* the descriptors has not come to; the lowest is next.                    *)
(***************************************************************************)

readable(f) ==
    IF f = tcp_main
    THEN backlog # <<>>
    ELSE LET c == fds[f]
         IN  c \in Clients /\ (written[c] > taken[c] \/ client[c] # "connected")

\* Variant: one descriptor a pass.
Select_one ==
    LET R == {f \in current_sockets : readable(f)}
    IN  /\ alive
        /\ ready_sockets = {}
        /\ R # {}
        /\ ready_sockets' = {Min(R)}
        /\ UNCHANGED <<clientVars, backlog, taken, answer, asset, fds, tcp_conns,
                       current_sockets, alive>>

\* When nothing is readable for TIMEOUT_SECS select returns 0 and the loop
\* looks for sockets to close among those select reported: there are none.
Select ==
    LET R == {f \in current_sockets : readable(f)}
    IN  /\ alive
        /\ ready_sockets = {}
        /\ R # {}
        /\ ready_sockets' = R
        /\ UNCHANGED <<clientVars, backlog, taken, answer, asset, fds, tcp_conns,
                       current_sockets, alive>>

Visit(f) ==
    /\ alive
    /\ ready_sockets # {}
    /\ f = Min(ready_sockets)
    /\ ready_sockets' = ready_sockets \ {f}

\* A write and a close on c, and the slot of f is free.
send_tcp(f, c, res) ==
    /\ answer' = [answer EXCEPT ![c] = Append(@, res)]
    /\ fds' = [fds EXCEPT ![f] = None]
    /\ tcp_conns' = rm_tcpconn(tcp_conns, f)

\* FD_CLR.
Unwatch(f) == current_sockets' = current_sockets \ {f}

TooMany == [status |-> "ERR", to |-> None]

\* With a full table the connection is answered and closed at once.
accept_new_tcp ==
    LET c == Head(backlog)
        newfd == FirstFree(fds)
        free == {i \in Slots : tcp_conns[i].socket_id = -1}
    IN  /\ Visit(tcp_main)
        /\ backlog' = Tail(backlog)
        /\ \/ /\ free # {}
              /\ tcp_conns' = new_tcpconn(tcp_conns, Min(free), newfd)
              /\ fds' = [fds EXCEPT ![newfd] = c]
              /\ current_sockets' = current_sockets \cup {newfd}
              /\ UNCHANGED answer
           \/ /\ free = {}
              /\ send_tcp(newfd, c, TooMany)
              /\ UNCHANGED current_sockets
        /\ UNCHANGED <<clientVars, taken, asset, alive>>

\* Variant: a zero after the text is counted.
Readable_zero(c) == 0 .. (written[c] - taken[c] + 1)

\* read(): any part of what has come, and nothing at the end of the stream.
Readable(c) ==
    LET come == written[c] - taken[c]
    IN  IF come = 0 /\ client[c] = "left" THEN {0} ELSE 1 .. come

\* An error of read().  The server means to answer and to go on, but the write
\* on the connection whose error it has just read raises SIGPIPE.
read_error(f, c) ==
    /\ client[c] = "broken"
    /\ written[c] = taken[c]
    /\ alive' = FALSE
    /\ UNCHANGED <<taken, answer, asset, fds, tcp_conns, current_sockets>>

Ok(c) == [status |-> "OK", to |-> c]

\* The response that was kept until the file was complete.
finish_file(f, c, opener) ==
    /\ send_tcp(f, c, Ok(opener))
    /\ Unwatch(f)

\* Variant: the file is opened and not closed.
receive_file_left_open(f, c, n) ==
    LET i == SlotOf(f)
        opener == tcp_conns[i].final_response
    IN  /\ asset' = [asset EXCEPT ![opener] = @ \o PiecesOf(c, taken[c], taken[c] + n)]
        /\ tcp_conns' = [tcp_conns EXCEPT ![i].remaining_size = @ - n]
        /\ fds' = [fds EXCEPT ![FirstFree(fds)] = AssetFile]
        /\ UNCHANGED <<answer, current_sockets>>

\* receive_tcp in a file: opens it, appends, closes it.  After the last piece
\* it closes the connection and frees the slot, and frees it once more, which
\* finds none.
receive_file(f, c, n) ==
    LET i == SlotOf(f)
        opener == tcp_conns[i].final_response
    IN  /\ asset' = [asset EXCEPT ![opener] = @ \o PiecesOf(c, taken[c], taken[c] + n)]
        /\ \/ /\ tcp_conns[i].remaining_size - n < 1
              /\ finish_file(f, c, opener)
           \/ /\ tcp_conns[i].remaining_size - n >= 1
              /\ tcp_conns' = [tcp_conns EXCEPT ![i].remaining_size = @ - n]
              /\ UNCHANGED <<answer, fds, current_sockets>>

\* The buffer of a slot after a read, from its place buffer_i on.
filled(slot, pieces) ==
    [j \in 1 .. slot.buffer_i |->
        IF j <= Len(slot.buffer) THEN slot.buffer[j] ELSE Zero] \o pieces

\* parse_opa finds a header in the buffer.
is_opa(buffer) ==
    buffer # <<>> /\ buffer[1] # Zero /\ buffer[1][2] = 1 /\ request[buffer[1][1]] = "opa"

\* The client whose whole request this is, if it is one.
whose(buffer) ==
    IF \E c \in Clients : buffer = PiecesOf(c, 0, Total(c))
    THEN CHOOSE c \in Clients : buffer = PiecesOf(c, 0, Total(c))
    ELSE None

\* Variant: what follows the header in the same read is dropped.
prepare_freceive_no_excess(f, c, slot) ==
    LET opener == slot.buffer[1][1]
    IN  /\ asset' = [asset EXCEPT ![opener] = <<>>]
        /\ IF slot.remaining_size - slot.excess < 1
           THEN finish_file(f, c, opener)
           ELSE /\ tcp_conns' = [tcp_conns EXCEPT ![SlotOf(f)] =
                       [slot EXCEPT !.final_response = opener,
                                    !.remaining_size = @ - slot.excess]]
                /\ UNCHANGED <<answer, fds, current_sockets>>

\* prepare_freceive after an OK of open_auc: what followed the header in the
\* same read goes into the file.  Unless that was all of it, the file's
\* descriptor is never closed.
prepare_freceive(f, c, slot) ==
    LET opener == slot.buffer[1][1]
        left == slot.remaining_size - slot.excess
    IN  /\ asset' = [asset EXCEPT ![opener] =
               SubSeq(slot.buffer, 1 + slot.buffer_i, Len(slot.buffer))]
        /\ \/ /\ left < 1
              /\ finish_file(f, c, opener)
           \/ /\ left >= 1
              /\ tcp_conns' = [tcp_conns EXCEPT ![SlotOf(f)] =
                     [slot EXCEPT !.final_response = opener,
                                  !.remaining_size = left,
                                  !.buffer = <<>>]]
              /\ fds' = [fds EXCEPT ![FirstFree(fds)] = AssetFile]
              /\ UNCHANGED <<answer, current_sockets>>

\* A request is answered, whatever the answer, and the connection closed.
answer_request(f, c, to) ==
    /\ \E status \in Statuses :
           send_tcp(f, c, [status |-> status, to |-> to])
    /\ Unwatch(f)

\* Variant: the connection stays in current_sockets.
treat_request_watched(f, c, buffer) ==
    /\ \E status \in Statuses :
           send_tcp(f, c, [status |-> status, to |-> whose(buffer)])
    /\ UNCHANGED <<asset, alive, current_sockets>>

\* treat_request, for all but OPA.  A file is sent in more than one write,
\* and the second one on a connection the client has closed raises SIGPIPE,
\* unless the reset that the first one causes is late.
treat_request(f, c, buffer) ==
    /\ UNCHANGED asset
    /\ \/ /\ answer_request(f, c, whose(buffer))
          /\ UNCHANGED alive
       \/ /\ whose(buffer) # None
          /\ request[whose(buffer)] = "sas"
          /\ client[c] = "left"
          /\ alive' = FALSE
          /\ UNCHANGED <<answer, fds, tcp_conns, current_sockets>>

\* receive_tcp while the request comes in.  A read that brings nothing into an
\* empty buffer looks at the byte before it, the length malloc keeps there,
\* which does not end in a newline.
receive_request(f, c, n) ==
    LET i == SlotOf(f)
        buffer == filled(tcp_conns[i], PiecesOf(c, taken[c], taken[c] + n))
        header == [tcp_conns[i] EXCEPT !.buffer = buffer, !.buffer_i = 1,
                       !.in_file = TRUE, !.remaining_size = FilePieces,
                       !.excess = n - 1]
        last == buffer[Len(buffer)]
        complete == buffer # <<>> /\ last # Zero /\ last[2] = Total(last[1])
    IN  \/ /\ is_opa(buffer)
           /\ \/ prepare_freceive(f, c, header)
              \/ /\ send_tcp(f, c, [status |-> "NOK", to |-> buffer[1][1]])
                 /\ Unwatch(f)
                 /\ UNCHANGED asset
           /\ UNCHANGED alive
        \/ /\ ~is_opa(buffer)
           /\ complete
           /\ treat_request(f, c, buffer)
        \/ /\ ~is_opa(buffer)
           /\ ~complete
           /\ tcp_conns' = [tcp_conns EXCEPT ![i].buffer = buffer,
                                             ![i].buffer_i = Len(buffer)]
           /\ UNCHANGED <<answer, asset, fds, current_sockets, alive>>

receive_tcp ==
    \E f \in Fds :
        LET c == fds[f]
        IN  /\ Visit(f)
            /\ \/ \E n \in Readable(c) :
                      /\ taken' = [taken EXCEPT ![c] = @ + n]
                      /\ \/ /\ tcp_conns[SlotOf(f)].in_file
                            /\ receive_file(f, c, n)
                            /\ UNCHANGED alive
                         \/ /\ ~tcp_conns[SlotOf(f)].in_file
                            /\ receive_request(f, c, n)
               \/ read_error(f, c)
            /\ UNCHANGED <<clientVars, backlog>>

handle_sockets == Select \/ accept_new_tcp \/ receive_tcp

Next ==
    \/ \E c \in Clients : Connect(c) \/ WritePiece(c) \/ Leave(c) \/ Break(c)
    \/ handle_sockets

Spec == Init /\ [][Next]_vars

\* The server loops for ever; a client may stop at any point.
LiveSpec == Spec /\ WF_vars(handle_sockets)

----------------------------------------------------------------------------
(***************************************************************************)
(* Properties.                                                             *)
(***************************************************************************)

Opened(f) == fds[f] \in Clients

\* The three places that know a connection agree between any two steps of the
\* loop: what is open is watched and has one slot, what is closed is neither
\* watched nor in the table.  A closed descriptor in the set would end the
\* server at the next select; a slot that outlives its connection would hand
\* its half request to the next connection with that descriptor.
TableAgrees ==
    /\ current_sockets \ {tcp_main} = {f \in Fds : Opened(f)}
    /\ \A f \in Fds : Opened(f) <=> \E i \in Slots : tcp_conns[i].socket_id = f
    /\ \A i, j \in Slots :
           /\ tcp_conns[i].socket_id = tcp_conns[j].socket_id
           /\ tcp_conns[i].socket_id # -1
           => i = j

\* However the pieces of several requests interleave and slots are used again,
\* a connection gets at most one answer, to its own request, or the ERR of a
\* full table.
AnswerIsOwn ==
    \A c \in Clients :
        /\ Len(answer[c]) <= 1
        /\ answer[c] # <<>> => answer[c][1] \in {TooMany} \cup
               [status : Statuses, to : {c}]

\* Of several uploads in turns, each file gets the pieces of its own
\* connection, in order, and all of them before the OK.
AssetIsOwn ==
    \A c \in Clients :
        asset[c] # None =>
            /\ asset[c] = PiecesOf(c, 1, taken[c])
            /\ Ok(c) \in {answer[c][k] : k \in DOMAIN answer[c]} => taken[c] = Total(c)

\* prepare_freceive leaves a descriptor behind; nothing else does, so that an
\* upload costs one descriptor at most.
DescriptorsBounded ==
    Cardinality({f \in Fds : fds[f] = AssetFile})
        <= Cardinality({c \in Clients : asset[c] # None})

\* A client that has written its request and waits is answered, whoever else
\* holds a slot, has gone away or is in the middle of a file; the server only
\* has to stay alive.
EveryoneAnswered ==
    \A c \in Clients :
        (client[c] = "connected" /\ written[c] = Total(c))
            ~> (answer[c] # <<>> \/ client[c] # "connected" \/ ~alive)

\* handle_sockets has a branch for connections that time out: the connection
\* of a client that has gone is closed in the end.
GoneAreClosed ==
    \A c \in Clients :
        (client[c] = "left") ~> (~alive \/ \A f \in Fds : fds[f] # c)

=============================================================================
