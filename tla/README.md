# Verification of the RC auction server

TLA+ models of the auction server and its client (`src/src/`), the TLC
configurations that check them on small instances, and TLAPS proofs of the
properties that matter most.  The program is a course project: a server that
hosts ascending auctions and a command-line client, talking over UDP (short
requests) and TCP (bids, openings, closings, file transfers).

## The system

One server process, one `select` loop, no threads.  Everything the server knows
lives in a tree of directories and small text files under `DB/`; a handler
reads them again on every request and updates them one file operation at a time.
`SIGINT` calls `exit` wherever it finds the program.  Clients are independent
processes, each with its own idea of who is logged in.

| component | state | operations | talks to |
|---|---|---|---|
| account store (`server/db.c` 50-189) | `USERS/uid/`: `uid_pass.txt`, `uid_login.txt`, `HOSTED/`, `BIDDED/` | `user_register`, `user_unregister`, `user_login`, `user_logout`, queries | called by the handlers |
| auction and bid store (`server/db.c` 191-932) | `AUCTIONS/aid/`: `aid_start.txt`, `aid_end.txt`, `CURRENT_BID.txt`, `BIDS/value.txt`, `ASSET/` | `auction_open`, `auction_update`, `auction_close_now`, `make_bid`, lists | called by the handlers; reads the clock |
| request handlers (`server/server.c` 42-567) | none | `login`, `logout`, `unregister`, `open_auc`, `close_auc`, `user_auctions`, `user_bids`, `list`, `show_asset`, `bid`, `show_record` | the stores; answers through the connection layer |
| connections and select loop (`server/connection.c`, `server/server.c` 569-686) | `tcp_conns[100]`, the set of descriptors | `accept_new_tcp`, `receive_udp`, `receive_tcp`, `send_*` | clients; the handlers |
| asset upload (`server/connection.c` 190-295, 392-451; `server/protocol.c` 235-313) | `in_file`, `remaining_size`, `excess` of a connection | header, then file bytes, in whatever segments TCP delivers | `open_auc`; the client's `send_file` |
| asset download (`server/connection.c` 328-390) | none | `send_tcp_file` | the client's `transfer_file` |
| client session (`client/client.c`) | `user = {logged_in, uid, password}` | one function per command | the client connection |
| client connection (`client/connection.c`) | none | `use_udp`, `use_tcp`, `transfer_file`, `send_file` | the server |
| formats and parsing (`*/protocol.c`, `util.c`) | none | requests and answers as text | everything |

What is hard about it:

- **crashes**: a handler that dies half way leaves a prefix of its file
  operations, nothing is undone or repaired, and the next server goes on from
  there;
- **time**: nothing happens at an auction's deadline; whoever looks at it later
  closes it, and one handler reads the clock several times;
- **partial failure**: several functions fail after their first writes;
- **derived state**: `CURRENT_BID`, `HOSTED`, `BIDDED`, the next aid and the
  existence of `END` are all derived from, or kept beside, other files;
- **segmentation** (connection layer): TCP delivers a request in any pieces;
- **interleaving** (connection layer): one thread, many connections, whose
  descriptors and slots are used again as soon as they are free;
- **loss and delay** (client): UDP commands are sent once, with a timeout, and a
  request that was given up may still be carried out;
- **clients that go away** in the middle of a request, an upload or a download.

What makes each component correct:

- accounts: nobody is logged in without a complete password, wherever the
  server died;
- auctions: an acknowledged auction keeps its terms; aids are never reused; a
  closed auction stays closed and its record agrees with itself;
- bids: an acknowledged bid is never lost or overwritten, is above the start
  value and every earlier accepted bid, is not the owner's, and was in time;
- connections: every request is answered once, on its own connection, whatever
  the others do; descriptors, slots and the watched set agree;
- upload: an `OK` means that the asset on disk is the file;
- download: a file the client calls saved after a whole header is the asset, and
  neither side is stuck with the other (but for a number in a name that was cut);
- session: what a client was last told of its user stays true until somebody
  is served after it.

## The modules

| module | what it is |
|---|---|
| `AuctionDb` | the file tree as a record `d`, and each function of `db.c` as an operator from a tree to a tree, with the set of *torn* trees that a crash inside it leaves |
| `AuctionServer` | the handlers of `server.c`, one action each, with crash, restart and clock; the properties; the inductive invariant `Inv` |
| `AuctionHouse` | the abstract specification: an ascending auction with a deadline |
| `MCAuctionServer` | `AuctionServer` with TLC's symmetry set |
| `AuctionDbProofs` | lemmas about what the operators of `AuctionDb` change |
| `AuctionServerProofs` | the proofs about `AuctionServer` |
| `AuctionRecordProofs` | the proofs about what the files of `AuctionServer` say until the server first dies |
| `NumberLemmas` | facts about numbers that several proofs need |
| `Upload` | one opening of an auction over TCP: the client's `send_file` and the server's `receive_tcp`, `parse_opa`, `prepare_freceive`, with the stream cut into segments |
| `UploadProofs` | the proofs about `Upload` |
| `Connections` | the loop of `handle_sockets`, the table `tcp_conns` and the descriptors, with several clients whose pieces interleave |
| `MCConnections` | `Connections` with the mixes of requests that the runs take |
| `ConnectionsProofs` | the proofs about `Connections` |
| `Download` | one download over TCP: the server's `send_tcp_file` and the client's `transfer_file` |
| `MCDownload` | `Download` with the names that the runs take and `atoi` on their parts |
| `DownloadProofs` | the proofs about `Download` |
| `Session` | extends `AuctionServer` with clients, their `struct user`, and the datagrams of `use_udp` in between |
| `SessionProofs` | the proofs about `Session` |

### How the model corresponds to the code

`disk` is the tree of `DB/`.  A directory is membership in a set (`userDir`,
`biddedDir`, `hostedDir`, `auction`, `bidsDir`), an empty marker file likewise
(`login`, `bidded`, `hosted`), and a file with content is a function to its
content, `NoFile` when it does not exist, `Blank` when it exists and nothing was
written.  END is a pair because its date and its number of seconds are two
`write` calls.

A handler is one action: the select loop finishes one request before it reads
the next, so handlers do not interleave.  The guards follow the order of the
checks in the code.  A handler ends in one of two ways: `Answer` (all its file
operations, then the status) or `Die`, which leaves one of the trees its file
operations go through, any of which may be the last one written when the signal
comes.  Where a death leaves the tree unchanged (`Kill`), it also stands for the undefined behaviour of
`strtok(NULL)` on a missing START file (`db.c:534-535`): the process dies, or it
carries on as with a blank file (which `auction_parse_info` models).  `UserAuctions` and `UserBids`
die when the user's directory is missing, because `list_auctions` returns NULL
and `list_res` reads it.

`now` is `time(NULL)`.  `Tick` moves it between handlers; inside a handler the
later readings are any of `Readings`, up to `Lag` seconds after the first.

`accepted` and `announced` record what clients have been told (ACC to a bid, OK
and an aid to an opening).  No action reads them.  They are what
"acknowledged" means in the properties.

Abstractions:

- passwords, users: model values.  Values, durations, aids, seconds: numbers.
  Aids are the three digits that `i_to_aid` prints; a request naming an aid in
  another spelling names no auction, like any aid beyond the count.
- A bid value stands for one spelling of it (`10`, not `010`), and so one file
  name.
- END is opened without `O_TRUNC`, so the last digits of a longer number stay behind a
  shorter one: `rewritten` does that with the numbers themselves, in the digits of
  `DigitBase` (10).
- START's name, asset name and date text are left out; nothing reads them but
  the texts of `show_record`.
- The operating system's other failures (disk full, no permission) are not
  modelled; the failures that follow from the tree itself (a missing directory)
  are.
- `show_asset` changes no file; it is in `Download`.

### How the upload corresponds to the code

`Upload` follows one connection that carries one OPA.  `written` is what
`send_file` has written, `taken` what the server has read, and a byte is its
position in the stream, so the header needs no characters: only its length and
the positions where its fields begin matter (`ActiveAt`, `FnameAt`, `FsizeAt`).
`asset` is the sequence of bytes of the asset file, each one its position in the
client's file; `remaining` is `tcp_info->remaining_size`.  The operators
have the names of the functions: `parse_opa(k)` is what the function returns when
the buffer holds the first `k` bytes, `Store` is `receive_tcp`'s second half,
`treat_request` may refuse (whatever the reason) or open the auction.

`Cut` says whether TCP may deliver a part of the header or of the answer.  With
`Cut = FALSE` the header arrives in one read, alone or with any number of bytes
of the file behind it, and the file in any pieces: that is what the loopback
interface does with short writes, and there the upload is right.  With
`Cut = TRUE` it is not, and the model shows what holds all the same.

Details that the code decides:

- `receive_tcp` calls `treat_request` after every read, so `parse_opa` runs on
  every prefix of a header.  It counts the separator after `fsize` whether or not it has
  come, and so it accepts a header without its last byte; it does not ask whether a token
  exists before it validates it (`SegFault`).
- File names are taken to have one dot and an extension of three letters (`valid_fname`
  also admits further dots), so no proper prefix
  of `fname` is valid: a read that ends inside `fname` is `Incomplete`.
- `DeclaredSize` is the value of the digits of `fsize` that have come.  It is
  smaller than `size` only when bytes of the header are missing, and then
  `prepare_freceive` answers ERR or subtracts a number larger than the bytes that came.
- An answer is written and the connection closed at once.  When bytes of the
  client are still unread, or arrive later, the server's kernel resets the
  connection; the client's next write may then raise SIGPIPE (`Write`).
- Of the answer the client may read a part (`Parts`).  `opa_res` compares the three
  characters after `ROA ` with NOK: a NOK that has not come yet is a success.
- `fpath_from_roa` leaves the terminator of the aid uninitialised
  (`server/protocol.c:218-220`).  In the build of the Makefile the byte is zero at that
  point; the model takes the name of the asset directory to be right.
- `GiveUp` is the client's write timeout and its failure to read the file.  The
  server has no way to give up an upload; `ReceiveEnd` is its loop over the reads
  that return nothing.

Abstractions: one connection, and so a free slot for it (`Connections` has the others); the client's file does
not change; failures of the disk are left out, as in `AuctionServer`; `open_auc` is what `AuctionServer` says of it, here with any outcome and in one
step: an auction that was half made and answered NOK (`db.c:791`) is in
`AuctionServer` only, and `AnswerTellsOutcome` does not see it.

### How the connections correspond to the code

`Connections` is `handle_sockets` with everything it keeps.  `fds` is the table
of descriptors of the process, lowest free one first, as the kernel gives them
out; `tcp_conns` is the array of that name, with the fields of `TCPInfo`;
`current_sockets` and `ready_sockets` are the two sets.  `Select` is one call
that returns something, and then each ready descriptor is one step
(`accept_new_tcp` or `receive_tcp`), the lowest first, with what `treat_request`,
`prepare_freceive` and `send_tcp` do to descriptors and slots inside it.  Clients
write and go away between any two of these steps.

Data: a piece of a request is the pair of its client and its number, so that a
piece in a wrong buffer or file can be told.  `bid` stands for bids and closings,
one answer in one write; `sas` for a download, several writes; `opa` for an
upload, whose header comes in one piece because `Upload` looks inside it.  An
answer bears the client whose request it answers.  What is answered is free
(`OK` or `NOK`): `AuctionServer` decides it.

Details that the code decides:

- `new_tcpconn` sets the descriptor and the buffers only, and counts on
  `rm_tcpconn` for the rest (`filled` shows what a place left behind would do).
- After the last byte of a file the slot is freed twice; the second time finds
  none.
- `prepare_freceive` leaves the asset file open unless the file was complete
  (`AssetFile` in `fds`).
- When `select` times out it has cleared `ready_sockets`, and the branch that
  closes idle connections finds none: the timeout is no step of the model.
- At the end of a stream `read` returns 0 and the slot stays (`Readable` has 0).
  After a reset `read` fails and the answer to it raises SIGPIPE (`read_error`),
  as does the second write of a download to a client that has closed
  (`treat_request`): `alive` becomes false.

Abstractions: UDP, which has no slots, is in `Session`; requests are well-formed
and fit the buffer.  A client that writes a UDP command on a TCP connection
is answered and its connection taken out of the watched set, but nobody closes it: its
slot and its descriptor stay for ever.  The program's own client never does that.

### How the download corresponds to the code

`Download` is one SAS request.  `sent` is what `send_tcp_file` has written, `got`
what `transfer_file` has read; `Window` is what the two kernels hold in between,
and a write waits for room in it, which is how a client that does not read holds the
one thread of the server.  `wire` is what the server's kernel knows of the
client's end: a client that has read everything and closes answers the next
write with a reset, and the write after that raises SIGPIPE; one that closes with
unread bytes resets at once, and the next write fails.

The client's steps are the reads of `transfer_file`: the 7 bytes of the status,
two words (`read_word`, whose result nobody looks at, so that a word cut by the
timeout is taken for whole), and the file.  When the timeout cuts the size, its
first digits are the size (`SizeRead`).  When it cuts the name, the second word is
the rest of the name, and the size is what `atoi` finds there: 0 for most names, 12
for `a12.txt` cut after the `a`, -1 for `a-1.txt` (`RestOfNameRead`).  A name is
therefore what `atoi` reads in each of its parts (`fname`, one of `Names`); the theorems
take any numbers, the run the two names of `MCDownload`.  The file is opened without
`O_TRUNC`: `Overwritten` keeps what an older, longer file has behind the
asset, and the newline is cut off the end of the *file* (`Save`).  `GiveUp` is its
timeout, `FileFails` the server's failure to read the asset, `int_handler` and
`Kill` the end of either process.

Abstractions: the rest of a name may be longer than the 9 bytes of `file_size`
(`client/connection.c:284`); what lies behind the buffer is left out, and so is a
number that is longer than an `int`.

### How the session corresponds to the code

`Session` extends `AuctionServer`: `user` is each client's `struct user`, `call` the
request that its `use_udp` waits for, `network` the requests under way or in the
server's socket.  `use_udp` sends once; `Timeout` returns without touching the
session and closes the socket, so that the request may still be carried out but
its answer finds nobody (`live`).  `Treat` is `receive_udp`, the handler `Login`,
`Logout` or `Unregister` of `AuctionServer` with all its torn trees, and
`send_udp`, whose datagram may get lost.  `Receive` is what `login`, `logout` and
`unregister` do with the answer: any answer ends a session, also a refusal.

`told` and `overtaken` are read by no action: what the last answer a client was
given says of its user (logged in with this password, or not), and for whom
somebody else was served since.

The other commands of the client only read `user`, and the handlers behind them
change no account.  Datagrams stay in order in the run (`InOrder`), as they do on
one path; when they do not, a logout that timed out may overtake the login typed
after it, and nothing the client was told is certain.

### The abstract specification

`AuctionHouse` has no files and no crashes: auctions `sales`, accepted `bids`,
the aids that `ended`, and a `clock`.  A bid is accepted only while the auction
has not ended, not after its deadline, from somebody else than the owner, above
the start value and *above every bid accepted before*.  The refinement mapping
shows the server through its answers: `sales` is `announced`, `bids` are the
accepted bids of announced auctions, `ended` are the announced auctions with an
END file.  A crash after the last write and before the answer is a step the
house does not see, and the theorem says that it stays unseen: an auction its
owner was never told of, or a bid never acknowledged, cannot break what others
were promised.

## The runs

| run | cfg | instance | properties |
|---|---|---|---|
| `session` | `MCSession` | 2 clients, 1 user, 2 passwords, 2 requests under way, 2 crashes | `SessionTypeOK`, `LoggedInHasPassword`, `AnswersStayTrue` |
| `bids` | `MCBids` | 2 users, values 0 to 2, 1 auction, 1 crash, 4 seconds, lag 1 | `TypeOK`, `AnnouncedAuctionStands`, `BidsAreLegal`, `NoBidAfterEnd`, `CurrentBidIsHighest`, `ClosedIsFinal`, `ImplementsHouse` |
| `bidders` | `MCBidders` | 3 users, 2 values, 1 auction, 1 crash, 3 seconds, lag 1 | `AcceptedBidStands` |
| `auctions` | `MCAuctions` | 1 user, durations 0 and 1, 2 auctions, 1 crash, lag 1, binary digits | `AidsContiguous`, `EndRecordAgrees` |
| `end_record` | `MCEndRecord` | 1 user, no crash | `EndRecordIsFinal`: violated |
| `upload` | `MCUpload` | files of 0, 1, 2, 4 and 12 bytes, header in one piece | `TypeOK`, `OkMeansWholeFile`, `AnswerTellsOutcome`, `UploadEnds` |
| `upload_cut` | `MCUploadCut` | the same files, header in any pieces | `OkMeansAllRead`, `AssetInOrder` |
| `upload_lost` | `MCUploadLost` | a file of 3 bytes, header in pieces | `OkMeansWholeFile`: violated |
| `connections` | `MCConnections` | 3 clients of which 1 may go away, 2 slots, 6 mixes of requests, requests of 2 pieces, files of 2 | `TypeOK`, `TableAgrees`, `AnswerIsOwn`, `AssetIsOwn`, `DescriptorsBounded`, `EveryoneAnswered` |
| `connections_gone` | `MCConnectionsGone` | the same | `GoneAreClosed`: violated |
| `download` | `MCDownload` | assets of 0, 1, 3 and 12 bytes, names `a12.txt` and `a-1.txt`, older files of 0, 2 and 14, 20 bytes in the kernels | `TypeOK`, `SavedIsAsset`, `AsksNoMore`, `ServerGetsFree`, `ClientReturns` |
| `download_gone` | `MCDownloadGone` | the same | `ServerSurvives`: violated |

Why the bounds are enough.  Three values give a start value, a bid and a higher
bid; a start value of 0 is read back as -1.  Two users give an owner and a bidder whose roles swap; in `bidders` a third
one competes, so that the file of a bid which a crash left uncounted is
overwritten by somebody else.  One crash leaves one torn
file tree; a second one (in `session`, where a crash in `mkdir` and a crash in
the password file may meet) exercises a torn tree left by a server that started
from a torn tree.  A second auction matters only for the aids, the indices and
lists of several auctions: `auctions` has it.  Four seconds with duration 1 and lag 1 put requests before, at and
after the deadline, and let a request begin before it and end after it.
In `auctions` numbers have binary digits, so that 2 takes a digit more than 1, as 10
does more than 9: a closing dated a second after the deadline is then longer than the planned one
that is written over it.
`MaxTime` and `MaxCrashes` bound the clock and the crashes in the guards of
`Tick`, `Readings` and `Die`; the proofs need neither to be small.

`CurrentBidIsHighest` and `EndRecordAgrees` say `crashes = 0 =>`: after a crash
they are false of this code (a bid filed before CURRENT_BID was raised; an END
file half written), which is what `AcceptedBidStands` and `ClosedIsFinal` must
survive.  `EndRecordAgrees` states one exception, the closing with a digit too
many that is told below; the run reaches it.

The upload runs keep the header's real layout with short fields: 35 bytes for a
file of up to nine bytes, 36 for twelve, whose size has two digits that may be
cut apart.  `BufferSize` is 38 instead of 128 (`DEFAULT_SIZE`), so that the
buffer is full after the header and at most three bytes of the file, and a file of
four bytes does not fit behind it; `PacketSize` is 3
instead of `PACKET_SIZE`, so that a file takes no, one, two or four writes.  A file
of no bytes has its newline right behind the header.

Three clients on two slots: a slot and a descriptor are used again, and the table
is full while somebody connects.  Two uploads at a time, with requests or a
download before, between and behind them (`Mixes`), in pieces that a read may
return together or one by one.  One client that goes away takes one of two slots
with it, so that the others have to do with one.

In `session` two clients are two terminals of one user, with the right and a wrong
password or with a password changed by unregistering and registering again;
two requests under way are one given up and the next.  In `download` a file takes
no, one or three writes of 4 bytes (`ChunkSize`) and as many reads of up to 5
(`PacketSize`), alone or with the newline; 12 has two digits that the timeout may cut
apart; older files are shorter than, between and longer than the assets; 20 bytes hold
a header and no whole file of 12, so the server waits for the client.  The rest of
`a12.txt` reads 12, 2, 1 or 0, depending on where one timeout cut the name and a second
one its rest: as much as, less than and more than the files have; the rest of `a-1.txt`
reads -1, 0 or 1, and -1 is the number that makes `Save` cut a byte off.

Fairness.  In `Upload`, `LiveSpec` assumes weak fairness of the client's
writes and reads together, and of the server's reads together: the client is
one process in a loop of system calls that complete, and the server's `select`
returns to a descriptor that has something to read.  Nothing is assumed of
`GiveUp`: a client that is neither blocked nor refused must come to its end
without it.  `Connections` assumes weak fairness of `handle_sockets` only, the
loop without an end: `EveryoneAnswered` needs nothing of the clients, who may stop
anywhere, and above all nothing of the descriptor that is always ready.
`Download` assumes it of `send_tcp_file` and of `transfer_file`, each a process in a
loop of system calls, and nothing of timeouts, failures and kills: `ServerGetsFree` and
`ClientReturns` may not count on them.  `ClientReturns` has two exceptions, in which the
client goes round for ever at the end of the stream: a server that stops half way, and a
number in the rest of a cut name that is larger than what is left to read
(`NameTakenForSize`).  `AsksNoMore` shows from the other side that there is no third:
behind a whole name, the client never asks for more than the server means to send.  `Session` states no liveness: that a call returns
is its own timeout.

Deadlock is checked wherever an endless wait is an error: in the runs of
`AuctionServer`, where a request is always possible, and in `upload`, where `Over`
and `ReceiveEnd` are the legitimate ends, and in `session`.  `Connections` and `Download`
may really stop: every client served or gone, or one side waiting at the
end of a stream (what they must not wait for is stated as liveness).  With `Cut` the server and the client
may wait for each other, which is the fault described next; the runs with `Cut` do not check
deadlock.

What the violation runs found:

- **END is rewritten** (`db.c:694`).  An owner closes an auction early; when its
  planned end is past, the next request that looks at it writes END again with
  the planned end.  `show_record` first shows the true closing, later a later one.
- **A header in two reads** (`connection.c:284`).  `excess` is the length of the last read less the
  length of the whole header, so bytes of the file that came with the header's
  end are lost.  One lost byte: the newline is stored in its place and the answer
  is OK (`upload_lost`).  More lost bytes: the server waits for them, the client for
  its answer, both for ever.
- **Clients that have gone** (`server.c:594`).  A client that writes part of a request
  and goes away keeps its descriptor and its slot for ever; the branch that
  would close it after a timeout looks into a set that `select` has cleared.
  A hundred of them, and every new connection is answered ERR.
- **A download to nobody** (`connection.c:365`).  The second write after the client's end raises
  SIGPIPE and ends the server.

Seen while modelling and not a run:

- A closing by the owner that reads the clock a second after the deadline, over a power of ten
  (`db.c:656`): when the planned end is written over it, its last digit stays
  behind, and an auction planned for 9 seconds and closed after 10 reads 90
  (the exception of `EndRecordAgrees`).
- A header that ends inside itself, in or after timeactive or after fname
  (`server/protocol.c:295`, `308`): `parse_opa` validates a token that is not there and
  the server dies (`SegFault` in `Upload`).
- A refused upload (`client/connection.c:631`): the client goes on writing to a
  connection the server has closed and dies of SIGPIPE before it shows the answer.
- NLG to an OPA (`client/protocol.c:608`): the client tells its user that the
  auction was opened.
- A reset before the request is complete (`server.c:658`): the answer to the read error
  raises SIGPIPE and ends the server.
- Every upload in more than one read costs the server a descriptor
  (`connection.c:449`); `DescriptorsBounded` says that it is never more than one.  What
  happens when the process has none left is not modelled.
- A download whose name is cut by the timeout (`client/connection.c:419`): `read_word`'s result
  is not looked at, and a number in the rest of the name is taken for the size.  When it is
  larger than what follows, the loop at `connection.c:435` reads 0 at the end of the stream for
  ever; otherwise "file saved as" names a file that holds some bytes of the header and the
  asset, or none (`NameTakenForSize`, and why `SavedIsAsset` speaks of whole words).
- A download over a longer file of the same name keeps that file's end, and may lose
  its last byte (`client/connection.c:423`, `489`).
- A bid on an aid that names no auction is answered ERR (`server.c:226`) where the
  guidelines say NOK.

## What is proved

Every invariant of every passing run is a theorem for all values of the constants
(those that need `~Cut` or `InOrder` under that condition, as in their runs), and
so are `ClosedIsFinal` and `ImplementsHouse`.

`AuctionServerProofs`, for every set of users, passwords, values and durations,
any number of auctions, crashes and seconds, and any lag:

| theorem | states |
|---|---|
| `Invariance` | `Spec => []Inv` |
| `TypeCorrect` | `[]TypeOK` |
| `LoginsHavePasswords` | `[]LoggedInHasPassword` |
| `AidsHaveNoGaps` | `[]AidsContiguous` |
| `AcceptedBidsAreDurable` | `[]AcceptedBidStands` |
| `AnnouncedAuctionsAreDurable` | `[]AnnouncedAuctionStands` |
| `FiledBidsAreLegal` | `[]BidsAreLegal` |
| `BidsPrecedeTheEnd` | `[]NoBidAfterEnd` |
| `ClosingIsFinal` | `ClosedIsFinal` |
| `Implementation` | `ImplementsHouse` |

`AuctionRecordProofs`, for the same constants:

| theorem | states |
|---|---|
| `CurrentBidsAreHighest` | `[]CurrentBidIsHighest` |
| `EndRecordsAgree` | `[]EndRecordAgrees` |

Assumptions: the `ASSUME`s of `AuctionDb` and `AuctionServer`: numbers are
numbers, `NoFile` and `Blank` are not contents of a file, and `DigitBase` is at
least 2 and has the powers that `^` gives it up to the ninth
(`DigitBaseAssumption`).  The last says nothing of the program: the provers have no
definition of `^`, so what it computes is stated, and TLC evaluates it, as it does all
the others in every run.

The argument.  The safety properties are not inductive alone.  `Inv` adds:
`UnusedAids` (no file of an auction comes before its directory, so opening aid
n+1 meets no leftovers), `StartedInThePast` (so elapsed times are not negative),
`PromisesHaveDirectories` (so a new aid is not one somebody was told of) and
`BidsInThePast` (so an END written now is not before any bid).  `LoggedInHasPassword`
is needed beyond accounts: `bid` checks only the login file.

The proof does not go action by action through the torn trees of `Inv`'s
conjuncts.  `AuctionDbProofs` first shows that each operator, completed or torn,
satisfies one of four relations between trees: `ChangesAccount`,
`ClosesAuctions`, `OpensAuction`, `FilesBid`.  `NextStep` then
reduces every action to one of five kinds of `Step` built on them, and each
conjunct of `Inv` is shown to be kept by each kind.  That digits left behind in END
cannot put a bid after the end is `RewrittenGrows`: they make a number longer, never
smaller.  The refinement uses the same
kinds: an `AccountStep` is a stutter or a tick, a `CloseStep` is `End`, an
`OpenStep` is `Open` when announced, a `BidStep` is `Accept` when acknowledged.

`CurrentBidIsHighest` and `EndRecordAgrees` speak of a server that has not died,
so their inductive invariant (`CrashFree`, on top of `Inv`) adds that every
registered user has a BIDDED directory (`DirsWhole`): without it `make_bid` fails
after it has filed the bid and before it raises CURRENT_BID.
Without a death a handler ends in its completed tree (`CompletedEffect`), and
`StillCrashFree` says that `crashes` never returns to 0, so one step of one
handler is all there is to look at.  For END the trouble is that it may be
written any number of times, each time over what is there, by a closing of the owner and
then by everybody who looks at the auction after its deadline.  `RewrittenAgain` is
the answer: what the planned time leaves behind when it is written over a
longer number, it leaves again when it is written over that.  The first half of the module is
the arithmetic of it (`PowersGrow`, `PowersAdd`, `BetweenAgain`), and `RewrittenShorter` and
`RewrittenSame` say when nothing stays behind.

`UploadProofs`, for every set of file sizes, every length of the fields, every
packet and buffer size:

| theorem | states |
|---|---|
| `Invariance` | `Spec => []Inv` |
| `TypeCorrect` | `[]TypeOK` |
| `OkAfterTheFile` | `[]OkMeansAllRead`, however the header is cut |
| `OrderIsKept` | `[]AssetInOrder`, however the header is cut |
| `OkIsTheFile` | `[]OkMeansWholeFile` when `~Cut` |
| `AnswersAreTrue` | `[]AnswerTellsOutcome` when `~Cut` |

Assumptions: the `ASSUME`s of `Upload`; among them, that the buffer holds a whole header.

The argument.  `AssetInOrder` is kept by an append only if the bytes stored so
far are among those read so far, and `OkMeansAllRead` only if `remaining` is the
size less what is stored: these are `StoredWasRead` and `RemainingIsMissing`.
`HeaderAccepted` is why cutting the header cannot break them: the branches that
go on to the file need `n >= i`, so the last read alone is as long as the header,
the header is complete, and the declared size is the file's.  `StoreKeepsOrder`
is the one lemma about the append.  For the whole file (`WholeInv`) the asset is
exactly what was read of the file; `StoreKeepsWhole` shows that the two branches
of `Store`, with and without the newline, both end in the file.

`SessionProofs`, for any number of clients, users, passwords, requests under way and deaths of
the server:

| theorem | states |
|---|---|
| `SessionServer` | `SessionSpec => Spec`: behind its clients the server is the one of `AuctionServer` |
| `SessionLoginsHavePasswords` | `[]LoggedInHasPassword` |
| `SessionsAgree` | `[]SessionTypeOK` |
| `ToldIsTrue` | `[]AnswersStayTrue` when `InOrder` |

Assumptions: those of `AuctionServer`, and that `Idle` is no request.

The argument.  `LoginOutcome`, `LogoutOutcome` and `UnregisterOutcome` say what an answer means
for the user it is about, and that no other user changes, whether the handler
completes or dies.  An answer becomes what the client is told only later, so `WaitingAnswersTrue` says
the same of an answer that still waits.  It can stay true only if nothing of
that client is under way behind it (`NothingBehindAnswer`): the client waits for the last of its
requests (`LiveIsLast`), and datagrams stay in order.  The steps of the clients share one
lemma for sending and one for the end of a command (`CloseKeeps`).

`ConnectionsProofs`, for any number of clients, of slots, of pieces in a request and in a
file, and any requests:

| theorem | states |
|---|---|
| `Invariance` | `Spec => []Agreed` |
| `TypeCorrect` | `[]TypeOK` |
| `TablesAgree` | `[]TableAgrees` |
| `AnswersAreOwn` | `[]AnswerIsOwn` |
| `AssetsAreOwn` | `[]AssetIsOwn` |
| `DescriptorsAreBounded` | `[]DescriptorsBounded` |

Assumptions: the `ASSUME`s of `Connections`; besides the sizes, that `None` and `AssetFile` are
neither clients nor contents of a file.

The argument.  None of the five invariants is inductive: each counts on the
others and on what is in the slots.  `Agreed` is all five and `Serving`, four
facts that hold as long as the server lives, because it is killed in the middle of a
handler (SIGPIPE) and leaves its table as it is.  A connection before accept is as new
(`NewAreFresh`), which is all that `new_tcpconn` can count on; a client is behind
one descriptor and has no answer while it is (`OpenedOnce`), so a second answer cannot go out; and a used
slot (`SlotAgrees`) either holds exactly the pieces read of a request that is not
complete (`Collecting`), or has put exactly the pieces read so far into the asset of the
client it will answer and lacks exactly the rest (`Filing`).  It follows that a
request is treated when its last piece is there and never before or after, and
that `whose` finds the right client in the buffer (`WhoseIs`).
That accept finds a descriptor (`FreeFd`) is a count: there is one for each slot and one
for each file that an upload leaves open, at most one for each client, so that one is left for
the client at hand.  Each way a handler may end is
a lemma of its own (`CloseKeeps`, `KeepKeeps`, `FileKeeps`, `EndKeeps`), and
`ReceiveKeeps` puts them together along the branches of `receive_tcp`.

`DownloadProofs`, for every set of sizes of the asset and of an older file, every length of a
name and whatever numbers `atoi` reads in its parts, every chunk, packet and window:

| theorem | states |
|---|---|
| `Invariance` | `Spec => []Whole` |
| `TypeCorrect` | `[]TypeOK` |
| `AskingNoMore` | `[]AsksNoMore` |
| `SavedFileIsAsset` | `[]SavedIsAsset` |

Assumptions: the `ASSUME`s of `Download`; among them, that the window holds a chunk and
a header, as the kernels' do.

The argument.  Nothing in the client's state says which bytes its file holds.  `Whole`
adds that the place where each side is tells how many bytes have gone through
(`ServerPlace`, `ClientPlace`), and that the file begins with the last bytes read, in
the order of the stream (`LastBytesRead`).  The second holds in every case, also
after a timeout has cut a word of the header and the client takes for the size what is not
one; the first ties it to the asset as long as the words came whole.  `AsksNoMore` is a part of
`Whole` and inductive with it: what the client asks for and what is left to read both
shrink by what one read brings.  Nothing is claimed of the size a client reads out of a cut name,
but that it is a number of that name (`NamesAssumption`).  `OverwrittenIs` is the one lemma about
writing over an older file, and `DigitsOf` says that a size cut off is never larger than the
size.

Only model-checked: the liveness properties `UploadEnds`, `EveryoneAnswered`,
`ServerGetsFree` and `ClientReturns`, because liveness under fairness is out of the
prover's reach; and the four violations, which need an example and no proof.

## Not modelled

- command line, socket set-up, printing: pure input and output;
- tests and scripts;
- failures of `socket`, `getaddrinfo` and `connect` in the client: nothing has
  happened by then;
- a request without a newline that fills its buffer, and a UDP command on a TCP
  connection: the program's own client sends neither;
- the texts of answers (lists, records) and their sizes against the client's
  buffers: planned, see below.

## Plan

Done: the stores and handlers (`AuctionDb`, `AuctionServer`, `AuctionHouse`), the
upload (`Upload`), the session (`Session`), the connections (`Connections`), the download
(`Download`), and the proofs of all their invariants.  Next:

1. That `Upload` implements an abstract transfer of a file, and each connection of
   `Connections` a single one, proved like `Implementation`.
2. Action properties of `Connections` and `Download` (what one step may do to the
   slot or the file of somebody else), from `Agreed` and `Whole`.
3. `Formats`: sizes of the answers against the client's buffers, aids:
   operators checked against reference definitions.
