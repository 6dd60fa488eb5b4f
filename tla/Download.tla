------------------------------ MODULE Download ------------------------------
(***************************************************************************)
(* The download of an asset: one SAS request over one TCP connection, from *)
(* the server's send_tcp_file to the client's transfer_file.               *)
(*                                                                         *)
(* The server writes a header of HeaderLen bytes,                          *)
(*     RSA OK fname fsize                                                  *)
(* (every word followed by a space), then the file in chunks, then a       *)
(* newline, and closes.  A byte of the stream is its position.  The client *)
(* reads the first 7 bytes, then two words byte by byte, then the file.    *)
(*                                                                         *)
(* The one thread of the server sits in write() while the stream is full.  *)
(***************************************************************************)
EXTENDS Integers, FiniteSets, Sequences, SequencesExt

CONSTANTS
    FileSizes,      \* bytes in the asset's file when the request is treated
    OldSizes,       \* bytes in the client's file of that name, from earlier
    FnameLen,       \* length of the file's name
    Names,          \* what atoi reads in the parts of a name, for each name
    ChunkSize,      \* DEFAULT_SIZE: bytes in one write of the server
    PacketSize,     \* PACKET_SIZE: bytes of the file in one read of the client
    Window          \* bytes the two kernels hold between write and read

StatusLen == 7      \* "RSA OK " and "RSA NOK"

FsizeLen(n) == 1 + Cardinality({d \in 1..7 : n >= 10^d})

NameEnd == StatusLen + FnameLen + 1

HeaderLenOf(n) == NameEnd + FsizeLen(n) + 1

\* The bytes of the name after the first a, up to the b-th.
NameParts == {part \in (0..FnameLen) \X (0..FnameLen) : part[1] <= part[2]}

ASSUME NamesAssumption == Names \subseteq [NameParts -> Int]
ASSUME SizesAssumption == FileSizes \subseteq Nat /\ OldSizes \subseteq Nat
ASSUME LengthsAssumption ==
    /\ FnameLen \in Nat \ {0}
    /\ ChunkSize \in Nat \ {0}
    /\ PacketSize \in Nat \ {0}
ASSUME WindowAssumption ==
    /\ Window \in Nat
    /\ Window >= ChunkSize
    /\ \A n \in FileSizes : Window >= HeaderLenOf(n)

VARIABLES
    size,           \* the size of the asset
    fname,          \* the name of the asset
    old,            \* the size of an older file of the name the client opens
    server,         \* what the server does with the connection
    sent,           \* bytes it has written
    client,         \* what transfer_file does
    got,            \* bytes the client has read
    words,          \* whether file_name and file_size are what was sent
    file_bytes,     \* the size the client believes in
    read_bytes,     \* bytes it has put into its file
    file,           \* its file
    wire            \* what the server's kernel knows of the client's end

vars == <<size, fname, old, server, sent, client, got, words, file_bytes, read_bytes,
          file, wire>>

HeaderLen == HeaderLenOf(size)

Smaller(a, b) == IF a < b THEN a ELSE b

\* The bytes of the older file are negative numbers.
OldFile == [j \in 1 .. old |-> -j]

Over == {"saved", "failed", "timed out", "killed"}

ServerOver == {"closed", "gave up", "died", "stopped"}

TypeOK ==
    /\ size \in FileSizes
    /\ fname \in Names
    /\ old \in OldSizes
    /\ server \in {"header", "file", "newline"} \cup ServerOver
    /\ sent \in 0 .. (HeaderLen + size + 1)
    /\ client \in {"status", "name", "size", "file"} \cup Over
    /\ got \in 0 .. sent
    /\ words \in {"whole", "name cut", "size cut"}
    /\ file_bytes \in (0 .. size) \cup {fname[part] : part \in NameParts}
    /\ words # "name cut" => file_bytes \in 0 .. size
    /\ read_bytes \in 0 .. got
    /\ file \in Seq((-old) .. got)
    /\ wire \in {"open", "fin", "fin reset", "reset"}

Init ==
    /\ size \in FileSizes
    /\ fname \in Names
    /\ old \in OldSizes
    /\ server = "header"
    /\ sent = 0
    /\ client = "status"
    /\ got = 0
    /\ words = "whole"
    /\ file_bytes = 0
    /\ read_bytes = 0
    /\ file = OldFile
    /\ wire = "open"

-----------------------------------------------------------------------------
(***************************************************************************)
(* The server: send_tcp_file.                                              *)
(***************************************************************************)

clientVars == <<client, got, words, file_bytes, read_bytes, file>>

\* A write of n bytes, and what the server does next.  It waits for room.  A
\* client that has closed answers the first write with a reset; a write after
\* that raises SIGPIPE, which nothing handles.  A client that closes with
\* bytes it has not read resets at once, and the next write returns an error.
\* A reset may be late.
Write(n, next) ==
    \/ /\ wire = "open"
       /\ sent + n <= got + Window
       /\ sent' = sent + n
       /\ server' = next
       /\ UNCHANGED wire
    \/ /\ wire # "open"
       /\ sent' = sent + n
       /\ server' = next
       /\ wire' = IF wire = "fin" THEN "fin reset" ELSE wire
    \/ /\ wire = "reset"
       /\ server' = "closed"
       /\ UNCHANGED <<sent, wire>>
    \/ /\ wire = "fin reset"
       /\ server' = "died"
       /\ UNCHANGED <<sent, wire>>

\* After the header, and after each chunk.
AfterBytes(n) == IF n < HeaderLen + size THEN "file" ELSE "newline"

WriteHeader ==
    /\ server = "header"
    /\ Write(HeaderLen, AfterBytes(HeaderLen))
    /\ UNCHANGED <<size, fname, old, clientVars>>

\* There is no auction, or it has no asset: "RSA NOK", which for the client is
\* no better than the end of the stream, and closed.
Refuse ==
    /\ server = "header"
    /\ server' = "closed"
    /\ UNCHANGED <<size, fname, old, sent, clientVars, wire>>

\* Variant: the count starts with the header.
WriteChunk_counts_header ==
    LET n == Smaller(ChunkSize, HeaderLen + size - sent)
    IN  /\ server = "file"
        /\ Write(n, IF sent + n < size THEN "file" ELSE "newline")
        /\ UNCHANGED <<size, fname, old, clientVars>>

WriteChunk ==
    LET n == Smaller(ChunkSize, HeaderLen + size - sent)
    IN  /\ server = "file"
        /\ Write(n, AfterBytes(sent + n))
        /\ UNCHANGED <<size, fname, old, clientVars>>

WriteNewline ==
    /\ server = "newline"
    /\ Write(1, "closed")
    /\ UNCHANGED <<size, fname, old, clientVars>>

\* The asset cannot be opened or read: the connection is closed, after the
\* header and whatever part of the file.
FileFails ==
    /\ server = "file" \/ (server = "newline" /\ sent = HeaderLen)
    /\ server' = "gave up"
    /\ UNCHANGED <<size, fname, old, sent, clientVars, wire>>

\* SIGINT ends the server at any point.
int_handler ==
    /\ server \notin ServerOver
    /\ server' = "stopped"
    /\ UNCHANGED <<size, fname, old, sent, clientVars, wire>>

-----------------------------------------------------------------------------
(***************************************************************************)
(* The client: transfer_file.                                              *)
(***************************************************************************)

Unread == sent - got

\* Variant: returns with the socket open.
close_forgotten(end) ==
    /\ client' = end
    /\ UNCHANGED wire

\* transfer_file returns and its socket is closed.
close(end) ==
    /\ client' = end
    /\ wire' \in IF got' = sent THEN {"fin"} ELSE {"reset", "fin reset"}

serverVars == <<server, sent>>

\* One read for the 7 bytes of the status: fewer are no RSA OK.
ReadStatus ==
    /\ client = "status"
    /\ \/ /\ Unread >= StatusLen
          /\ got' = StatusLen
          /\ client' = "name"
          /\ UNCHANGED wire
       \/ /\ Unread > 0
          /\ got' \in 1 .. (StatusLen - 1)
          /\ close("failed")
       \/ /\ Unread = 0
          /\ server \in ServerOver
          /\ got' = got
          /\ close("failed")
    /\ UNCHANGED <<size, fname, old, serverVars, words, file_bytes, read_bytes, file>>

\* read_word for file_name.  A word that is cut by the timeout is taken for
\* whole.
ReadName ==
    /\ client = "name"
    /\ \/ /\ got' = NameEnd
          /\ UNCHANGED words
       \/ /\ got' \in StatusLen .. (NameEnd - 1)
          /\ words' = "name cut"
    /\ client' = "size"
    /\ UNCHANGED <<size, fname, old, serverVars, file_bytes, read_bytes, file, wire>>

\* read_word for file_size, and atoi.  The digits that came before a timeout
\* are the size.
SizeRead ==
    /\ words = "whole"
    /\ \/ /\ got' = HeaderLen
          /\ file_bytes' = size
          /\ UNCHANGED words
       \/ /\ got' \in NameEnd .. (HeaderLen - 1)
          /\ file_bytes' = size \div 10^(HeaderLen - 1 - got')
          /\ words' = "size cut"

\* The same behind a name that was cut: the word is the rest of the name, or
\* the part of it that came before another timeout, and the size is what atoi
\* reads there.
RestOfNameRead ==
    /\ words = "name cut"
    /\ got' \in got .. NameEnd
    /\ file_bytes' = fname[<<got - StatusLen, Smaller(got' - StatusLen, FnameLen)>>]
    /\ UNCHANGED words

\* The second word, and open, which may fail, and must when nothing came of the
\* name.
ReadSize ==
    /\ client = "size"
    /\ SizeRead \/ RestOfNameRead
    /\ \/ /\ got > StatusLen
          /\ client' = "file"
          /\ UNCHANGED wire
       \/ close("failed")
    /\ UNCHANGED <<size, fname, old, serverVars, read_bytes, file>>

\* write() into a file that was opened without O_TRUNC.
Overwritten(n) ==
    [j \in 1 .. (IF read_bytes + n > Len(file) THEN read_bytes + n ELSE Len(file)) |->
        IF j \in (read_bytes + 1) .. (read_bytes + n)
        THEN got + (j - read_bytes)
        ELSE file[j]]

\* Variant: takes it that a read fills the buffer.
ReadFile_full ==
    /\ client = "file"
    /\ read_bytes < file_bytes
    /\ LET n == PacketSize
       IN  /\ got' = got + n
           /\ file' = Overwritten(n)
           /\ read_bytes' = read_bytes + n
    /\ UNCHANGED <<size, fname, old, serverVars, client, words, file_bytes, wire>>

\* Variant: counts the last read only.
ReadFile_last ==
    /\ client = "file"
    /\ read_bytes < file_bytes
    /\ \E n \in 1 .. Smaller(PacketSize, Unread) :
           /\ got' = got + n
           /\ file' = Overwritten(n)
           /\ read_bytes' = n
    /\ UNCHANGED <<size, fname, old, serverVars, client, words, file_bytes, wire>>

\* At the end of the stream read() returns 0 for ever, and so does this loop.
ReadFile ==
    /\ client = "file"
    /\ read_bytes < file_bytes
    /\ \E n \in 1 .. Smaller(PacketSize, Unread) :
           /\ got' = got + n
           /\ file' = Overwritten(n)
           /\ read_bytes' = read_bytes + n
    /\ UNCHANGED <<size, fname, old, serverVars, client, words, file_bytes, wire>>

\* Variant: the newline stays.
Save_newline ==
    /\ client = "file"
    /\ read_bytes >= file_bytes
    /\ got' = got
    /\ close("saved")
    /\ UNCHANGED <<size, fname, old, serverVars, words, file_bytes, read_bytes, file>>

\* When the newline came with the last bytes, the last byte of the file goes.
\* It also goes when the rest of a cut name reads -1; a file without bytes stays
\* as it is.
Save ==
    /\ client = "file"
    /\ read_bytes >= file_bytes
    /\ got' = got
    /\ file' = IF file_bytes - read_bytes = -1 THEN Front(file) ELSE file
    /\ close("saved")
    /\ UNCHANGED <<size, fname, old, serverVars, words, file_bytes, read_bytes>>

\* A select of transfer_file waits in vain, or a write to the file fails.  At
\* the end of the stream select does not wait.
GiveUp ==
    /\ client = "status" \/ (client = "file" /\ read_bytes < file_bytes)
    /\ Unread > 0 \/ server \notin ServerOver
    /\ got' = got
    /\ close("timed out")
    /\ UNCHANGED <<size, fname, old, serverVars, words, file_bytes, read_bytes, file>>

Kill ==
    /\ client \notin Over
    /\ got' = got
    /\ close("killed")
    /\ UNCHANGED <<size, fname, old, serverVars, words, file_bytes, read_bytes, file>>

-----------------------------------------------------------------------------

send_tcp_file == WriteHeader \/ Refuse \/ WriteChunk \/ WriteNewline

transfer_file == ReadStatus \/ ReadName \/ ReadSize \/ ReadFile \/ Save

Next == send_tcp_file \/ transfer_file \/ FileFails \/ int_handler \/ GiveUp \/ Kill

Spec == Init /\ [][Next]_vars

\* Both processes run.  That a wait ends in a timeout is not counted on.
LiveSpec == Spec /\ WF_vars(send_tcp_file) /\ WF_vars(transfer_file)

-----------------------------------------------------------------------------
(***************************************************************************)
(* Properties.                                                             *)
(***************************************************************************)

\* "file saved as fname", after a header without a timeout: whatever pieces the
\* bytes came in, and whether or not the newline came with the last of them,
\* the file begins with the asset, and ends there unless an older file of that
\* name was longer.
SavedIsAsset ==
    client = "saved" /\ words = "whole" =>
        /\ Len(file) >= size
        /\ \A j \in 1 .. size : file[j] = HeaderLen + j
        /\ old <= size => Len(file) = size

\* However slow the client is, and whatever way it ends, the server gets out of
\* send_tcp_file and turns to its other clients.
ServerGetsFree == <>(server \in ServerOver)

\* The client waits for no more bytes than the server means to send it, so that
\* the loop of transfer_file has an end, wherever a timeout cut the size.
AsksNoMore ==
    client = "file" /\ words # "name cut" =>
        file_bytes - read_bytes <= HeaderLen + size - got

\* A number in the rest of a cut name is larger than what is left to read.
NameTakenForSize ==
    /\ client = "file"
    /\ words = "name cut"
    /\ file_bytes - read_bytes > HeaderLen + size + 1 - got

\* show_asset comes back to the prompt, unless the server stops half way or a
\* number in the file's name is taken for its size: then the client goes round
\* for ever at the end of the stream.
ClientReturns ==
    <>(client \in Over \/ server \in {"stopped", "gave up"} \/ NameTakenForSize)

\* A client that goes away does not end the server.
ServerSurvives == server # "died"

=============================================================================
