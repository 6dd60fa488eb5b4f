------------------------------- MODULE Upload -------------------------------
(***************************************************************************)
(* The upload of an asset: one OPA request over one TCP connection, from   *)
(* the client's send_file to the server's receive_tcp, treat_request and   *)
(* prepare_freceive.                                                       *)
(*                                                                         *)
(* The client writes a header of HeaderLen bytes,                          *)
(*     OPA uid password name start_value timeactive fname fsize            *)
(* (every field followed by a space), then the size bytes of the file,     *)
(* then a newline, and waits for the answer.  A byte of the stream is its  *)
(* position, and a byte of the asset on disk is its position in the file;  *)
(* the newline after the file is position size + 1.                        *)
(*                                                                         *)
(* TCP keeps the order of the bytes and nothing else: one read returns any *)
(* part of what was written.  Cut says whether that may also happen inside *)
(* the header and inside the answer; file bytes come in any pieces anyway. *)
(***************************************************************************)
EXTENDS Integers, FiniteSets, Sequences

CONSTANTS
    FileSizes,      \* the sizes of the files that are uploaded
    NameLen, ValueLen, ActiveLen, FnameLen,   \* lengths of the fields of the header
    PacketSize,     \* PACKET_SIZE: bytes of the file in one write of the client
    BufferSize,     \* DEFAULT_SIZE: room for the header in the server
    Cut             \* TCP may cut the header and the answer

\* Digits of a size up to MAX_FSIZE, FSIZE_SIZE at most.
FsizeLen(n) == 1 + Cardinality({d \in 1..7 : n >= 10^d})

\* The number of bytes before each field from timeactive on.
ActiveAt == 3 + 1 + 6 + 1 + 8 + 1 + NameLen + 1 + ValueLen + 1
FnameAt == ActiveAt + ActiveLen + 1
FsizeAt == FnameAt + FnameLen + 1

ASSUME SizesAssumption == FileSizes \subseteq Nat
ASSUME FieldsAssumption ==
    /\ NameLen \in Nat \ {0}
    /\ ValueLen \in Nat \ {0}
    /\ ActiveLen \in Nat \ {0}
    /\ FnameLen \in Nat \ {0}
ASSUME PacketAssumption == PacketSize \in Nat \ {0}
ASSUME BufferAssumption ==
    /\ BufferSize \in Nat
    /\ \A n \in FileSizes : BufferSize >= FsizeAt + FsizeLen(n) + 1
ASSUME CutAssumption == Cut \in BOOLEAN

VARIABLES
    size,           \* the size of the file
    client,         \* what send_file does, and what the user reads afterwards
    written,        \* bytes the client has written
    server,         \* what the server does with the connection
    taken,          \* bytes the server has read
    remaining,      \* tcp_info->remaining_size
    asset,          \* the bytes of the asset file
    opened,         \* the auction is in the database
    answer,         \* the status the server has sent
    reset           \* the server's side has reset the connection

vars == <<size, client, written, server, taken, remaining, asset, opened, answer, reset>>

clientVars == <<client, written>>
serverVars == <<server, taken, remaining, asset, opened, answer>>

NoAnswer == "none"
Refusals == {"NOK", "NLG", "ERR"}

HeaderLen == FsizeAt + FsizeLen(size) + 1

\* The bytes of the file after the first a, up to the b-th.
FileBytes(a, b) == [j \in 1..(b - a) |-> a + j]

Smaller(a, b) == IF a < b THEN a ELSE b

Listening == server \in {"header", "file"}

TypeOK ==
    /\ size \in FileSizes
    /\ client \in {"writing", "reading", "opened", "failed", "killed"}
    /\ written \in 0..(HeaderLen + size + 1)
    /\ server \in {"header", "file", "closed", "crashed"}
    /\ taken \in 0..written
    /\ remaining \in Int
    /\ asset \in Seq(1..(size + 1))
    /\ opened \in BOOLEAN
    /\ answer \in {NoAnswer, "OK"} \cup Refusals
    /\ reset \in BOOLEAN

Init ==
    /\ size \in FileSizes
    /\ client = "writing"
    /\ written = 0
    /\ server = "header"
    /\ taken = 0
    /\ remaining = 0
    /\ asset = <<>>
    /\ opened = FALSE
    /\ answer = NoAnswer
    /\ reset = FALSE

-----------------------------------------------------------------------------
(***************************************************************************)
(* The client.                                                             *)
(***************************************************************************)

\* A write of n bytes.  The kernel takes them also after the server's side is
\* gone, and the answer to them is a reset; once the client's kernel has seen
\* the reset a write fails, with SIGPIPE, which nothing handles, or with an
\* error code, which leads to onError.
Write(n, onSuccess, onError) ==
    \/ /\ written' = written + n
       /\ client' = onSuccess
       /\ reset' = (reset \/ ~Listening)
    \/ /\ reset
       /\ client' \in {"killed", onError}
       /\ UNCHANGED <<written, reset>>

WriteHeader ==
    /\ client = "writing"
    /\ written = 0
    /\ Write(HeaderLen, "writing", "failed")
    /\ UNCHANGED <<size, serverVars>>

WriteChunk ==
    /\ client = "writing"
    /\ written >= HeaderLen
    /\ written < HeaderLen + size
    /\ Write(Smaller(PacketSize, HeaderLen + size - written), "writing", "failed")
    /\ UNCHANGED <<size, serverVars>>

\* The result of this write is not looked at.
WriteNewline ==
    /\ client = "writing"
    /\ written = HeaderLen + size
    /\ Write(1, "reading", "reading")
    /\ UNCHANGED <<size, serverVars>>

\* The socket did not become writable in time, or the file cannot be read.
GiveUp ==
    /\ client = "writing"
    /\ written < HeaderLen + size
    /\ client' = "failed"
    /\ UNCHANGED <<size, written, serverVars, reset>>

\* What the user reads.  Of an answer only a part may have come: its first
\* word, or not even that.  Whatever is not NOK is a success.
opa_res(status, part) ==
    IF status = "ERR" \/ part = "nothing" \/ (status = "NOK" /\ part = "all")
    THEN "failed"
    ELSE "opened"

Parts == IF Cut THEN {"nothing", "first word", "all"} ELSE {"all"}

\* The only read, without a timeout.
ReadAnswer ==
    /\ client = "reading"
    /\ \/ /\ answer # NoAnswer
          /\ \E part \in Parts : client' = opa_res(answer, part)
       \/ /\ reset \/ server = "crashed"
          /\ client' = "failed"
    /\ UNCHANGED <<size, written, serverVars, reset>>

-----------------------------------------------------------------------------
(***************************************************************************)
(* The server.                                                             *)
(***************************************************************************)

Incomplete == -1
SegFault == -2

\* Variant: the separator after the last field is not counted.
parse_opa_no_separator(k) ==
    IF k > FsizeAt THEN Smaller(k, HeaderLen - 1) ELSE Incomplete

\* Variant: one separator too many is counted.
parse_opa_two_separators(k) ==
    IF k > FsizeAt THEN HeaderLen + 1 ELSE Incomplete

\* Variant: only what has come is counted.
parse_opa_arrived(k) ==
    IF k > FsizeAt THEN Smaller(k, HeaderLen) ELSE Incomplete

\* What parse_opa returns when the buffer holds the first k bytes: the length
\* of the header, counting a separator after fsize whether or not it has come.
\* The validity of fname and fsize is looked at without asking whether there
\* is such a field.  A part of fname is no file name: it has no extension.
parse_opa(k) ==
    IF k > FsizeAt THEN Smaller(k + 1, HeaderLen)
    ELSE IF k > ActiveAt /\ k \notin (FnameAt + 1)..(FnameAt + FnameLen - 1) THEN SegFault
    ELSE Incomplete

\* The value of the digits of fsize that are among the first k bytes.
DeclaredSize(k) == IF k < HeaderLen - 1 THEN size \div 10^(HeaderLen - 1 - k) ELSE size

\* send_tcp answers, closes and frees the slot of the connection
\* (rm_tcpconn); a close with unread bytes resets.
send_tcp(status) ==
    /\ server' = "closed"
    /\ remaining' = 0
    /\ answer' = status
    /\ reset' = (reset \/ taken' < written)

\* Variant: the newline stays in the asset.
Store_with_newline(bytes, left) ==
    /\ asset' = asset \o bytes
    /\ \/ left - Len(bytes) < 1 /\ send_tcp("OK")
       \/ /\ left - Len(bytes) >= 1
          /\ server' = "file"
          /\ remaining' = left - Len(bytes)
          /\ UNCHANGED <<answer, reset>>

\* Variant: the file is opened without O_APPEND.
Store_from_start(bytes, left) ==
    /\ asset' = bytes \o SubSeq(asset, Len(bytes) + 1, Len(asset))
    /\ \/ left - Len(bytes) < 1 /\ send_tcp("OK")
       \/ /\ left - Len(bytes) >= 1
          /\ server' = "file"
          /\ remaining' = left - Len(bytes)
          /\ UNCHANGED <<answer, reset>>

\* Appends bytes to the asset, of which left were missing.  Nothing missing
\* is the end, and one byte too much is the newline.
Store(bytes, left) ==
    LET rest == left - Len(bytes)
    IN  /\ asset' = IF rest = -1
                    THEN SubSeq(asset \o bytes, 1, Len(asset) + Len(bytes) - 1)
                    ELSE asset \o bytes
        /\ \/ /\ rest < 1
              /\ send_tcp("OK")
           \/ /\ rest >= 1
              /\ server' = "file"
              /\ remaining' = rest
              /\ UNCHANGED <<answer, reset>>

\* Variant: the bytes that came with the header are not subtracted.
prepare_freceive_uncounted(n, i) ==
    \/ n < i /\ send_tcp("ERR") /\ UNCHANGED asset
    \/ /\ n >= i
       /\ asset' = FileBytes(i - HeaderLen, n - HeaderLen)
       /\ server' = "file"
       /\ remaining' = DeclaredSize(taken')
       /\ UNCHANGED <<answer, reset>>

\* The auction is open.  The header has i bytes; the bytes of the file that
\* came with it are taken to be those of the last read, of n bytes, that are
\* beyond i.  A write of a negative number of bytes fails.
prepare_freceive(n, i) ==
    \/ /\ n < i
       /\ send_tcp("ERR")
       /\ UNCHANGED asset
    \/ /\ n = i
       /\ server' = "file"
       /\ remaining' = DeclaredSize(taken')
       /\ UNCHANGED <<asset, answer, reset>>
    \/ /\ n > i
       /\ Store(FileBytes(i - HeaderLen, n - HeaderLen), DeclaredSize(taken'))

\* open_auc refuses the request or opens the auction.
treat_request(n, i) ==
    \/ /\ \E status \in Refusals : send_tcp(status)
       /\ UNCHANGED <<asset, opened>>
    \/ /\ opened' = TRUE
       /\ prepare_freceive(n, i)

\* One read of the header: n bytes, and the buffer then holds taken'.
ReceiveHeader(n) ==
    /\ server = "header"
    /\ n \in 1..Smaller(BufferSize - taken, written - taken)
    /\ Cut \/ taken + n >= HeaderLen
    /\ taken' = taken + n
    /\ LET i == parse_opa(taken')
       IN  \/ /\ i = Incomplete
              /\ UNCHANGED <<server, remaining, asset, opened, answer, reset>>
           \/ /\ i = SegFault
              /\ server' = "crashed"
              /\ reset' = (taken' < written)
              /\ UNCHANGED <<remaining, asset, opened, answer>>
           \/ /\ i > 0
              /\ treat_request(n, i)
    /\ UNCHANGED <<size, clientVars>>

\* One read of file bytes: n of them.
ReceiveFile(n) ==
    /\ server = "file"
    /\ n \in 1..(written - taken)
    /\ taken' = taken + n
    /\ Store(FileBytes(taken - HeaderLen, (taken + n) - HeaderLen), remaining)
    /\ UNCHANGED <<size, clientVars, opened>>

\* The client's end is closed: every read returns nothing, and nothing changes.
ReceiveEnd ==
    /\ Listening
    /\ taken = written
    /\ client \in {"opened", "failed", "killed"}
    /\ UNCHANGED vars

-----------------------------------------------------------------------------
ClientStep == WriteHeader \/ WriteChunk \/ WriteNewline \/ ReadAnswer

ServerStep ==
    \E n \in 1..(written - taken) : ReceiveHeader(n) \/ ReceiveFile(n)

\* The connection is closed on both sides.
Over ==
    /\ ~Listening
    /\ client \in {"opened", "failed", "killed"}
    /\ UNCHANGED vars

Next == ClientStep \/ GiveUp \/ ServerStep \/ ReceiveEnd \/ Over

Spec == Init /\ [][Next]_vars

\* A client that can write or read does, and the select loop comes back to a
\* connection that has something to read.  Nobody has to give up.
LiveSpec == Spec /\ WF_vars(ClientStep) /\ WF_vars(ServerStep)

-----------------------------------------------------------------------------
(***************************************************************************)
(* Properties.                                                             *)
(***************************************************************************)

\* The server says OK only when the asset on disk is the file: every byte
\* once, in order, without the newline that follows it, however the bytes of
\* the file were cut and however many of them came with the header.
OkMeansWholeFile == answer = "OK" => asset = FileBytes(0, size)

\* The server says OK only after it has read the whole file, also when the
\* header came in pieces: a size cut short between its digits is never
\* believed, and bytes that are counted twice never end an upload early.
OkMeansAllRead == answer = "OK" => taken >= HeaderLen + size

\* The asset never holds a byte twice or before an earlier one, also when
\* the bytes that came with the header are counted wrongly.
AssetInOrder == \A i, j \in DOMAIN asset : i < j => asset[i] < asset[j]

\* Once the server has answered, the auction is in the database exactly when
\* the answer was OK: no error is reported for an auction that was opened.
AnswerTellsOutcome == server = "closed" => (answer = "OK" <=> opened)

\* The upload comes to an end for the client: the server does not wait for
\* bytes that never come while the client waits for its answer.
UploadEnds == <>(client \in {"opened", "failed", "killed"})
-----------------------------------------------------------------------------
(***************************************************************************)
(* The inductive invariant.                                                *)
(***************************************************************************)

\* The client does not write beyond the newline, which it writes last.
WritesInOrder == client = "writing" => written <= HeaderLen + size

\* Until the header is accepted nothing has happened.
NothingBeforeHeader ==
    server = "header" => asset = <<>> /\ answer = NoAnswer /\ ~opened

\* While the file comes in, remaining_size is the size less what is stored,
\* which is the declared size and not a part of it.
RemainingIsMissing ==
    server = "file" =>
        /\ opened
        /\ answer = NoAnswer
        /\ taken >= HeaderLen
        /\ remaining = size - Len(asset)

\* Only bytes that have been read are stored, and none more than once.
StoredWasRead ==
    asset # <<>> =>
        /\ Len(asset) <= taken - HeaderLen
        /\ \A j \in DOMAIN asset : asset[j] <= taken - HeaderLen

\* With the header in one piece, the asset is what has been read of the file.
StoredIsWhatWasRead ==
    /\ server = "header" => taken = 0
    /\ server = "file" => asset = FileBytes(0, taken - HeaderLen)

\* With the header in one piece, no way to cut the file ends the server.
ServerSurvives == server # "crashed"

\* What holds however TCP cuts the stream.
Inv ==
    /\ TypeOK
    /\ WritesInOrder
    /\ NothingBeforeHeader
    /\ RemainingIsMissing
    /\ StoredWasRead
    /\ AssetInOrder
    /\ OkMeansAllRead

\* What holds when the header comes in one piece.
WholeInv ==
    /\ StoredIsWhatWasRead
    /\ OkMeansWholeFile
    /\ AnswerTellsOutcome
    /\ ServerSurvives
=============================================================================
