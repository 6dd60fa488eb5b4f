--------------------------- MODULE DownloadProofs ---------------------------
(***************************************************************************)
(* Proofs about Download, for every set of file sizes and of sizes of an   *)
(* older file, every length of a name, whatever numbers atoi reads in the  *)
(* parts of a name, and all chunk, packet and window sizes.                *)
(*                                                                         *)
(* The server's steps and the client's steps keep Whole, the inductive     *)
(* invariant: how far each side is tells how many bytes have gone through, *)
(* and the bytes the client has put into its file are the last it has      *)
(* read, in the order of the stream.                                       *)
(***************************************************************************)
EXTENDS Download, NumberLemmas, SequenceTheorems

-----------------------------------------------------------------------------
(***************************************************************************)
(* The header and its last field.                                          *)
(***************************************************************************)

\* The size of the asset takes one to eight bytes, and the header is longer
\* than everything before it (send_tcp_file).
LEMMA HeaderLength ==
    ASSUME size \in FileSizes
    PROVE  /\ size \in Nat
           /\ NameEnd \in Nat
           /\ NameEnd > StatusLen
           /\ HeaderLen \in Nat
           /\ HeaderLen - 1 - NameEnd \in 1..8
<1> DEFINE D == {d \in 1..7 : size >= 10^d}
<1>1. IsFiniteSet(1..7) /\ Cardinality(1..7) = 7
  <2>1. 1 \in Int /\ 7 \in Int /\ 1 <= 7 + 1 /\ 7 - 1 + 1 = 7
    OBVIOUS
  <2>. QED
    BY ONLY <2>1, IntervalCardinality, Zenon
<1>2. D \subseteq 1..7
  OBVIOUS
<1>3. IsFiniteSet(D) /\ Cardinality(D) <= 7
  BY <1>1, <1>2, FS_Subset
<1>4. Cardinality(D) \in Nat
  BY <1>3, FS_CardinalityType
<1>5. FsizeLen(size) = 1 + Cardinality(D)
  BY Zenon DEF FsizeLen
<1>6. FsizeLen(size) \in 1..8
  BY <1>3, <1>4, <1>5
<1>7. NameEnd \in Nat /\ NameEnd > StatusLen
  BY LengthsAssumption DEF NameEnd, StatusLen
<1>8. HeaderLen = NameEnd + FsizeLen(size) + 1
  BY DEF HeaderLen, HeaderLenOf
<1>. QED
  BY <1>6, <1>7, <1>8, SizesAssumption

\* The powers of ten that cut digits off a size.
LEMMA Powers ==
    ASSUME NEW k \in 0..8
    PROVE  10^k \in Nat \ {0}
<1>1. CASE k = 0
  BY <1>1
<1>2. CASE k = 1
  BY <1>2
<1>3. CASE k = 2
  BY <1>3
<1>4. CASE k = 3
  BY <1>4
<1>5. CASE k = 4
  BY <1>5
<1>6. CASE k = 5
  BY <1>6
<1>7. CASE k = 6
  BY <1>7
<1>8. CASE k = 7
  BY <1>8
<1>9. CASE k = 8
  BY <1>9
<1>10. \/ k = 0 \/ k = 1 \/ k = 2 \/ k = 3 \/ k = 4
       \/ k = 5 \/ k = 6 \/ k = 7 \/ k = 8
  OBVIOUS
<1>. QED
  BY ONLY <1>1, <1>2, <1>3, <1>4, <1>5, <1>6, <1>7, <1>8, <1>9, <1>10

\* The digits of a size that come before a timeout are no more than the size
\* (read_word).
LEMMA DigitsOf ==
    ASSUME NEW n \in Nat, NEW k \in 0..8
    PROVE  n \div 10^k \in 0..n
<1> DEFINE p == 10^k
<1>1. p \in Nat \ {0}
  BY Powers
<1> HIDE DEF p
<1>2. n \div p \in 0..n
  BY <1>1
<1>. QED
  BY <1>2 DEF p

-----------------------------------------------------------------------------
(***************************************************************************)
(* The client's file.                                                      *)
(***************************************************************************)

\* A sequence is known by its length and its elements.
LEMMA Elements ==
    ASSUME NEW S, NEW n \in Nat, NEW f, f \in [1..n -> S]
    PROVE  f \in Seq(S) /\ Len(f) = n /\ DOMAIN f = 1..n
<1>1. f \in Seq(S)
  OBVIOUS
<1>2. DOMAIN f = 1..n
  OBVIOUS
<1>. QED
  BY <1>1, <1>2, LenProperties

\* What the older file holds.
LEMMA OldFileIs ==
    ASSUME old \in Nat
    PROVE  OldFile \in Seq((-old)..0) /\ Len(OldFile) = old
<1>1. OldFile \in [1..old -> (-old)..0]
  BY DEF OldFile
<1>. QED
  BY <1>1, Elements

\* More bytes may have been read.
LEMMA Wider ==
    ASSUME NEW a \in Int, NEW b \in Int, NEW c \in Int, b <= c, NEW s \in Seq(a..b)
    PROVE  s \in Seq(a..c)
<1>1. a..b \subseteq a..c
  OBVIOUS
<1>2. Len(s) \in Nat /\ s \in [1..Len(s) -> a..b]
  BY LenProperties
<1>3. s \in [1..Len(s) -> a..c]
  BY <1>1, <1>2
<1>. QED
  BY <1>2, <1>3, Elements

\* The file without its last byte (Front), when it has one.
LEMMA FrontIs ==
    ASSUME NEW S, NEW s \in Seq(S)
    PROVE  /\ Front(s) \in Seq(S)
           /\ Len(s) >= 1 => Len(Front(s)) = Len(s) - 1
           /\ \A j \in 1..(Len(s) - 1) : Front(s)[j] = s[j]
<1> DEFINE n == IF Len(s) >= 1 THEN Len(s) - 1 ELSE 0
<1>1. Len(s) \in Nat /\ DOMAIN s = 1..Len(s) /\ \A j \in 1..Len(s) : s[j] \in S
  BY LenProperties
<1>2. 1..(Len(s) - 1) = 1..n /\ n \in Nat /\ n <= Len(s)
  BY <1>1
<1>3. Front(s) = [j \in 1..n |-> s[j]]
  BY <1>1, <1>2 DEF Front
<1>4. Front(s) \in [1..n -> S]
  BY <1>1, <1>2, <1>3
<1>5. Front(s) \in Seq(S) /\ Len(Front(s)) = n
  BY <1>2, <1>4, Elements
<1>. QED
  BY <1>2, <1>3, <1>5

\* n more bytes of the stream in the file (write).
LEMMA OverwrittenIs ==
    ASSUME old \in Nat, got \in Nat, read_bytes \in 0..got,
           file \in Seq((-old)..got), read_bytes <= Len(file),
           NEW n \in Nat
    PROVE  /\ Overwritten(n) \in Seq((-old)..(got + n))
           /\ Len(Overwritten(n)) =
                 IF read_bytes + n > Len(file) THEN read_bytes + n ELSE Len(file)
           /\ \A j \in 1..read_bytes : Overwritten(n)[j] = file[j]
           /\ \A j \in (read_bytes + 1)..(read_bytes + n) :
                 Overwritten(n)[j] = got + (j - read_bytes)
<1> DEFINE L == Len(file)
           m == IF read_bytes + n > L THEN read_bytes + n ELSE L
           new == [j \in 1..m |->
                      IF j \in (read_bytes + 1)..(read_bytes + n)
                      THEN got + (j - read_bytes)
                      ELSE file[j]]
<1>1. Overwritten(n) = new
  BY DEF Overwritten
<1>2. L \in Nat /\ \A j \in 1..L : file[j] \in (-old)..got
  BY LenProperties
<1>3. m \in Nat /\ m >= read_bytes + n /\ m >= L
  BY <1>2
<1>4. ASSUME NEW j \in 1..m
      PROVE  new[j] \in (-old)..(got + n)
  <2>1. CASE j \in (read_bytes + 1)..(read_bytes + n)
    BY <2>1
  <2>2. CASE j \notin (read_bytes + 1)..(read_bytes + n)
    <3>1. j \in 1..L
      BY <1>2, <2>2
    <3>2. file[j] \in (-old)..got
      BY <1>2, <3>1
    <3>3. new[j] = file[j]
      BY <2>2
    <3>. QED
      BY <3>2, <3>3
  <2>. QED
    BY <2>1, <2>2
<1>5. new \in [1..m -> (-old)..(got + n)]
  BY <1>4
<1>6. new \in Seq((-old)..(got + n)) /\ Len(new) = m
  <2>. HIDE DEF new, m
  <2>. QED
    BY <1>3, <1>5, Elements
<1>7. \A j \in 1..read_bytes : new[j] = file[j]
  BY <1>3
<1>8. \A j \in (read_bytes + 1)..(read_bytes + n) : new[j] = got + (j - read_bytes)
  BY <1>3
<1>. QED
  BY <1>1, <1>6, <1>7, <1>8

-----------------------------------------------------------------------------
(***************************************************************************)
(* The inductive invariant.                                                *)
(***************************************************************************)

\* What the server has written is known from what it does next.
ServerPlace ==
    /\ sent = 0 \/ sent >= HeaderLen
    /\ server = "header" => sent = 0
    /\ server = "file" => HeaderLen <= sent /\ sent < HeaderLen + size
    /\ server = "newline" => sent = HeaderLen + size

\* What the client has read is known from what it does next, until a timeout
\* cuts a word.
ClientPlace ==
    /\ client \in {"status", "name", "size"} => read_bytes = 0 /\ file = OldFile
    /\ client = "status" => got = 0 /\ words = "whole"
    /\ client = "name" => got = StatusLen /\ words = "whole"
    /\ client = "size" =>
           \/ words = "whole" /\ got = NameEnd
           \/ words = "name cut" /\ got \in StatusLen .. (NameEnd - 1)
    /\ client = "file" /\ words = "whole" =>
           got = HeaderLen + read_bytes /\ file_bytes = size

\* While the file comes in, it begins with the last bytes that were read, and
\* it is as long as they are or as it was.
LastBytesRead ==
    client = "file" =>
        /\ Len(file) = IF read_bytes > old THEN read_bytes ELSE old
        /\ \A j \in 1..read_bytes : file[j] = got - read_bytes + j

Whole ==
    TypeOK /\ ServerPlace /\ ClientPlace /\ LastBytesRead /\ SavedIsAsset /\ AsksNoMore

\* What TypeOK says of the size the client believes in.
SizeBelieved ==
    /\ file_bytes \in (0 .. size) \cup {fname[part] : part \in NameParts}
    /\ words # "name cut" => file_bytes \in 0 .. size

\* What the numbers are, in one place.
LEMMA Numbers ==
    ASSUME Whole
    PROVE  /\ size \in Nat /\ old \in Nat /\ sent \in Nat /\ got \in Nat
           /\ got <= sent /\ sent <= HeaderLen + size + 1
           /\ file_bytes \in Int
           /\ read_bytes \in 0..got
           /\ HeaderLen \in Nat /\ NameEnd \in Nat
           /\ StatusLen < NameEnd /\ NameEnd + 2 <= HeaderLen
           /\ StatusLen = 7
<1>1. size \in FileSizes /\ old \in OldSizes
  BY DEF Whole, TypeOK
<1>2. /\ size \in Nat
      /\ NameEnd \in Nat
      /\ NameEnd > StatusLen
      /\ HeaderLen \in Nat
      /\ HeaderLen - 1 - NameEnd \in 1..8
  BY <1>1, HeaderLength
<1>3. StatusLen = 7
  BY DEF StatusLen
<1> HIDE DEF HeaderLen, NameEnd
<1>4. /\ sent \in 0 .. (HeaderLen + size + 1)
      /\ got \in 0 .. sent
      /\ read_bytes \in 0..got
  BY DEF Whole, TypeOK
<1>5. old \in Nat
  BY <1>1, SizesAssumption
<1>6. file_bytes \in Int
  <2>1. CASE file_bytes \in 0..size
    BY <1>2, <2>1
  <2>2. CASE file_bytes \in {fname[part] : part \in NameParts}
    <3>1. fname \in [NameParts -> Int]
      BY NamesAssumption DEF Whole, TypeOK
    <3>. QED
      BY ONLY <2>2, <3>1
  <2>. QED
    BY <2>1, <2>2 DEF Whole, TypeOK
<1>. QED
  BY <1>2, <1>3, <1>4, <1>5, <1>6

-----------------------------------------------------------------------------
(***************************************************************************)
(* The server's steps.                                                     *)
(***************************************************************************)

\* What a step of the server leaves alone, and what it must show of the rest.
LEMMA ServerKeeps ==
    ASSUME Whole,
           UNCHANGED <<size, fname, old, clientVars>>,
           sent' \in sent..(HeaderLen + size + 1),
           server' \in {"header", "file", "newline"} \cup ServerOver,
           wire' \in {"open", "fin", "fin reset", "reset"},
           ServerPlace'
    PROVE  Whole'
<1>1. HeaderLen' = HeaderLen /\ OldFile' = OldFile
  BY DEF HeaderLen, OldFile
<1>2. /\ size' = size /\ fname' = fname /\ old' = old
      /\ client' = client /\ got' = got
      /\ words' = words /\ file_bytes' = file_bytes
      /\ read_bytes' = read_bytes /\ file' = file
  BY DEF clientVars
<1>3. /\ HeaderLen \in Nat /\ size \in Nat /\ sent \in Nat
      /\ got \in Nat /\ got <= sent
  BY Numbers
<1> HIDE DEF HeaderLen, OldFile
<1>4. sent' \in sent..(HeaderLen + size + 1)
  OBVIOUS
<1>5. sent' \in Int /\ sent <= sent' /\ sent' <= HeaderLen + size + 1
  BY ONLY <1>3, <1>4
<1>6. got \in 0..sent'
  BY ONLY <1>3, <1>5
<1>7. sent' \in 0..(HeaderLen + size + 1)
  BY ONLY <1>3, <1>5
<1>8. TypeOK'
  BY <1>1, <1>2, <1>6, <1>7 DEF Whole, TypeOK
<1>9. ClientPlace'
  BY <1>1, <1>2 DEF Whole, ClientPlace
<1>10. LastBytesRead'
  BY <1>1, <1>2 DEF Whole, LastBytesRead
<1>11. SavedIsAsset'
  BY <1>1, <1>2 DEF Whole, SavedIsAsset
<1>12. AsksNoMore'
  BY <1>1, <1>2 DEF Whole, AsksNoMore
<1>. QED
  BY <1>8, <1>9, <1>10, <1>11, <1>12 DEF Whole

\* A write of n bytes that fit, after which the place is right, is a step of
\* the server, and so is one that fails (write).
LEMMA WriteKeeps ==
    ASSUME Whole,
           NEW n \in Nat, NEW next \in {"file", "newline", "closed"},
           Write(n, next),
           UNCHANGED <<size, fname, old, clientVars>>,
           sent + n >= HeaderLen,
           sent + n <= HeaderLen + size + 1,
           next = "file" => sent + n < HeaderLen + size,
           next = "newline" => sent + n = HeaderLen + size
    PROVE  Whole'
<1>1. HeaderLen' = HeaderLen /\ size' = size
  BY DEF HeaderLen
<1>2. HeaderLen \in Nat /\ size \in Nat /\ sent \in Nat /\ sent <= HeaderLen + size + 1
  BY Numbers
<1> HIDE DEF HeaderLen
<1>3. wire \in {"open", "fin", "fin reset", "reset"} /\ ServerPlace
  BY DEF Whole, TypeOK
<1>4. CASE sent' = sent + n /\ server' = next
           /\ (wire' = wire \/ (wire = "fin" /\ wire' = "fin reset"))
  <2>1. sent' \in sent..(HeaderLen + size + 1)
    <3>1. sent + n \in sent..(HeaderLen + size + 1)
      BY <1>2
    <3>. QED
      BY <1>4, <3>1
  <2>2. server' \in {"header", "file", "newline"} \cup ServerOver
    BY <1>4 DEF ServerOver
  <2>3. wire' \in {"open", "fin", "fin reset", "reset"}
    BY <1>3, <1>4
  <2>4. ServerPlace'
    BY <1>1, <1>2, <1>4 DEF ServerPlace
  <2>. QED
    BY <2>1, <2>2, <2>3, <2>4, ServerKeeps
<1>5. CASE sent' = sent /\ wire' = wire /\ server' \in ServerOver
  <2>1. sent' \in sent..(HeaderLen + size + 1)
    BY <1>2, <1>5
  <2>2. server' \in {"header", "file", "newline"} \cup ServerOver
    BY <1>5
  <2>3. ServerPlace'
    BY <1>1, <1>2, <1>3, <1>5 DEF ServerPlace, ServerOver
  <2>. QED
    BY <1>3, <1>5, <2>1, <2>2, <2>3, ServerKeeps
<1>. QED
  BY <1>4, <1>5 DEF Write, ServerOver

\* The server goes no further (Refuse, FileFails, int_handler).
LEMMA StopKeeps ==
    ASSUME Whole, server' \in ServerOver,
           UNCHANGED <<size, fname, old, sent, clientVars, wire>>
    PROVE  Whole'
<1>1. HeaderLen' = HeaderLen /\ sent' = sent /\ wire' = wire
  BY DEF HeaderLen
<1>2. HeaderLen \in Nat /\ size \in Nat /\ sent \in Nat /\ sent <= HeaderLen + size + 1
  BY Numbers
<1> HIDE DEF HeaderLen
<1>3. sent' \in sent..(HeaderLen + size + 1)
  BY <1>1, <1>2
<1>4. ServerPlace'
  BY <1>1, <1>2 DEF Whole, ServerPlace, ServerOver
<1>5. wire' \in {"open", "fin", "fin reset", "reset"}
  BY <1>1 DEF Whole, TypeOK
<1>. QED
  BY <1>3, <1>4, <1>5, ServerKeeps

\* Every step of the server keeps the invariant (send_tcp_file).
LEMMA ServerStep ==
    ASSUME Whole, send_tcp_file \/ FileFails \/ int_handler
    PROVE  Whole'
<1>1. /\ size \in Nat /\ sent \in Nat /\ HeaderLen \in Nat
      /\ sent <= HeaderLen + size + 1
  BY Numbers
<1>2. ServerPlace
  BY DEF Whole
<1> HIDE DEF HeaderLen
<1>3. CASE WriteHeader
  <2>1. sent = 0
    BY <1>2, <1>3 DEF WriteHeader, ServerPlace
  <2>2. AfterBytes(HeaderLen) = IF 0 < size THEN "file" ELSE "newline"
    BY <1>1 DEF AfterBytes
  <2>3. Write(HeaderLen, AfterBytes(HeaderLen)) /\ UNCHANGED <<size, fname, old, clientVars>>
    BY <1>3 DEF WriteHeader
  <2>. QED
    BY <1>1, <2>1, <2>2, <2>3, WriteKeeps
<1>4. CASE WriteChunk
  <2> DEFINE n == Smaller(ChunkSize, HeaderLen + size - sent)
  <2>1. HeaderLen <= sent /\ sent < HeaderLen + size
    BY <1>2, <1>4 DEF WriteChunk, ServerPlace
  <2>2. n \in Nat /\ n <= HeaderLen + size - sent
    BY <1>1, <2>1, LengthsAssumption DEF Smaller
  <2>3. Write(n, AfterBytes(sent + n)) /\ UNCHANGED <<size, fname, old, clientVars>>
    BY <1>4 DEF WriteChunk
  <2> HIDE DEF n
  <2>4. AfterBytes(sent + n) = IF sent + n < HeaderLen + size THEN "file" ELSE "newline"
    BY DEF AfterBytes
  <2>. QED
    BY <1>1, <2>1, <2>2, <2>3, <2>4, WriteKeeps
<1>5. CASE WriteNewline
  <2>1. sent = HeaderLen + size
    BY <1>2, <1>5 DEF WriteNewline, ServerPlace
  <2>2. Write(1, "closed") /\ UNCHANGED <<size, fname, old, clientVars>>
    BY <1>5 DEF WriteNewline
  <2>. QED
    BY <1>1, <2>1, <2>2, WriteKeeps
<1>6. CASE Refuse \/ FileFails \/ int_handler
  <2>1. server' \in ServerOver /\ UNCHANGED <<size, fname, old, sent, clientVars, wire>>
    BY <1>6 DEF Refuse, FileFails, int_handler, ServerOver
  <2>. QED
    BY <2>1, StopKeeps
<1>. QED
  BY <1>3, <1>4, <1>5, <1>6 DEF send_tcp_file

-----------------------------------------------------------------------------
(***************************************************************************)
(* The client's steps.                                                     *)
(***************************************************************************)

\* What a step of the client must show.
LEMMA ClientKeeps ==
    ASSUME Whole,
           UNCHANGED <<size, fname, old, serverVars>>,
           client' \in {"status", "name", "size", "file"} \cup Over,
           got' \in got..sent,
           words' \in {"whole", "name cut", "size cut"},
           SizeBelieved',
           read_bytes' \in 0..got',
           file' \in Seq((-old)..got'),
           wire' \in {"open", "fin", "fin reset", "reset"},
           ClientPlace', LastBytesRead', SavedIsAsset', AsksNoMore'
    PROVE  Whole'
<1>1. HeaderLen' = HeaderLen
  BY DEF HeaderLen
<1>2. /\ HeaderLen \in Nat /\ size \in Nat /\ sent \in Nat
      /\ got \in Nat /\ got <= sent
  BY Numbers
<1> HIDE DEF HeaderLen
<1>3. /\ size' = size /\ fname' = fname /\ old' = old
      /\ server' = server /\ sent' = sent
  BY DEF serverVars
<1>4. got' \in got..sent
  OBVIOUS
<1>5. got' \in 0..sent'
  BY ONLY <1>2, <1>3, <1>4
<1>6. TypeOK'
  BY <1>1, <1>3, <1>5 DEF Whole, TypeOK, SizeBelieved
<1>7. ServerPlace'
  BY <1>1, <1>3 DEF Whole, ServerPlace
<1>. QED
  BY <1>6, <1>7 DEF Whole

\* What close leaves of the connection.
LEMMA CloseIs ==
    ASSUME NEW end \in Over, close(end)
    PROVE  /\ client' \in Over
           /\ client' = end
           /\ wire' \in {"open", "fin", "fin reset", "reset"}
  BY DEF close

\* transfer_file returns with the file as it is, and says nothing of it.
LEMMA EndKeeps ==
    ASSUME Whole,
           UNCHANGED <<size, fname, old, serverVars, read_bytes, file>>,
           client' \in Over,
           got' \in got..sent,
           words' \in {"whole", "name cut", "size cut"},
           SizeBelieved',
           wire' \in {"open", "fin", "fin reset", "reset"},
           client' # "saved"
    PROVE  Whole'
<1>1. /\ size \in Nat /\ old \in Nat /\ sent \in Nat
      /\ got \in Nat /\ read_bytes \in 0..got
  BY Numbers
<1>2. got' \in got..sent /\ read_bytes' = read_bytes /\ file' = file
  OBVIOUS
<1>3. got' \in Nat /\ got <= got'
  BY ONLY <1>1, <1>2
<1>4. read_bytes' \in 0..got'
  BY ONLY <1>1, <1>2, <1>3
<1>5. file' \in Seq((-old)..got')
  <2>1. file \in Seq((-old)..got)
    BY DEF Whole, TypeOK
  <2>2. file \in Seq((-old)..got')
    <3>1. PICK g : g = got' /\ g \in Nat /\ got <= g
      BY <1>3
    <3>2. -old \in Int /\ got \in Int /\ g \in Int
      BY ONLY <1>1, <3>1
    <3>3. file \in Seq((-old)..g)
      BY ONLY <2>1, <3>1, <3>2, Wider
    <3>. QED
      BY <3>1, <3>3
  <2>. QED
    BY <1>2, <2>2
<1>6. ClientPlace'
  BY DEF ClientPlace, Over
<1>7. LastBytesRead'
  BY DEF LastBytesRead, Over
<1>8. SavedIsAsset'
  BY DEF SavedIsAsset
<1>9. client' \in {"status", "name", "size", "file"} \cup Over
  OBVIOUS
<1>10. AsksNoMore'
  BY DEF AsksNoMore, Over
<1>. QED
  BY <1>4, <1>5, <1>6, <1>7, <1>8, <1>9, <1>10, ClientKeeps

\* transfer_file goes on to the next field, with the file as it is.
LEMMA FieldKeeps ==
    ASSUME Whole,
           UNCHANGED <<size, fname, old, serverVars, read_bytes, file, wire>>,
           client \in {"status", "name", "size"},
           client' \in {"name", "size", "file"},
           got' \in got..sent,
           words' \in {"whole", "name cut", "size cut"},
           SizeBelieved',
           ClientPlace', AsksNoMore'
    PROVE  Whole'
<1>1. /\ size \in Nat /\ old \in Nat /\ sent \in Nat
      /\ got \in Nat /\ read_bytes \in 0..got
  BY Numbers
<1>2. /\ got' \in got..sent /\ read_bytes' = read_bytes /\ file' = file
      /\ old' = old /\ wire' = wire
  OBVIOUS
<1>3. got' \in Nat /\ got <= got'
  BY ONLY <1>1, <1>2
<1>4. read_bytes' \in 0..got'
  BY ONLY <1>1, <1>2, <1>3
<1>5. read_bytes = 0 /\ file = OldFile
  BY DEF Whole, ClientPlace
<1>6. file' \in Seq((-old)..got')
  <2>1. PICK g : g = got' /\ g \in Nat
    BY <1>3
  <2>2. file \in Seq((-old)..0)
    BY Zenon, <1>1, <1>5, OldFileIs
  <2>3. -old \in Int /\ 0 \in Int /\ g \in Int /\ 0 <= g
    BY ONLY <1>1, <2>1
  <2>4. file \in Seq((-old)..g)
    BY ONLY <2>2, <2>3, Wider
  <2>. QED
    BY <1>2, <2>1, <2>4
<1>7. LastBytesRead'
  <2>1. Len(file) = old
    BY Zenon, <1>1, <1>5, OldFileIs
  <2>. QED
    BY ONLY <1>1, <1>2, <1>5, <2>1 DEF LastBytesRead
<1>8. SavedIsAsset'
  BY DEF SavedIsAsset
<1>9. wire' \in {"open", "fin", "fin reset", "reset"}
  BY <1>2 DEF Whole, TypeOK
<1>10. client' \in {"status", "name", "size", "file"} \cup Over
  OBVIOUS
<1>. QED
  BY <1>4, <1>6, <1>7, <1>8, <1>9, <1>10, ClientKeeps

\* The values the fields have, for the steps that leave them alone.
LEMMA Fields ==
    ASSUME Whole
    PROVE  /\ words \in {"whole", "name cut", "size cut"}
           /\ wire \in {"open", "fin", "fin reset", "reset"}
           /\ sent = 0 \/ sent >= HeaderLen
           /\ client = "status" => got = 0 /\ words = "whole"
           /\ client = "name" => got = StatusLen /\ words = "whole"
           /\ client = "size" =>
                  \/ words = "whole" /\ got = NameEnd
                  \/ words = "name cut" /\ got \in StatusLen .. (NameEnd - 1)
  BY DEF Whole, TypeOK, ServerPlace, ClientPlace

\* A step that leaves both alone, or the words whole, believes what it did.
LEMMA BeliefKept ==
    ASSUME Whole, UNCHANGED <<size, fname, file_bytes>>,
           words' = words \/ words = "whole"
    PROVE  SizeBelieved'
<1>1. SizeBelieved /\ (words = "whole" => file_bytes \in 0 .. size)
  BY DEF Whole, TypeOK, SizeBelieved
<1>2. size' = size /\ fname' = fname /\ file_bytes' = file_bytes
  OBVIOUS
<1>. QED
  BY <1>1, <1>2 DEF SizeBelieved

LEMMA ReadStatusKeeps == ASSUME Whole, ReadStatus PROVE Whole'
<1>1. /\ size \in Nat /\ sent \in Nat /\ got \in Nat /\ got <= sent
      /\ HeaderLen \in Nat /\ StatusLen = 7 /\ HeaderLen > 7
  <2>1. NameEnd \in Nat /\ HeaderLen \in Nat
    BY Numbers
  <2>2. StatusLen = 7 /\ StatusLen < NameEnd /\ NameEnd + 2 <= HeaderLen
    BY Numbers
  <2> HIDE DEF NameEnd, HeaderLen, StatusLen
  <2>3. HeaderLen > 7
    BY ONLY <2>1, <2>2
  <2>. QED
    BY <2>1, <2>2, <2>3, Numbers
<1> HIDE DEF HeaderLen
<1>2. /\ UNCHANGED <<size, fname, old, serverVars, read_bytes, file>>
      /\ words' = words /\ file_bytes' = file_bytes
  BY DEF ReadStatus
<1>3. /\ client = "status" /\ words = "whole"
      /\ wire \in {"open", "fin", "fin reset", "reset"}
      /\ SizeBelieved'
  BY <1>2, Fields, BeliefKept DEF ReadStatus
<1>4. got = 0 /\ (sent = 0 \/ sent >= HeaderLen)
  BY Fields DEF ReadStatus
<1>5. read_bytes = 0 /\ file = OldFile /\ OldFile' = OldFile
  BY <1>3, <1>2 DEF Whole, ClientPlace, OldFile
<1> HIDE DEF OldFile
<1>6. CASE Unread >= StatusLen /\ got' = StatusLen /\ client' = "name" /\ UNCHANGED wire
  <2>1. got' \in got..sent
    <3>1. Unread >= StatusLen /\ got' = StatusLen
      BY <1>6
    <3>. QED
      BY ONLY <1>1, <1>4, <3>1 DEF Unread
  <2>2. ClientPlace'
    BY ONLY <1>3, <1>2, <1>6, <1>5 DEF ClientPlace, StatusLen
  <2>3. AsksNoMore'
    BY <1>6 DEF AsksNoMore
  <2>. QED
    BY <1>3, <1>2, <1>6, <2>1, <2>2, <2>3, FieldKeeps
<1>7. CASE /\ \/ Unread > 0 /\ got' \in 1..(StatusLen - 1)
              \/ Unread = 0 /\ got' = got
           /\ close("failed")
  <2>1. \/ Unread > 0 /\ got' \in 1..(StatusLen - 1)
        \/ Unread = 0 /\ got' = got
    BY <1>7
  <2>2. got' \in got..sent
    BY ONLY <1>1, <1>4, <2>1 DEF Unread
  <2>3. /\ client' \in Over /\ client' = "failed"
        /\ wire' \in {"open", "fin", "fin reset", "reset"}
    BY <1>7, CloseIs DEF Over
  <2>. QED
    BY <1>3, <1>2, <2>2, <2>3, EndKeeps
<1>. QED
  BY <1>6, <1>7 DEF ReadStatus

LEMMA ReadNameKeeps == ASSUME Whole, ReadName PROVE Whole'
<1>1. /\ size \in Nat /\ sent \in Nat /\ got \in Nat /\ got <= sent
      /\ HeaderLen \in Nat /\ NameEnd \in Nat /\ StatusLen = 7
      /\ StatusLen < NameEnd /\ NameEnd + 2 <= HeaderLen
  BY Numbers
<1> HIDE DEF HeaderLen, NameEnd
<1>2. /\ UNCHANGED <<size, fname, old, serverVars, read_bytes, file, wire>>
      /\ client' = "size" /\ file_bytes' = file_bytes
  BY DEF ReadName
<1>3. /\ client = "name" /\ words = "whole" /\ got = StatusLen
      /\ sent = 0 \/ sent >= HeaderLen
      /\ SizeBelieved'
  BY <1>2, Fields, BeliefKept DEF ReadName
<1>4. read_bytes = 0 /\ file = OldFile /\ OldFile' = OldFile
  BY <1>2, <1>3 DEF Whole, ClientPlace, OldFile
<1> HIDE DEF OldFile
<1>5. \/ words' = "whole" /\ got' = NameEnd
      \/ words' = "name cut" /\ got' \in StatusLen .. (NameEnd - 1)
  BY <1>3 DEF ReadName
<1>6. got' \in got..sent
  <2>1. got' = NameEnd \/ got' \in StatusLen .. (NameEnd - 1)
    BY <1>5
  <2>. QED
    BY ONLY <1>1, <1>3, <2>1
<1>7. NameEnd' = NameEnd /\ StatusLen' = StatusLen
  BY DEF NameEnd
<1>8. ClientPlace'
  BY ONLY <1>2, <1>4, <1>5, <1>7 DEF ClientPlace
<1>9. AsksNoMore'
  BY <1>2 DEF AsksNoMore
<1>. QED
  BY <1>2, <1>3, <1>5, <1>6, <1>8, <1>9, FieldKeeps

\* The second word after a whole name: the size, or the digits of it that came
\* before a timeout (read_word, atoi).
LEMMA SizeReadIs ==
    ASSUME Whole, client = "size", SizeRead
    PROVE  /\ words = "whole"
           /\ got' \in got..sent
           /\ file_bytes' \in 0..size
           /\ \/ words' = "whole" /\ got' = HeaderLen /\ file_bytes' = size
              \/ words' = "size cut" /\ got' <= HeaderLen
<1>1. /\ size \in Nat /\ sent \in Nat /\ got \in Nat /\ got <= sent
      /\ HeaderLen \in Nat /\ NameEnd \in Nat /\ StatusLen = 7
      /\ StatusLen < NameEnd /\ NameEnd + 2 <= HeaderLen
  BY Numbers
<1>2. HeaderLen - 1 - NameEnd \in 1..8
  BY HeaderLength DEF Whole, TypeOK
<1> HIDE DEF HeaderLen, NameEnd
<1>3. words = "whole" /\ got = NameEnd /\ (sent = 0 \/ sent >= HeaderLen)
  BY Fields DEF SizeRead
<1>4. CASE got' = HeaderLen /\ file_bytes' = size /\ UNCHANGED words
  <2>1. got' = HeaderLen
    BY <1>4
  <2>2. got' \in got..sent
    BY ONLY <1>1, <1>3, <2>1
  <2>3. size \in 0..size
    BY <1>1
  <2>. QED
    BY <1>3, <1>4, <2>2, <2>3
<1>5. CASE /\ got' \in NameEnd .. (HeaderLen - 1)
           /\ file_bytes' = size \div 10^(HeaderLen - 1 - got')
           /\ words' = "size cut"
  <2>1. PICK g : g = got' /\ g \in NameEnd .. (HeaderLen - 1)
    BY <1>5, Zenon
  <2>2. HeaderLen \in Int /\ NameEnd \in Int /\ g \in Int
    BY ONLY <1>1, <2>1
  <2>3. NameEnd <= g /\ g <= HeaderLen - 1
    BY ONLY <2>1, <2>2
  <2>4. HeaderLen - 1 - NameEnd <= 8
    BY ONLY <1>2, <2>2
  <2>5. HeaderLen - 1 - g \in 0..8
    BY ONLY <2>2, <2>3, <2>4
  <2>6. PICK k \in 0..8 : k = HeaderLen - 1 - got'
    BY <2>1, <2>5, Zenon
  <2>7. file_bytes' = size \div 10^k
    BY <1>5, <2>6
  <2>8. PICK n : n = size /\ n \in Nat
    BY <1>1
  <2>9. n \div 10^k \in 0..n
    BY <2>8, DigitsOf
  <2>10. file_bytes' \in 0..size
    BY <2>7, <2>8, <2>9, Zenon
  <2>11. g \in got..sent /\ g <= HeaderLen
    BY ONLY <1>1, <1>3, <2>2, <2>3
  <2>12. got' \in got..sent /\ got' <= HeaderLen
    BY <2>1, <2>11
  <2>. QED
    BY <1>3, <1>5, <2>10, <2>12, Zenon
<1>. QED
  BY <1>4, <1>5 DEF SizeRead

\* The second word after a name that was cut: what atoi reads in some part of
\* the name (read_word, atoi).
LEMMA RestOfNameReadIs ==
    ASSUME Whole, client = "size", RestOfNameRead
    PROVE  /\ words' = "name cut"
           /\ got' \in got..sent
           /\ file_bytes' \in {fname[part] : part \in NameParts}
<1>1. /\ size \in Nat /\ sent \in Nat /\ got \in Nat /\ got <= sent
      /\ HeaderLen \in Nat /\ NameEnd \in Nat /\ StatusLen = 7
      /\ StatusLen < NameEnd /\ NameEnd + 2 <= HeaderLen
  BY Numbers
<1>2. NameEnd = 7 + FnameLen + 1 /\ FnameLen \in Nat
  BY LengthsAssumption DEF NameEnd, StatusLen
<1> HIDE DEF HeaderLen, NameEnd
<1>3. /\ got \in StatusLen .. (NameEnd - 1)
      /\ sent = 0 \/ sent >= HeaderLen
  BY Fields DEF RestOfNameRead
<1>4. PICK g : g = got' /\ g \in got .. NameEnd
  BY Zenon DEF RestOfNameRead
<1>5. g \in Int /\ got <= g /\ g <= NameEnd
  BY ONLY <1>1, <1>4
<1>6. g \in got..sent
  BY ONLY <1>1, <1>3, <1>5
<1>7. <<got - StatusLen, Smaller(g - StatusLen, FnameLen)>> \in NameParts
  <2>1. got - StatusLen \in 0..FnameLen
    BY ONLY <1>1, <1>2, <1>3
  <2>2. /\ Smaller(g - StatusLen, FnameLen) \in 0..FnameLen
        /\ got - StatusLen <= Smaller(g - StatusLen, FnameLen)
    BY ONLY <1>1, <1>2, <1>3, <1>5 DEF Smaller
  <2>. QED
    BY <2>1, <2>2 DEF NameParts
<1>8. file_bytes' = fname[<<got - StatusLen, Smaller(g - StatusLen, FnameLen)>>]
  BY <1>4 DEF RestOfNameRead
<1>9. file_bytes' \in {fname[part] : part \in NameParts}
  BY <1>7, <1>8
<1>10. got' \in got..sent
  BY <1>4, <1>6
<1>. QED
  BY <1>9, <1>10 DEF RestOfNameRead

LEMMA ReadSizeKeeps == ASSUME Whole, ReadSize PROVE Whole'
<1>1. size \in Nat /\ HeaderLen \in Nat /\ got \in Nat /\ sent \in Nat
  BY Numbers
<1> HIDE DEF HeaderLen
<1>2. /\ client = "size"
      /\ UNCHANGED <<size, fname, old, serverVars, read_bytes, file>>
      /\ SizeRead \/ RestOfNameRead
  BY DEF ReadSize
<1>3. /\ HeaderLen' = HeaderLen /\ size' = size /\ fname' = fname
      /\ read_bytes' = read_bytes
  BY <1>2 DEF HeaderLen
<1>4. read_bytes = 0
  BY <1>2 DEF Whole, ClientPlace
<1>5. /\ got' \in got..sent
      /\ words' \in {"whole", "name cut", "size cut"}
      /\ SizeBelieved'
      /\ words' = "whole" => got' = HeaderLen /\ file_bytes' = size
      /\ words' # "name cut" => file_bytes' \in 0..size /\ got' <= HeaderLen
  <2>1. CASE SizeRead
    <3>1. /\ got' \in got..sent
          /\ file_bytes' \in 0..size
          /\ \/ words' = "whole" /\ got' = HeaderLen /\ file_bytes' = size
             \/ words' = "size cut" /\ got' <= HeaderLen
      BY <1>2, <2>1, SizeReadIs
    <3>2. HeaderLen <= HeaderLen
      BY <1>1
    <3>. QED
      BY <1>3, <3>1, <3>2, Zenon DEF SizeBelieved
  <2>2. CASE RestOfNameRead
    <3>1. /\ words' = "name cut"
          /\ got' \in got..sent
          /\ file_bytes' \in {fname[part] : part \in NameParts}
      BY <1>2, <2>2, RestOfNameReadIs
    <3>. QED
      BY <1>3, <3>1, Zenon DEF SizeBelieved
  <2>. QED
    BY <1>2, <2>1, <2>2
<1>6. CASE client' = "file" /\ UNCHANGED wire
  <2>1. ClientPlace'
    <3>1. CASE words' = "whole"
      <4>1. got' = HeaderLen' + read_bytes' /\ file_bytes' = size'
        BY <1>1, <1>3, <1>4, <1>5, <3>1
      <4>. QED
        BY ONLY <1>6, <4>1 DEF ClientPlace
    <3>2. CASE words' # "whole"
      BY <1>6, <3>2 DEF ClientPlace
    <3>. QED
      BY <3>1, <3>2
  <2>2. AsksNoMore'
    <3> SUFFICES ASSUME words' # "name cut"
                 PROVE  file_bytes' - read_bytes' <= HeaderLen' + size' - got'
      BY DEF AsksNoMore
    <3>1. PICK g : g = got' /\ g \in got..sent /\ g <= HeaderLen
      BY <1>5
    <3>2. PICK b : b = file_bytes' /\ b \in 0..size
      BY <1>5
    <3>3. g \in Int /\ g <= HeaderLen /\ b \in 0..size
      BY ONLY <1>1, <3>1, <3>2
    <3>4. b - 0 <= HeaderLen + size - g
      BY ONLY <1>1, <3>3
    <3>. QED
      BY <1>3, <1>4, <3>1, <3>2, <3>4, Zenon
  <2>. QED
    BY <1>2, <1>5, <1>6, <2>1, <2>2, FieldKeeps
<1>7. CASE close("failed")
  <2>1. /\ client' \in Over /\ client' # "saved"
        /\ wire' \in {"open", "fin", "fin reset", "reset"}
    BY <1>7, CloseIs DEF Over
  <2>. QED
    BY <1>2, <1>5, <2>1, EndKeeps
<1>. QED
  BY <1>6, <1>7 DEF ReadSize

\* The client stops where it is.
LEMMA StopsKeep == ASSUME Whole, GiveUp \/ Kill PROVE Whole'
<1>1. /\ UNCHANGED <<size, fname, old, serverVars, words, file_bytes, read_bytes, file>>
      /\ got' = got
  BY DEF GiveUp, Kill
<1>2. close("timed out") \/ close("killed")
  BY DEF GiveUp, Kill
<1>3. /\ client' \in Over /\ client' # "saved"
      /\ wire' \in {"open", "fin", "fin reset", "reset"}
  BY <1>2, CloseIs DEF Over
<1>4. got \in got..sent
  BY Numbers
<1>5. words \in {"whole", "name cut", "size cut"} /\ SizeBelieved'
  BY <1>1, Fields, BeliefKept
<1>. QED
  BY <1>1, <1>3, <1>4, <1>5, EndKeeps

-----------------------------------------------------------------------------
(***************************************************************************)
(* The bytes of the file.                                                  *)
(***************************************************************************)

LEMMA ReadFileKeeps == ASSUME Whole, ReadFile PROVE Whole'
<1>1. /\ size \in Nat /\ old \in Nat /\ sent \in Nat /\ got \in Nat
      /\ got <= sent /\ HeaderLen \in Nat /\ read_bytes \in 0..got
      /\ file_bytes \in Int
  BY Numbers
<1> HIDE DEF HeaderLen
<1>2. /\ client = "file"
      /\ UNCHANGED <<size, fname, old, serverVars>>
      /\ client' = client /\ words' = words
      /\ file_bytes' = file_bytes /\ wire' = wire
  BY DEF ReadFile
<1>3. PICK n : /\ n \in 1..Smaller(PacketSize, Unread)
               /\ got' = got + n
               /\ file' = Overwritten(n)
               /\ read_bytes' = read_bytes + n
  BY DEF ReadFile
<1>4. n \in Nat /\ n >= 1 /\ n <= sent - got
  BY <1>1, <1>3, LengthsAssumption DEF Smaller, Unread
<1>5. /\ file \in Seq((-old)..got)
      /\ Len(file) = IF read_bytes > old THEN read_bytes ELSE old
      /\ \A j \in 1..read_bytes : file[j] = got - read_bytes + j
      /\ words = "whole" => got = HeaderLen + read_bytes /\ file_bytes = size
  BY <1>2 DEF Whole, TypeOK, LastBytesRead, ClientPlace
<1>6. read_bytes <= Len(file)
  BY <1>1, <1>5
<1>7. /\ file' \in Seq((-old)..(got + n))
      /\ Len(file') = IF read_bytes + n > Len(file) THEN read_bytes + n ELSE Len(file)
      /\ \A j \in 1..read_bytes : file'[j] = file[j]
      /\ \A j \in (read_bytes + 1)..(read_bytes + n) :
            file'[j] = got + (j - read_bytes)
  BY <1>1, <1>3, <1>4, <1>5, <1>6, OverwrittenIs
<1>8. got' \in got..sent /\ read_bytes' \in 0..got'
  BY <1>1, <1>3, <1>4
<1>9. ClientPlace'
  <2>1. HeaderLen' = HeaderLen
    BY <1>2 DEF HeaderLen
  <2>2. words' = "whole" => got' = HeaderLen' + read_bytes' /\ file_bytes' = size'
    BY <1>1, <1>2, <1>3, <1>4, <1>5, <2>1
  <2>. QED
    BY <1>2, <2>2 DEF ClientPlace
<1>10. LastBytesRead'
  <2>1. Len(file') = IF read_bytes' > old' THEN read_bytes' ELSE old'
    BY <1>1, <1>2, <1>3, <1>4, <1>5, <1>7
  <2>2. ASSUME NEW j \in 1..(read_bytes + n)
        PROVE  file'[j] = (got + n) - (read_bytes + n) + j
    <3>1. CASE j \in 1..read_bytes
      <4>1. file'[j] = got - read_bytes + j
        BY <1>5, <1>7, <3>1
      <4>. QED
        BY <1>1, <1>4, <4>1
    <3>2. CASE j \in (read_bytes + 1)..(read_bytes + n)
      <4>1. file'[j] = got + (j - read_bytes)
        BY <1>7, <3>2
      <4>. QED
        BY <1>1, <1>4, <4>1
    <3>. QED
      BY <1>1, <1>4, <3>1, <3>2
  <2>3. \A j \in 1..read_bytes' : file'[j] = got' - read_bytes' + j
    <3> DEFINE m == read_bytes + n
    <3>1. read_bytes' = m /\ got' = got + n
      BY <1>3
    <3>2. \A j \in 1..m : file'[j] = (got + n) - m + j
      BY <2>2
    <3> HIDE DEF m
    <3>3. \A j \in 1..read_bytes' : file'[j] = (got + n) - m + j
      BY ONLY <3>1, <3>2
    <3>4. ASSUME NEW j \in 1..read_bytes'
          PROVE  file'[j] = got' - read_bytes' + j
      <4>1. file'[j] = (got + n) - m + j
        BY <3>3
      <4>. QED
        BY ONLY <3>1, <4>1, Zenon
    <3>. QED
      BY <3>4
  <2>. QED
    BY <2>1, <2>3 DEF LastBytesRead
<1>11. SavedIsAsset'
  BY <1>2 DEF SavedIsAsset
<1>12. /\ words' \in {"whole", "name cut", "size cut"}
       /\ wire' \in {"open", "fin", "fin reset", "reset"}
       /\ SizeBelieved'
       /\ client' \in {"status", "name", "size", "file"} \cup Over
       /\ file' \in Seq((-old)..got')
  BY <1>2, <1>3, <1>7, Fields, BeliefKept
<1>13. AsksNoMore'
  <2> SUFFICES ASSUME words # "name cut"
               PROVE  file_bytes - (read_bytes + n) <= HeaderLen + size - (got + n)
    <3>1. HeaderLen' = HeaderLen /\ size' = size
      BY <1>2 DEF HeaderLen
    <3>. QED
      BY <1>2, <1>3, <3>1 DEF AsksNoMore
  <2>1. file_bytes - read_bytes <= HeaderLen + size - got
    BY <1>2 DEF Whole, AsksNoMore
  <2>. QED
    BY ONLY <1>1, <1>4, <2>1
<1>. QED
  BY <1>2, <1>8, <1>9, <1>10, <1>11, <1>12, <1>13, ClientKeeps

LEMMA SaveKeeps == ASSUME Whole, Save PROVE Whole'
<1>1. /\ size \in Nat /\ old \in Nat /\ sent \in Nat /\ got \in Nat
      /\ got <= sent /\ HeaderLen \in Nat /\ read_bytes \in 0..got
      /\ file_bytes \in Int /\ sent <= HeaderLen + size + 1
  BY Numbers
<1> HIDE DEF HeaderLen
<1>2. /\ client = "file" /\ read_bytes >= file_bytes
      /\ UNCHANGED <<size, fname, old, serverVars>>
      /\ got' = got /\ words' = words
      /\ file_bytes' = file_bytes /\ read_bytes' = read_bytes
      /\ file' = IF file_bytes - read_bytes = -1 THEN Front(file) ELSE file
  BY DEF Save
<1>3. /\ client' = "saved"
      /\ wire' \in {"open", "fin", "fin reset", "reset"}
  BY CloseIs DEF Save, Over
<1>4. /\ file \in Seq((-old)..got)
      /\ Len(file) = IF read_bytes > old THEN read_bytes ELSE old
      /\ \A j \in 1..read_bytes : file[j] = got - read_bytes + j
      /\ words = "whole" => got = HeaderLen + read_bytes /\ file_bytes = size
  BY <1>2 DEF Whole, TypeOK, LastBytesRead, ClientPlace
<1> DEFINE cut == IF file_bytes - read_bytes = -1 THEN 1 ELSE 0
<1>5. /\ cut \in {0, 1}
      /\ cut = 1 <=> read_bytes = file_bytes + 1
  BY <1>1
<1>6. /\ file' \in Seq((-old)..got)
      /\ Len(file) >= cut => Len(file') = Len(file) - cut
      /\ \A j \in 1..(Len(file) - cut) : file'[j] = file[j]
  <2>1. CASE cut = 1
    <3>1. file' = Front(file)
      BY <1>2, <2>1
    <3>. QED
      BY <1>4, <2>1, <3>1, FrontIs
  <2>2. CASE cut = 0
    <3>1. file' = file
      BY <1>2, <2>2
    <3>2. Len(file) \in Nat
      BY <1>4, LenProperties
    <3>. QED
      BY <1>4, <2>2, <3>1, <3>2
  <2>. QED
    BY <1>5, <2>1, <2>2
<1> HIDE DEF cut
<1>7. SavedIsAsset'
  <2> SUFFICES ASSUME words = "whole"
               PROVE  /\ Len(file') >= size
                      /\ \A j \in 1 .. size : file'[j] = HeaderLen + j
                      /\ old <= size => Len(file') = size
    <3>1. HeaderLen' = HeaderLen
      BY <1>2 DEF HeaderLen
    <3>. QED
      BY <1>2, <3>1 DEF SavedIsAsset
  <2>1. got = HeaderLen + read_bytes /\ file_bytes = size
    BY <1>4
  <2>2. read_bytes - cut = size
    BY <1>1, <1>2, <1>5, <2>1
  <2>3. Len(file) \in Nat /\ Len(file) - cut >= size
    BY <1>1, <1>4, <1>5, <2>2
  <2>4. old <= size => Len(file) - cut = size
    BY <1>1, <1>4, <1>5, <2>2
  <2>5. ASSUME NEW j \in 1..size
        PROVE  file'[j] = HeaderLen + j
    <3>1. j \in 1..read_bytes /\ j \in 1..(Len(file) - cut)
      BY <1>1, <1>5, <2>2, <2>3
    <3>2. file'[j] = got - read_bytes + j
      BY <1>4, <1>6, <3>1
    <3>. QED
      BY <1>1, <2>1, <3>2
  <2>. QED
    BY <1>1, <1>5, <1>6, <2>3, <2>4, <2>5
<1>8. ClientPlace' /\ LastBytesRead'
  BY <1>3 DEF ClientPlace, LastBytesRead
<1>9. /\ words' \in {"whole", "name cut", "size cut"}
      /\ SizeBelieved'
      /\ client' \in {"status", "name", "size", "file"} \cup Over
      /\ file' \in Seq((-old)..got')
      /\ got' \in got..sent /\ read_bytes' \in 0..got'
  <2>1. got \in got..sent
    BY <1>1
  <2>. QED
    BY <1>1, <1>2, <1>3, <1>6, <2>1, Fields, BeliefKept DEF Over
<1>10. AsksNoMore'
  BY <1>3 DEF AsksNoMore
<1>. QED
  BY <1>2, <1>3, <1>7, <1>8, <1>9, <1>10, ClientKeeps

-----------------------------------------------------------------------------
(***************************************************************************)
(* The theorems.                                                           *)
(***************************************************************************)

LEMMA InitWhole == Init => Whole
<1> SUFFICES ASSUME Init PROVE Whole
  OBVIOUS
<1>1. /\ size \in FileSizes /\ size \in Nat /\ fname \in Names
      /\ old \in OldSizes /\ old \in Nat
      /\ HeaderLen \in Nat
  BY HeaderLength, SizesAssumption DEF Init
<1> HIDE DEF HeaderLen
<1>2. /\ server = "header" /\ sent = 0 /\ client = "status" /\ got = 0
      /\ words = "whole" /\ file_bytes = 0 /\ read_bytes = 0
      /\ file = OldFile /\ wire = "open"
  BY DEF Init
<1>3. OldFile \in Seq((-old)..0) /\ Len(OldFile) = old
  BY Zenon, <1>1, OldFileIs
<1> HIDE DEF OldFile
<1>4. TypeOK
  BY <1>1, <1>2, <1>3 DEF TypeOK
<1>5. ServerPlace /\ ClientPlace /\ LastBytesRead /\ SavedIsAsset /\ AsksNoMore
  BY <1>2 DEF ServerPlace, ClientPlace, LastBytesRead, SavedIsAsset, AsksNoMore
<1>. QED
  BY <1>4, <1>5 DEF Whole

LEMMA NextWhole == ASSUME Whole, [Next]_vars PROVE Whole'
<1>1. CASE send_tcp_file \/ FileFails \/ int_handler
  BY <1>1, ServerStep
<1>2. CASE ReadStatus
  BY <1>2, ReadStatusKeeps
<1>3. CASE ReadName
  BY <1>3, ReadNameKeeps
<1>4. CASE ReadSize
  BY <1>4, ReadSizeKeeps
<1>5. CASE ReadFile
  BY <1>5, ReadFileKeeps
<1>6. CASE Save
  BY <1>6, SaveKeeps
<1>7. CASE GiveUp \/ Kill
  BY <1>7, StopsKeep
<1>8. CASE UNCHANGED vars
  <2>1. /\ size' = size /\ fname' = fname /\ old' = old
        /\ server' = server /\ sent' = sent
        /\ client' = client /\ got' = got /\ words' = words
        /\ file_bytes' = file_bytes /\ read_bytes' = read_bytes
        /\ file' = file /\ wire' = wire
    BY <1>8 DEF vars
  <2>2. HeaderLen' = HeaderLen /\ OldFile' = OldFile
    BY <2>1 DEF HeaderLen, OldFile
  <2> HIDE DEF HeaderLen, OldFile
  <2>3. TypeOK'
    BY <2>1, <2>2 DEF Whole, TypeOK
  <2>4. ServerPlace' /\ ClientPlace'
    BY <2>1, <2>2 DEF Whole, ServerPlace, ClientPlace
  <2>5. LastBytesRead' /\ SavedIsAsset' /\ AsksNoMore'
    BY <2>1, <2>2 DEF Whole, LastBytesRead, SavedIsAsset, AsksNoMore
  <2>. QED
    BY <2>3, <2>4, <2>5 DEF Whole
<1>. QED
  BY <1>1, <1>2, <1>3, <1>4, <1>5, <1>6, <1>7, <1>8 DEF Next, transfer_file

\* Whatever the sizes and the name, each end of a download is where the bytes
\* that went through say: a client whose two words were whole believes in the
\* asset's size and has read the header and what its file holds, and one whose
\* name was cut believes a number of the name (send_tcp_file, transfer_file).
THEOREM Invariance == Spec => []Whole
<1>1. Init => Whole
  BY InitWhole
<1>2. Whole /\ [Next]_vars => Whole'
  BY NextWhole
<1>. QED
  BY <1>1, <1>2, PTL DEF Spec

\* The client reads no byte that was not sent and puts no more into its file
\* than it reads; it takes no size for more than the asset's when a timeout cuts
\* the size, and a number out of the name when one cuts the name (transfer_file).
THEOREM TypeCorrect == Spec => []TypeOK
<1>1. Whole => TypeOK
  BY DEF Whole
<1>. QED
  BY <1>1, Invariance, PTL

\* Unless a timeout cut the name, the loop over the file asks for no byte more
\* than the server means to send: with each read it comes closer to its end, and
\* cannot be left at the end of a stream that is complete (transfer_file).
THEOREM AskingNoMore == Spec => []AsksNoMore
<1>1. Whole => AsksNoMore
  BY DEF Whole
<1>. QED
  BY <1>1, Invariance, PTL

\* After "file saved as" and a header without a timeout, the file begins with
\* the asset and ends there unless an older one was longer (transfer_file).
THEOREM SavedFileIsAsset == Spec => []SavedIsAsset
<1>1. Whole => SavedIsAsset
  BY DEF Whole
<1>. QED
  BY <1>1, Invariance, PTL

=============================================================================
