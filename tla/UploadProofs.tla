---------------------------- MODULE UploadProofs ----------------------------
(***************************************************************************)
(* Proofs about Upload, for every set of file sizes, all lengths of the    *)
(* fields of the header, and all packet and buffer sizes.                  *)
(*                                                                         *)
(* The steps of the client and Store, the one place where the asset grows, *)
(* have a lemma each; Invariance puts them together.                       *)
(***************************************************************************)
EXTENDS Upload, FiniteSetTheorems, SequenceTheorems, TLAPS

-----------------------------------------------------------------------------
(***************************************************************************)
(* The header and the bytes of the file.                                   *)
(***************************************************************************)

\* The header is longer than everything before its last field (opa_req).
LEMMA HeaderLength ==
    ASSUME size \in FileSizes
    PROVE  /\ size \in Nat
           /\ FsizeAt \in Nat
           /\ HeaderLen \in Nat
           /\ HeaderLen >= FsizeAt + 2
           /\ HeaderLen >= 1
<1> DEFINE D == {d \in 1..7 : size >= 10^d}
<1>1. IsFiniteSet(D)
  <2>1. IsFiniteSet(1..7)
    <3>1. 1 \in Int /\ 7 \in Int
      OBVIOUS
    <3>. QED
      BY ONLY <3>1, FS_Interval
  <2>2. D \subseteq 1..7
    OBVIOUS
  <2>. QED
    BY <2>1, <2>2, FS_Subset
<1>2. Cardinality(D) \in Nat
  BY <1>1, FS_CardinalityType
<1>3. FsizeLen(size) \in Nat /\ FsizeLen(size) >= 1
  <2>1. FsizeLen(size) = 1 + Cardinality(D)
    BY Zenon DEF FsizeLen
  <2>. QED
    BY <1>2, <2>1
<1>4. FsizeAt \in Nat
  BY FieldsAssumption DEF FsizeAt, FnameAt, ActiveAt
<1>. QED
  BY <1>3, <1>4, SizesAssumption DEF HeaderLen

\* A part of the file is a sequence of its positions, in order.
LEMMA FileBytesAre ==
    ASSUME NEW n \in Nat, NEW a \in Nat, NEW b \in Nat, a <= b, b <= n
    PROVE  /\ FileBytes(a, b) \in Seq(1..n)
           /\ Len(FileBytes(a, b)) = b - a
           /\ \A j \in 1..(b - a) : FileBytes(a, b)[j] = a + j
<1>1. FileBytes(a, b) \in [1..(b - a) -> 1..n]
  BY DEF FileBytes
<1>2. b - a \in Nat
  OBVIOUS
<1>3. FileBytes(a, b) \in Seq(1..n)
  BY <1>1, <1>2
<1>4. DOMAIN FileBytes(a, b) = 1..(b - a)
  BY DEF FileBytes
<1>5. Len(FileBytes(a, b)) = b - a
  BY <1>2, <1>3, <1>4, LenProperties
<1>. QED
  BY <1>3, <1>5 DEF FileBytes

\* The first bytes of the file are numbered from 1.
LEMMA FilePrefix ==
    ASSUME NEW n \in Nat, NEW b \in 0..n
    PROVE  /\ FileBytes(0, b) \in Seq(1..n)
           /\ Len(FileBytes(0, b)) = b
           /\ \A j \in 1..b : FileBytes(0, b)[j] = j
<1>1. n \in Nat /\ 0 \in Nat /\ b \in Nat /\ 0 <= b /\ b <= n
  OBVIOUS
<1>2. /\ FileBytes(0, b) \in Seq(1..n)
      /\ Len(FileBytes(0, b)) = b - 0
      /\ \A j \in 1..(b - 0) : FileBytes(0, b)[j] = 0 + j
  BY ONLY <1>1, FileBytesAre
<1>. QED
  BY <1>2

\* Two parts of the file that meet make one part.
LEMMA FileBytesJoin ==
    ASSUME NEW n \in Nat, NEW b \in 0..n, NEW a \in 0..b
    PROVE  FileBytes(0, a) \o FileBytes(a, b) = FileBytes(0, b)
<1> DEFINE s == FileBytes(0, a)
           t == FileBytes(a, b)
           u == FileBytes(0, b)
<1>1. s \in Seq(1..n) /\ Len(s) = a /\ \A j \in 1..a : s[j] = j
  BY FilePrefix
<1>2. t \in Seq(1..n) /\ Len(t) = b - a /\ \A j \in 1..(b - a) : t[j] = a + j
  BY FileBytesAre
<1>3. u \in Seq(1..n) /\ Len(u) = b /\ \A j \in 1..b : u[j] = j
  BY FilePrefix
<1> HIDE DEF s, t, u
<1>4. /\ s \o t \in Seq(1..n)
      /\ Len(s \o t) = b
      /\ \A j \in 1..b : (s \o t)[j] = IF j <= a THEN s[j] ELSE t[j - a]
  <2>1. Len(s) + Len(t) = b
    BY <1>1, <1>2
  <2>. QED
    BY <1>1, <1>2, <2>1, ConcatProperties
<1>5. ASSUME NEW j \in 1..b
      PROVE  (s \o t)[j] = u[j]
  <2>1. CASE j <= a
    BY <1>1, <1>3, <1>4, <2>1
  <2>2. CASE j > a
    <3>1. j - a \in 1..(b - a)
      BY <2>2
    <3>2. t[j - a] = a + (j - a)
      BY <1>2, <3>1
    <3>3. (s \o t)[j] = t[j - a] /\ u[j] = j
      BY <1>3, <1>4, <2>2
    <3>4. a + (j - a) = j
      OBVIOUS
    <3>. QED
      BY ONLY <3>2, <3>3, <3>4
  <2>3. j <= a \/ j > a
    OBVIOUS
  <2>. QED
    BY ONLY <2>1, <2>2, <2>3
<1>6. s \o t = u
  BY <1>3, <1>4, <1>5, SeqEqual
<1>. QED
  BY <1>6 DEF s, t, u

\* A part of the file without its last byte is the part that ends before it.
LEMMA FileBytesFront ==
    ASSUME NEW n \in Nat, NEW b \in 1..n
    PROVE  SubSeq(FileBytes(0, b), 1, b - 1) = FileBytes(0, b - 1)
<1> DEFINE s == FileBytes(0, b)
           t == FileBytes(0, b - 1)
<1>1. s \in Seq(1..n) /\ Len(s) = b /\ \A j \in 1..b : s[j] = j
  BY FilePrefix
<1>2. t \in Seq(1..n) /\ Len(t) = b - 1 /\ \A j \in 1..(b - 1) : t[j] = j
  BY FilePrefix
<1> HIDE DEF s, t
<1>3. /\ SubSeq(s, 1, b - 1) \in Seq(1..n)
      /\ Len(SubSeq(s, 1, b - 1)) = b - 1
      /\ \A j \in 1..(b - 1) : SubSeq(s, 1, b - 1)[j] = s[j]
  <2>1. \A j \in 1..(b - 1) : s[j] \in 1..n
    BY <1>1
  <2>2. /\ SubSeq(s, 1, b - 1) \in Seq(1..n)
        /\ Len(SubSeq(s, 1, b - 1)) = IF 1 <= b - 1 THEN b - 1 - 1 + 1 ELSE 0
        /\ \A j \in 1..(b - 1 - 1 + 1) : SubSeq(s, 1, b - 1)[j] = s[1 + j - 1]
    <3>1. 1 \in Int /\ b - 1 \in Int
      OBVIOUS
    <3>. QED
      BY <2>1, <3>1, SubSeqProperties
  <2>. QED
    BY <2>2
<1>4. SubSeq(s, 1, b - 1) = t
  BY <1>1, <1>2, <1>3, SeqEqual
<1>. QED
  BY <1>4 DEF s, t

\* Bytes of the file that come with the header (n of the last read beyond the
\* i of the header) come with a whole header, and then its size is the file's.
LEMMA HeaderAccepted ==
    ASSUME size \in FileSizes, NEW k \in Nat, NEW n \in Nat, n <= k,
           parse_opa(k) > 0, n >= parse_opa(k)
    PROVE  /\ parse_opa(k) = HeaderLen
           /\ HeaderLen <= n
           /\ DeclaredSize(k) = size
<1>1. k > FsizeAt
  BY DEF parse_opa, Incomplete, SegFault
<1>2. parse_opa(k) = Smaller(k + 1, HeaderLen)
  BY <1>1 DEF parse_opa
<1>3. parse_opa(k) = HeaderLen
  BY <1>2, HeaderLength DEF Smaller
<1>4. ~(k < HeaderLen - 1)
  BY <1>3, HeaderLength
<1>. QED
  BY <1>3, <1>4 DEF DeclaredSize

-----------------------------------------------------------------------------
(***************************************************************************)
(* Store.                                                                  *)
(***************************************************************************)

\* Appending the bytes after the a-th up to the b-th to an asset whose bytes
\* are among the first a keeps it in order and the count of what is missing
\* right, and ends the upload only when b covers the file (receive_tcp).
LEMMA StoreKeepsOrder ==
    ASSUME size \in FileSizes,
           NEW a \in Nat, NEW b \in Nat, a < b, b <= size + 1,
           asset \in Seq(1..(size + 1)),
           AssetInOrder,
           Len(asset) <= a,
           \A j \in DOMAIN asset : asset[j] <= a,
           Store(FileBytes(a, b), size - Len(asset))
    PROVE  /\ asset' \in Seq(1..(size + 1))
           /\ AssetInOrder'
           /\ Len(asset') <= b
           /\ \A j \in DOMAIN asset' : asset'[j] <= b
           /\ \/ /\ server' = "file"
                 /\ remaining' = size - Len(asset')
                 /\ UNCHANGED <<answer, reset>>
              \/ /\ server' = "closed"
                 /\ remaining' = 0
                 /\ answer' = "OK"
                 /\ size <= b
                 /\ reset' = (reset \/ taken' < written)
<1> DEFINE new == FileBytes(a, b)
           all == asset \o new
           L == Len(asset)
           N == L + (b - a)
           rest == size - L - (b - a)
<1>1. size \in Nat /\ size + 1 \in Nat
  BY HeaderLength
<1>2. new \in Seq(1..(size + 1)) /\ Len(new) = b - a /\ \A j \in 1..(b - a) : new[j] = a + j
  BY <1>1, FileBytesAre
<1>3. L \in Nat /\ DOMAIN asset = 1..L /\ \A j \in 1..L : asset[j] \in 1..(size + 1)
  BY LenProperties
<1>4. /\ all \in Seq(1..(size + 1))
      /\ Len(all) = N
      /\ \A j \in 1..N : all[j] = IF j <= L THEN asset[j] ELSE new[j - L]
  <2>1. asset \in Seq(1..(size + 1)) /\ new \in Seq(1..(size + 1))
    BY <1>2
  <2>2. /\ all \in Seq(1..(size + 1))
        /\ Len(all) = L + Len(new)
        /\ \A j \in 1..(L + Len(new)) : all[j] = IF j <= L THEN asset[j] ELSE new[j - L]
    BY ONLY <2>1, ConcatProperties
  <2>3. L + Len(new) = N
    BY <1>2
  <2>. QED
    BY ONLY <2>2, <2>3
<1>5. /\ asset' = IF rest = -1 THEN SubSeq(all, 1, N - 1) ELSE all
      /\ \/ rest < 1 /\ send_tcp("OK")
         \/ rest >= 1 /\ server' = "file" /\ remaining' = rest /\ UNCHANGED <<answer, reset>>
  BY <1>2 DEF Store
<1> HIDE DEF new, all
<1>6. \A j \in 1..N : j > L => all[j] = a + (j - L) /\ all[j] <= b /\ all[j] \in Int
  <2>1. ASSUME NEW j \in 1..N, j > L
        PROVE  all[j] = a + (j - L) /\ all[j] <= b /\ all[j] \in Int
    <3>1. j - L \in 1..(b - a)
      BY <1>3, <2>1
    <3>2. all[j] = new[j - L]
      BY <1>3, <1>4, <2>1
    <3>3. new[j - L] = a + (j - L)
      BY <1>2, <3>1
    <3>. QED
      BY <1>3, <3>1, <3>2, <3>3
  <2>. QED
    BY <2>1
<1>7. \A j \in 1..N : j <= L => all[j] = asset[j] /\ all[j] <= a /\ all[j] \in Int
  <2>1. ASSUME NEW j \in 1..N, j <= L
        PROVE  all[j] = asset[j] /\ all[j] <= a /\ all[j] \in Int
    <3>1. j \in 1..L
      BY <1>3, <2>1
    <3>2. asset[j] <= a /\ asset[j] \in Int
      BY <1>1, <1>3, <3>1
    <3>3. all[j] = asset[j]
      BY <1>4, <2>1
    <3>. QED
      BY <3>2, <3>3
  <2>. QED
    BY <2>1
<1>8. \A j \in 1..N : all[j] <= b
  BY <1>3, <1>6, <1>7
<1>9. \A i, j \in 1..N : i < j => all[i] < all[j]
  <2>1. SUFFICES ASSUME NEW i \in 1..N, NEW j \in 1..N, i < j
                 PROVE  all[i] < all[j]
    OBVIOUS
  <2>2. CASE j <= L
    <3>1. asset[i] < asset[j]
      BY <1>3, <2>1, <2>2 DEF AssetInOrder
    <3>. QED
      BY <1>3, <1>7, <2>1, <2>2, <3>1
  <2>3. CASE i <= L /\ j > L
    BY <1>3, <1>6, <1>7, <2>3
  <2>4. CASE i > L
    BY <1>3, <1>6, <2>1, <2>4
  <2>. QED
    BY <1>3, <2>1, <2>2, <2>3, <2>4
<1>10. N \in Nat /\ N >= 1 /\ N <= b
  BY <1>3
<1>11. CASE rest = -1
  <2>1. /\ SubSeq(all, 1, N - 1) \in Seq(1..(size + 1))
        /\ Len(SubSeq(all, 1, N - 1)) = N - 1
        /\ \A j \in 1..(N - 1) : SubSeq(all, 1, N - 1)[j] = all[j]
    <3>1. \A j \in 1..(N - 1) : all[j] \in 1..(size + 1)
      <4>1. all \in [1..N -> 1..(size + 1)]
        BY <1>4, LenProperties
      <4>2. 1..(N - 1) \subseteq 1..N
        BY <1>10
      <4>. QED
        BY ONLY <4>1, <4>2
    <3>2. 1 \in Int /\ N - 1 \in Int
      BY <1>10
    <3>3. /\ SubSeq(all, 1, N - 1) \in Seq(1..(size + 1))
          /\ Len(SubSeq(all, 1, N - 1)) = IF 1 <= N - 1 THEN N - 1 - 1 + 1 ELSE 0
          /\ \A j \in 1..(N - 1 - 1 + 1) : SubSeq(all, 1, N - 1)[j] = all[1 + j - 1]
      BY ONLY <3>1, <3>2, SubSeqProperties
    <3>. QED
      BY <1>10, <3>3
  <2>2. asset' = SubSeq(all, 1, N - 1)
    BY <1>5, <1>11
  <2>3. DOMAIN asset' = 1..(N - 1)
    BY <2>1, <2>2, LenProperties
  <2>4. AssetInOrder'
    <3>1. \A j \in DOMAIN asset' : j \in 1..N /\ asset'[j] = all[j]
      BY <1>10, <2>1, <2>2, <2>3
    <3>. QED
      BY ONLY <1>9, <3>1 DEF AssetInOrder
  <2>5. \A j \in DOMAIN asset' : asset'[j] <= b
    BY <1>8, <1>10, <2>1, <2>2, <2>3
  <2>6. size <= b
    BY <1>1, <1>3, <1>11
  <2>7. send_tcp("OK")
    BY <1>5, <1>11
  <2>. QED
    BY <1>10, <2>1, <2>2, <2>4, <2>5, <2>6, <2>7 DEF send_tcp
<1>12. CASE rest # -1
  <2>1. asset' = all
    BY <1>5, <1>12
  <2>2. DOMAIN asset' = 1..N
    BY <1>4, <2>1, LenProperties
  <2>3. AssetInOrder'
    BY <1>9, <2>1, <2>2 DEF AssetInOrder
  <2>4. \A j \in DOMAIN asset' : asset'[j] <= b
    BY <1>8, <2>1, <2>2
  <2>5. CASE rest < 1 /\ send_tcp("OK")
    <3>1. size <= b
      BY <1>1, <1>3, <2>5
    <3>. QED
      BY <1>4, <1>10, <2>1, <2>3, <2>4, <2>5, <3>1 DEF send_tcp
  <2>6. CASE rest >= 1 /\ server' = "file" /\ remaining' = rest /\ UNCHANGED <<answer, reset>>
    <3>1. remaining' = size - Len(asset')
      <4>1. Len(asset') = N
        BY <1>4, <2>1
      <4>2. rest = size - N
        BY <1>1, <1>3
      <4>. QED
        BY <2>6, <4>1, <4>2
    <3>. QED
      BY <1>4, <1>10, <2>1, <2>3, <2>4, <2>6, <3>1
  <2>. QED
    BY <1>5, <2>5, <2>6
<1>. QED
  BY <1>11, <1>12

\* An asset that is all that came so far stays so, and is the file in the end.
LEMMA StoreKeepsWhole ==
    ASSUME size \in FileSizes,
           NEW a \in Nat, NEW b \in Nat, a < b, b <= size + 1,
           asset = FileBytes(0, a),
           Store(FileBytes(a, b), size - Len(asset))
    PROVE  /\ server' = "file" => asset' = FileBytes(0, b)
           /\ server' = "closed" => asset' = FileBytes(0, size)
<1>1. size \in Nat /\ size + 1 \in Nat
  BY HeaderLength
<1>2. a \in 0..b /\ b \in 0..(size + 1) /\ b \in 1..(size + 1) /\ a \in 0..(size + 1)
  BY <1>1
<1>3. Len(asset) = a
  BY <1>1, <1>2, FilePrefix
<1>4. Len(FileBytes(a, b)) = b - a
  BY <1>1, FileBytesAre
<1>5. asset \o FileBytes(a, b) = FileBytes(0, b)
  BY <1>1, <1>2, FileBytesJoin
<1>6. /\ asset' = IF size - b = -1 THEN SubSeq(FileBytes(0, b), 1, b - 1) ELSE FileBytes(0, b)
      /\ \/ size - b < 1 /\ send_tcp("OK")
         \/ size - b >= 1 /\ server' = "file"
  <2>1. size - Len(asset) - Len(FileBytes(a, b)) = size - b
    BY <1>1, <1>3, <1>4
  <2>2. Len(asset) + Len(FileBytes(a, b)) - 1 = b - 1
    BY <1>3, <1>4
  <2>. QED
    BY <1>5, <2>1, <2>2 DEF Store
<1>7. CASE size - b = -1
  <2>1. SubSeq(FileBytes(0, b), 1, b - 1) = FileBytes(0, b - 1)
    BY <1>1, <1>2, FileBytesFront
  <2>2. b - 1 = size
    BY <1>1, <1>7
  <2>. QED
    BY <1>1, <1>6, <1>7, <2>1, <2>2 DEF send_tcp
<1>8. CASE size - b # -1
  <2>1. asset' = FileBytes(0, b)
    BY <1>6, <1>8
  <2>2. size - b < 1 => b = size
    BY <1>1, <1>8
  <2>3. server' = "closed" => size - b < 1
    BY <1>6
  <2>. QED
    BY <2>1, <2>2, <2>3
<1>. QED
  BY <1>7, <1>8

-----------------------------------------------------------------------------
(***************************************************************************)
(* The invariant.                                                          *)
(***************************************************************************)

\* The counters are numbers, and no more is read than was written.
LEMMA Counters ==
    ASSUME TypeOK
    PROVE  /\ size \in FileSizes /\ size \in Nat
           /\ HeaderLen \in Nat
           /\ written \in Nat /\ written <= HeaderLen + size + 1
           /\ taken \in Nat /\ taken <= written
           /\ remaining \in Int
           /\ reset \in BOOLEAN
<1>1. size \in FileSizes
  BY DEF TypeOK
<1>2. size \in Nat /\ HeaderLen \in Nat
  BY <1>1, HeaderLength
<1>. QED
  BY <1>1, <1>2 DEF TypeOK

\* A connection starts with nothing written, read or stored.
LEMMA InitInv == Init => Inv /\ WholeInv
<1>. SUFFICES ASSUME Init
              PROVE  Inv /\ WholeInv
  OBVIOUS
<1>1. TypeOK
  <2>1. <<>> \in Seq(1..(size + 1))
    BY EmptySeq
  <2>2. size \in FileSizes /\ size \in Nat /\ HeaderLen \in Nat
    BY HeaderLength DEF Init
  <2>3. written \in 0..(HeaderLen + size + 1) /\ taken \in 0..written /\ remaining \in Int
    BY <2>2 DEF Init
  <2>. QED
    BY <2>1, <2>2, <2>3 DEF Init, TypeOK
<1>2. WritesInOrder
  BY HeaderLength DEF Init, WritesInOrder
<1>3. AssetInOrder
  BY DEF Init, AssetInOrder
<1>. QED
  BY <1>1, <1>2, <1>3
     DEF Init, Inv, WholeInv, NothingBeforeHeader, RemainingIsMissing, StoredWasRead,
         OkMeansAllRead, StoredIsWhatWasRead, OkMeansWholeFile, AnswerTellsOutcome,
         ServerSurvives, NoAnswer

\* A write of the client changes nothing the server has.
LEMMA WriteKeeps ==
    ASSUME Inv, size' = size, UNCHANGED serverVars,
           written' \in written..(HeaderLen + size + 1),
           client' \in {"writing", "reading", "opened", "failed", "killed"},
           client' = "writing" => written' <= HeaderLen + size,
           reset' \in BOOLEAN
    PROVE  Inv'
<1>1. HeaderLen' = HeaderLen
  BY DEF HeaderLen
<1>2. size \in FileSizes /\ size \in Nat /\ HeaderLen \in Nat
  BY HeaderLength DEF Inv, TypeOK
<1>3. TypeOK'
  BY <1>1, <1>2 DEF Inv, TypeOK, serverVars
<1>4. WritesInOrder'
  BY <1>1 DEF WritesInOrder
<1>5. /\ NothingBeforeHeader'
      /\ RemainingIsMissing'
      /\ StoredWasRead'
      /\ AssetInOrder'
      /\ OkMeansAllRead'
  BY <1>1 DEF Inv, NothingBeforeHeader, RemainingIsMissing, StoredWasRead, AssetInOrder,
              OkMeansAllRead, serverVars
<1>. QED
  BY <1>3, <1>4, <1>5 DEF Inv

\* A write goes on with all its bytes, or ends with none.
LEMMA WriteDoes ==
    ASSUME NEW n, NEW onSuccess, NEW onError, reset \in BOOLEAN,
           Write(n, onSuccess, onError)
    PROVE  /\ reset' \in BOOLEAN
           /\ \/ written' = written + n /\ client' = onSuccess
              \/ written' = written /\ client' \in {"killed", onError}
BY DEF Write, Listening

\* The steps of send_file keep the invariant.
LEMMA ClientKeeps == Inv /\ (ClientStep \/ GiveUp) => Inv'
<1>. SUFFICES ASSUME Inv, ClientStep \/ GiveUp
              PROVE  Inv'
  OBVIOUS
<1>1. /\ size \in Nat /\ HeaderLen \in Nat
      /\ written \in 0..(HeaderLen + size + 1)
      /\ reset \in BOOLEAN
      /\ HeaderLen >= 1
  BY HeaderLength DEF Inv, TypeOK
<1>3. CASE WriteHeader
  <2>1. /\ reset' \in BOOLEAN
        /\ \/ written' = written + HeaderLen /\ client' = "writing"
           \/ written' = written /\ client' \in {"killed", "failed"}
    BY <1>1, <1>3, WriteDoes DEF WriteHeader
  <2>2. written = 0 /\ size' = size /\ UNCHANGED serverVars
    BY <1>3 DEF WriteHeader
  <2>. QED
    BY <1>1, <2>1, <2>2, WriteKeeps
<1>4. CASE WriteChunk
  <2> DEFINE k == Smaller(PacketSize, HeaderLen + size - written)
  <2>1. /\ k \in Nat
        /\ written + k <= HeaderLen + size
    BY <1>1, <1>4, PacketAssumption DEF WriteChunk, Smaller
  <2>2. /\ reset' \in BOOLEAN
        /\ \/ written' = written + k /\ client' = "writing"
           \/ written' = written /\ client' \in {"killed", "failed"}
    BY <1>1, <1>4, WriteDoes DEF WriteChunk
  <2>3. size' = size /\ UNCHANGED serverVars
    BY <1>4 DEF WriteChunk
  <2> HIDE DEF k
  <2>. QED
    BY <1>1, <2>1, <2>2, <2>3, WriteKeeps
<1>5. CASE WriteNewline
  <2>1. /\ reset' \in BOOLEAN
        /\ \/ written' = written + 1 /\ client' = "reading"
           \/ written' = written /\ client' \in {"killed", "reading"}
    BY <1>1, <1>5, WriteDoes DEF WriteNewline
  <2>2. written = HeaderLen + size /\ size' = size /\ UNCHANGED serverVars
    BY <1>5 DEF WriteNewline
  <2>. QED
    BY <1>1, <2>1, <2>2, WriteKeeps
<1>6. CASE ReadAnswer
  <2>1. client' \in {"opened", "failed"}
    BY <1>6 DEF ReadAnswer, opa_res
  <2>. QED
    BY <1>1, <1>6, <2>1, WriteKeeps DEF ReadAnswer
<1>7. CASE GiveUp
  BY <1>1, <1>7, WriteKeeps DEF GiveUp
<1>. QED
  BY <1>3, <1>4, <1>5, <1>6, <1>7 DEF ClientStep

\* What both kinds of reads have in common: they move taken and not the
\* client, and an asset that is new has been read.
LEMMA ReadKeeps ==
    ASSUME Inv, size' = size, UNCHANGED clientVars,
           taken' \in taken..written,
           server' \in {"header", "file", "closed", "crashed"},
           remaining' \in Int,
           asset' \in Seq(1..(size + 1)),
           opened' \in BOOLEAN,
           answer' \in {NoAnswer, "OK"} \cup Refusals,
           reset' \in BOOLEAN,
           NothingBeforeHeader',
           RemainingIsMissing',
           StoredWasRead',
           AssetInOrder',
           OkMeansAllRead'
    PROVE  Inv'
<1>1. HeaderLen' = HeaderLen
  BY DEF HeaderLen
<1>2. size \in FileSizes /\ size \in Nat /\ HeaderLen \in Nat
  BY HeaderLength DEF Inv, TypeOK
<1>3. TypeOK'
  BY <1>1, <1>2 DEF Inv, TypeOK, clientVars
<1>4. WritesInOrder'
  BY <1>1 DEF Inv, WritesInOrder, clientVars
<1>. QED
  BY <1>3, <1>4 DEF Inv

\* The bytes b of the file that a read has stored keep the invariant.
LEMMA StoreKeepsInv ==
    ASSUME Inv, size' = size, UNCHANGED clientVars,
           NEW t \in taken..written, taken' = t,
           opened' = TRUE,
           answer = NoAnswer,
           NEW a \in Nat, NEW b \in Nat, a < b, b <= t - HeaderLen,
           Len(asset) <= a,
           \A j \in DOMAIN asset : asset[j] <= a,
           Store(FileBytes(a, b), size - Len(asset))
    PROVE  Inv'
<1>1. HeaderLen' = HeaderLen
  BY DEF HeaderLen
<1>2. /\ size \in FileSizes /\ size \in Nat /\ HeaderLen \in Nat
      /\ asset \in Seq(1..(size + 1)) /\ reset \in BOOLEAN
      /\ AssetInOrder
  BY Counters DEF Inv, TypeOK
<1>3. t \in Nat /\ b <= size + 1
  <2>1. /\ taken \in Nat /\ written \in Nat /\ written <= HeaderLen + size + 1
    BY Counters DEF Inv
  <2>2. t \in Nat /\ t <= written
    BY <2>1
  <2>. QED
    BY ONLY <1>2, <2>1, <2>2, b \in Nat, b <= t - HeaderLen
<1>4. /\ asset' \in Seq(1..(size + 1))
      /\ AssetInOrder'
      /\ Len(asset') <= b
      /\ \A j \in DOMAIN asset' : asset'[j] <= b
      /\ \/ /\ server' = "file"
            /\ remaining' = size - Len(asset')
            /\ UNCHANGED <<answer, reset>>
         \/ /\ server' = "closed"
            /\ remaining' = 0
            /\ answer' = "OK"
            /\ size <= b
            /\ reset' = (reset \/ taken' < written)
  BY <1>2, <1>3, StoreKeepsOrder
<1>5. /\ Len(asset') \in Nat
      /\ DOMAIN asset' = 1..Len(asset')
      /\ \A j \in 1..Len(asset') : asset'[j] \in Int
  <2>1. asset' \in [1..Len(asset') -> 1..(size + 1)] /\ Len(asset') \in Nat
    BY <1>4, LenProperties
  <2>. QED
    BY <1>2, <2>1
<1>6. StoredWasRead'
  <2>1. Len(asset') <= t - HeaderLen
    BY ONLY <1>2, <1>3, <1>4, <1>5, b \in Nat, b <= t - HeaderLen
  <2>2. ASSUME NEW j \in DOMAIN asset'
        PROVE  asset'[j] <= t - HeaderLen
    <3>1. asset'[j] \in Int /\ asset'[j] <= b
      BY <1>4, <1>5
    <3>. QED
      BY ONLY <1>2, <1>3, <3>1, b \in Nat, b <= t - HeaderLen
  <2>. QED
    BY <1>1, <2>1, <2>2 DEF StoredWasRead
<1>7. CASE server' = "file" /\ remaining' = size - Len(asset') /\ UNCHANGED <<answer, reset>>
  <2>1. NothingBeforeHeader' /\ OkMeansAllRead'
    BY <1>7 DEF NothingBeforeHeader, OkMeansAllRead, NoAnswer
  <2>2. RemainingIsMissing'
    <3>1. t >= HeaderLen
      BY ONLY <1>2, <1>3, a \in Nat, b \in Nat, a < b, b <= t - HeaderLen
    <3>2. answer' = NoAnswer
      BY <1>7
    <3>. QED
      BY <1>1, <1>7, <3>1, <3>2 DEF RemainingIsMissing
  <2>3. remaining' \in Int /\ reset' \in BOOLEAN /\ answer' = NoAnswer
    BY <1>2, <1>5, <1>7
  <2>. QED
    BY <1>4, <1>6, <1>7, <2>1, <2>2, <2>3, ReadKeeps
<1>8. CASE /\ server' = "closed" /\ remaining' = 0 /\ answer' = "OK" /\ size <= b
           /\ reset' = (reset \/ taken' < written)
  <2>1. NothingBeforeHeader' /\ RemainingIsMissing'
    BY <1>8 DEF NothingBeforeHeader, RemainingIsMissing
  <2>2. OkMeansAllRead'
    <3>1. t >= HeaderLen + size
      BY ONLY <1>2, <1>3, <1>8, b \in Nat, b <= t - HeaderLen
    <3>. QED
      BY <1>1, <3>1 DEF OkMeansAllRead
  <2>3. reset' \in BOOLEAN
    BY <1>8
  <2>. QED
    BY <1>4, <1>6, <1>8, <2>1, <2>2, <2>3, ReadKeeps
<1>. QED
  BY <1>4, <1>7, <1>8

\* A read of the header, and what treat_request and prepare_freceive make of
\* it, keeps the invariant.
LEMMA ReceiveHeaderKeeps == Inv /\ (\E n \in Nat : ReceiveHeader(n)) => Inv'
<1>. SUFFICES ASSUME Inv, NEW n \in Nat, ReceiveHeader(n)
              PROVE  Inv'
  OBVIOUS
<1> DEFINE t == taken + n
           i == parse_opa(t)
<1>1. /\ size \in FileSizes /\ size \in Nat /\ HeaderLen \in Nat
      /\ written \in Nat /\ taken \in Nat
      /\ remaining \in Int /\ reset \in BOOLEAN
  BY Counters DEF Inv
<1>2. /\ size' = size /\ UNCHANGED clientVars
      /\ server = "header" /\ asset = <<>> /\ answer = NoAnswer /\ ~opened
      /\ taken' = t /\ n >= 1 /\ t <= written
  <2>1. /\ size' = size /\ UNCHANGED clientVars /\ server = "header"
        /\ taken' = taken + n
        /\ n \in 1..Smaller(BufferSize - taken, written - taken)
    BY DEF ReceiveHeader
  <2>2. Smaller(BufferSize - taken, written - taken) <= written - taken
    BY <1>1, BufferAssumption DEF Smaller
  <2>3. Smaller(BufferSize - taken, written - taken) \in Int
    BY <1>1, BufferAssumption DEF Smaller
  <2>4. n >= 1 /\ taken + n <= written
    BY ONLY <1>1, <2>1, <2>2, <2>3
  <2>. QED
    BY <2>1, <2>4 DEF Inv, NothingBeforeHeader
<1>3. t \in taken..written /\ t \in Nat /\ n <= t
  BY <1>1, <1>2
<1>4. HeaderLen' = HeaderLen
  BY <1>2 DEF HeaderLen
<1>5. <<>> \in Seq(1..(size + 1)) /\ Len(<<>>) = 0 /\ DOMAIN <<>> = {}
  BY EmptySeq
<1>6. ASSUME asset' = <<>>
      PROVE  /\ asset' \in Seq(1..(size + 1)) /\ AssetInOrder' /\ StoredWasRead'
             /\ Len(asset') = 0
  BY <1>5, <1>6 DEF AssetInOrder, StoredWasRead
<1>7. ASSUME NEW status \in Refusals, send_tcp(status), asset' = <<>>, opened' \in BOOLEAN
      PROVE  Inv'
  <2>1. /\ server' = "closed" /\ remaining' = 0 /\ answer' \in Refusals
        /\ reset' \in BOOLEAN
    BY <1>7 DEF send_tcp
  <2>2. answer' # "OK"
    BY <2>1 DEF Refusals
  <2>3. NothingBeforeHeader' /\ RemainingIsMissing' /\ OkMeansAllRead'
    BY <2>1, <2>2 DEF NothingBeforeHeader, RemainingIsMissing, OkMeansAllRead
  <2>. QED
    BY <1>2, <1>3, <1>6, <1>7, <2>1, <2>3, ReadKeeps
<1>8. CASE i = Incomplete /\ UNCHANGED <<server, remaining, asset, opened, answer, reset>>
  <2>1. NothingBeforeHeader' /\ RemainingIsMissing' /\ OkMeansAllRead'
    BY <1>2, <1>8 DEF NothingBeforeHeader, RemainingIsMissing, OkMeansAllRead, NoAnswer
  <2>2. opened' \in BOOLEAN /\ asset' = <<>> /\ answer' = NoAnswer
    BY <1>2, <1>8 DEF Inv, TypeOK
  <2>. QED
    BY <1>1, <1>2, <1>3, <1>6, <1>8, <2>1, <2>2, ReadKeeps
<1>9. CASE /\ server' = "crashed" /\ reset' = (taken' < written)
           /\ UNCHANGED <<remaining, asset, opened, answer>>
  <2>1. NothingBeforeHeader' /\ RemainingIsMissing' /\ OkMeansAllRead'
    BY <1>2, <1>9 DEF NothingBeforeHeader, RemainingIsMissing, OkMeansAllRead, NoAnswer
  <2>2. opened' \in BOOLEAN /\ asset' = <<>> /\ answer' = NoAnswer /\ reset' \in BOOLEAN
    BY <1>2, <1>9 DEF Inv, TypeOK
  <2>. QED
    BY <1>1, <1>2, <1>3, <1>6, <1>9, <2>1, <2>2, ReadKeeps
<1>10. CASE i > 0 /\ treat_request(n, i)
  <2>1. CASE (\E status \in Refusals : send_tcp(status)) /\ UNCHANGED <<asset, opened>>
    <3>1. opened' \in BOOLEAN /\ asset' = <<>>
      BY <1>2, <2>1 DEF Inv, TypeOK
    <3>. QED
      BY <1>7, <2>1, <3>1
  <2>2. CASE opened' = TRUE /\ n < i /\ send_tcp("ERR") /\ UNCHANGED asset
    BY <1>2, <1>7, <2>2 DEF Refusals
  <2>3. ASSUME n >= i
        PROVE  i = HeaderLen /\ HeaderLen <= n /\ DeclaredSize(t) = size
    BY <1>1, <1>3, <1>10, <2>3, HeaderAccepted
  <2>4. CASE /\ opened' = TRUE /\ n = i /\ server' = "file"
             /\ remaining' = DeclaredSize(t)
             /\ UNCHANGED <<asset, answer, reset>>
    <3>1. HeaderLen <= n /\ remaining' = size
      BY <2>3, <2>4
    <3>2. asset' = <<>> /\ answer' = NoAnswer
      BY <1>2, <2>4
    <3>3. RemainingIsMissing'
      <4>1. t >= HeaderLen
        BY <1>1, <1>3, <1>4, <3>1
      <4>2. remaining' = size' - Len(asset')
        BY <1>1, <1>2, <1>6, <3>1, <3>2
      <4>. QED
        BY <1>2, <1>4, <2>4, <3>2, <4>1, <4>2 DEF RemainingIsMissing, NoAnswer
    <3>4. NothingBeforeHeader' /\ OkMeansAllRead'
      BY <2>4, <3>2 DEF NothingBeforeHeader, OkMeansAllRead, NoAnswer
    <3>5. remaining' \in Int /\ reset' \in BOOLEAN
      BY <1>1, <2>4, <3>1
    <3>. QED
      BY <1>2, <1>3, <1>6, <2>4, <3>2, <3>3, <3>4, <3>5, ReadKeeps
  <2>5. CASE /\ opened' = TRUE /\ n > i
             /\ Store(FileBytes(i - HeaderLen, n - HeaderLen), DeclaredSize(t))
    <3>1. i = HeaderLen /\ HeaderLen < n /\ DeclaredSize(t) = size
      <4>1. n >= i
        <5>1. i \in Int
          BY <1>1, <1>3, HeaderLength DEF parse_opa, Incomplete, SegFault, Smaller
        <5>. QED
          BY <2>5, <5>1
      <4>. QED
        BY <1>1, <2>3, <2>5, <4>1
    <3>2. i - HeaderLen = 0 /\ size - Len(asset) = DeclaredSize(t)
      BY <1>1, <1>2, <1>5, <3>1
    <3>3. Store(FileBytes(0, n - HeaderLen), size - Len(asset))
      BY <2>5, <3>2
    <3>4. /\ n - HeaderLen \in Nat /\ 0 < n - HeaderLen
          /\ n - HeaderLen <= t - HeaderLen
      BY <1>1, <1>3, <3>1
    <3>5. Len(asset) <= 0 /\ \A j \in DOMAIN asset : asset[j] <= 0
      BY <1>2, <1>5
    <3>. QED
      BY <1>2, <1>3, <2>5, <3>3, <3>4, <3>5, StoreKeepsInv
  <2>. QED
    BY <1>2, <1>10, <2>1, <2>2, <2>4, <2>5 DEF treat_request, prepare_freceive
<1>. QED
  BY <1>2, <1>8, <1>9, <1>10 DEF ReceiveHeader

\* What a read of file bytes does, in terms of the file.
LEMMA ReceiveFileDoes ==
    ASSUME Inv, NEW n \in Nat, ReceiveFile(n)
    PROVE  /\ size \in FileSizes /\ size' = size /\ UNCHANGED clientVars
           /\ server = "file" /\ opened' = TRUE /\ answer = NoAnswer
           /\ taken' = taken + n
           /\ taken + n \in taken..written
           /\ taken - HeaderLen \in Nat
           /\ (taken + n) - HeaderLen \in Nat
           /\ taken - HeaderLen < (taken + n) - HeaderLen
           /\ (taken + n) - HeaderLen <= size + 1
           /\ Store(FileBytes(taken - HeaderLen, (taken + n) - HeaderLen), size - Len(asset))
<1>1. /\ size \in FileSizes /\ size \in Nat /\ HeaderLen \in Nat
      /\ written \in Nat /\ taken \in Nat /\ taken <= written
      /\ written <= HeaderLen + size + 1
  BY Counters DEF Inv
<1>2. /\ size' = size /\ UNCHANGED clientVars /\ server = "file" /\ opened' = opened
      /\ n \in 1..(written - taken)
      /\ taken' = taken + n
      /\ Store(FileBytes(taken - HeaderLen, (taken + n) - HeaderLen), remaining)
  BY DEF ReceiveFile
<1>3. opened /\ answer = NoAnswer /\ taken >= HeaderLen /\ remaining = size - Len(asset)
  BY <1>2 DEF Inv, RemainingIsMissing
<1>4. opened' = TRUE
  BY <1>2, <1>3 DEF Inv, TypeOK
<1>5. /\ taken + n \in taken..written
      /\ taken - HeaderLen \in Nat
      /\ (taken + n) - HeaderLen \in Nat
      /\ taken - HeaderLen < (taken + n) - HeaderLen
      /\ (taken + n) - HeaderLen <= size + 1
  <2>1. n >= 1 /\ taken + n <= written
    BY <1>1, <1>2
  <2>. QED
    BY <1>1, <1>3, <2>1
<1>6. Store(FileBytes(taken - HeaderLen, (taken + n) - HeaderLen), size - Len(asset))
  BY <1>2, <1>3
<1>. QED
  BY <1>1, <1>2, <1>3, <1>4, <1>5, <1>6

\* A read of file bytes keeps the invariant.
LEMMA ReceiveFileKeeps == Inv /\ (\E n \in Nat : ReceiveFile(n)) => Inv'
<1>. SUFFICES ASSUME Inv, NEW n \in Nat, ReceiveFile(n)
              PROVE  Inv'
  OBVIOUS
<1> DEFINE t == taken + n
           a == taken - HeaderLen
           b == t - HeaderLen
<1>1. /\ size \in FileSizes /\ size' = size /\ UNCHANGED clientVars
      /\ opened' = TRUE /\ answer = NoAnswer
      /\ taken' = t /\ t \in taken..written
      /\ a \in Nat /\ b \in Nat /\ a < b
      /\ Store(FileBytes(a, b), size - Len(asset))
  BY ReceiveFileDoes
<1>2. Len(asset) <= a /\ \A j \in DOMAIN asset : asset[j] <= a
  <2>1. CASE asset = <<>>
    BY <1>1, <2>1, EmptySeq
  <2>2. CASE asset # <<>>
    BY <2>2 DEF Inv, StoredWasRead
  <2>. QED
    BY <2>1, <2>2
<1>3. b <= t - HeaderLen
  <2>1. \A x \in Nat : x <= x
    OBVIOUS
  <2>. QED
    BY Zenon, <1>1, <2>1
<1> HIDE DEF a, b, t
<1>. QED
  BY <1>1, <1>2, <1>3, StoreKeepsInv

\* Every step keeps the invariant.
LEMMA NextInv == Inv /\ [Next]_vars => Inv'
<1>. SUFFICES ASSUME Inv, [Next]_vars
              PROVE  Inv'
  OBVIOUS
<1>1. CASE ClientStep \/ GiveUp
  BY <1>1, ClientKeeps
<1>2. CASE ServerStep
  <2>1. PICK n \in 1..(written - taken) : ReceiveHeader(n) \/ ReceiveFile(n)
    BY <1>2 DEF ServerStep
  <2>2. n \in Nat
    BY <2>1
  <2>. QED
    BY <2>1, <2>2, ReceiveHeaderKeeps, ReceiveFileKeeps
<1>3. CASE ReceiveEnd \/ Over \/ UNCHANGED vars
  <2>1. UNCHANGED vars
    BY <1>3 DEF ReceiveEnd, Over
  <2>2. /\ UNCHANGED clientVars /\ UNCHANGED serverVars /\ size' = size /\ reset' = reset
        /\ HeaderLen' = HeaderLen
    BY <2>1 DEF vars, clientVars, serverVars, HeaderLen
  <2>. QED
    BY <2>2 DEF Inv, TypeOK, WritesInOrder, NothingBeforeHeader, RemainingIsMissing,
                StoredWasRead, AssetInOrder, OkMeansAllRead, clientVars, serverVars
<1>. QED
  BY <1>1, <1>2, <1>3 DEF Next

\* Inv is an invariant of the upload, however TCP cuts the stream.
THEOREM Invariance == Spec => []Inv
<1>1. Init => Inv
  BY InitInv
<1>2. Inv /\ [Next]_vars => Inv'
  BY NextInv
<1>. QED
  BY <1>1, <1>2, PTL DEF Spec

\* The counters and the asset stay within the file and its newline.
THEOREM TypeCorrect == Spec => []TypeOK
<1>1. Inv => TypeOK
  BY DEF Inv
<1>. QED
  BY <1>1, Invariance, PTL

\* No OK before the whole file was read, however the header was cut
\* (receive_tcp, parse_opa, prepare_freceive).
THEOREM OkAfterTheFile == Spec => []OkMeansAllRead
<1>1. Inv => OkMeansAllRead
  BY DEF Inv
<1>. QED
  BY <1>1, Invariance, PTL

\* No byte of the asset is stored twice or out of order.
THEOREM OrderIsKept == Spec => []AssetInOrder
<1>1. Inv => AssetInOrder
  BY DEF Inv
<1>. QED
  BY <1>1, Invariance, PTL
-----------------------------------------------------------------------------
(***************************************************************************)
(* The whole file, when the header comes in one piece.                     *)
(***************************************************************************)

\* Before the first byte of the file nothing is stored.
LEMMA NoBytes == FileBytes(0, 0) = <<>>
<1>1. FileBytes(0, 0) \in Seq(1..0) /\ Len(FileBytes(0, 0)) = 0
  BY FilePrefix
<1>. QED
  BY <1>1, EmptySeq

\* A read that stores the next bytes of the file, whose asset held all the
\* bytes before them, keeps WholeInv.
LEMMA StoreKeepsWholeInv ==
    ASSUME size \in FileSizes, size' = size,
           NEW t, taken' = t,
           opened' = TRUE,
           answer = NoAnswer,
           NEW a \in Nat, NEW b \in Nat, a < b, b <= size + 1, b = t - HeaderLen,
           asset = FileBytes(0, a),
           Store(FileBytes(a, b), size - Len(asset))
    PROVE  WholeInv'
<1>1. HeaderLen' = HeaderLen
  BY DEF HeaderLen
<1>2. /\ server' = "file" => asset' = FileBytes(0, b)
      /\ server' = "closed" => asset' = FileBytes(0, size)
  BY StoreKeepsWhole
<1>3. \/ server' = "closed" /\ answer' = "OK"
      \/ server' = "file" /\ answer' = NoAnswer
  BY DEF Store, send_tcp
<1>4. StoredIsWhatWasRead'
  <2>1. taken' - HeaderLen' = b
    BY Zenon, <1>1
  <2>. QED
    BY <1>2, <1>3, <2>1 DEF StoredIsWhatWasRead
<1>5. OkMeansWholeFile'
  BY <1>2, <1>3 DEF OkMeansWholeFile, NoAnswer
<1>6. AnswerTellsOutcome' /\ ServerSurvives'
  BY <1>3 DEF AnswerTellsOutcome, ServerSurvives
<1>. QED
  BY <1>4, <1>5, <1>6 DEF WholeInv

\* The steps that leave the server alone keep WholeInv.
LEMMA OthersKeepWhole ==
    ASSUME WholeInv, size' = size, UNCHANGED serverVars
    PROVE  WholeInv'
<1>1. HeaderLen' = HeaderLen
  BY DEF HeaderLen
<1>. QED
  BY <1>1 DEF WholeInv, StoredIsWhatWasRead, OkMeansWholeFile, AnswerTellsOutcome,
              ServerSurvives, serverVars

\* The first read brings the whole header, which parse_opa accepts, so that
\* the bytes beyond it are the first of the file.
LEMMA HeaderKeepsWhole ==
    ASSUME ~Cut, Inv, WholeInv, NEW n \in Nat, ReceiveHeader(n)
    PROVE  WholeInv'
<1>1. /\ size \in FileSizes /\ size \in Nat /\ HeaderLen \in Nat
      /\ written \in Nat /\ written <= HeaderLen + size + 1
  BY Counters DEF Inv
<1>2. /\ size' = size /\ server = "header" /\ asset = <<>> /\ answer = NoAnswer
      /\ ~opened /\ taken = 0
  BY DEF ReceiveHeader, Inv, NothingBeforeHeader, WholeInv, StoredIsWhatWasRead
<1>3. n >= HeaderLen /\ taken' = n /\ n <= written
  <2>1. /\ n \in 1..Smaller(BufferSize - taken, written - taken)
        /\ taken + n >= HeaderLen /\ taken' = taken + n
    BY DEF ReceiveHeader
  <2>. QED
    BY <1>1, <1>2, <2>1, BufferAssumption DEF Smaller
<1>4. parse_opa(n) = HeaderLen
  <2>1. n > FsizeAt
    BY <1>1, <1>3, HeaderLength
  <2>. QED
    BY <1>1, <1>3, <2>1 DEF parse_opa, Smaller
<1>5. DeclaredSize(n) = size
  BY <1>1, <1>3 DEF DeclaredSize
<1>6. HeaderLen' = HeaderLen
  BY <1>2 DEF HeaderLen
<1>7. treat_request(n, HeaderLen)
  <2>1. parse_opa(taken') = HeaderLen
    BY <1>3, <1>4
  <2>2. HeaderLen # Incomplete /\ HeaderLen # SegFault
    BY <1>1 DEF Incomplete, SegFault
  <2>. QED
    BY <2>1, <2>2 DEF ReceiveHeader
<1>8. CASE (\E status \in Refusals : send_tcp(status)) /\ UNCHANGED <<asset, opened>>
  <2>1. server' = "closed" /\ answer' \in Refusals /\ ~opened'
    BY <1>2, <1>8 DEF send_tcp
  <2>. QED
    BY <2>1 DEF WholeInv, StoredIsWhatWasRead, OkMeansWholeFile, AnswerTellsOutcome,
                ServerSurvives, Refusals
<1>9. CASE opened' = TRUE /\ n = HeaderLen /\ server' = "file" /\ UNCHANGED <<asset, answer>>
  <2>1. taken' - HeaderLen' = 0
    BY <1>1, <1>3, <1>6, <1>9
  <2>2. asset' = FileBytes(0, taken' - HeaderLen')
    BY <1>2, <1>9, <2>1, NoBytes
  <2>. QED
    BY <1>2, <1>9, <2>2 DEF WholeInv, StoredIsWhatWasRead, OkMeansWholeFile,
                            AnswerTellsOutcome, ServerSurvives, NoAnswer
<1>10. CASE /\ opened' = TRUE /\ n > HeaderLen
            /\ Store(FileBytes(HeaderLen - HeaderLen, n - HeaderLen), DeclaredSize(taken'))
  <2>1. HeaderLen - HeaderLen = 0 /\ DeclaredSize(taken') = size
    BY <1>1, <1>3, <1>5
  <2>2. Len(asset) = 0 /\ size - Len(asset) = size
    BY <1>1, <1>2, EmptySeq
  <2>3. Store(FileBytes(0, n - HeaderLen), size - Len(asset))
    BY <1>10, <2>1, <2>2
  <2>4. /\ n - HeaderLen \in Nat /\ 0 < n - HeaderLen
        /\ n - HeaderLen <= size + 1
    BY <1>1, <1>3, <1>10
  <2>. QED
    BY <1>1, <1>2, <1>3, <1>10, <2>3, <2>4, NoBytes, StoreKeepsWholeInv
<1>11. ~(n < HeaderLen)
  BY <1>1, <1>3
<1>. QED
  BY Zenon, <1>7, <1>8, <1>9, <1>10, <1>11 DEF treat_request, prepare_freceive

\* A read of file bytes goes on where the one before it ended.
LEMMA FileKeepsWhole ==
    ASSUME Inv, WholeInv, NEW n \in Nat, ReceiveFile(n)
    PROVE  WholeInv'
<1> DEFINE t == taken + n
           a == taken - HeaderLen
           b == t - HeaderLen
<1>1. /\ size \in FileSizes /\ size' = size
      /\ server = "file" /\ opened' = TRUE /\ answer = NoAnswer
      /\ taken' = t
      /\ a \in Nat /\ b \in Nat /\ a < b /\ b <= size + 1
      /\ Store(FileBytes(a, b), size - Len(asset))
  BY ReceiveFileDoes
<1>2. asset = FileBytes(0, a)
  BY <1>1 DEF WholeInv, StoredIsWhatWasRead
<1>3. b = t - HeaderLen
  OBVIOUS
<1> HIDE DEF a, b, t
<1>. QED
  BY <1>1, <1>2, <1>3, StoreKeepsWholeInv

\* Every step keeps WholeInv when TCP does not cut the header.
LEMMA NextWhole ==
    ASSUME ~Cut
    PROVE  Inv /\ WholeInv /\ [Next]_vars => WholeInv'
<1>. SUFFICES ASSUME Inv, WholeInv, [Next]_vars
              PROVE  WholeInv'
  OBVIOUS
<1>1. CASE ClientStep \/ GiveUp
  <2>1. size' = size /\ UNCHANGED serverVars
    BY <1>1 DEF ClientStep, GiveUp, WriteHeader, WriteChunk, WriteNewline, ReadAnswer
  <2>. QED
    BY <2>1, OthersKeepWhole
<1>2. CASE ServerStep
  <2>1. PICK n \in 1..(written - taken) : ReceiveHeader(n) \/ ReceiveFile(n)
    BY <1>2 DEF ServerStep
  <2>2. n \in Nat
    BY <2>1
  <2>. QED
    BY <2>1, <2>2, HeaderKeepsWhole, FileKeepsWhole
<1>3. CASE ReceiveEnd \/ Over \/ UNCHANGED vars
  <2>1. size' = size /\ UNCHANGED serverVars
    BY <1>3 DEF ReceiveEnd, Over, vars, serverVars
  <2>. QED
    BY <2>1, OthersKeepWhole
<1>. QED
  BY <1>1, <1>2, <1>3 DEF Next

\* WholeInv is an invariant when TCP does not cut the header.
LEMMA WholeInvariance ==
    ASSUME ~Cut
    PROVE  Spec => []WholeInv
<1>1. Init => Inv /\ WholeInv
  BY InitInv
<1>2. (Inv /\ WholeInv) /\ [Next]_vars => (Inv /\ WholeInv)'
  BY NextInv, NextWhole
<1>. QED
  BY <1>1, <1>2, PTL DEF Spec

\* With the header in one piece, OK means that the asset is the file, byte
\* for byte and without the newline, however the file is cut (receive_tcp).
THEOREM OkIsTheFile ==
    ASSUME ~Cut
    PROVE  Spec => []OkMeansWholeFile
<1>1. WholeInv => OkMeansWholeFile
  BY DEF WholeInv
<1>. QED
  BY <1>1, WholeInvariance, PTL

\* With the header in one piece, the answer tells whether the auction is in
\* the database (treat_request, prepare_freceive, send_tcp).
THEOREM AnswersAreTrue ==
    ASSUME ~Cut
    PROVE  Spec => []AnswerTellsOutcome
<1>1. WholeInv => AnswerTellsOutcome
  BY DEF WholeInv
<1>. QED
  BY <1>1, WholeInvariance, PTL
=============================================================================
