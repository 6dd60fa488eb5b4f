-------------------------- MODULE ConnectionsProofs --------------------------
(***************************************************************************)
(* Proofs about Connections, for any number of clients, of slots in the    *)
(* table and of pieces in a request and in a file.                         *)
(*                                                                         *)
(* Agreed, the inductive invariant, adds to the five invariants of the     *)
(* runs what a running server counts on between two steps of its loop: a   *)
(* connection that waits for accept is as new, a client is behind at most  *)
(* one descriptor, and a slot holds exactly the pieces that have been read *)
(* from the connection it belongs to.                                      *)
(***************************************************************************)
EXTENDS Connections, NumberLemmas, SequenceTheorems

-----------------------------------------------------------------------------
(***************************************************************************)
(* The inductive invariant.                                                *)
(***************************************************************************)

\* Nothing has been done for c.
Fresh(c) ==
    /\ taken[c] = 0
    /\ answer[c] = <<>>
    /\ asset[c] = None
    /\ \A f \in Fds : fds[f] # c

\* Before accept.
NewAreFresh ==
    /\ \A c \in Clients : client[c] = "new" => Fresh(c)
    /\ \A k \in DOMAIN backlog : client[backlog[k]] # "new" /\ Fresh(backlog[k])
    /\ \A j, k \in DOMAIN backlog : backlog[j] = backlog[k] => j = k

\* Between accept and close.
OpenedOnce ==
    /\ \A f, g \in Fds : Opened(f) /\ fds[f] = fds[g] => f = g
    /\ \A f \in Fds : Opened(f) => answer[fds[f]] = <<>>

\* accept does not wait.
MainIsReady == tcp_main \in ready_sockets => backlog # <<>>

\* A slot whose request is still coming in.
Collecting(slot, c) ==
    /\ ~slot.in_file
    /\ slot.buffer = PiecesOf(c, 0, taken[c])
    /\ slot.buffer_i = taken[c]
    /\ taken[c] < Total(c)
    /\ request[c] = "opa" => taken[c] = 0
    /\ asset[c] = None

\* A slot whose file is still coming in.
Filing(slot, c) ==
    /\ slot.in_file
    /\ slot.final_response = c
    /\ slot.remaining_size = Total(c) - taken[c]
    /\ taken[c] >= 1
    /\ asset[c] = PiecesOf(c, 1, taken[c])

SlotAgrees(slot) ==
    \/ slot = UnusedSlot
    \/ /\ slot.socket_id \in Fds
       /\ \/ Collecting(slot, fds[slot.socket_id])
          \/ Filing(slot, fds[slot.socket_id])

Serving ==
    /\ NewAreFresh
    /\ OpenedOnce
    /\ MainIsReady
    /\ \A i \in Slots : SlotAgrees(tcp_conns[i])

Agreed ==
    /\ TypeOK
    /\ TableAgrees
    /\ AnswerIsOwn
    /\ AssetIsOwn
    /\ DescriptorsBounded
    /\ alive => Serving

-----------------------------------------------------------------------------
(***************************************************************************)
(* Descriptors and slots.                                                  *)
(***************************************************************************)

\* The least of a set of naturals (the helpers that look for the first).
LEMMA MinIs ==
    ASSUME NEW S \in SUBSET Nat, S # {}
    PROVE  Min(S) \in S /\ \A k \in S : Min(S) <= k
<1>1. \E m \in S : \A k \in S : m <= k
  BY LeastNatural
<1>. QED
  BY <1>1, Zenon DEF Min

LEMMA FdsAre ==
    /\ Fds \subseteq Nat
    /\ -1 \notin Fds
    /\ tcp_main \notin Fds
    /\ tcp_main \in Nat
    /\ IsFiniteSet(Fds)
    /\ Cardinality(Fds) = MaxTcpCount + NumClients + 1
<1>1. IsFiniteSet(Clients) /\ Cardinality(Clients) = NumClients
  <2>1. 1 \in Int /\ NumClients \in Int /\ 1 <= NumClients + 1 /\ NumClients - 1 + 1 = NumClients
    BY NumClientsAssumption
  <2>2. IsFiniteSet(1..NumClients) /\ Cardinality(1..NumClients) = NumClients - 1 + 1
    BY ONLY <2>1, IntervalCardinality, Zenon
  <2>. QED
    BY <2>1, <2>2 DEF Clients
<1> DEFINE top == 5 + MaxTcpCount + NumClients
<1>2. Fds = 5..top
  BY <1>1 DEF Fds
<1>3. 5 \in Int /\ top \in Int /\ 5 <= top + 1 /\ top - 5 + 1 = MaxTcpCount + NumClients + 1
  BY NumClientsAssumption, MaxTcpCountAssumption
<1>4. IsFiniteSet(5..top) /\ Cardinality(5..top) = top - 5 + 1
  BY ONLY <1>3, IntervalCardinality, Zenon
<1>5. IsFiniteSet(Fds) /\ Cardinality(Fds) = MaxTcpCount + NumClients + 1
  BY <1>2, <1>3, <1>4
<1>6. Fds \subseteq Nat /\ -1 \notin Fds /\ tcp_main \notin Fds /\ tcp_main \in Nat
  BY <1>2, <1>3 DEF tcp_main
<1>. QED
  BY <1>5, <1>6

LEMMA ClientsAre ==
    /\ Clients \subseteq Nat
    /\ IsFiniteSet(Clients)
    /\ Cardinality(Clients) = NumClients
    /\ None \notin Clients
    /\ AssetFile \notin Clients
    /\ AssetFile # None
<1>1. 1 \in Int /\ NumClients \in Int /\ 1 <= NumClients + 1 /\ NumClients - 1 + 1 = NumClients
  BY NumClientsAssumption
<1>2. IsFiniteSet(1..NumClients) /\ Cardinality(1..NumClients) = NumClients - 1 + 1
  BY ONLY <1>1, IntervalCardinality, Zenon
<1>3. IsFiniteSet(Clients) /\ Cardinality(Clients) = NumClients
  BY <1>1, <1>2 DEF Clients
<1>4. Clients \subseteq Nat
  BY DEF Clients
<1>. QED
  BY <1>3, <1>4, NoneAssumption

LEMMA SlotsAre ==
    /\ Slots \subseteq Nat
    /\ IsFiniteSet(Slots)
    /\ Cardinality(Slots) = MaxTcpCount
<1>1. 1 \in Int /\ MaxTcpCount \in Int /\ 1 <= MaxTcpCount + 1 /\ MaxTcpCount - 1 + 1 = MaxTcpCount
  BY MaxTcpCountAssumption
<1>2. IsFiniteSet(1..MaxTcpCount) /\ Cardinality(1..MaxTcpCount) = MaxTcpCount - 1 + 1
  BY ONLY <1>1, IntervalCardinality, Zenon
<1>3. IsFiniteSet(Slots) /\ Cardinality(Slots) = MaxTcpCount
  BY <1>1, <1>2 DEF Slots
<1>4. Slots \subseteq Nat
  BY DEF Slots
<1>. QED
  BY <1>3, <1>4

\* The slot of a connection that is open is the one that bears its descriptor.
LEMMA SlotOfIs ==
    ASSUME TableAgrees, NEW f \in Fds, Opened(f)
    PROVE  SlotOf(f) \in Slots /\ tcp_conns[SlotOf(f)].socket_id = f
<1> DEFINE S == {i \in Slots : tcp_conns[i].socket_id = f}
<1>1. S # {}
  BY DEF TableAgrees
<1>2. S \in SUBSET Nat
  BY SlotsAre
<1> HIDE DEF S
<1>3. Min(S) \in S
  BY <1>1, <1>2, MinIs
<1>. QED
  BY <1>3 DEF S, SlotOf

\* There is a free descriptor: the table has MaxTcpCount slots, and every file
\* that is left open is that of a client of its own.
LEMMA FreeFd ==
    ASSUME TypeOK, TableAgrees, DescriptorsBounded
    PROVE  FirstFree(fds) \in Fds /\ fds[FirstFree(fds)] = None
<1> DEFINE O == {f \in Fds : Opened(f)}
           A == {f \in Fds : fds[f] = AssetFile}
           S == {f \in Fds : fds[f] = None}
           C == {c \in Clients : asset[c] # None}
<1>1. IsFiniteSet(O) /\ Cardinality(O) <= MaxTcpCount
  <2> DEFINE slot == [f \in O |-> CHOOSE i \in Slots : tcp_conns[i].socket_id = f]
  <2>1. \A f \in O : slot[f] \in Slots /\ tcp_conns[slot[f]].socket_id = f
    BY DEF TableAgrees
  <2>2. slot \in Injection(O, Slots)
    <3>1. slot \in [O -> Slots]
      BY <2>1
    <3>2. \A f, g \in O : slot[f] = slot[g] => f = g
      BY <2>1
    <3> HIDE DEF slot, O
    <3>. QED
      BY <3>1, <3>2 DEF Injection, IsInjective
  <2>3. Cardinality(O) <= Cardinality(Slots)
    <3> HIDE DEF slot
    <3>1. IsFiniteSet(Slots)
      BY SlotsAre
    <3>. QED
      BY <2>2, <3>1, FS_Injection
  <2>4. IsFiniteSet(O)
    <3>1. O \subseteq Fds
      OBVIOUS
    <3>. QED
      BY <3>1, FdsAre, FS_Subset
  <2>. QED
    BY <2>3, <2>4, SlotsAre
<1>2. IsFiniteSet(A) /\ Cardinality(A) <= NumClients
  <2>1. A \subseteq Fds /\ C \subseteq Clients
    OBVIOUS
  <2>2. IsFiniteSet(A) /\ IsFiniteSet(C) /\ Cardinality(C) <= Cardinality(Clients)
    BY <2>1, FdsAre, ClientsAre, FS_Subset
  <2>3. Cardinality(A) <= Cardinality(C)
    BY DEF DescriptorsBounded
  <2>4. Cardinality(A) \in Nat /\ Cardinality(C) \in Nat
    BY <2>2, FS_CardinalityType
  <2>. QED
    BY <2>2, <2>3, <2>4, ClientsAre, NumClientsAssumption
<1>3. O \cap A = {}
  BY ClientsAre DEF Opened
<1>4. Fds \ S = O \cup A
  <2>1. \A f \in Fds : fds[f] \in Clients \cup {None, AssetFile}
    BY DEF TypeOK
  <2>. QED
    BY <2>1, ClientsAre DEF Opened
<1> HIDE DEF O, A, C
<1>5. S # {}
  <2> SUFFICES ASSUME S = {} PROVE FALSE
    OBVIOUS
  <2>1. Fds = O \cup A
    BY <1>4
  <2>2. Cardinality(O \cup A) = Cardinality(O) + Cardinality(A) - Cardinality(O \cap A)
    BY <1>1, <1>2, FS_Union
  <2>3. Cardinality(O \cap A) = 0
    BY <1>3, FS_EmptySet
  <2>4. Cardinality(O) \in Nat /\ Cardinality(A) \in Nat
    BY <1>1, <1>2, FS_CardinalityType
  <2>. QED
    BY <1>1, <1>2, <2>1, <2>2, <2>3, <2>4, FdsAre, NumClientsAssumption,
       MaxTcpCountAssumption
<1>6. S \in SUBSET Nat
  BY FdsAre
<1>7. FirstFree(fds) = Min(S)
  BY DEF FirstFree
<1>8. Min(S) \in S
  <2> HIDE DEF S
  <2>. QED
    BY <1>5, <1>6, MinIs
<1>. QED
  BY <1>7, <1>8

-----------------------------------------------------------------------------
(***************************************************************************)
(* Pieces of a request and of a file.                                      *)
(***************************************************************************)

\* What a request is in all.
LEMMA TotalIs ==
    ASSUME NEW c \in Clients
    PROVE  /\ Total(c) \in Nat \ {0}
           /\ Total(c) <= 1 + RequestPieces + FilePieces
           /\ request[c] = "opa" => Total(c) = 1 + FilePieces
  BY PiecesAssumption DEF Total

LEMMA TotalStays ==
    ASSUME request' = request, NEW c
    PROVE  Total(c)' = Total(c)
  BY DEF Total

\* Pieces of a client are a sequence, and they are no zeros.
LEMMA PiecesAre ==
    ASSUME NEW c \in Clients, NEW a \in Nat, NEW b \in Nat,
           a <= b, b <= 1 + RequestPieces + FilePieces
    PROVE  /\ PiecesOf(c, a, b) \in Seq(Piece \cup {Zero})
           /\ Len(PiecesOf(c, a, b)) = b - a
           /\ \A j \in 1..(b - a) : PiecesOf(c, a, b)[j] = <<c, a + j>>
<1> DEFINE n == b - a
           p == PiecesOf(c, a, b)
           top == 1 + RequestPieces + FilePieces
<1>1. n \in Nat
  OBVIOUS
<1>2. p = [j \in 1..n |-> <<c, a + j>>]
  BY DEF PiecesOf
<1>3. \A j \in 1..n : <<c, a + j>> \in Piece
  <2>1. top \in Nat
    BY PiecesAssumption
  <2>2. \A j \in 1..n : a + j \in 1..top
    <3>1. a \in Nat /\ b \in Nat /\ a <= b /\ b <= top
      OBVIOUS
    <3> HIDE DEF top
    <3>. QED
      BY ONLY <2>1, <3>1 DEF n
  <2> HIDE DEF n
  <2>. QED
    BY <2>2 DEF Piece
<1> HIDE DEF n
<1>4. p \in [1..n -> Piece \cup {Zero}]
  BY <1>2, <1>3
<1>5. DOMAIN p = 1..n
  BY <1>2
<1> HIDE DEF p
<1>6. p \in Seq(Piece \cup {Zero})
  BY <1>1, <1>4
<1>7. Len(p) = n
  BY <1>1, <1>5, <1>6, LenProperties
<1>. QED
  BY <1>2, <1>6, <1>7 DEF p, n

\* Two runs of pieces that meet make one.
LEMMA PiecesJoin ==
    ASSUME NEW c \in Clients, NEW a \in Nat, NEW b \in Nat, NEW d \in Nat,
           a <= b, b <= d, d <= 1 + RequestPieces + FilePieces
    PROVE  PiecesOf(c, a, b) \o PiecesOf(c, b, d) = PiecesOf(c, a, d)
<1> DEFINE s == PiecesOf(c, a, b)
           t == PiecesOf(c, b, d)
           u == PiecesOf(c, a, d)
           S == Piece \cup {Zero}
<1>1. a <= d /\ b <= 1 + RequestPieces + FilePieces
  BY PiecesAssumption
<1>2. s \in Seq(S) /\ Len(s) = b - a /\ \A j \in 1..(b - a) : s[j] = <<c, a + j>>
  BY <1>1, PiecesAre
<1>3. t \in Seq(S) /\ Len(t) = d - b /\ \A j \in 1..(d - b) : t[j] = <<c, b + j>>
  BY PiecesAre
<1>4. u \in Seq(S) /\ Len(u) = d - a /\ \A j \in 1..(d - a) : u[j] = <<c, a + j>>
  BY <1>1, PiecesAre
<1> HIDE DEF s, t, u, S
<1>5. /\ s \o t \in Seq(S)
      /\ Len(s \o t) = d - a
      /\ \A j \in 1..(d - a) : (s \o t)[j] = IF j <= b - a THEN s[j] ELSE t[j - (b - a)]
  <2>1. Len(s) + Len(t) = d - a
    BY <1>2, <1>3
  <2>. QED
    BY <1>2, <1>3, <2>1, ConcatProperties
<1>6. ASSUME NEW j \in 1..(d - a)
      PROVE  (s \o t)[j] = u[j]
  <2>1. CASE j <= b - a
    <3>1. j \in 1..(b - a)
      BY <2>1
    <3>2. (s \o t)[j] = s[j]
      BY <1>5, <2>1
    <3>. QED
      BY <1>2, <1>4, <3>1, <3>2, Zenon
  <2>2. CASE j > b - a
    <3>1. j - (b - a) \in 1..(d - b)
      BY <2>2
    <3>2. t[j - (b - a)] = <<c, b + (j - (b - a))>>
      BY <1>3, <3>1
    <3>3. b + (j - (b - a)) = a + j
      OBVIOUS
    <3>4. (s \o t)[j] = t[j - (b - a)]
      BY <1>5, <2>2
    <3>. QED
      BY <1>4, <3>2, <3>3, <3>4, Zenon
  <2>3. j <= b - a \/ j > b - a
    OBVIOUS
  <2>. QED
    BY ONLY <2>1, <2>2, <2>3
<1>7. s \o t = u
  BY <1>4, <1>5, <1>6, SeqEqual
<1>. QED
  BY <1>7 DEF s, t, u

\* What follows the header is the file (prepare_freceive).
LEMMA PiecesAfterHeader ==
    ASSUME NEW c \in Clients, NEW b \in Nat,
           1 <= b, b <= 1 + RequestPieces + FilePieces
    PROVE  SubSeq(PiecesOf(c, 0, b), 2, b) = PiecesOf(c, 1, b)
<1> DEFINE s == PiecesOf(c, 0, b)
           u == PiecesOf(c, 1, b)
           S == Piece \cup {Zero}
<1>1. s \in Seq(S) /\ Len(s) = b /\ \A j \in 1..b : s[j] = <<c, j>>
  <2>1. s \in Seq(S) /\ Len(s) = b - 0 /\ \A j \in 1..(b - 0) : s[j] = <<c, 0 + j>>
    <3>1. c \in Clients /\ 0 \in Nat /\ 0 <= b /\ b \in Nat
      OBVIOUS
    <3>. QED
      BY <3>1, PiecesAre
  <2> HIDE DEF s
  <2>2. b - 0 = b /\ \A j \in 1..b : 0 + j = j
    OBVIOUS
  <2>. QED
    BY <2>1, <2>2
<1>2. u \in Seq(S) /\ Len(u) = b - 1 /\ \A j \in 1..(b - 1) : u[j] = <<c, 1 + j>>
  BY PiecesAre
<1> HIDE DEF s, u, S
<1>3. /\ SubSeq(s, 2, b) \in Seq(S)
      /\ Len(SubSeq(s, 2, b)) = b - 1
      /\ \A j \in 1..(b - 1) : SubSeq(s, 2, b)[j] = s[j + 1]
  <2>1. \A j \in 2..b : s[j] \in S
    BY <1>1, ElementOfSeq
  <2>2. 2 \in Int /\ b \in Int
    OBVIOUS
  <2>3. /\ SubSeq(s, 2, b) \in Seq(S)
        /\ Len(SubSeq(s, 2, b)) = IF 2 <= b THEN b - 2 + 1 ELSE 0
        /\ \A j \in 1..(b - 2 + 1) : SubSeq(s, 2, b)[j] = s[2 + j - 1]
    BY ONLY <2>1, <2>2, SubSeqProperties
  <2>4. b - 2 + 1 = b - 1 /\ \A j \in 1..(b - 1) : 2 + j - 1 = j + 1
    OBVIOUS
  <2>. QED
    BY <2>3, <2>4
<1>4. \A j \in 1..(b - 1) : SubSeq(s, 2, b)[j] = u[j]
  <2>1. \A j \in 1..(b - 1) : j + 1 \in 1..b /\ j + 1 = 1 + j
    OBVIOUS
  <2>. QED
    BY <1>1, <1>2, <1>3, <2>1
<1>5. SubSeq(s, 2, b) = u
  BY <1>2, <1>3, <1>4, SeqEqual
<1>. QED
  BY <1>5 DEF s, u

\* A whole request is known for its client's.
LEMMA WhoseIs ==
    ASSUME NEW c \in Clients
    PROVE  whose(PiecesOf(c, 0, Total(c))) = c
<1> DEFINE p == PiecesOf(c, 0, Total(c))
<1>1. \A d \in Clients : PiecesOf(d, 0, Total(d))[1] = <<d, 1>>
  <2> SUFFICES ASSUME NEW d \in Clients
               PROVE  PiecesOf(d, 0, Total(d))[1] = <<d, 1>>
    OBVIOUS
  <2>1. Total(d) \in Nat /\ 1 <= Total(d) /\ Total(d) <= 1 + RequestPieces + FilePieces
    BY TotalIs
  <2> DEFINE n == Total(d)
  <2> HIDE DEF n
  <2>2. n \in Nat /\ 1 <= n /\ n <= 1 + RequestPieces + FilePieces
    BY <2>1 DEF n
  <2>3. \A j \in 1..(n - 0) : PiecesOf(d, 0, n)[j] = <<d, 0 + j>>
    <3>1. 0 \in Nat /\ 0 <= n
      BY <2>2
    <3>. QED
      BY <2>2, <3>1, PiecesAre
  <2>4. PiecesOf(d, 0, n)[1] = <<d, 1>>
    <3>1. 1 \in 1..(n - 0) /\ 0 + 1 = 1
      BY <2>2
    <3>. QED
      BY <2>3, <3>1
  <2>. QED
    BY <2>4 DEF n
<1>2. \A d \in Clients : p = PiecesOf(d, 0, Total(d)) => d = c
  BY <1>1
<1>3. c \in Clients /\ p = PiecesOf(c, 0, Total(c))
  OBVIOUS
<1> HIDE DEF p
<1>4. (CHOOSE d \in Clients : p = PiecesOf(d, 0, Total(d))) = c
  BY <1>2, <1>3
<1>5. whose(p) = c
  BY <1>3, <1>4 DEF whose
<1>. QED
  BY <1>5 DEF p

-----------------------------------------------------------------------------
(***************************************************************************)
(* The clients, and select.                                                *)
(***************************************************************************)

\* A slot agrees after a step that leaves it and its connection alone.
LEMMA SlotStays ==
    ASSUME NEW slot, SlotAgrees(slot),
           request' = request,
           \A c : slot # UnusedSlot /\ c = fds[slot.socket_id] =>
               /\ fds'[slot.socket_id] = c
               /\ taken'[c] = taken[c]
               /\ asset'[c] = asset[c]
    PROVE  SlotAgrees(slot)'
<1>1. CASE slot = UnusedSlot
  BY <1>1 DEF SlotAgrees, UnusedSlot
<1>2. CASE slot # UnusedSlot
  <2>1. PICK c : c = fds[slot.socket_id]
    OBVIOUS
  <2>2. /\ fds'[slot.socket_id] = c /\ taken'[c] = taken[c] /\ asset'[c] = asset[c]
        /\ Total(c)' = Total(c)
    BY <1>2, <2>1 DEF Total
  <2>3. slot.socket_id \in Fds /\ (Collecting(slot, c) \/ Filing(slot, c))
    BY <1>2, <2>1 DEF SlotAgrees
  <2>4. CASE Collecting(slot, c)
    <3>1. /\ ~slot.in_file /\ slot.buffer = PiecesOf(c, 0, taken[c])
          /\ slot.buffer_i = taken[c] /\ taken[c] < Total(c)
          /\ request[c] = "opa" => taken[c] = 0
          /\ asset[c] = None
      BY <2>4 DEF Collecting
    <3>2. PiecesOf(c, 0, taken[c])' = PiecesOf(c, 0, taken[c])
      BY <2>2, Zenon DEF PiecesOf
    <3>3. Collecting(slot, c)'
      BY <2>2, <3>1, <3>2 DEF Collecting
    <3>. QED
      BY <2>2, <2>3, <3>3, Zenon DEF SlotAgrees
  <2>5. CASE Filing(slot, c)
    <3>1. /\ slot.in_file /\ slot.final_response = c
          /\ slot.remaining_size = Total(c) - taken[c]
          /\ taken[c] >= 1 /\ asset[c] = PiecesOf(c, 1, taken[c])
      BY <2>5 DEF Filing
    <3>2. PiecesOf(c, 1, taken[c])' = PiecesOf(c, 1, taken[c])
      BY <2>2, Zenon DEF PiecesOf
    <3>3. Filing(slot, c)'
      BY <2>2, <3>1, <3>2 DEF Filing
    <3>. QED
      BY <2>2, <2>3, <3>3, Zenon DEF SlotAgrees
  <2>. QED
    BY <2>3, <2>4, <2>5
<1>. QED
  BY <1>1, <1>2

\* A step that leaves the server alone, but for the sockets it has yet to
\* visit, and the connections that wait for it.
LEMMA ServerAlone ==
    ASSUME Agreed,
           UNCHANGED <<request, taken, answer, asset, fds, tcp_conns,
                       current_sockets, alive>>,
           client' \in [Clients -> {"new", "connected", "left", "broken"}],
           written' \in [Clients -> Nat],
           \A c \in Clients : written'[c] <= Total(c) /\ written'[c] >= written[c],
           backlog' \in Seq(Clients),
           ready_sockets' \subseteq current_sockets,
           alive => NewAreFresh' /\ MainIsReady'
    PROVE  Agreed'
<1>1. /\ request' = request /\ taken' = taken /\ answer' = answer
      /\ asset' = asset /\ fds' = fds /\ tcp_conns' = tcp_conns
      /\ current_sockets' = current_sockets /\ alive' = alive
  OBVIOUS
<1>2. \A c : Total(c)' = Total(c) /\ PiecesOf(c, 1, taken[c])' = PiecesOf(c, 1, taken[c])
  BY <1>1 DEF Total, PiecesOf
<1>3. /\ written \in [Clients -> Nat] /\ taken \in [Clients -> Nat]
      /\ \A c \in Clients : taken[c] <= written[c]
  BY DEF Agreed, TypeOK
<1>4. ASSUME NEW c \in Clients
      PROVE  taken'[c] <= written'[c] /\ written'[c] <= Total(c)'
  <2>1. PICK w : w = written'[c]
    OBVIOUS
  <2>2. w \in Nat /\ w <= Total(c) /\ w >= written[c]
    BY <2>1
  <2>3. taken[c] \in Nat /\ written[c] \in Nat /\ taken[c] <= written[c]
    BY <1>3
  <2>4. taken[c] <= w
    BY ONLY <2>2, <2>3
  <2>. QED
    BY <1>1, <1>2, <2>1, <2>2, <2>4, Zenon
<1>5. TypeOK'
  BY <1>1, <1>4 DEF Agreed, TypeOK
<1>6. TableAgrees' /\ AnswerIsOwn' /\ DescriptorsBounded'
  BY <1>1 DEF Agreed, TableAgrees, AnswerIsOwn, DescriptorsBounded, Opened
<1>7. AssetIsOwn'
  BY <1>1, <1>2 DEF Agreed, AssetIsOwn
<1>8. ASSUME alive PROVE Serving'
  <2>1. OpenedOnce'
    BY <1>1, <1>8 DEF Agreed, Serving, OpenedOnce, Opened
  <2>2. ASSUME NEW i \in Slots PROVE SlotAgrees(tcp_conns[i])'
    <3>1. PICK slot : slot = tcp_conns[i]
      OBVIOUS
    <3>2. SlotAgrees(slot)
      BY <1>8, <3>1 DEF Agreed, Serving
    <3>3. SlotAgrees(slot)'
      BY <1>1, <3>2, SlotStays
    <3>. QED
      BY <1>1, <3>1, <3>3
  <2>. QED
    BY <1>8, <2>1, <2>2 DEF Serving
<1>. QED
  BY <1>1, <1>5, <1>6, <1>7, <1>8 DEF Agreed

\* Fresh is about the server.
LEMMA FreshStays ==
    ASSUME UNCHANGED <<taken, answer, asset, fds>>
    PROVE  \A c : Fresh(c) => Fresh(c)'
  BY DEF Fresh

LEMMA ConnectKeeps ==
    ASSUME Agreed, NEW c \in Clients, Connect(c)
    PROVE  Agreed'
<1>1. /\ alive /\ client[c] = "new"
      /\ client' = [client EXCEPT ![c] = "connected"]
      /\ backlog' = Append(backlog, c)
      /\ UNCHANGED <<request, written, taken, answer, asset, fds, tcp_conns,
                     current_sockets, ready_sockets, alive>>
  BY DEF Connect, serverVars
<1>2. /\ client \in [Clients -> {"new", "connected", "left", "broken"}]
      /\ backlog \in Seq(Clients)
      /\ written \in [Clients -> Nat]
      /\ \A d \in Clients : written[d] <= Total(d)
      /\ ready_sockets \subseteq current_sockets
  BY DEF Agreed, TypeOK
<1>3. NewAreFresh /\ MainIsReady
  BY <1>1 DEF Agreed, Serving
<1>4. client' \in [Clients -> {"new", "connected", "left", "broken"}]
  BY <1>1, <1>2
<1>5. /\ \A d \in Clients : client'[d] = "new" => client[d] = "new"
      /\ client'[c] = "connected"
      /\ \A d \in Clients : client[d] # "new" => client'[d] # "new"
  BY <1>1, <1>2
<1> DEFINE n == Len(backlog)
<1>6. n \in Nat /\ DOMAIN backlog = 1..n /\ \A k \in 1..n : backlog[k] \in Clients
  BY <1>2, LenProperties
<1>7. /\ backlog' \in Seq(Clients)
      /\ DOMAIN backlog' = 1..(n + 1)
      /\ \A k \in 1..n : backlog'[k] = backlog[k]
      /\ backlog'[n + 1] = c
  <2>1. /\ Append(backlog, c) \in Seq(Clients)
        /\ Len(Append(backlog, c)) = n + 1
        /\ \A k \in 1..n : Append(backlog, c)[k] = backlog[k]
        /\ Append(backlog, c)[n + 1] = c
    BY <1>2, AppendProperties
  <2>. QED
    BY <1>1, <2>1, LenProperties
<1> HIDE DEF n
<1>8. \A d : Fresh(d) => Fresh(d)'
  BY <1>1, FreshStays
<1>9. ASSUME NEW k \in 1..(n + 1)
      PROVE  (client[backlog[k]] # "new" /\ Fresh(backlog[k]))'
  <2>1. CASE k \in 1..n
    <3>1. PICK d \in Clients : d = backlog[k] /\ backlog'[k] = d
      BY <1>6, <1>7, <2>1
    <3>2. client[d] # "new" /\ Fresh(d)
      BY <1>3, <1>6, <2>1, <3>1 DEF NewAreFresh
    <3>3. Fresh(d)' /\ client'[d] # "new"
      BY <1>5, <1>8, <3>2
    <3>. QED
      BY <3>1, <3>3
  <2>2. CASE k = n + 1
    <3>1. Fresh(c)
      BY <1>1, <1>3 DEF NewAreFresh
    <3>2. Fresh(c)' /\ backlog'[k] = c
      BY <1>7, <1>8, <2>2, <3>1
    <3>. QED
      BY <1>5, <3>2
  <2>. QED
    BY <1>6, <2>1, <2>2
<1>10. ASSUME NEW j \in 1..(n + 1), NEW k \in 1..(n + 1), backlog'[j] = backlog'[k]
       PROVE  j = k
  <2>1. \A m \in 1..n : backlog'[m] = backlog[m] /\ backlog[m] # c
    BY <1>1, <1>3, <1>6, <1>7 DEF NewAreFresh
  <2>2. CASE j \in 1..n /\ k \in 1..n
    BY <1>3, <1>6, <1>10, <2>1, <2>2 DEF NewAreFresh
  <2>3. (j \in 1..n \/ j = n + 1) /\ (k \in 1..n \/ k = n + 1)
    BY <1>6
  <2>. QED
    BY <1>7, <1>10, <2>1, <2>2, <2>3
<1>11. NewAreFresh'
  <2>1. \A d \in Clients : client'[d] = "new" => Fresh(d)'
    BY <1>3, <1>5, <1>8 DEF NewAreFresh
  <2>2. \A k \in DOMAIN backlog' : (client[backlog[k]] # "new" /\ Fresh(backlog[k]))'
    BY <1>7, <1>9
  <2>3. \A j, k \in DOMAIN backlog' : backlog'[j] = backlog'[k] => j = k
    BY <1>7, <1>10
  <2>. QED
    BY <2>1, <2>2, <2>3 DEF NewAreFresh
<1>12. MainIsReady'
  <2>1. backlog' # <<>>
    BY <1>6, <1>7
  <2>. QED
    BY <2>1 DEF MainIsReady
<1>13. /\ ready_sockets' \subseteq current_sockets
       /\ written' \in [Clients -> Nat]
       /\ \A d \in Clients : written'[d] <= Total(d) /\ written'[d] >= written[d]
  BY <1>1, <1>2
<1>. QED
  BY <1>1, <1>4, <1>7, <1>11, <1>12, <1>13, ServerAlone

\* A client that writes one more piece, or goes away.
LEMMA ClientKeeps ==
    ASSUME Agreed, NEW c \in Clients, WritePiece(c) \/ Leave(c) \/ Break(c)
    PROVE  Agreed'
<1>1. /\ client[c] # "new"
      /\ \E e \in {"left", "broken", client[c]} : client' = [client EXCEPT ![c] = e]
      /\ UNCHANGED <<request, backlog, taken, answer, asset, fds, tcp_conns,
                     current_sockets, ready_sockets, alive>>
  <2>1. client \in [Clients -> {"new", "connected", "left", "broken"}]
    BY DEF Agreed, TypeOK
  <2>2. [client EXCEPT ![c] = client[c]] = client
    BY <2>1
  <2>. QED
    BY <2>2 DEF WritePiece, Leave, Break, Waits, serverVars
<1>2. /\ client \in [Clients -> {"new", "connected", "left", "broken"}]
      /\ backlog \in Seq(Clients)
      /\ written \in [Clients -> Nat]
      /\ \A d \in Clients : written[d] <= Total(d)
      /\ ready_sockets \subseteq current_sockets
  BY DEF Agreed, TypeOK
<1>3. /\ client' \in [Clients -> {"new", "connected", "left", "broken"}]
      /\ \A d \in Clients : client'[d] = "new" <=> client[d] = "new"
  <2>1. PICK e \in {"left", "broken", client[c]} : client' = [client EXCEPT ![c] = e]
    BY <1>1
  <2>2. e # "new" /\ e \in {"new", "connected", "left", "broken"}
    BY <1>1, <1>2, <2>1
  <2>. QED
    BY <1>1, <1>2, <2>1, <2>2
<1>4. /\ written' \in [Clients -> Nat]
      /\ \A d \in Clients : written'[d] <= Total(d) /\ written'[d] >= written[d]
  <2>1. CASE written' = written
    BY <1>2, <2>1
  <2>2. CASE written[c] < Total(c) /\ written' = [written EXCEPT ![c] = @ + 1]
    BY <1>2, <2>2, TotalIs
  <2>. QED
    BY <2>1, <2>2 DEF WritePiece, Leave, Break
<1>5. ASSUME alive PROVE NewAreFresh' /\ MainIsReady'
  <2>1. NewAreFresh /\ MainIsReady
    BY <1>5 DEF Agreed, Serving
  <2>2. \A d : Fresh(d) => Fresh(d)'
    BY <1>1, FreshStays
  <2>3. MainIsReady'
    BY <1>1, <2>1 DEF MainIsReady
  <2>4. \A k \in DOMAIN backlog : backlog[k] \in Clients
    BY <1>2, LenProperties
  <2>5. NewAreFresh'
    BY <1>1, <1>3, <2>1, <2>2, <2>4 DEF NewAreFresh
  <2>. QED
    BY <2>3, <2>5
<1>6. ready_sockets' \subseteq current_sockets /\ backlog' \in Seq(Clients)
  BY <1>1, <1>2
<1>. QED
  BY <1>1, <1>3, <1>4, <1>5, <1>6, ServerAlone

LEMMA SelectKeeps == ASSUME Agreed, Select PROVE Agreed'
<1>1. /\ ready_sockets' = {f \in current_sockets : readable(f)}
      /\ alive
      /\ UNCHANGED <<request, client, written, backlog, taken, answer, asset,
                     fds, tcp_conns, current_sockets, alive>>
  BY DEF Select, clientVars
<1>2. /\ client \in [Clients -> {"new", "connected", "left", "broken"}]
      /\ backlog \in Seq(Clients)
      /\ written \in [Clients -> Nat]
      /\ \A d \in Clients : written[d] <= Total(d)
  BY DEF Agreed, TypeOK
<1>3. NewAreFresh'
  <2>1. NewAreFresh
    BY <1>1 DEF Agreed, Serving
  <2>2. \A d : Fresh(d) => Fresh(d)'
    BY <1>1, FreshStays
  <2>. QED
    BY <1>1, <2>1, <2>2 DEF NewAreFresh
<1>4. MainIsReady'
  <2>1. tcp_main \in ready_sockets' => readable(tcp_main)
    BY <1>1
  <2>2. readable(tcp_main) => backlog # <<>>
    BY DEF readable
  <2>. QED
    BY <1>1, <2>1, <2>2 DEF MainIsReady
<1>5. ready_sockets' \subseteq current_sockets
  BY <1>1
<1>6. \A d \in Clients : written'[d] <= Total(d) /\ written'[d] >= written[d]
  BY <1>1, <1>2
<1>. QED
  BY <1>1, <1>2, <1>3, <1>4, <1>5, <1>6, ServerAlone

-----------------------------------------------------------------------------
(***************************************************************************)
(* What the steps of the server have in common.                            *)
(***************************************************************************)

\* A step about c leaves the others as new as they were.
LEMMA OthersStayFresh ==
    ASSUME NEW c \in Clients,
           \A d \in Clients \ {c} : /\ taken'[d] = taken[d]
                                    /\ answer'[d] = answer[d]
                                    /\ asset'[d] = asset[d],
           \A f \in Fds : fds'[f] \in {fds[f], c, None, AssetFile}
    PROVE  \A d \in Clients \ {c} : Fresh(d) => Fresh(d)'
<1> SUFFICES ASSUME NEW d \in Clients, d # c, Fresh(d)
             PROVE  Fresh(d)'
  OBVIOUS
<1>1. d # None /\ d # AssetFile
  BY ClientsAre
<1>2. \A f \in Fds : fds'[f] # d
  BY <1>1 DEF Fresh
<1>3. taken'[d] = 0 /\ answer'[d] = <<>> /\ asset'[d] = None
  BY DEF Fresh
<1>. QED
  BY <1>2, <1>3 DEF Fresh

\* A step about the slot i and its connection leaves the other slots right.
LEMMA OthersStayRight ==
    ASSUME NEW c \in Clients, NEW i \in Slots,
           request' = request,
           \A j \in Slots : SlotAgrees(tcp_conns[j]),
           \A d \in Clients \ {c} : taken'[d] = taken[d] /\ asset'[d] = asset[d],
           \A j \in Slots \ {i} :
               /\ tcp_conns'[j] = tcp_conns[j]
               /\ tcp_conns[j].socket_id \in Fds =>
                      /\ fds[tcp_conns[j].socket_id] \in Clients \ {c}
                      /\ fds'[tcp_conns[j].socket_id] = fds[tcp_conns[j].socket_id]
    PROVE  \A j \in Slots \ {i} : SlotAgrees(tcp_conns[j])'
<1> SUFFICES ASSUME NEW j \in Slots, j # i
             PROVE  SlotAgrees(tcp_conns[j])'
  OBVIOUS
<1>1. PICK slot : slot = tcp_conns[j]
  OBVIOUS
<1>2. SlotAgrees(slot) /\ tcp_conns'[j] = slot
  BY <1>1
<1>3. slot # UnusedSlot => slot.socket_id \in Fds
  BY <1>2 DEF SlotAgrees
<1>4. ASSUME NEW d, slot # UnusedSlot, d = fds[slot.socket_id]
      PROVE  fds'[slot.socket_id] = d /\ taken'[d] = taken[d] /\ asset'[d] = asset[d]
  <2>1. d \in Clients \ {c} /\ fds'[slot.socket_id] = d
    BY <1>1, <1>3, <1>4
  <2>. QED
    BY <2>1
<1>5. SlotAgrees(slot)'
  BY <1>2, <1>4, SlotStays
<1>. QED
  BY <1>2, <1>5

\* The types, one by one.
LEMMA Types ==
    ASSUME TypeOK
    PROVE  /\ request \in [Clients -> Kinds]
           /\ client \in [Clients -> {"new", "connected", "left", "broken"}]
           /\ written \in [Clients -> Nat]
           /\ taken \in [Clients -> Nat]
           /\ answer \in [Clients -> Seq(Answer)]
           /\ asset \in [Clients -> {None} \cup Seq(Piece \cup {Zero})]
           /\ backlog \in Seq(Clients)
           /\ fds \in [Fds -> Clients \cup {None, AssetFile}]
           /\ tcp_conns \in [Slots -> SlotType]
           /\ current_sockets \subseteq Fds \cup {tcp_main}
           /\ ready_sockets \subseteq current_sockets
  BY RequestsAssumption DEF TypeOK

\* What Visit finds and leaves.
LEMMA VisitIs ==
    ASSUME Agreed, NEW f, Visit(f)
    PROVE  /\ alive
           /\ f \in ready_sockets
           /\ f \in current_sockets
           /\ ready_sockets' = ready_sockets \ {f}
           /\ ready_sockets' \subseteq current_sockets \ {f}
<1>1. alive /\ ready_sockets # {} /\ f = Min(ready_sockets) /\ ready_sockets' = ready_sockets \ {f}
  BY DEF Visit
<1>2. ready_sockets \subseteq current_sockets /\ current_sockets \subseteq Fds \cup {tcp_main}
  BY DEF Agreed, TypeOK
<1>3. ready_sockets \in SUBSET Nat
  BY <1>2, FdsAre
<1>4. f \in ready_sockets
  BY <1>1, <1>3, MinIs
<1>. QED
  BY <1>1, <1>2, <1>4

\* A connection that is taken off the backlog: who waits after it is as new as
\* before (accept_new_tcp).
LEMMA BacklogMoves ==
    ASSUME Agreed, alive, backlog # <<>>,
           NEW c \in Clients, c = Head(backlog),
           backlog' = Tail(backlog),
           UNCHANGED <<client, taken, asset>>,
           answer \in [Clients -> Seq(Answer)],
           \A d \in Clients \ {c} : answer'[d] = answer[d],
           \A f \in Fds : fds'[f] \in {fds[f], c, None, AssetFile}
    PROVE  backlog' \in Seq(Clients) /\ NewAreFresh' /\ Fresh(c) /\ client[c] # "new"
<1>1. NewAreFresh /\ backlog \in Seq(Clients)
  BY DEF Agreed, Serving, TypeOK
<1> DEFINE n == Len(backlog)
<1>2. n \in Nat /\ n >= 1 /\ DOMAIN backlog = 1..n /\ \A k \in 1..n : backlog[k] \in Clients
  BY <1>1, LenProperties, EmptySeq
<1>3. /\ backlog' \in Seq(Clients)
      /\ DOMAIN backlog' = 1..(n - 1)
      /\ \A k \in 1..(n - 1) : backlog'[k] = backlog[k + 1]
  <2>1. /\ Tail(backlog) \in Seq(Clients)
        /\ Len(Tail(backlog)) = n - 1
        /\ \A k \in 1..Len(Tail(backlog)) : Tail(backlog)[k] = backlog[k + 1]
    BY <1>1, HeadTailProperties
  <2>. QED
    BY <2>1, LenProperties
<1>4. c = backlog[1]
  OBVIOUS
<1> HIDE DEF n
<1>5. Fresh(c) /\ client[c] # "new"
  <2>1. 1 \in DOMAIN backlog
    BY <1>2
  <2>2. client[backlog[1]] # "new" /\ Fresh(backlog[1])
    BY <1>1, <2>1 DEF NewAreFresh
  <2>. QED
    BY <1>4, <2>2
<1>6. \A d \in Clients \ {c} : Fresh(d) => Fresh(d)'
  <2>1. \A d \in Clients \ {c} : /\ taken'[d] = taken[d]
                                 /\ answer'[d] = answer[d]
                                 /\ asset'[d] = asset[d]
    OBVIOUS
  <2>. QED
    BY <2>1, OthersStayFresh
<1>7. ASSUME NEW k \in 1..(n - 1)
      PROVE  (client[backlog[k]] # "new" /\ Fresh(backlog[k]))'
  <2>1. k + 1 \in 1..n /\ k + 1 # 1 /\ 1 \in 1..n
    BY <1>2
  <2>2. PICK d \in Clients : d = backlog[k + 1] /\ d = backlog'[k]
    BY <1>2, <1>3, <2>1
  <2>3. d # c
    BY <1>1, <1>2, <1>4, <2>1, <2>2 DEF NewAreFresh
  <2>4. client[d] # "new" /\ Fresh(d)
    BY <1>1, <1>2, <2>1, <2>2 DEF NewAreFresh
  <2>5. client'[d] # "new" /\ Fresh(d)'
    BY <1>6, <2>3, <2>4
  <2>. QED
    BY <2>2, <2>5
<1>8. ASSUME NEW j \in 1..(n - 1), NEW k \in 1..(n - 1), backlog'[j] = backlog'[k]
      PROVE  j = k
  <2>1. j + 1 \in 1..n /\ k + 1 \in 1..n
    BY <1>2
  <2>2. backlog[j + 1] = backlog[k + 1]
    BY <1>3, <1>8
  <2>3. j + 1 = k + 1
    BY <1>1, <1>2, <2>1, <2>2 DEF NewAreFresh
  <2>. QED
    BY <1>2, <2>3
<1>9. NewAreFresh'
  <2>1. \A d \in Clients : client'[d] = "new" => Fresh(d)'
    BY <1>1, <1>5, <1>6 DEF NewAreFresh
  <2>2. \A k \in DOMAIN backlog' : (client[backlog[k]] # "new" /\ Fresh(backlog[k]))'
    BY <1>3, <1>7
  <2>3. \A j, k \in DOMAIN backlog' : backlog'[j] = backlog'[k] => j = k
    BY <1>3, <1>8
  <2>. QED
    BY <2>1, <2>2, <2>3 DEF NewAreFresh
<1>. QED
  BY <1>3, <1>5, <1>9

-----------------------------------------------------------------------------
(***************************************************************************)
(* accept_new_tcp.                                                         *)
(***************************************************************************)

\* A slot that is not used has no descriptor, and the other way round.
LEMMA UnusedIs ==
    /\ UnusedSlot.socket_id = -1
    /\ \A slot : SlotAgrees(slot) =>
           (slot.socket_id \notin Fds <=> slot = UnusedSlot)
    /\ UnusedSlot \in SlotType
    /\ <<>> \in Seq(Piece \cup {Zero})
<1>1. UnusedSlot.socket_id = -1
  BY DEF UnusedSlot
<1>2. \A slot : SlotAgrees(slot) => (slot.socket_id \notin Fds <=> slot = UnusedSlot)
  BY <1>1, FdsAre DEF SlotAgrees
<1>3. <<>> \in Seq(Piece \cup {Zero})
  OBVIOUS
<1>4. UnusedSlot \in SlotType
  BY <1>3 DEF UnusedSlot, SlotType
<1>. QED
  BY <1>1, <1>2, <1>3, <1>4

\* A connection that gets a slot.
LEMMA AcceptKeeps ==
    ASSUME Agreed, alive, backlog # <<>>,
           NEW c \in Clients, c = Head(backlog), backlog' = Tail(backlog),
           NEW g \in Fds, fds[g] = None,
           NEW i \in Slots, tcp_conns[i].socket_id = -1,
           tcp_conns' = new_tcpconn(tcp_conns, i, g),
           fds' = [fds EXCEPT ![g] = c],
           current_sockets' = current_sockets \cup {g},
           ready_sockets' \subseteq current_sockets \ {tcp_main},
           UNCHANGED <<request, client, written, taken, answer, asset, alive>>
    PROVE  Agreed'
<1>1. /\ client \in [Clients -> {"new", "connected", "left", "broken"}]
      /\ taken \in [Clients -> Nat]
      /\ answer \in [Clients -> Seq(Answer)]
      /\ fds \in [Fds -> Clients \cup {None, AssetFile}]
      /\ tcp_conns \in [Slots -> SlotType]
      /\ current_sockets \subseteq Fds \cup {tcp_main}
  BY Types DEF Agreed
<1>2. /\ fds' \in [Fds -> Clients \cup {None, AssetFile}]
      /\ fds'[g] = c
      /\ \A f \in Fds : f # g => fds'[f] = fds[f]
      /\ \A f \in Fds : fds'[f] \in {fds[f], c, None, AssetFile}
  BY <1>1
<1>3. Serving /\ TableAgrees
  BY DEF Agreed
<1>4. tcp_conns[i] = UnusedSlot
  <2>1. SlotAgrees(tcp_conns[i])
    BY <1>3 DEF Serving
  <2>2. tcp_conns[i].socket_id \notin Fds
    BY FdsAre
  <2>. QED
    BY <2>1, <2>2, UnusedIs
<1> DEFINE slot == [UnusedSlot EXCEPT !.socket_id = g]
<1>5. /\ slot \in SlotType
      /\ slot.socket_id = g
      /\ slot.buffer = <<>>
      /\ slot.buffer_i = 0
      /\ slot.in_file = FALSE
  BY UnusedIs DEF UnusedSlot, SlotType
<1>6. /\ tcp_conns'[i] = slot
      /\ \A j \in Slots : j # i => tcp_conns'[j] = tcp_conns[j]
      /\ tcp_conns' \in [Slots -> SlotType]
  <2>1. new_tcpconn(tcp_conns, i, g) = [tcp_conns EXCEPT ![i] = slot]
    <3>1. [[UnusedSlot EXCEPT !.socket_id = g] EXCEPT !.buffer = <<>>] = slot
      <4>1. [slot EXCEPT !.buffer = <<>>] = slot
        <5> HIDE DEF slot
        <5>. QED
          BY <1>5 DEF SlotType
      <4>. QED
        BY <4>1
    <3>. QED
      BY <1>1, <1>4, <3>1 DEF new_tcpconn
  <2> HIDE DEF slot
  <2>. QED
    BY <1>1, <1>5, <2>1
<1> HIDE DEF slot
<1>7. /\ backlog' \in Seq(Clients)
      /\ NewAreFresh'
      /\ Fresh(c)
      /\ client[c] # "new"
  BY <1>1, <1>2, BacklogMoves
<1>8. TypeOK'
  <2>1. \A d : Total(d)' = Total(d)
    BY DEF Total
  <2>2. current_sockets' \subseteq Fds \cup {tcp_main} /\ ready_sockets' \subseteq current_sockets'
    BY <1>1
  <2>. QED
    BY <1>2, <1>6, <1>7, <2>1, <2>2 DEF Agreed, TypeOK
<1>9. TableAgrees'
  <2>1. \A f \in Fds : Opened(f)' <=> Opened(f) \/ f = g
    BY <1>2 DEF Opened
  <2>2. \A j \in Slots : tcp_conns'[j].socket_id = IF j = i THEN g ELSE tcp_conns[j].socket_id
    BY <1>5, <1>6
  <2>3. \A j \in Slots : tcp_conns[j].socket_id # g
    BY <1>3, ClientsAre DEF TableAgrees, Opened
  <2>4. current_sockets' \ {tcp_main} = {f \in Fds : Opened(f)'}
    <3>1. g # tcp_main
      BY FdsAre
    <3>2. current_sockets \ {tcp_main} = {f \in Fds : Opened(f)}
      BY <1>3 DEF TableAgrees
    <3>. QED
      BY <2>1, <3>1, <3>2
  <2>5. \A f \in Fds : Opened(f)' <=> \E j \in Slots : tcp_conns'[j].socket_id = f
    <3>1. \A f \in Fds : Opened(f) <=> \E j \in Slots : tcp_conns[j].socket_id = f
      BY <1>3 DEF TableAgrees
    <3>2. \A f \in Fds : f # -1
      BY FdsAre
    <3>. QED
      BY <2>1, <2>2, <3>1, <3>2
  <2>6. \A j, k \in Slots :
            /\ tcp_conns'[j].socket_id = tcp_conns'[k].socket_id
            /\ tcp_conns'[j].socket_id # -1
            => j = k
    BY <1>3, <2>2, <2>3 DEF TableAgrees
  <2>. QED
    BY <2>4, <2>5, <2>6 DEF TableAgrees
<1>10. AnswerIsOwn' /\ AssetIsOwn'
  <2>1. answer' = answer /\ asset' = asset /\ taken' = taken
    OBVIOUS
  <2>2. \A d : Total(d)' = Total(d) /\ PiecesOf(d, 1, taken[d])' = PiecesOf(d, 1, taken[d])
    BY <2>1 DEF Total, PiecesOf
  <2>. QED
    BY <2>1, <2>2 DEF Agreed, AnswerIsOwn, AssetIsOwn
<1>11. DescriptorsBounded'
  <2>1. {f \in Fds : fds'[f] = AssetFile} = {f \in Fds : fds[f] = AssetFile}
    BY <1>2, ClientsAre
  <2>. QED
    BY <2>1 DEF Agreed, DescriptorsBounded
<1>12. OpenedOnce'
  <2>1. \A f \in Fds : fds[f] # c
    BY <1>7 DEF Fresh
  <2>2. \A f, h \in Fds : Opened(f)' /\ fds'[f] = fds'[h] => f = h
    BY <1>2, <1>3, <2>1 DEF Serving, OpenedOnce, Opened
  <2>3. \A f \in Fds : Opened(f)' => answer'[fds'[f]] = <<>>
    BY <1>2, <1>3, <1>7 DEF Serving, OpenedOnce, Opened, Fresh
  <2>. QED
    BY <2>2, <2>3 DEF OpenedOnce
<1>13. MainIsReady'
  BY DEF MainIsReady
<1>14. ASSUME NEW j \in Slots PROVE SlotAgrees(tcp_conns[j])'
  <2>1. CASE j # i
    <3>1. \A k \in Slots : SlotAgrees(tcp_conns[k])
      BY <1>3 DEF Serving
    <3>2. \A k \in Slots \ {i} :
              tcp_conns[k].socket_id \in Fds =>
                  /\ fds[tcp_conns[k].socket_id] \in Clients \ {c}
                  /\ fds'[tcp_conns[k].socket_id] = fds[tcp_conns[k].socket_id]
      <4>1. \A f \in Fds : Opened(f) => fds[f] \in Clients \ {c} /\ fds'[f] = fds[f]
        BY <1>2, <1>7, ClientsAre DEF Opened, Fresh
      <4>. QED
        BY <1>3, <4>1 DEF TableAgrees
    <3>. QED
      BY <1>6, <2>1, <3>1, <3>2, OthersStayRight
  <2>2. CASE j = i
    <3>1. taken'[c] = 0 /\ asset'[c] = None /\ fds'[g] = c
      BY <1>2, <1>7 DEF Fresh
    <3>2. Total(c)' = Total(c) /\ Total(c) \in Nat \ {0}
      BY TotalIs DEF Total
    <3>3. PiecesOf(c, 0, taken[c])' = <<>>
      <4>1. PiecesOf(c, 0, 0) = <<>>
        BY DEF PiecesOf
      <4>. QED
        BY <3>1, <4>1 DEF PiecesOf
    <3>4. Collecting(slot, c)'
      BY <1>5, <3>1, <3>2, <3>3 DEF Collecting
    <3>. QED
      BY <1>5, <1>6, <2>2, <3>1, <3>4 DEF SlotAgrees
  <2>. QED
    BY <2>1, <2>2
<1>. QED
  BY <1>7, <1>8, <1>9, <1>10, <1>11, <1>12, <1>13, <1>14 DEF Agreed, Serving

\* The one answer a connection gets.
LEMMA AnswerOnce ==
    ASSUME answer \in [Clients -> Seq(Answer)], AnswerIsOwn,
           NEW c \in Clients, answer[c] = <<>>,
           NEW res \in Answer,
           res \in {TooMany} \cup [status : Statuses, to : {c}],
           answer' = [answer EXCEPT ![c] = Append(@, res)]
    PROVE  /\ answer' \in [Clients -> Seq(Answer)]
           /\ answer'[c] = <<res>>
           /\ \A d \in Clients \ {c} : answer'[d] = answer[d]
           /\ AnswerIsOwn'
<1>1. Append(<<>>, res) = <<res>>
  OBVIOUS
<1>2. <<res>> \in Seq(Answer) /\ Len(<<res>>) = 1 /\ <<res>>[1] = res
  OBVIOUS
<1>3. /\ answer' \in [Clients -> Seq(Answer)]
      /\ answer'[c] = <<res>>
      /\ \A d \in Clients \ {c} : answer'[d] = answer[d]
  <2>1. answer' = [answer EXCEPT ![c] = <<res>>]
    BY <1>1
  <2>. QED
    BY <1>2, <2>1
<1>4. ASSUME NEW d \in Clients
      PROVE  /\ Len(answer'[d]) <= 1
             /\ answer'[d] # <<>> => answer'[d][1] \in {TooMany} \cup
                    [status : Statuses, to : {d}]
  <2>1. CASE d = c
    BY <1>2, <1>3, <2>1
  <2>2. CASE d # c
    BY <1>3, <2>2 DEF AnswerIsOwn
  <2>. QED
    BY <2>1, <2>2
<1>5. AnswerIsOwn'
  BY <1>4 DEF AnswerIsOwn, TooMany
<1>. QED
  BY <1>3, <1>5

\* A connection that finds the table full.
LEMMA RefuseKeeps ==
    ASSUME Agreed, alive, backlog # <<>>,
           NEW c \in Clients, c = Head(backlog), backlog' = Tail(backlog),
           NEW g \in Fds, fds[g] = None,
           send_tcp(g, c, TooMany),
           ready_sockets' \subseteq current_sockets \ {tcp_main},
           UNCHANGED <<request, client, written, taken, asset, current_sockets, alive>>
    PROVE  Agreed'
<1>1. /\ client \in [Clients -> {"new", "connected", "left", "broken"}]
      /\ taken \in [Clients -> Nat]
      /\ answer \in [Clients -> Seq(Answer)]
      /\ fds \in [Fds -> Clients \cup {None, AssetFile}]
      /\ tcp_conns \in [Slots -> SlotType]
      /\ current_sockets \subseteq Fds \cup {tcp_main}
  BY Types DEF Agreed
<1>2. fds' = fds
  BY <1>1 DEF send_tcp
<1>3. Serving /\ TableAgrees
  BY DEF Agreed
<1>4. tcp_conns' = tcp_conns
  <2>1. \A j \in Slots : tcp_conns[j].socket_id # g
    BY <1>3, ClientsAre DEF TableAgrees, Opened
  <2>2. rm_tcpconn(tcp_conns, g) = tcp_conns
    BY <1>1, <2>1 DEF rm_tcpconn
  <2>. QED
    BY <2>2 DEF send_tcp
<1>5. /\ backlog' \in Seq(Clients)
      /\ NewAreFresh'
      /\ Fresh(c)
      /\ client[c] # "new"
  <2>1. /\ \A d \in Clients \ {c} : answer'[d] = answer[d]
        /\ \A f \in Fds : fds'[f] \in {fds[f], c, None, AssetFile}
    BY <1>1, <1>2 DEF send_tcp
  <2>. QED
    BY <1>1, <2>1, BacklogMoves
<1>6. TooMany \in Answer
  BY DEF TooMany, Answer
<1>7. /\ answer' \in [Clients -> Seq(Answer)]
      /\ answer'[c] = <<TooMany>>
      /\ \A d \in Clients \ {c} : answer'[d] = answer[d]
      /\ AnswerIsOwn'
  <2>1. answer[c] = <<>> /\ AnswerIsOwn
    BY <1>5 DEF Fresh, Agreed
  <2>2. answer' = [answer EXCEPT ![c] = Append(@, TooMany)]
    BY DEF send_tcp
  <2>. QED
    BY <1>1, <1>6, <2>1, <2>2, AnswerOnce
<1>8. \A d : Total(d)' = Total(d) /\ PiecesOf(d, 1, taken[d])' = PiecesOf(d, 1, taken[d])
  BY DEF Total, PiecesOf
<1>9. TypeOK'
  <2>1. ready_sockets' \subseteq current_sockets'
    OBVIOUS
  <2>. QED
    BY <1>2, <1>4, <1>5, <1>7, <1>8, <2>1 DEF Agreed, TypeOK
<1>10. TableAgrees' /\ DescriptorsBounded'
  BY <1>2, <1>4 DEF Agreed, TableAgrees, DescriptorsBounded, Opened
<1>11. AssetIsOwn'
  <2>1. asset[c] = None
    BY <1>5 DEF Fresh
  <2>. QED
    BY <1>7, <1>8, <2>1 DEF Agreed, AssetIsOwn
<1>12. OpenedOnce'
  BY <1>2, <1>3, <1>5, <1>7 DEF Serving, OpenedOnce, Opened, Fresh
<1>13. MainIsReady'
  BY DEF MainIsReady
<1>14. ASSUME NEW j \in Slots PROVE SlotAgrees(tcp_conns[j])'
  <2>1. PICK slot : slot = tcp_conns[j]
    OBVIOUS
  <2>2. SlotAgrees(slot)
    BY <1>3, <2>1 DEF Serving
  <2>3. SlotAgrees(slot)'
    BY <1>2, <2>2, SlotStays
  <2>. QED
    BY <1>4, <2>1, <2>3
<1>. QED
  BY <1>5, <1>7, <1>9, <1>10, <1>11, <1>12, <1>13, <1>14 DEF Agreed, Serving

LEMMA AcceptNewKeeps == ASSUME Agreed, accept_new_tcp PROVE Agreed'
<1> DEFINE c == Head(backlog)
           newfd == FirstFree(fds)
           free == {i \in Slots : tcp_conns[i].socket_id = -1}
<1>1. /\ alive /\ tcp_main \in ready_sockets
      /\ ready_sockets' \subseteq current_sockets \ {tcp_main}
  BY VisitIs DEF accept_new_tcp
<1>2. backlog # <<>> /\ c \in Clients
  <2>1. backlog \in Seq(Clients) /\ MainIsReady
    BY <1>1 DEF Agreed, TypeOK, Serving
  <2>2. backlog # <<>>
    BY <1>1, <2>1 DEF MainIsReady
  <2>. QED
    BY <2>1, <2>2, HeadTailProperties
<1>3. newfd \in Fds /\ fds[newfd] = None
  BY FreeFd DEF Agreed
<1>4. /\ backlog' = Tail(backlog)
      /\ UNCHANGED <<request, client, written, taken, asset, alive>>
  BY DEF accept_new_tcp, clientVars
<1>5. CASE /\ free # {}
           /\ tcp_conns' = new_tcpconn(tcp_conns, Min(free), newfd)
           /\ fds' = [fds EXCEPT ![newfd] = c]
           /\ current_sockets' = current_sockets \cup {newfd}
           /\ UNCHANGED answer
  <2>1. PICK i \in Slots : i = Min(free) /\ tcp_conns[i].socket_id = -1
    <3>1. free \in SUBSET Nat
      BY SlotsAre
    <3>2. Min(free) \in free
      <4> HIDE DEF free
      <4>. QED
        BY <1>5, <3>1, MinIs
    <3>. QED
      BY <3>2
  <2>2. PICK b \in Clients : b = c
    BY <1>2
  <2>3. PICK g \in Fds : g = newfd
    BY <1>3
  <2> HIDE DEF c, newfd, free
  <2>4. tcp_conns' = new_tcpconn(tcp_conns, i, g) /\ fds' = [fds EXCEPT ![g] = b]
        /\ current_sockets' = current_sockets \cup {g} /\ answer' = answer /\ fds[g] = None
    BY <1>3, <1>5, <2>1, <2>2, <2>3
  <2>5. b = Head(backlog)
    BY <2>2 DEF c
  <2>. QED
    BY <1>1, <1>2, <1>4, <2>1, <2>4, <2>5, AcceptKeeps
<1>6. CASE send_tcp(newfd, c, TooMany) /\ UNCHANGED current_sockets
  <2>1. PICK b \in Clients : b = c
    BY <1>2
  <2>2. PICK g \in Fds : g = newfd
    BY <1>3
  <2>3. send_tcp(g, b, TooMany) /\ fds[g] = None /\ b = Head(backlog)
    BY <1>3, <1>6, <2>1, <2>2
  <2>. QED
    BY <1>1, <1>2, <1>4, <1>6, <2>3, RefuseKeeps
<1>. QED
  BY <1>5, <1>6 DEF accept_new_tcp

-----------------------------------------------------------------------------
(***************************************************************************)
(* What a read can do to the connection f of the client c.                 *)
(***************************************************************************)

\* The descriptors left behind: none is added without a file of its own.
LEMMA BoundKept ==
    ASSUME TypeOK, DescriptorsBounded,
           NEW c \in Clients,
           \A d \in Clients \ {c} : asset'[d] = asset[d],
           \/ /\ \A g \in Fds : fds'[g] = AssetFile => fds[g] = AssetFile
              /\ asset[c] # None => asset'[c] # None
           \/ /\ \E h \in Fds : \A g \in Fds \ {h} : fds'[g] = AssetFile => fds[g] = AssetFile
              /\ asset[c] = None /\ asset'[c] # None
    PROVE  DescriptorsBounded'
<1> DEFINE A == {g \in Fds : fds[g] = AssetFile}
           B == {g \in Fds : fds'[g] = AssetFile}
           C == {d \in Clients : asset[d] # None}
           D == {d \in Clients : asset'[d] # None}
<1>1. /\ A \subseteq Fds /\ B \subseteq Fds /\ C \subseteq Clients /\ D \subseteq Clients
      /\ Cardinality(A) <= Cardinality(C)
  BY DEF DescriptorsBounded
<1>2. IsFiniteSet(A) /\ IsFiniteSet(B) /\ IsFiniteSet(C) /\ IsFiniteSet(D)
  BY <1>1, FdsAre, ClientsAre, FS_Subset
<1>3. /\ Cardinality(A) \in Nat /\ Cardinality(B) \in Nat
      /\ Cardinality(C) \in Nat /\ Cardinality(D) \in Nat
  BY <1>2, FS_CardinalityType
<1>4. CASE /\ \A g \in Fds : fds'[g] = AssetFile => fds[g] = AssetFile
           /\ asset[c] # None => asset'[c] # None
  <2>1. B \subseteq A /\ C \subseteq D
    BY <1>4
  <2> HIDE DEF A, B, C, D
  <2>2. Cardinality(B) <= Cardinality(A) /\ Cardinality(C) <= Cardinality(D)
    BY <1>2, <2>1, FS_Subset
  <2>3. Cardinality(B) <= Cardinality(D)
    BY <1>1, <1>3, <2>2
  <2>. QED
    BY <2>3 DEF B, D, DescriptorsBounded
<1>5. CASE /\ \E h \in Fds : \A g \in Fds \ {h} : fds'[g] = AssetFile => fds[g] = AssetFile
           /\ asset[c] = None /\ asset'[c] # None
  <2>1. PICK h \in Fds : \A g \in Fds \ {h} : fds'[g] = AssetFile => fds[g] = AssetFile
    BY <1>5
  <2>2. B \subseteq A \cup {h} /\ C \cup {c} \subseteq D /\ c \notin C
    BY <1>5, <2>1
  <2> HIDE DEF A, B, C, D
  <2>3. /\ IsFiniteSet(A \cup {h})
        /\ Cardinality(A \cup {h}) <= Cardinality(A) + 1
        /\ IsFiniteSet(C \cup {c})
        /\ Cardinality(C \cup {c}) = Cardinality(C) + 1
    <3>1. /\ IsFiniteSet(A \cup {h})
          /\ Cardinality(A \cup {h}) = IF h \in A THEN Cardinality(A) ELSE Cardinality(A) + 1
      BY <1>2, FS_AddElement, Zenon
    <3>2. /\ IsFiniteSet(C \cup {c})
          /\ Cardinality(C \cup {c}) = IF c \in C THEN Cardinality(C) ELSE Cardinality(C) + 1
      BY <1>2, FS_AddElement, Zenon
    <3>3. Cardinality(A \cup {h}) <= Cardinality(A) + 1
      BY <1>3, <3>1
    <3>. QED
      BY <2>2, <3>1, <3>2, <3>3, Zenon
  <2>4. /\ Cardinality(A \cup {h}) \in Nat
        /\ Cardinality(B) <= Cardinality(A \cup {h})
        /\ Cardinality(C \cup {c}) <= Cardinality(D)
    BY <1>2, <2>2, <2>3, FS_Subset, FS_CardinalityType
  <2>5. Cardinality(B) <= Cardinality(D)
    BY <1>1, <1>3, <2>3, <2>4
  <2>. QED
    BY <2>5 DEF B, D, DescriptorsBounded
<1>. QED
  BY <1>4, <1>5

\* What the server knows of a connection that is open.
LEMMA OpenIs ==
    ASSUME Agreed, alive, NEW f \in Fds, NEW c \in Clients, fds[f] = c
    PROVE  /\ answer[c] = <<>>
           /\ ~Fresh(c)
           /\ \A g \in Fds : fds[g] = c => g = f
           /\ SlotOf(f) \in Slots
           /\ tcp_conns[SlotOf(f)].socket_id = f
           /\ \A j \in Slots : tcp_conns[j].socket_id = f => j = SlotOf(f)
           /\ Collecting(tcp_conns[SlotOf(f)], c) \/ Filing(tcp_conns[SlotOf(f)], c)
           /\ \A j \in Slots \ {SlotOf(f)} :
                  tcp_conns[j].socket_id \in Fds =>
                      fds[tcp_conns[j].socket_id] \in Clients \ {c}
<1>1. Serving /\ TableAgrees /\ Opened(f)
  BY DEF Agreed, Opened
<1>2. answer[c] = <<>> /\ ~Fresh(c) /\ \A g \in Fds : fds[g] = c => g = f
  BY <1>1 DEF Serving, OpenedOnce, Fresh, Opened
<1>3. PICK i \in Slots : i = SlotOf(f) /\ tcp_conns[i].socket_id = f
  BY <1>1, SlotOfIs
<1>4. \A j \in Slots : tcp_conns[j].socket_id = f => j = i
  BY <1>1, <1>3, FdsAre DEF TableAgrees
<1>5. Collecting(tcp_conns[i], c) \/ Filing(tcp_conns[i], c)
  <2>1. SlotAgrees(tcp_conns[i])
    BY <1>1 DEF Serving
  <2>2. tcp_conns[i] # UnusedSlot
    BY <1>3, <2>1, UnusedIs
  <2>. QED
    BY <1>3, <2>1, <2>2, Zenon DEF SlotAgrees
<1>6. \A j \in Slots \ {i} :
          tcp_conns[j].socket_id \in Fds =>
              fds[tcp_conns[j].socket_id] \in Clients \ {c}
  <2> SUFFICES ASSUME NEW j \in Slots, j # i, NEW g \in Fds, g = tcp_conns[j].socket_id
               PROVE  fds[g] \in Clients \ {c}
    OBVIOUS
  <2>1. g # f
    BY <1>4
  <2>2. Opened(g)
    BY <1>1 DEF TableAgrees
  <2>. QED
    BY <1>2, <2>1, <2>2 DEF Opened
<1>. QED
  BY <1>2, <1>3, <1>4, <1>5, <1>6

\* Who is new stays so while a step is about c.
LEMMA NewStayFresh ==
    ASSUME Agreed, alive, NEW f \in Fds, NEW c \in Clients, fds[f] = c,
           UNCHANGED <<client, backlog>>,
           ready_sockets' \subseteq ready_sockets,
           \A d \in Clients \ {c} : /\ taken'[d] = taken[d]
                                    /\ answer'[d] = answer[d]
                                    /\ asset'[d] = asset[d],
           \A g \in Fds : fds'[g] \in {fds[g], c, None, AssetFile}
    PROVE  NewAreFresh' /\ MainIsReady'
<1>1. NewAreFresh /\ MainIsReady /\ backlog \in Seq(Clients)
  BY DEF Agreed, Serving, TypeOK
<1>2. \A d \in Clients : Fresh(d) => Fresh(d)'
  <2>1. \A d \in Clients \ {c} : Fresh(d) => Fresh(d)'
    BY OthersStayFresh
  <2>. QED
    BY <2>1, OpenIs
<1>3. \A k \in DOMAIN backlog : backlog[k] \in Clients
  BY <1>1, LenProperties
<1>4. NewAreFresh'
  BY <1>1, <1>2, <1>3 DEF NewAreFresh
<1>5. MainIsReady'
  BY <1>1 DEF MainIsReady
<1>. QED
  BY <1>4, <1>5

\* The connection is answered and closed, and whatever file it brought is whole
\* if the answer says so.
LEMMA CloseKeeps ==
    ASSUME Agreed, alive, NEW f \in Fds, NEW c \in Clients, fds[f] = c,
           NEW t \in Nat, t <= written[c], taken' = [taken EXCEPT ![c] = t],
           NEW res \in [status : Statuses, to : {c}],
           send_tcp(f, c, res), Unwatch(f),
           asset' \in [Clients -> {None} \cup Seq(Piece \cup {Zero})],
           \A d \in Clients \ {c} : asset'[d] = asset[d],
           \/ asset'[c] = None
           \/ asset'[c] = PiecesOf(c, 1, t) /\ (res = Ok(c) => t = Total(c)),
           asset[c] # None => asset'[c] # None,
           ready_sockets' = ready_sockets \ {f},
           UNCHANGED <<request, client, written, backlog, alive>>
    PROVE  Agreed'
<1>1. /\ taken \in [Clients -> Nat]
      /\ written \in [Clients -> Nat]
      /\ answer \in [Clients -> Seq(Answer)]
      /\ fds \in [Fds -> Clients \cup {None, AssetFile}]
      /\ tcp_conns \in [Slots -> SlotType]
      /\ current_sockets \subseteq Fds \cup {tcp_main}
      /\ ready_sockets \subseteq current_sockets
  BY Types DEF Agreed
<1>2. Serving /\ TableAgrees /\ AnswerIsOwn /\ AssetIsOwn
  BY DEF Agreed
<1>3. PICK i \in Slots :
          /\ tcp_conns[i].socket_id = f
          /\ \A j \in Slots : tcp_conns[j].socket_id = f => j = i
          /\ \A j \in Slots \ {i} :
                 tcp_conns[j].socket_id \in Fds =>
                     fds[tcp_conns[j].socket_id] \in Clients \ {c}
  BY OpenIs
<1>4. /\ fds' \in [Fds -> Clients \cup {None, AssetFile}]
      /\ fds'[f] = None
      /\ \A g \in Fds : g # f => fds'[g] = fds[g]
      /\ \A g \in Fds : fds'[g] \in {fds[g], c, None, AssetFile}
  BY <1>1 DEF send_tcp
<1>5. /\ tcp_conns' \in [Slots -> SlotType]
      /\ tcp_conns'[i] = UnusedSlot
      /\ \A j \in Slots \ {i} : tcp_conns'[j] = tcp_conns[j]
  <2>1. tcp_conns' = [j \in Slots |-> IF tcp_conns[j].socket_id = f THEN UnusedSlot ELSE tcp_conns[j]]
    BY DEF send_tcp, rm_tcpconn
  <2>. QED
    BY <1>1, <1>3, <2>1, UnusedIs
<1>6. /\ taken' \in [Clients -> Nat]
      /\ taken'[c] = t
      /\ \A d \in Clients \ {c} : taken'[d] = taken[d]
  BY <1>1
<1>7. /\ answer' \in [Clients -> Seq(Answer)]
      /\ answer'[c] = <<res>>
      /\ \A d \in Clients \ {c} : answer'[d] = answer[d]
      /\ AnswerIsOwn'
  <2>1. answer[c] = <<>>
    BY OpenIs
  <2>2. answer' = [answer EXCEPT ![c] = Append(@, res)]
    BY DEF send_tcp
  <2>3. res \in Answer
    BY DEF Answer
  <2>. QED
    BY <1>1, <1>2, <2>1, <2>2, <2>3, AnswerOnce
<1>8. current_sockets' = current_sockets \ {f}
  BY DEF Unwatch
<1>9. \A d : Total(d)' = Total(d)
  BY DEF Total
<1>10. NewAreFresh' /\ MainIsReady'
  <2>1. \A d \in Clients \ {c} : /\ taken'[d] = taken[d]
                                  /\ answer'[d] = answer[d]
                                  /\ asset'[d] = asset[d]
    BY <1>6, <1>7, Zenon
  <2>2. UNCHANGED <<client, backlog>> /\ ready_sockets' \subseteq ready_sockets
    OBVIOUS
  <2>3. \A g \in Fds : fds'[g] \in {fds[g], c, None, AssetFile}
    BY <1>4, Zenon
  <2>. QED
    BY ONLY <2>1, <2>2, <2>3, NewStayFresh, Agreed, alive, f \in Fds, c \in Clients, fds[f] = c
<1>11. TypeOK'
  <2>1. \A d \in Clients : taken'[d] <= written'[d] /\ written'[d] <= Total(d)'
    <3>1. \A d \in Clients : taken[d] <= written[d] /\ written[d] <= Total(d)
      BY DEF Agreed, TypeOK
    <3>. QED
      BY <1>6, <1>9, <3>1
  <2>2. current_sockets' \subseteq Fds \cup {tcp_main} /\ ready_sockets' \subseteq current_sockets'
    BY <1>1, <1>8
  <2>. QED
    BY <1>4, <1>5, <1>6, <1>7, <2>1, <2>2 DEF Agreed, TypeOK
<1>12. TableAgrees'
  <2>1. \A g \in Fds : Opened(g)' <=> Opened(g) /\ g # f
    BY <1>4, ClientsAre DEF Opened
  <2>2. \A j \in Slots : tcp_conns'[j].socket_id = IF j = i THEN -1 ELSE tcp_conns[j].socket_id
    BY <1>5, UnusedIs
  <2>3. current_sockets' \ {tcp_main} = {g \in Fds : Opened(g)'}
    <3>1. f # tcp_main
      BY FdsAre
    <3>2. current_sockets \ {tcp_main} = {g \in Fds : Opened(g)}
      BY <1>2 DEF TableAgrees
    <3>. QED
      BY <1>8, <2>1, <3>1, <3>2
  <2>4. \A g \in Fds : Opened(g)' <=> \E j \in Slots : tcp_conns'[j].socket_id = g
    <3>1. \A g \in Fds : Opened(g) <=> \E j \in Slots : tcp_conns[j].socket_id = g
      BY <1>2 DEF TableAgrees
    <3>2. \A g \in Fds : g # -1
      BY FdsAre
    <3>. QED
      BY <1>3, <2>1, <2>2, <3>1, <3>2
  <2>5. \A j, k \in Slots :
            /\ tcp_conns'[j].socket_id = tcp_conns'[k].socket_id
            /\ tcp_conns'[j].socket_id # -1
            => j = k
    BY <1>2, <2>2 DEF TableAgrees
  <2>. QED
    BY <2>3, <2>4, <2>5 DEF TableAgrees
<1>13. AssetIsOwn'
  <2> SUFFICES ASSUME NEW d \in Clients, asset'[d] # None
               PROVE  /\ asset'[d] = PiecesOf(d, 1, taken[d])'
                      /\ Ok(d) \in {answer'[d][k] : k \in DOMAIN answer'[d]}
                             => taken'[d] = Total(d)'
    BY DEF AssetIsOwn, Ok
  <2>1. CASE d = c
    <3>1. asset'[c] = PiecesOf(c, 1, t) /\ (res = Ok(c) => t = Total(c))
      BY <2>1
    <3>2. PiecesOf(c, 1, taken[c])' = PiecesOf(c, 1, t)
      BY <1>6 DEF PiecesOf
    <3>3. \A k \in DOMAIN <<res>> : <<res>>[k] = res
      OBVIOUS
    <3>. QED
      BY <1>6, <1>7, <1>9, <2>1, <3>1, <3>2, <3>3
  <2>2. CASE d # c
    <3>1. /\ asset'[d] = asset[d] /\ answer'[d] = answer[d] /\ taken'[d] = taken[d]
          /\ Total(d)' = Total(d)
      BY <1>6, <1>7, <1>9, <2>2
    <3>2. PiecesOf(d, 1, taken[d])' = PiecesOf(d, 1, taken[d])
      BY <3>1 DEF PiecesOf
    <3>3. /\ asset[d] = PiecesOf(d, 1, taken[d])
          /\ Ok(d) \in {answer[d][k] : k \in DOMAIN answer[d]} => taken[d] = Total(d)
      BY <1>2, <3>1 DEF AssetIsOwn
    <3>. QED
      BY <3>1, <3>2, <3>3
  <2>. QED
    BY <2>1, <2>2
<1>14. DescriptorsBounded'
  <2>1. \A g \in Fds : fds'[g] = AssetFile => fds[g] = AssetFile
    BY <1>4, ClientsAre
  <2>. QED
    BY <2>1, BoundKept DEF Agreed
<1>15. OpenedOnce'
  <2>1. \A g, h \in Fds : Opened(g)' /\ fds'[g] = fds'[h] => g = h
    BY <1>2, <1>4, ClientsAre DEF Serving, OpenedOnce, Opened
  <2>2. \A g \in Fds : Opened(g)' => fds'[g] = fds[g] /\ fds[g] # c /\ answer[fds[g]] = <<>>
    BY <1>2, <1>4, ClientsAre, OpenIs DEF Serving, OpenedOnce, Opened
  <2>3. ASSUME NEW g \in Fds, Opened(g)'
        PROVE  answer'[fds'[g]] = <<>>
    <3>1. fds'[g] = fds[g] /\ fds[g] # c /\ answer[fds[g]] = <<>>
      BY <2>2, <2>3
    <3>2. fds[g] \in Clients \ {c}
      BY <2>3, <3>1 DEF Opened
    <3>3. answer'[fds[g]] = answer[fds[g]]
      BY <1>7, <3>2
    <3>. QED
      BY <3>1, <3>3
  <2>. QED
    BY <2>1, <2>3 DEF OpenedOnce
<1>16. ASSUME NEW j \in Slots PROVE SlotAgrees(tcp_conns[j])'
  <2>1. CASE j # i
    <3>1. \A k \in Slots : SlotAgrees(tcp_conns[k])
      BY <1>2 DEF Serving
    <3>2. \A k \in Slots \ {i} :
              tcp_conns[k].socket_id \in Fds =>
                  /\ fds[tcp_conns[k].socket_id] \in Clients \ {c}
                  /\ fds'[tcp_conns[k].socket_id] = fds[tcp_conns[k].socket_id]
      BY <1>3, <1>4
    <3>. QED
      BY <1>5, <1>6, <2>1, <3>1, <3>2, OthersStayRight
  <2>2. CASE j = i
    BY <1>5, <2>2 DEF SlotAgrees, UnusedSlot
  <2>. QED
    BY <2>1, <2>2
<1>. QED
  BY <1>7, <1>10, <1>11, <1>12, <1>13, <1>14, <1>15, <1>16 DEF Agreed, Serving

\* The connection stays open, and its slot is s: it holds what has been read.
LEMMA KeepKeeps ==
    ASSUME Agreed, alive, NEW f \in Fds, NEW c \in Clients, fds[f] = c,
           NEW t \in Nat, t <= written[c], taken' = [taken EXCEPT ![c] = t],
           NEW s \in SlotType, s.socket_id = f,
           tcp_conns' = [tcp_conns EXCEPT ![SlotOf(f)] = s],
           Collecting(s, c)' \/ Filing(s, c)',
           asset' \in [Clients -> {None} \cup Seq(Piece \cup {Zero})],
           \A d \in Clients \ {c} : asset'[d] = asset[d],
           asset'[c] = None \/ asset'[c] = PiecesOf(c, 1, t),
           \/ fds' = fds /\ (asset[c] # None => asset'[c] # None)
           \/ /\ \E g \in Fds : fds[g] = None /\ fds' = [fds EXCEPT ![g] = AssetFile]
              /\ asset[c] = None /\ asset'[c] # None,
           ready_sockets' = ready_sockets \ {f},
           UNCHANGED <<request, client, written, backlog, answer,
                       current_sockets, alive>>
    PROVE  Agreed'
<1>1. /\ taken \in [Clients -> Nat]
      /\ written \in [Clients -> Nat]
      /\ fds \in [Fds -> Clients \cup {None, AssetFile}]
      /\ tcp_conns \in [Slots -> SlotType]
      /\ current_sockets \subseteq Fds \cup {tcp_main}
      /\ ready_sockets \subseteq current_sockets
  BY Types DEF Agreed
<1>2. Serving /\ TableAgrees /\ AnswerIsOwn /\ AssetIsOwn
  BY DEF Agreed
<1>3. PICK i \in Slots :
          /\ i = SlotOf(f)
          /\ tcp_conns[i].socket_id = f
          /\ \A j \in Slots \ {i} :
                 tcp_conns[j].socket_id \in Fds =>
                     fds[tcp_conns[j].socket_id] \in Clients \ {c}
  BY OpenIs
<1>4. /\ fds' \in [Fds -> Clients \cup {None, AssetFile}]
      /\ \A g \in Fds : Opened(g) => fds'[g] = fds[g]
      /\ \A g \in Fds : Opened(g)' => Opened(g) /\ fds'[g] = fds[g]
      /\ \A g \in Fds : fds'[g] \in {fds[g], c, None, AssetFile}
  <2>1. CASE fds' = fds
    BY <1>1, <2>1 DEF Opened
  <2>2. CASE \E g \in Fds : fds[g] = None /\ fds' = [fds EXCEPT ![g] = AssetFile]
    BY <1>1, <2>2, ClientsAre DEF Opened
  <2>. QED
    BY <2>1, <2>2
<1>5. /\ tcp_conns' \in [Slots -> SlotType]
      /\ tcp_conns'[i] = s
      /\ \A j \in Slots \ {i} : tcp_conns'[j] = tcp_conns[j]
  <2>1. tcp_conns' = [tcp_conns EXCEPT ![i] = s]
    BY <1>3
  <2>2. s \in SlotType /\ i \in Slots /\ tcp_conns \in [Slots -> SlotType]
    BY <1>1
  <2>. QED
    BY ONLY <2>1, <2>2
<1>6. /\ taken' \in [Clients -> Nat]
      /\ taken'[c] = t
      /\ \A d \in Clients \ {c} : taken'[d] = taken[d]
  BY <1>1
<1>7. \A d : Total(d)' = Total(d)
  BY DEF Total
<1>8. NewAreFresh' /\ MainIsReady'
  BY <1>4, <1>6, NewStayFresh
<1>9. TypeOK'
  <2>1. \A d \in Clients : taken'[d] <= written'[d] /\ written'[d] <= Total(d)'
    <3>1. \A d \in Clients : taken[d] <= written[d] /\ written[d] <= Total(d)
      BY DEF Agreed, TypeOK
    <3>. QED
      BY <1>6, <1>7, <3>1
  <2>2. ready_sockets' \subseteq current_sockets'
    BY <1>1
  <2>. QED
    BY <1>4, <1>5, <1>6, <2>1, <2>2 DEF Agreed, TypeOK
<1>10. TableAgrees'
  <2>1. \A g \in Fds : Opened(g)' <=> Opened(g)
    BY <1>4 DEF Opened
  <2>2. \A j \in Slots : tcp_conns'[j].socket_id = tcp_conns[j].socket_id
    BY <1>3, <1>5
  <2>3. current_sockets' \ {tcp_main} = {g \in Fds : Opened(g)'}
    BY <1>2, <2>1 DEF TableAgrees
  <2>4. \A g \in Fds : Opened(g)' <=> \E j \in Slots : tcp_conns'[j].socket_id = g
    BY <1>2, <2>1, <2>2 DEF TableAgrees
  <2>5. \A j, k \in Slots :
            /\ tcp_conns'[j].socket_id = tcp_conns'[k].socket_id
            /\ tcp_conns'[j].socket_id # -1
            => j = k
    BY <1>2, <2>2 DEF TableAgrees
  <2>. QED
    BY <2>3, <2>4, <2>5 DEF TableAgrees
<1>11. AnswerIsOwn'
  BY <1>2 DEF AnswerIsOwn
<1>12. AssetIsOwn'
  <2> SUFFICES ASSUME NEW d \in Clients, asset'[d] # None
               PROVE  /\ asset'[d] = PiecesOf(d, 1, taken[d])'
                      /\ Ok(d) \in {answer'[d][k] : k \in DOMAIN answer'[d]}
                             => taken'[d] = Total(d)'
    BY DEF AssetIsOwn, Ok
  <2>1. CASE d = c
    <3>1. asset'[c] = PiecesOf(c, 1, t)
      BY <2>1
    <3>2. PiecesOf(c, 1, taken[c])' = PiecesOf(c, 1, t)
      BY <1>6 DEF PiecesOf
    <3>3. answer'[c] = <<>> /\ DOMAIN <<>> = {}
      BY OpenIs
    <3>. QED
      BY <2>1, <3>1, <3>2, <3>3
  <2>2. CASE d # c
    <3>1. /\ asset'[d] = asset[d] /\ answer'[d] = answer[d] /\ taken'[d] = taken[d]
          /\ Total(d)' = Total(d)
      BY <1>6, <1>7, <2>2
    <3>2. PiecesOf(d, 1, taken[d])' = PiecesOf(d, 1, taken[d])
      BY <3>1 DEF PiecesOf
    <3>3. /\ asset[d] = PiecesOf(d, 1, taken[d])
          /\ Ok(d) \in {answer[d][k] : k \in DOMAIN answer[d]} => taken[d] = Total(d)
      BY <1>2, <3>1 DEF AssetIsOwn
    <3>. QED
      BY <3>1, <3>2, <3>3
  <2>. QED
    BY <2>1, <2>2
<1>13. DescriptorsBounded'
  <2>1. CASE fds' = fds /\ (asset[c] # None => asset'[c] # None)
    BY <2>1, BoundKept DEF Agreed
  <2>2. CASE /\ \E g \in Fds : fds[g] = None /\ fds' = [fds EXCEPT ![g] = AssetFile]
             /\ asset[c] = None /\ asset'[c] # None
    <3>1. \E h \in Fds : \A g \in Fds \ {h} : fds'[g] = AssetFile => fds[g] = AssetFile
      BY <1>1, <2>2
    <3>. QED
      BY <2>2, <3>1, BoundKept DEF Agreed
  <2>. QED
    BY <2>1, <2>2
<1>14. OpenedOnce'
  <2>1. OpenedOnce
    BY <1>2 DEF Serving
  <2>2. \A g, h \in Fds : Opened(g)' /\ fds'[g] = fds'[h] => g = h
    <3> SUFFICES ASSUME NEW g \in Fds, NEW h \in Fds, Opened(g)', fds'[g] = fds'[h]
                 PROVE  g = h
      OBVIOUS
    <3>1. Opened(h)'
      BY DEF Opened
    <3>. QED
      BY <1>4, <2>1, <3>1 DEF OpenedOnce
  <2>3. \A g \in Fds : Opened(g)' => answer'[fds'[g]] = <<>>
    BY <1>4, <2>1 DEF OpenedOnce
  <2>. QED
    BY <2>2, <2>3 DEF OpenedOnce
<1>15. ASSUME NEW j \in Slots PROVE SlotAgrees(tcp_conns[j])'
  <2>1. CASE j # i
    <3>1. \A k \in Slots : SlotAgrees(tcp_conns[k])
      BY <1>2 DEF Serving
    <3>2. \A k \in Slots \ {i} :
              tcp_conns[k].socket_id \in Fds =>
                  /\ fds[tcp_conns[k].socket_id] \in Clients \ {c}
                  /\ fds'[tcp_conns[k].socket_id] = fds[tcp_conns[k].socket_id]
      BY <1>3, <1>4 DEF Opened
    <3>. QED
      BY <1>5, <1>6, <2>1, <3>1, <3>2, OthersStayRight
  <2>2. CASE j = i
    <3>1. fds'[f] = c
      BY <1>4 DEF Opened
    <3>. QED
      BY <1>5, <2>2, <3>1, Zenon DEF SlotAgrees
  <2>. QED
    BY <2>1, <2>2
<1>. QED
  BY <1>8, <1>9, <1>10, <1>11, <1>12, <1>13, <1>14, <1>15 DEF Agreed, Serving

\* The server ends in a write, with what it has read of a client that has no
\* file, or in a read.
LEMMA EndKeeps ==
    ASSUME Agreed, alive, ~alive', NEW c \in Clients,
           NEW t \in Nat, t <= written[c], taken' = [taken EXCEPT ![c] = t],
           asset[c] = None \/ t = taken[c],
           ready_sockets' \subseteq ready_sockets,
           alive' \in BOOLEAN,
           UNCHANGED <<request, client, written, backlog, answer, asset, fds,
                       tcp_conns, current_sockets>>
    PROVE  Agreed'
<1>1. /\ taken' \in [Clients -> Nat]
      /\ taken'[c] = t
      /\ \A d \in Clients \ {c} : taken'[d] = taken[d]
  BY Types DEF Agreed
<1>2. \A d : Total(d)' = Total(d)
  BY DEF Total
<1>3. TypeOK'
  <2>1. \A d \in Clients : taken'[d] <= written'[d] /\ written'[d] <= Total(d)'
    <3>1. \A d \in Clients : taken[d] <= written[d] /\ written[d] <= Total(d)
      BY DEF Agreed, TypeOK
    <3>. QED
      BY <1>1, <1>2, <3>1
  <2>2. ready_sockets' \subseteq current_sockets'
    BY Types DEF Agreed
  <2>. QED
    BY <1>1, <2>1, <2>2 DEF Agreed, TypeOK
<1>4. TableAgrees' /\ AnswerIsOwn' /\ DescriptorsBounded'
  BY DEF Agreed, TableAgrees, AnswerIsOwn, DescriptorsBounded, Opened
<1>5. AssetIsOwn'
  <2> SUFFICES ASSUME NEW d \in Clients, asset[d] # None
               PROVE  /\ asset[d] = PiecesOf(d, 1, taken[d])'
                      /\ Ok(d) \in {answer[d][k] : k \in DOMAIN answer[d]}
                             => taken'[d] = Total(d)'
    BY DEF AssetIsOwn, Ok
  <2>1. taken'[d] = taken[d] /\ Total(d)' = Total(d)
    BY <1>1, <1>2
  <2>2. PiecesOf(d, 1, taken[d])' = PiecesOf(d, 1, taken[d])
    BY <2>1 DEF PiecesOf
  <2>3. /\ asset[d] = PiecesOf(d, 1, taken[d])
        /\ Ok(d) \in {answer[d][k] : k \in DOMAIN answer[d]} => taken[d] = Total(d)
    BY DEF Agreed, AssetIsOwn
  <2>. QED
    BY <2>1, <2>2, <2>3
<1>. QED
  BY <1>3, <1>4, <1>5 DEF Agreed

-----------------------------------------------------------------------------
(***************************************************************************)
(* receive_tcp.                                                            *)
(***************************************************************************)

\* The numbers of a read of n pieces.
LEMMA ReadIs ==
    ASSUME Agreed, NEW c \in Clients, NEW n \in Nat,
           taken[c] + n <= written[c]
    PROVE  /\ taken[c] \in Nat
           /\ Total(c) \in Nat
           /\ taken[c] + n <= Total(c)
           /\ Total(c) <= 1 + RequestPieces + FilePieces
           /\ taken[c] <= 1 + RequestPieces + FilePieces
           /\ taken[c] + n <= 1 + RequestPieces + FilePieces
<1>1. taken[c] \in Nat /\ written[c] \in Nat /\ written[c] <= Total(c)
  BY Types DEF Agreed, TypeOK
<1>2. Total(c) \in Nat /\ Total(c) <= 1 + RequestPieces + FilePieces
  BY TotalIs
<1>. QED
  BY <1>1, <1>2, PiecesAssumption

\* A file with one more run of pieces, or with its first (receive_tcp,
\* prepare_freceive).
LEMMA AssetIs ==
    ASSUME Agreed, NEW c \in Clients, NEW t \in Nat,
           1 <= t, t <= 1 + RequestPieces + FilePieces,
           asset' = [asset EXCEPT ![c] = PiecesOf(c, 1, t)]
    PROVE  /\ asset' \in [Clients -> {None} \cup Seq(Piece \cup {Zero})]
           /\ \A d \in Clients \ {c} : asset'[d] = asset[d]
           /\ asset'[c] = PiecesOf(c, 1, t)
           /\ asset'[c] # None
<1>1. asset \in [Clients -> {None} \cup Seq(Piece \cup {Zero})]
  BY Types DEF Agreed
<1>2. PiecesOf(c, 1, t) \in Seq(Piece \cup {Zero})
  BY PiecesAre
<1>. QED
  BY <1>1, <1>2, NoFileAssumption

\* While the file comes in.
LEMMA FileKeeps ==
    ASSUME Agreed, NEW f \in Fds, NEW c \in Clients, fds[f] = c, Visit(f),
           NEW n \in Nat, taken[c] + n <= written[c],
           taken' = [taken EXCEPT ![c] = @ + n],
           tcp_conns[SlotOf(f)].in_file,
           receive_file(f, c, n),
           UNCHANGED <<request, client, written, backlog, alive>>
    PROVE  Agreed'
<1>1. alive /\ ready_sockets' = ready_sockets \ {f}
  BY VisitIs
<1>2. PICK i \in Slots : i = SlotOf(f)
  BY <1>1, OpenIs
<1>3. PICK s : s = tcp_conns[i]
  OBVIOUS
<1>4. /\ s \in SlotType /\ s.socket_id = f /\ s.in_file
      /\ Collecting(s, c) \/ Filing(s, c)
  BY <1>1, <1>2, <1>3, OpenIs, Types DEF Agreed
<1>5. Filing(s, c)
  BY <1>4 DEF Collecting
<1>6. /\ s.final_response = c
      /\ s.remaining_size = Total(c) - taken[c]
      /\ taken[c] >= 1
      /\ asset[c] = PiecesOf(c, 1, taken[c])
  BY <1>5 DEF Filing
<1>7. PICK t \in Nat : t = taken[c] + n
  BY ReadIs
<1>8. /\ taken[c] \in Nat /\ Total(c) \in Nat /\ 1 <= t
      /\ taken[c] <= t /\ t <= Total(c)
      /\ t <= 1 + RequestPieces + FilePieces
      /\ taken[c] <= 1 + RequestPieces + FilePieces
      /\ t <= written[c]
  BY <1>6, <1>7, ReadIs
<1>9. taken' = [taken EXCEPT ![c] = t]
  BY <1>7
<1>10. PiecesOf(c, 1, taken[c]) \o PiecesOf(c, taken[c], taken[c] + n) = PiecesOf(c, 1, t)
  <2>1. PICK a \in Nat : a = taken[c]
    BY <1>8
  <2>2. PiecesOf(c, 1, a) \o PiecesOf(c, a, t) = PiecesOf(c, 1, t)
    <3>1. /\ c \in Clients /\ 1 \in Nat /\ a \in Nat /\ t \in Nat
          /\ 1 <= a /\ a <= t /\ t <= 1 + RequestPieces + FilePieces
      BY <1>6, <1>8, <2>1
    <3>. QED
      BY ONLY <3>1, PiecesJoin
  <2>. QED
    BY <1>7, <2>1, <2>2
<1>11. asset' = [asset EXCEPT ![c] = PiecesOf(c, 1, t)]
  <2>1. asset' = [asset EXCEPT ![c] = @ \o PiecesOf(c, taken[c], taken[c] + n)]
    BY <1>2, <1>3, <1>6, Zenon DEF receive_file
  <2>2. asset' = [asset EXCEPT ![c] = asset[c] \o PiecesOf(c, taken[c], taken[c] + n)]
    BY <2>1, Zenon
  <2>. QED
    BY <1>6, <1>10, <2>2, Zenon
<1>12. /\ asset' \in [Clients -> {None} \cup Seq(Piece \cup {Zero})]
       /\ \A d \in Clients \ {c} : asset'[d] = asset[d]
       /\ asset'[c] = PiecesOf(c, 1, t)
       /\ asset'[c] # None
  BY <1>8, <1>11, AssetIs
<1>13. CASE /\ s.remaining_size - n < 1
            /\ finish_file(f, c, c)
  <2>1. t = Total(c)
    BY <1>6, <1>7, <1>8, <1>13
  <2>2. send_tcp(f, c, Ok(c)) /\ Unwatch(f)
    BY <1>13 DEF finish_file
  <2>3. PICK res : res = Ok(c)
    OBVIOUS
  <2>4. res \in [status : Statuses, to : {c}] /\ send_tcp(f, c, res)
    BY <2>2, <2>3 DEF Ok, Statuses
  <2>. QED
    BY <1>1, <1>8, <1>9, <1>12, <2>1, <2>2, <2>4, CloseKeeps
<1>14. CASE /\ s.remaining_size - n >= 1
            /\ tcp_conns' = [tcp_conns EXCEPT ![i].remaining_size = @ - n]
            /\ UNCHANGED <<answer, fds, current_sockets>>
  <2>1. PICK r : r = [s EXCEPT !.remaining_size = @ - n]
    OBVIOUS
  <2>2. /\ r \in SlotType /\ r.socket_id = f /\ r.in_file
        /\ r.final_response = c /\ r.remaining_size = s.remaining_size - n
    <3>1. PICK k \in Int : k = s.remaining_size - n
      BY <1>6, <1>8
    <3>2. r = [s EXCEPT !.remaining_size = k]
      BY <2>1, <3>1
    <3>3. /\ r \in SlotType /\ r.remaining_size = k
          /\ r.socket_id = s.socket_id /\ r.in_file = s.in_file
          /\ r.final_response = s.final_response
      BY ONLY <1>4, <3>2, k \in Int DEF SlotType
    <3>. QED
      BY <1>4, <1>6, <3>1, <3>3
  <2>3. tcp_conns' = [tcp_conns EXCEPT ![SlotOf(f)] = r]
    BY <1>2, <1>3, <1>14, <2>1
  <2>4. r.remaining_size = Total(c) - t
    BY <1>6, <1>7, <1>8, <2>2
  <2>5. /\ taken'[c] = t /\ Total(c)' = Total(c)
        /\ PiecesOf(c, 1, taken[c])' = PiecesOf(c, 1, t)
    <3>1. taken \in [Clients -> Nat]
      BY Types DEF Agreed
    <3>2. taken'[c] = t
      BY <1>9, <3>1
    <3>. QED
      BY <3>2 DEF Total, PiecesOf
  <2>6. Filing(r, c)'
    BY <1>8, <1>12, <2>2, <2>4, <2>5 DEF Filing
  <2>. QED
    BY <1>1, <1>8, <1>9, <1>12, <1>14, <2>2, <2>3, <2>6, KeepKeeps
<1>. QED
  BY <1>2, <1>3, <1>6, <1>13, <1>14, Zenon DEF receive_file

\* The buffer of an unfinished request after a read (filled).
LEMMA BufferIs ==
    ASSUME Agreed, NEW c \in Clients, NEW s, Collecting(s, c),
           NEW t \in Nat, taken[c] <= t, t <= 1 + RequestPieces + FilePieces
    PROVE  filled(s, PiecesOf(c, taken[c], t)) = PiecesOf(c, 0, t)
<1>1. PICK a \in Nat : a = taken[c]
  BY Types DEF Agreed
<1>2. s.buffer = PiecesOf(c, 0, a) /\ s.buffer_i = a
  BY <1>1 DEF Collecting
<1>3. 0 \in Nat /\ 0 <= a /\ a <= t /\ a <= 1 + RequestPieces + FilePieces
  BY <1>1, PiecesAssumption
<1> DEFINE p == PiecesOf(c, 0, a)
<1>4. p \in Seq(Piece \cup {Zero}) /\ Len(p) = a
  <2>1. p \in Seq(Piece \cup {Zero}) /\ Len(p) = a - 0
    BY <1>3, PiecesAre
  <2> HIDE DEF p
  <2>. QED
    BY <2>1
<1>5. p \o PiecesOf(c, a, t) = PiecesOf(c, 0, t)
  BY <1>3, PiecesJoin
<1> HIDE DEF p
<1>6. [j \in 1..a |-> IF j <= Len(p) THEN p[j] ELSE Zero] = p
  <2>1. p \in [1..a -> Piece \cup {Zero}]
    BY <1>4, LenProperties
  <2>2. \A j \in 1..a : (IF j <= Len(p) THEN p[j] ELSE Zero) = p[j]
    BY <1>4
  <2>. QED
    BY <2>1, <2>2
<1>7. s.buffer = p
  BY <1>2 DEF p
<1>8. filled(s, PiecesOf(c, a, t)) = p \o PiecesOf(c, a, t)
  BY <1>2, <1>6, <1>7, Zenon DEF filled
<1>. QED
  BY <1>1, <1>5, <1>8

\* What is seen of a request of which t pieces have come (parse_opa, and the
\* test of its last byte).
LEMMA RequestIs ==
    ASSUME NEW c \in Clients, NEW t \in Nat, t <= 1 + RequestPieces + FilePieces,
           NEW buffer, buffer = PiecesOf(c, 0, t)
    PROVE  /\ Len(buffer) = t
           /\ buffer \in Seq(Piece \cup {Zero})
           /\ buffer # <<>> <=> t # 0
           /\ t # 0 => /\ buffer[1] = <<c, 1>>
                       /\ buffer[Len(buffer)] = <<c, t>>
                       /\ buffer[Len(buffer)] # Zero
           /\ is_opa(buffer) <=> t # 0 /\ request[c] = "opa"
<1>1. /\ buffer \in Seq(Piece \cup {Zero})
      /\ Len(buffer) = t
      /\ \A j \in 1..t : buffer[j] = <<c, j>>
  <2>1. 0 \in Nat /\ 0 <= t
    OBVIOUS
  <2>2. /\ buffer \in Seq(Piece \cup {Zero})
        /\ Len(buffer) = t - 0
        /\ \A j \in 1..(t - 0) : buffer[j] = <<c, 0 + j>>
    BY <2>1, PiecesAre
  <2>3. t - 0 = t /\ \A j \in 1..t : 0 + j = j
    OBVIOUS
  <2>. QED
    BY <2>2, <2>3
<1>2. buffer # <<>> <=> t # 0
  BY <1>1, EmptySeq
<1>3. ASSUME t # 0
      PROVE  buffer[1] = <<c, 1>> /\ buffer[Len(buffer)] = <<c, t>>
  <2>1. 1 \in 1..t /\ t \in 1..t
    BY <1>3
  <2>. QED
    BY <1>1, <2>1
<1>4. \A k : <<c, k>> # Zero
  BY ClientsAre DEF Zero
<1>5. is_opa(buffer) <=> t # 0 /\ request[c] = "opa"
  <2>1. CASE t = 0
    BY <1>2, <2>1 DEF is_opa
  <2>2. CASE t # 0
    <3>1. buffer[1] = <<c, 1>> /\ buffer[1] # Zero /\ buffer # <<>>
      BY <1>2, <1>3, <1>4, <2>2
    <3>2. buffer[1][1] = c /\ buffer[1][2] = 1
      BY <3>1
    <3>. QED
      BY <2>2, <3>1, <3>2 DEF is_opa
  <2>. QED
    BY <2>1, <2>2
<1>. QED
  BY <1>1, <1>2, <1>3, <1>4, <1>5

\* The header of an upload has come, and maybe pieces of the file with it.
LEMMA UploadKeeps ==
    ASSUME Agreed, alive, NEW f \in Fds, NEW c \in Clients, fds[f] = c,
           NEW t \in Nat, 1 <= t, t <= written[c], t <= Total(c),
           t <= 1 + RequestPieces + FilePieces,
           taken' = [taken EXCEPT ![c] = t],
           request[c] = "opa",
           NEW s \in SlotType, s = tcp_conns[SlotOf(f)], s.socket_id = f,
           Collecting(s, c),
           NEW header,
           header = [s EXCEPT !.buffer = PiecesOf(c, 0, t), !.buffer_i = 1,
                              !.in_file = TRUE, !.remaining_size = FilePieces,
                              !.excess = t - 1],
           prepare_freceive(f, c, header),
           ready_sockets' = ready_sockets \ {f},
           UNCHANGED <<request, client, written, backlog, alive>>
    PROVE  Agreed'
<1> DEFINE p == PiecesOf(c, 0, t)
<1>1. /\ Len(p) = t /\ p \in Seq(Piece \cup {Zero}) /\ p[1] = <<c, 1>>
  BY RequestIs
<1>2. SubSeq(p, 2, t) = PiecesOf(c, 1, t)
  BY PiecesAfterHeader
<1>3. FilePieces \in Nat /\ Total(c) = 1 + FilePieces
  BY TotalIs, PiecesAssumption
<1> HIDE DEF p
<1>4. header = [s EXCEPT !.buffer = p, !.buffer_i = 1,
                         !.in_file = TRUE, !.remaining_size = FilePieces,
                         !.excess = t - 1]
  BY DEF p
<1>5. /\ header \in SlotType
      /\ header.buffer = p /\ header.buffer_i = 1 /\ header.in_file
      /\ header.remaining_size = FilePieces /\ header.excess = t - 1
      /\ header.socket_id = f
  <2>1. PICK k \in Int : k = t - 1
    OBVIOUS
  <2>2. header = [s EXCEPT !.buffer = p, !.buffer_i = 1,
                           !.in_file = TRUE, !.remaining_size = FilePieces,
                           !.excess = k]
    BY <1>4, <2>1
  <2>3. p \in Seq(Piece \cup {Zero}) /\ FilePieces \in Int /\ 1 \in Nat /\ s \in SlotType
    BY <1>1, <1>3
  <2>4. /\ header \in SlotType
        /\ header.buffer = p /\ header.buffer_i = 1 /\ header.in_file
        /\ header.remaining_size = FilePieces /\ header.excess = k
        /\ header.socket_id = s.socket_id
    BY ONLY <2>2, <2>3, k \in Int DEF SlotType
  <2>. QED
    BY <2>1, <2>4
<1>6. header.buffer[1][1] = c
  BY <1>1, <1>5
<1>7. PICK left \in Int : left = Total(c) - t /\ left = header.remaining_size - header.excess
  BY <1>3, <1>5
<1>8. asset' = [asset EXCEPT ![c] = PiecesOf(c, 1, t)]
  <2>1. asset' = [asset EXCEPT ![c] = SubSeq(header.buffer, 1 + header.buffer_i, Len(header.buffer))]
    BY <1>6, Zenon DEF prepare_freceive
  <2>2. SubSeq(header.buffer, 1 + header.buffer_i, Len(header.buffer)) = SubSeq(p, 2, t)
    BY <1>1, <1>5
  <2>. QED
    BY <1>2, <2>1, <2>2
<1>9. /\ asset' \in [Clients -> {None} \cup Seq(Piece \cup {Zero})]
      /\ \A d \in Clients \ {c} : asset'[d] = asset[d]
      /\ asset'[c] = PiecesOf(c, 1, t)
      /\ asset'[c] # None
  BY <1>8, AssetIs
<1>10. asset[c] = None
  BY DEF Collecting
<1>11. CASE left < 1 /\ finish_file(f, c, c)
  <2>1. t = Total(c)
    BY <1>3, <1>7, <1>11
  <2>2. PICK res : res = Ok(c)
    OBVIOUS
  <2>3. res \in [status : Statuses, to : {c}] /\ send_tcp(f, c, res) /\ Unwatch(f)
    BY <1>11, <2>2 DEF Ok, Statuses, finish_file
  <2>. QED
    BY <1>9, <2>1, <2>3, CloseKeeps
<1>12. CASE /\ left >= 1
            /\ tcp_conns' = [tcp_conns EXCEPT ![SlotOf(f)] =
                   [header EXCEPT !.final_response = c,
                                  !.remaining_size = left,
                                  !.buffer = <<>>]]
            /\ fds' = [fds EXCEPT ![FirstFree(fds)] = AssetFile]
            /\ UNCHANGED <<answer, current_sockets>>
  <2>1. PICK r : r = [header EXCEPT !.final_response = c,
                                    !.remaining_size = left,
                                    !.buffer = <<>>]
    OBVIOUS
  <2>2. /\ r \in SlotType /\ r.socket_id = f /\ r.in_file
        /\ r.final_response = c /\ r.remaining_size = left
    <3>1. <<>> \in Seq(Piece \cup {Zero}) /\ c \in Clients \cup {None}
      OBVIOUS
    <3>2. /\ r \in SlotType
          /\ r.socket_id = header.socket_id /\ r.in_file = header.in_file
          /\ r.final_response = c /\ r.remaining_size = left
      BY ONLY <1>5, <2>1, <3>1, left \in Int DEF SlotType
    <3>. QED
      BY <1>5, <3>2
  <2>3. tcp_conns' = [tcp_conns EXCEPT ![SlotOf(f)] = r]
    BY <1>12, <2>1
  <2>4. /\ taken'[c] = t /\ Total(c)' = Total(c)
        /\ PiecesOf(c, 1, taken[c])' = PiecesOf(c, 1, t)
    <3>1. taken \in [Clients -> Nat]
      BY Types DEF Agreed
    <3>2. taken'[c] = t
      BY <3>1
    <3>. QED
      BY <3>2 DEF Total, PiecesOf
  <2>5. Filing(r, c)'
    BY <1>7, <1>9, <2>2, <2>4 DEF Filing
  <2>6. \E g \in Fds : fds[g] = None /\ fds' = [fds EXCEPT ![g] = AssetFile]
    BY <1>12, FreeFd DEF Agreed
  <2>7. UNCHANGED <<request, client, written, backlog, answer, current_sockets, alive>>
    BY <1>12
  <2>. QED
    BY ONLY <1>9, <1>10, <2>2, <2>3, <2>5, <2>6, <2>7, KeepKeeps, Agreed, alive,
       f \in Fds, c \in Clients, fds[f] = c, t \in Nat, t <= written[c],
       taken' = [taken EXCEPT ![c] = t], ready_sockets' = ready_sockets \ {f}
<1>. QED
  BY <1>6, <1>7, <1>11, <1>12, Zenon DEF prepare_freceive

\* A whole request is answered, or its answer ends the server (treat_request).
LEMMA TreatKeeps ==
    ASSUME Agreed, alive, NEW f \in Fds, NEW c \in Clients, fds[f] = c,
           NEW t \in Nat, t <= written[c], t = Total(c),
           taken' = [taken EXCEPT ![c] = t],
           asset[c] = None,
           NEW buffer, buffer = PiecesOf(c, 0, t),
           treat_request(f, c, buffer),
           ready_sockets' = ready_sockets \ {f},
           UNCHANGED <<request, client, written, backlog>>
    PROVE  Agreed'
<1>1. whose(buffer) = c
  BY WhoseIs
<1>2. asset \in [Clients -> {None} \cup Seq(Piece \cup {Zero})] /\ asset' = asset
  BY Types DEF Agreed, treat_request
<1>3. CASE answer_request(f, c, c) /\ UNCHANGED alive
  <2>1. PICK status \in Statuses : send_tcp(f, c, [status |-> status, to |-> c])
    BY <1>3 DEF answer_request
  <2>2. PICK res : res = [status |-> status, to |-> c]
    OBVIOUS
  <2>3. res \in [status : Statuses, to : {c}] /\ send_tcp(f, c, res)
    BY <2>1, <2>2
  <2>4. Unwatch(f)
    BY <1>3 DEF answer_request
  <2>. QED
    BY <1>2, <1>3, <2>3, <2>4, CloseKeeps
<1>4. CASE /\ alive' = FALSE
           /\ UNCHANGED <<answer, fds, tcp_conns, current_sockets>>
  BY <1>2, <1>4, EndKeeps
<1>. QED
  BY <1>1, <1>3, <1>4 DEF treat_request

\* While the request comes in.
LEMMA RequestKeeps ==
    ASSUME Agreed, NEW f \in Fds, NEW c \in Clients, fds[f] = c, Visit(f),
           NEW n \in Nat, taken[c] + n <= written[c],
           taken' = [taken EXCEPT ![c] = @ + n],
           ~tcp_conns[SlotOf(f)].in_file,
           receive_request(f, c, n),
           UNCHANGED <<request, client, written, backlog>>
    PROVE  Agreed'
<1>1. alive /\ ready_sockets' = ready_sockets \ {f}
  BY VisitIs
<1>2. PICK i \in Slots : i = SlotOf(f)
  BY <1>1, OpenIs
<1>3. PICK s : s = tcp_conns[i]
  OBVIOUS
<1>4. /\ s \in SlotType /\ s.socket_id = f /\ ~s.in_file
      /\ Collecting(s, c) \/ Filing(s, c)
  BY <1>1, <1>2, <1>3, OpenIs, Types DEF Agreed
<1>5. Collecting(s, c)
  BY <1>4 DEF Filing
<1>6. /\ asset[c] = None
      /\ request[c] = "opa" => taken[c] = 0
      /\ taken[c] < Total(c)
  BY <1>5 DEF Collecting
<1>7. PICK t \in Nat : t = taken[c] + n
  BY ReadIs
<1>8. /\ taken[c] \in Nat /\ Total(c) \in Nat
      /\ taken[c] <= t /\ t <= Total(c)
      /\ t <= 1 + RequestPieces + FilePieces
      /\ t <= written[c]
  BY <1>7, ReadIs
<1>9. taken' = [taken EXCEPT ![c] = t]
  BY <1>7
<1>10. PICK buffer : buffer = PiecesOf(c, 0, t)
  OBVIOUS
<1>11. filled(tcp_conns[SlotOf(f)], PiecesOf(c, taken[c], taken[c] + n)) = buffer
  BY <1>2, <1>3, <1>5, <1>7, <1>8, <1>10, BufferIs
<1>12. /\ Len(buffer) = t
       /\ buffer \in Seq(Piece \cup {Zero})
       /\ buffer # <<>> <=> t # 0
       /\ t # 0 => /\ buffer[1] = <<c, 1>>
                   /\ buffer[Len(buffer)] = <<c, t>>
                   /\ buffer[Len(buffer)] # Zero
       /\ is_opa(buffer) <=> t # 0 /\ request[c] = "opa"
  BY <1>8, <1>10, RequestIs
<1>13. PICK header : header = [s EXCEPT !.buffer = buffer, !.buffer_i = 1,
                                        !.in_file = TRUE, !.remaining_size = FilePieces,
                                        !.excess = n - 1]
  OBVIOUS
<1> DEFINE last == buffer[Len(buffer)]
           complete == buffer # <<>> /\ last # Zero /\ last[2] = Total(last[1])
<1>14. complete <=> t # 0 /\ t = Total(c)
  <2>1. CASE t = 0
    BY <1>12, <2>1
  <2>2. CASE t # 0
    <3>1. last = <<c, t>> /\ last # Zero /\ buffer # <<>>
      BY <1>12, <2>2
    <3>2. last[1] = c /\ last[2] = t
      BY <3>1
    <3>. QED
      BY <2>2, <3>1, <3>2
  <2>. QED
    BY <2>1, <2>2
<1>15. \/ /\ is_opa(buffer)
          /\ \/ prepare_freceive(f, c, header)
             \/ /\ send_tcp(f, c, [status |-> "NOK", to |-> buffer[1][1]])
                /\ Unwatch(f)
                /\ UNCHANGED asset
          /\ UNCHANGED alive
       \/ /\ ~is_opa(buffer)
          /\ complete
          /\ treat_request(f, c, buffer)
       \/ /\ ~is_opa(buffer)
          /\ ~complete
          /\ tcp_conns' = [tcp_conns EXCEPT ![i].buffer = buffer,
                                            ![i].buffer_i = Len(buffer)]
          /\ UNCHANGED <<answer, asset, fds, current_sockets, alive>>
  BY <1>2, <1>3, <1>11, <1>13, Zenon DEF receive_request
<1>16. asset \in [Clients -> {None} \cup Seq(Piece \cup {Zero})]
  BY Types DEF Agreed
<1> HIDE DEF complete
<1>17. CASE is_opa(buffer) /\ prepare_freceive(f, c, header) /\ UNCHANGED alive
  <2>1. t # 0 /\ request[c] = "opa" /\ 1 <= t /\ n = t
    BY <1>6, <1>7, <1>12, <1>17
  <2>2. header = [s EXCEPT !.buffer = PiecesOf(c, 0, t), !.buffer_i = 1,
                           !.in_file = TRUE, !.remaining_size = FilePieces,
                           !.excess = t - 1]
    BY <1>10, <1>13, <2>1
  <2>3. s = tcp_conns[SlotOf(f)]
    BY <1>2, <1>3
  <2>. QED
    BY <1>1, <1>4, <1>5, <1>8, <1>9, <1>17, <2>1, <2>2, <2>3, UploadKeeps
<1>18. CASE /\ is_opa(buffer)
            /\ send_tcp(f, c, [status |-> "NOK", to |-> buffer[1][1]])
            /\ Unwatch(f)
            /\ UNCHANGED <<asset, alive>>
  <2>1. buffer[1][1] = c
    BY <1>12, <1>18
  <2>2. PICK res : res = [status |-> "NOK", to |-> c]
    OBVIOUS
  <2>3. res \in [status : Statuses, to : {c}] /\ send_tcp(f, c, res)
    BY <1>18, <2>1, <2>2 DEF Statuses
  <2>. QED
    BY <1>1, <1>6, <1>8, <1>9, <1>16, <1>18, <2>3, CloseKeeps
<1>19. CASE complete /\ treat_request(f, c, buffer)
  BY <1>1, <1>6, <1>8, <1>9, <1>10, <1>14, <1>19, TreatKeeps
<1>20. CASE /\ ~is_opa(buffer)
            /\ ~complete
            /\ tcp_conns' = [tcp_conns EXCEPT ![i].buffer = buffer,
                                              ![i].buffer_i = Len(buffer)]
            /\ UNCHANGED <<answer, asset, fds, current_sockets, alive>>
  <2>1. PICK r : r = [s EXCEPT !.buffer = buffer, !.buffer_i = t]
    OBVIOUS
  <2>2. /\ r \in SlotType /\ r.socket_id = f /\ ~r.in_file
        /\ r.buffer = buffer /\ r.buffer_i = t
    BY <1>4, <1>12, <2>1 DEF SlotType
  <2>3. tcp_conns' = [tcp_conns EXCEPT ![SlotOf(f)] = r]
    BY <1>2, <1>3, <1>12, <1>20, <2>1
  <2>4. /\ taken'[c] = t /\ Total(c)' = Total(c)
        /\ PiecesOf(c, 0, taken[c])' = PiecesOf(c, 0, t)
    <3>1. taken \in [Clients -> Nat]
      BY Types DEF Agreed
    <3>2. taken'[c] = t
      BY <1>9, <3>1
    <3>. QED
      BY <3>2 DEF Total, PiecesOf
  <2>5. t < Total(c) /\ (request[c] = "opa" => t = 0)
    BY <1>6, <1>8, <1>12, <1>14, <1>20
  <2>6. Collecting(r, c)'
    BY <1>6, <1>10, <1>20, <2>2, <2>4, <2>5 DEF Collecting
  <2>. QED
    BY <1>1, <1>6, <1>8, <1>9, <1>16, <1>20, <2>2, <2>3, <2>6, KeepKeeps
<1>. QED
  BY <1>15, <1>17, <1>18, <1>19, <1>20

LEMMA ReceiveKeeps == ASSUME Agreed, receive_tcp PROVE Agreed'
<1>1. PICK f \in Fds :
          LET c == fds[f]
          IN  /\ Visit(f)
              /\ \/ \E n \in Readable(c) :
                        /\ taken' = [taken EXCEPT ![c] = @ + n]
                        /\ \/ /\ tcp_conns[SlotOf(f)].in_file
                              /\ receive_file(f, c, n)
                              /\ UNCHANGED alive
                           \/ /\ ~tcp_conns[SlotOf(f)].in_file
                              /\ receive_request(f, c, n)
                 \/ read_error(f, c)
              /\ UNCHANGED <<clientVars, backlog>>
  BY DEF receive_tcp
<1>2. Visit(f)
  BY <1>1
<1>3. /\ alive /\ f \in current_sockets
      /\ ready_sockets' = ready_sockets \ {f}
  BY <1>2, VisitIs
<1>4. fds[f] \in Clients
  BY <1>3, FdsAre DEF Agreed, TableAgrees, Opened
<1>5. PICK c \in Clients : fds[f] = c
  BY <1>4
<1>6. UNCHANGED <<request, client, written, backlog>>
  BY <1>1 DEF clientVars
<1>7. taken[c] \in Nat /\ written[c] \in Nat /\ taken[c] <= written[c]
      /\ taken \in [Clients -> Nat]
  BY Types DEF Agreed, TypeOK
<1>8. CASE read_error(f, c)
  <2>1. [taken EXCEPT ![c] = taken[c]] = taken
    BY <1>7
  <2>2. PICK t \in Nat : t = taken[c]
    BY <1>7
  <2>3. taken' = [taken EXCEPT ![c] = t] /\ t <= written[c]
    BY <1>7, <1>8, <2>1, <2>2 DEF read_error
  <2>4. /\ alive' = FALSE
        /\ UNCHANGED <<answer, asset, fds, tcp_conns, current_sockets>>
    BY <1>8 DEF read_error
  <2>. QED
    BY <1>3, <1>6, <2>2, <2>3, <2>4, EndKeeps
<1>9. ASSUME NEW n \in Readable(c),
             taken' = [taken EXCEPT ![c] = @ + n],
             \/ /\ tcp_conns[SlotOf(f)].in_file
                /\ receive_file(f, c, n)
                /\ UNCHANGED alive
             \/ /\ ~tcp_conns[SlotOf(f)].in_file
                /\ receive_request(f, c, n)
      PROVE  Agreed'
  <2>1. n \in Nat /\ taken[c] + n <= written[c]
    <3>1. PICK come \in Nat : come = written[c] - taken[c]
      BY <1>7
    <3>2. n = 0 \/ n \in 1..come
      BY <3>1 DEF Readable
    <3>3. n \in Nat /\ n <= come
      BY <3>2
    <3>. QED
      BY ONLY <1>7, <3>1, <3>3
  <2>2. CASE /\ tcp_conns[SlotOf(f)].in_file
             /\ receive_file(f, c, n)
             /\ UNCHANGED alive
    BY <1>2, <1>5, <1>6, <1>9, <2>1, <2>2, FileKeeps
  <2>3. CASE /\ ~tcp_conns[SlotOf(f)].in_file
             /\ receive_request(f, c, n)
    BY <1>2, <1>5, <1>6, <1>9, <2>1, <2>3, RequestKeeps
  <2>. QED
    BY <1>9, <2>2, <2>3
<1>. QED
  BY <1>1, <1>5, <1>8, <1>9

-----------------------------------------------------------------------------
(***************************************************************************)
(* The theorems.                                                           *)
(***************************************************************************)

LEMMA InitAgreed == Init => Agreed
<1> SUFFICES ASSUME Init PROVE Agreed
  OBVIOUS
<1>1. /\ request \in Requests
      /\ client = [c \in Clients |-> "new"]
      /\ written = [c \in Clients |-> 0]
      /\ taken = [c \in Clients |-> 0]
      /\ answer = [c \in Clients |-> <<>>]
      /\ asset = [c \in Clients |-> None]
      /\ backlog = <<>>
      /\ fds = [f \in Fds |-> None]
      /\ tcp_conns = [i \in Slots |-> UnusedSlot]
      /\ current_sockets = {tcp_main}
      /\ ready_sockets = {}
      /\ alive = TRUE
  BY DEF Init
<1>2. TypeOK
  <2>1. \A c \in Clients : taken[c] <= written[c] /\ written[c] <= Total(c)
    BY <1>1, TotalIs
  <2>2. /\ answer \in [Clients -> Seq(Answer)]
        /\ backlog \in Seq(Clients)
    BY <1>1
  <2>3. tcp_conns \in [Slots -> SlotType]
    BY <1>1, UnusedIs
  <2>4. /\ written \in [Clients -> Nat] /\ taken \in [Clients -> Nat]
        /\ asset \in [Clients -> {None} \cup Seq(Piece \cup {Zero})]
        /\ fds \in [Fds -> Clients \cup {None, AssetFile}]
        /\ client \in [Clients -> {"new", "connected", "left", "broken"}]
    BY <1>1
  <2>. QED
    BY <1>1, <2>1, <2>2, <2>3, <2>4 DEF TypeOK
<1>3. TableAgrees
  <2>1. \A f \in Fds : ~Opened(f)
    BY <1>1, ClientsAre DEF Opened
  <2>2. \A i \in Slots : tcp_conns[i].socket_id = -1
    BY <1>1, UnusedIs
  <2>. QED
    BY <1>1, <2>1, <2>2, FdsAre DEF TableAgrees
<1>4. AnswerIsOwn
  BY <1>1 DEF AnswerIsOwn
<1>5. AssetIsOwn
  BY <1>1 DEF AssetIsOwn
<1>6. DescriptorsBounded
  <2> DEFINE A == {f \in Fds : fds[f] = AssetFile}
             C == {c \in Clients : asset[c] # None}
  <2>1. A = {} /\ C = {}
    BY <1>1, ClientsAre
  <2> HIDE DEF A, C
  <2>2. Cardinality(A) <= Cardinality(C)
    BY <2>1, FS_EmptySet
  <2>. QED
    BY <2>2 DEF A, C, DescriptorsBounded
<1>7. NewAreFresh
  <2>1. \A c \in Clients : Fresh(c)
    BY <1>1, ClientsAre DEF Fresh
  <2>2. DOMAIN backlog = {}
    BY <1>1
  <2>. QED
    BY <2>1, <2>2 DEF NewAreFresh
<1>8. OpenedOnce /\ MainIsReady
  BY <1>1, ClientsAre DEF OpenedOnce, MainIsReady, Opened
<1>9. \A i \in Slots : SlotAgrees(tcp_conns[i])
  BY <1>1 DEF SlotAgrees
<1>. QED
  BY <1>2, <1>3, <1>4, <1>5, <1>6, <1>7, <1>8, <1>9 DEF Agreed, Serving

LEMMA NextAgreed == ASSUME Agreed, [Next]_vars PROVE Agreed'
<1>1. ASSUME NEW c \in Clients, Connect(c) PROVE Agreed'
  BY <1>1, ConnectKeeps
<1>2. ASSUME NEW c \in Clients, WritePiece(c) \/ Leave(c) \/ Break(c) PROVE Agreed'
  BY <1>2, ClientKeeps
<1>3. CASE Select
  BY <1>3, SelectKeeps
<1>4. CASE accept_new_tcp
  BY <1>4, AcceptNewKeeps
<1>5. CASE receive_tcp
  BY <1>5, ReceiveKeeps
<1>6. CASE UNCHANGED vars
  <2>1. /\ UNCHANGED <<request, taken, answer, asset, fds, tcp_conns,
                       current_sockets, alive>>
        /\ UNCHANGED <<client, written, backlog, ready_sockets>>
    BY <1>6 DEF vars
  <2>2. /\ client \in [Clients -> {"new", "connected", "left", "broken"}]
        /\ written \in [Clients -> Nat]
        /\ \A c \in Clients : written[c] <= Total(c)
        /\ backlog \in Seq(Clients)
        /\ ready_sockets \subseteq current_sockets
    BY DEF Agreed, TypeOK
  <2>3. ASSUME alive PROVE NewAreFresh' /\ MainIsReady'
    <3>1. NewAreFresh /\ MainIsReady
      BY <2>3 DEF Agreed, Serving
    <3>. QED
      BY <2>1, <3>1 DEF NewAreFresh, MainIsReady, Fresh
  <2>. QED
    BY <2>1, <2>2, <2>3, ServerAlone
<1>. QED
  BY <1>1, <1>2, <1>3, <1>4, <1>5, <1>6 DEF Next, handle_sockets

\* Between any two steps of the loop the server's tables and the connections
\* agree, for any number of clients and slots (handle_sockets).
THEOREM Invariance == Spec => []Agreed
<1>1. Init => Agreed
  BY InitAgreed
<1>2. Agreed /\ [Next]_vars => Agreed'
  BY NextAgreed
<1>. QED
  BY <1>1, <1>2, PTL DEF Spec

\* The server reads no piece that was not written, and every request that is
\* kept is made of pieces and zeros (receive_tcp).
THEOREM TypeCorrect == Spec => []TypeOK
<1>1. Agreed => TypeOK
  BY DEF Agreed
<1>. QED
  BY <1>1, Invariance, PTL

\* What is open is watched and has one slot, and what is closed is neither
\* watched nor in the table (new_tcpconn, rm_tcpconn, FD_SET, FD_CLR, close).
THEOREM TablesAgree == Spec => []TableAgrees
<1>1. Agreed => TableAgrees
  BY DEF Agreed
<1>. QED
  BY <1>1, Invariance, PTL

\* A connection gets at most one answer, to its own request, however the pieces
\* of several requests interleave and slots are used again (receive_tcp).
THEOREM AnswersAreOwn == Spec => []AnswerIsOwn
<1>1. Agreed => AnswerIsOwn
  BY DEF Agreed
<1>. QED
  BY <1>1, Invariance, PTL

\* Each file gets the pieces of its own connection, in order, and all of them
\* before the OK (prepare_freceive, receive_tcp).
THEOREM AssetsAreOwn == Spec => []AssetIsOwn
<1>1. Agreed => AssetIsOwn
  BY DEF Agreed
<1>. QED
  BY <1>1, Invariance, PTL

\* An upload costs the server one descriptor at most (prepare_freceive).
THEOREM DescriptorsAreBounded == Spec => []DescriptorsBounded
<1>1. Agreed => DescriptorsBounded
  BY DEF Agreed
<1>. QED
  BY <1>1, Invariance, PTL

=============================================================================
