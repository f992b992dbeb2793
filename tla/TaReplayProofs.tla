--------------------------- MODULE TaReplayProofs ---------------------------
(***************************************************************************)
(* The live relay of a demo file (TaReplay) for every value of its         *)
(* constants: nothing is sent before its delay is over, and what a watcher *)
(* holds is the file, in order and without gaps.                           *)
(***************************************************************************)
EXTENDS MCReplayServer, NatLemmas, FiniteSetTheorems, SequenceTheorems, TLAPS

-----------------------------------------------------------------------------
(* What holds of a server and its watchers whatever the lobby announces:   *)
(* nothing that is stored, under way or logged is beyond the end of the    *)
(* demo file.                                                              *)

Messages == [status : Relay!Status, from : Nat, len : Nat]

GameInfos == [delay : Nat \union {-1}, log : {Relay!NoLog} \union Seq(Nat)]

UserContexts == [gameId : {0, 1}, pos : Nat \union {-1}]

RelayTypes ==
  /\ fileExists \in BOOLEAN /\ fileSize \in Nat /\ ended \in BOOLEAN
  /\ game \in {<<>>} \union {<<g>> : g \in GameInfos}
  /\ user \in [Client -> UserContexts]
  /\ out \in [Client -> Seq(Messages)]
  /\ net \in [Client -> Seq(Messages)]
  /\ subscribe \in [Client -> Seq(Nat)]
  /\ client \in [Client -> {"down", "up", "quit"}]
  /\ buffer \in [Client -> Seq(Nat)]
  /\ told \in [Client -> SUBSET Relay!Status]

InFile(msg) == msg.from + msg.len <= fileSize

(* Sizes were logged in the order of the ticks. *)
SizesOK(log) ==
  /\ \A k \in 1..Len(log) : log[k] <= fileSize
  /\ \A j, k \in 1..Len(log) : j <= k => log[j] <= log[k]

WithinFile ==
  /\ \A c \in Client :
       /\ user[c].pos <= fileSize
       /\ \A k \in 1..Len(out[c]) : InFile(out[c][k])
       /\ \A k \in 1..Len(net[c]) : InFile(net[c][k])
       /\ \A k \in 1..Len(buffer[c]) : buffer[c][k] <= fileSize
  /\ game # <<>> => SizesOK(game[1].log)

StreamInv == RelayTypes /\ WithinFile

(* A log is the end of the list of the file's sizes at all ticks. *)
EndOf(log, sizes) ==
  /\ Len(log) <= Len(sizes)
  /\ \A k \in 1..Len(log) : log[Len(log) - k + 1] = sizes[Len(sizes) - k + 1]

(* The relay while its delay is moved and its server restarted. *)
RelayInv ==
  /\ StreamInv
  /\ fileSize <= MaxSize
  /\ recent \in Seq(Nat) /\ \A k \in 1..Len(recent) : recent[k] <= fileSize
  /\ game # <<>> => game[1].delay \in Delays /\ (game[1].log # Relay!NoLog => EndOf(game[1].log, recent))
  /\ drops \in 0..MaxDrops /\ restarts \in 0..MaxRestarts

-----------------------------------------------------------------------------
(* What is under way to c. *)
Stream(c) == net[c] \o out[c]

(* A list of messages that continues a copy of a bytes up to b bytes. *)
Continues(msgs, a, b) ==
  /\ \A k \in 1..Len(msgs) : msgs[k].status = "OK"
  /\ msgs = <<>> => a = b
  /\ msgs # <<>> => /\ msgs[1].from = a
                    /\ msgs[Len(msgs)].from + msgs[Len(msgs)].len = b
  /\ \A k \in 1..(Len(msgs) - 1) : msgs[k + 1].from = msgs[k].from + msgs[k].len
  /\ \A k \in 1..Len(msgs) : msgs[k].from + msgs[k].len <= b

(* A connection subscribes once, at the number of bytes its client has;    *)
(* without a file it carries no data, and with one the data that is        *)
(* missing from the client's copy.                                         *)
ConnectionOK(c) ==
  /\ client[c] # "up" => subscribe[c] = <<>> /\ user[c].pos = -1 /\ Stream(c) = <<>>
  /\ subscribe[c] # <<>> => /\ subscribe[c] = <<Len(buffer[c])>>
                            /\ user[c].pos = -1 /\ Stream(c) = <<>>
  /\ user[c].pos = -1 => \A k \in 1..Len(Stream(c)) : Stream(c)[k].status # "OK"
  /\ user[c].pos # -1 => user[c].gameId = 1 /\ Continues(Stream(c), Len(buffer[c]), user[c].pos)

(* While the game lasts, no client has a byte that its delay withholds. *)
Withheld(c) ==
  (game # <<>> /\ game[1].delay >= 0) =>
    IF game[1].log # Relay!NoLog /\ Len(game[1].log) > game[1].delay
    THEN Len(buffer[c]) <= Head(game[1].log) /\ user[c].pos <= Head(game[1].log)
    ELSE buffer[c] = <<>> /\ user[c].pos \in {-1, 0}

(* A game is announced once: when there is none and none has ended, nobody *)
(* has any data.                                                           *)
Fresh(c) == (game = <<>> /\ ~ended) => buffer[c] = <<>> /\ user[c].pos = -1

(* The copy of c has neither gap nor repetition. *)
CopyOK(c) ==
  /\ \A k \in 1..Len(buffer[c]) : buffer[c][k] = k - 1
  /\ Len(buffer[c]) <= fileSize

(* Nobody reads a file whose size is not logged. *)
LoggedFirst == (game # <<>> /\ game[1].log = Relay!NoLog) => \A c \in Client : user[c].pos = -1

WatcherOK(c) == ConnectionOK(c) /\ Withheld(c) /\ Fresh(c) /\ CopyOK(c)

ResumeInv ==
  /\ StreamInv
  /\ restarts = 0 /\ (ended => game = <<>>)
  /\ LoggedFirst
  /\ \A c \in Client : WatcherOK(c)

-----------------------------------------------------------------------------
(* Operators of the library. *)

LEMMA SmallerOf ==
  ASSUME NEW a \in Int, NEW b \in Int
  PROVE  /\ Relay!Min({a, b}) = IF a <= b THEN a ELSE b
         /\ Resume!Min({a, b}) = IF a <= b THEN a ELSE b
<1> DEFINE m == IF a <= b THEN a ELSE b
<1>1. m \in {a, b} /\ \A x \in {a, b} : (\A y \in {a, b} : x =< y) <=> x = m
  OBVIOUS
<1> HIDE DEF m
<1>2. (CHOOSE x \in {a, b} : \A y \in {a, b} : x =< y) = m
  BY <1>1
<1> QED
  BY <1>2 DEF m, Relay!Min, Resume!Min

LEMMA LargerOf ==
  ASSUME NEW a \in Int, NEW b \in Int
  PROVE  /\ Relay!Max({a, b}) = IF a >= b THEN a ELSE b
         /\ Resume!Max({a, b}) = IF a >= b THEN a ELSE b
<1> DEFINE m == IF a >= b THEN a ELSE b
<1>1. m \in {a, b} /\ \A x \in {a, b} : (\A y \in {a, b} : x >= y) <=> x = m
  OBVIOUS
<1> HIDE DEF m
<1>2. (CHOOSE x \in {a, b} : \A y \in {a, b} : x >= y) = m
  BY <1>1
<1> QED
  BY <1>2 DEF m, Relay!Max, Resume!Max

LEMMA Products ==
  ASSUME NEW a \in Int, NEW b \in Int, NEW n \in Nat, a <= b
  PROVE  a * n <= b * n /\ a * n \in Int /\ b * n \in Int
<1>1. (b - a) * n \in Int /\ (b - a) * n >= 0
  <2> DEFINE d == b - a
  <2>1. d \in Nat
    OBVIOUS
  <2> HIDE DEF d
  <2>2. d * n \in Nat
    BY <2>1
  <2> QED
    BY <2>2 DEF d
<1>2. (b - a) * n = b * n - a * n
  OBVIOUS
<1>3. a * n \in Int /\ b * n \in Int
  OBVIOUS
<1> QED
  BY <1>1, <1>2, <1>3

-----------------------------------------------------------------------------
(* The chunks that are read for a user. *)

(* The k-th read of n bytes in pieces of size bytes. *)
ReadLen(size, n, k) == IF size <= n - (k - 1) * size THEN size ELSE n - (k - 1) * size

(* The first m reads. *)
Reads(size, n, start, m) ==
  [k \in 1..m |-> [status |-> "OK", from |-> start + (k - 1) * size, len |-> ReadLen(size, n, k)]]

ReadsEnd(size, n, start, m) ==
  IF m = 0 THEN start ELSE start + (m - 1) * size + ReadLen(size, n, m)

NonEmptyReads(size, n, rounds) == {r \in 1..rounds : ReadLen(size, n, r) > 0}

(* The reads that are not empty are the first ones. *)
LEMMA FirstReads ==
  ASSUME NEW size \in Nat \ {0}, NEW n \in Int, NEW rounds \in Int
  PROVE  \E m \in Nat : NonEmptyReads(size, n, rounds) = 1..m /\ Cardinality(1..m) = m
<1> USE DEF NonEmptyReads
<1> DEFINE S == NonEmptyReads(size, n, rounds)
           T == {r \in 1..rounds : ~(ReadLen(size, n, r) > 0)}
<1>1. ASSUME NEW r \in 1..rounds, NEW s \in 1..rounds, r <= s, s \in S PROVE r \in S
  <2>1. (r - 1) * size <= (s - 1) * size /\ (r - 1) * size \in Int /\ (s - 1) * size \in Int
    BY <1>1, Products
  <2> DEFINE x == (r - 1) * size
             y == (s - 1) * size
  <2>2. x <= y /\ x \in Int /\ y \in Int
    BY <2>1
  <2>3. (IF size <= n - y THEN size ELSE n - y) > 0
    BY <1>1 DEF ReadLen
  <2> HIDE DEF x, y
  <2>4. (IF size <= n - x THEN size ELSE n - x) > 0
    BY <2>2, <2>3
  <2> QED
    BY <2>4 DEF x, ReadLen
<1>2. \A m \in Nat : Cardinality(1..m) = m
  <2> SUFFICES ASSUME NEW m \in Nat PROVE Cardinality(1..m) = m
    OBVIOUS
  <2>1. Cardinality(1..m) = IF 1 > m THEN 0 ELSE m - 1 + 1
    BY FS_Interval
  <2> QED
    BY <2>1
<1>3. CASE T = {}
  <2>1. S = 1..rounds
    BY <1>3
  <2>2. CASE rounds >= 0
    BY <1>2, <2>1, <2>2
  <2>3. CASE rounds < 0
    <3>1. S = 1..0
      BY <2>1, <2>3
    <3> QED
      BY <1>2, <3>1
  <2> QED
    BY <2>2, <2>3
<1>4. CASE T # {}
  <2>1. T \in SUBSET Nat
    OBVIOUS
  <2>2. PICK t \in T : \A k \in T : t <= k
    BY <1>4, <2>1, SmallestOf, Zenon
  <2>3. S = 1..(t - 1)
    <3>1. ASSUME NEW r \in 1..(t - 1) PROVE r \in S
      BY <2>2
    <3>2. ASSUME NEW r \in S PROVE r \in 1..(t - 1)
      <4>1. ~(t <= r)
        <5>1. t \in 1..rounds /\ t \notin S
          BY <2>2
        <5> QED
          BY <1>1, <5>1
      <4> QED
        BY <2>2, <4>1
    <3> QED
      BY <3>1, <3>2
  <2>4. t - 1 \in Nat
    BY <2>2
  <2> QED
    BY <1>2, <2>3, <2>4
<1> QED
  BY <1>3, <1>4

(* They carry on where the user was and end within the n bytes. *)
LEMMA ReadsContinue ==
  ASSUME NEW size \in Nat \ {0}, NEW n \in Int, NEW start \in Nat, NEW m \in Nat,
         \A k \in 1..m : ReadLen(size, n, k) > 0
  PROVE  /\ Reads(size, n, start, m) \in Seq(Messages)
         /\ Len(Reads(size, n, start, m)) = m
         /\ Continues(Reads(size, n, start, m), start, ReadsEnd(size, n, start, m))
         /\ ReadsEnd(size, n, start, m) \in Nat /\ ReadsEnd(size, n, start, m) >= start
         /\ m > 0 => ReadsEnd(size, n, start, m) <= start + n
<1> DEFINE s == Reads(size, n, start, m)
           end == ReadsEnd(size, n, start, m)
           X(k) == (k - 1) * size
           L(k) == ReadLen(size, n, k)
<1>1. ASSUME NEW k \in 1..m
      PROVE  /\ X(k) \in Nat /\ L(k) \in Nat /\ L(k) <= size /\ X(k) + L(k) <= n
             /\ X(k + 1) = X(k) + size
             /\ k < m => L(k) = size
  <2>1. 0 * size <= (k - 1) * size /\ (k - 1) * size \in Int
    BY Products
  <2>2. X(k) \in Nat
    BY <2>1
  <2>3. X(k + 1) = X(k) + size
    OBVIOUS
  <2>4. L(k) = (IF size <= n - X(k) THEN size ELSE n - X(k)) /\ L(k) > 0
    BY DEF ReadLen
  <2>5. k < m => L(k + 1) = (IF size <= n - X(k + 1) THEN size ELSE n - X(k + 1)) /\ L(k + 1) > 0
    <3>1. k < m => L(k + 1) > 0
      OBVIOUS
    <3>2. (k + 1) - 1 = k /\ X(k + 1) = ((k + 1) - 1) * size
      OBVIOUS
    <3> QED
      BY <3>1, <3>2 DEF ReadLen
  <2> HIDE DEF X, L
  <2> QED
    BY <2>2, <2>3, <2>4, <2>5
<1>2. ASSUME NEW j \in 1..m, NEW k \in 1..m, j < k PROVE X(j) + size <= X(k)
  <2>1. j * size <= (k - 1) * size
    BY <1>2, Products
  <2>2. X(j) + size = j * size
    OBVIOUS
  <2> QED
    BY <2>1, <2>2
<1> HIDE DEF X, L
<1>3. s = [k \in 1..m |-> [status |-> "OK", from |-> start + X(k), len |-> L(k)]]
  BY DEF Reads, X, L
<1>4. end = IF m = 0 THEN start ELSE start + X(m) + L(m)
  BY DEF ReadsEnd, X, L
<1> HIDE DEF s, end
<1>5. s \in Seq(Messages) /\ Len(s) = m
  <2>1. \A k \in 1..m : [status |-> "OK", from |-> start + X(k), len |-> L(k)] \in Messages
    BY <1>1 DEF Messages, Relay!Status
  <2> QED
    BY <1>3, <2>1
<1>6. \A k \in 1..m : s[k].status = "OK" /\ s[k].from = start + X(k) /\ s[k].len = L(k)
  BY <1>3
<1>7. end \in Nat /\ end >= start /\ (m > 0 => end <= start + n)
  <2>1. CASE m = 0
    BY <1>4, <2>1
  <2>2. CASE m # 0
    <3>1. m \in 1..m
      BY <2>2
    <3> QED
      BY <1>1, <1>4, <2>2, <3>1
  <2> QED
    BY <2>1, <2>2
<1>8. Continues(s, start, end)
  <2>1. s = <<>> => start = end
    BY <1>4, <1>5
  <2>2. s # <<>> => s[1].from = start /\ s[Len(s)].from + s[Len(s)].len = end
    <3> SUFFICES ASSUME s # <<>> PROVE s[1].from = start /\ s[m].from + s[m].len = end
      BY <1>5
    <3>1. m # 0
      BY <1>5
    <3>2. 1 \in 1..m /\ m \in 1..m
      BY <3>1
    <3>3. X(1) = 0
      BY DEF X
    <3>4. s[1].from = start + X(1)
      BY <1>6, <3>2
    <3>5. s[1].from = start
      BY <3>3, <3>4
    <3>6. s[m].from = start + X(m) /\ s[m].len = L(m)
      BY <1>6, <3>2
    <3>7. end = start + X(m) + L(m)
      BY <1>4, <3>1
    <3> QED
      BY <3>5, <3>6, <3>7
  <2>3. \A k \in 1..(Len(s) - 1) : s[k + 1].from = s[k].from + s[k].len
    <3> SUFFICES ASSUME NEW k \in 1..(m - 1) PROVE s[k + 1].from = s[k].from + s[k].len
      BY <1>5
    <3>1. k \in 1..m /\ k + 1 \in 1..m /\ k < m
      OBVIOUS
    <3> QED
      BY <1>1, <1>6, <3>1
  <2>4. \A k \in 1..Len(s) : s[k].from + s[k].len <= end
    <3> SUFFICES ASSUME NEW k \in 1..m PROVE s[k].from + s[k].len <= end
      BY <1>5
    <3>1. CASE k = m
      BY <1>1, <1>4, <1>6, <3>1
    <3>2. CASE k < m
      <4>1. m \in 1..m /\ m # 0 /\ X(k) + size <= X(m)
        BY <1>2, <3>2
      <4> QED
        BY <1>1, <1>4, <1>6, <3>2, <4>1
    <3> QED
      BY <3>1, <3>2
  <2> QED
    BY <1>5, <1>6, <2>1, <2>2, <2>3, <2>4 DEF Continues
<1> QED
  BY <1>5, <1>7, <1>8 DEF s, end

(* The bytes of a list of messages. *)
BytesOf(s) ==
  LET bytes[n \in 0..Len(s)] == IF n = 0 THEN 0 ELSE bytes[n - 1] + s[n].len
  IN bytes[Len(s)]

LEMMA BytesAreCounted ==
  ASSUME NEW s \in Seq(Messages)
  PROVE  BytesOf(s) \in Nat
<1> DEFINE N == Len(s)
           Is(f) == f = [n \in 0..N |-> IF n = 0 THEN 0 ELSE f[n - 1] + s[n].len]
           step == [p \in (1..N) \X Nat |-> p[2] + s[p[1]].len]
<1>1. N \in Nat /\ \A n \in 1..N : s[n].len \in Nat
  <2>1. N \in Nat /\ \A n \in 1..N : s[n] \in Messages
    BY LenProperties
  <2> QED
    BY <2>1 DEF Messages
<1> HIDE DEF N
<1>2. step \in [(1..N) \X Nat -> Nat]
  BY <1>1
<1>3. PICK f \in [0..N -> Nat] : IsRecursion(f, 0, N, step)
  <2> HIDE DEF step
  <2> QED
    BY <1>1, <1>2, RecursionExists, Zenon
<1>4. ASSUME NEW n \in 1..N PROVE f[n] = f[n - 1] + s[n].len
  <2>1. <<n, f[n - 1]>> \in (1..N) \X Nat
    BY <1>1
  <2>2. step[<<n, f[n - 1]>>] = f[n - 1] + s[n].len
    BY <2>1
  <2> HIDE DEF step
  <2> QED
    BY <1>3, <2>2 DEF IsRecursion
<1>5. Is(f)
  <2> DEFINE g == [n \in 0..N |-> IF n = 0 THEN 0 ELSE f[n - 1] + s[n].len]
  <2>1. ASSUME NEW n \in 0..N PROVE f[n] = g[n]
    BY <1>1, <1>3, <1>4 DEF IsRecursion
  <2> HIDE DEF g
  <2>2. DOMAIN g = 0..N /\ g = [n \in 0..N |-> g[n]]
    BY DEF g
  <2>3. f = g
    BY <2>1, <2>2
  <2> QED
    BY <2>3, Zenon DEF g
<1> DEFINE h == CHOOSE f1 : Is(f1)
<1>6. Is(h)
  <2> HIDE DEF Is
  <2> QED
    BY <1>5
<1>7. BytesOf(s) = h[N]
  BY DEF BytesOf, N
<1> HIDE DEF h
<1>8. \A n \in 0..N : h[n] = IF n = 0 THEN 0 ELSE h[n - 1] + s[n].len
  BY <1>6, Zenon
<1> DEFINE S == {n \in 0..N : h[n] \in Nat}
<1>9. 0 \in S
  BY <1>1, <1>8
<1>10. ASSUME NEW n \in 0..N, n \in S, n < N PROVE n + 1 \in S
  <2>1. n + 1 \in 1..N /\ h[n + 1] = h[n] + s[n + 1].len
    BY <1>1, <1>8, <1>10
  <2> QED
    BY <1>1, <1>10, <2>1
<1>11. 0..N \subseteq S
  <2> HIDE DEF S
  <2> QED
    BY <1>1, <1>9, <1>10, UpTo, Zenon
<1> QED
  BY <1>1, <1>7, <1>11

LEMMA RelayConstants ==
  /\ Delays \subseteq Nat \union {-1} /\ Delays # {} /\ IsFiniteSet(Delays)
  /\ CHUNK_SIZE \in Nat \ {0} /\ MaxBytesPerUserPerSecond \in Nat
  /\ MaxSize \in Nat /\ MaxDrops \in Nat /\ MaxRestarts \in Nat
<1>1. Relay!ConstantsOK
  BY ConstantsAssumption
<1>2. Relay!IsFiniteSet(Delays) = IsFiniteSet(Delays)
  BY DEF Relay!IsFiniteSet, IsFiniteSet
<1> QED
  BY <1>1, <1>2 DEF Relay!ConstantsOK

LEMMA ResumeConstants ==
  /\ ResumeDelays \subseteq Nat \union {-1}
  /\ ResumeChunk \in Nat \ {0} /\ ResumeBytes \in Nat
BY ConstantsAssumption DEF Resume!ConstantsOK

(* What a tick sends a user who is at start and may read up to limit. *)
Serves(chunks, start, end, limit) ==
  /\ chunks \in Seq(Messages) /\ end \in Nat \union {-1}
  /\ start = -1 => chunks = <<>> /\ end = -1
  /\ start # -1 => end >= start /\ Continues(chunks, start, end)
  /\ chunks = <<>> => end = start
  /\ chunks # <<>> => end <= fileSize /\ end <= limit

(* How far the user may read. *)
LEMMA LimitType ==
  ASSUME NEW u \in UserContexts, NEW g \in {<<>>} \union {<<x>> : x \in GameInfos}
  PROVE  Relay!DataEscrowThreshold(u, g) \in Int /\ Resume!DataEscrowThreshold(u, g) \in Int
<1>1. u.pos \in Int /\ MaxBytesPerUserPerSecond \in Int /\ ResumeBytes \in Int
  BY RelayConstants, ResumeConstants DEF UserContexts
<1>2. CASE u.gameId = 1 /\ g # <<>>
  <2>1. PICK x \in GameInfos : g = <<x>>
    BY <1>2
  <2>2. g[1] = x /\ x.log \in {Relay!NoLog} \union Seq(Nat)
    BY <2>1 DEF GameInfos
  <2>3. x.log \notin {Relay!NoLog, <<>>} => Head(x.log) \in Int
    BY <2>2, HeadTailProperties
  <2>4. Relay!NoLog = Resume!NoLog
    BY DEF Relay!NoLog, Resume!NoLog
  <2> QED
    BY <1>2, <2>2, <2>3, <2>4 DEF Relay!DataEscrowThreshold, Resume!DataEscrowThreshold, Relay!NoFile, Resume!NoFile
<1>3. CASE ~(u.gameId = 1 /\ g # <<>>)
  BY <1>1, <1>3 DEF Relay!DataEscrowThreshold, Resume!DataEscrowThreshold
<1> QED
  BY <1>2, <1>3

LEMMA RelayServes ==
  ASSUME RelayTypes, NEW c \in Client, NEW g \in {<<>>} \union {<<x>> : x \in GameInfos}
  PROVE  Serves(Relay!ServiceUser(c, g), user[c].pos,
                Relay!ReadPos(user[c].pos, Relay!ServiceUser(c, g)),
                Relay!DataEscrowThreshold(user[c], g))
<1> DEFINE start == user[c].pos
           limit == Relay!DataEscrowThreshold(user[c], g)
           room == MaxBytesPerUserPerSecond - Relay!Pending(c)
           rounds == IF room <= 0 THEN 0 ELSE (room + CHUNK_SIZE - 1) \div CHUNK_SIZE
           n == (IF fileSize <= limit THEN fileSize ELSE limit) - start
           chunks == Relay!ServiceUser(c, g)
<1>1. user[c] \in UserContexts /\ start \in Nat \union {-1} /\ fileSize \in Nat /\ out[c] \in Seq(Messages)
  BY DEF RelayTypes, UserContexts
<1>2. limit \in Int
  BY <1>1, LimitType
<1>3. CASE start = -1
  <2>1. chunks = <<>>
    BY <1>3 DEF Relay!ServiceUser, Relay!NoFile
  <2> QED
    BY <1>3, <2>1, EmptySeq DEF Relay!ReadPos, Serves
<1>4. CASE start # -1
  <2>1. start \in Nat /\ n \in Int
    BY <1>1, <1>2, <1>4
  <2>2. room \in Int
    <3>1. Relay!Pending(c) = BytesOf(out[c])
      BY DEF Relay!Pending, BytesOf
    <3> QED
      BY <1>1, <3>1, BytesAreCounted, RelayConstants
  <2>3. rounds \in Int
    <3> HIDE DEF room
    <3> QED
      BY <2>2, RelayConstants
  <2>4. chunks = [k \in 1..Relay!Cardinality({r \in 1..rounds : Relay!Min({CHUNK_SIZE, n - (r - 1) * CHUNK_SIZE}) > 0}) |->
                    [status |-> "OK", from |-> start + (k - 1) * CHUNK_SIZE,
                     len |-> Relay!Min({CHUNK_SIZE, n - (k - 1) * CHUNK_SIZE})]]
    <3>1. Relay!Min({fileSize, limit}) - start = n
      <4>1. fileSize \in Int /\ limit \in Int
        BY <1>1, <1>2
      <4> HIDE DEF limit
      <4>2. Relay!Min({fileSize, limit}) = IF fileSize <= limit THEN fileSize ELSE limit
        BY <4>1, SmallerOf
      <4> QED
        BY <4>2
    <3> HIDE DEF n, limit
    <3> QED
      BY <1>4, <3>1, Zenon DEF Relay!ServiceUser, Relay!Chunks, Relay!NoFile, limit
  <2> HIDE DEF n, rounds, chunks, limit, start
  <2>5. \A k \in Int : Relay!Min({CHUNK_SIZE, n - (k - 1) * CHUNK_SIZE}) = ReadLen(CHUNK_SIZE, n, k)
    <3> SUFFICES ASSUME NEW k \in Int PROVE Relay!Min({CHUNK_SIZE, n - (k - 1) * CHUNK_SIZE}) = ReadLen(CHUNK_SIZE, n, k)
      OBVIOUS
    <3>1. n - (k - 1) * CHUNK_SIZE \in Int /\ CHUNK_SIZE \in Int
      BY <2>1, RelayConstants
    <3> QED
      BY <3>1, SmallerOf DEF ReadLen
  <2>6. {r \in 1..rounds : Relay!Min({CHUNK_SIZE, n - (r - 1) * CHUNK_SIZE}) > 0} = NonEmptyReads(CHUNK_SIZE, n, rounds)
    BY <2>3, <2>5 DEF NonEmptyReads
  <2>7. PICK m \in Nat : NonEmptyReads(CHUNK_SIZE, n, rounds) = 1..m /\ Cardinality(1..m) = m
    BY <2>1, <2>3, RelayConstants, FirstReads
  <2>8. Relay!Cardinality(1..m) = m
    BY <2>7 DEF Relay!Cardinality, Cardinality
  <2>9. chunks = Reads(CHUNK_SIZE, n, start, m)
    <3>1. chunks = [k \in 1..m |-> [status |-> "OK", from |-> start + (k - 1) * CHUNK_SIZE,
                                    len |-> Relay!Min({CHUNK_SIZE, n - (k - 1) * CHUNK_SIZE})]]
      BY <2>4, <2>6, <2>7, <2>8, Zenon
    <3> QED
      BY <2>5, <3>1 DEF Reads
  <2>10. \A k \in 1..m : ReadLen(CHUNK_SIZE, n, k) > 0
    BY <2>7 DEF NonEmptyReads
  <2> DEFINE end == ReadsEnd(CHUNK_SIZE, n, start, m)
  <2>11. /\ chunks \in Seq(Messages) /\ Len(chunks) = m
         /\ Continues(chunks, start, end)
         /\ end \in Nat /\ end >= start /\ (m > 0 => end <= start + n)
    BY <2>1, <2>9, <2>10, RelayConstants, ReadsContinue
  <2> HIDE DEF end
  <2>12. start + n <= fileSize /\ start + n <= limit
    BY <1>1, <1>2, <2>1 DEF n
  <2>13. chunks = <<>> => end = start
    BY <2>11 DEF Continues
  <2>14. chunks # <<>> => end <= fileSize /\ end <= limit
    <3>1. chunks # <<>> => m > 0
      BY <2>11, EmptySeq
    <3> QED
      BY <1>1, <1>2, <2>1, <2>11, <2>12, <3>1
  <2>15. Relay!ReadPos(start, chunks) = end
    BY <2>11, <2>13 DEF Relay!ReadPos, Relay!Last, Continues
  <2>16. Serves(chunks, start, end, limit)
    BY <1>4, <2>11, <2>13, <2>14 DEF Serves, start
  <2> QED
    BY <2>15, <2>16 DEF chunks, start, limit
<1> QED
  BY <1>3, <1>4

LEMMA ResumeServes ==
  ASSUME RelayTypes, NEW c \in Client, NEW g \in {<<>>} \union {<<x>> : x \in GameInfos}
  PROVE  Serves(Resume!ServiceUser(c, g), user[c].pos,
                Resume!ReadPos(user[c].pos, Resume!ServiceUser(c, g)),
                Resume!DataEscrowThreshold(user[c], g))
<1> DEFINE start == user[c].pos
           limit == Resume!DataEscrowThreshold(user[c], g)
           room == ResumeBytes - Resume!Pending(c)
           rounds == IF room <= 0 THEN 0 ELSE (room + ResumeChunk - 1) \div ResumeChunk
           n == (IF fileSize <= limit THEN fileSize ELSE limit) - start
           chunks == Resume!ServiceUser(c, g)
<1>1. user[c] \in UserContexts /\ start \in Nat \union {-1} /\ fileSize \in Nat /\ out[c] \in Seq(Messages)
  BY DEF RelayTypes, UserContexts
<1>2. limit \in Int
  BY <1>1, LimitType
<1>3. CASE start = -1
  <2>1. chunks = <<>>
    BY <1>3 DEF Resume!ServiceUser, Resume!NoFile
  <2> QED
    BY <1>3, <2>1, EmptySeq DEF Resume!ReadPos, Serves
<1>4. CASE start # -1
  <2>1. start \in Nat /\ n \in Int
    BY <1>1, <1>2, <1>4
  <2>2. room \in Int
    <3>1. Resume!Pending(c) = BytesOf(out[c])
      BY DEF Resume!Pending, BytesOf
    <3> QED
      BY <1>1, <3>1, BytesAreCounted, ResumeConstants
  <2>3. rounds \in Int
    <3> HIDE DEF room
    <3> QED
      BY <2>2, ResumeConstants
  <2>4. chunks = [k \in 1..Resume!Cardinality({r \in 1..rounds : Resume!Min({ResumeChunk, n - (r - 1) * ResumeChunk}) > 0}) |->
                    [status |-> "OK", from |-> start + (k - 1) * ResumeChunk,
                     len |-> Resume!Min({ResumeChunk, n - (k - 1) * ResumeChunk})]]
    <3>1. Resume!Min({fileSize, limit}) - start = n
      <4>1. fileSize \in Int /\ limit \in Int
        BY <1>1, <1>2
      <4> HIDE DEF limit
      <4>2. Resume!Min({fileSize, limit}) = IF fileSize <= limit THEN fileSize ELSE limit
        BY <4>1, SmallerOf, Zenon
      <4> QED
        BY <4>2
    <3> HIDE DEF n, limit
    <3> QED
      BY <1>4, <3>1, Zenon DEF Resume!ServiceUser, Resume!Chunks, Resume!NoFile, limit
  <2> HIDE DEF n, rounds, chunks, limit, start
  <2>5. \A k \in Int : Resume!Min({ResumeChunk, n - (k - 1) * ResumeChunk}) = ReadLen(ResumeChunk, n, k)
    <3> SUFFICES ASSUME NEW k \in Int PROVE Resume!Min({ResumeChunk, n - (k - 1) * ResumeChunk}) = ReadLen(ResumeChunk, n, k)
      OBVIOUS
    <3>1. n - (k - 1) * ResumeChunk \in Int /\ ResumeChunk \in Int
      BY <2>1, ResumeConstants
    <3> QED
      BY <3>1, SmallerOf, Zenon DEF ReadLen
  <2>6. {r \in 1..rounds : Resume!Min({ResumeChunk, n - (r - 1) * ResumeChunk}) > 0} = NonEmptyReads(ResumeChunk, n, rounds)
    BY <2>3, <2>5 DEF NonEmptyReads
  <2>7. PICK m \in Nat : NonEmptyReads(ResumeChunk, n, rounds) = 1..m /\ Cardinality(1..m) = m
    BY <2>1, <2>3, ResumeConstants, FirstReads
  <2>8. Resume!Cardinality(1..m) = m
    BY <2>7 DEF Resume!Cardinality, Cardinality
  <2>9. chunks = Reads(ResumeChunk, n, start, m)
    <3>1. chunks = [k \in 1..m |-> [status |-> "OK", from |-> start + (k - 1) * ResumeChunk,
                                    len |-> Resume!Min({ResumeChunk, n - (k - 1) * ResumeChunk})]]
      BY <2>4, <2>6, <2>7, <2>8, Zenon
    <3> QED
      BY <2>5, <3>1 DEF Reads
  <2>10. \A k \in 1..m : ReadLen(ResumeChunk, n, k) > 0
    BY <2>7 DEF NonEmptyReads
  <2> DEFINE end == ReadsEnd(ResumeChunk, n, start, m)
  <2>11. /\ chunks \in Seq(Messages) /\ Len(chunks) = m
         /\ Continues(chunks, start, end)
         /\ end \in Nat /\ end >= start /\ (m > 0 => end <= start + n)
    BY <2>1, <2>9, <2>10, ResumeConstants, ReadsContinue
  <2> HIDE DEF end
  <2>12. start + n <= fileSize /\ start + n <= limit
    BY <1>1, <1>2, <2>1 DEF n
  <2>13. chunks = <<>> => end = start
    BY <2>11 DEF Continues
  <2>14. chunks # <<>> => end <= fileSize /\ end <= limit
    <3>1. chunks # <<>> => m > 0
      BY <2>11, EmptySeq
    <3> QED
      BY <1>1, <1>2, <2>1, <2>11, <2>12, <3>1
  <2>15. Resume!ReadPos(start, chunks) = end
    BY <2>11, <2>13 DEF Resume!ReadPos, Resume!Last, Continues
  <2>16. Serves(chunks, start, end, limit)
    BY <1>4, <2>11, <2>13, <2>14 DEF Serves, start
  <2> QED
    BY <2>15, <2>16 DEF chunks, start, limit
<1> QED
  BY <1>3, <1>4

-----------------------------------------------------------------------------
(* What the steps do to the streams. *)

Grows ==
  /\ fileSize' \in Nat /\ fileSize' >= fileSize /\ fileExists' \in BOOLEAN
  /\ UNCHANGED <<game, ended, user, out, net, subscribe, client, buffer, told>>

(* How far a user of the game may read after a tick. *)
Escrow(g) ==
  IF g.log \notin {Relay!NoLog, <<>>} /\ Len(g.log) > g.delay THEN Head(g.log) ELSE -1

(* A tick: the size of the file is logged, and the users are served. *)
Ticks ==
  /\ game' = IF game = <<>> THEN <<>> ELSE <<Relay!UpdateFileSizeLog(game[1])>>
  /\ out' \in [Client -> Seq(Messages)] /\ user' \in [Client -> UserContexts]
  /\ \A c \in Client :
       /\ user'[c].gameId = user[c].gameId
       /\ \E chunks \in Seq(Messages), limit \in Int :
            /\ out'[c] = out[c] \o chunks
            /\ Serves(chunks, user[c].pos, user'[c].pos, limit)
            /\ (user[c].gameId = 1 /\ game' # <<>>) => limit = Escrow(game'[1])
  /\ UNCHANGED <<fileExists, fileSize, ended, net, subscribe, client, buffer, told>>

(* The connection of c ends. *)
CutOff(c) ==
  /\ Relay!Cut(c)
  /\ \E s \in {"down", "quit"} : client' = [client EXCEPT ![c] = s]
  /\ UNCHANGED <<fileExists, fileSize, game, ended, buffer, told>>

(* The log before a size is added. *)
OldLog(g) == IF g.log = Relay!NoLog THEN <<>> ELSE g.log

LEMMA NoLogIsNone == Relay!NoLog \notin Seq(Nat) /\ Relay!NoLog # <<>> /\ Resume!NoLog = Relay!NoLog
<1>1. Relay!NoLog = <<-1>> /\ Resume!NoLog = <<-1>>
  BY DEF Relay!NoLog, Resume!NoLog
<1>2. <<-1>> \notin Seq(Nat)
  <2> SUFFICES ASSUME <<-1>> \in Seq(Nat) PROVE FALSE
    OBVIOUS
  <2>1. Len(<<-1>>) = 1 /\ <<-1>>[1] = -1
    OBVIOUS
  <2>2. <<-1>>[1] \in Nat
    BY <2>1, LenProperties
  <2> QED
    BY <2>1, <2>2
<1> QED
  BY <1>1, <1>2

LEMMA Trims ==
  ASSUME NEW a \in Seq(Nat), NEW d \in Nat \union {-1}
  PROVE  LET t == Relay!Trimmed(a, d) IN
           /\ t \in Seq(Nat)
           /\ Len(t) = IF Len(a) <= 1 + d THEN Len(a) ELSE 1 + d
           /\ \A k \in 1..Len(t) : t[k] = a[Len(a) - Len(t) + k]
<1> DEFINE n == Len(a)
           s == IF 0 >= n - (1 + d) THEN 0 ELSE n - (1 + d)
           t == Relay!Trimmed(a, d)
<1>1. n \in Nat /\ d \in Int /\ \A k \in 1..n : a[k] \in Nat
  BY LenProperties
<1> HIDE DEF n
<1>2. Relay!Max({0, n - (1 + d)}) = s
  BY <1>1, LargerOf
<1>3. t = SubSeq(a, s + 1, n)
  BY <1>2, Zenon DEF Relay!Trimmed, n
<1>4. s \in Nat /\ s <= n
  BY <1>1
<1>5. n - s = IF n <= 1 + d THEN n ELSE 1 + d
  BY <1>1
<1> HIDE DEF s, t
<1>6. /\ t \in Seq(Nat)
      /\ Len(t) = IF s + 1 <= n THEN n - (s + 1) + 1 ELSE 0
      /\ \A k \in 1..(n - (s + 1) + 1) : t[k] = a[(s + 1) + k - 1]
  <2>1. \A k \in (s + 1)..n : a[k] \in Nat
    BY <1>1, <1>4
  <2> QED
    BY <1>1, <1>3, <1>4, <2>1, SubSeqProperties
<1>7. Len(t) = n - s
  BY <1>1, <1>4, <1>6
<1>8. \A k \in 1..Len(t) : t[k] = a[n - Len(t) + k]
  <2> SUFFICES ASSUME NEW k \in 1..Len(t) PROVE t[k] = a[n - Len(t) + k]
    OBVIOUS
  <2>1. k \in 1..(n - (s + 1) + 1) /\ (s + 1) + k - 1 = n - Len(t) + k
    BY <1>1, <1>4, <1>7
  <2> QED
    BY <1>6, <2>1
<1> QED
  BY <1>5, <1>6, <1>7, <1>8, Zenon DEF t, n

(* updateFileSizeLog. *)
LEMMA LogUpdated ==
  ASSUME NEW g \in GameInfos, fileSize \in Nat, fileExists \in BOOLEAN, SizesOK(g.log)
  PROVE  LET h == Relay!UpdateFileSizeLog(g)
             a == Append(OldLog(g), fileSize)
         IN /\ h \in GameInfos /\ h.delay = g.delay /\ g.delay \in Nat \union {-1}
            /\ SizesOK(h.log)
            /\ (g.log = Relay!NoLog /\ ~fileExists) => h = g
            /\ ~(g.log = Relay!NoLog /\ ~fileExists) =>
                 /\ h.log \in Seq(Nat) /\ h.log # Relay!NoLog
                 /\ a \in Seq(Nat) /\ Len(a) = Len(OldLog(g)) + 1 /\ a[Len(a)] = fileSize
                 /\ \A k \in 1..Len(OldLog(g)) : a[k] = OldLog(g)[k]
                 /\ Len(h.log) = IF Len(a) <= 1 + g.delay THEN Len(a) ELSE 1 + g.delay
                 /\ \A k \in 1..Len(h.log) : h.log[k] = a[Len(a) - Len(h.log) + k]
<1> DEFINE h == Relay!UpdateFileSizeLog(g)
           old == OldLog(g)
           a == Append(old, fileSize)
           t == Relay!Trimmed(a, g.delay)
<1>1. g.delay \in Nat \union {-1} /\ old \in Seq(Nat) /\ Len(old) \in Nat
  BY EmptySeq, LenProperties DEF GameInfos, OldLog
<1>2. CASE g.log = Relay!NoLog /\ ~fileExists
  <2>1. h = g
    BY <1>2 DEF Relay!UpdateFileSizeLog, Relay!FoundFile
  <2> HIDE DEF h
  <2> QED
    BY <1>1, <1>2, <2>1, Zenon DEF h
<1>3. CASE ~(g.log = Relay!NoLog /\ ~fileExists)
  <2>1. h = [g EXCEPT !.log = t]
    BY <1>3 DEF Relay!UpdateFileSizeLog, Relay!FoundFile, OldLog
  <2>2. a \in Seq(Nat) /\ Len(a) = Len(old) + 1 /\ a[Len(a)] = fileSize
        /\ \A k \in 1..Len(old) : a[k] = old[k]
    <3> HIDE DEF old
    <3> QED
      BY <1>1, AppendProperties
  <2> HIDE DEF a
  <2>3. /\ t \in Seq(Nat)
        /\ Len(t) = IF Len(a) <= 1 + g.delay THEN Len(a) ELSE 1 + g.delay
        /\ \A k \in 1..Len(t) : t[k] = a[Len(a) - Len(t) + k]
    BY <1>1, <2>2, Trims, Zenon
  <2> HIDE DEF t, h
  <2>4. h \in GameInfos /\ h.delay = g.delay /\ h.log = t
    BY <2>1, <2>3, Zenon DEF GameInfos
  <2>5. \A k \in 1..Len(old) : old[k] <= fileSize /\ old[k] \in Nat
    <3>1. CASE g.log = Relay!NoLog
      BY <3>1, EmptySeq DEF OldLog
    <3>2. CASE g.log # Relay!NoLog
      BY <1>1, <3>2, LenProperties DEF OldLog, SizesOK
    <3> QED
      BY <3>1, <3>2
  <2>6. \A j, k \in 1..Len(old) : j <= k => old[j] <= old[k]
    <3>1. CASE g.log = Relay!NoLog
      BY <3>1, EmptySeq DEF OldLog
    <3>2. CASE g.log # Relay!NoLog
      BY <3>2 DEF OldLog, SizesOK
    <3> QED
      BY <3>1, <3>2
  <2> HIDE DEF old
  <2>7. \A k \in 1..Len(a) : a[k] <= fileSize
    <3> SUFFICES ASSUME NEW k \in 1..Len(a) PROVE a[k] <= fileSize
      OBVIOUS
    <3>1. CASE k \in 1..Len(old)
      BY <2>2, <2>5, <3>1
    <3>2. CASE k = Len(a)
      BY <2>2, <3>2
    <3> QED
      BY <1>1, <2>2, <3>1, <3>2
  <2>8. \A j, k \in 1..Len(a) : j <= k => a[j] <= a[k]
    <3> SUFFICES ASSUME NEW j \in 1..Len(a), NEW k \in 1..Len(a), j <= k PROVE a[j] <= a[k]
      OBVIOUS
    <3>1. CASE k \in 1..Len(old)
      <4>1. j \in 1..Len(old)
        BY <1>1, <3>1
      <4> QED
        BY <2>2, <2>6, <3>1, <4>1
    <3>2. CASE k = Len(a)
      BY <2>2, <2>7, <3>2
    <3> QED
      BY <1>1, <2>2, <3>1, <3>2
  <2>9. Len(t) \in Nat /\ Len(a) \in Nat /\ Len(t) <= Len(a)
    BY <1>1, <2>2, <2>3, LenProperties
  <2>10. SizesOK(t)
    <3>1. \A k \in 1..Len(t) : Len(a) - Len(t) + k \in 1..Len(a)
      BY <2>9
    <3>2. \A k \in 1..Len(t) : t[k] <= fileSize
      BY <2>3, <2>7, <3>1, Zenon
    <3>3. ASSUME NEW j \in 1..Len(t), NEW k \in 1..Len(t), j <= k PROVE t[j] <= t[k]
      <4>1. Len(a) - Len(t) + j <= Len(a) - Len(t) + k
        BY <2>9, <3>3
      <4>2. a[Len(a) - Len(t) + j] <= a[Len(a) - Len(t) + k]
        BY <2>8, <3>1, <4>1
      <4> QED
        BY <2>3, <4>2
    <3> QED
      BY <3>2, <3>3 DEF SizesOK
  <2> QED
    BY <1>1, <1>3, <2>2, <2>3, <2>4, <2>10, NoLogIsNone DEF h, a, old
<1> QED
  BY <1>2, <1>3, Zenon

LEMMA GameKnown ==
  ASSUME RelayTypes, game # <<>>
  PROVE  /\ game[1] \in GameInfos /\ game = <<game[1]>>
         /\ game[1].delay \in Nat \union {-1} /\ game[1].log \in {Relay!NoLog} \union Seq(Nat)
<1>1. PICK g \in GameInfos : game = <<g>>
  BY DEF RelayTypes
<1>2. game[1] = g
  BY <1>1
<1> QED
  BY <1>1, <1>2 DEF GameInfos

(* timerEvent of both servers. *)
LEMMA RelayTicks ==
  ASSUME StreamInv, Relay!TimerEvent
  PROVE  Ticks
<1> DEFINE g == IF game = <<>> THEN <<>> ELSE <<Relay!UpdateFileSizeLog(game[1])>>
<1>1. /\ game' = g
      /\ out' = [c \in Client |-> out[c] \o Relay!ServiceUser(c, g)]
      /\ user' = [c \in Client |-> [user[c] EXCEPT !.pos = Relay!ReadPos(@, Relay!ServiceUser(c, g))]]
      /\ UNCHANGED <<fileExists, fileSize, ended, net, subscribe, client, buffer, told>>
  BY DEF Relay!TimerEvent, Relay!fileVars, Relay!clientVars
<1>2. RelayTypes /\ fileSize \in Nat /\ fileExists \in BOOLEAN
  BY DEF StreamInv, RelayTypes
<1>3. g \in {<<>>} \union {<<x>> : x \in GameInfos}
  <2>1. CASE game = <<>>
    BY <2>1
  <2>2. CASE game # <<>>
    <3>1. game[1] \in GameInfos /\ SizesOK(game[1].log)
      BY <1>2, <2>2, GameKnown DEF StreamInv, WithinFile
    <3>2. Relay!UpdateFileSizeLog(game[1]) \in GameInfos
      BY <1>2, <3>1, LogUpdated, Zenon
    <3> QED
      BY <2>2, <3>2
  <2> QED
    BY <2>1, <2>2
<1> HIDE DEF g
<1>4. ASSUME NEW c \in Client
      PROVE  /\ out'[c] \in Seq(Messages) /\ user'[c] \in UserContexts
             /\ user'[c].gameId = user[c].gameId
             /\ \E chunks \in Seq(Messages), limit \in Int :
                  /\ out'[c] = out[c] \o chunks
                  /\ Serves(chunks, user[c].pos, user'[c].pos, limit)
                  /\ (user[c].gameId = 1 /\ game' # <<>>) => limit = Escrow(game'[1])
  <2> DEFINE chunks == Relay!ServiceUser(c, g)
             limit == Relay!DataEscrowThreshold(user[c], g)
             end == Relay!ReadPos(user[c].pos, chunks)
  <2>1. Serves(chunks, user[c].pos, end, limit)
    BY <1>2, <1>3, RelayServes
  <2>2. user[c] \in UserContexts /\ out[c] \in Seq(Messages)
    BY <1>2 DEF RelayTypes
  <2>3. limit \in Int
    BY <1>3, <2>2, LimitType
  <2>4. (user[c].gameId = 1 /\ g # <<>>) => limit = Escrow(g[1])
    BY DEF Relay!DataEscrowThreshold, Escrow, Relay!NoFile
  <2>5. out'[c] = out[c] \o chunks /\ user'[c] = [user[c] EXCEPT !.pos = end]
    BY <1>1
  <2> HIDE DEF chunks, limit, end
  <2>6. chunks \in Seq(Messages) /\ end \in Nat \union {-1}
    BY <2>1 DEF Serves
  <2>7. out'[c] \in Seq(Messages)
    BY <2>2, <2>5, <2>6, ConcatProperties
  <2>8. user'[c] \in UserContexts /\ user'[c].gameId = user[c].gameId /\ user'[c].pos = end
    BY <2>2, <2>5, <2>6 DEF UserContexts
  <2> QED
    BY <1>1, <2>1, <2>3, <2>4, <2>5, <2>6, <2>7, <2>8, Zenon
<1>5. out' \in [Client -> Seq(Messages)] /\ user' \in [Client -> UserContexts]
  <2>1. DOMAIN out' = Client /\ DOMAIN user' = Client
    BY <1>1
  <2>2. /\ out' = [c \in Client |-> out'[c]] /\ user' = [c \in Client |-> user'[c]]
    BY <1>1
  <2> QED
    BY <1>4, <2>2
<1> QED
  BY <1>1, <1>4, <1>5, Zenon DEF Ticks, g

LEMMA ResumeTicks ==
  ASSUME StreamInv, Resume!TimerEvent
  PROVE  Ticks
<1> DEFINE g == IF game = <<>> THEN <<>> ELSE <<Relay!UpdateFileSizeLog(game[1])>>
<1>0. /\ Resume!NoLog = Relay!NoLog /\ Resume!NoFile = Relay!NoFile
      /\ \A x, y : Resume!Trimmed(x, y) = Relay!Trimmed(x, y)
  BY NoLogIsNone DEF Resume!NoFile, Relay!NoFile, Resume!Trimmed, Relay!Trimmed, Resume!Max, Relay!Max
<1>1. Resume!UpdateFileSizeLog(game[1]) = Relay!UpdateFileSizeLog(game[1])
  BY <1>0 DEF Resume!UpdateFileSizeLog, Relay!UpdateFileSizeLog, Resume!FoundFile, Relay!FoundFile
<1>2. /\ game' = g
      /\ out' = [c \in Client |-> out[c] \o Resume!ServiceUser(c, g)]
      /\ user' = [c \in Client |-> [user[c] EXCEPT !.pos = Resume!ReadPos(@, Resume!ServiceUser(c, g))]]
      /\ UNCHANGED <<fileExists, fileSize, ended, net, subscribe, client, buffer, told>>
  BY <1>1 DEF Resume!TimerEvent, Resume!fileVars, Resume!clientVars
<1>3. RelayTypes /\ fileSize \in Nat /\ fileExists \in BOOLEAN
  BY DEF StreamInv, RelayTypes
<1>4. g \in {<<>>} \union {<<x>> : x \in GameInfos}
  <2>1. CASE game = <<>>
    BY <2>1
  <2>2. CASE game # <<>>
    <3>1. game[1] \in GameInfos /\ SizesOK(game[1].log)
      BY <1>3, <2>2, GameKnown DEF StreamInv, WithinFile
    <3>2. Relay!UpdateFileSizeLog(game[1]) \in GameInfos
      BY <1>3, <3>1, LogUpdated, Zenon
    <3> QED
      BY <2>2, <3>2
  <2> QED
    BY <2>1, <2>2
<1> HIDE DEF g
<1>5. ASSUME NEW c \in Client
      PROVE  /\ out'[c] \in Seq(Messages) /\ user'[c] \in UserContexts
             /\ user'[c].gameId = user[c].gameId
             /\ \E chunks \in Seq(Messages), limit \in Int :
                  /\ out'[c] = out[c] \o chunks
                  /\ Serves(chunks, user[c].pos, user'[c].pos, limit)
                  /\ (user[c].gameId = 1 /\ game' # <<>>) => limit = Escrow(game'[1])
  <2> DEFINE chunks == Resume!ServiceUser(c, g)
             limit == Resume!DataEscrowThreshold(user[c], g)
             end == Resume!ReadPos(user[c].pos, chunks)
  <2>1. Serves(chunks, user[c].pos, end, limit)
    BY <1>3, <1>4, ResumeServes
  <2>2. user[c] \in UserContexts /\ out[c] \in Seq(Messages)
    BY <1>3 DEF RelayTypes
  <2>3. limit \in Int
    BY <1>4, <2>2, LimitType
  <2>4. (user[c].gameId = 1 /\ g # <<>>) => limit = Escrow(g[1])
    BY <1>0 DEF Resume!DataEscrowThreshold, Escrow, Relay!NoFile
  <2>5. out'[c] = out[c] \o chunks /\ user'[c] = [user[c] EXCEPT !.pos = end]
    BY <1>2
  <2> HIDE DEF chunks, limit, end
  <2>6. chunks \in Seq(Messages) /\ end \in Nat \union {-1}
    BY <2>1 DEF Serves
  <2>7. out'[c] \in Seq(Messages)
    BY <2>2, <2>5, <2>6, ConcatProperties
  <2>8. user'[c] \in UserContexts /\ user'[c].gameId = user[c].gameId /\ user'[c].pos = end
    BY <2>2, <2>5, <2>6 DEF UserContexts
  <2> QED
    BY <1>2, <2>1, <2>3, <2>4, <2>5, <2>6, <2>7, <2>8, Zenon
<1>6. out' \in [Client -> Seq(Messages)] /\ user' \in [Client -> UserContexts]
  <2>1. /\ out' = [c \in Client |-> out'[c]] /\ user' = [c \in Client |-> user'[c]]
    BY <1>2
  <2> QED
    BY <1>5, <2>1
<1> QED
  BY <1>2, <1>5, <1>6, Zenon DEF Ticks, g

-----------------------------------------------------------------------------
(* The bounds hold after every step. *)

LEMMA StreamGrows ==
  ASSUME StreamInv, Grows
  PROVE  StreamInv'
<1>1. RelayTypes'
  BY DEF StreamInv, RelayTypes, Grows
<1>2. fileSize \in Nat /\ fileSize' \in Nat /\ fileSize <= fileSize'
  BY DEF StreamInv, RelayTypes, Grows
<1>3. ASSUME NEW c \in Client
      PROVE  /\ user'[c].pos <= fileSize'
             /\ \A k \in 1..Len(out'[c]) : InFile(out[c][k])'
             /\ \A k \in 1..Len(net'[c]) : InFile(net[c][k])'
             /\ \A k \in 1..Len(buffer'[c]) : buffer'[c][k] <= fileSize'
  <2>1. /\ out'[c] = out[c] /\ net'[c] = net[c] /\ buffer'[c] = buffer[c] /\ user'[c] = user[c]
    BY DEF Grows
  <2>2. /\ user[c].pos \in Int
        /\ \A k \in 1..Len(out[c]) : out[c][k] \in Messages
        /\ \A k \in 1..Len(net[c]) : net[c][k] \in Messages
        /\ \A k \in 1..Len(buffer[c]) : buffer[c][k] \in Nat
    BY LenProperties DEF StreamInv, RelayTypes, UserContexts
  <2>3. /\ user[c].pos <= fileSize
        /\ \A k \in 1..Len(out[c]) : InFile(out[c][k])
        /\ \A k \in 1..Len(net[c]) : InFile(net[c][k])
        /\ \A k \in 1..Len(buffer[c]) : buffer[c][k] <= fileSize
    BY DEF StreamInv, WithinFile
  <2>4. \A m \in Messages : m.from \in Nat /\ m.len \in Nat
    BY DEF Messages
  <2>5. /\ user[c].pos <= fileSize'
        /\ \A k \in 1..Len(buffer[c]) : buffer[c][k] <= fileSize'
    BY <1>2, <2>2, <2>3
  <2>6. /\ \A k \in 1..Len(out[c]) : out[c][k].from + out[c][k].len <= fileSize'
        /\ \A k \in 1..Len(net[c]) : net[c][k].from + net[c][k].len <= fileSize'
    <3>1. ASSUME NEW m \in Messages, InFile(m) PROVE m.from + m.len <= fileSize'
      <4>1. m.from \in Nat /\ m.len \in Nat /\ m.from + m.len <= fileSize
        BY <2>4, <3>1 DEF InFile
      <4> QED
        BY <1>2, <4>1
    <3> QED
      BY <2>2, <2>3, <3>1
  <2> QED
    BY <2>1, <2>5, <2>6 DEF InFile
<1>4. ASSUME game' # <<>> PROVE SizesOK(game[1].log)'
  <2>1. game' = game /\ SizesOK(game[1].log)
    BY <1>4 DEF StreamInv, WithinFile, Grows
  <2>2. \A k \in 1..Len(game[1].log) : game[1].log[k] \in Int
    <3>1. game[1].log \in {Relay!NoLog} \union Seq(Nat)
      BY <1>4, <2>1, GameKnown DEF StreamInv
    <3>2. CASE game[1].log = Relay!NoLog
      BY <3>2 DEF Relay!NoLog
    <3>3. CASE game[1].log \in Seq(Nat)
      BY <3>3, LenProperties
    <3> QED
      BY <3>1, <3>2, <3>3
  <2> DEFINE log == game[1].log
  <2>3. \A k \in 1..Len(log) : log[k] \in Int /\ log[k] <= fileSize
    BY <2>1, <2>2 DEF SizesOK
  <2>4. \A j, k \in 1..Len(log) : j <= k => log[j] <= log[k]
    BY <2>1 DEF SizesOK
  <2>5. game'[1].log = log
    BY <2>1
  <2> HIDE DEF log
  <2>6. \A k \in 1..Len(log) : log[k] <= fileSize'
    BY <1>2, <2>3
  <2> QED
    BY <2>4, <2>5, <2>6 DEF SizesOK
<1> QED
  BY <1>1, <1>3, <1>4 DEF StreamInv, WithinFile

LEMMA NoLogSizes ==
  ASSUME fileSize \in Nat
  PROVE  SizesOK(Relay!NoLog)
<1>1. Len(<<-1>>) = 1 /\ <<-1>>[1] = -1
  OBVIOUS
<1> QED
  BY <1>1 DEF SizesOK, Relay!NoLog

(* The game's entry changes, and nothing else. *)
LEMMA StreamGameChanged ==
  ASSUME StreamInv,
         UNCHANGED <<fileExists, fileSize, user, out, net, subscribe, client, buffer, told>>,
         ended' \in BOOLEAN,
         game' \in {<<>>} \union {<<g>> : g \in GameInfos},
         game' # <<>> => SizesOK(game'[1].log)
  PROVE  StreamInv'
<1>1. RelayTypes'
  BY DEF StreamInv, RelayTypes
<1>2. ASSUME NEW c \in Client
      PROVE  /\ user'[c].pos <= fileSize'
             /\ \A k \in 1..Len(out'[c]) : InFile(out[c][k])'
             /\ \A k \in 1..Len(net'[c]) : InFile(net[c][k])'
             /\ \A k \in 1..Len(buffer'[c]) : buffer'[c][k] <= fileSize'
  BY DEF StreamInv, WithinFile, InFile
<1>3. game' # <<>> => SizesOK(game[1].log)'
  BY DEF SizesOK
<1> QED
  BY <1>1, <1>2, <1>3 DEF StreamInv, WithinFile

LEMMA GameAnnounced ==
  ASSUME RelayTypes, NEW d \in Nat \union {-1}, Relay!SetGameInfo(d)
  PROVE  /\ game = <<>> => game' = <<[delay |-> d, log |-> Relay!NoLog]>>
         /\ game # <<>> => game' = <<[delay |-> d, log |-> game[1].log]>>
         /\ game' # <<>> /\ game' \in {<<>>} \union {<<g>> : g \in GameInfos}
         /\ game'[1].delay = d /\ game'[1].log = IF game = <<>> THEN Relay!NoLog ELSE game[1].log
         /\ ~ended
         /\ UNCHANGED <<fileExists, fileSize, ended, user, out, net, subscribe, client, buffer, told,
                        recent, drops, restarts>>
<1>1. /\ ~ended
      /\ game' = IF game = <<>> THEN <<[delay |-> d, log |-> Relay!NoLog]>>
                               ELSE [game EXCEPT ![1].delay = d]
      /\ UNCHANGED <<fileExists, fileSize, ended, user, out, net, subscribe, client, buffer, told,
                     recent, drops, restarts>>
  BY DEF Relay!SetGameInfo, Relay!fileVars, Relay!netVars, Relay!clientVars
<1>2. CASE game = <<>>
  <2> DEFINE g == [delay |-> d, log |-> Relay!NoLog]
  <2>1. game' = <<g>> /\ g \in GameInfos /\ g.delay = d /\ g.log = Relay!NoLog
    BY <1>1, <1>2 DEF GameInfos
  <2> QED
    BY <1>1, <1>2, <2>1
<1>3. CASE game # <<>>
  <2> DEFINE x == game[1]
             g == [x EXCEPT !.delay = d]
             h == [delay |-> d, log |-> x.log]
  <2>1. x \in GameInfos /\ game = <<x>>
    BY <1>3, GameKnown
  <2>2. game' = [game EXCEPT ![1].delay = d]
    BY <1>1, <1>3
  <2> HIDE DEF x
  <2>3. game' = <<g>>
    BY <2>1, <2>2
  <2>4. g = h /\ h \in GameInfos /\ h.delay = d /\ h.log = x.log
    BY <2>1 DEF GameInfos
  <2> QED
    BY <1>1, <1>3, <2>3, <2>4 DEF x
<1> QED
  BY <1>2, <1>3

LEMMA StreamAnnounced ==
  ASSUME StreamInv, NEW d \in Nat \union {-1}, Relay!SetGameInfo(d)
  PROVE  StreamInv'
<1>1. RelayTypes /\ fileSize \in Nat /\ ended \in BOOLEAN
  BY DEF StreamInv, RelayTypes
<1>2. /\ game' # <<>> /\ game' \in {<<>>} \union {<<g>> : g \in GameInfos}
      /\ game'[1].log = IF game = <<>> THEN Relay!NoLog ELSE game[1].log
      /\ UNCHANGED <<fileExists, fileSize, ended, user, out, net, subscribe, client, buffer, told>>
  BY <1>1, GameAnnounced
<1>3. SizesOK(game'[1].log)
  <2>1. CASE game = <<>>
    BY <1>1, <1>2, <2>1, NoLogSizes
  <2>2. CASE game # <<>>
    BY <1>2, <2>2 DEF StreamInv, WithinFile
  <2> QED
    BY <2>1, <2>2
<1> QED
  BY <1>1, <1>2, <1>3, StreamGameChanged

LEMMA StreamEnded ==
  ASSUME StreamInv, Relay!SetGameEnded
  PROVE  StreamInv'
<1>1. /\ game' = <<>> /\ ended' = TRUE
      /\ UNCHANGED <<fileExists, fileSize, user, out, net, subscribe, client, buffer, told>>
  BY DEF Relay!SetGameEnded, Relay!fileVars, Relay!netVars, Relay!clientVars
<1> QED
  BY <1>1, StreamGameChanged

LEMMA StreamTicks ==
  ASSUME StreamInv, Ticks
  PROVE  StreamInv'
<1>1. /\ UNCHANGED <<fileExists, fileSize, ended, net, subscribe, client, buffer, told>>
      /\ RelayTypes /\ fileSize \in Nat /\ fileExists \in BOOLEAN
  BY DEF Ticks, StreamInv, RelayTypes
<1>2. game' \in {<<>>} \union {<<g>> : g \in GameInfos} /\ (game' # <<>> => SizesOK(game'[1].log))
  <2>1. CASE game = <<>>
    BY <2>1 DEF Ticks
  <2>2. CASE game # <<>>
    <3> DEFINE h == Relay!UpdateFileSizeLog(game[1])
    <3>1. game[1] \in GameInfos /\ SizesOK(game[1].log)
      BY <1>1, <2>2, GameKnown DEF StreamInv, WithinFile
    <3>2. h \in GameInfos /\ SizesOK(h.log)
      BY <1>1, <3>1, LogUpdated, Zenon
    <3>3. game' = <<h>>
      BY <2>2 DEF Ticks
    <3> HIDE DEF h
    <3> QED
      BY <3>2, <3>3
  <2> QED
    BY <2>1, <2>2
<1>3. RelayTypes'
  BY <1>1, <1>2 DEF Ticks, StreamInv, RelayTypes
<1>4. ASSUME NEW c \in Client
      PROVE  /\ user'[c].pos <= fileSize
             /\ \A k \in 1..Len(out'[c]) : InFile(out'[c][k])
  <2>1. PICK chunks \in Seq(Messages), limit \in Int :
               /\ out'[c] = out[c] \o chunks
               /\ Serves(chunks, user[c].pos, user'[c].pos, limit)
    BY Zenon DEF Ticks
  <2>2. /\ out[c] \in Seq(Messages) /\ user[c].pos \in Nat \union {-1} /\ user'[c].pos \in Nat \union {-1}
        /\ user[c].pos <= fileSize
    BY <2>1 DEF StreamInv, RelayTypes, WithinFile, UserContexts, Serves
  <2>3. user'[c].pos <= fileSize
    BY <2>1, <2>2 DEF Serves
  <2>4. \A k \in 1..Len(chunks) : InFile(chunks[k])
    <3> SUFFICES ASSUME NEW k \in 1..Len(chunks) PROVE InFile(chunks[k])
      OBVIOUS
    <3>1. chunks # <<>> /\ user[c].pos # -1
      BY <2>1, EmptySeq DEF Serves
    <3>2. chunks[k].from + chunks[k].len <= user'[c].pos
      BY <2>1, <3>1 DEF Serves, Continues
    <3>3. chunks[k] \in Messages
      BY <2>1, LenProperties
    <3>4. chunks[k].from \in Nat /\ chunks[k].len \in Nat
      BY <3>3 DEF Messages
    <3> DEFINE sum == chunks[k].from + chunks[k].len
               end == user'[c].pos
    <3>5. sum \in Int /\ end \in Int /\ sum <= end /\ end <= fileSize
      BY <2>2, <2>3, <3>2, <3>4
    <3> HIDE DEF sum, end
    <3>6. sum <= fileSize
      BY <1>1, <3>5
    <3> QED
      BY <3>6 DEF InFile, sum
  <2>5. /\ Len(out'[c]) = Len(out[c]) + Len(chunks) /\ Len(out[c]) \in Nat /\ Len(chunks) \in Nat
        /\ \A k \in 1..(Len(out[c]) + Len(chunks)) : out'[c][k] = IF k <= Len(out[c]) THEN out[c][k] ELSE chunks[k - Len(out[c])]
    BY <2>1, <2>2, ConcatProperties, LenProperties
  <2>6. ASSUME NEW k \in 1..Len(out'[c]) PROVE InFile(out'[c][k])
    <3>1. CASE k <= Len(out[c])
      BY <2>5, <2>6, <3>1 DEF StreamInv, WithinFile
    <3>2. CASE ~(k <= Len(out[c]))
      <4>1. k - Len(out[c]) \in 1..Len(chunks) /\ out'[c][k] = chunks[k - Len(out[c])]
        BY <2>5, <2>6, <3>2
      <4> QED
        BY <2>4, <4>1
    <3> QED
      BY <3>1, <3>2
  <2> QED
    BY <2>3, <2>6
<1>5. WithinFile'
  <2>1. \A c \in Client : \A k \in 1..Len(out'[c]) : out'[c][k].from + out'[c][k].len <= fileSize
    BY <1>4 DEF InFile
  <2>2. game' # <<>> => SizesOK(game[1].log)'
    BY <1>1, <1>2 DEF SizesOK
  <2> QED
    BY <1>1, <1>4, <2>1, <2>2 DEF StreamInv, WithinFile, InFile
<1> QED
  BY <1>3, <1>5 DEF StreamInv

(* Messages that carry bytes of the file. *)
Bounded(msgs) == \A k \in 1..Len(msgs) : InFile(msgs[k])

(* A step of one connection. *)
StepOf(c) ==
  /\ user' \in [Client -> UserContexts]
  /\ out' \in [Client -> Seq(Messages)] /\ net' \in [Client -> Seq(Messages)]
  /\ subscribe' \in [Client -> Seq(Nat)] /\ client' \in [Client -> {"down", "up", "quit"}]
  /\ buffer' \in [Client -> Seq(Nat)] /\ told' \in [Client -> SUBSET Relay!Status]
  /\ \A d \in Client \ {c} :
       /\ user'[d] = user[d] /\ out'[d] = out[d] /\ net'[d] = net[d]
       /\ subscribe'[d] = subscribe[d] /\ client'[d] = client[d] /\ buffer'[d] = buffer[d]
  /\ UNCHANGED <<fileExists, fileSize, game, ended>>

LEMMA StreamAt ==
  ASSUME StreamInv, NEW c \in Client, StepOf(c),
         user'[c].pos <= fileSize, Bounded(out'[c]), Bounded(net'[c]),
         \A k \in 1..Len(buffer'[c]) : buffer'[c][k] <= fileSize
  PROVE  StreamInv'
<1>1. RelayTypes'
  BY DEF StreamInv, RelayTypes, StepOf
<1>2. ASSUME NEW d \in Client
      PROVE  /\ user'[d].pos <= fileSize
             /\ Bounded(out'[d]) /\ Bounded(net'[d])
             /\ \A k \in 1..Len(buffer'[d]) : buffer'[d][k] <= fileSize
  <2>1. CASE d = c
    BY <2>1
  <2>2. CASE d # c
    <3>1. user'[d] = user[d] /\ out'[d] = out[d] /\ net'[d] = net[d] /\ buffer'[d] = buffer[d]
      BY <2>2 DEF StepOf
    <3> QED
      BY <3>1 DEF StreamInv, WithinFile, Bounded
  <2> QED
    BY <2>1, <2>2
<1>3. game' # <<>> => SizesOK(game[1].log)'
  BY DEF StreamInv, WithinFile, SizesOK, StepOf
<1>4. fileSize' = fileSize
  BY DEF StepOf
<1> QED
  BY <1>1, <1>2, <1>3, <1>4 DEF StreamInv, WithinFile, Bounded, InFile

(* What is true of one connection. *)
LEMMA ConnectionTypes ==
  ASSUME StreamInv, NEW c \in Client
  PROVE  /\ user[c] \in UserContexts /\ out[c] \in Seq(Messages) /\ net[c] \in Seq(Messages)
         /\ subscribe[c] \in Seq(Nat) /\ client[c] \in {"down", "up", "quit"}
         /\ buffer[c] \in Seq(Nat) /\ told[c] \in SUBSET Relay!Status
         /\ user = [user EXCEPT ![c] = user[c]] /\ out = [out EXCEPT ![c] = out[c]]
         /\ net = [net EXCEPT ![c] = net[c]] /\ subscribe = [subscribe EXCEPT ![c] = subscribe[c]]
         /\ client = [client EXCEPT ![c] = client[c]] /\ buffer = [buffer EXCEPT ![c] = buffer[c]]
         /\ told = [told EXCEPT ![c] = told[c]]
         /\ user[c].pos <= fileSize /\ Bounded(out[c]) /\ Bounded(net[c])
         /\ \A k \in 1..Len(buffer[c]) : buffer[c][k] <= fileSize
         /\ fileSize \in Nat /\ Bounded(<<>>) /\ <<>> \in Seq(Messages) /\ <<>> \in Seq(Nat)
<1>1. <<>> \in Seq(Messages) /\ <<>> \in Seq(Nat) /\ Len(<<>>) = 0
  OBVIOUS
<1>2. Bounded(<<>>)
  BY <1>1 DEF Bounded
<1>3. RelayTypes /\ WithinFile
  BY DEF StreamInv
<1>4. /\ user[c] \in UserContexts /\ out[c] \in Seq(Messages) /\ net[c] \in Seq(Messages)
      /\ subscribe[c] \in Seq(Nat) /\ client[c] \in {"down", "up", "quit"}
      /\ buffer[c] \in Seq(Nat) /\ told[c] \in SUBSET Relay!Status /\ fileSize \in Nat
  BY <1>3 DEF RelayTypes
<1>5. /\ user = [user EXCEPT ![c] = user[c]] /\ out = [out EXCEPT ![c] = out[c]]
      /\ net = [net EXCEPT ![c] = net[c]] /\ subscribe = [subscribe EXCEPT ![c] = subscribe[c]]
      /\ client = [client EXCEPT ![c] = client[c]] /\ buffer = [buffer EXCEPT ![c] = buffer[c]]
      /\ told = [told EXCEPT ![c] = told[c]]
  BY <1>3 DEF RelayTypes
<1>6. /\ user[c].pos <= fileSize /\ Bounded(out[c]) /\ Bounded(net[c])
      /\ \A k \in 1..Len(buffer[c]) : buffer[c][k] <= fileSize
  BY <1>3 DEF WithinFile, Bounded
<1> QED
  BY <1>1, <1>2, <1>4, <1>5, <1>6

LEMMA BoundedConcat ==
  ASSUME NEW s \in Seq(Messages), NEW t \in Seq(Messages), Bounded(s), Bounded(t)
  PROVE  s \o t \in Seq(Messages) /\ Bounded(s \o t)
<1>1. /\ s \o t \in Seq(Messages) /\ Len(s \o t) = Len(s) + Len(t) /\ Len(s) \in Nat /\ Len(t) \in Nat
      /\ \A k \in 1..(Len(s) + Len(t)) : (s \o t)[k] = IF k <= Len(s) THEN s[k] ELSE t[k - Len(s)]
  BY ConcatProperties, LenProperties
<1>2. ASSUME NEW k \in 1..(Len(s) + Len(t)) PROVE InFile((s \o t)[k])
  <2>1. CASE k <= Len(s)
    BY <1>1, <2>1 DEF Bounded
  <2>2. CASE ~(k <= Len(s))
    <3>1. k - Len(s) \in 1..Len(t) /\ (s \o t)[k] = t[k - Len(s)]
      BY <1>1, <2>2
    <3> QED
      BY <3>1 DEF Bounded
  <2> QED
    BY <2>1, <2>2
<1> QED
  BY <1>1, <1>2 DEF Bounded

LEMMA StreamFlushed ==
  ASSUME StreamInv, NEW c \in Client, Relay!Flush(c)
  PROVE  /\ StreamInv' /\ StepOf(c)
         /\ net'[c] = net[c] \o out[c] /\ out'[c] = <<>> /\ user'[c] = user[c]
         /\ buffer'[c] = buffer[c] /\ subscribe'[c] = subscribe[c] /\ client'[c] = client[c]
<1>1. /\ net' = [net EXCEPT ![c] = net[c] \o out[c]] /\ out' = [out EXCEPT ![c] = <<>>]
      /\ UNCHANGED <<fileExists, fileSize, game, ended>>
      /\ UNCHANGED <<user, subscribe, client, buffer, told>>
  BY DEF Relay!Flush, Relay!fileVars, Relay!serverVars, Relay!clientVars
<1>2. net[c] \o out[c] \in Seq(Messages) /\ Bounded(net[c] \o out[c])
  BY ConnectionTypes, BoundedConcat
<1> DEFINE n == net[c] \o out[c]
<1>3. /\ StepOf(c) /\ net'[c] = n /\ out'[c] = <<>> /\ user'[c] = user[c] /\ buffer'[c] = buffer[c]
      /\ subscribe'[c] = subscribe[c] /\ client'[c] = client[c]
  <2> HIDE DEF n
  <2> QED
    BY <1>1, <1>2, ConnectionTypes DEF n, StreamInv, RelayTypes, StepOf
<1> HIDE DEF n
<1> QED
  BY <1>2, <1>3, ConnectionTypes, StreamAt, Zenon DEF n

LEMMA StreamConnects ==
  ASSUME StreamInv, NEW c \in Client, Relay!Connect(c)
  PROVE  /\ StreamInv' /\ StepOf(c)
         /\ net'[c] = net[c] /\ out'[c] = out[c] /\ user'[c].pos = -1 /\ buffer'[c] = buffer[c]
         /\ subscribe'[c] = <<Len(buffer[c])>> /\ client[c] = "down" /\ client'[c] = "up"
<1> DEFINE u == Relay!NewUser
           q == <<Len(buffer[c])>>
<1>1. /\ client' = [client EXCEPT ![c] = "up"] /\ user' = [user EXCEPT ![c] = u]
      /\ subscribe' = [subscribe EXCEPT ![c] = q]
      /\ UNCHANGED <<fileExists, fileSize, game, ended>>
      /\ UNCHANGED <<out, net, buffer, told>>
  BY DEF Relay!Connect, Relay!Accept, Relay!Subscription, Relay!fileVars
<1>2. u \in UserContexts /\ u.pos <= fileSize /\ u.pos = -1
  <2>1. fileSize \in Nat
    BY ConnectionTypes
  <2> QED
    BY <2>1 DEF Relay!NewUser, Relay!NoFile, UserContexts
<1>3. q \in Seq(Nat)
  BY ConnectionTypes, LenProperties
<1> HIDE DEF u, q
<1>4. /\ StepOf(c) /\ net'[c] = net[c] /\ out'[c] = out[c] /\ user'[c] = u /\ buffer'[c] = buffer[c]
      /\ subscribe'[c] = q /\ client'[c] = "up"
  BY <1>1, <1>2, <1>3, ConnectionTypes DEF StreamInv, RelayTypes, StepOf
<1>5. client[c] = "down"
  BY DEF Relay!Connect
<1> QED
  BY <1>2, <1>4, <1>5, ConnectionTypes, StreamAt, Zenon DEF q

LEMMA StreamCutOff ==
  ASSUME StreamInv, NEW c \in Client, CutOff(c)
  PROVE  /\ StreamInv' /\ StepOf(c)
         /\ net'[c] = <<>> /\ out'[c] = <<>> /\ user'[c].pos = -1 /\ buffer'[c] = buffer[c]
         /\ subscribe'[c] = <<>>
<1> DEFINE u == Relay!NewUser
<1>1. PICK s \in {"down", "quit"} :
        /\ client' = [client EXCEPT ![c] = s] /\ user' = [user EXCEPT ![c] = u]
        /\ out' = [out EXCEPT ![c] = <<>>] /\ net' = [net EXCEPT ![c] = <<>>]
        /\ subscribe' = [subscribe EXCEPT ![c] = <<>>]
        /\ UNCHANGED <<fileExists, fileSize, game, ended>>
        /\ UNCHANGED <<buffer, told>>
  BY Zenon DEF CutOff, Relay!Cut
<1>2. u \in UserContexts /\ u.pos <= fileSize /\ u.pos = -1
  <2>1. fileSize \in Nat
    BY ConnectionTypes
  <2> QED
    BY <2>1 DEF Relay!NewUser, Relay!NoFile, UserContexts
<1> HIDE DEF u
<1>3. /\ StepOf(c) /\ net'[c] = <<>> /\ out'[c] = <<>> /\ user'[c] = u /\ buffer'[c] = buffer[c]
      /\ subscribe'[c] = <<>>
  BY <1>1, <1>2, ConnectionTypes DEF StreamInv, RelayTypes, StepOf
<1> QED
  BY <1>2, <1>3, ConnectionTypes, StreamAt

(* The first message on its way, and the others. *)
LEMMA FirstMessage ==
  ASSUME NEW s \in Seq(Messages), s # <<>>
  PROVE  /\ Head(s) = s[1] /\ Head(s) \in Messages /\ Tail(s) \in Seq(Messages)
         /\ Len(s) \in Nat /\ Len(s) >= 1 /\ Len(Tail(s)) = Len(s) - 1
         /\ \A k \in 1..Len(Tail(s)) : Tail(s)[k] = s[k + 1] /\ k + 1 \in 1..Len(s)
<1>1. /\ Head(s) \in Messages /\ Tail(s) \in Seq(Messages)
      /\ Len(Tail(s)) = Len(s) - 1 /\ \A k \in 1..Len(Tail(s)) : Tail(s)[k] = s[k + 1]
  BY HeadTailProperties
<1>2. Len(s) \in Nat /\ Len(s) # 0
  BY EmptySeq, LenProperties
<1> QED
  BY <1>1, <1>2

(* What the client appends to its file. *)
LEMMA BytesReceived ==
  ASSUME NEW m \in Messages
  PROVE  /\ Relay!Received(m) \in Seq(Nat) /\ Len(Relay!Received(m)) = m.len /\ m.len \in Nat
         /\ m.from \in Nat
         /\ \A k \in 1..m.len : Relay!Received(m)[k] = m.from + k - 1
<1>1. m.from \in Nat /\ m.len \in Nat
  BY DEF Messages
<1>2. \A k \in 1..m.len : m.from + k - 1 \in Nat
  BY <1>1
<1>3. Relay!Received(m) = [k \in 1..m.len |-> m.from + k - 1]
  BY DEF Relay!Received
<1>4. Relay!Received(m) \in [1..m.len -> Nat]
  BY <1>2, <1>3
<1>5. Relay!Received(m) \in Seq(Nat)
  BY <1>1, <1>4
<1>6. Len(Relay!Received(m)) = m.len
  BY <1>1, <1>4, <1>5, LenProperties
<1> QED
  BY <1>1, <1>3, <1>5, <1>6

LEMMA StreamReceived ==
  ASSUME StreamInv, NEW c \in Client, Relay!Receive(c)
  PROVE  /\ StreamInv' /\ StepOf(c)
         /\ net[c] # <<>> /\ net'[c] = Tail(net[c]) /\ out'[c] = out[c] /\ user'[c] = user[c]
         /\ subscribe'[c] = subscribe[c] /\ client'[c] = client[c]
         /\ buffer'[c] = IF Head(net[c]).status = "OK" THEN buffer[c] \o Relay!Received(Head(net[c]))
                                                       ELSE buffer[c]
<1> DEFINE m == Head(net[c])
           n == Tail(net[c])
           b == IF m.status = "OK" THEN buffer[c] \o Relay!Received(m) ELSE buffer[c]
           t == IF m.status = "OK" THEN told[c] ELSE told[c] \union {m.status}
<1>1. net[c] # <<>> /\ net[c] \in Seq(Messages)
  BY ConnectionTypes DEF Relay!Receive
<1>2. m \in Messages /\ n \in Seq(Messages) /\ Bounded(n) /\ InFile(m)
  <2>1. /\ m = net[c][1] /\ m \in Messages /\ n \in Seq(Messages)
        /\ 1 \in 1..Len(net[c])
        /\ \A k \in 1..Len(n) : n[k] = net[c][k + 1] /\ k + 1 \in 1..Len(net[c])
    BY <1>1, FirstMessage
  <2>2. Bounded(net[c])
    BY ConnectionTypes
  <2> QED
    BY <2>1, <2>2 DEF Bounded
<1>3. b \in Seq(Nat) /\ \A k \in 1..Len(b) : b[k] <= fileSize
  <2>1. /\ buffer[c] \in Seq(Nat) /\ Len(buffer[c]) \in Nat /\ fileSize \in Nat
        /\ \A k \in 1..Len(buffer[c]) : buffer[c][k] <= fileSize
    BY ConnectionTypes, LenProperties
  <2>2. CASE m.status = "OK"
    <3> DEFINE r == Relay!Received(m)
    <3>1. /\ r \in Seq(Nat) /\ Len(r) = m.len /\ m.len \in Nat /\ m.from \in Nat
          /\ \A k \in 1..m.len : r[k] = m.from + k - 1
      BY <1>2, BytesReceived
    <3>2. b = buffer[c] \o r
      BY <2>2, Zenon
    <3> HIDE DEF r, b, m
    <3>3. /\ b \in Seq(Nat) /\ Len(b) = Len(buffer[c]) + Len(r)
          /\ \A k \in 1..(Len(buffer[c]) + Len(r)) : b[k] = IF k <= Len(buffer[c]) THEN buffer[c][k]
                                                                         ELSE r[k - Len(buffer[c])]
      BY <2>1, <3>1, <3>2, ConcatProperties
    <3>4. m.from + m.len <= fileSize
      BY <1>2 DEF InFile
    <3>5. ASSUME NEW k \in 1..Len(b) PROVE b[k] <= fileSize
      <4> DEFINE old == buffer[c]
                 L == Len(old)
                 f == m.from
                 l == m.len
      <4>1. /\ L \in Nat /\ f \in Nat /\ l \in Nat /\ fileSize \in Nat /\ f + l <= fileSize
            /\ k \in 1..(L + l) /\ b[k] = IF k <= L THEN old[k] ELSE r[k - L]
            /\ \A j \in 1..l : r[j] = f + j - 1
            /\ \A j \in 1..L : old[j] <= fileSize
        BY <2>1, <3>1, <3>3, <3>4, <3>5, Zenon
      <4> HIDE DEF old, L, f, l
      <4>2. CASE k <= L
        BY <4>1, <4>2
      <4>3. CASE ~(k <= L)
        <5>1. k - L \in 1..l /\ b[k] = r[k - L]
          BY <4>1, <4>3
        <5>2. b[k] = f + (k - L) - 1
          BY <4>1, <5>1
        <5> QED
          BY <4>1, <4>3, <5>1, <5>2
      <4> QED
        BY <4>2, <4>3
    <3> QED
      BY <3>3, <3>5
  <2>3. CASE m.status # "OK"
    <3>1. b = buffer[c]
      BY <2>3
    <3> HIDE DEF b
    <3> QED
      BY <2>1, <3>1
  <2> QED
    BY <2>2, <2>3, Zenon
<1>4. t \in SUBSET Relay!Status
  BY <1>2, ConnectionTypes DEF Messages
<1>5. /\ net' = [net EXCEPT ![c] = n] /\ buffer' = [buffer EXCEPT ![c] = b]
      /\ told' = [told EXCEPT ![c] = t]
      /\ UNCHANGED <<fileExists, fileSize, game, ended>>
      /\ UNCHANGED <<user, out, subscribe, client>>
  <2>1. /\ net' = [net EXCEPT ![c] = n]
        /\ UNCHANGED <<fileExists, fileSize, game, ended>>
        /\ UNCHANGED <<user, out, subscribe, client>>
    BY DEF Relay!Receive, Relay!fileVars, Relay!serverVars
  <2>2. CASE m.status = "OK"
    <3>1. buffer' = [buffer EXCEPT ![c] = buffer[c] \o Relay!Received(m)] /\ told' = told
      BY <2>2, Zenon DEF Relay!Receive
    <3> QED
      BY <2>1, <2>2, <3>1, ConnectionTypes
  <2>3. CASE m.status # "OK"
    <3>1. told' = [told EXCEPT ![c] = told[c] \union {m.status}] /\ buffer' = buffer
      BY <2>3 DEF Relay!Receive
    <3> QED
      BY <2>1, <2>3, <3>1, ConnectionTypes
  <2> QED
    BY <2>2, <2>3, Zenon
<1>6. buffer'[c] = IF m.status = "OK" THEN buffer[c] \o Relay!Received(m) ELSE buffer[c]
  BY <1>5 DEF StreamInv, RelayTypes
<1> HIDE DEF n, b, t
<1>7. /\ StepOf(c) /\ net'[c] = n /\ out'[c] = out[c] /\ user'[c] = user[c] /\ buffer'[c] = b
      /\ subscribe'[c] = subscribe[c] /\ client'[c] = client[c]
  BY <1>2, <1>3, <1>4, <1>5, ConnectionTypes DEF StreamInv, RelayTypes, StepOf
<1>8. StreamInv'
  BY <1>2, <1>3, <1>7, ConnectionTypes, StreamAt, Zenon
<1> QED
  BY <1>1, <1>6, <1>7, <1>8 DEF n

-----------------------------------------------------------------------------
(* A subscription that is granted, and one that comes before the log. *)
Playable == game # <<>> /\ game[1].delay >= 0 /\ fileExists

Granted == Playable /\ game[1].log # Relay!NoLog

LEMMA SeekInFile ==
  ASSUME StreamInv, Granted, NEW p \in Nat
  PROVE  /\ Relay!SeekPos(p) \in Nat /\ Relay!SeekPos(p) <= fileSize
         /\ Relay!SeekPos(p) = IF Len(game[1].log) > game[1].delay
                               THEN (IF p <= Head(game[1].log) THEN p ELSE Head(game[1].log)) ELSE 0
         /\ Len(game[1].log) > game[1].delay => /\ Head(game[1].log) \in Nat
                                                /\ Head(game[1].log) = game[1].log[1]
                                                /\ Head(game[1].log) <= fileSize
<1> DEFINE log == game[1].log
           delay == game[1].delay
<1>1. log \in Seq(Nat) /\ delay \in Nat /\ fileSize \in Nat /\ SizesOK(log)
  BY GameKnown DEF StreamInv, RelayTypes, Granted, Playable, WithinFile
<1>2. Relay!SeekPos(p) = IF Len(log) > delay THEN Relay!Min({p, Head(log)}) ELSE 0
  BY DEF Relay!SeekPos
<1> HIDE DEF log, delay
<1>3. CASE Len(log) > delay
  <2>1. Len(log) \in Nat /\ Len(log) >= 1
    BY <1>1, <1>3, LenProperties
  <2>2. Head(log) = log[1] /\ log[1] \in Nat
    BY <1>1, <2>1, LenProperties
  <2>3. log[1] <= fileSize
    BY <2>1 , <1>1 DEF SizesOK
  <2>4. Relay!Min({p, Head(log)}) = IF p <= Head(log) THEN p ELSE Head(log)
    BY <2>2, SmallerOf
  <2> DEFINE h == Head(log)
             z == Relay!SeekPos(p)
  <2>5. z = (IF p <= h THEN p ELSE h) /\ h \in Nat /\ h <= fileSize /\ h = log[1]
    BY <1>2, <1>3, <2>2, <2>3, <2>4
  <2> HIDE DEF h, z
  <2>6. z \in Nat /\ z <= fileSize
    BY <1>1, <2>5
  <2> QED
    BY <1>3, <2>5, <2>6 DEF log, delay, h, z
<1>4. CASE ~(Len(log) > delay)
  BY <1>1, <1>2, <1>4 DEF log, delay
<1> QED
  BY <1>3, <1>4

LEMMA StreamSubscribed ==
  ASSUME StreamInv, NEW c \in Client, Relay!OnSubscribe(c)
  PROVE  /\ StreamInv' /\ StepOf(c)
         /\ subscribe[c] # <<>> /\ Head(subscribe[c]) \in Nat /\ subscribe'[c] = Tail(subscribe[c])
         /\ net'[c] = net[c] /\ client'[c] = client[c] /\ buffer'[c] = buffer[c]
         /\ \E reply \in Seq(Messages) :
              /\ out'[c] = out[c] \o reply
              /\ \A k \in 1..Len(reply) : reply[k].status # "OK"
              /\ Granted => reply = <<>>
         /\ Granted => user'[c].gameId = 1 /\ user'[c].pos = Relay!SeekPos(Head(subscribe[c]))
         /\ ~Granted => \/ user'[c].pos \in {user[c].pos, -1}
                        \/ Playable /\ game[1].log = Relay!NoLog
<1> DEFINE p == Head(subscribe[c])
           denied == game # <<>> /\ game[1].delay < 0
           absent == game # <<>> /\ ~denied /\ ~fileExists
           early == game # <<>> /\ ~denied /\ fileExists /\ game[1].log = Relay!NoLog
           granted == game # <<>> /\ ~denied /\ fileExists /\ game[1].log # Relay!NoLog
           reply == IF game = <<>> THEN Relay!Reply("GAME_NOT_FOUND")
                    ELSE IF denied THEN Relay!Reply("LIVE_REPLAY_DISABLED")
                    ELSE IF (absent \/ early) /\ p = 0 THEN Relay!Reply("GAME_NOT_FOUND")
                    ELSE <<>>
           u == IF granted THEN [gameId |-> 1, pos |-> Relay!SeekPos(p)]
                ELSE IF early THEN [user[c] EXCEPT !.pos = 0]
                ELSE IF absent THEN [user[c] EXCEPT !.pos = Relay!NoFile]
                ELSE user[c]
<1>1. subscribe[c] # <<>> /\ subscribe[c] \in Seq(Nat) /\ p \in Nat /\ Tail(subscribe[c]) \in Seq(Nat)
  <2>1. subscribe[c] # <<>> /\ subscribe[c] \in Seq(Nat)
    BY ConnectionTypes DEF Relay!OnSubscribe
  <2> QED
    BY <2>1, HeadTailProperties
<1>2. /\ out' = [out EXCEPT ![c] = out[c] \o reply]
      /\ user' = [user EXCEPT ![c] = u]
      /\ subscribe' = [subscribe EXCEPT ![c] = Tail(subscribe[c])]
      /\ UNCHANGED <<fileExists, fileSize, game, ended>>
      /\ UNCHANGED <<net, client, buffer, told>>
  BY DEF Relay!OnSubscribe, Relay!KnownGame, Relay!FoundFile, Relay!fileVars, Relay!clientVars
<1>3. (granted <=> Granted) /\ (early <=> (Playable /\ game[1].log = Relay!NoLog))
  <2>1. game # <<>> => game[1].delay \in Int
    BY GameKnown DEF StreamInv
  <2> QED
    BY <2>1 DEF Granted, Playable
<1>4. reply \in Seq(Messages) /\ Bounded(reply) /\ \A k \in 1..Len(reply) : reply[k].status # "OK"
  <2>1. ASSUME NEW s \in {"GAME_NOT_FOUND", "LIVE_REPLAY_DISABLED"}
        PROVE  /\ Relay!Reply(s) \in Seq(Messages) /\ Bounded(Relay!Reply(s))
               /\ \A k \in 1..Len(Relay!Reply(s)) : Relay!Reply(s)[k].status # "OK"
    <3> DEFINE m == [status |-> s, from |-> 0, len |-> 0]
    <3>1. m \in Messages
      BY DEF Messages, Relay!Status
    <3>2. m.status # "OK" /\ InFile(m)
      BY ConnectionTypes DEF InFile
    <3>3. Relay!Reply(s) = <<m>>
      BY DEF Relay!Reply
    <3> HIDE DEF m
    <3> QED
      BY <3>1, <3>2, <3>3 DEF Bounded
  <2>2. <<>> \in Seq(Messages) /\ Bounded(<<>>) /\ \A k \in 1..Len(<<>>) : <<>>[k].status # "OK"
    BY ConnectionTypes
  <2>3. reply \in {Relay!Reply("GAME_NOT_FOUND"), Relay!Reply("LIVE_REPLAY_DISABLED"), <<>>}
    OBVIOUS
  <2> HIDE DEF reply
  <2> QED
    BY <2>1, <2>2, <2>3, Zenon
<1>5. Granted => reply = <<>>
  BY <1>3
<1>6. /\ u \in UserContexts /\ u.pos <= fileSize
      /\ Granted => u.gameId = 1 /\ u.pos = Relay!SeekPos(p)
      /\ ~Granted => \/ u.pos \in {user[c].pos, -1}
                     \/ Playable /\ game[1].log = Relay!NoLog
  <2>1. user[c] \in UserContexts /\ fileSize \in Nat /\ user[c].pos <= fileSize
    BY ConnectionTypes
  <2>2. CASE granted
    <3>1. Relay!SeekPos(p) \in Nat /\ Relay!SeekPos(p) <= fileSize /\ Granted
      BY <1>1, <1>3, <2>2, SeekInFile, Zenon
    <3>2. u = [gameId |-> 1, pos |-> Relay!SeekPos(p)]
      BY <2>2
    <3> DEFINE z == Relay!SeekPos(p)
    <3> HIDE DEF z, u
    <3>3. u.gameId = 1 /\ u.pos = z /\ z \in Nat /\ z <= fileSize
      BY <3>1, <3>2 DEF z
    <3>4. u \in UserContexts
      BY <3>1, <3>2 DEF UserContexts
    <3> QED
      BY <3>1, <3>3, <3>4 DEF z
  <2>3. CASE ~granted /\ early
    <3>1. u = [user[c] EXCEPT !.pos = 0]
      BY <2>3
    <3> HIDE DEF u
    <3>2. u \in UserContexts /\ u.pos = 0
      BY <2>1, <3>1 DEF UserContexts
    <3>3. u.pos <= fileSize
      BY <2>1, <3>2
    <3>4. ~Granted /\ Playable /\ game[1].log = Relay!NoLog
      BY <1>3, <2>3
    <3> QED
      BY <3>2, <3>3, <3>4
  <2>4. CASE ~granted /\ ~early /\ absent
    <3>1. u = [user[c] EXCEPT !.pos = -1]
      BY <2>4 DEF Relay!NoFile
    <3> HIDE DEF u
    <3>2. u \in UserContexts /\ u.pos = -1
      BY <2>1, <3>1 DEF UserContexts
    <3>3. u.pos <= fileSize
      BY <2>1, <3>2
    <3>4. ~Granted
      BY <1>3, <2>4
    <3> QED
      BY <3>2, <3>3, <3>4
  <2>5. CASE ~granted /\ ~early /\ ~absent
    BY <1>3, <2>1, <2>5
  <2> QED
    BY <2>2, <2>3, <2>4, <2>5
<1> HIDE DEF reply, u, p
<1>7. out[c] \o reply \in Seq(Messages) /\ Bounded(out[c] \o reply)
  BY <1>4, ConnectionTypes, BoundedConcat
<1>8. /\ StepOf(c) /\ out'[c] = out[c] \o reply /\ user'[c] = u
      /\ subscribe'[c] = Tail(subscribe[c]) /\ net'[c] = net[c] /\ client'[c] = client[c]
      /\ buffer'[c] = buffer[c]
  <2> DEFINE o == out[c] \o reply
             q == Tail(subscribe[c])
  <2>1. out' = [out EXCEPT ![c] = o] /\ o \in Seq(Messages) /\ q \in Seq(Nat)
        /\ subscribe' = [subscribe EXCEPT ![c] = q]
    BY <1>1, <1>2, <1>7
  <2> HIDE DEF o, q
  <2>2. StepOf(c) /\ out'[c] = o /\ user'[c] = u /\ subscribe'[c] = q /\ net'[c] = net[c]
        /\ client'[c] = client[c] /\ buffer'[c] = buffer[c]
    <3>1. /\ UNCHANGED <<fileExists, fileSize, game, ended, net, client, buffer, told>>
          /\ user' = [user EXCEPT ![c] = u] /\ u \in UserContexts
      BY <1>2, <1>6
    <3> QED
      BY <2>1, <3>1 DEF StreamInv, RelayTypes, StepOf
  <2> QED
    BY <2>2 DEF o, q
<1>9. StreamInv'
  BY <1>6, <1>7, <1>8, ConnectionTypes, StreamAt
<1> QED
  BY <1>1, <1>4, <1>5, <1>6, <1>8, <1>9, Zenon DEF p

-----------------------------------------------------------------------------
(* The relay whose delay is moved: the log is the end of the sizes at the  *)
(* last ticks.                                                             *)

(* The longest delay that can be announced. *)
LongestDelay == Relay!Max(Delays \union {0})

LEMMA LongestDelayExists ==
  LongestDelay \in Nat /\ \A d \in Delays : d <= LongestDelay
<1> DEFINE S == Delays \union {0}
<1>1. S \subseteq Int /\ IsFiniteSet(Delays) /\ Delays \subseteq Int
  BY RelayConstants
<1>2. PICK q \in Seq(Delays) : \A d \in Delays : \E n \in 1..Len(q) : q[n] = d
  BY <1>1 DEF IsFiniteSet
<1> DEFINE N == Len(q)
           T == {n \in 0..N : \E m \in S : m >= 0 /\ \A i \in 1..n : q[i] <= m}
<1>3. N \in Nat /\ \A i \in 1..N : q[i] \in Delays
  BY <1>2, LenProperties
<1> HIDE DEF N
<1>4. 0 \in T
  <2>1. 0 \in S /\ 0 >= 0 /\ \A i \in 1..0 : q[i] <= 0
    OBVIOUS
  <2>2. 0 \in 0..N
    BY <1>3
  <2> HIDE DEF S
  <2> QED
    BY <2>1, <2>2
<1>5. ASSUME NEW n \in 0..N, n \in T, n < N PROVE n + 1 \in T
  <2>1. PICK m \in S : m >= 0 /\ \A i \in 1..n : q[i] <= m
    BY <1>5
  <2>2. n + 1 \in 1..N /\ n + 1 \in 0..N /\ q[n + 1] \in S /\ q[n + 1] \in Int /\ m \in Int
    <3>1. n + 1 \in 1..N /\ n + 1 \in 0..N
      BY <1>3, <1>5
    <3>2. q[n + 1] \in Delays /\ m \in S
      BY <1>3, <2>1, <3>1
    <3> QED
      BY <1>1, <3>1, <3>2, Zenon
  <2>3. \A i \in 1..n : i \in 1..N
    BY <1>3, <1>5
  <2>4. \A i \in 1..(n + 1) : i \in 1..n \/ i = n + 1
    BY <1>5
  <2>5. \A i \in 1..n : q[i] \in Int
    BY <1>1, <1>3, <2>3, Zenon
  <2>6. CASE q[n + 1] <= m
    <3>1. \A i \in 1..(n + 1) : q[i] <= m
      BY <2>1, <2>4, <2>6
    <3> QED
      BY <2>1, <2>2, <3>1
  <2>7. CASE ~(q[n + 1] <= m)
    <3> DEFINE m2 == q[n + 1]
    <3>1. m2 >= 0 /\ m <= m2 /\ m2 \in Int /\ m2 \in S
      BY <2>1, <2>2, <2>7
    <3> HIDE DEF m2
    <3>2. \A i \in 1..n : q[i] <= m2
      BY <2>1, <2>2, <2>5, <3>1
    <3>3. \A i \in 1..(n + 1) : q[i] <= m2
      BY <2>4, <3>1, <3>2 DEF m2
    <3> QED
      BY <2>2, <3>1, <3>3
  <2> QED
    BY <2>6, <2>7
<1>6. N \in T
  <2> HIDE DEF T
  <2>1. 0..N \subseteq T
    BY <1>3, <1>4, <1>5, UpTo, Zenon
  <2> QED
    BY <1>3, <2>1
<1>7. PICK m \in S : m >= 0 /\ \A i \in 1..N : q[i] <= m
  BY <1>6
<1>8. \A y \in S : m >= y
  BY <1>1, <1>2, <1>7 DEF N
<1> HIDE DEF S
<1> DEFINE x == CHOOSE z \in S : \A y \in S : z >= y
<1>9. x \in S /\ \A y \in S : x >= y
  BY <1>8
<1>10. LongestDelay = x
  BY DEF LongestDelay, Relay!Max, S
<1> HIDE DEF x
<1> QED
  BY <1>1, <1>9, <1>10 DEF S

(* The sizes at the last ticks are kept as the log is. *)
LEMMA RecentTrimmed ==
  ASSUME recent \in Seq(Nat), fileSize \in Nat, Relay!TimerEvent
  PROVE  recent' = Relay!Trimmed(Append(recent, fileSize), LongestDelay)
<1> DEFINE a == Append(recent, fileSize)
           n == Len(a)
           M == LongestDelay
<1>1. recent' = SubSeq(a, Relay!Max({1, n - M}), n)
  BY DEF Relay!TimerEvent, LongestDelay
<1>2. n \in Nat /\ M \in Nat
  BY LongestDelayExists, AppendProperties, LenProperties
<1>3. Relay!Trimmed(a, M) = SubSeq(a, Relay!Max({0, n - (1 + M)}) + 1, n)
  BY DEF Relay!Trimmed
<1> HIDE DEF n, M, a
<1>4. Relay!Max({1, n - M}) = Relay!Max({0, n - (1 + M)}) + 1
  <2>1. Relay!Max({1, n - M}) = IF 1 >= n - M THEN 1 ELSE n - M
    BY <1>2, LargerOf
  <2>2. Relay!Max({0, n - (1 + M)}) = IF 0 >= n - (1 + M) THEN 0 ELSE n - (1 + M)
    BY <1>2, LargerOf
  <2> QED
    BY <1>2, <2>1, <2>2
<1> QED
  BY <1>1, <1>3, <1>4, Zenon DEF a, M

LEMMA EndsTrimmed ==
  ASSUME NEW x \in Seq(Nat), NEW y \in Seq(Nat), EndOf(x, y), NEW size \in Nat,
         NEW d \in Nat \union {-1}, NEW M \in Nat, d <= M
  PROVE  EndOf(Relay!Trimmed(Append(x, size), d), Relay!Trimmed(Append(y, size), M))
<1> DEFINE a == Append(x, size)
           b == Append(y, size)
           t == Relay!Trimmed(a, d)
           v == Relay!Trimmed(b, M)
           lx == Len(x)
           ly == Len(y)
<1>1. /\ a \in Seq(Nat) /\ Len(a) = lx + 1 /\ a[lx + 1] = size /\ lx \in Nat
      /\ \A k \in 1..lx : a[k] = x[k]
  BY AppendProperties, LenProperties
<1>2. /\ b \in Seq(Nat) /\ Len(b) = ly + 1 /\ b[ly + 1] = size /\ ly \in Nat
      /\ \A k \in 1..ly : b[k] = y[k]
  BY AppendProperties, LenProperties
<1>3. lx <= ly /\ \A k \in 1..lx : x[lx - k + 1] = y[ly - k + 1]
  BY DEF EndOf
<1> HIDE DEF a, b, lx, ly
<1>4. /\ Len(t) = IF Len(a) <= 1 + d THEN Len(a) ELSE 1 + d
      /\ \A k \in 1..Len(t) : t[k] = a[Len(a) - Len(t) + k]
  BY <1>1, Trims, Zenon
<1>5. /\ Len(v) = IF Len(b) <= 1 + M THEN Len(b) ELSE 1 + M
      /\ \A k \in 1..Len(v) : v[k] = b[Len(b) - Len(v) + k]
  <2>1. M \in Nat \union {-1}
    OBVIOUS
  <2> QED
    BY <1>2, <2>1, Trims, Zenon
<1> HIDE DEF t, v
<1> DEFINE lt == Len(t)
           lv == Len(v)
<1>6. /\ lt \in Nat /\ lv \in Nat /\ lt <= lv /\ lt <= lx + 1 /\ lv <= ly + 1
      /\ \A k \in 1..lt : t[k] = a[lx + 1 - lt + k]
      /\ \A k \in 1..lv : v[k] = b[ly + 1 - lv + k]
  BY <1>1, <1>2, <1>3, <1>4, <1>5
<1> HIDE DEF lt, lv
<1>7. ASSUME NEW k \in 1..lt PROVE t[lt - k + 1] = v[lv - k + 1]
  <2>1. lt - k + 1 \in 1..lt /\ lv - k + 1 \in 1..lv
    BY <1>6
  <2>2. lx + 1 - lt + (lt - k + 1) = lx - k + 2 /\ ly + 1 - lv + (lv - k + 1) = ly - k + 2
    BY <1>1, <1>2, <1>6
  <2>3. t[lt - k + 1] = a[lx - k + 2] /\ v[lv - k + 1] = b[ly - k + 2]
    BY <1>6, <2>1, <2>2
  <2>4. CASE k = 1
    <3>1. lx - k + 2 = lx + 1 /\ ly - k + 2 = ly + 1
      BY <1>1, <1>2, <2>4
    <3> QED
      BY <1>1, <1>2, <2>3, <3>1
  <2>5. CASE k # 1
    <3> DEFINE j == k - 1
    <3>1. j \in 1..lx /\ lx - k + 2 = lx - j + 1 /\ ly - k + 2 = ly - j + 1
      BY <1>1, <1>2, <1>6, <2>5
    <3>2. lx - j + 1 \in 1..lx /\ ly - j + 1 \in 1..ly
      BY <1>1, <1>2, <1>3, <3>1
    <3> HIDE DEF j
    <3>3. a[lx - j + 1] = x[lx - j + 1] /\ b[ly - j + 1] = y[ly - j + 1]
      BY <1>1, <1>2, <3>2, Zenon
    <3>4. x[lx - j + 1] = y[ly - j + 1]
      BY <1>3, <3>1, Zenon
    <3> QED
      BY <2>3, <3>1, <3>3, <3>4, Zenon
  <2> QED
    BY <2>4, <2>5
<1> QED
  BY <1>6, <1>7 DEF EndOf, lt, lv, t, v, a, b

LEMMA StreamRestarted ==
  ASSUME StreamInv, Relay!Restart
  PROVE  StreamInv' /\ game' = <<>> /\ \A c \in Client : user'[c].pos = -1
<1>1. /\ game' = <<>> /\ user' = [c \in Client |-> Relay!NewUser]
      /\ out' = [c \in Client |-> <<>>] /\ net' = [c \in Client |-> <<>>]
      /\ subscribe' = [c \in Client |-> <<>>]
      /\ client' = [c \in Client |-> IF client[c] = "up" THEN "down" ELSE client[c]]
      /\ UNCHANGED <<fileExists, fileSize, ended, buffer, told>>
  BY DEF Relay!Restart, Relay!fileVars
<1>2. Relay!NewUser \in UserContexts /\ Relay!NewUser.pos = -1
  BY DEF Relay!NewUser, Relay!NoFile, UserContexts
<1>3. <<>> \in Seq(Messages) /\ <<>> \in Seq(Nat) /\ Len(<<>>) = 0
  OBVIOUS
<1>4. RelayTypes'
  <2>1. client' \in [Client -> {"down", "up", "quit"}]
    BY <1>1 DEF StreamInv, RelayTypes
  <2> QED
    BY <1>1, <1>2, <1>3, <2>1 DEF StreamInv, RelayTypes
<1>5. ASSUME NEW c \in Client
      PROVE  /\ user'[c].pos = -1 /\ out'[c] = <<>> /\ net'[c] = <<>> /\ buffer'[c] = buffer[c]
             /\ \A k \in 1..Len(buffer[c]) : buffer[c][k] <= fileSize
  BY <1>1, <1>2 DEF StreamInv, WithinFile
<1>6. -1 <= fileSize /\ fileSize' = fileSize
  BY <1>1 DEF StreamInv, RelayTypes
<1> QED
  BY <1>1, <1>3, <1>4, <1>5, <1>6 DEF StreamInv, WithinFile

(* A step between two ticks. *)
LEMMA RelayKept ==
  ASSUME RelayInv, StreamInv', recent' = recent, fileSize' >= fileSize, fileSize' <= MaxSize,
         drops' \in 0..MaxDrops, restarts' \in 0..MaxRestarts,
         game' # <<>> => /\ game'[1].delay \in Delays
                         /\ game'[1].log # Relay!NoLog => game # <<>> /\ game'[1].log = game[1].log
  PROVE  RelayInv'
<1>1. fileSize \in Nat /\ fileSize' \in Nat /\ \A k \in 1..Len(recent) : recent[k] \in Nat
  BY LenProperties, Zenon DEF RelayInv, StreamInv, RelayTypes
<1>2. \A k \in 1..Len(recent) : recent[k] <= fileSize'
  <2>1. \A k \in 1..Len(recent) : recent[k] <= fileSize
    BY DEF RelayInv
  <2> QED
    BY <1>1, <2>1
<1>3. ASSUME game' # <<>>, game'[1].log # Relay!NoLog PROVE EndOf(game'[1].log, recent)
  BY <1>3 DEF RelayInv
<1>4. (game # <<>> => game[1].delay \in Delays /\ (game[1].log # Relay!NoLog => EndOf(game[1].log, recent)))'
  <2>1. (EndOf(game[1].log, recent))' = EndOf(game'[1].log, recent)
    BY DEF EndOf
  <2> QED
    BY <1>3, <2>1
<1>5. (recent \in Seq(Nat))' /\ (\A k \in 1..Len(recent) : recent[k] <= fileSize)'
  BY <1>2 DEF RelayInv
<1> QED
  BY <1>4, <1>5 DEF RelayInv

LEMMA RelayKeptByTicks ==
  ASSUME RelayInv, Relay!TimerEvent
  PROVE  /\ RelayInv'
         /\ \A c \in Client :
              (Relay!ReadsOn(c) /\ user[c].gameId = 1 /\ game' # <<>>)
                => user'[c].pos <= Relay!SizeAgo(recent', game'[1].delay)
<1> DEFINE b == Append(recent, fileSize)
           v == Relay!Trimmed(b, LongestDelay)
<1>1. /\ StreamInv /\ RelayTypes /\ WithinFile /\ fileSize \in Nat /\ fileExists \in BOOLEAN
      /\ recent \in Seq(Nat) /\ \A k \in 1..Len(recent) : recent[k] <= fileSize
  BY DEF RelayInv, StreamInv, RelayTypes
<1>2. Ticks /\ recent' = v /\ LongestDelay \in Nat
  BY <1>1, RelayTicks, RecentTrimmed, LongestDelayExists
<1>3. StreamInv' /\ fileSize' = fileSize
  BY <1>1, <1>2, StreamTicks, Zenon DEF Ticks
<1>4. v \in Seq(Nat) /\ \A k \in 1..Len(v) : v[k] <= fileSize
  <2>1. /\ b \in Seq(Nat) /\ Len(b) = Len(recent) + 1 /\ b[Len(recent) + 1] = fileSize /\ Len(recent) \in Nat
        /\ \A k \in 1..Len(recent) : b[k] = recent[k]
    BY <1>1, AppendProperties, LenProperties
  <2> HIDE DEF b
  <2>2. LongestDelay \in Nat \union {-1}
    BY <1>2
  <2>3. /\ v \in Seq(Nat) /\ Len(v) = IF Len(b) <= 1 + LongestDelay THEN Len(b) ELSE 1 + LongestDelay
        /\ \A k \in 1..Len(v) : v[k] = b[Len(b) - Len(v) + k]
    BY <2>1, <2>2, Trims, Zenon
  <2> HIDE DEF v
  <2>4. Len(v) \in Nat /\ Len(v) <= Len(b)
    BY <1>2, <2>1, <2>3
  <2>5. ASSUME NEW k \in 1..Len(v) PROVE v[k] <= fileSize
    <3> DEFINE j == Len(b) - Len(v) + k
    <3>1. j \in 1..Len(b) /\ v[k] = b[j]
      <4>1. v[k] = b[j]
        BY <2>3, Zenon
      <4>2. Len(b) \in Nat /\ Len(v) \in Nat /\ Len(v) <= Len(b)
        BY <2>1, <2>4
      <4> HIDE <2>3
      <4>3. j \in 1..Len(b)
        BY <4>2
      <4> QED
        BY <4>1, <4>3, Zenon
    <3> HIDE DEF j
    <3>2. j \in 1..Len(recent) \/ j = Len(recent) + 1
      BY <2>1, <3>1
    <3>3. CASE j \in 1..Len(recent)
      BY <1>1, <2>1, <3>1, <3>3, Zenon
    <3>4. CASE j = Len(recent) + 1
      <4>1. v[k] = fileSize
        BY <2>1, <3>1, <3>4
      <4> QED
        BY <1>1, <4>1
    <3> QED
      BY <3>2, <3>3, <3>4
  <2> QED
    BY <2>3, <2>5
<1>5. ASSUME game' # <<>>
      PROVE  /\ game'[1].delay \in Delays /\ game'[1].delay \in Nat \union {-1}
             /\ game'[1].log \in {Relay!NoLog} \union Seq(Nat)
             /\ game'[1].log # Relay!NoLog => /\ EndOf(game'[1].log, v)
                                              /\ Len(game'[1].log) <= 1 + game'[1].delay
  <2> DEFINE g == game[1]
             h == Relay!UpdateFileSizeLog(g)
             a == Append(OldLog(g), fileSize)
  <2>1. game # <<>> /\ game' = <<h>>
    BY <1>2, <1>5 DEF Ticks
  <2>2. /\ g \in GameInfos /\ SizesOK(g.log) /\ g.delay \in Delays /\ g.delay \in Nat \union {-1}
        /\ g.log \in {Relay!NoLog} \union Seq(Nat)
        /\ (g.log # Relay!NoLog => EndOf(g.log, recent))
    BY <1>1, <2>1, GameKnown DEF RelayInv, WithinFile
  <2> HIDE DEF g
  <2>3. /\ h \in GameInfos /\ h.delay = g.delay
        /\ (g.log = Relay!NoLog /\ ~fileExists) => h = g
    BY <1>1, <2>2, LogUpdated, Zenon
  <2>4. h.log \in {Relay!NoLog} \union Seq(Nat)
    BY <2>3 DEF GameInfos
  <2>5. game'[1] = h
    BY <2>1
  <2>6. CASE g.log = Relay!NoLog /\ ~fileExists
    <3>1. h.log = Relay!NoLog
      BY <2>3, <2>6
    <3> QED
      BY <2>2, <2>3, <2>4, <2>5, <3>1
  <2>7. CASE ~(g.log = Relay!NoLog /\ ~fileExists)
    <3>1. h.log = Relay!Trimmed(a, g.delay)
      BY <2>2, <2>7 DEF Relay!UpdateFileSizeLog, Relay!FoundFile, OldLog, GameInfos
    <3>2. Len(h.log) = IF Len(a) <= 1 + g.delay THEN Len(a) ELSE 1 + g.delay
      BY <1>1, <2>2, <2>7, LogUpdated, Zenon
    <3>3. OldLog(g) \in Seq(Nat) /\ EndOf(OldLog(g), recent)
      <4>1. CASE g.log = Relay!NoLog
        <5>1. OldLog(g) = <<>> /\ <<>> \in Seq(Nat) /\ Len(<<>>) = 0 /\ Len(recent) \in Nat
          BY <1>1, <4>1, LenProperties DEF OldLog
        <5> QED
          BY <5>1 DEF EndOf
      <4>2. CASE g.log # Relay!NoLog
        BY <2>2, <4>2 DEF OldLog
      <4> QED
        BY <4>1, <4>2
    <3>4. g.delay <= LongestDelay
      BY <2>2, LongestDelayExists
    <3>5. EndOf(Relay!Trimmed(a, g.delay), v)
      <4> DEFINE x == OldLog(g)
      <4> HIDE DEF x
      <4>1. x \in Seq(Nat) /\ EndOf(x, recent) /\ g.delay \in Nat \union {-1}
        BY <2>2, <3>3 DEF x
      <4>2. EndOf(Relay!Trimmed(Append(x, fileSize), g.delay), Relay!Trimmed(Append(recent, fileSize), LongestDelay))
        BY <1>1, <1>2, <3>4, <4>1, EndsTrimmed
      <4> QED
        BY <4>2 DEF x
    <3>6. Len(h.log) <= 1 + g.delay
      <4>1. Len(a) \in Nat
        BY <1>1, <3>3, AppendProperties, LenProperties
      <4> QED
        BY <2>2, <3>2, <4>1
    <3> QED
      BY <2>2, <2>3, <2>4, <2>5, <3>1, <3>5, <3>6
  <2> QED
    BY <2>6, <2>7
<1> HIDE DEF v
<1>6. RelayInv'
  <2>1. (EndOf(game[1].log, recent))' = EndOf(game'[1].log, v)
    BY <1>2 DEF EndOf
  <2>2. (game # <<>> => game[1].delay \in Delays /\ (game[1].log # Relay!NoLog => EndOf(game[1].log, recent)))'
    BY <1>5, <2>1
  <2>3. (recent \in Seq(Nat))' /\ (\A k \in 1..Len(recent) : recent[k] <= fileSize)'
    BY <1>2, <1>3, <1>4
  <2>4. drops' = drops /\ restarts' = restarts
    BY DEF Relay!TimerEvent
  <2> QED
    BY <1>3, <2>2, <2>3, <2>4 DEF RelayInv
<1>7. ASSUME NEW c \in Client, user'[c].pos > user[c].pos, user[c].gameId = 1, game' # <<>>
      PROVE  user'[c].pos <= Relay!SizeAgo(recent', game'[1].delay)
  <2>1. PICK chunks \in Seq(Messages), limit \in Int :
               /\ Serves(chunks, user[c].pos, user'[c].pos, limit)
               /\ limit = Escrow(game'[1])
    BY <1>2, <1>7 DEF Ticks
  <2>2. user[c].pos \in Nat \union {-1} /\ user'[c].pos \in Nat \union {-1}
    BY <1>1, <1>2 DEF RelayTypes, Ticks, UserContexts
  <2> DEFINE log == game'[1].log
             d == game'[1].delay
             n == Len(log)
             m == Len(v)
  <2>3. user'[c].pos <= limit /\ limit # -1
    <3>1. chunks # <<>>
      BY <1>7, <2>1, <2>2 DEF Serves
    <3> QED
      BY <1>7, <2>1, <2>2, <3>1 DEF Serves
  <2>4. log \notin {Relay!NoLog, <<>>} /\ n > d /\ limit = Head(log)
    BY <2>1, <2>3 DEF Escrow
  <2>5. /\ d \in Nat \union {-1} /\ log \in Seq(Nat) /\ n <= 1 + d /\ EndOf(log, v)
    BY <1>5, <1>7, <2>4
  <2> HIDE DEF log, d
  <2>6. n \in Nat /\ n >= 1 /\ m \in Nat /\ Head(log) = log[1]
    <3>1. n \in Nat /\ n # 0 /\ m \in Nat
      BY <1>4, <2>4, <2>5, EmptySeq, LenProperties
    <3> QED
      BY <3>1
  <2>7. n <= m /\ \A k \in 1..n : log[n - k + 1] = v[m - k + 1]
    BY <2>5, Zenon DEF EndOf
  <2> HIDE DEF n, m
  <2>8. n = 1 + d /\ d \in Nat
    BY <2>4, <2>5, <2>6
  <2>9. log[1] = v[m - d]
    <3>1. n \in 1..n /\ n - n + 1 = 1 /\ m - n + 1 = m - d
      BY <2>6, <2>8
    <3> QED
      BY <2>7, <3>1
  <2>10. Relay!SizeAgo(recent', d) = v[m - d]
    <3>1. m > d
      BY <2>6, <2>7, <2>8
    <3> QED
      BY <1>2, <3>1 DEF Relay!SizeAgo, m
  <2> QED
    BY <2>3, <2>4, <2>6, <2>9, <2>10 DEF d
<1> QED
  BY <1>6, <1>7 DEF Relay!ReadsOn

LEMMA RelayGrows ==
  ASSUME StreamInv, Relay!FileWritten, fileSize <= MaxSize
  PROVE  /\ Grows /\ fileSize' <= MaxSize
         /\ UNCHANGED <<game, user, subscribe, recent, drops, restarts>>
<1>1. fileSize \in Nat /\ fileExists \in BOOLEAN /\ MaxSize \in Nat
  BY RelayConstants DEF StreamInv, RelayTypes
<1>2. UNCHANGED <<game, ended, user, out, net, subscribe, client, buffer, told, recent, drops, restarts>>
  BY DEF Relay!FileWritten, Relay!serverVars, Relay!netVars, Relay!clientVars
<1>3. fileSize' \in Nat /\ fileSize' >= fileSize /\ fileSize' <= MaxSize /\ fileExists' \in BOOLEAN
  <2>1. \/ ~fileExists /\ fileSize = 0 /\ fileExists' = TRUE /\ fileSize' = fileSize
        \/ fileExists /\ fileSize < MaxSize /\ fileSize' = fileSize + 1 /\ fileExists' = fileExists
        \/ fileExists /\ game = <<>> /\ fileExists' = FALSE /\ fileSize' = fileSize
    BY DEF Relay!FileWritten
  <2>2. fileExists' \in BOOLEAN
    BY <1>1, <2>1, Zenon
  <2>3. CASE fileSize' = fileSize
    BY <1>1, <2>2, <2>3
  <2>4. CASE fileSize < MaxSize /\ fileSize' = fileSize + 1
    BY <1>1, <2>2, <2>4
  <2> QED
    BY <2>1, <2>3, <2>4
<1> QED
  BY <1>2, <1>3 DEF Grows

(* A connection that is dropped, or given up. *)
LEMMA RelayCutOff ==
  ASSUME NEW c \in Client, Relay!Drop(c) \/ Relay!Quit(c)
  PROVE  CutOff(c) /\ UNCHANGED <<recent, restarts>>
         /\ (drops' = drops \/ (drops < MaxDrops /\ drops' = drops + 1))
<1>1. CASE Relay!Drop(c)
  BY <1>1 DEF Relay!Drop, CutOff, Relay!fileVars
<1>2. CASE Relay!Quit(c)
  BY <1>2 DEF Relay!Quit, CutOff, Relay!fileVars
<1> QED
  BY <1>1, <1>2

LEMMA RelayStep ==
  ASSUME RelayInv, Relay!Next
  PROVE  RelayInv'
<1>1. /\ StreamInv /\ RelayTypes /\ fileSize \in Nat /\ fileSize <= MaxSize
      /\ drops \in 0..MaxDrops /\ restarts \in 0..MaxRestarts
      /\ MaxDrops \in Nat /\ MaxRestarts \in Nat
      /\ game # <<>> => game[1].delay \in Delays
  BY RelayConstants DEF RelayInv, StreamInv, RelayTypes
<1>2. CASE Relay!FileWritten
  <2>1. /\ Grows /\ fileSize' <= MaxSize /\ UNCHANGED <<game, recent, drops, restarts>>
    BY <1>1, <1>2, RelayGrows
  <2>2. StreamInv' /\ fileSize' >= fileSize
    BY <1>1, <2>1, StreamGrows DEF Grows
  <2> QED
    BY <1>1, <2>1, <2>2, RelayKept
<1>3. ASSUME NEW d \in Delays, Relay!SetGameInfo(d) PROVE RelayInv'
  <2>1. d \in Nat \union {-1}
    BY RelayConstants
  <2>2. StreamInv'
    BY <1>1, <1>3, <2>1, StreamAnnounced
  <2>3. /\ game'[1].delay = d /\ game'[1].log = IF game = <<>> THEN Relay!NoLog ELSE game[1].log
        /\ UNCHANGED <<fileSize, recent, drops, restarts>>
    BY <1>1, <1>3, <2>1, GameAnnounced
  <2> QED
    BY <1>1, <2>2, <2>3, RelayKept
<1>4. CASE Relay!SetGameEnded
  <2>1. StreamInv'
    BY <1>1, <1>4, StreamEnded
  <2>2. game' = <<>> /\ UNCHANGED <<fileSize, recent, drops, restarts>>
    BY <1>4 DEF Relay!SetGameEnded, Relay!fileVars
  <2> QED
    BY <1>1, <2>1, <2>2, RelayKept
<1>5. CASE Relay!TimerEvent
  BY <1>5, RelayKeptByTicks
<1>6. CASE Relay!Restart
  <2>1. StreamInv' /\ game' = <<>>
    BY <1>1, <1>6, StreamRestarted
  <2>2. UNCHANGED <<fileSize, recent, drops>> /\ restarts' \in 0..MaxRestarts
    BY <1>1, <1>6 DEF Relay!Restart, Relay!fileVars
  <2> QED
    BY <1>1, <2>1, <2>2, RelayKept
<1>7. ASSUME NEW c \in Client,
             Relay!OnSubscribe(c) \/ Relay!Flush(c) \/ Relay!Connect(c) \/ Relay!Receive(c)
      PROVE  RelayInv'
  <2>1. StreamInv' /\ StepOf(c)
    BY <1>1, <1>7, StreamSubscribed, StreamFlushed, StreamConnects, StreamReceived, Zenon
  <2>2. UNCHANGED <<recent, drops, restarts>>
    BY <1>7, Zenon DEF Relay!OnSubscribe, Relay!Flush, Relay!Connect, Relay!Receive
  <2>3. game' = game /\ fileSize' = fileSize
    BY <2>1 DEF StepOf
  <2> QED
    BY <1>1, <2>1, <2>2, <2>3, RelayKept
<1>8. ASSUME NEW c \in Client, Relay!Drop(c) \/ Relay!Quit(c) PROVE RelayInv'
  <2>1. CutOff(c) /\ UNCHANGED <<recent, restarts>>
        /\ (drops' = drops \/ (drops < MaxDrops /\ drops' = drops + 1))
    BY <1>8, RelayCutOff
  <2>2. StreamInv' /\ StepOf(c)
    BY <1>1, <2>1, StreamCutOff
  <2>3. game' = game /\ fileSize' = fileSize /\ drops' \in 0..MaxDrops
    BY <1>1, <2>1, <2>2 DEF StepOf
  <2> QED
    BY <1>1, <2>1, <2>2, <2>3, RelayKept
<1> QED
  BY <1>2, <1>3, <1>4, <1>5, <1>6, <1>7, <1>8 DEF Relay!Next

(* Only a tick reads on for a user that has not just subscribed. *)
LEMMA OnlyTicksRead ==
  ASSUME StreamInv, fileSize <= MaxSize, Relay!Next, NEW c \in Client, Relay!ReadsOn(c)
  PROVE  Relay!TimerEvent
<1>1. subscribe' = subscribe /\ user'[c].pos > user[c].pos
  BY DEF Relay!ReadsOn
<1>2. RelayTypes /\ user[c].pos \in Nat \union {-1} /\ fileSize \in Nat
  BY DEF StreamInv, RelayTypes, UserContexts
<1>3. user'[c] # user[c] /\ user'[c].pos # -1
  BY <1>1, <1>2
<1>4. CASE Relay!FileWritten
  BY <1>3, <1>4, RelayGrows
<1>5. ASSUME NEW d \in Delays, Relay!SetGameInfo(d) PROVE FALSE
  BY <1>3, <1>5 DEF Relay!SetGameInfo
<1>6. CASE Relay!SetGameEnded
  BY <1>3, <1>6 DEF Relay!SetGameEnded
<1>7. CASE Relay!Restart
  BY <1>3, <1>7, StreamRestarted
<1>8. ASSUME NEW d \in Client, Relay!OnSubscribe(d) PROVE FALSE
  <2>1. subscribe[d] # <<>> /\ subscribe'[d] = Tail(subscribe[d])
    BY <1>8, StreamSubscribed
  <2>2. subscribe[d] \in Seq(Nat)
    BY <1>2 DEF RelayTypes
  <2>3. Len(Tail(subscribe[d])) = Len(subscribe[d]) - 1 /\ Len(subscribe[d]) \in Nat
    BY <2>1, <2>2, HeadTailProperties, LenProperties
  <2> DEFINE q == subscribe[d]
  <2>4. q = Tail(q) /\ Len(Tail(q)) = Len(q) - 1 /\ Len(q) \in Nat
    BY <1>1, <2>1, <2>3
  <2>5. Len(q) = Len(q) - 1 /\ Len(q) \in Nat
    <3> HIDE DEF q
    <3> QED
      BY <2>4
  <2> HIDE DEF q
  <2> QED
    BY <2>5
<1>9. ASSUME NEW d \in Client, Relay!Flush(d) PROVE FALSE
  BY <1>3, <1>9 DEF Relay!Flush, Relay!serverVars
<1>10. ASSUME NEW d \in Client, Relay!Receive(d) PROVE FALSE
  BY <1>3, <1>10 DEF Relay!Receive, Relay!serverVars
<1>11. ASSUME NEW d \in Client, Relay!Connect(d) PROVE FALSE
  BY <1>3, <1>11, StreamConnects DEF StepOf
<1>12. ASSUME NEW d \in Client, Relay!Drop(d) \/ Relay!Quit(d) PROVE FALSE
  <2>1. CutOff(d)
    BY <1>12, RelayCutOff
  <2> QED
    BY <1>3, <2>1, StreamCutOff DEF StepOf
<1> QED
  BY <1>4, <1>5, <1>6, <1>7, <1>8, <1>9, <1>10, <1>11, <1>12 DEF Relay!Next

LEMMA StreamInitially ==
  ASSUME Relay!Init
  PROVE  StreamInv
<1>1. /\ fileExists = FALSE /\ fileSize = 0 /\ game = <<>> /\ ended = FALSE
      /\ user = [c \in Client |-> Relay!NewUser] /\ out = [c \in Client |-> <<>>]
      /\ net = [c \in Client |-> <<>>] /\ subscribe = [c \in Client |-> <<>>]
      /\ client = [c \in Client |-> "down"] /\ buffer = [c \in Client |-> <<>>]
      /\ told = [c \in Client |-> {}]
  BY DEF Relay!Init
<1>2. Relay!NewUser \in UserContexts /\ Relay!NewUser.pos = -1
  BY DEF Relay!NewUser, Relay!NoFile, UserContexts
<1>3. <<>> \in Seq(Messages) /\ <<>> \in Seq(Nat) /\ Len(<<>>) = 0
  OBVIOUS
<1>4. RelayTypes
  BY <1>1, <1>2, <1>3, Zenon DEF RelayTypes
<1>5. WithinFile
  BY <1>1, <1>2, <1>3 DEF WithinFile
<1> QED
  BY <1>4, <1>5 DEF StreamInv

LEMMA RelayInitially ==
  ASSUME Relay!Init
  PROVE  RelayInv
<1>1. StreamInv /\ fileSize = 0 /\ game = <<>> /\ recent = <<>> /\ drops = 0 /\ restarts = 0
  BY StreamInitially, Zenon DEF Relay!Init
<1>2. <<>> \in Seq(Nat) /\ Len(<<>>) = 0
  OBVIOUS
<1> QED
  BY <1>1, <1>2, RelayConstants DEF RelayInv

(* Sequences of small numbers. *)
LEMMA SeqBelow ==
  ASSUME NEW s \in Seq(Nat), NEW n \in Nat, \A k \in 1..Len(s) : s[k] <= n
  PROVE  s \in Seq(0..n)
<1>1. Len(s) \in Nat /\ s \in [1..Len(s) -> Nat]
  BY LenProperties
<1>2. s \in [1..Len(s) -> 0..n]
  BY <1>1
<1> QED
  BY <1>1, <1>2

LEMMA MessagesBelow ==
  ASSUME NEW s \in Seq(Messages), fileSize \in Nat, MaxSize \in Nat, fileSize <= MaxSize, Bounded(s)
  PROVE  s \in Seq([status : Relay!Status, from : 0..MaxSize, len : 0..MaxSize])
<1> DEFINE T == [status : Relay!Status, from : 0..MaxSize, len : 0..MaxSize]
<1>1. Len(s) \in Nat /\ s \in [1..Len(s) -> Messages]
  BY LenProperties
<1>2. ASSUME NEW k \in 1..Len(s) PROVE s[k] \in T
  <2> DEFINE m == s[k]
  <2>1. m \in Messages /\ InFile(m)
    BY <1>1, <1>2 DEF Bounded
  <2> HIDE DEF m
  <2>2. m.from \in Nat /\ m.len \in Nat /\ m.from + m.len <= fileSize
    BY <2>1 DEF Messages, InFile
  <2>3. m.from \in 0..MaxSize /\ m.len \in 0..MaxSize
    BY <2>2
  <2>4. m \in T
    BY <2>1, <2>3 DEF Messages
  <2> QED
    BY <2>4 DEF m
<1> HIDE DEF T
<1>3. s \in [1..Len(s) -> T]
  BY <1>1, <1>2
<1>4. s \in Seq(T)
  BY <1>1, <1>3
<1> QED
  BY <1>4 DEF T

LEMMA RelayIsSound ==
  ASSUME RelayInv
  PROVE  Relay!TypeOK /\ Relay!LogIsRecent
<1>1. /\ StreamInv /\ RelayTypes /\ WithinFile /\ fileSize \in Nat /\ fileSize <= MaxSize /\ MaxSize \in Nat
      /\ drops \in 0..MaxDrops /\ restarts \in 0..MaxRestarts
      /\ recent \in Seq(Nat) /\ \A k \in 1..Len(recent) : recent[k] <= fileSize
      /\ game # <<>> => game[1].delay \in Delays /\ (game[1].log # Relay!NoLog => EndOf(game[1].log, recent))
  BY RelayConstants DEF RelayInv, StreamInv, RelayTypes
<1>2. ASSUME NEW s \in Seq(Nat), \A k \in 1..Len(s) : s[k] <= fileSize PROVE s \in Seq(0..MaxSize)
  <2>1. \A k \in 1..Len(s) : s[k] \in Nat
    BY LenProperties
  <2>2. \A k \in 1..Len(s) : s[k] <= MaxSize
    BY <1>1, <1>2, <2>1
  <2> QED
    BY <1>1, <2>2, SeqBelow
<1>3. /\ Len(game) <= 1
      /\ \A i \in DOMAIN game : game[i] \in [delay : Delays, log : {Relay!NoLog} \union Seq(0..MaxSize)]
  <2>1. CASE game = <<>>
    BY <2>1
  <2>2. CASE game # <<>>
    <3> DEFINE g == game[1]
    <3>1. g \in GameInfos /\ game = <<g>> /\ g.log \in {Relay!NoLog} \union Seq(Nat) /\ g.delay \in Delays /\ SizesOK(g.log)
      BY <1>1, <2>2, GameKnown DEF WithinFile
    <3>2. g.log \in {Relay!NoLog} \union Seq(0..MaxSize)
      BY <1>2, <3>1 DEF SizesOK
    <3> HIDE DEF g
    <3>3. g \in [delay : Delays, log : {Relay!NoLog} \union Seq(0..MaxSize)]
      BY <3>1, <3>2 DEF GameInfos
    <3> QED
      BY <3>1, <3>3
  <2> QED
    BY <2>1, <2>2
<1>4. ASSUME NEW c \in Client
      PROVE  /\ user[c] \in [gameId : {0, 1}, pos : {Relay!NoFile} \union 0..MaxSize]
             /\ out[c] \in Seq([status : Relay!Status, from : 0..MaxSize, len : 0..MaxSize])
             /\ net[c] \in Seq([status : Relay!Status, from : 0..MaxSize, len : 0..MaxSize])
             /\ buffer[c] \in Seq(0..MaxSize)
  <2>1. /\ user[c] \in UserContexts /\ out[c] \in Seq(Messages) /\ net[c] \in Seq(Messages)
        /\ buffer[c] \in Seq(Nat) /\ \A k \in 1..Len(buffer[c]) : buffer[c][k] <= fileSize
        /\ user[c].pos <= fileSize /\ Bounded(out[c]) /\ Bounded(net[c])
    BY <1>1, ConnectionTypes
  <2>2. user[c] \in [gameId : {0, 1}, pos : {Relay!NoFile} \union 0..MaxSize]
    <3> DEFINE u == user[c]
    <3>1. u \in UserContexts /\ u.pos <= fileSize
      BY <2>1
    <3> HIDE DEF u
    <3>2. u.pos \in {-1} \union 0..MaxSize
      BY <1>1, <3>1 DEF UserContexts
    <3>3. u \in [gameId : {0, 1}, pos : {-1} \union 0..MaxSize]
      BY <3>1, <3>2 DEF UserContexts
    <3> QED
      BY <3>3 DEF u, Relay!NoFile
  <2> QED
    BY <1>1, <1>2, <2>1, <2>2, MessagesBelow, Zenon
<1>5. recent \in Seq(0..MaxSize)
  BY <1>1, <1>2
<1>6. Relay!TypeOK
  <2>1. fileSize \in 0..MaxSize
    BY <1>1
  <2> DEFINE T == [status : Relay!Status, from : 0..MaxSize, len : 0..MaxSize]
             U == [gameId : {0, 1}, pos : {Relay!NoFile} \union 0..MaxSize]
  <2>2. /\ \A c \in Client : user[c] \in U /\ out[c] \in Seq(T) /\ net[c] \in Seq(T) /\ buffer[c] \in Seq(0..MaxSize)
    BY <1>4, Zenon
  <2> HIDE DEF T, U
  <2>3. user \in [Client -> U] /\ out \in [Client -> Seq(T)] /\ net \in [Client -> Seq(T)] /\ buffer \in [Client -> Seq(0..MaxSize)]
    BY <1>1, <2>2 DEF RelayTypes
  <2>4. /\ fileExists \in BOOLEAN /\ ended \in BOOLEAN /\ subscribe \in [Client -> Seq(Nat)]
        /\ client \in [Client -> {"down", "up", "quit"}] /\ told \in [Client -> SUBSET Relay!Status]
    BY <1>1 DEF RelayTypes
  <2> QED
    BY <1>1, <1>3, <1>5, <2>1, <2>3, <2>4, Zenon DEF Relay!TypeOK, T, U
<1>7. Relay!LogIsRecent
  <2> SUFFICES ASSUME NEW i \in DOMAIN game, game[i].log # Relay!NoLog, NEW k \in 1..Len(game[i].log), k <= Len(recent)
               PROVE  game[i].log[Len(game[i].log) - k + 1] = recent[Len(recent) - k + 1]
    BY DEF Relay!LogIsRecent
  <2>1. game # <<>>
    OBVIOUS
  <2>2. game = <<game[1]>>
    BY <1>1, <2>1, GameKnown
  <2>3. i = 1
    BY <2>2
  <2> QED
    BY <1>1, <2>1, <2>3 DEF EndOf
<1> QED
  BY <1>6, <1>7

LEMMA RelayAlways == Spec => [](part = "relay" => RelayInv)
<1>1. Init => (part = "relay" => RelayInv)
  BY RelayInitially DEF Init
<1>2. (part = "relay" => RelayInv) /\ [Next]_vars => (part = "relay" => RelayInv)'
  <2> SUFFICES ASSUME part = "relay" => RelayInv, [Next]_vars, part' = "relay"
               PROVE  RelayInv'
    OBVIOUS
  <2>1. part = "relay" /\ (Relay!Next \/ UNCHANGED relayVars)
    BY DEF Next, RelayNext, CompilerNext, DemoNext, UnitsNext, vars
  <2>2. CASE Relay!Next
    BY <2>1, <2>2, RelayStep
  <2>3. CASE UNCHANGED relayVars
    <3>1. UNCHANGED <<fileExists, fileSize, game, ended, user, out, net, subscribe, client, buffer,
                      told, recent, drops, restarts>>
      BY <2>3 DEF relayVars
    <3>2. StreamInv'
      BY <2>1, <3>1 DEF RelayInv, StreamInv, RelayTypes, WithinFile, InFile, SizesOK
    <3>3. fileSize \in Nat
      BY <2>1 DEF RelayInv, StreamInv, RelayTypes
    <3> QED
      BY <2>1, <3>1, <3>2, <3>3, RelayKept DEF RelayInv
  <2> QED
    BY <2>1, <2>2, <2>3
<1> QED
  BY <1>1, <1>2, PTL DEF Spec

(* No tick sends a byte that was not in the file the present delay ago,    *)
(* however the lobby moves the delay and whenever the server is restarted. *)
THEOREM DelayIsKept == Spec => EscrowRespected
<1> DEFINE Kept ==
      part = "relay" =>
        \A c \in Client :
          (Relay!ReadsOn(c) /\ user[c].gameId = 1 /\ game' # <<>>)
            => user'[c].pos <= Relay!SizeAgo(recent', game'[1].delay)
<1>1. (part = "relay" => RelayInv) /\ [Next]_vars => [Kept]_vars
  <2> SUFFICES ASSUME RelayInv, part = "relay", Next,
                      NEW c \in Client, Relay!ReadsOn(c), user[c].gameId = 1, game' # <<>>
               PROVE  user'[c].pos <= Relay!SizeAgo(recent', game'[1].delay)
    OBVIOUS
  <2>1. Relay!Next
    BY DEF Next, RelayNext, CompilerNext, DemoNext, UnitsNext
  <2>2. StreamInv /\ fileSize <= MaxSize
    BY DEF RelayInv
  <2>3. Relay!TimerEvent
    BY <2>1, <2>2, OnlyTicksRead
  <2> QED
    BY <2>3, RelayKeptByTicks
<1> QED
  BY <1>1, RelayAlways, PTL DEF Spec, EscrowRespected

-----------------------------------------------------------------------------
(* The watcher that loses its connection: its copy, what is under way and  *)
(* the position of the server's file fit together.                         *)

LEMMA ContinuesConcat ==
  ASSUME NEW s \in Seq(Messages), NEW t \in Seq(Messages), NEW a \in Nat, NEW b \in Nat, NEW d \in Nat,
         Continues(s, a, b), Continues(t, b, d), b <= d
  PROVE  Continues(s \o t, a, d)
<1> DEFINE u == s \o t
           n == Len(s)
           m == Len(t)
<1>1. /\ n \in Nat /\ m \in Nat /\ Len(u) = n + m
      /\ \A k \in 1..(n + m) : u[k] = IF k <= n THEN s[k] ELSE t[k - n]
  BY ConcatProperties, LenProperties
<1>2. CASE s = <<>>
  <2>1. s \o t = t /\ a = b
    BY <1>2, ConcatEmptySeq DEF Continues
  <2> QED
    BY <2>1
<1>3. CASE t = <<>>
  <2>1. s \o t = s /\ b = d
    BY <1>3, ConcatEmptySeq DEF Continues
  <2> QED
    BY <2>1
<1>4. CASE s # <<>> /\ t # <<>>
  <2>1. n >= 1 /\ m >= 1
    BY <1>1, <1>4, EmptySeq
  <2>2. /\ \A k \in 1..n : s[k].status = "OK" /\ s[k].from + s[k].len <= b
        /\ s[1].from = a /\ s[n].from + s[n].len = b
        /\ \A k \in 1..(n - 1) : s[k + 1].from = s[k].from + s[k].len
    BY <1>4 DEF Continues
  <2>3. /\ \A k \in 1..m : t[k].status = "OK" /\ t[k].from + t[k].len <= d
        /\ t[1].from = b /\ t[m].from + t[m].len = d
        /\ \A k \in 1..(m - 1) : t[k + 1].from = t[k].from + t[k].len
    BY <1>4 DEF Continues
  <2>4. \A k \in 1..n : s[k].from + s[k].len \in Int
    <3> SUFFICES ASSUME NEW k \in 1..n PROVE s[k].from + s[k].len \in Int
      OBVIOUS
    <3>1. s[k] \in Messages
      BY LenProperties
    <3>2. s[k].from \in Nat /\ s[k].len \in Nat
      BY <3>1, Zenon DEF Messages
    <3> QED
      BY <3>2
  <2> HIDE DEF u, n, m
  <2>5. \A k \in 1..n : u[k] = s[k]
    BY <1>1
  <2>6. \A k \in 1..m : u[n + k] = t[k]
    <3> SUFFICES ASSUME NEW k \in 1..m PROVE u[n + k] = t[k]
      OBVIOUS
    <3>1. n + k \in 1..(n + m) /\ ~(n + k <= n) /\ (n + k) - n = k
      BY <1>1
    <3> QED
      BY <1>1, <3>1, Zenon
  <2>7. \A k \in 1..(n + m) : k \in 1..n \/ \E j \in 1..m : k = n + j
    <3> SUFFICES ASSUME NEW k \in 1..(n + m), ~(k \in 1..n) PROVE \E j \in 1..m : k = n + j
      OBVIOUS
    <3>1. k - n \in 1..m /\ k = n + (k - n)
      BY <1>1
    <3> QED
      BY <3>1
  <2>8. ASSUME NEW k \in 1..(n + m) PROVE u[k].status = "OK" /\ u[k].from + u[k].len <= d
    <3>1. CASE k \in 1..n
      <4> DEFINE z == s[k].from + s[k].len
      <4>1. u[k] = s[k] /\ z <= b /\ z \in Int /\ s[k].status = "OK"
        BY <2>2, <2>4, <2>5, <3>1
      <4> HIDE DEF z
      <4>2. z <= d
        BY <4>1
      <4> QED
        BY <4>1, <4>2 DEF z
    <3>2. CASE \E j \in 1..m : k = n + j
      <4>1. PICK j \in 1..m : k = n + j
        BY <3>2
      <4> QED
        BY <2>3, <2>6, <4>1
    <3> QED
      BY <2>7, <3>1, <3>2
  <2>9. ASSUME NEW k \in 1..(n + m - 1) PROVE u[k + 1].from = u[k].from + u[k].len
    <3>1. CASE k \in 1..(n - 1)
      <4>1. k \in 1..n /\ k + 1 \in 1..n
        BY <1>1, <3>1
      <4> QED
        BY <2>2, <2>5, <3>1, <4>1, Zenon
    <3>2. CASE k = n
      <4>1. n \in 1..n /\ 1 \in 1..m
        BY <1>1, <2>1
      <4>2. u[n] = s[n] /\ u[n + 1] = t[1]
        BY <2>5, <2>6, <4>1
      <4> QED
        BY <2>2, <2>3, <3>2, <4>2
    <3>3. CASE ~(k \in 1..(n - 1)) /\ k # n
      <4> DEFINE j == k - n
      <4>1. j \in 1..(m - 1) /\ j \in 1..m /\ j + 1 \in 1..m /\ k = n + j /\ k + 1 = n + (j + 1)
        BY <1>1, <3>3
      <4> HIDE DEF j
      <4>2. u[k] = t[j] /\ u[k + 1] = t[j + 1]
        BY <2>6, <4>1
      <4> QED
        BY <2>3, <4>1, <4>2
    <3> QED
      BY <3>1, <3>2, <3>3
  <2>10. u # <<>> /\ u[1].from = a /\ u[n + m].from + u[n + m].len = d
    <3>1. 1 \in 1..n /\ m \in 1..m /\ Len(u) # 0
      BY <1>1, <2>1
    <3>2. u # <<>>
      BY <3>1
    <3> QED
      BY <2>2, <2>3, <2>5, <2>6, <3>1, <3>2, Zenon
  <2>11. Continues(u, a, d)
    BY <1>1, <2>8, <2>9, <2>10 DEF Continues
  <2> QED
    BY <2>11 DEF u
<1> QED
  BY <1>2, <1>3, <1>4

LEMMA ContinuesTail ==
  ASSUME NEW s \in Seq(Messages), NEW a \in Nat, NEW b \in Nat, s # <<>>, Continues(s, a, b)
  PROVE  /\ s[1].status = "OK" /\ s[1].from = a /\ s[1].from \in Nat /\ s[1].len \in Nat
         /\ a + s[1].len <= b
         /\ Continues(Tail(s), a + s[1].len, b)
<1> DEFINE t == Tail(s)
           n == Len(s)
<1>1. /\ s[1] \in Messages /\ n \in Nat /\ n >= 1 /\ Len(t) = n - 1 /\ t \in Seq(Messages)
      /\ \A k \in 1..(n - 1) : t[k] = s[k + 1] /\ k + 1 \in 1..n
  BY FirstMessage
<1>2. /\ \A k \in 1..n : s[k].status = "OK" /\ s[k].from + s[k].len <= b
      /\ s[1].from = a /\ s[n].from + s[n].len = b
      /\ \A k \in 1..(n - 1) : s[k + 1].from = s[k].from + s[k].len
  BY DEF Continues
<1>3. s[1].from \in Nat /\ s[1].len \in Nat
  BY <1>1 DEF Messages
<1> HIDE DEF t, n
<1>4. 1 \in 1..n
  BY <1>1
<1>5. s[1].status = "OK" /\ a + s[1].len <= b
  BY <1>2, <1>4
<1>6. CASE n = 1
  <2>1. t = <<>>
    BY <1>1, <1>6, EmptySeq
  <2>2. a + s[1].len = b
    BY <1>2, <1>6
  <2>3. Continues(t, a + s[1].len, b)
    BY <2>1, <2>2 DEF Continues
  <2> QED
    BY <1>2, <1>3, <1>5, <2>3 DEF t
<1>7. CASE n # 1
  <2>1. 1 \in 1..(n - 1) /\ n - 1 \in 1..(n - 1) /\ (n - 1) + 1 = n /\ t # <<>>
    <3>1. 1 \in 1..(n - 1) /\ n - 1 \in 1..(n - 1) /\ (n - 1) + 1 = n /\ Len(t) # 0
      BY <1>1, <1>7
    <3> QED
      BY <3>1
  <2>2. t[1] = s[1 + 1] /\ t[n - 1] = s[n]
    BY <1>1, <2>1
  <2>3. t[1].from = a + s[1].len
    BY <1>2, <2>1, <2>2
  <2>4. \A k \in 1..(n - 1) : t[k].status = "OK" /\ t[k].from + t[k].len <= b
    BY <1>1, <1>2, Zenon
  <2>5. ASSUME NEW k \in 1..(n - 1 - 1) PROVE t[k + 1].from = t[k].from + t[k].len
    <3>1. k \in 1..(n - 1) /\ k + 1 \in 1..(n - 1)
      BY <1>1
    <3> QED
      BY <1>1, <1>2, <3>1, Zenon
  <2>6. Continues(t, a + s[1].len, b)
    BY <1>1, <1>2, <2>1, <2>2, <2>3, <2>4, <2>5 DEF Continues
  <2> QED
    BY <1>2, <1>3, <1>5, <2>6 DEF t
<1> QED
  BY <1>6, <1>7

(* The oldest size in a log that is long enough. *)
LEMMA OldestSize ==
  ASSUME StreamInv, game # <<>>, game[1].delay >= 0, game[1].log # Relay!NoLog,
         Len(game[1].log) > game[1].delay
  PROVE  /\ Head(game[1].log) = game[1].log[1] /\ Head(game[1].log) \in Nat
         /\ 1 \in 1..Len(game[1].log)
<1> DEFINE log == game[1].log
           delay == game[1].delay
<1>1. log \in Seq(Nat) /\ delay \in Nat /\ Len(log) > delay
  BY GameKnown DEF StreamInv
<1> HIDE DEF log, delay
<1>2. Len(log) \in Nat /\ Len(log) >= 1
  BY <1>1, LenProperties
<1>3. Head(log) = log[1] /\ log[1] \in Nat /\ 1 \in 1..Len(log)
  BY <1>1, <1>2, LenProperties
<1> QED
  BY <1>3 DEF log

(* A step that leaves a watcher alone. *)
LEMMA WatcherKept ==
  ASSUME NEW c \in Client, WatcherOK(c),
         user'[c] = user[c], out'[c] = out[c], net'[c] = net[c], subscribe'[c] = subscribe[c],
         client'[c] = client[c], buffer'[c] = buffer[c],
         game' = game, ended' = ended, fileSize' = fileSize
  PROVE  WatcherOK(c)'
<1>1. ConnectionOK(c)'
  BY Zenon DEF WatcherOK, ConnectionOK, Stream, Continues
<1>2. Withheld(c)'
  BY DEF WatcherOK, Withheld
<1>3. Fresh(c)' /\ CopyOK(c)'
  BY DEF WatcherOK, Fresh, CopyOK
<1> QED
  BY <1>1, <1>2, <1>3 DEF WatcherOK

LEMMA ResumeAt ==
  ASSUME ResumeInv, NEW c \in Client, StreamInv', StepOf(c), WatcherOK(c)', restarts' = restarts,
         (game # <<>> /\ game[1].log = Relay!NoLog) => user'[c].pos = -1
  PROVE  ResumeInv'
<1>1. UNCHANGED <<game, ended, fileSize>>
  BY DEF StepOf
<1>2. ASSUME NEW d \in Client, d # c PROVE WatcherOK(d)' /\ user'[d] = user[d]
  <2>1. /\ user'[d] = user[d] /\ out'[d] = out[d] /\ net'[d] = net[d]
        /\ subscribe'[d] = subscribe[d] /\ client'[d] = client[d] /\ buffer'[d] = buffer[d]
    BY <1>2 DEF StepOf
  <2>2. WatcherOK(d)
    BY DEF ResumeInv
  <2> QED
    BY <1>1, <2>1, <2>2, WatcherKept
<1>3. LoggedFirst'
  <2> SUFFICES ASSUME game # <<>>, game[1].log = Relay!NoLog, NEW d \in Client PROVE user'[d].pos = -1
    BY <1>1 DEF LoggedFirst
  <2>1. user[d].pos = -1
    BY DEF ResumeInv, LoggedFirst
  <2> QED
    BY <1>2, <2>1
<1>4. \A d \in Client : WatcherOK(d)'
  BY <1>2
<1> QED
  BY <1>1, <1>3, <1>4 DEF ResumeInv

LEMMA ResumeGrows ==
  ASSUME ResumeInv, Grows, restarts' = restarts
  PROVE  ResumeInv'
<1>1. StreamInv' /\ fileSize \in Nat /\ fileSize' \in Nat /\ fileSize' >= fileSize
  BY StreamGrows DEF ResumeInv, StreamInv, RelayTypes, Grows
<1>2. UNCHANGED <<game, ended, user, out, net, subscribe, client, buffer>>
  BY DEF Grows
<1>3. ASSUME NEW c \in Client PROVE WatcherOK(c)'
  <2>1. WatcherOK(c) /\ Len(buffer[c]) \in Nat
    BY LenProperties DEF ResumeInv, StreamInv, RelayTypes
  <2>2. ConnectionOK(c)'
    BY <1>2, <2>1, Zenon DEF WatcherOK, ConnectionOK, Stream, Continues
  <2>3. Withheld(c)' /\ Fresh(c)'
    BY <1>2, <2>1 DEF WatcherOK, Withheld, Fresh
  <2>4. CopyOK(c)'
    <3>1. Len(buffer[c]) <= fileSize'
      BY <1>1, <2>1 DEF WatcherOK, CopyOK
    <3> QED
      BY <1>2, <2>1, <3>1 DEF WatcherOK, CopyOK
  <2> QED
    BY <2>2, <2>3, <2>4 DEF WatcherOK
<1>4. LoggedFirst'
  BY <1>2 DEF ResumeInv, LoggedFirst
<1> QED
  BY <1>1, <1>2, <1>3, <1>4 DEF ResumeInv

(* The game's entry changes, and nothing else. *)
LEMMA ResumeGameChanged ==
  ASSUME ResumeInv, StreamInv', UNCHANGED <<fileSize, user, out, net, subscribe, client, buffer, restarts>>,
         (ended => game = <<>>)', LoggedFirst', \A c \in Client : (Withheld(c) /\ Fresh(c))'
  PROVE  ResumeInv'
<1>1. ASSUME NEW c \in Client PROVE WatcherOK(c)'
  <2>1. WatcherOK(c)
    BY DEF ResumeInv
  <2>2. ConnectionOK(c)' /\ CopyOK(c)'
    BY <2>1, Zenon DEF WatcherOK, ConnectionOK, Stream, Continues, CopyOK
  <2> QED
    BY <2>2 DEF WatcherOK
<1> QED
  BY <1>1 DEF ResumeInv

LEMMA ResumeAnnounced ==
  ASSUME ResumeInv, NEW d \in Nat \union {-1}, Relay!SetGameInfo(d), game # <<>> => d <= game[1].delay
  PROVE  ResumeInv'
<1>1. StreamInv /\ RelayTypes /\ LoggedFirst /\ \A c \in Client : Withheld(c) /\ Fresh(c)
  BY DEF ResumeInv, StreamInv, WatcherOK
<1>2. StreamInv'
  BY <1>1, StreamAnnounced
<1>3. /\ game' # <<>> /\ game'[1].delay = d
      /\ game'[1].log = IF game = <<>> THEN Relay!NoLog ELSE game[1].log
      /\ ~ended
      /\ UNCHANGED <<fileSize, ended, user, out, net, subscribe, client, buffer, restarts>>
  BY <1>1, GameAnnounced
<1>4. ASSUME NEW c \in Client, game = <<>> PROVE buffer[c] = <<>> /\ user[c].pos = -1
  BY <1>1, <1>3, <1>4 DEF Fresh
<1>5. LoggedFirst'
  <2> SUFFICES ASSUME game'[1].log = Relay!NoLog, NEW c \in Client PROVE user[c].pos = -1
    BY <1>3 DEF LoggedFirst
  <2>1. CASE game = <<>>
    BY <1>4, <2>1
  <2>2. CASE game # <<>>
    BY <1>1, <1>3, <2>2 DEF LoggedFirst
  <2> QED
    BY <2>1, <2>2
<1>6. ASSUME NEW c \in Client PROVE (Withheld(c) /\ Fresh(c))'
  <2> DEFINE log == game'[1].log
  <2>1. Fresh(c)'
    BY <1>3 DEF Fresh
  <2>2. ASSUME d >= 0
        PROVE  IF log # Relay!NoLog /\ Len(log) > d
               THEN Len(buffer[c]) <= Head(log) /\ user[c].pos <= Head(log)
               ELSE buffer[c] = <<>> /\ user[c].pos \in {-1, 0}
    <3>1. CASE game = <<>>
      <4>1. log = Relay!NoLog
        BY <1>3, <3>1
      <4> QED
        BY <1>4, <3>1, <4>1
    <3>2. CASE game # <<>>
      <4> DEFINE old == game[1].delay
      <4>1. log = game[1].log /\ old \in Int /\ d <= old
        BY <1>1, <1>3, <3>2, GameKnown
      <4>2. IF log # Relay!NoLog /\ Len(log) > old
            THEN Len(buffer[c]) <= Head(log) /\ user[c].pos <= Head(log)
            ELSE buffer[c] = <<>> /\ user[c].pos \in {-1, 0}
        <5>1. old >= 0
          BY <2>2, <4>1
        <5> QED
          BY <1>1, <3>2, <4>1, <5>1 DEF Withheld
      <4>3. log # Relay!NoLog => log \in Seq(Nat)
        BY <1>1, <3>2, <4>1, GameKnown
      <4> HIDE DEF log, old
      <4>4. CASE log # Relay!NoLog /\ Len(log) > d
        <5>1. Len(log) \in Nat /\ Len(log) >= 1
          BY <2>2, <4>3, <4>4, LenProperties
        <5>2. Head(log) \in Nat
          BY <4>3, <4>4, <5>1, LenProperties
        <5>3. CASE Len(log) > old
          BY <4>2, <4>4, <5>3
        <5>4. CASE ~(Len(log) > old)
          <6>1. buffer[c] = <<>> /\ user[c].pos \in {-1, 0}
            BY <4>2, <5>4
          <6>2. Len(buffer[c]) = 0 /\ user[c].pos <= 0 /\ user[c].pos \in Int
            BY <6>1
          <6> QED
            BY <4>4, <5>2, <6>2
        <5> QED
          BY <5>3, <5>4
      <4>5. CASE ~(log # Relay!NoLog /\ Len(log) > d)
        <5>1. ~(log # Relay!NoLog /\ Len(log) > old)
          BY <2>2, <4>1, <4>3, <4>5, LenProperties
        <5> QED
          BY <4>2, <4>5, <5>1
      <4> QED
        BY <4>4, <4>5
    <3> QED
      BY <3>1, <3>2
  <2>3. Withheld(c)'
    BY <1>3, <2>2 DEF Withheld
  <2> QED
    BY <2>1, <2>3
<1>7. (ended => game = <<>>)'
  BY <1>3
<1> QED
  BY <1>2, <1>3, <1>5, <1>6, <1>7, ResumeGameChanged

LEMMA ResumeEnded ==
  ASSUME ResumeInv, Relay!SetGameEnded
  PROVE  ResumeInv'
<1>1. StreamInv'
  BY StreamEnded DEF ResumeInv
<1>2. /\ game' = <<>> /\ ended' = TRUE
      /\ UNCHANGED <<fileSize, user, out, net, subscribe, client, buffer, restarts>>
  BY DEF Relay!SetGameEnded, Relay!fileVars, Relay!netVars, Relay!clientVars
<1>3. LoggedFirst' /\ \A c \in Client : (Withheld(c) /\ Fresh(c))'
  BY <1>2 DEF LoggedFirst, Withheld, Fresh
<1> QED
  BY <1>1, <1>2, <1>3, ResumeGameChanged

LEMMA ResumeFlushed ==
  ASSUME ResumeInv, NEW c \in Client, Relay!Flush(c)
  PROVE  ResumeInv'
<1>1. /\ StreamInv /\ StreamInv' /\ StepOf(c)
      /\ net'[c] = net[c] \o out[c] /\ out'[c] = <<>> /\ user'[c] = user[c]
      /\ buffer'[c] = buffer[c] /\ subscribe'[c] = subscribe[c] /\ client'[c] = client[c]
  BY StreamFlushed, Zenon DEF ResumeInv
<1>2. restarts' = restarts /\ UNCHANGED <<game, ended, fileSize>>
  BY <1>1 DEF Relay!Flush, StepOf
<1>3. WatcherOK(c)
  BY DEF ResumeInv
<1>4. Stream(c)' = Stream(c)
  <2>1. net[c] \o out[c] \in Seq(Messages)
    BY <1>1, ConnectionTypes, BoundedConcat
  <2>2. (net[c] \o out[c]) \o <<>> = net[c] \o out[c]
    BY <2>1, ConcatEmptySeq
  <2> QED
    BY <1>1, <2>2 DEF Stream
<1>5. ConnectionOK(c)'
  <2> DEFINE s == Stream(c)
  <2>1. Stream(c)' = s
    BY <1>4
  <2>2. /\ client[c] # "up" => subscribe[c] = <<>> /\ user[c].pos = -1 /\ s = <<>>
        /\ subscribe[c] # <<>> => subscribe[c] = <<Len(buffer[c])>> /\ user[c].pos = -1 /\ s = <<>>
        /\ user[c].pos = -1 => \A k \in 1..Len(s) : s[k].status # "OK"
        /\ user[c].pos # -1 => user[c].gameId = 1 /\ Continues(s, Len(buffer[c]), user[c].pos)
    BY <1>3 DEF WatcherOK, ConnectionOK
  <2> HIDE DEF s
  <2> QED
    BY <1>1, <2>1, <2>2 DEF ConnectionOK, Continues
<1>6. Withheld(c)' /\ Fresh(c)' /\ CopyOK(c)'
  BY <1>1, <1>2, <1>3 DEF WatcherOK, Withheld, Fresh, CopyOK
<1>7. (game # <<>> /\ game[1].log = Relay!NoLog) => user'[c].pos = -1
  BY <1>1 DEF ResumeInv, LoggedFirst
<1> QED
  BY <1>1, <1>2, <1>5, <1>6, <1>7, ResumeAt DEF WatcherOK

LEMMA ResumeConnects ==
  ASSUME ResumeInv, NEW c \in Client, Relay!Connect(c)
  PROVE  ResumeInv'
<1>1. /\ StreamInv' /\ StepOf(c)
      /\ net'[c] = net[c] /\ out'[c] = out[c] /\ user'[c].pos = -1 /\ buffer'[c] = buffer[c]
      /\ subscribe'[c] = <<Len(buffer[c])>> /\ client[c] = "down" /\ client'[c] = "up"
  BY StreamConnects DEF ResumeInv
<1>2. restarts' = restarts /\ UNCHANGED <<game, ended, fileSize>>
  BY <1>1 DEF Relay!Connect, StepOf
<1>3. WatcherOK(c) /\ user[c].pos = -1 /\ Stream(c) = <<>>
  BY <1>1 DEF ResumeInv, WatcherOK, ConnectionOK
<1>4. Stream(c)' = <<>>
  BY <1>1, <1>3 DEF Stream
<1>5. ConnectionOK(c)'
  <2>1. Len(<<>>) = 0
    OBVIOUS
  <2> QED
    BY <1>1, <1>4, <2>1 DEF ConnectionOK
<1>6. Withheld(c)' /\ Fresh(c)' /\ CopyOK(c)'
  BY <1>1, <1>2, <1>3 DEF WatcherOK, Withheld, Fresh, CopyOK
<1> QED
  BY <1>1, <1>2, <1>5, <1>6, ResumeAt DEF WatcherOK

LEMMA ResumeCutOff ==
  ASSUME ResumeInv, NEW c \in Client, CutOff(c), restarts' = restarts
  PROVE  ResumeInv'
<1>1. /\ StreamInv /\ StreamInv' /\ StepOf(c)
      /\ net'[c] = <<>> /\ out'[c] = <<>> /\ user'[c].pos = -1 /\ buffer'[c] = buffer[c]
      /\ subscribe'[c] = <<>>
  BY StreamCutOff DEF ResumeInv
<1>2. UNCHANGED <<game, ended, fileSize>>
  BY <1>1 DEF StepOf
<1>3. WatcherOK(c)
  BY DEF ResumeInv
<1>4. Stream(c)' = <<>>
  BY <1>1 DEF Stream
<1>5. ConnectionOK(c)'
  <2>1. Len(<<>>) = 0
    OBVIOUS
  <2> QED
    BY <1>1, <1>4, <2>1 DEF ConnectionOK
<1>6. Withheld(c)'
  <2>1. ASSUME game # <<>>, game[1].delay >= 0, game[1].log # Relay!NoLog, Len(game[1].log) > game[1].delay
        PROVE  Len(buffer[c]) <= Head(game[1].log) /\ -1 <= Head(game[1].log)
    <3>1. Head(game[1].log) \in Nat
      BY <1>1, <2>1, OldestSize
    <3> QED
      BY <1>3, <2>1, <3>1 DEF WatcherOK, Withheld
  <2>2. ASSUME game # <<>>, game[1].delay >= 0, ~(game[1].log # Relay!NoLog /\ Len(game[1].log) > game[1].delay)
        PROVE  buffer[c] = <<>>
    BY <1>3, <2>2 DEF WatcherOK, Withheld
  <2> QED
    BY <1>1, <1>2, <2>1, <2>2 DEF Withheld
<1>7. Fresh(c)' /\ CopyOK(c)'
  BY <1>1, <1>2, <1>3 DEF WatcherOK, Fresh, CopyOK
<1> QED
  BY <1>1, <1>2, <1>5, <1>6, <1>7, ResumeAt DEF WatcherOK

LEMMA ResumeSubscribed ==
  ASSUME ResumeInv, NEW c \in Client, Relay!OnSubscribe(c),
         ~(Playable /\ game[1].log = Relay!NoLog)
  PROVE  ResumeInv'
<1> DEFINE p == Head(subscribe[c])
           b == buffer[c]
           L == Len(b)
<1>1. /\ StreamInv /\ StreamInv' /\ StepOf(c)
      /\ subscribe[c] # <<>> /\ p \in Nat /\ subscribe'[c] = Tail(subscribe[c])
      /\ net'[c] = net[c] /\ client'[c] = client[c] /\ buffer'[c] = b
      /\ Granted => user'[c].gameId = 1 /\ user'[c].pos = Relay!SeekPos(p)
      /\ ~Granted => user'[c].pos \in {user[c].pos, -1}
  BY StreamSubscribed DEF ResumeInv
<1>2. PICK reply \in Seq(Messages) :
        /\ out'[c] = out[c] \o reply
        /\ \A k \in 1..Len(reply) : reply[k].status # "OK"
        /\ Granted => reply = <<>>
  BY StreamSubscribed, Zenon DEF ResumeInv
<1>3. restarts' = restarts /\ UNCHANGED <<game, ended, fileSize>>
  BY <1>1 DEF Relay!OnSubscribe, StepOf
<1>4. /\ WatcherOK(c) /\ client[c] = "up" /\ subscribe[c] = <<L>> /\ user[c].pos = -1 /\ Stream(c) = <<>>
  BY <1>1 DEF ResumeInv, WatcherOK, ConnectionOK
<1>5. subscribe'[c] = <<>> /\ p = L /\ L \in Nat
  <2>1. L \in Nat
    BY <1>1, ConnectionTypes, LenProperties
  <2> HIDE DEF L
  <2> QED
    BY <1>1, <1>4, <2>1
<1>6. Stream(c)' = reply
  <2>1. net[c] \in Seq(Messages) /\ out[c] \in Seq(Messages)
    BY <1>1, ConnectionTypes
  <2>2. Len(net[c]) \in Nat /\ Len(out[c]) \in Nat /\ Len(net[c] \o out[c]) = Len(net[c]) + Len(out[c])
    BY <2>1, ConcatProperties, LenProperties
  <2>3. net[c] \o out[c] = <<>>
    BY <1>4 DEF Stream
  <2>4. Len(net[c]) = 0 /\ Len(out[c]) = 0
    BY <2>2, <2>3
  <2>5. net[c] = <<>> /\ out[c] = <<>>
    BY <2>1, <2>4, EmptySeq
  <2>6. <<>> \o (<<>> \o reply) = reply
    BY ConcatEmptySeq
  <2> QED
    BY <1>1, <1>2, <2>5, <2>6 DEF Stream
<1>7. CASE Granted
  <2> DEFINE log == game[1].log
             delay == game[1].delay
  <2>1. game # <<>> /\ delay >= 0 /\ log # Relay!NoLog
    BY <1>7 DEF Granted, Playable
  <2>2. user'[c].gameId = 1 /\ user'[c].pos = Relay!SeekPos(L) /\ reply = <<>>
    BY <1>1, <1>2, <1>5, <1>7
  <2>3. /\ Relay!SeekPos(L) = IF Len(log) > delay THEN (IF L <= Head(log) THEN L ELSE Head(log)) ELSE 0
        /\ Len(log) > delay => Head(log) \in Nat
    BY <1>1, <1>5, <1>7, SeekInFile, Zenon
  <2>4. IF Len(log) > delay THEN L <= Head(log) ELSE b = <<>>
    BY <1>4, <2>1 DEF WatcherOK, Withheld
  <2>5. ~(Len(log) > delay) => L = 0
    BY <2>4
  <2> HIDE DEF L
  <2>6. user'[c].pos = L
    BY <2>2, <2>3, <2>4, <2>5
  <2>7. ConnectionOK(c)'
    <3>1. Continues(<<>>, L, L) /\ Len(<<>>) = 0
      BY DEF Continues
    <3>2. user'[c].pos # -1
      BY <1>5, <2>6
    <3>3. Len(buffer'[c]) = L
      BY <1>1 DEF L
    <3>4. Continues(Stream(c)', Len(buffer'[c]), user'[c].pos)
      BY <1>6, <2>2, <2>6, <3>1, <3>3
    <3>5. (Continues(Stream(c), Len(buffer[c]), user[c].pos))'
      BY <3>4 DEF Continues
    <3> QED
      BY <1>1, <1>4, <1>5, <2>2, <3>2, <3>5 DEF ConnectionOK
  <2>8. Withheld(c)'
    <3>1. IF log # Relay!NoLog /\ Len(log) > delay
          THEN Len(b) <= Head(log) /\ user'[c].pos <= Head(log)
          ELSE b = <<>> /\ user'[c].pos \in {-1, 0}
      BY <1>5, <2>1, <2>3, <2>4, <2>5, <2>6 DEF L
    <3> QED
      BY <1>1, <1>3, <3>1 DEF Withheld
  <2>9. Fresh(c)' /\ CopyOK(c)'
    BY <1>1, <1>3, <1>4, <2>1, Zenon DEF WatcherOK, Fresh, CopyOK
  <2> QED
    BY <1>1, <1>3, <2>1, <2>7, <2>8, <2>9, ResumeAt DEF WatcherOK
<1>8. CASE ~Granted
  <2>1. user'[c].pos = -1
    BY <1>1, <1>4, <1>8
  <2>2. ConnectionOK(c)'
    <3>1. \A k \in 1..Len(Stream(c)') : Stream(c)'[k].status # "OK"
      BY <1>2, <1>6
    <3> QED
      BY <1>1, <1>4, <1>5, <2>1, <3>1 DEF ConnectionOK
  <2>3. Withheld(c)' /\ Fresh(c)' /\ CopyOK(c)'
    BY <1>1, <1>3, <1>4, <2>1 DEF WatcherOK, Withheld, Fresh, CopyOK
  <2> QED
    BY <1>1, <1>3, <2>1, <2>2, <2>3, ResumeAt DEF WatcherOK
<1> QED
  BY <1>7, <1>8

(* A client that stores the bytes that come next. *)
LEMMA CopyGrows ==
  ASSUME NEW b \in Seq(Nat), \A k \in 1..Len(b) : b[k] = k - 1,
         NEW m \in Messages, m.from = Len(b)
  PROVE  LET a == b \o Relay!Received(m) IN
           /\ a \in Seq(Nat) /\ Len(a) = Len(b) + m.len
           /\ \A k \in 1..Len(a) : a[k] = k - 1
<1> DEFINE r == Relay!Received(m)
           a == b \o r
           n == Len(b)
           l == m.len
<1>1. /\ r \in Seq(Nat) /\ Len(r) = l /\ l \in Nat /\ m.from \in Nat
      /\ \A k \in 1..l : r[k] = m.from + k - 1
  BY BytesReceived, Zenon
<1>2. n \in Nat
  BY LenProperties
<1> HIDE DEF r
<1>3. /\ a \in Seq(Nat) /\ Len(a) = n + l
      /\ \A k \in 1..(n + l) : a[k] = IF k <= n THEN b[k] ELSE r[k - n]
  <2>1. /\ a \in Seq(Nat) /\ Len(a) = Len(b) + Len(r)
        /\ \A k \in 1..(Len(b) + Len(r)) : a[k] = IF k <= Len(b) THEN b[k] ELSE r[k - Len(b)]
    <3>1. r \in Seq(Nat) /\ b \in Seq(Nat)
      BY <1>1
    <3>2. ASSUME NEW x \in Seq(Nat), NEW y \in Seq(Nat)
          PROVE  /\ x \o y \in Seq(Nat) /\ Len(x \o y) = Len(x) + Len(y)
                 /\ \A k \in 1..(Len(x) + Len(y)) : (x \o y)[k] = IF k <= Len(x) THEN x[k] ELSE y[k - Len(x)]
      BY ConcatProperties
    <3> QED
      BY <3>1, <3>2
  <2>2. Len(r) = l
    BY <1>1
  <2> HIDE DEF l, a
  <2> QED
    BY <2>1, <2>2
<1>4. \A k \in 1..l : r[k] = n + k - 1
  BY <1>1
<1>5. \A k \in 1..n : b[k] = k - 1
  OBVIOUS
<1> HIDE DEF n, l, a
<1>6. ASSUME NEW k \in 1..(n + l) PROVE a[k] = k - 1
  <2>1. CASE k <= n
    BY <1>2, <1>3, <1>5, <2>1
  <2>2. CASE ~(k <= n)
    <3>1. k - n \in 1..l /\ a[k] = r[k - n]
      BY <1>1, <1>2, <1>3, <2>2
    <3>2. a[k] = n + (k - n) - 1
      BY <1>4, <3>1
    <3> QED
      BY <1>2, <3>2
  <2> QED
    BY <2>1, <2>2
<1> QED
  BY <1>3, <1>6 DEF n, l, a, r

LEMMA ResumeReceived ==
  ASSUME ResumeInv, NEW c \in Client, Relay!Receive(c)
  PROVE  ResumeInv'
<1> DEFINE s == Stream(c)
           m == s[1]
           b == buffer[c]
           L == Len(b)
<1>1. /\ StreamInv /\ StreamInv' /\ StepOf(c)
      /\ net[c] # <<>> /\ net'[c] = Tail(net[c]) /\ out'[c] = out[c] /\ user'[c] = user[c]
      /\ subscribe'[c] = subscribe[c] /\ client'[c] = client[c]
      /\ buffer'[c] = IF Head(net[c]).status = "OK" THEN b \o Relay!Received(Head(net[c])) ELSE b
  BY StreamReceived DEF ResumeInv
<1>2. restarts' = restarts /\ UNCHANGED <<game, ended, fileSize>>
  BY <1>1 DEF Relay!Receive, StepOf
<1>3. WatcherOK(c) /\ net[c] \in Seq(Messages) /\ out[c] \in Seq(Messages) /\ b \in Seq(Nat) /\ L \in Nat
      /\ user[c] \in UserContexts /\ user[c].pos <= fileSize /\ fileSize \in Nat
  BY <1>1, ConnectionTypes, LenProperties DEF ResumeInv
<1>4. /\ s \in Seq(Messages) /\ s # <<>> /\ Head(net[c]) = m /\ Tail(s) = Tail(net[c]) \o out[c]
      /\ m \in Messages
  <2> DEFINE n == net[c]
             o == out[c]
  <2>1. /\ n \in Seq(Messages) /\ o \in Seq(Messages) /\ n # <<>>
    BY <1>1, <1>3
  <2>2. s = n \o o
    BY DEF Stream
  <2> HIDE DEF n, o, s
  <2>3. /\ s \in Seq(Messages) /\ Len(s) = Len(n) + Len(o) /\ Len(n) \in Nat /\ Len(o) \in Nat
        /\ \A k \in 1..(Len(n) + Len(o)) : s[k] = IF k <= Len(n) THEN n[k] ELSE o[k - Len(n)]
    BY <2>1, <2>2, ConcatProperties, LenProperties
  <2>4. /\ Head(n) = n[1] /\ Tail(n) \in Seq(Messages) /\ Len(n) >= 1 /\ Len(Tail(n)) = Len(n) - 1
        /\ \A k \in 1..Len(Tail(n)) : Tail(n)[k] = n[k + 1]
    BY <2>1, FirstMessage
  <2>5. s # <<>> /\ s[1] = n[1]
    <3>1. Len(s) # 0 /\ 1 \in 1..(Len(n) + Len(o)) /\ 1 <= Len(n)
      BY <2>3, <2>4
    <3> QED
      BY <2>3, <3>1
  <2>6. /\ Head(s) \in Messages /\ Head(s) = s[1] /\ Tail(s) \in Seq(Messages) /\ Len(Tail(s)) = Len(s) - 1
        /\ \A k \in 1..Len(Tail(s)) : Tail(s)[k] = s[k + 1]
    BY <2>3, <2>5, FirstMessage
  <2> DEFINE t == Tail(n)
             v == t \o o
             w == Tail(s)
             ln == Len(n)
             lo == Len(o)
  <2>7. /\ v \in Seq(Messages) /\ Len(v) = (ln - 1) + lo
        /\ \A k \in 1..((ln - 1) + lo) : v[k] = IF k <= ln - 1 THEN t[k] ELSE o[k - (ln - 1)]
    BY <2>1, <2>4, ConcatProperties
  <2>8. /\ ln \in Nat /\ ln >= 1 /\ lo \in Nat /\ w \in Seq(Messages) /\ Len(w) = ln + lo - 1
        /\ \A k \in 1..(ln + lo - 1) : w[k] = s[k + 1]
        /\ \A k \in 1..(ln - 1) : t[k] = n[k + 1]
    BY <2>3, <2>4, <2>6
  <2>9. \A k \in 1..(ln + lo) : s[k] = IF k <= ln THEN n[k] ELSE o[k - ln]
    BY <2>3
  <2> HIDE DEF v, w, t, ln, lo
  <2>10. ASSUME NEW k \in 1..(ln + lo - 1) PROVE v[k] = w[k]
    <3>1. k \in 1..((ln - 1) + lo) /\ k + 1 \in 1..(ln + lo) /\ (k + 1) - ln = k - (ln - 1)
      BY <2>8
    <3>2. CASE k <= ln - 1
      <4>1. k \in 1..(ln - 1) /\ k + 1 <= ln
        BY <2>8, <3>2
      <4> QED
        BY <2>7, <2>8, <2>9, <3>1, <3>2, <4>1
    <3>3. CASE ~(k <= ln - 1)
      <4>1. ~(k + 1 <= ln)
        BY <2>8, <3>3
      <4>2. v[k] = o[k - (ln - 1)] /\ w[k] = o[(k + 1) - ln]
        BY <2>7, <2>8, <2>9, <3>1, <3>3, <4>1
      <4> QED
        BY <3>1, <4>2
    <3> QED
      BY <3>2, <3>3
  <2>11. v = w
    <3>1. Len(v) = Len(w) /\ \A k \in 1..Len(v) : v[k] = w[k]
      BY <2>7, <2>8, <2>10
    <3> QED
      BY <2>7, <2>8, <3>1, SeqEqual
  <2> QED
    BY <2>3, <2>4, <2>5, <2>6, <2>11, Zenon DEF v, w, t, n, o
<1>5. Stream(c)' = Tail(s)
  BY <1>1, <1>4, Zenon DEF Stream
<1>6. client[c] = "up" /\ subscribe[c] = <<>>
  BY <1>3, <1>4 DEF WatcherOK, ConnectionOK
<1> HIDE DEF s
<1>7. CASE user[c].pos = -1
  <2>1. \A k \in 1..Len(s) : s[k].status # "OK"
    BY <1>3, <1>7 DEF WatcherOK, ConnectionOK, s
  <2>2. Len(s) \in Nat /\ Len(s) >= 1 /\ \A k \in 1..Len(Tail(s)) : Tail(s)[k] = s[k + 1] /\ k + 1 \in 1..Len(s)
    BY <1>4, FirstMessage
  <2>3. m.status # "OK" /\ \A k \in 1..Len(Tail(s)) : Tail(s)[k].status # "OK"
    <3>1. 1 \in 1..Len(s)
      BY <2>2
    <3> QED
      BY <2>1, <2>2, <3>1
  <2>4. buffer'[c] = buffer[c]
    BY <1>1, <1>4, <2>3
  <2>5. ConnectionOK(c)'
    BY <1>1, <1>5, <1>6, <1>7, <2>3 DEF ConnectionOK
  <2>6. Withheld(c)' /\ Fresh(c)' /\ CopyOK(c)'
    BY <1>1, <1>2, <1>3, <2>4, Zenon DEF WatcherOK, Withheld, Fresh, CopyOK
  <2> QED
    BY <1>1, <1>2, <1>7, <2>5, <2>6, ResumeAt DEF WatcherOK
<1>8. CASE user[c].pos # -1
  <2> DEFINE q == user[c].pos
             a == buffer'[c]
  <2>1. q \in Nat /\ q <= fileSize /\ user[c].gameId = 1 /\ Continues(s, L, q)
    BY <1>3, <1>8 DEF WatcherOK, ConnectionOK, s, UserContexts
  <2> HIDE DEF q, L
  <2>2. /\ m.status = "OK" /\ m.from = L /\ m.len \in Nat /\ L + m.len <= q
        /\ Continues(Tail(s), L + m.len, q)
    BY <1>3, <1>4, <2>1, ContinuesTail
  <2>3. a = b \o Relay!Received(m)
    BY <1>1, <1>4, <2>2, Zenon
  <2>4. \A k \in 1..Len(b) : b[k] = k - 1
    BY <1>3 DEF WatcherOK, CopyOK
  <2>5. a \in Seq(Nat) /\ Len(a) = L + m.len /\ \A k \in 1..Len(a) : a[k] = k - 1
    <3>1. m.from = Len(b)
      BY <2>2 DEF L
    <3> HIDE DEF a, b, m
    <3> QED
      BY <1>3, <1>4, <2>3, <2>4, <3>1, CopyGrows, Zenon DEF L
  <2>6. ConnectionOK(c)'
    <3>1. Continues(Stream(c)', Len(buffer'[c]), user'[c].pos)
      BY <1>1, <1>5, <2>2, <2>5, Zenon DEF q
    <3>2. (Continues(Stream(c), Len(buffer[c]), user[c].pos))'
      BY <3>1 DEF Continues
    <3> QED
      BY <1>1, <1>6, <1>8, <2>1, <3>2, Zenon DEF ConnectionOK
  <2>7. Withheld(c)'
    <3> DEFINE log == game[1].log
               delay == game[1].delay
    <3>1. ASSUME game # <<>>, delay >= 0
          PROVE  IF log # Relay!NoLog /\ Len(log) > delay
                 THEN Len(a) <= Head(log) /\ q <= Head(log)
                 ELSE a = <<>> /\ q \in {-1, 0}
      <4>1. IF log # Relay!NoLog /\ Len(log) > delay
            THEN Len(b) <= Head(log) /\ q <= Head(log)
            ELSE b = <<>> /\ q \in {-1, 0}
        BY <1>3, <3>1 DEF WatcherOK, Withheld, q
      <4>2. CASE log # Relay!NoLog /\ Len(log) > delay
        <5>1. Head(log) \in Nat
          BY <1>1, <3>1, <4>2, OldestSize
        <5> DEFINE h == Head(log)
                   l == m.len
                   la == Len(a)
        <5>2. /\ h \in Nat /\ q \in Nat /\ q <= h /\ la = L + l /\ L + l <= q /\ l \in Nat /\ L \in Nat
          BY <1>3, <2>1, <2>2, <2>5, <4>1, <4>2, <5>1
        <5> HIDE DEF h, l, la
        <5>3. la <= h /\ q <= h
          BY <5>2
        <5> QED
          BY <4>2, <5>3 DEF la, h
      <4>3. CASE ~(log # Relay!NoLog /\ Len(log) > delay)
        <5>1. q \in {-1, 0}
          BY <4>1, <4>3
        <5> HIDE DEF a, log, delay
        <5>2. Len(a) = 0
          BY <1>3, <2>1, <2>2, <2>5, <5>1
        <5>3. a = <<>>
          BY <2>5, <5>2, EmptySeq
        <5> QED
          BY <4>3, <5>1, <5>3
      <4> QED
        BY <4>2, <4>3
    <3> QED
      BY <1>1, <1>2, <3>1, Zenon DEF Withheld, q
  <2>8. Fresh(c)'
    BY <1>1, <1>2, <1>3, <1>8 DEF WatcherOK, Fresh
  <2>9. CopyOK(c)'
    <3>1. Len(a) <= fileSize
      <4> HIDE DEF a
      <4> QED
        BY <1>3, <2>1, <2>2, <2>5
    <3> QED
      BY <1>2, <2>5, <3>1 DEF CopyOK
  <2>10. (game # <<>> /\ game[1].log = Relay!NoLog) => user'[c].pos = -1
    BY <1>1 DEF ResumeInv, LoggedFirst
  <2> QED
    BY <1>1, <1>2, <2>6, <2>7, <2>8, <2>9, <2>10, ResumeAt DEF WatcherOK
<1> QED
  BY <1>7, <1>8

(* The oldest size that a log keeps never falls, and while a log is too    *)
(* short it was too short before.                                          *)
LEMMA OldestGrows ==
  ASSUME StreamInv, game # <<>>, game[1].delay >= 0,
         ~(game[1].log = Relay!NoLog /\ ~fileExists)
  PROVE  LET g == game[1]
             h == Relay!UpdateFileSizeLog(game[1])
         IN /\ h.delay = g.delay /\ h.log # Relay!NoLog
            /\ Len(h.log) > g.delay => Head(h.log) \in Nat /\ h.log # <<>>
            /\ (g.log # Relay!NoLog /\ Len(g.log) > g.delay) => /\ Len(h.log) > g.delay
                                                                /\ Head(g.log) \in Nat
                                                                /\ Head(g.log) <= Head(h.log)
<1> DEFINE g == game[1]
           h == Relay!UpdateFileSizeLog(g)
           old == OldLog(g)
           a == Append(old, fileSize)
           d == g.delay
           log == h.log
<1>1. /\ g \in GameInfos /\ SizesOK(g.log) /\ fileSize \in Nat /\ fileExists \in BOOLEAN /\ d \in Nat
      /\ g.log \in {Relay!NoLog} \union Seq(Nat)
  BY GameKnown DEF StreamInv, RelayTypes, WithinFile
<1> HIDE DEF g, d
<1>2. /\ h.delay = g.delay /\ log \in Seq(Nat) /\ log # Relay!NoLog
      /\ a \in Seq(Nat) /\ Len(a) = Len(old) + 1 /\ a[Len(a)] = fileSize
      /\ \A k \in 1..Len(old) : a[k] = old[k]
      /\ Len(log) = IF Len(a) <= 1 + g.delay THEN Len(a) ELSE 1 + g.delay
      /\ \A k \in 1..Len(log) : log[k] = a[Len(a) - Len(log) + k]
  BY <1>1, LogUpdated, Zenon DEF g
<1>3. old \in Seq(Nat) /\ Len(old) \in Nat
  BY <1>1, EmptySeq, LenProperties DEF OldLog
<1>4. g.log # Relay!NoLog => g.log = old
  BY DEF OldLog
<1> HIDE DEF h, old, a, log
<1> DEFINE n == Len(log)
           la == Len(a)
           lo == Len(old)
<1>5. n = (IF la <= 1 + d THEN la ELSE 1 + d) /\ la = lo + 1 /\ lo \in Nat /\ n \in Nat
  BY <1>1, <1>2, <1>3, LenProperties DEF d
<1> HIDE DEF n, la, lo
<1>6. ASSUME n > d PROVE log # <<>> /\ Head(log) = log[1] /\ log[1] \in Nat /\ 1 \in 1..n
  <2>1. n >= 1
    BY <1>1, <1>5, <1>6
  <2>2. 1 \in 1..n /\ log # <<>>
    BY <1>5, <2>1 DEF n
  <2> QED
    BY <1>2, <2>2, LenProperties DEF n
<1>7. ASSUME g.log # Relay!NoLog, Len(g.log) > g.delay
      PROVE  n > d /\ Head(g.log) \in Nat /\ Head(g.log) <= Head(log)
  <2>1. g.log = old /\ lo > d
    BY <1>4, <1>7 DEF lo, d
  <2>2. n = 1 + d /\ n > d /\ lo >= 1 /\ la - n + 1 \in 1..la
    BY <1>1, <1>5, <2>1
  <2>3. Head(old) = old[1] /\ old[1] \in Nat /\ 1 \in 1..lo
    <3>1. 1 \in 1..lo /\ old # <<>>
      BY <1>5, <2>2 DEF lo
    <3> QED
      BY <1>3, <3>1, LenProperties DEF lo
  <2> DEFINE j == la - n + 1
  <2>4. log[1] = a[j] /\ j \in 1..la
    <3>1. 1 \in 1..n
      BY <1>6, <2>2
    <3> QED
      BY <1>2, <2>2, <3>1 DEF n, la
  <2> HIDE DEF j
  <2>5. j \in 1..lo \/ j = la
    BY <1>5, <2>4
  <2>6. CASE j \in 1..lo
    <3>1. a[j] = old[j] /\ 1 <= j
      BY <1>2, <1>5, <2>6 DEF lo
    <3>2. old[1] <= old[j]
      BY <1>1, <2>1, <2>3, <2>6, <3>1 DEF SizesOK, lo
    <3> QED
      BY <1>6, <2>1, <2>2, <2>3, <2>4, <3>1, <3>2
  <2>7. CASE j = la
    <3>1. a[j] = fileSize
      BY <1>2, <2>7 DEF la
    <3>2. old[1] <= fileSize
      BY <1>1, <2>1, <2>3 DEF SizesOK, lo
    <3> QED
      BY <1>6, <2>1, <2>2, <2>3, <2>4, <3>1, <3>2
  <2> QED
    BY <2>5, <2>6, <2>7
<1> QED
  BY <1>2, <1>6, <1>7 DEF g, h, n, d, log

LEMMA ResumeKeptByTicks ==
  ASSUME ResumeInv, Ticks, restarts' = restarts
  PROVE  ResumeInv'
<1>1. StreamInv /\ StreamInv' /\ RelayTypes /\ LoggedFirst
  BY StreamTicks DEF ResumeInv, StreamInv
<1>2. /\ UNCHANGED <<fileExists, fileSize, ended, net, subscribe, client, buffer, restarts>>
      /\ game' = IF game = <<>> THEN <<>> ELSE <<Relay!UpdateFileSizeLog(game[1])>>
  BY DEF Ticks
<1> DEFINE g == game[1]
           h == Relay!UpdateFileSizeLog(game[1])
<1>3. game # <<>> => /\ game' # <<>> /\ game'[1] = h /\ h.delay = g.delay /\ g.delay \in Int
                     /\ (g.log = Relay!NoLog /\ ~fileExists) => h = g
                     /\ ~(g.log = Relay!NoLog /\ ~fileExists) => h.log # Relay!NoLog
  <2> SUFFICES ASSUME game # <<>>
               PROVE  /\ game' # <<>> /\ game'[1] = h /\ h.delay = g.delay /\ g.delay \in Int
                      /\ (g.log = Relay!NoLog /\ ~fileExists) => h = g
                      /\ ~(g.log = Relay!NoLog /\ ~fileExists) => h.log # Relay!NoLog
    OBVIOUS
  <2>1. g \in GameInfos /\ SizesOK(g.log) /\ fileSize \in Nat /\ fileExists \in BOOLEAN
    BY <1>1, GameKnown DEF StreamInv, RelayTypes, WithinFile
  <2> HIDE DEF g
  <2>2. /\ h.delay = g.delay /\ g.delay \in Nat \union {-1}
        /\ (g.log = Relay!NoLog /\ ~fileExists) => h = g
        /\ ~(g.log = Relay!NoLog /\ ~fileExists) => h.log # Relay!NoLog
    BY <2>1, LogUpdated, Zenon DEF g
  <2> HIDE DEF h
  <2>3. game' = <<h>>
    BY <1>2 DEF h
  <2> QED
    BY <2>2, <2>3
<1> HIDE DEF h
<1>4. ASSUME NEW c \in Client, user[c].pos = -1 PROVE user'[c].pos = -1
  <2>1. PICK chunks \in Seq(Messages), limit \in Int : Serves(chunks, user[c].pos, user'[c].pos, limit)
    BY DEF Ticks
  <2> QED
    BY <1>4, <2>1 DEF Serves
<1>5. LoggedFirst'
  <2> SUFFICES ASSUME game' # <<>>, game'[1].log = Relay!NoLog, NEW c \in Client PROVE user'[c].pos = -1
    BY DEF LoggedFirst
  <2>1. game # <<>>
    BY <1>2
  <2>2. g.log = Relay!NoLog
    BY <1>3, <2>1
  <2> QED
    BY <1>1, <1>4, <2>1, <2>2 DEF LoggedFirst
<1>6. ASSUME NEW c \in Client PROVE WatcherOK(c)'
  <2> DEFINE q == user[c].pos
             r == user'[c].pos
             b == buffer[c]
             s == Stream(c)
  <2>1. PICK chunks \in Seq(Messages), limit \in Int :
               /\ out'[c] = out[c] \o chunks
               /\ Serves(chunks, user[c].pos, user'[c].pos, limit)
               /\ (user[c].gameId = 1 /\ game' # <<>>) => limit = Escrow(game'[1])
    BY Zenon DEF Ticks
  <2>2. /\ WatcherOK(c) /\ net[c] \in Seq(Messages) /\ out[c] \in Seq(Messages) /\ b \in Seq(Nat)
        /\ q \in Nat \union {-1} /\ r \in Nat \union {-1} /\ Len(b) \in Nat
        /\ user'[c].gameId = user[c].gameId
    BY <1>1, <2>1, ConnectionTypes, LenProperties DEF ResumeInv, UserContexts, Serves, Ticks
  <2>3. s \in Seq(Messages) /\ Stream(c)' = s \o chunks
    <3>1. s = net[c] \o out[c] /\ Stream(c)' = net[c] \o (out[c] \o chunks)
      BY <1>2, <2>1 DEF Stream
    <3>2. s \in Seq(Messages)
      BY <2>2, <3>1, ConcatProperties
    <3>3. ASSUME NEW x \in Seq(Messages), NEW y \in Seq(Messages), NEW z \in Seq(Messages)
          PROVE  x \o (y \o z) = (x \o y) \o z
      BY ConcatAssociative, SMTT(30)
    <3>4. net[c] \o (out[c] \o chunks) = (net[c] \o out[c]) \o chunks
      BY <2>2, <3>3
    <3> QED
      BY <3>1, <3>2, <3>4
  <2>4. ConnectionOK(c)'
    <3> HIDE DEF s
    <3>1. CASE q = -1
      <4>1. r = -1 /\ chunks = <<>>
        BY <2>1, <3>1 DEF Serves
      <4>2. Stream(c)' = s
        BY <2>3, <4>1, ConcatEmptySeq
      <4>3. /\ client[c] # "up" => subscribe[c] = <<>> /\ s = <<>>
            /\ subscribe[c] # <<>> => subscribe[c] = <<Len(b)>> /\ s = <<>>
            /\ \A k \in 1..Len(s) : s[k].status # "OK"
        BY <2>2, <3>1, Zenon DEF WatcherOK, ConnectionOK, s
      <4> QED
        BY <1>2, <4>1, <4>2, <4>3 DEF ConnectionOK
    <3>2. CASE q # -1
      <4>1. q \in Nat /\ user[c].gameId = 1 /\ Continues(s, Len(b), q) /\ client[c] = "up" /\ subscribe[c] = <<>>
        BY <2>2, <3>2 DEF WatcherOK, ConnectionOK, s
      <4>2. r \in Nat /\ q <= r /\ Continues(chunks, q, r)
        BY <2>1, <2>2, <3>2, <4>1 DEF Serves
      <4> DEFINE L == Len(b)
      <4> HIDE DEF q, r, L
      <4>3. Continues(s \o chunks, L, r)
        BY <2>2, <2>3, <4>1, <4>2, ContinuesConcat DEF L
      <4>4. Continues(Stream(c)', Len(buffer'[c]), user'[c].pos)
        BY <1>2, <2>3, <4>3 DEF L, r
      <4>5. (Continues(Stream(c), Len(buffer[c]), user[c].pos))'
        BY <4>4 DEF Continues
      <4>6. user'[c].pos # -1 /\ user'[c].gameId = 1
        BY <2>2, <4>1, <4>2 DEF r
      <4> QED
        BY <1>2, <4>1, <4>5, <4>6 DEF ConnectionOK
    <3> QED
      BY <3>1, <3>2
  <2>5. Fresh(c)'
    BY <1>2, <1>3, <1>4, <2>2 DEF WatcherOK, Fresh
  <2>6. CopyOK(c)'
    BY <1>2, <2>2 DEF WatcherOK, CopyOK
  <2>7. Withheld(c)'
    <3> SUFFICES ASSUME game' # <<>>, game'[1].delay >= 0
                 PROVE  IF game'[1].log # Relay!NoLog /\ Len(game'[1].log) > game'[1].delay
                        THEN Len(b) <= Head(game'[1].log) /\ r <= Head(game'[1].log)
                        ELSE b = <<>> /\ r \in {-1, 0}
      BY <1>2 DEF Withheld
    <3> DEFINE d == g.delay
    <3>1. /\ game # <<>> /\ game'[1] = h /\ h.delay = d /\ d \in Int /\ d >= 0
          /\ (g.log = Relay!NoLog /\ ~fileExists) => h = g
      <4>1. game # <<>>
        BY <1>2
      <4> QED
        BY <1>3, <4>1
    <3>2. IF g.log # Relay!NoLog /\ Len(g.log) > d
          THEN Len(b) <= Head(g.log) /\ q <= Head(g.log)
          ELSE b = <<>> /\ q \in {-1, 0}
      BY <2>2, <3>1 DEF WatcherOK, Withheld
    <3>3. CASE g.log = Relay!NoLog /\ ~fileExists
      <4>1. q = -1
        BY <1>1, <3>1, <3>3 DEF LoggedFirst
      <4>2. r = -1
        BY <1>4, <4>1
      <4>3. h = g
        BY <3>1, <3>3
      <4> QED
        BY <3>1, <3>2, <3>3, <4>2, <4>3
    <3>4. CASE ~(g.log = Relay!NoLog /\ ~fileExists)
      <4>1. /\ h.log # Relay!NoLog
            /\ Len(h.log) > d => Head(h.log) \in Nat /\ h.log # <<>>
            /\ (g.log # Relay!NoLog /\ Len(g.log) > d) => /\ Len(h.log) > d
                                                         /\ Head(g.log) \in Nat
                                                         /\ Head(g.log) <= Head(h.log)
        BY <1>1, <3>1, <3>4, OldestGrows DEF h
      <4>2. q # -1 => limit = Escrow(h)
        <5>1. q # -1 => user[c].gameId = 1
          BY <2>2 DEF WatcherOK, ConnectionOK
        <5> QED
          BY <2>1, <3>1, <5>1
      <4>3. r # q => q # -1 /\ r <= limit /\ r \in Nat
        BY <2>1, <2>2 DEF Serves
      <4>4. CASE Len(h.log) > d
        <5> DEFINE x == Head(h.log)
                   y == Head(g.log)
                   L == Len(b)
        <5>1. x \in Nat /\ h.log # <<>>
          BY <4>1, <4>4
        <5>2. r # q => r <= x
          BY <3>1, <4>1, <4>2, <4>3, <4>4, <5>1 DEF Escrow
        <5>3. CASE g.log # Relay!NoLog /\ Len(g.log) > d
          <6>1. y \in Nat /\ y <= x /\ L <= y /\ q <= y
            BY <3>2, <4>1, <5>3
          <6>2. L \in Nat /\ q \in Int /\ r \in Int
            BY <2>2
          <6> HIDE DEF x, y, L, q, r
          <6>3. L <= x /\ r <= x
            BY <5>1, <5>2, <6>1, <6>2
          <6> QED
            BY <3>1, <4>1, <4>4, <6>3 DEF x, L
        <5>4. CASE ~(g.log # Relay!NoLog /\ Len(g.log) > d)
          <6>1. b = <<>> /\ q \in {-1, 0}
            BY <3>2, <5>4
          <6>2. L = 0 /\ q <= 0 /\ q \in Int /\ r \in Int
            BY <2>2, <6>1
          <6> HIDE DEF x, y, L, q, r
          <6>3. L <= x /\ r <= x
            BY <5>1, <5>2, <6>2
          <6> QED
            BY <3>1, <4>1, <4>4, <6>3 DEF x, L
        <5> QED
          BY <5>3, <5>4
      <4>5. CASE ~(Len(h.log) > d)
        <5>1. b = <<>> /\ q \in {-1, 0}
          BY <3>2, <4>1, <4>5
        <5>2. Escrow(h) = -1
          BY <3>1, <4>5 DEF Escrow
        <5>3. r = q
          <6> HIDE DEF q, r
          <6> QED
            BY <4>2, <4>3, <5>2
        <5> QED
          BY <3>1, <4>5, <5>1, <5>3
      <4> QED
        BY <4>4, <4>5
    <3> QED
      BY <3>3, <3>4
  <2> QED
    BY <2>4, <2>5, <2>6, <2>7 DEF WatcherOK
<1>7. (ended => game = <<>>)'
  BY <1>2 DEF ResumeInv
<1> QED
  BY <1>1, <1>2, <1>5, <1>6, <1>7 DEF ResumeInv

(* The two servers differ in their constants only: what a step of one does *)
(* to the streams, a step of the other does.                               *)
LEMMA SameConstants ==
  /\ Resume!NoLog = Relay!NoLog /\ Resume!NoFile = Relay!NoFile /\ Resume!NewUser = Relay!NewUser
  /\ \A p : Resume!SeekPos(p) = Relay!SeekPos(p)
  /\ \A x : Resume!Reply(x) = Relay!Reply(x)
  /\ \A m : Resume!Received(m) = Relay!Received(m)
<1>1. Resume!NoLog = Relay!NoLog /\ Resume!NoFile = Relay!NoFile /\ Resume!NewUser = Relay!NewUser
  BY DEF Resume!NoLog, Relay!NoLog, Resume!NoFile, Relay!NoFile, Resume!NewUser, Relay!NewUser
<1>2. \A p : Resume!SeekPos(p) = Relay!SeekPos(p)
  BY DEF Resume!SeekPos, Relay!SeekPos, Resume!Min, Relay!Min
<1>3. \A x : Resume!Reply(x) = Relay!Reply(x)
  BY DEF Resume!Reply, Relay!Reply
<1>4. \A m : Resume!Received(m) = Relay!Received(m)
  BY DEF Resume!Received, Relay!Received
<1> QED
  BY <1>1, <1>2, <1>3, <1>4

LEMMA ResumeStep ==
  ASSUME ResumeInv, Resume!Next
  PROVE  ResumeInv'
<1>1. StreamInv /\ RelayTypes /\ fileSize \in Nat /\ fileExists \in BOOLEAN /\ restarts = 0
  BY DEF ResumeInv, StreamInv, RelayTypes
<1>2. CASE Resume!FileWritten
  <2>1. UNCHANGED <<game, ended, user, out, net, subscribe, client, buffer, told, restarts>>
    BY <1>2 DEF Resume!FileWritten, Resume!serverVars, Resume!netVars, Resume!clientVars
  <2>2. fileSize' \in {fileSize, fileSize + 1} /\ fileExists' \in BOOLEAN
    BY <1>1, <1>2, Zenon DEF Resume!FileWritten
  <2>3. fileSize' \in Nat /\ fileSize' >= fileSize
    BY <1>1, <2>2
  <2>4. Grows
    BY <2>1, <2>2, <2>3 DEF Grows
  <2> QED
    BY <2>1, <2>4, ResumeGrows
<1>3. ASSUME NEW d \in ResumeDelays, Resume!SetGameInfo(d) PROVE ResumeInv'
  <2>1. d \in Nat \union {-1}
    BY ResumeConstants
  <2>2. Relay!SetGameInfo(d)
    BY <1>3, SameConstants DEF Resume!SetGameInfo, Relay!SetGameInfo, Resume!fileVars, Relay!fileVars,
       Resume!netVars, Relay!netVars, Resume!clientVars, Relay!clientVars
  <2>3. game # <<>> => d <= game[1].delay
    BY <1>3 DEF Resume!SetGameInfo
  <2> QED
    BY <2>1, <2>2, <2>3, ResumeAnnounced
<1>4. CASE Resume!SetGameEnded
  <2>1. Relay!SetGameEnded
    BY <1>4 DEF Resume!SetGameEnded, Relay!SetGameEnded, Resume!fileVars, Relay!fileVars,
       Resume!netVars, Relay!netVars, Resume!clientVars, Relay!clientVars
  <2> QED
    BY <2>1, ResumeEnded
<1>5. CASE Resume!TimerEvent
  <2>1. Ticks /\ restarts' = restarts
    BY <1>1, <1>5, ResumeTicks DEF Resume!TimerEvent
  <2> QED
    BY <2>1, ResumeKeptByTicks
<1>6. CASE Resume!Restart
  <2>1. restarts < 0
    BY <1>6 DEF Resume!Restart
  <2> QED
    BY <1>1, <2>1
<1>7. ASSUME NEW c \in Client, Resume!OnSubscribe(c) PROVE ResumeInv'
  <2>1. Relay!OnSubscribe(c)
    BY <1>7, SameConstants, Zenon DEF Resume!OnSubscribe, Relay!OnSubscribe, Resume!KnownGame, Relay!KnownGame,
       Resume!FoundFile, Relay!FoundFile, Resume!fileVars, Relay!fileVars, Resume!clientVars, Relay!clientVars
  <2>2. ~(Playable /\ game[1].log = Relay!NoLog)
    <3>1. game # <<>> => game[1].delay \in Int
      BY <1>1, GameKnown
    <3>2. ~(game # <<>> /\ ~(game[1].delay < 0) /\ fileExists /\ game[1].log = Relay!NoLog)
      BY <1>7, SameConstants DEF Resume!OnSubscribe, Resume!KnownGame, Resume!FoundFile
    <3> QED
      BY <3>1, <3>2 DEF Playable
  <2> QED
    BY <2>1, <2>2, ResumeSubscribed
<1>8. ASSUME NEW c \in Client, Resume!Flush(c) PROVE ResumeInv'
  <2>1. Relay!Flush(c)
    BY <1>8 DEF Resume!Flush, Relay!Flush, Resume!fileVars, Relay!fileVars,
       Resume!serverVars, Relay!serverVars, Resume!clientVars, Relay!clientVars
  <2> QED
    BY <2>1, ResumeFlushed
<1>9. ASSUME NEW c \in Client, Resume!Connect(c) PROVE ResumeInv'
  <2>1. Relay!Connect(c)
    BY <1>9, SameConstants DEF Resume!Connect, Relay!Connect, Resume!Accept, Relay!Accept,
       Resume!Subscription, Relay!Subscription, Resume!fileVars, Relay!fileVars
  <2> QED
    BY <2>1, ResumeConnects
<1>10. ASSUME NEW c \in Client, Resume!Receive(c) PROVE ResumeInv'
  <2>1. Relay!Receive(c)
    BY <1>10, SameConstants, Zenon DEF Resume!Receive, Relay!Receive, Resume!fileVars, Relay!fileVars,
       Resume!serverVars, Relay!serverVars
  <2> QED
    BY <2>1, ResumeReceived
<1>11. ASSUME NEW c \in Client, Resume!Drop(c) \/ Resume!Quit(c) PROVE ResumeInv'
  <2>1. Resume!Cut(c) => Relay!Cut(c)
    BY SameConstants DEF Resume!Cut, Relay!Cut
  <2>2. CutOff(c) /\ restarts' = restarts
    <3>1. CASE Resume!Drop(c)
      BY <2>1, <3>1 DEF Resume!Drop, CutOff, Resume!fileVars
    <3>2. CASE Resume!Quit(c)
      BY <2>1, <3>2 DEF Resume!Quit, CutOff, Resume!fileVars
    <3> QED
      BY <1>11, <3>1, <3>2
  <2> QED
    BY <2>2, ResumeCutOff
<1> QED
  BY <1>2, <1>3, <1>4, <1>5, <1>6, <1>7, <1>8, <1>9, <1>10, <1>11 DEF Resume!Next

LEMMA ResumeInitially ==
  ASSUME Relay!Init
  PROVE  ResumeInv
<1>1. /\ StreamInv /\ fileSize = 0 /\ game = <<>> /\ restarts = 0 /\ ended = FALSE
      /\ user = [c \in Client |-> Relay!NewUser] /\ out = [c \in Client |-> <<>>]
      /\ net = [c \in Client |-> <<>>] /\ subscribe = [c \in Client |-> <<>>]
      /\ buffer = [c \in Client |-> <<>>]
  BY StreamInitially, Zenon DEF Relay!Init
<1>2. Len(<<>>) = 0 /\ <<>> \o <<>> = <<>>
  OBVIOUS
<1>3. ASSUME NEW c \in Client PROVE WatcherOK(c)
  <2>1. /\ user[c].pos = -1 /\ out[c] = <<>> /\ net[c] = <<>> /\ subscribe[c] = <<>> /\ buffer[c] = <<>>
    BY <1>1 DEF Relay!NewUser, Relay!NoFile
  <2>2. Stream(c) = <<>>
    BY <1>2, <2>1 DEF Stream
  <2>3. ConnectionOK(c)
    BY <1>2, <2>1, <2>2 DEF ConnectionOK
  <2>4. Withheld(c) /\ Fresh(c) /\ CopyOK(c)
    BY <1>1, <1>2, <2>1 DEF Withheld, Fresh, CopyOK
  <2> QED
    BY <2>3, <2>4 DEF WatcherOK
<1> QED
  BY <1>1, <1>3 DEF ResumeInv, LoggedFirst

LEMMA ResumeAlways == Spec => [](part = "resume" => ResumeInv)
<1>1. Init => (part = "resume" => ResumeInv)
  BY ResumeInitially DEF Init
<1>2. (part = "resume" => ResumeInv) /\ [Next]_vars => (part = "resume" => ResumeInv)'
  <2> SUFFICES ASSUME part = "resume" => ResumeInv, [Next]_vars, part' = "resume"
               PROVE  ResumeInv'
    OBVIOUS
  <2>1. part = "resume" /\ (Resume!Next \/ UNCHANGED relayVars)
    BY DEF Next, RelayNext, CompilerNext, DemoNext, UnitsNext, vars
  <2>2. CASE Resume!Next
    BY <2>1, <2>2, ResumeStep
  <2>3. CASE UNCHANGED relayVars
    <3>1. UNCHANGED <<fileExists, fileSize, game, ended, user, out, net, subscribe, client, buffer,
                      told, restarts>>
      BY <2>3 DEF relayVars
    <3>2. Grows
      <4>1. fileSize \in Nat /\ fileExists \in BOOLEAN
        BY <2>1 DEF ResumeInv, StreamInv, RelayTypes
      <4> QED
        BY <3>1, <4>1 DEF Grows
    <3> QED
      BY <2>1, <3>1, <3>2, ResumeGrows
  <2> QED
    BY <2>1, <2>2, <2>3
<1> QED
  BY <1>1, <1>2, PTL DEF Spec

(* The size log is an unbroken run of the latest file sizes, and a watcher *)
(* that lost its connection any number of times has a copy of the file     *)
(* without gap or repetition.                                              *)
THEOREM RelayIsRight == Spec => []RelaySound
<1>1. (part = "relay" => RelayInv) /\ (part = "resume" => ResumeInv) => RelaySound
  <2> SUFFICES ASSUME part = "relay" => RelayInv, part = "resume" => ResumeInv
               PROVE  RelaySound
    OBVIOUS
  <2>1. part = "relay" => Relay!TypeOK /\ Relay!LogIsRecent
    BY RelayIsSound
  <2>2. ASSUME part = "resume" PROVE Resume!BufferIsPrefix
    <3>1. ASSUME NEW c \in Client
          PROVE  /\ Len(buffer[c]) <= fileSize
                 /\ \A k \in DOMAIN buffer[c] : buffer[c][k] = k - 1
      <4>1. CopyOK(c) /\ buffer[c] \in Seq(Nat)
        BY <2>2, ConnectionTypes DEF ResumeInv, WatcherOK
      <4>2. DOMAIN buffer[c] = 1..Len(buffer[c])
        BY <4>1, LenProperties
      <4> QED
        BY <4>1, <4>2 DEF CopyOK
    <3>2. Resume!BufferIsPrefix <=>
            \A c \in Client : /\ Len(buffer[c]) <= fileSize
                              /\ \A k \in DOMAIN buffer[c] : buffer[c][k] = k - 1
      BY Zenon DEF Resume!BufferIsPrefix
    <3> QED
      BY <3>1, <3>2, Zenon
  <2> QED
    BY <2>1, <2>2 DEF RelaySound
<1> QED
  BY <1>1, RelayAlways, ResumeAlways, PTL
=============================================================================
