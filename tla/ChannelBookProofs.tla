--------------------------- MODULE ChannelBookProofs ---------------------------
(***************************************************************************)
(* What ChannelBook keeps true, for any tasklets and channels, and that    *)
(* the bookkeeping of ChannelOps, which goes by the direction a tasklet    *)
(* notes on itself and by the balance, does what ChannelBook says.         *)
(***************************************************************************)
EXTENDS ChannelBook, TLAPS

(* s has nobody twice. *)
Once(s) == \A i, j \in DOMAIN s : s[i] = s[j] => i = j

(* No tasklet has two places on a channel. *)
ListsOnce == \A c \in Channels : Once(ch[c].send) /\ Once(ch[c].recv)

(* The inductive invariant.  The balance is right only as long as a tasklet *)
(* that leaves has one place to leave, so the places belong to it.          *)
Kept == TypeOK /\ ListsOnce /\ WaitsOnOne /\ BalanceOK /\ OneSide /\ ClosedDrained

--------------------------------------------------------------------------------
(* Lemmas about lists. *)

LEMMA UnlinkedKeeps ==
    ASSUME NEW T, NEW s \in Seq(T), NEW t, Once(s)
    PROVE  /\ Unlinked(s, t) \in Seq(T)
           /\ Once(Unlinked(s, t))
           /\ Len(Unlinked(s, t)) = IF In(t, s) THEN Len(s) - 1 ELSE Len(s)
           /\ \A u : In(u, Unlinked(s, t)) <=> In(u, s) /\ u # t
<1>1. CASE ~In(t, s)
  <2>1. Unlinked(s, t) = s
    BY <1>1 DEF Unlinked, In
  <2>. QED
    BY <1>1, <2>1
<1>2. CASE In(t, s)
  <2>. DEFINE k == CHOOSE i \in DOMAIN s : s[i] = t
              r == [i \in 1..(Len(s) - 1) |-> IF i < k THEN s[i] ELSE s[i+1]]
  <2>1. k \in 1..Len(s) /\ s[k] = t
    BY <1>2 DEF In
  <2>2. Unlinked(s, t) = r
    BY <1>2 DEF Unlinked, In
  <2>3. Len(s) \in Nat /\ Len(s) - 1 \in Nat
    BY <2>1
  <2>. HIDE DEF k
  <2>4. \A i \in 1..(Len(s) - 1) : r[i] \in T
    BY <2>1, <2>3
  <2>5. r \in Seq(T) /\ Len(r) = Len(s) - 1 /\ DOMAIN r = 1..(Len(s) - 1)
    BY <2>3, <2>4
  <2>6. Once(r)
    <3>. SUFFICES ASSUME NEW i \in 1..(Len(s) - 1), NEW j \in 1..(Len(s) - 1), r[i] = r[j]
                  PROVE  i = j
      BY <2>5 DEF Once
    <3>. DEFINE at(n) == IF n < k THEN n ELSE n + 1
    <3>1. at(i) \in DOMAIN s /\ at(j) \in DOMAIN s /\ s[at(i)] = s[at(j)]
      BY <2>1, <2>3
    <3>2. at(i) = at(j)
      BY <3>1 DEF Once
    <3>. QED
      BY <2>1, <3>2
  <2>7. ASSUME NEW u, In(u, r) PROVE In(u, s) /\ u # t
    <3>1. PICK i \in 1..(Len(s) - 1) : r[i] = u
      BY <2>5, <2>7 DEF In
    <3>. DEFINE n == IF i < k THEN i ELSE i + 1
    <3>2. n \in DOMAIN s /\ s[n] = u /\ n # k
      BY <2>1, <2>3, <3>1
    <3>. HIDE DEF n
    <3>3. u # t
      BY <2>1, <3>2 DEF Once
    <3>. QED
      BY <3>2, <3>3 DEF In
  <2>8. ASSUME NEW u, In(u, s), u # t PROVE In(u, r)
    <3>1. PICK i \in 1..Len(s) : s[i] = u
      BY <2>8 DEF In
    <3>. DEFINE n == IF i < k THEN i ELSE i - 1
    <3>2. n \in 1..(Len(s) - 1) /\ r[n] = u
      BY <2>1, <2>3, <2>8, <3>1
    <3>. QED
      BY <2>5, <3>2 DEF In
  <2>. HIDE DEF r
  <2>. QED
    BY <1>2, <2>2, <2>5, <2>6, <2>7, <2>8
<1>. QED
  BY <1>1, <1>2

LEMMA EmptyList ==
    ASSUME NEW t
    PROVE  ~In(t, <<>>) /\ Unlinked(<<>>, t) = <<>> /\ Once(<<>>)
BY DEF In, Unlinked, Once

LEMMA AppendKeeps ==
    ASSUME NEW T, NEW s \in Seq(T), NEW t \in T, Once(s), ~In(t, s)
    PROVE  /\ Append(s, t) \in Seq(T) /\ Len(Append(s, t)) = Len(s) + 1
           /\ Once(Append(s, t))
           /\ \A u : In(u, Append(s, t)) <=> In(u, s) \/ u = t
<1>. DEFINE a == Append(s, t)
<1>1. /\ a \in Seq(T) /\ Len(a) = Len(s) + 1 /\ DOMAIN a = 1..(Len(s) + 1)
      /\ \A i \in 1..Len(s) : a[i] = s[i]
      /\ a[Len(s) + 1] = t
      /\ Len(s) \in Nat /\ DOMAIN s = 1..Len(s)
  OBVIOUS
<1>. HIDE DEF a
<1>2. Once(a)
  <2>. SUFFICES ASSUME NEW i \in DOMAIN a, NEW j \in DOMAIN a, a[i] = a[j]
                PROVE  i = j
    BY DEF Once
  <2>1. CASE i \in 1..Len(s) /\ j \in 1..Len(s)
    BY <1>1, <2>1 DEF Once
  <2>2. CASE i = Len(s) + 1 /\ j \in 1..Len(s)
    BY <1>1, <2>2 DEF In
  <2>3. CASE j = Len(s) + 1 /\ i \in 1..Len(s)
    BY <1>1, <2>3 DEF In
  <2>. QED
    BY <1>1, <2>1, <2>2, <2>3
<1>3. ASSUME NEW u, In(u, a) PROVE In(u, s) \/ u = t
  <2>1. PICK i \in DOMAIN a : a[i] = u
    BY <1>3 DEF In
  <2>. QED
    BY <1>1, <2>1 DEF In
<1>4. ASSUME NEW u, In(u, s) \/ u = t PROVE In(u, a)
  <2>1. CASE u = t
    BY <1>1, <2>1 DEF In
  <2>2. ASSUME NEW i \in DOMAIN s, s[i] = u PROVE In(u, a)
    BY <1>1, <2>2 DEF In
  <2>. QED
    BY <1>4, <2>1, <2>2 DEF In
<1>. QED
  BY <1>1, <1>2, <1>3, <1>4 DEF a

--------------------------------------------------------------------------------
(* The operations on one channel.  Orderly is the invariant of one channel. *)

Orderly(b) ==
    /\ b \in ChannelType(Tasklets)
    /\ Once(b.send) /\ Once(b.recv)
    /\ b.balance = Len(b.send) - Len(b.recv)
    /\ b.send = <<>> \/ b.recv = <<>>
    /\ b.closed => b.send = <<>> /\ b.recv = <<>>

Waits(t, b) == In(t, b.send) \/ In(t, b.recv)

LEMMA KeptByChannel ==
    Kept <=> /\ ch = [c \in Channels |-> ch[c]]
             /\ \A c \in Channels : Orderly(ch[c])
             /\ WaitsOnOne
<1>1. ASSUME Kept
      PROVE  ch = [c \in Channels |-> ch[c]] /\ \A c \in Channels : Orderly(ch[c])
  BY <1>1 DEF Kept, TypeOK, ListsOnce, BalanceOK, OneSide, ClosedDrained, Orderly
<1>2. ASSUME ch = [c \in Channels |-> ch[c]], \A c \in Channels : Orderly(ch[c])
      PROVE  TypeOK /\ ListsOnce /\ BalanceOK /\ OneSide /\ ClosedDrained
  BY <1>2 DEF TypeOK, ListsOnce, BalanceOK, OneSide, ClosedDrained, Orderly
<1>. QED
  BY <1>1, <1>2 DEF Kept

LEMMA InitChannelOrderly == Orderly(InitChannel) /\ \A t : ~Waits(t, InitChannel)
BY EmptyList DEF Orderly, InitChannel, ChannelType, Direction, Waits

LEMMA LeftOrderly ==
    ASSUME NEW b, Orderly(b), NEW t, Waits(t, b)
    PROVE  Orderly(Left(b, t)) /\ \A u : Waits(u, Left(b, t)) => Waits(u, b)
<1>. DEFINE r == Left(b, t)
<1>1. /\ b.send \in Seq(Tasklets) /\ b.recv \in Seq(Tasklets)
      /\ Once(b.send) /\ Once(b.recv) /\ b.balance \in Int
  BY DEF Orderly, ChannelType
<1>2. /\ r.send = Unlinked(b.send, t) /\ r.recv = Unlinked(b.recv, t)
      /\ r.balance = IF In(t, b.send) THEN b.balance - 1 ELSE b.balance + 1
      /\ r.closed = b.closed
  BY DEF Left, Orderly, ChannelType
<1>3. ~b.closed
  BY EmptyList DEF Orderly, Waits
<1>4. /\ Unlinked(b.send, t) \in Seq(Tasklets) /\ Once(Unlinked(b.send, t))
      /\ Len(Unlinked(b.send, t)) = IF In(t, b.send) THEN Len(b.send) - 1 ELSE Len(b.send)
      /\ \A u : In(u, Unlinked(b.send, t)) => In(u, b.send)
  BY <1>1, UnlinkedKeeps
<1>5. /\ Unlinked(b.recv, t) \in Seq(Tasklets) /\ Once(Unlinked(b.recv, t))
      /\ Len(Unlinked(b.recv, t)) = IF In(t, b.recv) THEN Len(b.recv) - 1 ELSE Len(b.recv)
      /\ \A u : In(u, Unlinked(b.recv, t)) => In(u, b.recv)
  BY <1>1, UnlinkedKeeps
<1>6. r.send = <<>> \/ r.recv = <<>>
  BY <1>2, EmptyList DEF Orderly
<1>7. r \in ChannelType(Tasklets)
  <2>. DEFINE AsLeft(n) == [b EXCEPT !.send = Unlinked(@, t), !.recv = Unlinked(@, t), !.balance = n]
  <2>1. r = AsLeft(b.balance - 1) \/ r = AsLeft(b.balance + 1)
    BY Zenon DEF Left
  <2>2. ASSUME NEW n \in Int PROVE AsLeft(n) \in ChannelType(Tasklets)
    BY <1>4, <1>5 DEF Orderly, ChannelType
  <2>. HIDE DEF r, AsLeft
  <2>. QED
    BY <1>1, <2>1, <2>2
<1>8. r.balance = Len(r.send) - Len(r.recv)
  <2>1. b.balance = Len(b.send) - Len(b.recv) /\ (b.send = <<>> \/ b.recv = <<>>)
    BY DEF Orderly
  <2>2. Len(b.send) \in Nat /\ Len(b.recv) \in Nat
    BY <1>1
  <2>3. CASE In(t, b.send)
    <3>1. ~In(t, b.recv)
      BY <2>1, <2>3, EmptyList
    <3>2. /\ r.balance = b.balance - 1
          /\ Len(r.send) = Len(b.send) - 1 /\ Len(r.recv) = Len(b.recv)
      BY <1>2, <1>4, <1>5, <2>3, <3>1
    <3>. QED
      BY <2>1, <2>2, <3>2
  <2>4. CASE ~In(t, b.send)
    <3>1. In(t, b.recv)
      BY <2>4 DEF Waits
    <3>2. /\ r.balance = b.balance + 1
          /\ Len(r.send) = Len(b.send) /\ Len(r.recv) = Len(b.recv) - 1
      BY <1>2, <1>4, <1>5, <2>4, <3>1
    <3>. QED
      BY <2>1, <2>2, <3>2
  <2>. QED
    BY <2>3, <2>4
<1>. HIDE DEF r
<1>9. Orderly(r)
  BY <1>2, <1>3, <1>4, <1>5, <1>6, <1>7, <1>8 DEF Orderly
<1>10. \A u : Waits(u, r) => Waits(u, b)
  BY <1>2, <1>4, <1>5 DEF Waits
<1>. QED
  BY <1>9, <1>10 DEF r
LEMMA SettledOrderly ==
    ASSUME NEW b, Orderly(b)
    PROVE  /\ Orderly(Settled(b)) /\ \A u : Waits(u, Settled(b)) => Waits(u, b)
           /\ Settled(b).closing = b.closing
<1>1. Settled(b) \in ChannelType(Tasklets)
  BY DEF Settled, Drained, Orderly, ChannelType
<1>2. /\ Settled(b).send = b.send /\ Settled(b).recv = b.recv
      /\ Settled(b).balance = b.balance /\ Settled(b).closing = b.closing
      /\ Settled(b).closed => b.closed \/ Drained(b)
  BY DEF Settled, Orderly, ChannelType
<1>. QED
  BY <1>1, <1>2 DEF Orderly, Waits, Drained

LEMMA AddedHasType ==
    ASSUME NEW b \in ChannelType(Tasklets), NEW s \in Seq(Tasklets), NEW n \in Int
    PROVE  /\ [b EXCEPT !.send = s, !.balance = n] \in ChannelType(Tasklets)
           /\ [b EXCEPT !.recv = s, !.balance = n] \in ChannelType(Tasklets)
BY DEF ChannelType

LEMMA AddedOrderly ==
    ASSUME NEW b, Orderly(b), NEW t \in Tasklets, ~Waits(t, b), ~b.closed
    PROVE  /\ b.recv = <<>> =>
                LET r == AddTaskletToWaitingToSend(b, t)
                IN  Orderly(r) /\ \A u : Waits(u, r) => Waits(u, b) \/ u = t
           /\ b.send = <<>> =>
                LET r == AddTaskletToWaitingToReceive(b, t)
                IN  Orderly(r) /\ \A u : Waits(u, r) => Waits(u, b) \/ u = t
<1>1. /\ b.send \in Seq(Tasklets) /\ b.recv \in Seq(Tasklets) /\ b.balance \in Int
      /\ Once(b.send) /\ Once(b.recv) /\ b.balance = Len(b.send) - Len(b.recv)
      /\ Len(b.send) \in Nat /\ Len(b.recv) \in Nat
  BY DEF Orderly, ChannelType
<1>2. ASSUME b.recv = <<>>
      PROVE  LET r == AddTaskletToWaitingToSend(b, t)
             IN  Orderly(r) /\ \A u : Waits(u, r) => Waits(u, b) \/ u = t
  <2>. DEFINE r == AddTaskletToWaitingToSend(b, t)
  <2>1. /\ r.send = Append(b.send, t) /\ r.recv = b.recv
        /\ r.balance = b.balance + 1 /\ r.closed = b.closed
    BY DEF AddTaskletToWaitingToSend, Orderly, ChannelType
  <2>2. /\ Append(b.send, t) \in Seq(Tasklets) /\ Len(Append(b.send, t)) = Len(b.send) + 1
        /\ Once(Append(b.send, t))
        /\ \A u : In(u, Append(b.send, t)) => In(u, b.send) \/ u = t
    BY <1>1, AppendKeeps DEF Waits
  <2>3. r \in ChannelType(Tasklets)
    <3>1. b \in ChannelType(Tasklets) /\ b.balance + 1 \in Int
      BY <1>1 DEF Orderly
    <3>. QED
      BY <2>2, <3>1, AddedHasType DEF AddTaskletToWaitingToSend
  <2>4. r.balance = Len(r.send) - Len(r.recv)
    BY <1>1, <2>1, <2>2
  <2>. HIDE DEF r
  <2>5. Orderly(r)
    BY <1>1, <1>2, <2>1, <2>2, <2>3, <2>4 DEF Orderly
  <2>6. \A u : Waits(u, r) => Waits(u, b) \/ u = t
    BY <2>1, <2>2 DEF Waits
  <2>. QED
    BY <2>5, <2>6 DEF r
<1>3. ASSUME b.send = <<>>
      PROVE  LET r == AddTaskletToWaitingToReceive(b, t)
             IN  Orderly(r) /\ \A u : Waits(u, r) => Waits(u, b) \/ u = t
  <2>. DEFINE r == AddTaskletToWaitingToReceive(b, t)
  <2>1. /\ r.recv = Append(b.recv, t) /\ r.send = b.send
        /\ r.balance = b.balance - 1 /\ r.closed = b.closed
    BY DEF AddTaskletToWaitingToReceive, Orderly, ChannelType
  <2>2. /\ Append(b.recv, t) \in Seq(Tasklets) /\ Len(Append(b.recv, t)) = Len(b.recv) + 1
        /\ Once(Append(b.recv, t))
        /\ \A u : In(u, Append(b.recv, t)) => In(u, b.recv) \/ u = t
    BY <1>1, AppendKeeps DEF Waits
  <2>3. r \in ChannelType(Tasklets)
    <3>1. b \in ChannelType(Tasklets) /\ b.balance - 1 \in Int
      BY <1>1 DEF Orderly
    <3>. QED
      BY <2>2, <3>1, AddedHasType DEF AddTaskletToWaitingToReceive
  <2>4. r.balance = Len(r.send) - Len(r.recv)
    BY <1>1, <2>1, <2>2
  <2>. HIDE DEF r
  <2>5. Orderly(r)
    BY <1>1, <1>3, <2>1, <2>2, <2>3, <2>4 DEF Orderly
  <2>6. \A u : Waits(u, r) => Waits(u, b) \/ u = t
    BY <2>1, <2>2 DEF Waits
  <2>. QED
    BY <2>5, <2>6 DEF r
<1>. QED
  BY <1>2, <1>3

(* A step that changes one channel, and keeps it orderly, may add one       *)
(* tasklet that waits nowhere yet.                                          *)
LEMMA OneChannelChanges ==
    ASSUME Kept, NEW c \in Channels, NEW r, Orderly(r),
           ch' = [ch EXCEPT ![c] = r],
           \/ \A u : Waits(u, r) => Waits(u, ch[c])
           \/ \E t \in Tasklets : /\ \A d \in Channels : ~Listed(d, t)
                                  /\ \A u : Waits(u, r) => Waits(u, ch[c]) \/ u = t
    PROVE  Kept'
<1>1. /\ ch = [d \in Channels |-> ch[d]] /\ WaitsOnOne
      /\ \A d \in Channels : Orderly(ch[d])
  BY KeptByChannel
<1>2. /\ ch' = [d \in Channels |-> ch'[d]]
      /\ ch'[c] = r /\ \A d \in Channels : d # c => ch'[d] = ch[d]
  BY <1>1
<1>3. \A d \in Channels : Orderly(ch'[d])
  BY <1>1, <1>2
<1>4. WaitsOnOne'
  <2>. SUFFICES ASSUME NEW u \in Tasklets, NEW d \in Channels, NEW e \in Channels,
                       Waits(u, ch'[d]), Waits(u, ch'[e])
                PROVE  d = e
    BY DEF WaitsOnOne, Listed, Waits
  <2>1. \A x, y \in Channels : Waits(u, ch[x]) /\ Waits(u, ch[y]) => x = y
    BY <1>1 DEF WaitsOnOne, Listed, Waits
  <2>2. CASE \A x \in Channels : Waits(u, ch'[x]) => Waits(u, ch[x])
    BY <2>1, <2>2
  <2>3. CASE \A x \in Channels : ~Waits(u, ch[x])
    BY <1>2, <2>3
  <2>4. CASE \A v : Waits(v, r) => Waits(v, ch[c])
    BY <1>2, <2>2, <2>4
  <2>5. ASSUME NEW t \in Tasklets, \A x \in Channels : ~Listed(x, t),
               \A v : Waits(v, r) => Waits(v, ch[c]) \/ v = t
        PROVE  d = e
    <3>1. CASE u = t
      BY <2>3, <2>5, <3>1 DEF Listed, Waits
    <3>2. CASE u # t
      BY <1>2, <2>2, <2>5, <3>2
    <3>. QED
      BY <3>1, <3>2
  <2>. QED
    BY <2>4, <2>5
<1>. QED
  BY <1>2, <1>3, <1>4 DEF Kept, TypeOK, ListsOnce, BalanceOK, OneSide, ClosedDrained, Orderly
--------------------------------------------------------------------------------
LEMMA InitKeeps == Init => Kept
<1>. SUFFICES ASSUME Init PROVE Kept
  OBVIOUS
<1>1. ch = [c \in Channels |-> ch[c]] /\ \A c \in Channels : ch[c] = InitChannel
  BY DEF Init
<1>2. WaitsOnOne
  BY <1>1, InitChannelOrderly DEF WaitsOnOne, Listed, Waits
<1>. QED
  BY <1>1, <1>2, InitChannelOrderly, KeptByChannel

LEMMA NextKeeps == Kept /\ [Next]_ch => Kept'
<1>. SUFFICES ASSUME Kept, [Next]_ch PROVE Kept'
  OBVIOUS
<1>1. CASE UNCHANGED ch
  BY <1>1 DEF Kept, TypeOK, ListsOnce, WaitsOnOne, Listed, BalanceOK, OneSide, ClosedDrained
<1>2. ASSUME NEW c \in Channels, NEW t \in Tasklets, WaitToSend(c, t) PROVE Kept'
  <2>1. Orderly(ch[c]) /\ ~Waits(t, ch[c]) /\ ~ch[c].closed /\ ch[c].recv = <<>>
    BY <1>2, KeptByChannel DEF WaitToSend, IsOpen, Listed, Waits
  <2>2. ch' = [ch EXCEPT ![c] = AddTaskletToWaitingToSend(ch[c], t)]
    BY <1>2 DEF WaitToSend
  <2>3. \A d \in Channels : ~Listed(d, t)
    BY <1>2 DEF WaitToSend
  <2>. QED
    BY <2>1, <2>2, <2>3, AddedOrderly, OneChannelChanges
<1>3. ASSUME NEW c \in Channels, NEW t \in Tasklets, WaitToReceive(c, t) PROVE Kept'
  <2>1. Orderly(ch[c]) /\ ~Waits(t, ch[c]) /\ ~ch[c].closed /\ ch[c].send = <<>>
    BY <1>3, KeptByChannel DEF WaitToReceive, IsOpen, Listed, Waits
  <2>2. ch' = [ch EXCEPT ![c] = AddTaskletToWaitingToReceive(ch[c], t)]
    BY <1>3 DEF WaitToReceive
  <2>3. \A d \in Channels : ~Listed(d, t)
    BY <1>3 DEF WaitToReceive
  <2>. QED
    BY <2>1, <2>2, <2>3, AddedOrderly, OneChannelChanges
<1>4. ASSUME NEW c \in Channels, NEW t \in Tasklets, Leave(c, t) PROVE Kept'
  <2>1. Orderly(ch[c]) /\ Waits(t, ch[c])
    BY <1>4, KeptByChannel DEF Leave, Listed, Waits
  <2>2. /\ Orderly(Left(ch[c], t))
        /\ \A u : Waits(u, Left(ch[c], t)) => Waits(u, ch[c])
    BY <2>1, LeftOrderly
  <2>3. /\ Orderly(Settled(Left(ch[c], t)))
        /\ \A u : Waits(u, Settled(Left(ch[c], t))) => Waits(u, ch[c])
    BY <2>2, SettledOrderly
  <2>4. CASE ch' = [ch EXCEPT ![c] = Left(ch[c], t)]
    BY <2>2, <2>4, OneChannelChanges
  <2>5. CASE ch' = [ch EXCEPT ![c] = Settled(Left(ch[c], t))]
    BY <2>3, <2>5, OneChannelChanges
  <2>. QED
    BY <1>4, <2>4, <2>5 DEF Leave
<1>5. ASSUME NEW c \in Channels, Settle(c) PROVE Kept'
  <2>1. Orderly(ch[c]) /\ ch' = [ch EXCEPT ![c] = Settled(ch[c])]
    BY <1>5, KeptByChannel DEF Settle
  <2>. QED
    BY <2>1, SettledOrderly, OneChannelChanges
<1>6. ASSUME NEW c \in Channels, Close(c) PROVE Kept'
  <2>. DEFINE b == [ch[c] EXCEPT !.closing = TRUE]
  <2>1. Orderly(ch[c]) /\ ch' = [ch EXCEPT ![c] = Settled(b)]
    BY <1>6, KeptByChannel DEF Close
  <2>2. Orderly(b) /\ \A u : Waits(u, b) => Waits(u, ch[c])
    BY <2>1 DEF Orderly, ChannelType, Waits
  <2>. QED
    BY <2>1, <2>2, SettledOrderly, OneChannelChanges
<1>7. ASSUME NEW c \in Channels, Open(c) PROVE Kept'
  <2>. DEFINE b == [ch[c] EXCEPT !.closing = FALSE, !.closed = FALSE]
  <2>1. Orderly(ch[c]) /\ ch' = [ch EXCEPT ![c] = b]
    BY <1>7, KeptByChannel DEF Open
  <2>2. Orderly(b) /\ \A u : Waits(u, b) => Waits(u, ch[c])
    BY <2>1 DEF Orderly, ChannelType, Waits
  <2>. QED
    BY <2>1, <2>2, OneChannelChanges
<1>8. ASSUME NEW c \in Channels, NEW p \in Direction, Prefer(c, p) PROVE Kept'
  <2>. DEFINE b == [ch[c] EXCEPT !.preference = p]
  <2>1. Orderly(ch[c]) /\ ch' = [ch EXCEPT ![c] = b]
    BY <1>8, KeptByChannel DEF Prefer
  <2>2. Orderly(b) /\ \A u : Waits(u, b) => Waits(u, ch[c])
    BY <2>1 DEF Orderly, ChannelType, Waits
  <2>. QED
    BY <2>1, <2>2, OneChannelChanges
<1>. QED
  BY <1>1, <1>2, <1>3, <1>4, <1>5, <1>6, <1>7, <1>8 DEF Next

THEOREM BookIsKept == Spec => []Kept
BY InitKeeps, NextKeeps, PTL DEF Spec

(* The balance is right however many tasklets wait, on however many        *)
(* channels, and in whatever order they are woken, killed or given up.      *)
THEOREM BalanceIsRight == Spec => []BalanceOK
BY BookIsKept, PTL DEF Kept

(* A sender and a receiver never wait for each other, and a tasklet never   *)
(* waits in two places.                                                     *)
THEOREM WaitsAreExclusive == Spec => [](OneSide /\ WaitsOnOne /\ ListsOnce)
BY BookIsKept, PTL DEF Kept

(* A channel that counts as closed has nobody waiting, and nobody can begin *)
(* to wait on it, until it is opened again.                                 *)
THEOREM ClosedIsDrained == Spec => []ClosedDrained
BY BookIsKept, PTL DEF Kept

--------------------------------------------------------------------------------
(* RemoveTaskletFromBlocked, which looks at the direction noted on the      *)
(* tasklet and not at the lists, does what the book does as long as that    *)
(* is the direction of the list it waits in; and for a tasklet that does    *)
(* not wait and notes no direction it does nothing, so calling it twice     *)
(* does no harm (Channel.cpp:334 after a kill).                             *)
THEOREM CountedByDirection ==
    ASSUME NEW b, Orderly(b), NEW t, NEW dir \in Direction,
           dir = "SENDER" <=> In(t, b.send),
           dir = "RECEIVER" <=> In(t, b.recv)
    PROVE  RemoveTaskletFromBlocked(b, t, dir) = IF Waits(t, b) THEN Left(b, t) ELSE b
<1>1. CASE dir = "SENDER"
  BY <1>1 DEF RemoveTaskletFromBlocked, Left, Waits
<1>2. CASE dir = "RECEIVER"
  BY <1>2 DEF RemoveTaskletFromBlocked, Left, Waits
<1>3. CASE dir = "NEITHER"
  <2>1. ~In(t, b.send) /\ ~In(t, b.recv)
    BY <1>3
  <2>2. Unlinked(b.send, t) = b.send /\ Unlinked(b.recv, t) = b.recv
    BY <2>1 DEF Unlinked, In
  <2>. QED
    BY <1>3, <2>1, <2>2 DEF RemoveTaskletFromBlocked, Waits, Orderly, ChannelType
<1>. QED
  BY <1>1, <1>2, <1>3 DEF Direction

(* UpdateCloseState, which looks at the balance, closes a channel exactly   *)
(* when its lists are empty.                                                *)
THEOREM ClosedByBalance ==
    ASSUME NEW b, Orderly(b)
    PROVE  UpdateCloseState(b) = Settled(b)
<1>1. /\ Len(b.send) \in Nat /\ Len(b.recv) \in Nat
      /\ b.balance = Len(b.send) - Len(b.recv) /\ (b.send = <<>> \/ b.recv = <<>>)
  BY DEF Orderly, ChannelType
<1>2. (Len(b.send) = 0 <=> b.send = <<>>) /\ (Len(b.recv) = 0 <=> b.recv = <<>>)
  BY DEF Orderly, ChannelType
<1>3. (b.balance = 0) <=> (b.send = <<>> /\ b.recv = <<>>)
  BY <1>1, <1>2
<1>. QED
  BY <1>3 DEF UpdateCloseState, Settled, Drained
================================================================================
