----------------------------- MODULE RunQueueProofs -----------------------------
(***************************************************************************)
(* RunQueue keeps its list whatever the number of tasklets.  Each operator *)
(* of RunQueueOps takes a well-formed queue to a well-formed queue; the    *)
(* theorems about the specification follow action by action.  The second   *)
(* half shows that RunQueue implements QueueLine: a walk along the links   *)
(* meets the tasklets in the order of the numbering that the first half    *)
(* carries through each operator.                                          *)
(***************************************************************************)
EXTENDS RunQueue, WalkLemmas, SequenceTheorems, TLAPS

(* The shape of the queue depends on the links, not on the tasklets' flags. *)
LEMMA FlagsLeaveTheList ==
    ASSUME NEW x \in QueueType, WellFormed(x), NEW y \in QueueType,
           y.next = x.next, y.prev = x.prev, y.scheduled = x.scheduled,
           y.tail = x.tail, y.count = x.count, y.nullDeref = x.nullDeref
    PROVE  WellFormed(y)
BY DEF WellFormed, Lists

(* y is x with t linked in behind the queued tasklet c. *)
Linked(x, y, t, c) ==
    /\ ~x.scheduled[t] /\ x.scheduled[c]
    /\ \A u \in Tasklets : y.next[u] =
           IF u = c THEN t ELSE IF u = t THEN x.next[c] ELSE x.next[u]
    /\ \A u \in Tasklets : y.prev[u] =
           IF u = t THEN c ELSE IF u = x.next[c] THEN t ELSE x.prev[u]
    /\ \A u \in Tasklets : y.scheduled[u] <=> (u = t \/ x.scheduled[u])
    /\ y.tail = IF c = x.tail THEN t ELSE x.tail
    /\ y.count = x.count + 1 /\ y.nullDeref = x.nullDeref

(* s numbers the queue x. *)
Numbers(s, x) == s \in [0..x.count -> Tasklets] /\ Lists(s, x)

(* A numbering with t put in behind place k, and with place k taken out. *)
PutIn(s, n, k, t) == [i \in 0..n+1 |-> IF i <= k THEN s[i] ELSE IF i = k+1 THEN t ELSE s[i-1]]
TakenOut(s, n, k) == [i \in 0..n-1 |-> IF i < k THEN s[i] ELSE s[i+1]]

(* Linking a tasklet in makes the list longer by one. *)
LEMMA LinkIntoNumbers ==
    ASSUME NEW x \in QueueType, WellFormed(x), NEW y \in QueueType,
           NEW t \in Tasklets, NEW c \in Tasklets, Linked(x, y, t, c),
           NEW s, Numbers(s, x), NEW k \in 0..x.count, s[k] = c
    PROVE  Numbers(PutIn(s, x.count, k, t), y)
<1> USE DEF Linked
<1>1. s \in [0..x.count -> Tasklets] /\ Lists(s, x)
  BY DEF Numbers
<1>2. x.count \in Nat /\ ~x.nullDeref
  BY DEF WellFormed
<1>3. k \in 0..x.count /\ s[k] = c
  OBVIOUS
<1> DEFINE n == x.count + 1
           r == PutIn(s, x.count, k, t)
<1> USE DEF PutIn
<1>4. r \in [0..n -> Tasklets]
  BY <1>1, <1>2
<1>5. /\ \A i \in 0..k : r[i] = s[i]
      /\ r[k+1] = t
      /\ \A i \in k+2..n : r[i] = s[i-1]
  BY <1>2
<1> HIDE DEF r
<1>6. \A i \in 0..x.count : s[i] \in Tasklets /\ s[i] # t /\ (s[i] = c <=> i = k)
  BY <1>1, <1>3 DEF Lists
<1>7. (c = x.tail <=> k = x.count) /\ c # t
  BY <1>1, <1>2, <1>3, <1>6 DEF Lists
<1>8. x.next[c] = IF k = x.count THEN NULL ELSE s[k+1]
  BY <1>1, <1>3 DEF Lists
<1>9. \A i \in 0..x.count :
        /\ x.next[s[i]] = IF i = x.count THEN NULL ELSE s[i+1]
        /\ x.prev[s[i]] = IF i = 0 THEN NULL ELSE s[i-1]
        /\ s[i] = x.next[c] <=> i = k+1
  BY <1>1, <1>2, <1>3, <1>6, <1>8, NullAssumption DEF Lists
<1>10. Lists(r, y)
  <2>1. r[0] = Main /\ r[y.count] = y.tail
    <3>1. r[0] = Main
      BY <1>1, <1>2, <1>3, <1>5 DEF Lists
    <3>2. CASE k = x.count
      BY <1>5, <1>7, <3>1, <3>2
    <3>3. CASE k # x.count
      <4>1. n \in k+2..n /\ n-1 = x.count
        BY <1>2, <1>3, <3>3
      <4> QED BY <1>1, <1>5, <1>7, <3>1, <3>3, <4>1 DEF Lists
    <3> QED BY <3>2, <3>3
  <2>2. \A i, j \in 0..y.count : r[i] = r[j] => i = j
    <3> SUFFICES ASSUME NEW i \in 0..y.count, NEW j \in 0..y.count, i < j
                 PROVE  r[i] # r[j]
      BY <1>2
    <3>1. \A l, m \in 0..x.count : l # m => s[l] # s[m]
      BY <1>1 DEF Lists
    <3>2. CASE j <= k
      BY <1>2, <1>3, <1>5, <3>1, <3>2
    <3>3. CASE j = k+1
      BY <1>2, <1>3, <1>5, <1>6, <3>3
    <3>4. CASE j > k+1
      <4>1. r[j] = s[j-1] /\ j-1 \in 0..x.count /\ r[j] # t
        BY <1>2, <1>3, <1>5, <1>6, <3>4
      <4>2. CASE i <= k
        BY <1>2, <1>3, <1>5, <3>1, <3>4, <4>1, <4>2
      <4>3. CASE i = k+1
        BY <1>5, <4>1, <4>3
      <4>4. CASE i > k+1
        BY <1>2, <1>3, <1>5, <3>1, <4>1, <4>4
      <4> QED BY <1>3, <4>2, <4>3, <4>4
    <3> QED BY <1>3, <3>2, <3>3, <3>4
  <2>3. \A u \in Tasklets : y.scheduled[u] <=> \E i \in 0..y.count : r[i] = u
    <3>1. ASSUME NEW u \in Tasklets, x.scheduled[u] PROVE \E i \in 0..y.count : r[i] = u
      <4>1. PICK j \in 0..x.count : s[j] = u
        BY <1>1, <3>1 DEF Lists
      <4>2. CASE j <= k
        BY <1>2, <1>5, <4>1, <4>2
      <4>3. CASE j > k
        <5>1. j + 1 \in k+2..n
          BY <1>2, <4>3
        <5> QED BY <1>2, <1>5, <4>1, <5>1
      <4> QED BY <4>2, <4>3
    <3>2. \E i \in 0..y.count : r[i] = t
      BY <1>2, <1>3, <1>5
    <3>3. ASSUME NEW i \in 0..y.count PROVE r[i] = t \/ x.scheduled[r[i]]
      BY <1>1, <1>2, <1>3, <1>5, <1>6 DEF Lists
    <3> QED BY <3>1, <3>2, <3>3
  <2>4. ASSUME NEW i \in 0..y.count
        PROVE  /\ y.next[r[i]] = IF i = y.count THEN NULL ELSE r[i+1]
               /\ y.prev[r[i]] = IF i = 0 THEN NULL ELSE r[i-1]
    <3>1. CASE i < k
      <4>1. r[i] = s[i] /\ r[i+1] = s[i+1] /\ (i # 0 => r[i-1] = s[i-1])
        BY <1>2, <1>3, <1>5, <3>1
      <4> QED BY <1>2, <1>3, <1>6, <1>9, <3>1, <4>1
    <3>2. CASE i = k
      <4>1. r[i] = c /\ r[i+1] = t /\ (i # 0 => r[i-1] = s[i-1])
        BY <1>2, <1>3, <1>5, <3>2
      <4> QED BY <1>2, <1>3, <1>6, <1>7, <1>9, <3>2, <4>1
    <3>3. CASE i = k+1
      <4>1. r[i] = t /\ r[i-1] = c /\ (i # y.count => r[i+1] = s[k+1])
        BY <1>2, <1>3, <1>5, <3>3
      <4> QED BY <1>2, <1>3, <1>7, <1>8, <3>3, <4>1
    <3>4. CASE i > k+1
      <4>1. r[i] = s[i-1] /\ i-1 \in 0..x.count /\ i-1 # k
        BY <1>2, <1>3, <1>5, <3>4
      <4>2. i # k+2 => r[i-1] = s[(i-1)-1]
        BY <1>2, <1>3, <1>5, <3>4
      <4>3. i # y.count => i+1 \in k+2..n /\ (i+1)-1 = (i-1)+1
        BY <1>2, <1>3, <3>4
      <4>4. i # y.count => r[i+1] = s[(i-1)+1]
        BY <1>5, <4>3
      <4>5. y.next[s[i-1]] = IF i = y.count THEN NULL ELSE r[i+1]
        <5>1. i-1 = x.count <=> i = y.count
          BY <1>2
        <5>2. s[i-1] # c /\ s[i-1] # t
          BY <1>6, <4>1
        <5>3. y.next[s[i-1]] = x.next[s[i-1]]
          BY <1>6, <4>1, <5>2
        <5> QED BY <1>9, <4>1, <4>4, <5>1, <5>3
      <4>6. y.prev[s[i-1]] = IF i = k+2 THEN t ELSE r[i-1]
        <5>1. i-1 = k+1 <=> i = k+2
          BY <1>3
        <5>2. i-1 # 0
          BY <1>3, <3>4
        <5> QED BY <1>6, <1>9, <4>1, <4>2, <5>1, <5>2
      <4>7. i = k+2 => r[i-1] = t
        BY <1>3, <1>5
      <4> QED BY <1>3, <3>4, <4>1, <4>5, <4>6, <4>7
    <3> QED BY <1>3, <3>1, <3>2, <3>3, <3>4
  <2>5. \A u \in Tasklets : ~y.scheduled[u] => y.next[u] = NULL /\ y.prev[u] = NULL
    <3>1. ASSUME NEW u \in Tasklets, ~y.scheduled[u]
          PROVE  ~x.scheduled[u] /\ u # t /\ u # c /\ u # x.next[c]
      <4>1. k # x.count => x.scheduled[s[k+1]]
        BY <1>1, <1>2, <1>3, <1>6 DEF Lists
      <4> QED BY <3>1, <4>1, <1>8, NullAssumption
    <3> QED BY <1>1, <3>1 DEF Lists
  <2> QED BY <2>1, <2>2, <2>3, <2>4, <2>5 DEF Lists
<1> QED BY <1>4, <1>10 DEF Numbers, r

LEMMA LinkIntoList ==
    ASSUME NEW x \in QueueType, WellFormed(x), NEW y \in QueueType,
           NEW t \in Tasklets, NEW c \in Tasklets, Linked(x, y, t, c)
    PROVE  WellFormed(y)
<1>1. PICK s \in [0..x.count -> Tasklets] : Lists(s, x)
  BY DEF WellFormed
<1>2. PICK k \in 0..x.count : s[k] = c
  BY <1>1 DEF Lists, Linked
<1>3. Numbers(PutIn(s, x.count, k, t), y)
  BY <1>1, <1>2, LinkIntoNumbers DEF Numbers
<1>4. y.count \in Nat /\ ~y.nullDeref
  BY DEF WellFormed, Linked
<1> QED BY <1>3, <1>4 DEF WellFormed, Numbers

(* y is x with the queued tasklet t linked out. *)
Unlinked(x, y, t) ==
    /\ t # Main /\ x.scheduled[t]
    /\ \A u \in Tasklets : y.next[u] =
           IF u = t THEN NULL ELSE IF u = x.prev[t] THEN x.next[t] ELSE x.next[u]
    /\ \A u \in Tasklets : y.prev[u] =
           IF u = t THEN NULL ELSE IF u = x.next[t] THEN x.prev[t] ELSE x.prev[u]
    /\ \A u \in Tasklets : y.scheduled[u] <=> (u # t /\ x.scheduled[u])
    /\ y.tail = IF x.next[t] = NULL THEN x.prev[t] ELSE x.tail
    /\ y.count = x.count - 1 /\ y.nullDeref = x.nullDeref

(* Linking a tasklet out makes the list shorter by one. *)
LEMMA UnlinkFromNumbers ==
    ASSUME NEW x \in QueueType, WellFormed(x), NEW y \in QueueType,
           NEW t \in Tasklets, Unlinked(x, y, t),
           NEW s, Numbers(s, x), NEW k \in 0..x.count, s[k] = t
    PROVE  x.count - 1 \in Nat /\ Numbers(TakenOut(s, x.count, k), y)
<1> USE DEF Unlinked
<1>1. s \in [0..x.count -> Tasklets] /\ Lists(s, x)
  BY DEF Numbers
<1>2. x.count \in Nat /\ ~x.nullDeref
  BY DEF WellFormed
<1>3. k \in 0..x.count /\ s[k] = t
  OBVIOUS
<1>4. k > 0
  BY <1>1, <1>3 DEF Lists
<1> DEFINE n == x.count - 1
           r == TakenOut(s, x.count, k)
<1> USE DEF TakenOut
<1>5. n \in Nat /\ r \in [0..n -> Tasklets]
  BY <1>1, <1>2, <1>3, <1>4
<1>6. /\ \A i \in 0..k-1 : r[i] = s[i]
      /\ \A i \in k..n : r[i] = s[i+1]
  BY <1>2, <1>3
<1> HIDE DEF r
<1>7. \A i \in 0..x.count : s[i] \in Tasklets /\ (s[i] = t <=> i = k)
  BY <1>1, <1>3 DEF Lists
<1>8. /\ x.next[t] = IF k = x.count THEN NULL ELSE s[k+1]
      /\ x.prev[t] = s[k-1]
  BY <1>1, <1>3, <1>4 DEF Lists
<1>9. \A i \in 0..x.count : (s[i] = x.prev[t] <=> i = k-1) /\ (s[i] = x.next[t] <=> i = k+1)
  BY <1>1, <1>2, <1>3, <1>4, <1>7, <1>8, NullAssumption DEF Lists
<1>10. Lists(r, y)
  <2>1. r[0] = Main /\ r[y.count] = y.tail
    BY <1>1, <1>2, <1>3, <1>4, <1>6, <1>7, <1>8, NullAssumption DEF Lists
  <2>2. \A i, j \in 0..y.count : r[i] = r[j] => i = j
    BY <1>1, <1>2, <1>3, <1>4, <1>6 DEF Lists
  <2>3. \A u \in Tasklets : y.scheduled[u] <=> \E i \in 0..y.count : r[i] = u
    <3>1. ASSUME NEW u \in Tasklets, x.scheduled[u], u # t
          PROVE  \E i \in 0..y.count : r[i] = u
      <4>1. PICK j \in 0..x.count : s[j] = u
        BY <1>1, <3>1 DEF Lists
      <4>2. CASE j < k
        BY <1>2, <1>3, <1>6, <4>1, <4>2
      <4>3. CASE j > k
        <5>1. j - 1 \in k..n
          BY <1>2, <4>3
        <5> QED BY <1>2, <1>3, <1>6, <4>1, <5>1
      <4> QED BY <1>3, <3>1, <4>1, <4>2, <4>3
    <3>2. ASSUME NEW i \in 0..y.count PROVE r[i] # t /\ x.scheduled[r[i]]
      <4>1. \A j \in 0..x.count : x.scheduled[s[j]]
        BY <1>1, <1>7 DEF Lists
      <4>2. \E j \in 0..x.count : j # k /\ r[i] = s[j]
        <5>1. CASE i < k
          BY <1>2, <1>3, <1>6, <5>1
        <5>2. CASE i >= k
          <6>1. i+1 \in 0..x.count /\ i+1 # k /\ r[i] = s[i+1]
            BY <1>2, <1>3, <1>6, <5>2
          <6> QED BY <6>1
        <5> QED BY <1>3, <5>1, <5>2
      <4> QED BY <1>7, <4>1, <4>2
    <3> QED BY <3>1, <3>2
  <2>4. ASSUME NEW i \in 0..y.count
        PROVE  /\ y.next[r[i]] = IF i = y.count THEN NULL ELSE r[i+1]
               /\ y.prev[r[i]] = IF i = 0 THEN NULL ELSE r[i-1]
    <3> DEFINE j == IF i < k THEN i ELSE i+1
    <3>1. r[i] = s[j] /\ j \in 0..x.count /\ j # k
      BY <1>2, <1>3, <1>6
    <3>2. y.next[s[j]] = IF j = k-1 THEN x.next[t] ELSE x.next[s[j]]
      BY <1>7, <1>9, <3>1
    <3>3. y.prev[s[j]] = IF j = k+1 THEN x.prev[t] ELSE x.prev[s[j]]
      BY <1>7, <1>9, <3>1
    <3>4. /\ x.next[s[j]] = IF j = x.count THEN NULL ELSE s[j+1]
          /\ x.prev[s[j]] = IF j = 0 THEN NULL ELSE s[j-1]
      BY <1>1, <3>1 DEF Lists
    <3>5. CASE i < k
      <4>1. /\ i # k-1 => r[i+1] = s[i+1]
            /\ i = k-1 /\ k # x.count => r[i+1] = s[k+1]
            /\ i # 0 => r[i-1] = s[i-1]
        BY <1>2, <1>3, <1>6, <3>5
      <4> QED BY <1>2, <1>3, <1>8, <3>1, <3>2, <3>3, <3>4, <3>5, <4>1
    <3>6. CASE i >= k
      <4>1. i # y.count => i+1 \in k..n
        BY <1>2, <1>3, <3>6
      <4>2. i # y.count => r[i+1] = s[j+1]
        BY <1>6, <3>6, <4>1
      <4>3. i # k => i-1 \in k..n /\ (i-1)+1 = j-1
        BY <1>2, <1>3, <3>6
      <4>4. r[i-1] = IF i = k THEN s[k-1] ELSE s[j-1]
        <5>1. k-1 \in 0..k-1
          BY <1>3, <1>4
        <5> QED BY <1>6, <4>3, <5>1
      <4>5. (j = x.count <=> i = y.count) /\ j # 0 /\ i # 0 /\ j # k-1 /\ (j = k+1 <=> i = k)
        BY <1>2, <1>3, <1>4, <3>6
      <4> QED BY <1>8, <3>1, <3>2, <3>3, <3>4, <4>2, <4>4, <4>5
    <3> QED BY <1>3, <3>5, <3>6
  <2>5. \A u \in Tasklets : ~y.scheduled[u] => y.next[u] = NULL /\ y.prev[u] = NULL
    <3>1. ASSUME NEW u \in Tasklets, ~y.scheduled[u], u # t
          PROVE  ~x.scheduled[u] /\ u # x.prev[t] /\ u # x.next[t]
      <4>1. x.scheduled[s[k-1]] /\ (k # x.count => x.scheduled[s[k+1]])
        BY <1>1, <1>2, <1>3, <1>4, <1>7 DEF Lists
      <4> QED BY <3>1, <4>1, <1>8, NullAssumption
    <3> QED BY <1>1, <3>1 DEF Lists
  <2> QED BY <2>1, <2>2, <2>3, <2>4, <2>5 DEF Lists
<1> QED BY <1>5, <1>10 DEF Numbers, r

LEMMA UnlinkFromList ==
    ASSUME NEW x \in QueueType, WellFormed(x), NEW y \in QueueType,
           NEW t \in Tasklets, Unlinked(x, y, t)
    PROVE  WellFormed(y)
<1>1. PICK s \in [0..x.count -> Tasklets] : Lists(s, x)
  BY DEF WellFormed
<1>2. PICK k \in 0..x.count : s[k] = t
  BY <1>1 DEF Lists, Unlinked
<1>3. x.count - 1 \in Nat /\ Numbers(TakenOut(s, x.count, k), y)
  BY <1>1, <1>2, UnlinkFromNumbers DEF Numbers
<1>4. y.count = x.count - 1 /\ ~y.nullDeref
  BY DEF WellFormed, Unlinked
<1> QED BY <1>3, <1>4 DEF WellFormed, Numbers

(* What the list says of a tasklet, whether it is queued or not. *)
LEMMA ListFacts ==
    ASSUME NEW x \in QueueType, WellFormed(x)
    PROVE  /\ x.tail \in Tasklets /\ x.scheduled[x.tail] /\ x.next[x.tail] = NULL
           /\ x.scheduled[Main]
           /\ \A t \in Tasklets : IsLinked(x, t) => x.scheduled[t]
           /\ \A t \in Tasklets : x.scheduled[t] /\ t # Main =>
                 IsLinked(x, t) /\ x.prev[t] \in Tasklets
           /\ \A t \in Tasklets : x.scheduled[t] /\ x.next[t] # NULL =>
                 x.next[t] \in Tasklets \ {Main, t} /\ x.scheduled[x.next[t]]
<1>1. PICK s \in [0..x.count -> Tasklets] : Lists(s, x)
  BY DEF WellFormed
<1>2. x.count \in Nat
  BY DEF WellFormed
<1>3. \A i \in 0..x.count : s[i] \in Tasklets /\ x.scheduled[s[i]]
  BY <1>1 DEF Lists
<1>4. x.tail \in Tasklets /\ x.scheduled[x.tail] /\ x.next[x.tail] = NULL
  BY <1>1, <1>2, <1>3 DEF Lists
<1>5. x.scheduled[Main]
  BY <1>1, <1>2, <1>3 DEF Lists
<1>6. ASSUME NEW t \in Tasklets, IsLinked(x, t) PROVE x.scheduled[t]
  BY <1>1, <1>6 DEF Lists, IsLinked
<1>7. ASSUME NEW t \in Tasklets, x.scheduled[t]
      PROVE  /\ t # Main => IsLinked(x, t) /\ x.prev[t] \in Tasklets
             /\ x.next[t] # NULL => x.next[t] \in Tasklets \ {Main, t} /\ x.scheduled[x.next[t]]
  <2>1. PICK k \in 0..x.count : s[k] = t
    BY <1>1, <1>7 DEF Lists
  <2>2. x.next[t] = (IF k = x.count THEN NULL ELSE s[k+1])
    BY <1>1, <2>1 DEF Lists
  <2>3. x.prev[t] = (IF k = 0 THEN NULL ELSE s[k-1])
    BY <1>1, <2>1 DEF Lists
  <2>4. t # Main => k # 0
    BY <1>1, <2>1 DEF Lists
  <2>5. k # x.count => k+1 \in 0..x.count /\ s[k+1] # Main /\ s[k+1] # t
    BY <1>1, <1>2, <2>1 DEF Lists
  <2>6. k # 0 /\ k # x.count => s[k-1] # s[k+1]
    BY <1>1, <1>2, <2>1 DEF Lists
  <2>7. k # 0 => k-1 \in 0..x.count
    BY <1>2, <2>1
  <2> QED BY <1>3, <2>2, <2>3, <2>4, <2>5, <2>6, <2>7, NullAssumption DEF IsLinked
<1> QED BY <1>4, <1>5, <1>6, <1>7

--------------------------------------------------------------------------------
(* What the actions maintain: the list, and a current tasklet. *)
Good(x) == x \in QueueType /\ x.current \in Tasklets /\ WellFormed(x)

LEMMA MarksKeepTheList ==
    ASSUME NEW x, Good(x), NEW t \in Tasklets
    PROVE  /\ Good(Unblock(x, t))
           /\ Good(SetCurrentTasklet(x, t))
           /\ \A c \in Channels : Good(Block(x, t, c))
           /\ \A r \in RescheduleType : Good(SetReschedule(x, t, r))
<1>1. Unblock(x, t) \in QueueType /\ Unblock(x, t).current = x.current
  BY DEF Good, QueueType, Unblock
<1>2. SetCurrentTasklet(x, t) \in QueueType /\ SetCurrentTasklet(x, t).current = t
  BY DEF Good, QueueType, SetCurrentTasklet
<1>3. \A c \in Channels : Block(x, t, c) \in QueueType /\ Block(x, t, c).current = x.current
  BY DEF Good, QueueType, Block
<1>4. \A r \in RescheduleType :
        SetReschedule(x, t, r) \in QueueType /\ SetReschedule(x, t, r).current = x.current
  BY DEF Good, QueueType, SetReschedule
<1>5. WellFormed(Unblock(x, t))
  BY <1>1, FlagsLeaveTheList DEF Good, QueueType, Unblock
<1>6. WellFormed(SetCurrentTasklet(x, t))
  BY <1>2, FlagsLeaveTheList DEF Good, QueueType, SetCurrentTasklet
<1>7. ASSUME NEW c \in Channels PROVE WellFormed(Block(x, t, c))
  BY <1>3, FlagsLeaveTheList DEF Good, QueueType, Block
<1>8. ASSUME NEW r \in RescheduleType PROVE WellFormed(SetReschedule(x, t, r))
  BY <1>4, FlagsLeaveTheList DEF Good, QueueType, SetReschedule
<1> QED BY <1>1, <1>2, <1>3, <1>4, <1>5, <1>6, <1>7, <1>8 DEF Good

LEMMA InsertKeepsTheList ==
    ASSUME NEW x, Good(x), NEW t \in Tasklets
    PROVE  /\ Good(InsertTasklet(x, t))
           /\ InsertTasklet(x, t).current = x.current
           /\ IF x.scheduled[t] THEN InsertTasklet(x, t).next = x.next
              ELSE Linked(x, InsertTasklet(x, t), t, x.tail)
<1>1. CASE x.scheduled[t]
  <2>1. SetReschedule(x, t, "BACK").current = x.current
        /\ SetReschedule(x, t, "BACK").next = x.next
    BY DEF Good, QueueType, SetReschedule
  <2> QED BY <1>1, <2>1, MarksKeepTheList DEF InsertTasklet, RescheduleType
<1>2. CASE ~x.scheduled[t]
  <2> DEFINE y == [x EXCEPT !.next = [@ EXCEPT ![x.tail] = t, ![t] = NULL],
                            !.prev = [@ EXCEPT ![t] = x.tail],
                            !.tail = t,
                            !.scheduled = [@ EXCEPT ![t] = TRUE],
                            !.count = @ + 1]
  <2>1. x.tail \in Tasklets /\ x.scheduled[x.tail] /\ x.next[x.tail] = NULL
    BY ListFacts DEF Good
  <2>2. InsertTasklet(x, t) = Unblock(y, t)
    BY <1>2, <2>1, NullAssumption DEF InsertTasklet
  <2>3. y \in QueueType /\ y.current = x.current
    <3>1. /\ [x.next EXCEPT ![x.tail] = t, ![t] = NULL] \in [Tasklets -> Tasklets \cup {NULL}]
          /\ [x.prev EXCEPT ![t] = x.tail] \in [Tasklets -> Tasklets \cup {NULL}]
          /\ [x.scheduled EXCEPT ![t] = TRUE] \in [Tasklets -> BOOLEAN]
          /\ x.count + 1 \in Int
      BY <2>1 DEF Good, QueueType
    <3> QED BY <3>1 DEF Good, QueueType
  <2>4. /\ y.next = [x.next EXCEPT ![x.tail] = t, ![t] = NULL]
        /\ y.prev = [x.prev EXCEPT ![t] = x.tail]
        /\ y.tail = t /\ y.count = x.count + 1 /\ y.nullDeref = x.nullDeref
        /\ y.scheduled = [x.scheduled EXCEPT ![t] = TRUE]
    BY DEF Good, QueueType
  <2>5. \A u \in Tasklets : y.scheduled[u] <=> (u = t \/ x.scheduled[u])
    <3>1. x.scheduled \in [Tasklets -> BOOLEAN]
      BY DEF Good, QueueType
    <3> HIDE DEF y
    <3> QED BY <2>4, <3>1
  <2>6. \A u \in Tasklets :
          /\ y.next[u] = IF u = x.tail THEN t ELSE IF u = t THEN x.next[x.tail] ELSE x.next[u]
          /\ y.prev[u] = IF u = t THEN x.tail ELSE IF u = x.next[x.tail] THEN t ELSE x.prev[u]
    BY <1>2, <2>1, <2>4, NullAssumption DEF Good, QueueType
  <2> HIDE DEF y
  <2>7. Linked(x, y, t, x.tail)
    BY <1>2, <2>1, <2>4, <2>5, <2>6 DEF Linked
  <2>8. WellFormed(y)
    BY <2>1, <2>3, <2>7, LinkIntoList DEF Good
  <2>9. Linked(x, Unblock(y, t), t, x.tail) /\ Unblock(y, t).current = x.current
    BY <2>3, <2>7 DEF Linked, Unblock, QueueType
  <2> QED BY <1>2, <2>2, <2>3, <2>8, <2>9, MarksKeepTheList DEF Good
<1> QED BY <1>1, <1>2

LEMMA InsertToRunNextKeepsTheList ==
    ASSUME NEW x, Good(x), NEW t \in Tasklets, x.scheduled[x.current]
    PROVE  /\ Good(InsertTaskletToRunNext(x, t))
           /\ InsertTaskletToRunNext(x, t).current = x.current
           /\ InsertTaskletToRunNext(x, t).scheduled[x.current]
           /\ IF x.scheduled[t] THEN InsertTaskletToRunNext(x, t).next = x.next
              ELSE Linked(x, InsertTaskletToRunNext(x, t), t, x.current)
<1>1. CASE x.scheduled[t]
  <2>1. /\ SetReschedule(x, t, "BACK").current = x.current
        /\ SetReschedule(x, t, "BACK").scheduled = x.scheduled
        /\ SetReschedule(x, t, "BACK").next = x.next
    BY DEF Good, QueueType, SetReschedule
  <2> QED BY <1>1, <2>1, MarksKeepTheList DEF InsertTaskletToRunNext, RescheduleType
<1>2. CASE ~x.scheduled[t]
  <2> DEFINE c == x.current
             next == [x.next EXCEPT ![t] = x.next[c], ![c] = t]
             y == [x EXCEPT !.next = next,
                            !.prev = SetIfAny([@ EXCEPT ![t] = c], next[t], t),
                            !.tail = IF c = x.tail THEN t ELSE @,
                            !.scheduled = [@ EXCEPT ![t] = TRUE],
                            !.count = @ + 1]
  <2>1. InsertTaskletToRunNext(x, t) = Unblock(y, t)
    BY <1>2 DEF InsertTaskletToRunNext
  <2>2. c \in Tasklets /\ c # t /\ x.scheduled[c]
    BY <1>2 DEF Good
  <2>3. next \in [Tasklets -> Tasklets \cup {NULL}] /\ next[t] = x.next[c]
    BY <2>2 DEF Good, QueueType
  <2>4. SetIfAny([x.prev EXCEPT ![t] = c], next[t], t) \in [Tasklets -> Tasklets \cup {NULL}]
    BY <2>2, <2>3 DEF Good, QueueType, SetIfAny
  <2>5. y \in QueueType /\ y.current = x.current
    <3>1. /\ [x.scheduled EXCEPT ![t] = TRUE] \in [Tasklets -> BOOLEAN]
          /\ x.count + 1 \in Int
          /\ (IF c = x.tail THEN t ELSE x.tail) \in Tasklets \cup {NULL}
      BY DEF Good, QueueType
    <3> HIDE DEF next
    <3> QED BY <2>3, <2>4, <3>1 DEF Good, QueueType
  <2>6. /\ y.next = next /\ y.prev = SetIfAny([x.prev EXCEPT ![t] = c], next[t], t)
        /\ y.tail = (IF c = x.tail THEN t ELSE x.tail)
        /\ y.count = x.count + 1 /\ y.nullDeref = x.nullDeref
        /\ y.scheduled = [x.scheduled EXCEPT ![t] = TRUE]
    BY DEF Good, QueueType
  <2>7. \A u \in Tasklets : y.scheduled[u] <=> (u = t \/ x.scheduled[u])
    <3>1. x.scheduled \in [Tasklets -> BOOLEAN]
      BY DEF Good, QueueType
    <3> HIDE DEF y
    <3> QED BY <2>6, <3>1
  <2>8. x.next[c] # NULL => x.next[c] # t
    BY <1>2, <2>2, ListFacts DEF Good
  <2>9. \A u \in Tasklets : y.next[u] = IF u = c THEN t ELSE IF u = t THEN x.next[c] ELSE x.next[u]
    BY <2>2, <2>6 DEF Good, QueueType
  <2>10. \A u \in Tasklets : y.prev[u] = IF u = t THEN c ELSE IF u = x.next[c] THEN t ELSE x.prev[u]
    <3>1. CASE x.next[c] = NULL
      BY <2>2, <2>3, <2>6, <3>1, NullAssumption DEF Good, QueueType, SetIfAny
    <3>2. CASE x.next[c] # NULL
      BY <2>2, <2>3, <2>6, <2>8, <3>2, NullAssumption DEF Good, QueueType, SetIfAny
    <3> QED BY <3>1, <3>2
  <2> HIDE DEF y
  <2>11. Linked(x, y, t, c)
    BY <1>2, <2>2, <2>6, <2>7, <2>9, <2>10 DEF Linked
  <2>12. WellFormed(y)
    BY <2>2, <2>5, <2>11, LinkIntoList DEF Good
  <2>13. Unblock(y, t).current = x.current /\ Unblock(y, t).scheduled = y.scheduled
    BY <2>5 DEF QueueType, Unblock
  <2>14. Linked(x, Unblock(y, t), t, c)
    BY <2>5, <2>11 DEF Linked, Unblock, QueueType
  <2> QED BY <1>2, <2>1, <2>2, <2>5, <2>7, <2>12, <2>13, <2>14, MarksKeepTheList DEF Good
<1> QED BY <1>1, <1>2

LEMMA RemoveKeepsTheList ==
    ASSUME NEW x, Good(x), NEW t \in Tasklets, t # Main
    PROVE  /\ Good(RemoveTasklet(x, t))
           /\ RemoveTasklet(x, t).current = x.current
           /\ RemoveTasklet(x, t).reschedule = x.reschedule
           /\ \A u \in Tasklets : RemoveTasklet(x, t).scheduled[u] <=> (u # t /\ x.scheduled[u])
           /\ IF x.scheduled[t] THEN Unlinked(x, RemoveTasklet(x, t), t)
              ELSE RemoveTasklet(x, t) = x
<1>1. CASE ~x.scheduled[t]
  <2>1. RemoveTasklet(x, t) = x
    BY <1>1, ListFacts DEF Good, RemoveTasklet
  <2> QED BY <1>1, <2>1
<1>2. CASE x.scheduled[t]
  <2> DEFINE p == x.prev[t]
             n == x.next[t]
             y == RemoveTasklet(x, t)
  <2>1. IsLinked(x, t) /\ p \in Tasklets
    BY <1>2, ListFacts DEF Good
  <2>2. y = [x EXCEPT !.next = [SetIfAny(x.next, p, n) EXCEPT ![t] = NULL],
                      !.prev = [SetIfAny(x.prev, n, p) EXCEPT ![t] = NULL],
                      !.tail = IF n = NULL THEN p ELSE @,
                      !.count = @ - 1,
                      !.scheduled = [@ EXCEPT ![t] = FALSE]]
    BY <2>1 DEF RemoveTasklet, Good, QueueType
  <2> HIDE DEF y
  <2>3. /\ SetIfAny(x.next, p, n) \in [Tasklets -> Tasklets \cup {NULL}]
        /\ SetIfAny(x.prev, n, p) \in [Tasklets -> Tasklets \cup {NULL}]
    BY <2>1 DEF Good, QueueType, SetIfAny
  <2>4. y \in QueueType /\ y.current = x.current /\ y.reschedule = x.reschedule
    <3>1. /\ [x.scheduled EXCEPT ![t] = FALSE] \in [Tasklets -> BOOLEAN]
          /\ x.count - 1 \in Int
          /\ (IF n = NULL THEN p ELSE x.tail) \in Tasklets \cup {NULL}
          /\ [SetIfAny(x.next, p, n) EXCEPT ![t] = NULL] \in [Tasklets -> Tasklets \cup {NULL}]
          /\ [SetIfAny(x.prev, n, p) EXCEPT ![t] = NULL] \in [Tasklets -> Tasklets \cup {NULL}]
      BY <2>1, <2>3 DEF Good, QueueType
    <3> QED BY <2>2, <3>1 DEF Good, QueueType
  <2>5. /\ y.next = [SetIfAny(x.next, p, n) EXCEPT ![t] = NULL]
        /\ y.prev = [SetIfAny(x.prev, n, p) EXCEPT ![t] = NULL]
        /\ y.tail = (IF n = NULL THEN p ELSE x.tail)
        /\ y.count = x.count - 1 /\ y.nullDeref = x.nullDeref
        /\ y.scheduled = [x.scheduled EXCEPT ![t] = FALSE]
    BY <2>2 DEF Good, QueueType
  <2>6. \A u \in Tasklets : y.scheduled[u] <=> (u # t /\ x.scheduled[u])
    <3>1. x.scheduled \in [Tasklets -> BOOLEAN]
      BY DEF Good, QueueType
    <3> QED BY <2>5, <3>1
  <2>7. \A u \in Tasklets : y.next[u] = IF u = t THEN NULL ELSE IF u = p THEN n ELSE x.next[u]
    BY <2>1, <2>5, NullAssumption DEF Good, QueueType, SetIfAny
  <2>8. \A u \in Tasklets : y.prev[u] = IF u = t THEN NULL ELSE IF u = n THEN p ELSE x.prev[u]
    BY <2>1, <2>5, NullAssumption DEF Good, QueueType, SetIfAny
  <2>9. Unlinked(x, y, t)
    BY <1>2, <2>5, <2>6, <2>7, <2>8 DEF Unlinked
  <2>10. WellFormed(y)
    BY <2>4, <2>9, UnlinkFromList DEF Good
  <2> QED BY <1>2, <2>4, <2>6, <2>9, <2>10 DEF Good, y
<1> QED BY <1>1, <1>2

LEMMA DropKeepsTheList ==
    ASSUME NEW x, Good(x), NEW t \in Tasklets, t # Main, x.scheduled[t]
    PROVE  /\ Good(DropFromQueue(x, t)) /\ Unlinked(x, DropFromQueue(x, t), t)
           /\ DropFromQueue(x, t).current = x.current
           /\ DropFromQueue(x, t).reschedule = x.reschedule
           /\ \A u \in Tasklets : DropFromQueue(x, t).scheduled[u] <=> (u # t /\ x.scheduled[u])
<1> DEFINE r == RemoveTasklet(x, t)
           atEnd == IF x.next[t] = NULL THEN [x EXCEPT !.tail = x.prev[t]] ELSE x
<1>1. RemoveTasklet(atEnd, t) = r
  <2>1. IsLinked(x, t)
    BY ListFacts DEF Good
  <2>2. atEnd.next = x.next /\ atEnd.prev = x.prev /\ IsLinked(atEnd, t)
    BY <2>1 DEF Good, QueueType, IsLinked
  <2> QED BY <2>1, <2>2 DEF Good, QueueType, RemoveTasklet
<1>2. r \in QueueType /\ ~r.scheduled[t]
  BY RemoveKeepsTheList DEF Good
<1>3. DropFromQueue(x, t) = r
  <2>1. DropFromQueue(x, t) = [r EXCEPT !.scheduled = [@ EXCEPT ![t] = FALSE]]
    BY <1>1 DEF DropFromQueue
  <2>2. [r.scheduled EXCEPT ![t] = FALSE] = r.scheduled
    <3> HIDE DEF r
    <3>1. r.scheduled \in [Tasklets -> BOOLEAN]
      BY <1>2 DEF QueueType
    <3>2. r.scheduled[t] = FALSE
      BY <1>2, <3>1
    <3> QED BY <3>1, <3>2
  <2> HIDE DEF r
  <2> QED BY <1>2, <2>1, <2>2 DEF QueueType
<1> QED BY <1>3, RemoveKeepsTheList

LEMMA DropIgnoresCurrent ==
    ASSUME NEW x, Good(x), NEW t \in Tasklets, NEW p \in Tasklets, t # Main, x.scheduled[t]
    PROVE  DropFromQueue(SetCurrentTasklet(x, p), t).next = DropFromQueue(x, t).next
<1> DEFINE c == SetCurrentTasklet(x, p)
<1>1. Good(c) /\ c.scheduled = x.scheduled
  BY MarksKeepTheList DEF Good, QueueType, SetCurrentTasklet
<1>2. c.next = x.next /\ c.prev = x.prev
  BY DEF Good, QueueType, SetCurrentTasklet
<1>3. IsLinked(x, t) /\ IsLinked(c, t)
  BY <1>2, ListFacts DEF Good, IsLinked
<1> QED BY <1>1, <1>2, <1>3 DEF Good, QueueType, DropFromQueue, RemoveTasklet, IsLinked

LEMMA InsertBehindFrontKeepsTheList ==
    ASSUME NEW x, Good(x), NEW t \in Tasklets,
           x.scheduled[x.current], x.next[x.current] # NULL
    PROVE  Good(InsertBehindFront(x, t)) /\ InsertBehindFront(x, t).current = x.current
<1> DEFINE front == x.next[x.current]
           x1 == RemoveTasklet(x, front)
           x2 == InsertTaskletToRunNext(x1, t)
<1>1. front \in Tasklets \ {Main, x.current}
  BY ListFacts DEF Good
<1>2. Good(x1) /\ x1.current = x.current /\ x1.scheduled[x1.current]
  BY <1>1, RemoveKeepsTheList DEF Good
<1>3. Good(x2) /\ x2.current = x1.current /\ x2.scheduled[x2.current]
  <2> HIDE DEF x1
  <2> QED BY <1>2, InsertToRunNextKeepsTheList
<1>4. /\ Good(InsertTaskletToRunNext(x2, front))
      /\ InsertTaskletToRunNext(x2, front).current = x2.current
  <2> HIDE DEF x2
  <2> QED BY <1>1, <1>3, InsertToRunNextKeepsTheList
<1> QED BY <1>1, <1>2, <1>3, <1>4, NullAssumption DEF InsertBehindFront

(* The loop of ScheduleManager::Run, taking a tasklet that has come back. *)
LEMMA ReturnKeepsTheList ==
    ASSUME NEW x, Good(x), NEW t \in Tasklets, NEW p \in Tasklets,
           t # Main, x.scheduled[t],
           x.reschedule[t] = "FRONT_PLUS_ONE" =>
               p # t /\ x.scheduled[p] /\ DropFromQueue(x, t).next[p] # NULL
    PROVE  Good(ReturnToRunner(x, t, p))
<1> DEFINE c == SetCurrentTasklet(x, p)
           d == DropFromQueue(c, t)
<1>1. /\ Good(c) /\ c.current = p
      /\ c.scheduled = x.scheduled /\ c.reschedule = x.reschedule
  BY MarksKeepTheList DEF Good, QueueType, SetCurrentTasklet
<1>2. /\ Good(d) /\ d.current = p /\ d.reschedule = x.reschedule
      /\ \A u \in Tasklets : d.scheduled[u] <=> (u # t /\ x.scheduled[u])
  <2> HIDE DEF c
  <2> QED BY <1>1, DropKeepsTheList
<1>3. d.next = DropFromQueue(x, t).next
  BY DropIgnoresCurrent
<1>4. ReturnToRunner(x, t, p) = ReinsertAsAsked(d, t)
  BY NullAssumption DEF ReturnToRunner
<1> HIDE DEF d
<1>5. x.reschedule[t] \in RescheduleType
  BY DEF Good, QueueType
<1>6. CASE x.reschedule[t] = "NONE"
  BY <1>2, <1>4, <1>6 DEF ReinsertAsAsked
<1>7. CASE x.reschedule[t] = "BACK"
  <2>1. Good(InsertTasklet(d, t))
    BY <1>2, InsertKeepsTheList
  <2>2. Good(SetReschedule(InsertTasklet(d, t), t, "NONE"))
    BY <2>1, MarksKeepTheList DEF RescheduleType
  <2> QED BY <1>2, <1>4, <1>7, <2>2 DEF ReinsertAsAsked
<1>8. CASE x.reschedule[t] = "FRONT_PLUS_ONE"
  <2>1. d.scheduled[d.current] /\ d.next[d.current] # NULL
    BY <1>2, <1>3, <1>8
  <2>2. Good(InsertBehindFront(d, t))
    BY <1>2, <2>1, InsertBehindFrontKeepsTheList
  <2>3. Good(SetReschedule(InsertBehindFront(d, t), t, "NONE"))
    BY <2>2, MarksKeepTheList DEF RescheduleType
  <2> QED BY <1>2, <1>4, <1>8, <2>3 DEF ReinsertAsAsked
<1> QED BY <1>5, <1>6, <1>7, <1>8 DEF RescheduleType

LEMMA MoveToRunNextKeepsTheList ==
    ASSUME NEW x, Good(x), NEW t \in Tasklets,
           t # Main, t # x.current, x.scheduled[x.current]
    PROVE  Good(MoveToRunNext(x, t)) /\ MoveToRunNext(x, t).current = x.current
<1> DEFINE out == IF x.scheduled[t] THEN RemoveTasklet(x, t) ELSE x
<1>1. Good(out) /\ out.current = x.current /\ out.scheduled[out.current]
  BY RemoveKeepsTheList DEF Good
<1> HIDE DEF out
<1> DEFINE y == InsertTaskletToRunNext(out, t)
<1>2. Good(y) /\ y.current = x.current
  BY <1>1, InsertToRunNextKeepsTheList
<1> HIDE DEF y
<1>3. x.current \in Tasklets
  BY DEF Good
<1>4. /\ Good(SetReschedule(y, x.current, "FRONT_PLUS_ONE"))
      /\ SetReschedule(y, x.current, "FRONT_PLUS_ONE").current = x.current
  <2>1. SetReschedule(y, x.current, "FRONT_PLUS_ONE").current = x.current
    BY <1>2 DEF SetReschedule, Good, QueueType
  <2> QED BY <1>2, <1>3, <2>1, MarksKeepTheList DEF RescheduleType
<1> QED BY <1>4 DEF MoveToRunNext, out, y

--------------------------------------------------------------------------------
LEMMA InitIsGood == Init => Good(q)
<1> SUFFICES ASSUME Init PROVE Good(q)
  OBVIOUS
<1>1. InitQueue \in QueueType /\ InitQueue.current = Main
  BY MainAssumption DEF InitQueue, QueueType, RescheduleType
<1>2. WellFormed(InitQueue)
  <2> DEFINE s == [i \in 0..0 |-> Main]
  <2>1. s \in [0..InitQueue.count -> Tasklets] /\ s[0] = Main
    BY MainAssumption DEF InitQueue
  <2>2. Lists(s, InitQueue)
    <3>1. \A i \in 0..InitQueue.count : i = 0 /\ i = InitQueue.count /\ s[i] = Main
      BY <2>1 DEF InitQueue
    <3>2. /\ InitQueue.count = 0 /\ InitQueue.tail = Main
          /\ \A t \in Tasklets : /\ InitQueue.next[t] = NULL /\ InitQueue.prev[t] = NULL
                                 /\ InitQueue.scheduled[t] <=> t = Main
      BY DEF InitQueue
    <3> HIDE DEF s
    <3> QED BY <2>1, <3>1, <3>2, MainAssumption DEF Lists
  <2> QED BY <2>1, <2>2 DEF WellFormed, InitQueue
<1> QED BY <1>1, <1>2, MainAssumption DEF Init, Good

LEMMA NextKeepsTheList == Good(q) /\ [Next]_q => Good(q)'
<1> SUFFICES ASSUME Good(q), [Next]_q PROVE Good(q')
  BY DEF Good, QueueType, WellFormed, Lists
<1>1. ASSUME NEW t \in Tasklets PROVE \A q0 \in Woken(t) : Good(q0) /\ q0.current = q.current
                                                         /\ q0.scheduled = q.scheduled
  <2>1. Good(Unblock(q, t)) /\ Good(SetReschedule(Unblock(q, t), t, "NONE"))
    BY MarksKeepTheList DEF RescheduleType
  <2> QED BY <2>1 DEF Woken, Unblock, SetReschedule, Good, QueueType
<1>2. ASSUME NEW t \in Tasklets, Insert(t) PROVE Good(q')
  BY <1>1, <1>2, InsertKeepsTheList DEF Insert
<1>3. ASSUME NEW t \in Tasklets, InsertToDie(t) PROVE Good(q')
  <2>1. Good(InsertTasklet(Unblock(q, t), t))
    BY MarksKeepTheList, InsertKeepsTheList
  <2> QED BY <1>3, <2>1, MarksKeepTheList DEF InsertToDie, RescheduleType
<1>4. ASSUME NEW t \in Tasklets, WakeToRunNext(t) PROVE Good(q')
  <2>1. Good(Unblock(q, t)) /\ Unblock(q, t).current = q.current
        /\ Unblock(q, t).scheduled = q.scheduled
    BY MarksKeepTheList DEF Unblock, Good, QueueType
  <2>2. Good(InsertTaskletToRunNext(Unblock(q, t), t))
    BY <1>4, <2>1, InsertToRunNextKeepsTheList DEF WakeToRunNext
  <2> QED BY <1>4, <2>2, MarksKeepTheList DEF WakeToRunNext, RescheduleType, Good
<1>5. ASSUME NEW t \in Tasklets, RunFlat(t) PROVE Good(q')
  BY <1>1, <1>5, MoveToRunNextKeepsTheList DEF RunFlat
<1>6. ASSUME NEW t \in Tasklets, Remove(t) PROVE Good(q')
  BY <1>6, RemoveKeepsTheList DEF Remove
<1>7. ASSUME NEW t \in Tasklets, SwitchTo(t) PROVE Good(q')
  BY <1>7, MarksKeepTheList DEF SwitchTo
<1>8. ASSUME NEW t \in Tasklets, Mark(t) PROVE Good(q')
  BY <1>1, <1>8, MarksKeepTheList DEF Mark
<1>9. ASSUME NEW t \in Tasklets, NEW p \in Tasklets, Return(t, p) PROVE Good(q')
  BY <1>9, ReturnKeepsTheList DEF Return
<1>10. ASSUME NEW t \in Tasklets, NEW p \in Tasklets, Fail(t, p) PROVE Good(q')
  <2>1. Good(SetCurrentTasklet(q, p))
    BY MarksKeepTheList
  <2> QED BY <1>10, <2>1, RemoveKeepsTheList DEF Fail
<1>11. CASE UNCHANGED q
  BY <1>11
<1> QED BY <1>2, <1>3, <1>4, <1>5, <1>6, <1>7, <1>8, <1>9, <1>10, <1>11 DEF Next

LEMMA AlwaysGood == Spec => []Good(q)
<1> QED BY InitIsGood, NextKeepsTheList, PTL DEF Spec

(* The fields of the queue keep their types, for any number of tasklets and *)
(* channels.                                                                *)
THEOREM QueueTypeCorrect == Spec => []TypeOK
<1>1. Good(q) => TypeOK
  BY DEF Good, TypeOK, WellFormed
<1> QED BY <1>1, AlwaysGood, PTL

(* The queue is one doubly linked list from the main tasklet to the tail,   *)
(* of the scheduled tasklets, as long as the counter says, and no null      *)
(* pointer is followed in it, for any number of tasklets and channels.      *)
THEOREM QueueStaysAList == Spec => []QueueIsAList
<1>1. Good(q) => QueueIsAList
  BY DEF Good, QueueIsAList
<1> QED BY <1>1, AlwaysGood, PTL
--------------------------------------------------------------------------------
(* Lines: sequences in which nobody stands twice. *)
IsLine(l) == l \in Seq(Tasklets) /\ \A i, j \in 1..Len(l) : l[i] = l[j] => i = j

In(t, l) == \E i \in 1..Len(l) : l[i] = t

LEMMA SameLine ==
    ASSUME NEW l \in Seq(Tasklets), NEW m \in Seq(Tasklets), Len(l) = Len(m),
           \A i \in 1..Len(l) : l[i] = m[i]
    PROVE  l = m
OBVIOUS

LEMMA PlaceIsThere ==
    ASSUME NEW l, IsLine(l), NEW k \in 1..Len(l)
    PROVE  Line!Place(l, l[k]) = k
BY DEF IsLine, Line!Place

(* What taking out the tasklet at place k does to a line. *)
LEMMA OthersAt ==
    ASSUME NEW l, IsLine(l), NEW k \in 1..Len(l)
    PROVE  /\ Line!Others(l, l[k]) \in Seq(Tasklets)
           /\ Len(Line!Others(l, l[k])) = Len(l) - 1
           /\ \A i \in 1..(Len(l) - 1) :
                 Line!Others(l, l[k])[i] = IF i < k THEN l[i] ELSE l[i+1]
<1>. DEFINE a == SubSeq(l, 1, k - 1)
            b == SubSeq(l, k + 1, Len(l))
<1>1. l \in Seq(Tasklets) /\ Len(l) \in Nat /\ Line!Place(l, l[k]) = k
  BY PlaceIsThere DEF IsLine
<1>2. Line!Others(l, l[k]) = a \o b
  <2>1. ~(\A i \in DOMAIN l : l[i] # l[k])
    BY <1>1
  <2>. QED
    BY <1>1, <2>1 DEF Line!Others
<1>3. a \in Seq(Tasklets) /\ Len(a) = k - 1 /\ \A i \in 1..(k - 1) : a[i] = l[i]
  BY <1>1
<1>4. b \in Seq(Tasklets) /\ Len(b) = Len(l) - k /\ \A i \in 1..(Len(l) - k) : b[i] = l[k+i]
  BY <1>1
<1>. HIDE DEF a, b
<1>5. /\ a \o b \in Seq(Tasklets) /\ Len(a \o b) = Len(l) - 1
      /\ \A i \in 1..(Len(l) - 1) : (a \o b)[i] = IF i < k THEN a[i] ELSE b[i - k + 1]
  <2>1. /\ a \o b \in Seq(Tasklets) /\ Len(a \o b) = Len(a) + Len(b)
        /\ \A i \in 1..(Len(a) + Len(b)) :
              (a \o b)[i] = IF i <= Len(a) THEN a[i] ELSE b[i - Len(a)]
    BY <1>3, <1>4, ConcatProperties
  <2>2. ASSUME NEW i \in 1..(Len(l) - 1)
        PROVE  i \in 1..(Len(a) + Len(b)) /\ (i <= Len(a) <=> i < k) /\ i - Len(a) = i - k + 1
    BY <1>1, <1>3, <1>4
  <2>. QED
    BY <1>1, <1>3, <1>4, <2>1, <2>2
<1>6. ASSUME NEW i \in 1..(Len(l) - 1), ~(i < k) PROVE b[i - k + 1] = l[i+1]
  <2>1. i - k + 1 \in 1..(Len(l) - k) /\ k + (i - k + 1) = i + 1
    BY <1>1, <1>6
  <2>. QED
    BY <1>4, <2>1
<1>. QED
  BY <1>1, <1>2, <1>3, <1>5, <1>6

LEMMA OthersOfNobody ==
    ASSUME NEW l, IsLine(l), NEW t, ~In(t, l)
    PROVE  Line!Others(l, t) = l
BY DEF Line!Others, In, IsLine

(* What putting t in behind the tasklet at place k and the n that follow it  *)
(* does to a line.                                                           *)
WithIn(b, l, h, t) ==
    /\ b \in Seq(Tasklets) /\ Len(b) = Len(l) + 1
    /\ \A i \in 1..(Len(l) + 1) :
          b[i] = IF i <= h THEN l[i] ELSE IF i = h + 1 THEN t ELSE l[i-1]

LEMMA BehindAt ==
    ASSUME NEW l, IsLine(l), NEW t \in Tasklets, NEW k \in 1..Len(l), NEW n \in Nat,
           NEW h, h = k + n, h <= Len(l)
    PROVE  WithIn(Line!Behind(l, l[k], n, t), l, h, t)
<1>. DEFINE a == SubSeq(l, 1, h)
            b == SubSeq(l, h + 1, Len(l))
            m == Append(a, t)
<1>1. l \in Seq(Tasklets) /\ Len(l) \in Nat /\ Line!Place(l, l[k]) = k /\ h \in 1..Len(l)
  BY PlaceIsThere DEF IsLine
<1>2. Line!Behind(l, l[k], n, t) = a \o <<t>> \o b
  BY <1>1 DEF Line!Behind
<1>3. a \in Seq(Tasklets) /\ Len(a) = h /\ \A i \in 1..h : a[i] = l[i]
  BY <1>1
<1>4. b \in Seq(Tasklets) /\ Len(b) = Len(l) - h /\ \A i \in 1..(Len(l) - h) : b[i] = l[h+i]
  BY <1>1
<1>. HIDE DEF a, b
<1>5. /\ a \o <<t>> = m /\ m \in Seq(Tasklets) /\ Len(m) = h + 1
      /\ \A i \in 1..(h + 1) : m[i] = IF i <= h THEN l[i] ELSE t
  BY <1>1, <1>3
<1>. HIDE DEF m
<1>6. /\ m \o b \in Seq(Tasklets) /\ Len(m \o b) = Len(l) + 1
      /\ \A i \in 1..(Len(l) + 1) : (m \o b)[i] = IF i <= h + 1 THEN m[i] ELSE b[i - h - 1]
  <2>1. /\ m \o b \in Seq(Tasklets) /\ Len(m \o b) = Len(m) + Len(b)
        /\ \A i \in 1..(Len(m) + Len(b)) :
              (m \o b)[i] = IF i <= Len(m) THEN m[i] ELSE b[i - Len(m)]
    <3>1. m \in Seq(Tasklets) /\ b \in Seq(Tasklets)
      BY <1>4, <1>5
    <3>. QED
      BY <3>1, ConcatProperties
  <2>2. ASSUME NEW i \in 1..(Len(l) + 1)
        PROVE  i \in 1..(Len(m) + Len(b)) /\ i - Len(m) = i - h - 1
    BY <1>1, <1>4, <1>5
  <2>. QED
    BY <1>1, <1>4, <1>5, <2>1, <2>2
<1>7. ASSUME NEW i \in 1..(Len(l) + 1), ~(i <= h + 1) PROVE b[i - h - 1] = l[i-1]
  <2>1. i - h - 1 \in 1..(Len(l) - h) /\ h + (i - h - 1) = i - 1
    BY <1>1, <1>7
  <2>. QED
    BY <1>4, <2>1
<1>8. ASSUME NEW i \in 1..(Len(l) + 1)
      PROVE  (m \o b)[i] = IF i <= h THEN l[i] ELSE IF i = h + 1 THEN t ELSE l[i-1]
  BY <1>1, <1>5, <1>6, <1>7
<1>9. Line!Behind(l, l[k], n, t) = m \o b
  BY <1>2, <1>5
<1>. QED
  BY <1>6, <1>8, <1>9 DEF WithIn

--------------------------------------------------------------------------------
(* The line of a numbering. *)
Standing(s, n) == [i \in 1..(n + 1) |-> s[i-1]]

(* l is the line that the queue x stands for. *)
Orders(l, x) ==
    /\ IsLine(l) /\ Len(l) = x.count + 1
    /\ l[1] = Main /\ l[Len(l)] = x.tail
    /\ \A t \in Tasklets : x.scheduled[t] <=> In(t, l)
    /\ \A i \in 1..Len(l) : x.next[l[i]] = IF i = Len(l) THEN NULL ELSE l[i+1]

LEMMA StandingOrders ==
    ASSUME NEW x \in QueueType, x.count \in Nat, NEW s, Numbers(s, x)
    PROVE  /\ Orders(Standing(s, x.count), x)
           /\ \A i \in 1..(x.count + 1) : Standing(s, x.count)[i] = s[i-1]
<1>. DEFINE l == Standing(s, x.count)
<1>1. s \in [0..x.count -> Tasklets] /\ Lists(s, x)
  BY DEF Numbers
<1>2. l \in Seq(Tasklets) /\ Len(l) = x.count + 1 /\ \A i \in 1..(x.count + 1) : l[i] = s[i-1]
  <2>1. \A i \in 1..(x.count + 1) : i - 1 \in 0..x.count
    OBVIOUS
  <2>2. \A i \in 1..(x.count + 1) : s[i-1] \in Tasklets
    BY <1>1, <2>1
  <2>. QED
    BY <2>2 DEF Standing
<1>. HIDE DEF l
<1>3. IsLine(l)
  <2>. SUFFICES ASSUME NEW i \in 1..Len(l), NEW j \in 1..Len(l), l[i] = l[j] PROVE i = j
    BY <1>2 DEF IsLine
  <2>1. i - 1 \in 0..x.count /\ j - 1 \in 0..x.count /\ s[i-1] = s[j-1]
    BY <1>2
  <2>2. i - 1 = j - 1
    BY <1>1, <2>1 DEF Lists
  <2>. QED
    BY <1>2, <2>2
<1>4. l[1] = Main /\ l[Len(l)] = x.tail
  BY <1>1, <1>2 DEF Lists
<1>5. ASSUME NEW t \in Tasklets PROVE x.scheduled[t] <=> In(t, l)
  <2>1. x.scheduled[t] <=> \E i \in 0..x.count : s[i] = t
    BY <1>1 DEF Lists
  <2>2. ASSUME NEW i \in 0..x.count PROVE i + 1 \in 1..Len(l) /\ l[i+1] = s[i]
    BY <1>2
  <2>3. ASSUME NEW i \in 1..Len(l) PROVE i - 1 \in 0..x.count /\ l[i] = s[i-1]
    BY <1>2
  <2>. QED
    BY <2>1, <2>2, <2>3 DEF In
<1>6. ASSUME NEW i \in 1..Len(l) PROVE x.next[l[i]] = IF i = Len(l) THEN NULL ELSE l[i+1]
  <2>1. i - 1 \in 0..x.count /\ l[i] = s[i-1] /\ (i # Len(l) => l[i+1] = s[(i-1)+1])
    BY <1>2
  <2>2. x.next[s[i-1]] = IF i - 1 = x.count THEN NULL ELSE s[(i-1)+1]
    BY <1>1, <2>1 DEF Lists
  <2>. QED
    BY <1>2, <2>1, <2>2
<1>. QED
  BY <1>2, <1>3, <1>4, <1>5, <1>6 DEF Orders, l

(* The walk from the main tasklet goes along the numbering, and then stays   *)
(* at null.                                                                  *)
LEMMA WalkIsTheNumbering ==
    ASSUME NEW x \in QueueType, x.count \in Nat, NEW s, Numbers(s, x)
    PROVE  OrderOf(x) = Standing(s, x.count)
<1>. DEFINE N == Cardinality(Tasklets)
            P(f) == f = [n \in 0..N |-> IF n = 0 THEN Main
                                        ELSE LET t == f[n-1] IN IF t = NULL THEN NULL ELSE x.next[t]]
            walk == CHOOSE f : P(f)
            w == [n \in 0..N |-> IF n <= x.count THEN s[n] ELSE NULL]
<1>1. s \in [0..x.count -> Tasklets] /\ Lists(s, x)
  BY DEF Numbers
<1>2. N \in Nat /\ x.count < N
  <2>1. Visits(0, x.count, s, Tasklets)
    BY <1>1 DEF Visits, Lists
  <2>2. x.count - 0 + 1 <= N /\ N \in Nat
    BY <2>1, NoRepetition, TaskletsAssumption
  <2>. QED
    BY <2>2
<1>3. \A n \in 0..x.count : s[n] # NULL
  BY <1>1, NullAssumption
<1>. HIDE DEF N
<1>4. ASSUME NEW n \in 0..N
      PROVE  w[n] = IF n = 0 THEN Main ELSE LET t == w[n-1] IN IF t = NULL THEN NULL ELSE x.next[t]
  <2>1. CASE n = 0
    BY <1>1, <1>2, <2>1 DEF Lists
  <2>2. CASE n # 0 /\ n - 1 <= x.count
    <3>1. n - 1 \in 0..x.count /\ n - 1 \in 0..N /\ w[n-1] = s[n-1] /\ w[n-1] # NULL
      BY <1>2, <1>3, <2>2
    <3>2. x.next[s[n-1]] = IF n - 1 = x.count THEN NULL ELSE s[n-1+1]
      BY <1>1, <3>1 DEF Lists
    <3>3. w[n] = IF n - 1 = x.count THEN NULL ELSE s[n]
      BY <1>2, <2>2
    <3>4. n - 1 + 1 = n
      OBVIOUS
    <3>. QED
      BY <2>2, <3>1, <3>2, <3>3, <3>4
  <2>3. CASE n # 0 /\ ~(n - 1 <= x.count)
    BY <1>2, <2>3
  <2>. QED
    BY <2>1, <2>2, <2>3
<1>5. P(w)
  BY <1>4
<1>6. P(walk)
  BY <1>5
<1>. HIDE DEF walk, w
<1>7. \A n \in 0..N : walk[n] = w[n]
  <2>1. 0 <= N => walk[0] = w[0]
    BY <1>2, <1>4, <1>6
  <2>2. ASSUME NEW n \in (0 + 1)..N, walk[n-1] = w[n-1] PROVE walk[n] = w[n]
    <3>1. n \in 0..N /\ n # 0
      BY <1>2
    <3>2. walk[n] = IF walk[n-1] = NULL THEN NULL ELSE x.next[walk[n-1]]
      BY <1>6, <3>1
    <3>3. w[n] = IF w[n-1] = NULL THEN NULL ELSE x.next[w[n-1]]
      BY <1>4, <3>1
    <3>. QED
      BY <2>2, <3>2, <3>3
  <2>3. GoAlike(0, N, walk, w)
    BY <2>1, <2>2 DEF GoAlike
  <2>. QED
    BY <1>2, <2>3, SameWalk
<1>8. Walk(x) = walk
  BY DEF Walk, walk, N
<1>9. {n \in 0..N : walk[n] # NULL} = 0..x.count
  BY <1>2, <1>3, <1>7 DEF w
<1>10. Cardinality(0..x.count) = x.count + 1
  BY FS_Interval
<1>11. GetCalculatedTaskletCount(x) = x.count + 1
  BY <1>8, <1>9, <1>10 DEF GetCalculatedTaskletCount, N
<1>12. ASSUME NEW n \in 1..(x.count + 1) PROVE walk[n-1] = s[n-1]
  BY <1>2, <1>7 DEF w
<1>. QED
  BY <1>8, <1>11, <1>12 DEF OrderOf, Standing

LEMMA OrderFacts ==
    ASSUME NEW x, Good(x)
    PROVE  /\ Orders(OrderOf(x), x)
           /\ \E s : Numbers(s, x) /\ OrderOf(x) = Standing(s, x.count)
<1>1. x \in QueueType /\ x.count \in Nat
  BY DEF Good, WellFormed
<1>2. PICK s : Numbers(s, x)
  BY DEF Good, WellFormed, Numbers
<1>3. OrderOf(x) = Standing(s, x.count)
  BY <1>1, <1>2, WalkIsTheNumbering
<1>. QED
  BY <1>1, <1>2, <1>3, StandingOrders

(* The line depends on the links forward only. *)
LEMMA SameLinks ==
    ASSUME NEW x, NEW y, y.next = x.next
    PROVE  OrderOf(y) = OrderOf(x)
<1>1. Walk(y) = Walk(x)
  BY DEF Walk
<1>. QED
  BY <1>1 DEF OrderOf, GetCalculatedTaskletCount

(* A tasklet linked in stands behind the one it was linked in behind. *)
LEMMA LinkedOrder ==
    ASSUME NEW x, Good(x), NEW y, Good(y), NEW t \in Tasklets, NEW c \in Tasklets,
           Linked(x, y, t, c)
    PROVE  OrderOf(y) = Line!Behind(OrderOf(x), c, 0, t)
<1>. DEFINE l == OrderOf(x)
            m == OrderOf(y)
            b == Line!Behind(l, c, 0, t)
<1>1. x \in QueueType /\ WellFormed(x) /\ x.count \in Nat /\ y \in QueueType /\ y.count = x.count + 1
  BY DEF Good, WellFormed, Linked
<1>2. PICK s : Numbers(s, x) /\ l = Standing(s, x.count)
  BY OrderFacts
<1>3. PICK k \in 0..x.count : s[k] = c
  BY <1>2 DEF Numbers, Lists, Linked
<1>. DEFINE r == PutIn(s, x.count, k, t)
<1>4. Numbers(r, y)
  BY <1>1, <1>2, <1>3, LinkIntoNumbers
<1>5. m = Standing(r, y.count)
  BY <1>1, <1>4, WalkIsTheNumbering
<1>6. /\ IsLine(l) /\ Len(l) = x.count + 1 /\ \A i \in 1..Len(l) : l[i] = s[i-1]
  BY <1>1, <1>2, StandingOrders DEF Orders
<1>7. /\ IsLine(m) /\ Len(m) = x.count + 2 /\ \A i \in 1..Len(m) : m[i] = r[i-1]
  BY <1>1, <1>4, <1>5, StandingOrders DEF Orders
<1>8. k + 1 \in 1..Len(l) /\ l[k+1] = c
  BY <1>1, <1>3, <1>6
<1>. HIDE DEF l, m
<1>9. /\ b \in Seq(Tasklets) /\ Len(b) = Len(l) + 1
      /\ \A i \in 1..(Len(l) + 1) :
            b[i] = IF i <= k + 1 THEN l[i] ELSE IF i = k + 2 THEN t ELSE l[i-1]
  <2>1. k + 1 <= Len(l) /\ k + 1 + 0 = k + 1 /\ k + 1 + 1 = k + 2
    BY <1>1, <1>6, <1>8
  <2>2. WithIn(b, l, k + 1, t)
    BY <1>6, <1>8, <2>1, BehindAt
  <2>. QED
    BY <2>1, <2>2 DEF WithIn
<1>. HIDE DEF b
<1>10. ASSUME NEW i \in 1..Len(m) PROVE m[i] = b[i]
  <2>1. m[i] = IF i - 1 <= k THEN s[i-1] ELSE IF i - 1 = k + 1 THEN t ELSE s[i-1-1]
    <3>1. \A j \in 0..(x.count + 1) :
             r[j] = IF j <= k THEN s[j] ELSE IF j = k + 1 THEN t ELSE s[j-1]
      BY DEF PutIn
    <3>. HIDE DEF r
    <3>2. i - 1 \in 0..(x.count + 1)
      BY <1>1, <1>7
    <3>. QED
      BY <1>7, <3>1, <3>2
  <2>2. i \in 1..(Len(l) + 1)
    BY <1>1, <1>6, <1>7
  <2>3. CASE i <= k + 1
    <3>1. i - 1 <= k /\ i \in 1..Len(l)
      BY <1>1, <1>3, <1>6, <2>2, <2>3
    <3>2. m[i] = s[i-1] /\ l[i] = s[i-1]
      BY <1>6, <2>1, <3>1
    <3>. QED
      BY <1>9, <2>2, <2>3, <3>2
  <2>4. CASE i = k + 2
    <3>1. ~(i - 1 <= k) /\ i - 1 = k + 1 /\ ~(i <= k + 1)
      BY <1>3, <2>2, <2>4
    <3>. QED
      BY <1>9, <2>1, <2>2, <2>4, <3>1
  <2>5. CASE i > k + 2
    <3>1. i - 1 \in 1..Len(l)
      BY <1>3, <2>2, <2>5
    <3>2. b[i] = l[i-1] /\ l[i-1] = s[i-1-1]
      BY <1>3, <1>6, <1>9, <2>2, <2>5, <3>1
    <3>. QED
      BY <1>3, <2>1, <2>5, <3>2
  <2>. QED
    BY <1>3, <2>3, <2>4, <2>5
<1>11. m = b
  BY <1>1, <1>6, <1>7, <1>9, <1>10, SameLine DEF IsLine
<1>. QED
  BY <1>11 DEF l, m, b

(* A tasklet linked out leaves the others as they stand. *)
LEMMA UnlinkedOrder ==
    ASSUME NEW x, Good(x), NEW y, Good(y), NEW t \in Tasklets, Unlinked(x, y, t)
    PROVE  OrderOf(y) = Line!Others(OrderOf(x), t)
<1>. DEFINE l == OrderOf(x)
            m == OrderOf(y)
            b == Line!Others(l, t)
<1>1. x \in QueueType /\ WellFormed(x) /\ x.count \in Nat /\ y \in QueueType /\ y.count = x.count - 1
  BY DEF Good, WellFormed, Unlinked
<1>2. PICK s : Numbers(s, x) /\ l = Standing(s, x.count)
  BY OrderFacts
<1>3. PICK k \in 0..x.count : s[k] = t
  BY <1>2 DEF Numbers, Lists, Unlinked
<1>. DEFINE r == TakenOut(s, x.count, k)
<1>4. y.count \in Nat /\ Numbers(r, y)
  BY <1>1, <1>2, <1>3, UnlinkFromNumbers
<1>5. m = Standing(r, y.count)
  BY <1>1, <1>4, WalkIsTheNumbering
<1>6. /\ IsLine(l) /\ Len(l) = x.count + 1 /\ \A i \in 1..Len(l) : l[i] = s[i-1]
  BY <1>1, <1>2, StandingOrders DEF Orders
<1>7. /\ IsLine(m) /\ Len(m) = x.count /\ \A i \in 1..Len(m) : m[i] = r[i-1]
  BY <1>1, <1>4, <1>5, StandingOrders DEF Orders
<1>8. k + 1 \in 1..Len(l) /\ l[k+1] = t
  <2>1. k + 1 \in 1..Len(l) /\ k + 1 - 1 = k
    BY <1>1, <1>3, <1>6
  <2>. QED
    BY <1>3, <1>6, <2>1
<1>. HIDE DEF l, m
<1>9. /\ b \in Seq(Tasklets) /\ Len(b) = Len(l) - 1
      /\ \A i \in 1..(Len(l) - 1) : b[i] = IF i < k + 1 THEN l[i] ELSE l[i+1]
  BY <1>6, <1>8, OthersAt
<1>. HIDE DEF b
<1>10. ASSUME NEW i \in 1..Len(m) PROVE m[i] = b[i]
  <2>1. m[i] = IF i - 1 < k THEN s[i-1] ELSE s[i-1+1]
    <3>1. \A j \in 0..(x.count - 1) : r[j] = IF j < k THEN s[j] ELSE s[j+1]
      BY DEF TakenOut
    <3>. HIDE DEF r
    <3>2. i - 1 \in 0..(x.count - 1)
      BY <1>1, <1>7
    <3>. QED
      BY <1>7, <3>1, <3>2
  <2>2. i \in 1..(Len(l) - 1) /\ i + 1 \in 1..Len(l) /\ i \in 1..Len(l)
    BY <1>1, <1>6, <1>7
  <2>3. l[i] = s[i-1] /\ l[i+1] = s[i-1+1]
    BY <1>6, <2>2
  <2>. QED
    BY <1>3, <1>9, <2>1, <2>2, <2>3
<1>11. m = b
  BY <1>1, <1>6, <1>7, <1>9, <1>10, SameLine DEF IsLine
<1>. QED
  BY <1>11 DEF l, m, b

--------------------------------------------------------------------------------
(* What each operator of the queue does to the line. *)
LEMMA InsertOrder ==
    ASSUME NEW x, Good(x), NEW t \in Tasklets
    PROVE  OrderOf(InsertTasklet(x, t)) =
             IF x.scheduled[t] THEN OrderOf(x) ELSE Append(OrderOf(x), t)
<1>. DEFINE y == InsertTasklet(x, t)
            l == OrderOf(x)
<1>1. /\ Good(y)
      /\ IF x.scheduled[t] THEN y.next = x.next ELSE Linked(x, y, t, x.tail)
  BY InsertKeepsTheList
<1>2. x.tail \in Tasklets
  BY ListFacts DEF Good
<1>3. IsLine(l) /\ Len(l) # 0 /\ l[Len(l)] = x.tail
  BY OrderFacts DEF Orders, Good, WellFormed
<1>. HIDE DEF y, l
<1>4. Line!Behind(l, l[Len(l)], 0, t) = Append(l, t)
  <2>. DEFINE b == Line!Behind(l, l[Len(l)], 0, t)
  <2>1. l \in Seq(Tasklets) /\ Len(l) \in 1..Len(l)
    BY <1>3 DEF IsLine
  <2>2. /\ b \in Seq(Tasklets) /\ Len(b) = Len(l) + 1
        /\ \A i \in 1..(Len(l) + 1) :
              b[i] = IF i <= Len(l) THEN l[i] ELSE IF i = Len(l) + 1 THEN t ELSE l[i-1]
    <3>1. Len(l) + 0 = Len(l) /\ Len(l) <= Len(l)
      BY <2>1
    <3>2. WithIn(b, l, Len(l), t)
      BY <1>3, <2>1, <3>1, BehindAt
    <3>. QED
      BY <3>2 DEF WithIn
  <2>. HIDE DEF b
  <2>3. /\ Append(l, t) \in Seq(Tasklets) /\ Len(Append(l, t)) = Len(l) + 1
        /\ \A i \in 1..(Len(l) + 1) : Append(l, t)[i] = IF i <= Len(l) THEN l[i] ELSE t
    BY <2>1
  <2>4. b = Append(l, t)
    BY <2>1, <2>2, <2>3, SameLine
  <2>. QED
    BY <2>4 DEF b
<1>5. CASE x.scheduled[t]
  BY <1>1, <1>5, SameLinks DEF y, l
<1>6. CASE ~x.scheduled[t]
  BY <1>1, <1>2, <1>3, <1>4, <1>6, LinkedOrder DEF y, l
<1>. QED
  BY <1>5, <1>6 DEF y, l

LEMMA RunNextOrder ==
    ASSUME NEW x, Good(x), NEW t \in Tasklets, x.scheduled[x.current]
    PROVE  OrderOf(InsertTaskletToRunNext(x, t)) =
             IF x.scheduled[t] THEN OrderOf(x) ELSE Line!Behind(OrderOf(x), x.current, 0, t)
<1>1. x.current \in Tasklets
  BY DEF Good
<1>. QED
  BY <1>1, InsertToRunNextKeepsTheList, SameLinks, LinkedOrder

LEMMA RemoveOrder ==
    ASSUME NEW x, Good(x), NEW t \in Tasklets, t # Main
    PROVE  OrderOf(RemoveTasklet(x, t)) = Line!Others(OrderOf(x), t)
<1>1. CASE x.scheduled[t]
  BY <1>1, RemoveKeepsTheList, UnlinkedOrder
<1>2. CASE ~x.scheduled[t]
  BY <1>2, RemoveKeepsTheList, OrderFacts, OthersOfNobody DEF Orders
<1>. QED
  BY <1>1, <1>2

LEMMA DropOrder ==
    ASSUME NEW x, Good(x), NEW t \in Tasklets, t # Main, x.scheduled[t]
    PROVE  OrderOf(DropFromQueue(x, t)) = Line!Others(OrderOf(x), t)
BY DropKeepsTheList, UnlinkedOrder

LEMMA MoveOrder ==
    ASSUME NEW x, Good(x), NEW t \in Tasklets, t # Main, t # x.current, x.scheduled[x.current]
    PROVE  OrderOf(MoveToRunNext(x, t)) =
             Line!Behind(Line!Others(OrderOf(x), t), x.current, 0, t)
<1>. DEFINE out == IF x.scheduled[t] THEN RemoveTasklet(x, t) ELSE x
            y == InsertTaskletToRunNext(out, t)
<1>1. /\ Good(out) /\ out.current = x.current /\ out.scheduled[out.current] /\ ~out.scheduled[t]
  BY RemoveKeepsTheList DEF Good
<1>2. OrderOf(out) = Line!Others(OrderOf(x), t)
  BY RemoveOrder, OrderFacts, OthersOfNobody DEF Orders
<1>. HIDE DEF out
<1>3. OrderOf(y) = Line!Behind(OrderOf(out), out.current, 0, t) /\ Good(y)
  BY <1>1, RunNextOrder, InsertToRunNextKeepsTheList
<1>. HIDE DEF y
<1>4. MoveToRunNext(x, t) = SetReschedule(y, x.current, "FRONT_PLUS_ONE")
  BY DEF MoveToRunNext, out, y
<1>5. MoveToRunNext(x, t).next = y.next
  BY <1>3, <1>4 DEF SetReschedule, Good, QueueType
<1>. QED
  BY <1>1, <1>2, <1>3, <1>5, SameLinks

(* The front is taken out and put back: t stands second behind the current   *)
(* tasklet, and nobody else has moved.                                       *)
LEMMA SecondOrder ==
    ASSUME NEW x, Good(x), NEW t \in Tasklets, ~x.scheduled[t],
           x.scheduled[x.current], x.next[x.current] # NULL
    PROVE  /\ \E i \in 1..(Len(OrderOf(x)) - 1) : OrderOf(x)[i] = x.current
           /\ OrderOf(InsertBehindFront(x, t)) = Line!Behind(OrderOf(x), x.current, 1, t)
<1>. DEFINE c == x.current
            f == x.next[c]
            x1 == RemoveTasklet(x, f)
            x2 == InsertTaskletToRunNext(x1, t)
            x3 == InsertTaskletToRunNext(x2, f)
            l == OrderOf(x)
            l1 == OrderOf(x1)
            l2 == OrderOf(x2)
            l3 == OrderOf(x3)
            b == Line!Behind(l, c, 1, t)
<1>1. c \in Tasklets /\ f \in Tasklets \ {Main, c} /\ x.scheduled[f] /\ f # t
  BY ListFacts DEF Good
<1>2. InsertBehindFront(x, t) = x3
  BY DEF InsertBehindFront
<1>. HIDE DEF f
<1>3. /\ Good(x1) /\ x1.current = c /\ x1.scheduled[c] /\ ~x1.scheduled[t] /\ ~x1.scheduled[f]
      /\ l1 = Line!Others(l, f)
  BY <1>1, RemoveKeepsTheList, RemoveOrder
<1>. HIDE DEF x1
<1>4. /\ Good(x2) /\ x2.current = c /\ x2.scheduled[c]
      /\ Linked(x1, x2, t, c) /\ l2 = Line!Behind(l1, c, 0, t)
  BY <1>3, InsertToRunNextKeepsTheList, RunNextOrder
<1>. HIDE DEF x2
<1>5. ~x2.scheduled[f]
  BY <1>1, <1>3, <1>4 DEF Linked
<1>6. /\ Good(x3) /\ l3 = Line!Behind(l2, c, 0, f)
  BY <1>1, <1>4, <1>5, InsertToRunNextKeepsTheList, RunNextOrder
<1>. HIDE DEF x3, c
<1>7. /\ IsLine(l) /\ IsLine(l1) /\ IsLine(l2)
      /\ In(c, l)
      /\ \A i \in 1..Len(l) : x.next[l[i]] = IF i = Len(l) THEN NULL ELSE l[i+1]
  BY <1>1, <1>3, <1>4, OrderFacts DEF Orders, c
<1>. HIDE DEF l, l1, l2, l3
<1>8. PICK k \in 1..Len(l) : l[k] = c
  BY <1>7 DEF In
<1>9. k # Len(l) /\ k + 1 \in 1..Len(l) /\ l[k+1] = f /\ Len(l) \in Nat
  BY <1>7, <1>8 DEF IsLine, f, c
<1>10. /\ Len(l1) = Len(l) - 1
       /\ \A i \in 1..(Len(l) - 1) : l1[i] = IF i < k + 1 THEN l[i] ELSE l[i+1]
  BY <1>3, <1>7, <1>9, OthersAt
<1>11. k \in 1..Len(l1) /\ l1[k] = c
  BY <1>8, <1>9, <1>10
<1>12. /\ Len(l2) = Len(l)
       /\ \A i \in 1..Len(l) : l2[i] = IF i <= k THEN l1[i] ELSE IF i = k + 1 THEN t ELSE l1[i-1]
  <2>1. k + 0 = k /\ k <= Len(l1) /\ Len(l1) + 1 = Len(l)
    BY <1>9, <1>10, <1>11
  <2>2. WithIn(l2, l1, k, t)
    BY <1>4, <1>7, <1>11, <2>1, BehindAt
  <2>. QED
    BY <2>1, <2>2 DEF WithIn
<1>13. k \in 1..Len(l2) /\ l2[k] = c
  BY <1>8, <1>11, <1>12
<1>14. /\ l3 \in Seq(Tasklets) /\ Len(l3) = Len(l) + 1
       /\ \A i \in 1..(Len(l) + 1) :
             l3[i] = IF i <= k THEN l2[i] ELSE IF i = k + 1 THEN f ELSE l2[i-1]
  <2>1. k + 0 = k /\ k <= Len(l2)
    BY <1>12, <1>13
  <2>2. WithIn(l3, l2, k, f)
    BY <1>1, <1>6, <1>7, <1>13, <2>1, BehindAt
  <2>. QED
    BY <1>12, <2>2 DEF WithIn
<1>15. /\ b \in Seq(Tasklets) /\ Len(b) = Len(l) + 1
       /\ \A i \in 1..(Len(l) + 1) :
             b[i] = IF i <= k + 1 THEN l[i] ELSE IF i = k + 2 THEN t ELSE l[i-1]
  <2>1. k + 1 <= Len(l) /\ k + 1 + 1 = k + 2
    BY <1>9
  <2>2. WithIn(b, l, k + 1, t)
    BY <1>7, <1>8, <2>1, BehindAt
  <2>. QED
    BY <2>1, <2>2 DEF WithIn
<1>. HIDE DEF b
<1>16. ASSUME NEW i \in 1..(Len(l) + 1) PROVE l3[i] = b[i]
  <2>1. CASE i <= k
    <3>1. i \in 1..Len(l) /\ i \in 1..(Len(l) - 1) /\ i < k + 1 /\ i <= k + 1
      BY <1>9, <2>1
    <3>. QED
      BY <1>10, <1>12, <1>14, <1>15, <2>1, <3>1
  <2>2. CASE i = k + 1
    <3>1. ~(i <= k)
      BY <1>9, <2>2
    <3>. QED
      BY <1>9, <1>14, <1>15, <2>2, <3>1
  <2>3. CASE i = k + 2
    <3>1. /\ ~(i <= k) /\ i # k + 1 /\ i - 1 = k + 1 /\ ~(i <= k + 1) /\ ~(k + 1 <= k)
      BY <1>9, <2>3
    <3>. QED
      BY <1>9, <1>12, <1>14, <1>15, <2>3, <3>1
  <2>4. CASE i > k + 2
    <3>1. /\ ~(i <= k) /\ i # k + 1 /\ i # k + 2 /\ ~(i <= k + 1)
          /\ i - 1 \in 1..Len(l) /\ ~(i - 1 <= k) /\ i - 1 # k + 1
          /\ i - 1 - 1 \in 1..(Len(l) - 1) /\ ~(i - 1 - 1 < k + 1) /\ i - 1 - 1 + 1 = i - 1
      BY <1>9, <2>4
    <3>2. l3[i] = l2[i-1] /\ l2[i-1] = l1[i-1-1] /\ l1[i-1-1] = l[i-1]
      BY <1>10, <1>12, <1>14, <3>1
    <3>. QED
      BY <1>15, <3>1, <3>2
  <2>. QED
    BY <1>9, <2>1, <2>2, <2>3, <2>4
<1>17. l3 = b
  BY <1>14, <1>15, <1>16, SameLine
<1>18. k \in 1..(Len(l) - 1)
  BY <1>9
<1>. QED
  BY <1>2, <1>8, <1>17, <1>18 DEF l, l3, b, c

--------------------------------------------------------------------------------
LEMMA WokenFacts ==
    ASSUME Good(q), NEW t \in Tasklets, NEW q0 \in Woken(t)
    PROVE  /\ Good(q0) /\ q0.current = q.current /\ q0.scheduled = q.scheduled
           /\ q0.reschedule \in [Tasklets -> RescheduleType]
           /\ OrderOf(q0) = OrderOf(q)
<1>1. Good(Unblock(q, t)) /\ Good(SetReschedule(Unblock(q, t), t, "NONE"))
  BY MarksKeepTheList DEF RescheduleType
<1>2. /\ Good(q0) /\ q0.current = q.current /\ q0.scheduled = q.scheduled /\ q0.next = q.next
  BY <1>1 DEF Woken, Unblock, SetReschedule, Good, QueueType
<1>. QED
  BY <1>2, SameLinks DEF Good, QueueType

LEMMA MarkedFacts ==
    ASSUME NEW x, Good(x), NEW t \in Tasklets, NEW r \in RescheduleType
    PROVE  /\ OrderOf(SetReschedule(x, t, r)) = OrderOf(x)
           /\ SetReschedule(x, t, r).current = x.current
<1>1. SetReschedule(x, t, r).next = x.next /\ SetReschedule(x, t, r).current = x.current
  BY DEF SetReschedule, Good, QueueType
<1>. QED
  BY <1>1, SameLinks

LEMMA CurrentFacts ==
    ASSUME NEW x, Good(x), NEW t \in Tasklets
    PROVE  /\ Good(SetCurrentTasklet(x, t))
           /\ OrderOf(SetCurrentTasklet(x, t)) = OrderOf(x)
           /\ SetCurrentTasklet(x, t).current = t
           /\ SetCurrentTasklet(x, t).scheduled = x.scheduled
           /\ SetCurrentTasklet(x, t).reschedule = x.reschedule
<1>1. /\ SetCurrentTasklet(x, t).next = x.next /\ SetCurrentTasklet(x, t).current = t
      /\ SetCurrentTasklet(x, t).scheduled = x.scheduled
      /\ SetCurrentTasklet(x, t).reschedule = x.reschedule
  BY DEF SetCurrentTasklet, Good, QueueType
<1>. QED
  BY <1>1, SameLinks, MarksKeepTheList

(* Who stands in the line is who is scheduled. *)
LEMMA InLineFacts ==
    ASSUME Good(q), NEW t \in Tasklets
    PROVE  Line!InLine(t) <=> q.scheduled[t]
<1>1. WalkOrder \in Seq(Tasklets) /\ (q.scheduled[t] <=> In(t, WalkOrder))
  BY OrderFacts DEF Orders, IsLine, WalkOrder
<1>. QED
  BY <1>1 DEF Line!InLine, In

(* What a step does to the line, and to the current tasklet. *)
Goes(l, c) == OrderOf(q') = l /\ q'.current = c

LineStep == Line!Next \/ (WalkOrder' = WalkOrder /\ q'.current = q.current)

LEMMA StaysInLine == ASSUME Goes(OrderOf(q), q.current) PROVE LineStep
BY DEF Goes, LineStep, WalkOrder

LEMMA JoinsTheLine ==
    ASSUME Good(q), NEW t \in Tasklets, ~q.scheduled[t], Goes(Append(OrderOf(q), t), q.current)
    PROVE  LineStep
<1>1. Line!Join(t)
  BY InLineFacts DEF Goes, Line!Join, WalkOrder
<1>. QED
  BY <1>1 DEF LineStep, Line!Next

LEMMA JumpsTheQueue ==
    ASSUME Good(q), NEW t \in Tasklets, t # q.current, q.scheduled[q.current],
           Goes(Line!Behind(Line!Others(OrderOf(q), t), q.current, 0, t), q.current)
    PROVE  LineStep
<1>1. q.current \in Tasklets
  BY DEF Good
<1>2. Line!JumpTheQueue(t)
  BY <1>1, InLineFacts DEF Goes, Line!JumpTheQueue, WalkOrder
<1>. QED
  BY <1>2 DEF LineStep, Line!Next

LEMMA LeavesTheLine ==
    ASSUME NEW t \in Tasklets, t # Main, NEW p \in Tasklets, Goes(Line!Others(OrderOf(q), t), p)
    PROVE  LineStep
<1>1. Line!Leave(t, p)
  BY DEF Goes, Line!Leave, WalkOrder
<1>. QED
  BY <1>1 DEF LineStep, Line!Next

LEMMA InsertInLine ==
    ASSUME Good(q), NEW t \in Tasklets, Insert(t)
    PROVE  LineStep
<1>1. PICK q0 \in Woken(t) : q' = InsertTasklet(q0, t)
  BY DEF Insert
<1>2. Good(q0) /\ q0.current = q.current /\ q0.scheduled = q.scheduled /\ OrderOf(q0) = OrderOf(q)
  BY WokenFacts
<1>3. Goes(IF q.scheduled[t] THEN OrderOf(q) ELSE Append(OrderOf(q), t), q.current)
  BY <1>1, <1>2, InsertOrder, InsertKeepsTheList DEF Goes
<1>. QED
  BY <1>3, StaysInLine, JoinsTheLine

LEMMA InsertToDieInLine ==
    ASSUME Good(q), NEW t \in Tasklets, InsertToDie(t)
    PROVE  LineStep
<1>. DEFINE q0 == Unblock(q, t)
            y == InsertTasklet(q0, t)
<1>1. Good(q0) /\ q0.current = q.current /\ q0.scheduled = q.scheduled /\ OrderOf(q0) = OrderOf(q)
  BY WokenFacts DEF Woken
<1>2. q' = SetReschedule(y, t, "NONE")
  BY DEF InsertToDie
<1>. HIDE DEF q0
<1>3. Good(y) /\ y.current = q.current
      /\ OrderOf(y) = IF q.scheduled[t] THEN OrderOf(q) ELSE Append(OrderOf(q), t)
  BY <1>1, InsertOrder, InsertKeepsTheList
<1>. HIDE DEF y
<1>4. Goes(IF q.scheduled[t] THEN OrderOf(q) ELSE Append(OrderOf(q), t), q.current)
  BY <1>2, <1>3, MarkedFacts DEF Goes, RescheduleType
<1>. QED
  BY <1>4, StaysInLine, JoinsTheLine

LEMMA WakeInLine ==
    ASSUME Good(q), NEW t \in Tasklets, WakeToRunNext(t)
    PROVE  LineStep
<1>. DEFINE q0 == Unblock(q, t)
            y == InsertTaskletToRunNext(q0, t)
<1>1. Good(q0) /\ q0.current = q.current /\ q0.scheduled = q.scheduled /\ OrderOf(q0) = OrderOf(q)
  BY WokenFacts DEF Woken
<1>2. q' = SetReschedule(y, q.current, "BACK") /\ q.scheduled[q.current] /\ q.current \in Tasklets
  BY DEF WakeToRunNext, Good
<1>. HIDE DEF q0
<1>3. /\ Good(y) /\ y.current = q.current
      /\ OrderOf(y) = IF q.scheduled[t] THEN OrderOf(q)
                      ELSE Line!Behind(OrderOf(q), q.current, 0, t)
  BY <1>1, <1>2, RunNextOrder, InsertToRunNextKeepsTheList
<1>. HIDE DEF y
<1>4. Goes(IF q.scheduled[t] THEN OrderOf(q) ELSE Line!Behind(OrderOf(q), q.current, 0, t), q.current)
  BY <1>2, <1>3, MarkedFacts DEF Goes, RescheduleType
<1>5. ~q.scheduled[t] => Line!Others(OrderOf(q), t) = OrderOf(q)
  BY OrderFacts, OthersOfNobody DEF Orders
<1>. QED
  BY <1>2, <1>4, <1>5, StaysInLine, JumpsTheQueue

LEMMA RunFlatInLine ==
    ASSUME Good(q), NEW t \in Tasklets, RunFlat(t)
    PROVE  LineStep
<1>1. PICK q0 \in Woken(t) : q' = MoveToRunNext(q0, t)
  BY DEF RunFlat
<1>2. Good(q0) /\ q0.current = q.current /\ q0.scheduled = q.scheduled /\ OrderOf(q0) = OrderOf(q)
  BY WokenFacts
<1>3. q.scheduled[q.current] /\ t # Main /\ t # q.current
  BY DEF RunFlat
<1>4. OrderOf(q') = Line!Behind(Line!Others(OrderOf(q), t), q.current, 0, t)
      /\ q'.current = q.current
  BY <1>1, <1>2, <1>3, MoveOrder, MoveToRunNextKeepsTheList
<1>. QED
  BY <1>3, <1>4, JumpsTheQueue DEF Goes

LEMMA RemoveInLine ==
    ASSUME Good(q), NEW t \in Tasklets, Remove(t)
    PROVE  LineStep
<1>1. t # Main /\ Goes(Line!Others(OrderOf(q), t), q.current) /\ q.current \in Tasklets
  BY RemoveOrder, RemoveKeepsTheList DEF Remove, Goes, Good
<1>. QED
  BY <1>1, LeavesTheLine

LEMMA SwitchInLine ==
    ASSUME Good(q), NEW t \in Tasklets, SwitchTo(t)
    PROVE  LineStep
<1>1. Line!Switch(t)
  BY CurrentFacts DEF SwitchTo, Line!Switch, WalkOrder
<1>. QED
  BY <1>1 DEF LineStep, Line!Next

LEMMA MarkInLine ==
    ASSUME Good(q), NEW t \in Tasklets, Mark(t)
    PROVE  LineStep
<1>1. Goes(OrderOf(q), q.current)
  <2>1. ASSUME NEW r \in RescheduleType, q' = SetReschedule(q, t, r) PROVE Goes(OrderOf(q), q.current)
    BY <2>1, MarkedFacts DEF Goes
  <2>2. ASSUME NEW q0 \in Woken(t), q' = q0 PROVE Goes(OrderOf(q), q.current)
    BY <2>2, WokenFacts DEF Goes
  <2>3. ASSUME NEW c \in Channels, q' = Block(q, t, c) PROVE Goes(OrderOf(q), q.current)
    <3>1. q'.next = q.next /\ q'.current = q.current
      BY <2>3 DEF Block, Good, QueueType
    <3>. QED
      BY <3>1, SameLinks DEF Goes
  <2>. QED
    BY <2>1, <2>2, <2>3 DEF Mark
<1>. QED
  BY <1>1, StaysInLine

LEMMA FailInLine ==
    ASSUME Good(q), NEW t \in Tasklets, NEW p \in Tasklets, Fail(t, p)
    PROVE  LineStep
<1>1. t # Main /\ Goes(Line!Others(OrderOf(q), t), p)
  BY CurrentFacts, RemoveOrder, RemoveKeepsTheList DEF Fail, Goes
<1>. QED
  BY <1>1, LeavesTheLine

LEMMA ReturnInLine ==
    ASSUME Good(q), NEW t \in Tasklets, NEW p \in Tasklets, Return(t, p)
    PROVE  LineStep
<1>. DEFINE c == SetCurrentTasklet(q, p)
            d == DropFromQueue(c, t)
            rest == Line!Others(OrderOf(q), t)
<1>1. /\ t # Main /\ q.scheduled[t] /\ q' = ReturnToRunner(q, t, p)
      /\ q.reschedule[t] = "FRONT_PLUS_ONE" =>
            p # t /\ q.scheduled[p] /\ DropFromQueue(q, t).next[p] # NULL
      /\ q.reschedule[t] \in RescheduleType
  BY DEF Return, Good, QueueType
<1>2. /\ Good(c) /\ OrderOf(c) = OrderOf(q) /\ c.current = p
      /\ c.scheduled = q.scheduled /\ c.reschedule = q.reschedule
  BY CurrentFacts
<1>3. d.next = DropFromQueue(q, t).next
  BY <1>1, DropIgnoresCurrent
<1>4. q' = ReinsertAsAsked(d, t)
  BY <1>1, NullAssumption DEF ReturnToRunner
<1>. HIDE DEF c
<1>5. /\ Good(d) /\ OrderOf(d) = rest /\ d.current = p /\ d.reschedule = q.reschedule
      /\ \A u \in Tasklets : d.scheduled[u] <=> (u # t /\ q.scheduled[u])
  BY <1>1, <1>2, DropOrder, DropKeepsTheList
<1>. HIDE DEF d
<1>6. CASE q.reschedule[t] = "NONE"
  <2>1. Goes(rest, p)
    BY <1>4, <1>5, <1>6 DEF ReinsertAsAsked, Goes
  <2>. QED
    BY <1>1, <2>1, LeavesTheLine
<1>7. CASE q.reschedule[t] = "BACK"
  <2>. DEFINE y == InsertTasklet(d, t)
  <2>1. Good(y) /\ OrderOf(y) = Append(rest, t) /\ y.current = p
    BY <1>5, InsertOrder, InsertKeepsTheList
  <2>2. q' = SetReschedule(y, t, "NONE")
    BY <1>4, <1>5, <1>7 DEF ReinsertAsAsked
  <2>. HIDE DEF y
  <2>3. Goes(Append(rest, t), p)
    BY <2>1, <2>2, MarkedFacts DEF Goes, RescheduleType
  <2>4. Line!GoBackToTheEnd(t, p)
    BY <1>1, <2>3, InLineFacts DEF Line!GoBackToTheEnd, Goes, WalkOrder
  <2>. QED
    BY <2>4 DEF LineStep, Line!Next
<1>8. CASE q.reschedule[t] = "FRONT_PLUS_ONE"
  <2>. DEFINE y == InsertBehindFront(d, t)
  <2>1. d.scheduled[d.current] /\ d.next[d.current] # NULL /\ ~d.scheduled[t]
    BY <1>1, <1>3, <1>5, <1>8
  <2>2. /\ Good(y) /\ OrderOf(y) = Line!Behind(rest, p, 1, t) /\ y.current = p
        /\ \E i \in 1..(Len(rest) - 1) : rest[i] = p
    BY <1>5, <2>1, SecondOrder, InsertBehindFrontKeepsTheList
  <2>3. q' = SetReschedule(y, t, "NONE")
    BY <1>4, <1>5, <1>8 DEF ReinsertAsAsked
  <2>. HIDE DEF y
  <2>4. Goes(Line!Behind(rest, p, 1, t), p)
    BY <2>2, <2>3, MarkedFacts DEF Goes, RescheduleType
  <2>5. Line!GoBackSecond(t, p)
    BY <1>1, <2>2, <2>4, InLineFacts DEF Line!GoBackSecond, Goes, WalkOrder
  <2>. QED
    BY <2>5 DEF LineStep, Line!Next
<1>. QED
  BY <1>1, <1>6, <1>7, <1>8 DEF RescheduleType

LEMMA InitInLine == Init => Line!Init
<1>. SUFFICES ASSUME Init PROVE Line!Init
  OBVIOUS
<1>1. Good(q) /\ q.current = Main /\ q.count = 0
  BY InitIsGood DEF Init, InitQueue
<1>2. IsLine(WalkOrder) /\ Len(WalkOrder) = 1 /\ WalkOrder[1] = Main
  <2>1. Orders(WalkOrder, q)
    BY <1>1, OrderFacts DEF WalkOrder
  <2>. QED
    BY <1>1, <2>1 DEF Orders
<1>3. WalkOrder = <<Main>>
  BY <1>2, MainAssumption DEF IsLine
<1>. QED
  BY <1>1, <1>3 DEF Line!Init

LEMMA NextInLine == Good(q) /\ [Next]_q => [Line!Next]_(Line!vars)
<1>. SUFFICES ASSUME Good(q), [Next]_q PROVE LineStep
  BY DEF LineStep, Line!vars
<1>1. CASE UNCHANGED q
  BY <1>1, StaysInLine DEF Goes
<1>2. CASE Next
  BY <1>2, InsertInLine, InsertToDieInLine, WakeInLine, RunFlatInLine, RemoveInLine,
     SwitchInLine, MarkInLine, ReturnInLine, FailInLine DEF Next
<1>. QED
  BY <1>1, <1>2

(* The linked list implements the line: every method of the queue lets one  *)
(* tasklet join, leave or jump to a place the line has for it, and nobody   *)
(* else is overtaken, for any number of tasklets and channels.              *)
THEOREM QueueImplementsLine == Spec => LineSpec
<1> QED BY InitInLine, NextInLine, AlwaysGood, PTL DEF Spec, LineSpec, Line!Spec
================================================================================
