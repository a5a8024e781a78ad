---------------------------- MODULE OwnershipProofs ----------------------------
(***************************************************************************)
(* Proofs about Ownership, for any number of tasklets and channels: the    *)
(* links of the blocked lists, which tasklets leave from the middle, and   *)
(* the references that the run queue and the channels hold.                *)
(***************************************************************************)
EXTENDS Ownership, WalkLemmas
B == INSTANCE ChannelBookProofs WITH ch <- Lists

--------------------------------------------------------------------------------
(* The linked lists. k is what each tasklet notes as its neighbours.        *)

Alone == [next |-> NULL, prev |-> NULL]

LinksType == [Tasklets -> [next : Tasklets \cup {NULL}, prev : Tasklets \cup {NULL}]]

(* The links of k lead along s, from first to last and back.                *)
Strung(s, k, first, last) ==
    /\ s \in Seq(Tasklets) /\ B!Once(s)
    /\ first = IF s = <<>> THEN NULL ELSE s[1]
    /\ last = IF s = <<>> THEN NULL ELSE s[Len(s)]
    /\ \A i \in 1..Len(s) : /\ k[s[i]].prev = IF i = Len(s) THEN NULL ELSE s[i+1]
                            /\ k[s[i]].next = IF i = 1 THEN NULL ELSE s[i-1]

Backwards(s) == [i \in 1..Len(s) |-> s[Len(s) + 1 - i]]

(* A walk finds the list. *)
LEMMA WalkedIsTheList ==
    ASSUME NEW s \in Seq(Tasklets), B!Once(s), NEW after,
           \A i \in 1..Len(s) : after[s[i]] = IF i = Len(s) THEN NULL ELSE s[i+1]
    PROVE  Walked(IF s = <<>> THEN NULL ELSE s[1], after) = s
<1>. DEFINE N == Cardinality(Tasklets)
            start == IF s = <<>> THEN NULL ELSE s[1]
            w == [n \in 1..N |-> IF n <= Len(s) THEN s[n] ELSE NULL]
            P(f) == f = [n \in 1..N |-> IF n = 1 THEN start
                                        ELSE IF f[n-1] = NULL THEN NULL ELSE after[f[n-1]]]
            walk == CHOOSE f : P(f)
<1>1. Len(s) \in Nat /\ \A i \in 1..Len(s) : s[i] \in Tasklets /\ s[i] # NULL
  BY OwnershipAssumption
<1>2. Len(s) <= N /\ N \in Nat
  <2>1. Visits(1, Len(s), s, Tasklets)
    BY <1>1 DEF B!Once, Visits
  <2>2. Len(s) - 1 + 1 <= N /\ N \in Nat
    BY <1>1, <2>1, OwnershipAssumption, NoRepetition
  <2>. QED
    BY <1>1, <2>2
<1>3. s = <<>> <=> Len(s) = 0
  OBVIOUS
<1>. HIDE DEF N
<1>4. ASSUME NEW n \in 1..N
      PROVE  w[n] = IF n = 1 THEN start ELSE IF w[n-1] = NULL THEN NULL ELSE after[w[n-1]]
  <2>1. CASE n = 1
    BY <1>1, <1>3, <2>1
  <2>2. CASE n # 1 /\ n - 1 <= Len(s)
    <3>1. n - 1 \in 1..Len(s) /\ n - 1 \in 1..N /\ w[n-1] = s[n-1] /\ w[n-1] # NULL
      BY <1>1, <1>2, <2>2
    <3>2. after[s[n-1]] = IF n - 1 = Len(s) THEN NULL ELSE s[n]
      BY <3>1
    <3>3. w[n] = IF n - 1 = Len(s) THEN NULL ELSE s[n]
      BY <1>1, <2>2
    <3>. QED
      BY <2>2, <3>1, <3>2, <3>3
  <2>3. CASE n # 1 /\ ~(n - 1 <= Len(s))
    BY <1>1, <1>2, <2>3
  <2>. QED
    BY <2>1, <2>2, <2>3
<1>. HIDE DEF start
<1>5. P(w)
  BY <1>4
<1>6. P(walk)
  BY <1>5
<1>. HIDE DEF walk, w
<1>7. \A n \in 1..N : walk[n] = w[n]
  <2>1. 1 <= N => walk[1] = w[1]
    BY <1>2, <1>4, <1>6
  <2>2. ASSUME NEW n \in (1 + 1)..N, walk[n-1] = w[n-1] PROVE walk[n] = w[n]
    BY SMTT(30), <1>2, <1>4, <1>6, <2>2
  <2>3. GoAlike(1, N, walk, w)
    BY <2>1, <2>2 DEF GoAlike
  <2>. QED
    BY <1>2, <2>3, SameWalk
<1>8. {m \in 1..N : walk[m] # NULL} = 1..Len(s)
  BY <1>1, <1>2, <1>7 DEF w
<1>9. Cardinality(1..Len(s)) = Len(s)
  BY <1>1, IntervalSize
<1>10. Walked(start, after) = [n \in 1..Cardinality({m \in 1..N : walk[m] # NULL}) |-> walk[n]]
  BY DEF Walked, walk, N
<1>11. Walked(start, after) = [n \in 1..Len(s) |-> s[n]]
  BY <1>1, <1>2, <1>7, <1>8, <1>9, <1>10 DEF w
<1>. QED
  BY <1>11 DEF start

LEMMA BackwardsFacts ==
    ASSUME NEW T, NEW s \in Seq(T), B!Once(s)
    PROVE  /\ Backwards(s) \in Seq(T) /\ B!Once(Backwards(s)) /\ Len(Backwards(s)) = Len(s)
           /\ Backwards(s) = <<>> <=> s = <<>>
           /\ \A i \in 1..Len(s) : Backwards(s)[i] = s[Len(s) + 1 - i]
<1>. DEFINE r == Backwards(s)
<1>1. \A i \in 1..Len(s) : Len(s) + 1 - i \in 1..Len(s)
  OBVIOUS
<1>2. r \in Seq(T) /\ Len(r) = Len(s) /\ DOMAIN r = 1..Len(s)
  BY <1>1 DEF Backwards
<1>3. \A i \in 1..Len(s) : r[i] = s[Len(s) + 1 - i]
  BY DEF Backwards
<1>. HIDE DEF r
<1>4. B!Once(r)
  BY <1>1, <1>2, <1>3 DEF B!Once
<1>. QED
  BY <1>2, <1>3, <1>4 DEF r

(* Read from either end. *)
LEMMA StrungIsRead ==
    ASSUME NEW s, NEW k, NEW first, NEW last, Strung(s, k, first, last)
    PROVE  /\ Walked(first, [t \in Tasklets |-> k[t].prev]) = s
           /\ Walked(last, [t \in Tasklets |-> k[t].next]) = Backwards(s)
<1>. DEFINE r == Backwards(s)
            before == [t \in Tasklets |-> k[t].next]
<1>1. \A i \in 1..Len(s) : s[i] \in Tasklets
  BY DEF Strung
<1>2. Walked(first, [t \in Tasklets |-> k[t].prev]) = s
  BY <1>1, WalkedIsTheList DEF Strung
<1>3. /\ r \in Seq(Tasklets) /\ B!Once(r) /\ Len(r) = Len(s)
      /\ r = <<>> <=> s = <<>>
      /\ \A i \in 1..Len(s) : r[i] = s[Len(s) + 1 - i]
  BY BackwardsFacts DEF Strung
<1>4. last = IF r = <<>> THEN NULL ELSE r[1]
  BY <1>3 DEF Strung
<1>5. ASSUME NEW i \in 1..Len(r)
      PROVE  before[r[i]] = IF i = Len(r) THEN NULL ELSE r[i+1]
  <2>. DEFINE j == Len(s) + 1 - i
  <2>1. j \in 1..Len(s) /\ Len(s) \in Nat /\ r[i] = s[j] /\ s[j] \in Tasklets
    BY <1>1, <1>3
  <2>2. before[r[i]] = IF j = 1 THEN NULL ELSE s[j-1]
    BY <2>1 DEF Strung
  <2>3. j = 1 <=> i = Len(r)
    BY <1>3, <2>1
  <2>4. j # 1 => i + 1 \in 1..Len(s) /\ r[i+1] = s[j-1]
    BY <1>3, <2>1
  <2>. QED
    BY <2>2, <2>3, <2>4
<1>. HIDE DEF r, before
<1>6. Walked(last, before) = r
  BY <1>3, <1>4, <1>5, WalkedIsTheList
<1>. QED
  BY <1>2, <1>6 DEF r, before

(* t is linked in at the end. *)
Tied(k, last, t) == IF last = NULL THEN k ELSE [k EXCEPT ![last].prev = t, ![t].next = last]

LEMMA AppendIsStrung ==
    ASSUME NEW k \in LinksType, NEW s, NEW first, NEW last, Strung(s, k, first, last),
           NEW t \in Tasklets, ~B!In(t, s), k[t] = Alone
    PROVE  /\ Strung(Append(s, t), Tied(k, last, t), IF last = NULL THEN t ELSE first, t)
           /\ Tied(k, last, t) \in LinksType
           /\ \A u \in Tasklets : u # t /\ ~B!In(u, s) => Tied(k, last, t)[u] = k[u]
<1>. DEFINE r == Append(s, t)
            n == Len(s)
            k2 == Tied(k, last, t)
<1>0. k2 = IF last = NULL THEN k ELSE [k EXCEPT ![last].prev = t, ![t].next = last]
  BY DEF Tied
<1>1. /\ s \in Seq(Tasklets) /\ n \in Nat /\ DOMAIN s = 1..n
      /\ \A i \in 1..n : s[i] \in Tasklets /\ s[i] # NULL /\ s[i] # t
      /\ t # NULL
      /\ s = <<>> <=> n = 0
  BY OwnershipAssumption DEF Strung, B!In
<1>2. r \in Seq(Tasklets) /\ B!Once(r) /\ Len(r) = n + 1 /\ r # <<>>
  <2>1. B!Once(s)
    BY DEF Strung
  <2>2. r \in Seq(Tasklets) /\ B!Once(r) /\ Len(r) = n + 1
    BY <1>1, <2>1, B!AppendKeeps
  <2>. QED
    BY <1>1, <2>2
<1>3. r[n + 1] = t /\ \A i \in 1..n : r[i] = s[i]
  BY <1>1
<1>. HIDE DEF r, n, k2
<1>4. /\ \A i \in 1..n : /\ k[s[i]].prev = IF i = n THEN NULL ELSE s[i+1]
                         /\ k[s[i]].next = IF i = 1 THEN NULL ELSE s[i-1]
      /\ \A i, j \in 1..n : s[i] = s[j] => i = j
  BY <1>1 DEF Strung, B!Once, n
<1>5. CASE s = <<>>
  <2>1. last = NULL /\ k2 = k /\ n = 0
    BY <1>0, <1>1, <1>5 DEF Strung
  <2>2. k2[t].prev = NULL /\ k2[t].next = NULL
    BY <2>1 DEF Alone
  <2>3. Len(r) = 1 /\ r[1] = t
    BY <1>2, <1>3, <2>1
  <2>. QED
    BY <1>2, <2>1, <2>2, <2>3 DEF Strung, r, k2
<1>6. CASE s # <<>>
  <2>0. last = s[n] /\ first = s[1]
    BY <1>6 DEF Strung, n
  <2>1. n \in 1..n /\ 1 \in 1..n /\ last = s[n] /\ first = s[1] /\ last # NULL
    BY <1>1, <1>6, <2>0
  <2>2. last \in Tasklets /\ last # t
    BY <1>1, <2>1
  <2>3. /\ k2 \in LinksType
        /\ k2[last] = [k[last] EXCEPT !.prev = t] /\ k2[t] = [k[t] EXCEPT !.next = last]
        /\ \A u \in Tasklets \ {last, t} : k2[u] = k[u]
    BY <1>0, <2>1, <2>2 DEF LinksType
  <2>4. /\ k2[last].prev = t /\ k2[last].next = k[last].next
        /\ k2[t].next = last /\ k2[t].prev = NULL
    BY <2>2, <2>3 DEF LinksType, Alone
  <2>5. ASSUME NEW i \in 1..(n + 1)
        PROVE  /\ k2[r[i]].prev = IF i = n + 1 THEN NULL ELSE r[i+1]
               /\ k2[r[i]].next = IF i = 1 THEN NULL ELSE r[i-1]
    <3>1. CASE i = n + 1
      BY <1>1, <1>3, <2>1, <2>4, <3>1
    <3>2. CASE i = n
      <4>1. k2[r[i]].prev = r[i+1] /\ k2[r[i]].next = k[s[i]].next /\ i # n + 1
        BY <1>1, <1>3, <2>1, <2>4, <3>2
      <4>2. i # 1 => i - 1 \in 1..n /\ r[i-1] = s[i-1]
        BY <1>1, <1>3, <2>1, <3>2
      <4>. QED
        BY <1>4, <2>1, <3>2, <4>1, <4>2
    <3>3. CASE i # n + 1 /\ i # n
      <4>1. i \in 1..n /\ i + 1 \in 1..n /\ (i # 1 => i - 1 \in 1..n)
        BY <1>1, <3>3
      <4>2. s[i] \in Tasklets \ {last, t}
        BY <1>1, <1>4, <2>1, <3>3, <4>1
      <4>3. k2[r[i]] = k[s[i]]
        BY <1>3, <2>3, <4>1, <4>2
      <4>. QED
        BY <1>3, <1>4, <3>3, <4>1, <4>3
    <3>. QED
      BY <3>1, <3>2, <3>3
  <2>6. r[1] = s[1]
    BY <1>3, <2>1
  <2>7. \A u \in Tasklets : u # t /\ ~B!In(u, s) => k2[u] = k[u]
    BY <1>1, <2>1, <2>3 DEF B!In
  <2>8. r[Len(r)] = t /\ first = r[1]
    BY <1>2, <1>3, <2>1, <2>6
  <2>9. \A i \in 1..Len(r) : /\ k2[r[i]].prev = IF i = Len(r) THEN NULL ELSE r[i+1]
                             /\ k2[r[i]].next = IF i = 1 THEN NULL ELSE r[i-1]
    BY <1>2, <2>5
  <2>10. Strung(r, k2, first, t)
    BY <1>2, <2>8, <2>9 DEF Strung
  <2>. QED
    BY <2>1, <2>3, <2>7, <2>10 DEF r, k2
<1>. QED
  BY <1>5, <1>6

(* A list without t, which stood at j. *)
LEMMA UnlinkedAt ==
    ASSUME NEW T, NEW s \in Seq(T), B!Once(s), NEW t, B!In(t, s)
    PROVE  \E j \in 1..Len(s) :
              /\ s[j] = t
              /\ B!Unlinked(s, t) = [i \in 1..(Len(s) - 1) |-> IF i < j THEN s[i] ELSE s[i+1]]
              /\ Len(B!Unlinked(s, t)) = Len(s) - 1
<1>. DEFINE j == CHOOSE i \in DOMAIN s : s[i] = t
<1>1. j \in 1..Len(s) /\ s[j] = t
  BY DEF B!In
<1>2. B!Unlinked(s, t) = [i \in 1..(Len(s) - 1) |-> IF i < j THEN s[i] ELSE s[i+1]]
  BY DEF B!Unlinked, B!In
<1>3. Len(B!Unlinked(s, t)) = Len(s) - 1
  BY B!UnlinkedKeeps
<1>. HIDE DEF j
<1>. QED
  BY <1>1, <1>2, <1>3

(* t is taken off a list of c, at an end or in the middle. *)
LEMMA UnlinkedIsStrung ==
    ASSUME link \in LinksType, NEW c, NEW side \in Sides, NEW s,
           Strung(s, link, list[c].first[side], list[c].last[side]),
           NEW t \in Tasklets, B!In(t, s),
           \A x \in Sides \ {side} : list[c].first[x] # t /\ list[c].last[x] # t
    PROVE  /\ Strung(B!Unlinked(s, t), LinkRemoved(c, t),
                     IF list[c].first[side] = t THEN link[t].prev ELSE list[c].first[side],
                     IF list[c].last[side] = t THEN link[t].next ELSE list[c].last[side])
           /\ LinkRemoved(c, t) \in LinksType
           /\ LinkRemoved(c, t)[t] = Alone
           /\ \A u \in Tasklets : ~B!In(u, s) => LinkRemoved(c, t)[u] = link[u]
<1>. DEFINE r == B!Unlinked(s, t)
            k == LinkRemoved(c, t)
            n == link[t].next
            p == link[t].prev
            m == Len(s)
            isFirst == \E x \in Sides : list[c].first[x] = t
            isLast == \E x \in Sides : list[c].last[x] = t
            first == list[c].first[side]
            last == list[c].last[side]
<1>1. /\ s \in Seq(Tasklets) /\ B!Once(s) /\ m \in Nat /\ DOMAIN s = 1..m /\ s # <<>>
      /\ \A i \in 1..m : s[i] \in Tasklets /\ s[i] # NULL
  BY OwnershipAssumption DEF Strung, B!In
<1>2. r \in Seq(Tasklets) /\ B!Once(r)
  BY <1>1, B!UnlinkedKeeps
<1>3. PICK j \in 1..m : /\ s[j] = t /\ Len(r) = m - 1
                        /\ r = [i \in 1..(m - 1) |-> IF i < j THEN s[i] ELSE s[i+1]]
  <2>. HIDE DEF r
  <2>1. \E j \in 1..Len(s) :
              /\ s[j] = t
              /\ r = [i \in 1..(Len(s) - 1) |-> IF i < j THEN s[i] ELSE s[i+1]]
              /\ Len(r) = Len(s) - 1
    BY <1>1, UnlinkedAt DEF r
  <2>. QED
    BY <2>1
<1>4. \A i \in 1..m : s[i] = t <=> i = j
  BY <1>1, <1>3 DEF B!Once
<1>5. first = s[1] /\ last = s[m] /\ 1 \in 1..m /\ m \in 1..m
  <2>1. first = s[1] /\ last = s[m]
    BY <1>1 DEF Strung
  <2>2. 1 \in 1..m /\ m \in 1..m
    BY <1>1, <1>3
  <2>. QED
    BY <2>1, <2>2
<1>6. /\ \A i \in 1..m : /\ link[s[i]].prev = IF i = m THEN NULL ELSE s[i+1]
                         /\ link[s[i]].next = IF i = 1 THEN NULL ELSE s[i-1]
      /\ \A i, l \in 1..m : s[i] = s[l] => i = l
  BY <1>1 DEF Strung, B!Once
<1>7. (isFirst <=> first = t) /\ (isLast <=> last = t)
  OBVIOUS
<1>8. /\ k \in LinksType
      /\ \A u \in Tasklets :
            /\ k[u].next = CASE u = t -> NULL
                             [] u = p /\ u # t /\ isFirst -> NULL
                             [] u = p /\ u # t /\ ~isFirst /\ ~isLast -> n
                             [] OTHER -> link[u].next
            /\ k[u].prev = CASE u = t -> NULL
                             [] u = n /\ u # t /\ isLast -> NULL
                             [] u = n /\ u # t /\ ~isFirst /\ ~isLast -> p
                             [] OTHER -> link[u].prev
  BY DEF LinkRemoved, LinksType
<1>. HIDE DEF k, r, isFirst, isLast, first, last, m
<1>9. /\ n = IF j = 1 THEN NULL ELSE s[j-1]
      /\ p = IF j = m THEN NULL ELSE s[j+1]
  BY <1>3, <1>6
<1>. HIDE DEF n, p
<1>10. isFirst <=> j = 1
  BY <1>3, <1>4, <1>5, <1>7
<1>11. isLast <=> j = m
  BY <1>3, <1>4, <1>5, <1>7
<1>12. r = <<>> <=> m = 1
  BY <1>1, <1>2, <1>3
<1>13. ASSUME NEW i \in 1..(m - 1) PROVE r[i] = IF i < j THEN s[i] ELSE s[i+1]
  BY <1>3
<1>14. ASSUME NEW i \in 1..m, i # j, i # j - 1 PROVE k[s[i]].prev = link[s[i]].prev
  <2>1. s[i] # t
    BY <1>4, <1>14
  <2>2. s[i] # n
    <3>1. CASE j = 1
      BY <1>1, <1>9, <3>1
    <3>2. CASE j # 1
      <4>1. j - 1 \in 1..m /\ n = s[j-1]
        BY <1>1, <1>9, <3>2
      <4>. QED
        BY <1>6, <1>14, <4>1
    <3>. QED
      BY <3>1, <3>2
  <2>. QED
    BY <1>1, <1>8, <2>1, <2>2
<1>15. ASSUME NEW i \in 1..m, i # j, i # j + 1 PROVE k[s[i]].next = link[s[i]].next
  <2>1. s[i] # t
    BY <1>4, <1>15
  <2>2. s[i] # p
    <3>1. CASE j = m
      BY <1>1, <1>9, <3>1
    <3>2. CASE j # m
      <4>1. j + 1 \in 1..m /\ p = s[j+1]
        BY <1>1, <1>9, <3>2
      <4>. QED
        BY <1>6, <1>15, <4>1
    <3>. QED
      BY <3>1, <3>2
  <2>. QED
    BY <1>1, <1>8, <2>1, <2>2
<1>16. j # 1 => j - 1 \in 1..m /\ k[s[j-1]].prev = p
  <2>. SUFFICES ASSUME j # 1 PROVE j - 1 \in 1..m /\ k[s[j-1]].prev = p
    OBVIOUS
  <2>1. j - 1 \in 1..m /\ s[j-1] = n /\ s[j-1] # t /\ s[j-1] \in Tasklets /\ ~isFirst
    BY <1>1, <1>4, <1>9, <1>10
  <2>2. isLast => p = NULL
    BY <1>9, <1>11
  <2>. QED
    BY <1>8, <2>1, <2>2
<1>17. j # m => j + 1 \in 1..m /\ k[s[j+1]].next = n
  <2>. SUFFICES ASSUME j # m PROVE j + 1 \in 1..m /\ k[s[j+1]].next = n
    OBVIOUS
  <2>1. j + 1 \in 1..m /\ s[j+1] = p /\ s[j+1] # t /\ s[j+1] \in Tasklets /\ ~isLast
    BY <1>1, <1>4, <1>9, <1>11
  <2>2. isFirst => n = NULL
    BY <1>9, <1>10
  <2>. QED
    BY <1>8, <2>1, <2>2
<1>18. ASSUME NEW i \in 1..(m - 1)
       PROVE  k[r[i]].prev = IF i = m - 1 THEN NULL ELSE r[i+1]
  <2>1. CASE i < j - 1
    <3>1. i \in 1..m /\ i + 1 \in 1..(m - 1) /\ i # m - 1 /\ i # m /\ i # j /\ i # j - 1
      BY <1>1, <2>1
    <3>. QED
      BY <1>6, <1>13, <1>14, <2>1, <3>1
  <2>2. CASE i = j - 1
    <3>1. j # 1 /\ r[i] = s[j-1] /\ k[r[i]].prev = p
      BY <1>1, <1>13, <1>16, <2>2
    <3>2. j # m => i + 1 \in 1..(m - 1) /\ r[i+1] = s[j+1] /\ i # m - 1
      BY <1>1, <1>13, <2>2
    <3>3. j = m => i = m - 1
      BY <2>2
    <3>. QED
      BY <1>9, <3>1, <3>2, <3>3
  <2>3. CASE i >= j
    <3>1. /\ i + 1 \in 1..m /\ i + 1 # j /\ i + 1 # j - 1
          /\ i # m - 1 => i + 1 \in 1..(m - 1) /\ i + 1 # m /\ r[i+1] = s[(i+1)+1]
          /\ i = m - 1 => i + 1 = m
          /\ r[i] = s[i+1]
      BY <1>1, <1>13, <2>3
    <3>. QED
      BY <1>6, <1>14, <3>1
  <2>. QED
    BY <2>1, <2>2, <2>3
<1>19. ASSUME NEW i \in 1..(m - 1)
       PROVE  k[r[i]].next = IF i = 1 THEN NULL ELSE r[i-1]
  <2>1. CASE i < j
    <3>1. /\ i \in 1..m /\ i # j /\ i # j + 1 /\ r[i] = s[i]
          /\ i # 1 => i - 1 \in 1..(m - 1) /\ r[i-1] = s[i-1]
      BY <1>1, <1>13, <2>1
    <3>. QED
      BY <1>6, <1>15, <3>1
  <2>2. CASE i = j
    <3>1. /\ j # m /\ r[i] = s[j+1]
          /\ i # 1 => i - 1 \in 1..(m - 1) /\ r[i-1] = s[j-1]
      BY <1>1, <1>13, <2>2
    <3>. QED
      BY <1>9, <1>17, <2>2, <3>1
  <2>3. CASE i > j
    <3>1. /\ i + 1 \in 1..m /\ i + 1 # j /\ i + 1 # j + 1 /\ i + 1 # 1 /\ i # 1
          /\ r[i] = s[i+1] /\ i - 1 \in 1..(m - 1) /\ r[i-1] = s[i] /\ (i + 1) - 1 = i
      BY <1>1, <1>13, <2>3
    <3>. QED
      BY <1>6, <1>15, <3>1
  <2>. QED
    BY <2>1, <2>2, <2>3
<1>20. (IF first = t THEN p ELSE first) = IF r = <<>> THEN NULL ELSE r[1]
  <2>1. CASE j = 1
    <3>1. m # 1 => r[1] = s[2]
      BY <1>1, <1>13, <2>1
    <3>. QED
      BY <1>5, <1>4, <1>9, <1>12, <2>1, <3>1
  <2>2. CASE j # 1
    <3>1. m # 1 /\ r[1] = s[1]
      BY <1>1, <1>13, <2>2
    <3>. QED
      BY <1>5, <1>4, <1>12, <2>2, <3>1
  <2>. QED
    BY <2>1, <2>2
<1>21. (IF last = t THEN n ELSE last) = IF r = <<>> THEN NULL ELSE r[Len(r)]
  <2>1. CASE j = m
    <3>1. m # 1 => r[m-1] = s[m-1]
      BY <1>1, <1>13, <2>1
    <3>. QED
      BY <1>3, <1>5, <1>4, <1>9, <1>12, <2>1, <3>1
  <2>2. CASE j # m
    <3>1. m # 1 /\ r[m-1] = s[m]
      BY <1>1, <1>13, <2>2
    <3>. QED
      BY <1>3, <1>5, <1>4, <1>12, <2>2, <3>1
  <2>. QED
    BY <2>1, <2>2
<1>22. k[t] = Alone
  BY <1>8 DEF LinksType, Alone
<1>23. ASSUME NEW u \in Tasklets, ~B!In(u, s) PROVE k[u] = link[u]
  <2>1. \A i \in 1..m : s[i] # u
    BY <1>1, <1>23 DEF B!In
  <2>2. u # t /\ u # NULL
    BY <1>3, <2>1, OwnershipAssumption
  <2>3. u # n
    BY <1>1, <1>9, <2>1, <2>2
  <2>4. u # p
    BY <1>1, <1>9, <2>1, <2>2
  <2>5. k[u].next = link[u].next /\ k[u].prev = link[u].prev
    BY <1>8, <2>2, <2>3, <2>4
  <2>. QED
    BY <1>8, <2>5 DEF LinksType
<1>24. Strung(r, k, IF first = t THEN p ELSE first, IF last = t THEN n ELSE last)
  BY <1>2, <1>3, <1>18, <1>19, <1>20, <1>21 DEF Strung
<1>. QED
  BY <1>8, <1>22, <1>23, <1>24 DEF k, r, n, p, first, last

LEMMA StrungStays ==
    ASSUME NEW s, NEW k, NEW first, NEW last, Strung(s, k, first, last),
           NEW k2, \A u \in Tasklets : B!In(u, s) => k2[u] = k[u]
    PROVE  Strung(s, k2, first, last)
<1>1. \A i \in 1..Len(s) : s[i] \in Tasklets /\ B!In(s[i], s)
  BY DEF Strung, B!In
<1>2. \A i \in 1..Len(s) : k2[s[i]] = k[s[i]]
  BY <1>1
<1>. QED
  BY <1>2 DEF Strung

--------------------------------------------------------------------------------
(* What is true of the channels. *)

ListType ==
    [first : [Sides -> Tasklets \cup {NULL}], last : [Sides -> Tasklets \cup {NULL}],
     balance : Int, preference : Sides, closing : BOOLEAN, closed : BOOLEAN]

ListsType == [Channels -> ListType]

(* The direction noted, and the channel, say which list a tasklet is in.    *)
Located == \A c \in Channels, side \in Sides, t \in Tasklets :
    B!In(t, FromFirst(c, side)) <=> tk[t].dir = side /\ tk[t].on = c

AllStrung == \A c \in Channels, side \in Sides :
    Strung(FromFirst(c, side), link, list[c].first[side], list[c].last[side])

LooseEnds == \A t \in Tasklets : tk[t].dir = "NEITHER" => link[t] = Alone

Chained == list \in ListsType /\ link \in LinksType /\ Located /\ AllStrung /\ LooseEnds

(* A channel as ChannelBook sees it. *)
Shown(l, send, recv) ==
    [send |-> send, recv |-> recv, balance |-> l.balance, preference |-> l.preference,
     closing |-> l.closing, closed |-> l.closed]

LEMMA ListsAreShown ==
    /\ Lists = [c \in Channels |->
                  Shown(list[c], FromFirst(c, "SENDER"), FromFirst(c, "RECEIVER"))]
    /\ Lists' = [c \in Channels |->
                  Shown(list'[c], FromFirst(c, "SENDER")', FromFirst(c, "RECEIVER")')]
BY DEF Lists, Shown

(* What the links lead along is what is read. *)
LEMMA ReadAfterwards ==
    ASSUME NEW c, NEW side, NEW s, Strung(s, link', list'[c].first[side], list'[c].last[side])
    PROVE  FromFirst(c, side)' = s
BY StrungIsRead DEF FromFirst

(* t leaves the list it is in. *)
LEMMA LinksTakenOff ==
    ASSUME Chained, NEW c \in Channels, NEW t \in Tasklets, NEW side \in Sides,
           tk[t].dir = side, tk[t].on = c,
           list' \in ListsType, link' = LinkRemoved(c, t),
           \A d \in Channels \ {c} : list'[d] = list[d],
           \A x \in Sides :
              /\ list'[c].first[x] = IF list[c].first[x] = t THEN link[t].prev ELSE list[c].first[x]
              /\ list'[c].last[x] = IF list[c].last[x] = t THEN link[t].next ELSE list[c].last[x],
           tk'[t].dir = "NEITHER",
           \A u \in Tasklets \ {t} : /\ tk'[u].dir = tk[u].dir
                                     /\ tk[u].dir # "NEITHER" => tk'[u].on = tk[u].on
    PROVE  /\ Chained'
           /\ B!In(t, FromFirst(c, side))
           /\ \A d \in Channels, x \in Sides :
                 FromFirst(d, x)' = IF d = c /\ x = side THEN B!Unlinked(FromFirst(d, x), t)
                                    ELSE FromFirst(d, x)
<1>. DEFINE s == FromFirst(c, side)
            Gone(d, x) == IF d = c /\ x = side THEN B!Unlinked(FromFirst(d, x), t) ELSE FromFirst(d, x)
<1>1. /\ Strung(s, link, list[c].first[side], list[c].last[side])
      /\ B!In(t, s) /\ link \in LinksType
  BY DEF Chained, AllStrung, Located
<1>2. ASSUME NEW d \in Channels, NEW x \in Sides, ~(d = c /\ x = side)
      PROVE  /\ \A u \in Tasklets : B!In(u, FromFirst(d, x)) => u # t /\ ~B!In(u, s)
             /\ d = c => list[d].first[x] # t /\ list[d].last[x] # t
  <2>1. \A u \in Tasklets : B!In(u, FromFirst(d, x)) => u # t /\ ~B!In(u, s)
    BY <1>2 DEF Chained, Located
  <2>2. Strung(FromFirst(d, x), link, list[d].first[x], list[d].last[x])
    BY DEF Chained, AllStrung
  <2>3. ASSUME NEW u \in Tasklets, u = list[d].first[x] \/ u = list[d].last[x]
        PROVE  B!In(u, FromFirst(d, x))
    <3>. DEFINE r == FromFirst(d, x)
    <3>. HIDE DEF r
    <3>1. /\ r \in Seq(Tasklets)
          /\ list[d].first[x] = IF r = <<>> THEN NULL ELSE r[1]
          /\ list[d].last[x] = IF r = <<>> THEN NULL ELSE r[Len(r)]
      BY <2>2 DEF Strung, r
    <3>2. r # <<>> /\ 1 \in DOMAIN r /\ Len(r) \in DOMAIN r
      BY <2>3, <3>1, OwnershipAssumption
    <3>3. B!In(u, r)
      BY <2>3, <3>1, <3>2 DEF B!In
    <3>. QED
      BY <3>3 DEF r
  <2>. QED
    BY <2>1, <2>3
<1>3. /\ Strung(B!Unlinked(s, t), link', list'[c].first[side], list'[c].last[side])
      /\ link' \in LinksType
      /\ link'[t] = Alone
      /\ \A u \in Tasklets : ~B!In(u, s) => link'[u] = link[u]
  <2>1. \A x \in Sides \ {side} : list[c].first[x] # t /\ list[c].last[x] # t
    BY <1>2
  <2>. HIDE DEF s
  <2>2. /\ Strung(B!Unlinked(s, t), LinkRemoved(c, t),
                  IF list[c].first[side] = t THEN link[t].prev ELSE list[c].first[side],
                  IF list[c].last[side] = t THEN link[t].next ELSE list[c].last[side])
        /\ LinkRemoved(c, t) \in LinksType
        /\ LinkRemoved(c, t)[t] = Alone
        /\ \A u \in Tasklets : ~B!In(u, s) => LinkRemoved(c, t)[u] = link[u]
    BY <1>1, <2>1, UnlinkedIsStrung
  <2>. QED
    BY <2>2
<1>4. ASSUME NEW d \in Channels, NEW x \in Sides
      PROVE  Strung(Gone(d, x), link', list'[d].first[x], list'[d].last[x])
  <2>1. CASE d = c /\ x = side
    BY <1>3, <2>1
  <2>2. CASE ~(d = c /\ x = side)
    <3>1. list'[d].first[x] = list[d].first[x] /\ list'[d].last[x] = list[d].last[x]
      BY <1>2, <2>2
    <3>2. Strung(FromFirst(d, x), link, list[d].first[x], list[d].last[x])
      BY DEF Chained, AllStrung
    <3>3. \A u \in Tasklets : B!In(u, FromFirst(d, x)) => link'[u] = link[u]
      BY <1>2, <1>3, <2>2
    <3>4. Strung(FromFirst(d, x), link', list[d].first[x], list[d].last[x])
      BY <3>2, <3>3, StrungStays
    <3>. QED
      BY <2>2, <3>1, <3>4
  <2>. QED
    BY <2>1, <2>2
<1>5. ASSUME NEW d \in Channels, NEW x \in Sides PROVE FromFirst(d, x)' = Gone(d, x)
  BY <1>4, ReadAfterwards
<1>6. AllStrung'
  <2>1. \A d \in Channels, x \in Sides :
          Strung(FromFirst(d, x)', link', list'[d].first[x], list'[d].last[x])
    BY <1>4, <1>5
  <2>. QED
    BY <2>1 DEF AllStrung
<1>7. \A u : B!In(u, B!Unlinked(s, t)) <=> B!In(u, s) /\ u # t
  BY <1>1, B!UnlinkedKeeps DEF Strung
<1>8. ASSUME NEW d \in Channels, NEW x \in Sides, NEW u \in Tasklets
      PROVE  B!In(u, Gone(d, x)) <=> tk'[u].dir = x /\ tk'[u].on = d
  <2>1. B!In(u, FromFirst(d, x)) <=> tk[u].dir = x /\ tk[u].on = d
    BY DEF Chained, Located
  <2>2. B!In(u, Gone(d, x)) <=> B!In(u, FromFirst(d, x)) /\ u # t
    BY <1>2, <1>7
  <2>3. x # "NEITHER"
    BY DEF Sides
  <2>. QED
    BY <2>1, <2>2, <2>3
<1>9. Located'
  <2>1. \A d \in Channels, x \in Sides, u \in Tasklets :
          B!In(u, FromFirst(d, x)') <=> tk'[u].dir = x /\ tk'[u].on = d
    BY <1>5, <1>8
  <2>. QED
    BY <2>1 DEF Located, B!In
<1>10. LooseEnds'
  <2>1. ASSUME NEW u \in Tasklets, tk'[u].dir = "NEITHER" PROVE link'[u] = Alone
    <3>1. CASE u = t
      BY <1>3, <3>1
    <3>2. CASE u # t
      <4>1. tk[u].dir = "NEITHER" /\ link[u] = Alone /\ ~B!In(u, s)
        BY <2>1, <3>2 DEF Chained, LooseEnds, Located, Sides
      <4>. QED
        BY <1>3, <4>1
    <3>. QED
      BY <3>1, <3>2
  <2>. QED
    BY <2>1 DEF LooseEnds
<1>. QED
  BY <1>1, <1>3, <1>5, <1>6, <1>9, <1>10 DEF Chained

(* t is added at the end of l, on the given side. *)
Joined(l, old, t, side) ==
    /\ l \in ListType
    /\ \A x \in Sides :
         /\ l.first[x] = IF x = side /\ old.last[x] = NULL THEN t ELSE old.first[x]
         /\ l.last[x] = IF x = side THEN t ELSE old.last[x]
    /\ l.balance = IF side = "SENDER" THEN old.balance + 1 ELSE old.balance - 1
    /\ l.closing = old.closing /\ l.closed = old.closed
    /\ l.preference = old.preference

(* t, which waits nowhere, begins to wait. *)
LEMMA LinksAdded ==
    ASSUME Chained, NEW c \in Channels, NEW t \in Tasklets, NEW side \in Sides,
           tk[t].dir = "NEITHER",
           list' \in ListsType, link' = LinkAdded(c, t, side),
           \A d \in Channels \ {c} : list'[d] = list[d],
           Joined(list'[c], list[c], t, side),
           tk'[t].dir = side, tk'[t].on = c,
           \A u \in Tasklets \ {t} : /\ tk'[u].dir = tk[u].dir
                                     /\ tk[u].dir # "NEITHER" => tk'[u].on = tk[u].on
    PROVE  /\ Chained'
           /\ \A d \in Channels, x \in Sides :
                 FromFirst(d, x)' = IF d = c /\ x = side THEN Append(FromFirst(d, x), t)
                                    ELSE FromFirst(d, x)
<1>. DEFINE s == FromFirst(c, side)
            Now(d, x) == IF d = c /\ x = side THEN Append(FromFirst(d, x), t) ELSE FromFirst(d, x)
<1>1. ASSUME NEW d \in Channels, NEW x \in Sides PROVE ~B!In(t, FromFirst(d, x))
  BY DEF Chained, Located, Sides
<1>2. /\ Strung(Append(s, t), link', list'[c].first[side], list'[c].last[side])
      /\ link' \in LinksType
      /\ \A u \in Tasklets : u # t /\ ~B!In(u, s) => link'[u] = link[u]
  <2>. DEFINE last == list[c].last[side]
              first == list[c].first[side]
  <2>4. list'[c].first[side] = (IF last = NULL THEN t ELSE first) /\ list'[c].last[side] = t
    BY DEF Joined
  <2>1. link' = Tied(link, last, t)
    BY DEF LinkAdded, Tied
  <2>2. Strung(s, link, first, last) /\ ~B!In(t, s) /\ link[t] = Alone /\ link \in LinksType
    BY <1>1 DEF Chained, AllStrung, LooseEnds
  <2>. HIDE DEF s, last, first
  <2>3. /\ Strung(Append(s, t), link', IF last = NULL THEN t ELSE first, t)
        /\ link' \in LinksType
        /\ \A u \in Tasklets : u # t /\ ~B!In(u, s) => link'[u] = link[u]
    BY <2>1, <2>2, AppendIsStrung
  <2>. QED
    BY <2>3, <2>4
<1>3. ASSUME NEW d \in Channels, NEW x \in Sides
      PROVE  Strung(Now(d, x), link', list'[d].first[x], list'[d].last[x])
  <2>1. CASE d = c /\ x = side
    BY <1>2, <2>1
  <2>2. CASE ~(d = c /\ x = side)
    <3>1. list'[d].first[x] = list[d].first[x] /\ list'[d].last[x] = list[d].last[x]
      BY <2>2 DEF Joined
    <3>2. Strung(FromFirst(d, x), link, list[d].first[x], list[d].last[x])
      BY DEF Chained, AllStrung
    <3>3. \A u \in Tasklets : B!In(u, FromFirst(d, x)) => u # t /\ ~B!In(u, s)
      BY <1>1, <2>2 DEF Chained, Located
    <3>4. Strung(FromFirst(d, x), link', list[d].first[x], list[d].last[x])
      BY <1>2, <3>2, <3>3, StrungStays
    <3>. QED
      BY <2>2, <3>1, <3>4
  <2>. QED
    BY <2>1, <2>2
<1>4. ASSUME NEW d \in Channels, NEW x \in Sides PROVE FromFirst(d, x)' = Now(d, x)
  BY <1>3, ReadAfterwards
<1>. HIDE DEF Now
<1>5. AllStrung'
  <2>1. \A d \in Channels, x \in Sides :
          Strung(FromFirst(d, x)', link', list'[d].first[x], list'[d].last[x])
    BY <1>3, <1>4
  <2>. QED
    BY <2>1 DEF AllStrung
<1>6. \A u : B!In(u, Append(s, t)) <=> B!In(u, s) \/ u = t
  <2>1. s \in Seq(Tasklets) /\ B!Once(s) /\ ~B!In(t, s)
    BY <1>1 DEF Chained, AllStrung, Strung
  <2>. QED
    BY <2>1, B!AppendKeeps
<1>7. ASSUME NEW d \in Channels, NEW x \in Sides, NEW u \in Tasklets
      PROVE  B!In(u, Now(d, x)) <=> tk'[u].dir = x /\ tk'[u].on = d
  <2>1. B!In(u, FromFirst(d, x)) <=> tk[u].dir = x /\ tk[u].on = d
    BY DEF Chained, Located
  <2>2. B!In(u, Now(d, x)) <=> B!In(u, FromFirst(d, x)) \/ (u = t /\ d = c /\ x = side)
    BY <1>6 DEF Now
  <2>3. x # "NEITHER"
    BY DEF Sides
  <2>4. CASE u = t
    BY <1>1, <2>2, <2>4
  <2>5. CASE u # t
    BY <2>1, <2>2, <2>3, <2>5
  <2>. QED
    BY <2>4, <2>5
<1>8. Located'
  <2>1. \A d \in Channels, x \in Sides, u \in Tasklets :
          B!In(u, FromFirst(d, x)') <=> tk'[u].dir = x /\ tk'[u].on = d
    BY <1>4, <1>7
  <2>. QED
    BY <2>1 DEF Located, B!In
<1>9. LooseEnds'
  <2>1. ASSUME NEW u \in Tasklets, tk'[u].dir = "NEITHER" PROVE link'[u] = Alone
    <3>1. u # t
      BY <2>1 DEF Sides
    <3>2. tk[u].dir = "NEITHER" /\ link[u] = Alone /\ ~B!In(u, s)
      BY <2>1, <3>1 DEF Chained, LooseEnds, Located, Sides
    <3>. QED
      BY <1>2, <3>1, <3>2
  <2>. QED
    BY <2>1 DEF LooseEnds
<1>. QED
  BY <1>2, <1>4, <1>5, <1>8, <1>9 DEF Chained, Now

(* Nobody comes or goes. *)
LEMMA LinksStay ==
    ASSUME Chained, list' \in ListsType, link' = link,
           \A c \in Channels : list'[c].first = list[c].first /\ list'[c].last = list[c].last,
           \A u \in Tasklets : /\ tk'[u].dir = tk[u].dir
                               /\ tk[u].dir # "NEITHER" => tk'[u].on = tk[u].on
    PROVE  /\ Chained'
           /\ \A c \in Channels, x \in Sides : FromFirst(c, x)' = FromFirst(c, x)
<1>1. ASSUME NEW c \in Channels, NEW x \in Sides
      PROVE  Strung(FromFirst(c, x), link', list'[c].first[x], list'[c].last[x])
  BY DEF Chained, AllStrung
<1>2. ASSUME NEW c \in Channels, NEW x \in Sides PROVE FromFirst(c, x)' = FromFirst(c, x)
  BY <1>1, ReadAfterwards
<1>3. AllStrung'
  <2>1. \A d \in Channels, x \in Sides :
          Strung(FromFirst(d, x)', link', list'[d].first[x], list'[d].last[x])
    BY <1>1, <1>2
  <2>. QED
    BY <2>1 DEF AllStrung
<1>4. Located'
  <2>1. ASSUME NEW d \in Channels, NEW x \in Sides, NEW u \in Tasklets
        PROVE  B!In(u, FromFirst(d, x)') <=> tk'[u].dir = x /\ tk'[u].on = d
    <3>1. B!In(u, FromFirst(d, x)) <=> tk[u].dir = x /\ tk[u].on = d
      BY DEF Chained, Located
    <3>2. x # "NEITHER"
      BY DEF Sides
    <3>. QED
      BY <1>2, <3>1, <3>2
  <2>. QED
    BY <2>1 DEF Located, B!In
<1>5. LooseEnds'
  BY DEF Chained, LooseEnds
<1>. QED
  BY <1>2, <1>3, <1>4, <1>5 DEF Chained

--------------------------------------------------------------------------------
(* The steps of the book. *)

LEMMA UpdateFacts ==
    ASSUME NEW l \in ListType, NEW s, NEW r
    PROVE  /\ UpdateCloseState(l) \in ListType
           /\ UpdateCloseState(l).first = l.first /\ UpdateCloseState(l).last = l.last
           /\ Shown(UpdateCloseState(l), s, r) = B!UpdateCloseState(Shown(l, s, r))
<1>. DEFINE x == l.closed \/ (l.closing /\ l.balance = 0)
<1>1. UpdateCloseState(l) = [l EXCEPT !.closed = x] /\ x \in BOOLEAN
  BY DEF UpdateCloseState, ListType
<1>2. B!UpdateCloseState(Shown(l, s, r)) = [Shown(l, s, r) EXCEPT !.closed = x]
  BY DEF B!UpdateCloseState, Shown
<1>. HIDE DEF x
<1>. QED
  BY <1>1, <1>2 DEF Shown, ListType

LEMMA SameChannel ==
    ASSUME NEW x \in B!ChannelType(Tasklets), NEW y \in B!ChannelType(Tasklets),
           x.send = y.send, x.recv = y.recv, x.balance = y.balance,
           x.preference = y.preference, x.closing = y.closing, x.closed = y.closed
    PROVE  x = y
BY DEF B!ChannelType

LEMMA ShownType ==
    ASSUME NEW l \in ListType, NEW s \in Seq(Tasklets), NEW r \in Seq(Tasklets)
    PROVE  /\ Shown(l, s, r) \in B!ChannelType(Tasklets)
           /\ Shown(l, s, r).send = s /\ Shown(l, s, r).recv = r
           /\ Shown(l, s, r).balance = l.balance /\ Shown(l, s, r).preference = l.preference
           /\ Shown(l, s, r).closing = l.closing /\ Shown(l, s, r).closed = l.closed
BY DEF Shown, ListType, Sides, B!ChannelType, B!Direction

LEMMA ShownIs ==
    ASSUME NEW l \in ListType, NEW s \in Seq(Tasklets), NEW r \in Seq(Tasklets),
           NEW e \in B!ChannelType(Tasklets), e.send = s, e.recv = r, e.balance = l.balance,
           e.preference = l.preference, e.closing = l.closing, e.closed = l.closed
    PROVE  Shown(l, s, r) = e
<1>. DEFINE b == Shown(l, s, r)
<1>1. /\ b \in B!ChannelType(Tasklets) /\ b.send = s /\ b.recv = r /\ b.balance = l.balance
      /\ b.preference = l.preference /\ b.closing = l.closing /\ b.closed = l.closed
  BY ShownType
<1>. HIDE DEF b
<1>2. b = e
  BY <1>1, SameChannel
<1>. QED
  BY <1>2 DEF b

(* What Close, Open and SetPreference change, of a channel in either form.  *)
Closing(l) == [l EXCEPT !.closing = TRUE]
Opened(l) == [l EXCEPT !.closing = FALSE, !.closed = FALSE]
Preferring(l, x) == [l EXCEPT !.preference = x]

LEMMA ChangeFacts ==
    ASSUME NEW l \in ListType, NEW s \in Seq(Tasklets), NEW r \in Seq(Tasklets)
    PROVE  /\ \A x \in Sides : /\ Preferring(l, x) \in ListType
                              /\ Shown(Preferring(l, x), s, r) = Preferring(Shown(l, s, r), x)
           /\ Closing(l) \in ListType
           /\ Shown(Closing(l), s, r) = Closing(Shown(l, s, r))
           /\ Opened(l) \in ListType
           /\ Shown(Opened(l), s, r) = Opened(Shown(l, s, r))
<1>. DEFINE b == Shown(l, s, r)
<1>1. /\ b \in B!ChannelType(Tasklets) /\ b.send = s /\ b.recv = r /\ b.balance = l.balance
      /\ b.preference = l.preference /\ b.closing = l.closing /\ b.closed = l.closed
  BY ShownType
<1>. HIDE DEF b
<1>2. ASSUME NEW x \in Sides
      PROVE  [l EXCEPT !.preference = x] \in ListType
             /\ Shown([l EXCEPT !.preference = x], s, r) = [b EXCEPT !.preference = x]
  <2>. DEFINE k == [l EXCEPT !.preference = x]
              e == [b EXCEPT !.preference = x]
  <2>1. /\ k \in ListType /\ k.balance = l.balance /\ k.preference = x
        /\ k.closing = l.closing /\ k.closed = l.closed
    BY DEF ListType
  <2>2. /\ e \in B!ChannelType(Tasklets) /\ e.send = s /\ e.recv = r /\ e.balance = l.balance
        /\ e.preference = x /\ e.closing = l.closing /\ e.closed = l.closed
    BY <1>1 DEF B!ChannelType, B!Direction, Sides
  <2>. HIDE DEF k, e
  <2>3. Shown(k, s, r) = e
    BY <2>1, <2>2, ShownIs
  <2>. QED
    BY <2>1, <2>3 DEF k, e
<1>3. [l EXCEPT !.closing = TRUE] \in ListType
      /\ Shown([l EXCEPT !.closing = TRUE], s, r) = [b EXCEPT !.closing = TRUE]
  <2>. DEFINE k == [l EXCEPT !.closing = TRUE]
              e == [b EXCEPT !.closing = TRUE]
  <2>1. /\ k \in ListType /\ k.balance = l.balance /\ k.preference = l.preference
        /\ k.closing = TRUE /\ k.closed = l.closed
    BY DEF ListType
  <2>2. /\ e \in B!ChannelType(Tasklets) /\ e.send = s /\ e.recv = r /\ e.balance = l.balance
        /\ e.preference = l.preference /\ e.closing = TRUE /\ e.closed = l.closed
    BY <1>1 DEF B!ChannelType
  <2>3. e.closing = k.closing /\ e.closed = k.closed
    BY <1>1 DEF B!ChannelType, ListType
  <2>. HIDE DEF k, e
  <2>4. Shown(k, s, r) = e
    BY <2>1, <2>2, <2>3, ShownIs
  <2>. QED
    BY <2>1, <2>4 DEF k, e
<1>4. [l EXCEPT !.closing = FALSE, !.closed = FALSE] \in ListType
      /\ Shown([l EXCEPT !.closing = FALSE, !.closed = FALSE], s, r)
            = [b EXCEPT !.closing = FALSE, !.closed = FALSE]
  <2>. DEFINE k == [l EXCEPT !.closing = FALSE, !.closed = FALSE]
              e == [b EXCEPT !.closing = FALSE, !.closed = FALSE]
  <2>1. /\ k \in ListType /\ k.balance = l.balance /\ k.preference = l.preference
        /\ k.closing = FALSE /\ k.closed = FALSE
    BY DEF ListType
  <2>2. /\ e \in B!ChannelType(Tasklets) /\ e.send = s /\ e.recv = r /\ e.balance = l.balance
        /\ e.preference = l.preference /\ e.closing = FALSE /\ e.closed = FALSE
    BY <1>1 DEF B!ChannelType
  <2>3. e.closing = k.closing /\ e.closed = k.closed
    BY <1>1 DEF B!ChannelType, ListType
  <2>. HIDE DEF k, e
  <2>4. Shown(k, s, r) = e
    BY <2>1, <2>2, <2>3, ShownIs
  <2>. QED
    BY <2>1, <2>4 DEF k, e
<1>. QED
  BY <1>2, <1>3, <1>4 DEF b, Closing, Opened, Preferring

LEMMA ShownLeft ==
    ASSUME NEW l \in ListType, NEW l2 \in ListType, NEW s \in Seq(Tasklets), NEW r \in Seq(Tasklets),
           B!Once(s), B!Once(r), NEW t,
           l2.balance = IF B!In(t, s) THEN l.balance - 1 ELSE l.balance + 1,
           l2.closing = l.closing, l2.closed = l.closed, l2.preference = l.preference
    PROVE  Shown(l2, B!Unlinked(s, t), B!Unlinked(r, t)) = B!Left(Shown(l, s, r), t)
<1>. DEFINE b == Shown(l, s, r)
            n == IF B!In(t, s) THEN l.balance - 1 ELSE l.balance + 1
            us == B!Unlinked(s, t)
            ur == B!Unlinked(r, t)
            e == [b EXCEPT !.send = us, !.recv = ur, !.balance = n]
<1>1. /\ b \in B!ChannelType(Tasklets) /\ b.send = s /\ b.recv = r /\ b.balance = l.balance
      /\ b.preference = l.preference /\ b.closing = l.closing /\ b.closed = l.closed
  BY ShownType
<1>2. us \in Seq(Tasklets) /\ ur \in Seq(Tasklets)
  BY B!UnlinkedKeeps
<1>3. n \in Int /\ l2.balance = n
  BY DEF ListType
<1>. HIDE DEF b
<1>4. B!Left(b, t) = e
  BY <1>1 DEF B!Left
<1>. HIDE DEF n, us, ur
<1>5. /\ e \in B!ChannelType(Tasklets) /\ e.send = us /\ e.recv = ur /\ e.balance = n
      /\ e.preference = l.preference /\ e.closing = l.closing /\ e.closed = l.closed
  BY <1>1, <1>2, <1>3 DEF B!ChannelType
<1>. HIDE DEF e
<1>6. Shown(l2, us, ur) = e
  BY <1>2, <1>3, <1>5, ShownIs
<1>. QED
  BY <1>4, <1>6 DEF b, us, ur

LEMMA RemovedFacts ==
    ASSUME NEW c, list[c] \in ListType, NEW t, link[t].next \in Tasklets \cup {NULL},
           link[t].prev \in Tasklets \cup {NULL}, tk[t].dir \in Sides
    PROVE  /\ Removed(c, t) \in ListType
           /\ \A x \in Sides :
                /\ Removed(c, t).first[x] = IF list[c].first[x] = t THEN link[t].prev ELSE list[c].first[x]
                /\ Removed(c, t).last[x] = IF list[c].last[x] = t THEN link[t].next ELSE list[c].last[x]
           /\ Removed(c, t).balance = IF tk[t].dir = "SENDER" THEN list[c].balance - 1 ELSE list[c].balance + 1
           /\ Removed(c, t).closing = list[c].closing /\ Removed(c, t).closed = list[c].closed
           /\ Removed(c, t).preference = list[c].preference
<1>. DEFINE l == list[c]
            f == [x \in Sides |-> IF l.first[x] = t THEN link[t].prev ELSE l.first[x]]
            g == [x \in Sides |-> IF l.last[x] = t THEN link[t].next ELSE l.last[x]]
            n == IF tk[t].dir = "SENDER" THEN l.balance - 1 ELSE l.balance + 1
<1>1. n = CASE tk[t].dir = "SENDER" -> l.balance - 1
            [] tk[t].dir = "RECEIVER" -> l.balance + 1
            [] OTHER -> l.balance
  BY DEF Sides
<1>2. Removed(c, t) = [l EXCEPT !.first = f, !.last = g, !.balance = n]
  BY <1>1 DEF Removed
<1>3. l \in ListType /\ n \in Int /\ f \in [Sides -> Tasklets \cup {NULL}]
      /\ g \in [Sides -> Tasklets \cup {NULL}]
  BY DEF ListType
<1>4. \A x \in Sides : /\ f[x] = IF l.first[x] = t THEN link[t].prev ELSE l.first[x]
                       /\ g[x] = IF l.last[x] = t THEN link[t].next ELSE l.last[x]
  OBVIOUS
<1>. HIDE DEF l, f, g, n
<1>5. /\ Removed(c, t) \in ListType
      /\ Removed(c, t).first = f /\ Removed(c, t).last = g /\ Removed(c, t).balance = n
      /\ Removed(c, t).closing = l.closing /\ Removed(c, t).closed = l.closed
      /\ Removed(c, t).preference = l.preference
  BY <1>2, <1>3 DEF ListType
<1>. QED
  BY <1>4, <1>5 DEF l, n

LEMMA ListFacts ==
    ASSUME Chained, B!Kept, NEW c \in Channels
    PROVE  /\ list[c] \in ListType /\ B!Orderly(Lists[c])
           /\ Lists[c] = Shown(list[c], FromFirst(c, "SENDER"), FromFirst(c, "RECEIVER"))
           /\ Lists[c].send = FromFirst(c, "SENDER") /\ Lists[c].recv = FromFirst(c, "RECEIVER")
           /\ Lists[c].closing = list[c].closing /\ Lists[c].closed = list[c].closed
<1>1. B!Orderly(Lists[c])
  BY B!KeptByChannel
<1>2. Lists[c] = Shown(list[c], FromFirst(c, "SENDER"), FromFirst(c, "RECEIVER"))
  BY ListsAreShown
<1>. QED
  BY <1>1, <1>2 DEF Chained, ListsType, Shown

(* One channel is shown anew. *)
LEMMA OneIsShown ==
    ASSUME NEW c \in Channels,
           \A d \in Channels \ {c} :
              /\ list'[d] = list[d] /\ FromFirst(d, "SENDER")' = FromFirst(d, "SENDER")
              /\ FromFirst(d, "RECEIVER")' = FromFirst(d, "RECEIVER")
    PROVE  Lists' = [Lists EXCEPT ![c] =
                        Shown(list'[c], FromFirst(c, "SENDER")', FromFirst(c, "RECEIVER")')]
BY ListsAreShown

LEMMA BookMoves ==
    ASSUME B!Kept, B!Next
    PROVE  B!Kept'
BY B!NextKeeps

(* A tasklet leaves. *)
LEMMA LeavesTheBook ==
    ASSUME Chained, B!Kept, NEW c \in Channels, NEW t \in Tasklets,
           tk[t].dir \in Sides, tk[t].on = c,
           \/ list' = [list EXCEPT ![c] = Removed(c, t)]
           \/ list' = [list EXCEPT ![c] = UpdateCloseState(Removed(c, t))],
           link' = LinkRemoved(c, t),
           tk'[t].dir = "NEITHER",
           \A u \in Tasklets \ {t} : /\ tk'[u].dir = tk[u].dir
                                     /\ tk[u].dir # "NEITHER" => tk'[u].on = tk[u].on
    PROVE  Chained' /\ B!Kept' /\ B!Next
<1>. DEFINE side == tk[t].dir
            l == Removed(c, t)
            b == Lists[c]
<1>1. list \in ListsType /\ list[c] \in ListType /\ link[t].next \in Tasklets \cup {NULL}
      /\ link[t].prev \in Tasklets \cup {NULL}
  BY DEF Chained, ListsType, LinksType
<1>2. /\ l \in ListType
      /\ \A x \in Sides :
           /\ l.first[x] = IF list[c].first[x] = t THEN link[t].prev ELSE list[c].first[x]
           /\ l.last[x] = IF list[c].last[x] = t THEN link[t].next ELSE list[c].last[x]
      /\ l.balance = IF side = "SENDER" THEN list[c].balance - 1 ELSE list[c].balance + 1
      /\ l.closing = list[c].closing /\ l.closed = list[c].closed
      /\ l.preference = list[c].preference
  BY <1>1, RemovedFacts
<1>. HIDE DEF l
<1>3. /\ UpdateCloseState(l) \in ListType
      /\ UpdateCloseState(l).first = l.first /\ UpdateCloseState(l).last = l.last
  BY <1>2, UpdateFacts
<1>4. /\ list' \in ListsType /\ \A d \in Channels \ {c} : list'[d] = list[d]
      /\ list'[c] = l \/ list'[c] = UpdateCloseState(l)
  BY <1>1, <1>2, <1>3 DEF ListsType, l
<1>5. list'[c].first = l.first /\ list'[c].last = l.last
  BY <1>3, <1>4
<1>6. /\ Chained'
      /\ B!In(t, FromFirst(c, side))
      /\ \A d \in Channels, x \in Sides :
           FromFirst(d, x)' = IF d = c /\ x = side THEN B!Unlinked(FromFirst(d, x), t)
                              ELSE FromFirst(d, x)
  BY <1>2, <1>4, <1>5, LinksTakenOff
<1>7. /\ B!Orderly(b) /\ b = Shown(list[c], FromFirst(c, "SENDER"), FromFirst(c, "RECEIVER"))
      /\ b.send = FromFirst(c, "SENDER") /\ b.recv = FromFirst(c, "RECEIVER")
  BY ListFacts
<1>8. /\ B!In(t, b.send) <=> side = "SENDER"
      /\ B!In(t, b.recv) <=> side = "RECEIVER"
  BY <1>7 DEF Chained, Located, Sides
<1>9. /\ FromFirst(c, "SENDER")' = B!Unlinked(b.send, t)
      /\ FromFirst(c, "RECEIVER")' = B!Unlinked(b.recv, t)
  <2>1. \A s : ~B!In(t, s) => B!Unlinked(s, t) = s
    BY DEF B!In, B!Unlinked
  <2>2. "SENDER" \in Sides /\ "RECEIVER" \in Sides
    BY DEF Sides
  <2>. QED
    BY <1>6, <1>7, <1>8, <2>1, <2>2
<1>10. Shown(l, B!Unlinked(b.send, t), B!Unlinked(b.recv, t)) = B!Left(b, t)
  <2>1. b.send \in Seq(Tasklets) /\ b.recv \in Seq(Tasklets) /\ B!Once(b.send) /\ B!Once(b.recv)
    BY <1>7 DEF B!Orderly, B!ChannelType
  <2>. QED
    BY <1>1, <1>2, <1>7, <1>8, <2>1, ShownLeft
<1>11. B!Waits(t, b) /\ B!Orderly(B!Left(b, t))
  BY <1>7, <1>8, B!LeftOrderly DEF B!Waits, Sides
<1>12. Shown(UpdateCloseState(l), B!Unlinked(b.send, t), B!Unlinked(b.recv, t))
          = B!Settled(B!Left(b, t))
  <2>1. Shown(UpdateCloseState(l), B!Unlinked(b.send, t), B!Unlinked(b.recv, t))
          = B!UpdateCloseState(B!Left(b, t))
    BY <1>2, <1>10, UpdateFacts
  <2>. QED
    BY <1>11, <2>1, B!ClosedByBalance
<1>13. Lists' = [Lists EXCEPT ![c] = Shown(list'[c], B!Unlinked(b.send, t), B!Unlinked(b.recv, t))]
  <2>1. "SENDER" \in Sides /\ "RECEIVER" \in Sides
    BY DEF Sides
  <2>. QED
    BY <1>4, <1>6, <1>9, <2>1, OneIsShown
<1>14. B!Listed(c, t)
  BY <1>11 DEF B!Waits, B!Listed
<1>15. B!Leave(c, t)
  BY <1>4, <1>10, <1>12, <1>13, <1>14 DEF B!Leave
<1>16. B!Next
  BY <1>15 DEF B!Next
<1>. QED
  BY <1>6, <1>16, BookMoves

LEMMA AddedFacts ==
    ASSUME NEW c, list[c] \in ListType, NEW t \in Tasklets, NEW side \in Sides, ~ClosingOrClosed(c)
    PROVE  Joined(UpdateCloseState(Added(c, t, side)), list[c], t, side)
<1>. DEFINE k == list[c]
            f == [k.first EXCEPT ![side] = IF k.last[side] = NULL THEN t ELSE @]
            g == [k.last EXCEPT ![side] = t]
            n == IF side = "SENDER" THEN k.balance + 1 ELSE k.balance - 1
            a == Added(c, t, side)
            l == UpdateCloseState(a)
<1>1. a = [k EXCEPT !.first = f, !.last = g, !.balance = n]
  BY DEF Added, ListType
<1>2. k \in ListType /\ n \in Int /\ f \in [Sides -> Tasklets \cup {NULL}]
      /\ g \in [Sides -> Tasklets \cup {NULL}] /\ ~k.closing /\ ~k.closed
  BY DEF ListType, ClosingOrClosed
<1>3. \A x \in Sides : /\ f[x] = IF x = side /\ k.last[x] = NULL THEN t ELSE k.first[x]
                       /\ g[x] = IF x = side THEN t ELSE k.last[x]
  BY DEF ListType
<1>. HIDE DEF k, f, g, n, a
<1>4. /\ a \in ListType
      /\ a.first = f /\ a.last = g /\ a.balance = n
      /\ a.closing = k.closing /\ a.closed = k.closed
      /\ a.preference = k.preference
  BY <1>1, <1>2 DEF ListType
<1>5. l = [a EXCEPT !.closed = a.closed \/ (a.closing /\ a.balance = 0)]
  BY DEF UpdateCloseState
<1>6. l.closing = a.closing /\ l.closed = a.closed /\ l.balance = a.balance /\ l.preference = a.preference
  BY <1>2, <1>4, <1>5 DEF ListType
<1>7. l \in ListType /\ l.first = a.first /\ l.last = a.last
  BY <1>4, UpdateFacts
<1>. HIDE DEF l
<1>8. /\ l \in ListType
      /\ \A x \in Sides :
           /\ l.first[x] = IF x = side /\ k.last[x] = NULL THEN t ELSE k.first[x]
           /\ l.last[x] = IF x = side THEN t ELSE k.last[x]
      /\ l.balance = n
      /\ l.closing = k.closing /\ l.closed = k.closed
      /\ l.preference = k.preference
  BY <1>3, <1>4, <1>6, <1>7
<1>9. Joined(l, k, t, side)
  BY <1>8 DEF Joined, n
<1>. QED
  BY <1>9 DEF l, k, a

LEMMA ShownAdded ==
    ASSUME NEW l \in ListType, NEW l2 \in ListType, NEW s \in Seq(Tasklets), NEW r \in Seq(Tasklets),
           NEW t \in Tasklets,
           l2.closing = l.closing, l2.closed = l.closed, l2.preference = l.preference
    PROVE  /\ l2.balance = l.balance + 1 =>
                Shown(l2, Append(s, t), r) = B!AddTaskletToWaitingToSend(Shown(l, s, r), t)
           /\ l2.balance = l.balance - 1 =>
                Shown(l2, s, Append(r, t)) = B!AddTaskletToWaitingToReceive(Shown(l, s, r), t)
<1>. DEFINE b == Shown(l, s, r)
<1>1. /\ b \in B!ChannelType(Tasklets) /\ b.send = s /\ b.recv = r /\ b.balance = l.balance
      /\ b.preference = l.preference /\ b.closing = l.closing /\ b.closed = l.closed
  BY ShownType
<1>2. Append(s, t) \in Seq(Tasklets) /\ Append(r, t) \in Seq(Tasklets) /\ l.balance \in Int
  BY DEF ListType
<1>. HIDE DEF b
<1>3. ASSUME l2.balance = l.balance + 1
      PROVE  Shown(l2, Append(s, t), r) = B!AddTaskletToWaitingToSend(b, t)
  <2>. DEFINE x == Append(s, t)
              n == l.balance + 1
              e == [b EXCEPT !.send = x, !.balance = n]
  <2>1. B!AddTaskletToWaitingToSend(b, t) = e
    BY <1>1 DEF B!AddTaskletToWaitingToSend
  <2>2. x \in Seq(Tasklets) /\ n \in Int /\ l2.balance = n
    BY <1>2, <1>3
  <2>. HIDE DEF x, n
  <2>3. /\ e \in B!ChannelType(Tasklets) /\ e.send = x /\ e.recv = r /\ e.balance = n
        /\ e.preference = l.preference /\ e.closing = l.closing /\ e.closed = l.closed
    BY <1>1, <2>2 DEF B!ChannelType
  <2>. HIDE DEF e
  <2>4. Shown(l2, x, r) = e
    BY <1>3, <2>2, <2>3, ShownIs
  <2>. QED
    BY <2>1, <2>4 DEF x
<1>4. ASSUME l2.balance = l.balance - 1
      PROVE  Shown(l2, s, Append(r, t)) = B!AddTaskletToWaitingToReceive(b, t)
  <2>. DEFINE x == Append(r, t)
              n == l.balance - 1
              e == [b EXCEPT !.recv = x, !.balance = n]
  <2>1. B!AddTaskletToWaitingToReceive(b, t) = e
    BY <1>1 DEF B!AddTaskletToWaitingToReceive
  <2>2. x \in Seq(Tasklets) /\ n \in Int /\ l2.balance = n
    BY <1>2, <1>4
  <2>. HIDE DEF x, n
  <2>3. /\ e \in B!ChannelType(Tasklets) /\ e.send = s /\ e.recv = x /\ e.balance = n
        /\ e.preference = l.preference /\ e.closing = l.closing /\ e.closed = l.closed
    BY <1>1, <2>2 DEF B!ChannelType
  <2>. HIDE DEF e
  <2>4. Shown(l2, s, x) = e
    BY <1>4, <2>2, <2>3, ShownIs
  <2>. QED
    BY <2>1, <2>4 DEF x
<1>. QED
  BY <1>3, <1>4 DEF b

(* A tasklet begins to wait. *)
Across(side) == IF side = "SENDER" THEN "RECEIVER" ELSE "SENDER"

LEMMA JoinsTheBook ==
    ASSUME Chained, B!Kept, NEW c \in Channels, NEW t \in Tasklets, NEW side \in Sides,
           tk[t].dir = "NEITHER", list[c].first[Across(side)] = NULL, ~ClosingOrClosed(c),
           list' = [list EXCEPT ![c] = UpdateCloseState(Added(c, t, side))],
           link' = LinkAdded(c, t, side),
           tk'[t].dir = side, tk'[t].on = c,
           \A u \in Tasklets \ {t} : /\ tk'[u].dir = tk[u].dir
                                     /\ tk[u].dir # "NEITHER" => tk'[u].on = tk[u].on
    PROVE  Chained' /\ B!Kept' /\ B!Next
<1>. DEFINE l == UpdateCloseState(Added(c, t, side))
            b == Lists[c]
<1>1. list \in ListsType /\ list[c] \in ListType
  BY DEF Chained, ListsType
<1>2. Joined(l, list[c], t, side)
  BY <1>1, AddedFacts
<1>. HIDE DEF l
<1>3. /\ list' \in ListsType /\ \A d \in Channels \ {c} : list'[d] = list[d]
      /\ list'[c] = l
  BY <1>1, <1>2 DEF ListsType, Joined, l
<1>4. /\ Chained'
      /\ \A d \in Channels, x \in Sides :
           FromFirst(d, x)' = IF d = c /\ x = side THEN Append(FromFirst(d, x), t) ELSE FromFirst(d, x)
  BY <1>2, <1>3, LinksAdded
<1>5. /\ B!Orderly(b) /\ b = Shown(list[c], FromFirst(c, "SENDER"), FromFirst(c, "RECEIVER"))
      /\ b.send = FromFirst(c, "SENDER") /\ b.recv = FromFirst(c, "RECEIVER")
      /\ b.closing = list[c].closing /\ b.closed = list[c].closed
      /\ b.send \in Seq(Tasklets) /\ b.recv \in Seq(Tasklets)
  BY ListFacts DEF B!Orderly, B!ChannelType
<1>6. B!IsOpen(c)
  BY <1>5 DEF B!IsOpen, ClosingOrClosed
<1>7. \A d \in Channels : ~B!Listed(d, t)
  <2>1. ASSUME NEW d \in Channels
        PROVE  /\ Lists[d].send = FromFirst(d, "SENDER") /\ Lists[d].recv = FromFirst(d, "RECEIVER")
               /\ ~B!In(t, FromFirst(d, "SENDER")) /\ ~B!In(t, FromFirst(d, "RECEIVER"))
    BY ListFacts DEF Chained, Located, Sides
  <2>. QED
    BY <2>1 DEF B!Listed
<1>8. ASSUME NEW x \in Sides, list[c].first[x] = NULL PROVE FromFirst(c, x) = <<>>
  <2>. DEFINE s == FromFirst(c, x)
  <2>1. Strung(s, link, list[c].first[x], list[c].last[x])
    BY DEF Chained, AllStrung
  <2>. HIDE DEF s
  <2>2. s \in Seq(Tasklets) /\ (s # <<>> => s[1] = NULL)
    BY <1>8, <2>1 DEF Strung
  <2>3. s = <<>>
    BY <2>2, OwnershipAssumption
  <2>. QED
    BY <2>3 DEF s
<1>9. CASE side = "SENDER"
  <2>1. b.recv = <<>>
    BY <1>5, <1>8, <1>9 DEF Across, Sides
  <2>2. Lists' = [Lists EXCEPT ![c] = Shown(l, Append(b.send, t), b.recv)]
    <3>1. FromFirst(c, "SENDER")' = Append(b.send, t) /\ FromFirst(c, "RECEIVER")' = b.recv
      BY <1>4, <1>5, <1>9 DEF Sides
    <3>2. \A d \in Channels \ {c} :
            /\ list'[d] = list[d] /\ FromFirst(d, "SENDER")' = FromFirst(d, "SENDER")
            /\ FromFirst(d, "RECEIVER")' = FromFirst(d, "RECEIVER")
      BY <1>3, <1>4 DEF Sides
    <3>. QED
      BY <1>3, <3>1, <3>2, OneIsShown
  <2>3. Shown(l, Append(b.send, t), b.recv) = B!AddTaskletToWaitingToSend(b, t)
    BY <1>1, <1>2, <1>5, <1>9, ShownAdded DEF Joined
  <2>. QED
    BY <1>4, <1>6, <1>7, <2>1, <2>2, <2>3, BookMoves DEF B!WaitToSend, B!Next
<1>10. CASE side = "RECEIVER"
  <2>1. b.send = <<>>
    BY <1>5, <1>8, <1>10 DEF Across, Sides
  <2>2. Lists' = [Lists EXCEPT ![c] = Shown(l, b.send, Append(b.recv, t))]
    <3>1. FromFirst(c, "SENDER")' = b.send /\ FromFirst(c, "RECEIVER")' = Append(b.recv, t)
      BY <1>4, <1>5, <1>10 DEF Sides
    <3>2. \A d \in Channels \ {c} :
            /\ list'[d] = list[d] /\ FromFirst(d, "SENDER")' = FromFirst(d, "SENDER")
            /\ FromFirst(d, "RECEIVER")' = FromFirst(d, "RECEIVER")
      BY <1>3, <1>4 DEF Sides
    <3>. QED
      BY <1>3, <3>1, <3>2, OneIsShown
  <2>3. Shown(l, b.send, Append(b.recv, t)) = B!AddTaskletToWaitingToReceive(b, t)
    BY <1>1, <1>2, <1>5, <1>10, ShownAdded DEF Joined
  <2>. QED
    BY <1>4, <1>6, <1>7, <2>1, <2>2, <2>3, BookMoves DEF B!WaitToReceive, B!Next
<1>. QED
  BY <1>9, <1>10 DEF Sides

LEMMA ClosingUpdates ==
    ASSUME NEW x, B!Orderly(x)
    PROVE  LET b == [x EXCEPT !.closing = TRUE] IN B!UpdateCloseState(b) = B!Settled(b)
<1>1. /\ x.balance = 0 <=> x.send = <<>> /\ x.recv = <<>>
      /\ x \in B!ChannelType(Tasklets)
  <2>1. Len(x.send) \in Nat /\ Len(x.recv) \in Nat
        /\ (Len(x.send) = 0 <=> x.send = <<>>) /\ (Len(x.recv) = 0 <=> x.recv = <<>>)
    BY DEF B!Orderly, B!ChannelType
  <2>. QED
    BY <2>1 DEF B!Orderly
<1>. DEFINE b == [x EXCEPT !.closing = TRUE]
<1>2. b.closing /\ b.balance = x.balance /\ b.send = x.send /\ b.recv = x.recv
  BY <1>1 DEF B!ChannelType
<1>. HIDE DEF b
<1>3. B!UpdateCloseState(b) = B!Settled(b)
  BY <1>1, <1>2 DEF B!UpdateCloseState, B!Settled, B!Drained
<1>. QED
  BY <1>3 DEF b

(* The lists stay as they are. *)
(* One channel is changed, its lists are not. *)
LEMMA OneIsChanged ==
    ASSUME Chained, NEW c \in Channels, NEW l \in ListType,
           list' = [list EXCEPT ![c] = l], l.first = list[c].first, l.last = list[c].last,
           link' = link,
           \A u \in Tasklets : /\ tk'[u].dir = tk[u].dir
                               /\ tk[u].dir # "NEITHER" => tk'[u].on = tk[u].on
    PROVE  /\ Chained'
           /\ Lists' = [Lists EXCEPT ![c] = Shown(l, FromFirst(c, "SENDER"), FromFirst(c, "RECEIVER"))]
<1>1. list' \in ListsType /\ list'[c] = l /\ \A d \in Channels \ {c} : list'[d] = list[d]
  BY DEF Chained, ListsType
<1>2. \A d \in Channels : list'[d].first = list[d].first /\ list'[d].last = list[d].last
  BY <1>1
<1>3. Chained' /\ \A d \in Channels, x \in Sides : FromFirst(d, x)' = FromFirst(d, x)
  BY <1>1, <1>2, LinksStay
<1>4. \A d \in Channels :
        /\ FromFirst(d, "SENDER")' = FromFirst(d, "SENDER")
        /\ FromFirst(d, "RECEIVER")' = FromFirst(d, "RECEIVER")
  BY <1>3 DEF Sides
<1>5. Lists' = [Lists EXCEPT ![c] = Shown(list'[c], FromFirst(c, "SENDER"), FromFirst(c, "RECEIVER"))]
  BY <1>1, <1>4, OneIsShown
<1>. QED
  BY <1>1, <1>3, <1>5

(* The lists stay as they are. *)
LEMMA StaysInTheBook ==
    ASSUME Chained, B!Kept, link' = link,
           \/ list' = list
           \/ \E c \in Channels :
                \/ list' = [list EXCEPT ![c] = UpdateCloseState(list[c])]
                \/ list' = [list EXCEPT ![c] = UpdateCloseState([list[c] EXCEPT !.closing = TRUE])]
                \/ list' = [list EXCEPT ![c] = [list[c] EXCEPT !.closing = FALSE, !.closed = FALSE]]
                \/ \E x \in Sides : list' = [list EXCEPT ![c] = [list[c] EXCEPT !.preference = x]],
           \A u \in Tasklets : /\ tk'[u].dir = tk[u].dir
                               /\ tk[u].dir # "NEITHER" => tk'[u].on = tk[u].on
    PROVE  Chained' /\ B!Kept' /\ (B!Next \/ Lists' = Lists)
<1>1. CASE list' = list
  <2>1. /\ Chained'
        /\ \A c \in Channels, x \in Sides : FromFirst(c, x)' = FromFirst(c, x)
    <3>1. list' \in ListsType /\ \A c \in Channels : list'[c].first = list[c].first /\ list'[c].last = list[c].last
      BY <1>1 DEF Chained
    <3>. QED
      BY <3>1, LinksStay
  <2>2. Lists' = Lists
    BY <1>1, <2>1, ListsAreShown DEF Sides
  <2>3. B!Kept'
    BY <2>2, B!NextKeeps
  <2>. QED
    BY <2>1, <2>2, <2>3
<1>2. ASSUME NEW c \in Channels,
             \/ list' = [list EXCEPT ![c] = UpdateCloseState(list[c])]
             \/ list' = [list EXCEPT ![c] = UpdateCloseState([list[c] EXCEPT !.closing = TRUE])]
             \/ list' = [list EXCEPT ![c] = [list[c] EXCEPT !.closing = FALSE, !.closed = FALSE]]
             \/ \E x \in Sides : list' = [list EXCEPT ![c] = [list[c] EXCEPT !.preference = x]]
      PROVE  Chained' /\ B!Next
  <2>. DEFINE s == FromFirst(c, "SENDER")
              r == FromFirst(c, "RECEIVER")
              old == list[c]
              b == Lists[c]
              Becoming(l, e) == /\ l \in ListType /\ l.first = old.first /\ l.last = old.last
                                /\ Shown(l, s, r) = e
  <2>1. /\ old \in ListType /\ B!Orderly(b) /\ b = Shown(old, s, r)
        /\ s \in Seq(Tasklets) /\ r \in Seq(Tasklets)
    BY ListFacts DEF B!Orderly, B!ChannelType
  <2>2. ASSUME NEW l, NEW e, Becoming(l, e), list' = [list EXCEPT ![c] = l]
        PROVE  Chained' /\ Lists' = [Lists EXCEPT ![c] = e]
    <3>1. Chained' /\ Lists' = [Lists EXCEPT ![c] = Shown(l, s, r)]
      BY <2>2, OneIsChanged
    <3>. QED
      BY <2>2, <3>1
  <2>. HIDE DEF s, r, old, b
  <2>3. CASE list' = [list EXCEPT ![c] = UpdateCloseState(list[c])]
    <3>1. Becoming(UpdateCloseState(old), B!UpdateCloseState(b))
      BY <2>1, UpdateFacts
    <3>2. B!UpdateCloseState(b) = B!Settled(b)
      BY <2>1, B!ClosedByBalance
    <3>. HIDE DEF Becoming
    <3>3. Chained' /\ Lists' = [Lists EXCEPT ![c] = B!Settled(b)]
      BY <2>2, <2>3, <3>1, <3>2 DEF old
    <3>. QED
      BY <3>3 DEF B!Settle, B!Next, b
  <2>4. CASE list' = [list EXCEPT ![c] = UpdateCloseState([list[c] EXCEPT !.closing = TRUE])]
    <3>. DEFINE k == Closing(old)
                e == Closing(b)
    <3>1. k \in ListType /\ Shown(k, s, r) = e
      BY <2>1, ChangeFacts
    <3>2. k.first = old.first /\ k.last = old.last
      BY <2>1 DEF ListType, Closing
    <3>3. B!UpdateCloseState(e) = B!Settled(e)
      BY <2>1, ClosingUpdates DEF Closing
    <3>4. list' = [list EXCEPT ![c] = UpdateCloseState(k)]
      BY <2>4 DEF old, Closing
    <3>. HIDE DEF k, e
    <3>5. Becoming(UpdateCloseState(k), B!UpdateCloseState(e))
      BY <3>1, <3>2, UpdateFacts
    <3>. HIDE DEF Becoming
    <3>6. Chained' /\ Lists' = [Lists EXCEPT ![c] = B!Settled(e)]
      BY <2>2, <3>3, <3>4, <3>5
    <3>. QED
      BY <3>6 DEF B!Close, B!Next, Closing, e, b
  <2>5. CASE list' = [list EXCEPT ![c] = [list[c] EXCEPT !.closing = FALSE, !.closed = FALSE]]
    <3>. DEFINE k == Opened(old)
                e == Opened(b)
    <3>1. k \in ListType /\ Shown(k, s, r) = e
      BY <2>1, ChangeFacts
    <3>2. k.first = old.first /\ k.last = old.last
      BY <2>1 DEF ListType, Opened
    <3>4. list' = [list EXCEPT ![c] = k]
      BY <2>5 DEF old, Opened
    <3>. HIDE DEF k, e
    <3>5. Becoming(k, e)
      BY <3>1, <3>2
    <3>. HIDE DEF Becoming
    <3>6. Chained' /\ Lists' = [Lists EXCEPT ![c] = e]
      BY <2>2, <3>4, <3>5
    <3>. QED
      BY <3>6 DEF B!Open, B!Next, Opened, e, b
  <2>6. ASSUME NEW x \in Sides, list' = [list EXCEPT ![c] = [list[c] EXCEPT !.preference = x]]
        PROVE  Chained' /\ B!Next
    <3>. DEFINE k == Preferring(old, x)
                e == Preferring(b, x)
    <3>1. k \in ListType /\ Shown(k, s, r) = e
      BY <2>1, ChangeFacts
    <3>2. k.first = old.first /\ k.last = old.last
      BY <2>1 DEF ListType, Preferring
    <3>3. x \in B!Direction
      BY DEF Sides, B!Direction
    <3>4. list' = [list EXCEPT ![c] = k]
      BY <2>6 DEF old, Preferring
    <3>. HIDE DEF k, e
    <3>5. Becoming(k, e)
      BY <3>1, <3>2
    <3>. HIDE DEF Becoming
    <3>6. Chained' /\ Lists' = [Lists EXCEPT ![c] = e]
      BY <2>2, <3>4, <3>5
    <3>. QED
      BY <3>3, <3>6 DEF B!Prefer, B!Next, Preferring, e, b
  <2>. QED
    BY <1>2, <2>3, <2>4, <2>5, <2>6
<1>. QED
  BY <1>1, <1>2, BookMoves
--------------------------------------------------------------------------------
(* What is true of what a tasklet notes.                                    *)

Resting == {"Send", "Delivered", "Receive", "Taken"}

TaskletType ==
    [at : {"code", "done"} \cup Resting, on : Channels \cup {NULL}, dir : Direction,
     queued : BOOLEAN, again : BOOLEAN, blocked : BOOLEAN, exc : BOOLEAN, args : BOOLEAN,
     killPending : BOOLEAN]

(* A direction is noted while the call that noted it has not met a partner, *)
(* and nobody is marked to go back to the queue when a step ends.           *)
Sane(r) ==
    /\ r \in TaskletType
    /\ r.dir = "SENDER" => r.at = "Send" /\ r.args
    /\ r.dir = "RECEIVER" => r.at = "Receive" /\ ~r.args
    /\ r.at \in Resting => r.on \in Channels
    /\ r.blocked => r.dir # "NEITHER"
    /\ ~r.again

(* Who is in a list is blocked, and only the main tasklet is queued, too.   *)
Well(t, r) ==
    /\ Sane(r)
    /\ t = Main => r.queued
    /\ r.dir # "NEITHER" => r.blocked /\ (r.queued => t = Main)

(* A tasklet that is killed is queued before it has left its list.          *)
Doomed(t, r) == Sane(r) /\ t # Main /\ r.exc

Noted ==
    /\ tk \in [Tasklets -> TaskletType] /\ refs \in [Tasklets -> Int]
    /\ turn \in Tasklets \cup {NULL}
    /\ \A t \in Tasklets : IF t = turn THEN Doomed(t, tk[t]) ELSE Well(t, tk[t])

IInv == Chained /\ B!Kept /\ Noted

LEMMA SameTasklet ==
    ASSUME NEW x \in TaskletType, NEW y \in TaskletType,
           x.at = y.at, x.on = y.on, x.dir = y.dir, x.queued = y.queued, x.again = y.again,
           x.blocked = y.blocked, x.exc = y.exc, x.args = y.args, x.killPending = y.killPending
    PROVE  x = y
BY DEF TaskletType

--------------------------------------------------------------------------------
(* The steps on notes and references.                                       *)

StateType == [tk : [Tasklets -> TaskletType], refs : [Tasklets -> Int]]

(* From x to y t notes r and is held d times more; nobody else changes.     *)
Moves(x, y, t, r, d) ==
    /\ y \in StateType /\ y.tk[t] = r /\ y.refs[t] = x.refs[t] + d
    /\ \A u \in Tasklets \ {t} : y.tk[u] = x.tk[u] /\ y.refs[u] = x.refs[u]

LEMMA MovesOn ==
    ASSUME NEW x \in StateType, NEW y, NEW z, NEW t \in Tasklets, NEW q, NEW r,
           NEW d \in Int, NEW e \in Int, Moves(x, y, t, q, d), Moves(y, z, t, r, e)
    PROVE  Moves(x, z, t, r, d + e)
BY DEF Moves, StateType

LEMMA StateTyped ==
    ASSUME Noted
    PROVE  State \in StateType /\ State.tk = tk /\ State.refs = refs
BY DEF Noted, State, StateType

LEMMA NoteMoves ==
    ASSUME NEW x \in StateType, NEW t \in Tasklets, NEW r \in TaskletType
    PROVE  Moves(x, Note(x, t, r), t, r, 0)
BY DEF Moves, StateType, Note

LEMMA RefMoves ==
    ASSUME NEW x \in StateType, NEW t \in Tasklets
    PROVE  Moves(x, Incref(x, t), t, x.tk[t], 1) /\ Moves(x, Decref(x, t), t, x.tk[t], -1)
<1>1. Moves(x, Incref(x, t), t, x.tk[t], 1)
  BY DEF Moves, StateType, Incref
<1>2. Moves(x, Decref(x, t), t, x.tk[t], -1)
  BY DEF Moves, StateType, Decref
<1>. QED
  BY <1>1, <1>2

LEMMA StaysMoves ==
    ASSUME NEW x \in StateType, NEW t \in Tasklets
    PROVE  Moves(x, x, t, x.tk[t], 0)
BY DEF Moves, StateType

(* A tasklet enters the queue. *)
LEMMA InsertMoves ==
    ASSUME NEW x \in StateType, NEW t \in Tasklets, ~x.tk[t].queued
    PROVE  /\ Moves(x, InsertTasklet(x, t), t, [x.tk[t] EXCEPT !.queued = TRUE, !.blocked = FALSE], 1)
           /\ InsertTaskletToRunNext(x, t) = InsertTasklet(x, t)
<1>. DEFINE r == [x.tk[t] EXCEPT !.queued = TRUE, !.blocked = FALSE]
            y == [x EXCEPT !.tk[t].queued = TRUE, !.tk[t].blocked = FALSE]
<1>1. r \in TaskletType
  BY ZenonT(30) DEF StateType, TaskletType
<1>2. y = Note(x, t, r)
  BY DEF StateType, Note, TaskletType
<1>. HIDE DEF r
<1>3. Moves(x, y, t, r, 0)
  BY <1>1, <1>2, NoteMoves
<1>4. InsertTasklet(x, t) = Incref(y, t) /\ InsertTaskletToRunNext(x, t) = InsertTasklet(x, t)
  BY DEF InsertTasklet, InsertTaskletToRunNext
<1>. HIDE DEF y
<1>5. y \in StateType /\ y.tk[t] = r
  BY <1>3 DEF Moves
<1>6. Moves(y, Incref(y, t), t, r, 1)
  BY <1>5, RefMoves
<1>7. Moves(x, Incref(y, t), t, r, 0 + 1)
  BY <1>3, <1>6, MovesOn
<1>. QED
  BY <1>4, <1>7 DEF r

LEMMA MarkMoves ==
    ASSUME NEW x \in StateType, NEW t \in Tasklets, x.tk[t].queued
    PROVE  /\ Moves(x, InsertTasklet(x, t), t, [x.tk[t] EXCEPT !.again = t # Main], 0)
           /\ Moves(x, InsertTaskletToRunNext(x, t), t, [x.tk[t] EXCEPT !.again = t # Main], 1)
<1>. DEFINE m == t # Main
            r == [x.tk[t] EXCEPT !.again = m]
            y == [x EXCEPT !.tk[t].again = m]
<1>1. r \in TaskletType
  BY DEF StateType, TaskletType
<1>2. y = Note(x, t, r)
  BY DEF StateType, Note, TaskletType
<1>3. InsertTasklet(x, t) = y /\ InsertTaskletToRunNext(x, t) = Incref(y, t)
  BY DEF InsertTasklet, InsertTaskletToRunNext, Marked
<1>. HIDE DEF r, y
<1>4. Moves(x, y, t, r, 0)
  BY <1>1, <1>2, NoteMoves
<1>5. y \in StateType /\ y.tk[t] = r
  BY <1>4 DEF Moves
<1>6. Moves(y, Incref(y, t), t, r, 1)
  BY <1>5, RefMoves
<1>7. Moves(x, Incref(y, t), t, r, 0 + 1)
  BY <1>4, <1>6, MovesOn
<1>. QED
  BY <1>3, <1>4, <1>7 DEF r

(* A tasklet that is not marked gives control back. *)
LEMMA LeavesRunMoves ==
    ASSUME NEW x \in StateType, NEW t \in Tasklets, ~x.tk[t].again
    PROVE  IF t = Main \/ ~x.tk[t].queued THEN Moves(x, LeavesRun(x, t), t, x.tk[t], 0)
           ELSE Moves(x, LeavesRun(x, t), t, [x.tk[t] EXCEPT !.queued = FALSE], -1)
<1>1. CASE t = Main \/ ~x.tk[t].queued
  BY <1>1, StaysMoves DEF LeavesRun
<1>2. CASE ~(t = Main \/ ~x.tk[t].queued)
  <2>. DEFINE r == [x.tk[t] EXCEPT !.queued = FALSE]
              y == [x EXCEPT !.tk[t].queued = FALSE]
  <2>1. r \in TaskletType
    BY ZenonT(30) DEF StateType, TaskletType
  <2>2. y = Note(x, t, r)
    BY DEF StateType, Note, TaskletType
  <2>3. LeavesRun(x, t) = Decref(y, t)
    BY <1>2 DEF LeavesRun
  <2>. HIDE DEF r, y
  <2>4. Moves(x, y, t, r, 0)
    BY <2>1, <2>2, NoteMoves
  <2>5. y \in StateType /\ y.tk[t] = r
    BY <2>4 DEF Moves
  <2>6. Moves(y, Decref(y, t), t, r, -1)
    BY <2>5, RefMoves
  <2>7. Moves(x, Decref(y, t), t, r, 0 + (-1))
    BY <2>4, <2>6, MovesOn
  <2>. QED
    BY <1>2, <2>3, <2>7 DEF r
<1>. QED
  BY <1>1, <1>2
(* A running tasklet goes to the back of the queue: it stays in it.         *)
LEMMA ReschedulesMoves ==
    ASSUME NEW x \in StateType, NEW t \in Tasklets, x.tk[t].queued, ~x.tk[t].blocked, ~x.tk[t].again
    PROVE  Moves(x, Reschedules(x, t), t, x.tk[t], 0)
<1>1. CASE t = Main
  BY <1>1, StaysMoves DEF Reschedules
<1>2. CASE t # Main
  <2>. DEFINE k == x.tk[t]
              r1 == [k EXCEPT !.again = TRUE]
              y1 == [x EXCEPT !.tk[t].again = TRUE]
              r2 == [r1 EXCEPT !.queued = FALSE]
              y2 == [y1 EXCEPT !.tk[t].queued = FALSE]
              y3 == InsertTasklet(y2, t)
              r3 == [r2 EXCEPT !.queued = TRUE, !.blocked = FALSE]
              r4 == [r3 EXCEPT !.again = FALSE]
              y4 == [y3 EXCEPT !.tk[t].again = FALSE]
  <2>1. k \in TaskletType
    BY DEF StateType
  <2>2. r1 \in TaskletType /\ r2 \in TaskletType /\ r3 \in TaskletType /\ r4 \in TaskletType
    BY <2>1 DEF TaskletType
  <2>3. r4 = k
    <3>. HIDE DEF k
    <3>1. /\ r4.at = k.at /\ r4.on = k.on /\ r4.dir = k.dir /\ r4.queued = k.queued
          /\ r4.again = k.again /\ r4.blocked = k.blocked /\ r4.exc = k.exc
          /\ r4.args = k.args /\ r4.killPending = k.killPending
      BY <2>1 DEF TaskletType, k
    <3>. HIDE DEF r4
    <3>. QED
      BY <2>1, <2>2, <3>1, SameTasklet
  <2>4. y1 = Note(x, t, r1)
    BY DEF StateType, Note, TaskletType
  <2>. HIDE DEF k
  <2>5. r1.again /\ r1.queued /\ ~r2.queued /\ r2.again
    BY <2>1 DEF TaskletType, k
  <2>. HIDE DEF r1
  <2>6. Moves(x, y1, t, r1, 0)
    BY <2>2, <2>4, NoteMoves
  <2>7. Reschedules(x, t) = LeavesRun(y1, t)
    BY <1>2 DEF Reschedules
  <2>. HIDE DEF y1
  <2>8. y1 \in StateType /\ y1.tk[t] = r1
    BY <2>6 DEF Moves
  <2>9. LeavesRun(y1, t) = Decref(IF y2.tk[t].again THEN y4 ELSE y2, t)
    <3>1. y1.tk[t].queued /\ (y1.tk[t].again <=> y2.tk[t].again)
      BY <2>5, <2>8 DEF StateType, TaskletType
    <3>2. y1.tk[t].again
      BY <2>5, <2>8
    <3>. QED
      BY <1>2, <3>1, <3>2 DEF LeavesRun
  <2>10. y2 = Note(y1, t, r2)
    BY <2>8 DEF StateType, Note, TaskletType
  <2>. HIDE DEF r2
  <2>11. Moves(y1, y2, t, r2, 0)
    BY <2>2, <2>8, <2>10, NoteMoves
  <2>. HIDE DEF y2
  <2>12. y2 \in StateType /\ y2.tk[t] = r2
    BY <2>11 DEF Moves
  <2>13. Moves(y2, y3, t, r3, 1)
    BY <2>5, <2>12, InsertMoves
  <2>. HIDE DEF y3, r3
  <2>14. y3 \in StateType /\ y3.tk[t] = r3
    BY <2>13 DEF Moves
  <2>15. y4 = Note(y3, t, r4)
    BY <2>14 DEF StateType, Note, TaskletType
  <2>. HIDE DEF r4
  <2>16. Moves(y3, y4, t, r4, 0)
    BY <2>2, <2>14, <2>15, NoteMoves
  <2>. HIDE DEF y4
  <2>17. y4 \in StateType /\ y4.tk[t] = r4
    BY <2>16 DEF Moves
  <2>18. Moves(y4, Decref(y4, t), t, r4, -1)
    BY <2>17, RefMoves
  <2>19. Reschedules(x, t) = Decref(y4, t)
    BY <2>5, <2>7, <2>9, <2>12
  <2>20. Moves(x, y2, t, r2, 0 + 0)
    BY <2>6, <2>8, <2>11, MovesOn
  <2>21. Moves(x, y3, t, r3, (0 + 0) + 1)
    BY <2>13, <2>20, MovesOn
  <2>22. Moves(x, y4, t, r4, ((0 + 0) + 1) + 0)
    BY <2>16, <2>21, MovesOn
  <2>23. Moves(x, Decref(y4, t), t, r4, (((0 + 0) + 1) + 0) + (-1))
    BY <2>18, <2>22, MovesOn
  <2>. QED
    BY <2>3, <2>19, <2>23 DEF k
<1>. QED
  BY <1>1, <1>2

(* A partner is woken: the reference of the channel becomes the queue's.    *)
LEMMA WakesMoves ==
    ASSUME NEW x \in StateType, NEW p \in Tasklets, NEW runNext \in BOOLEAN,
           ~x.tk[p].blocked, ~x.tk[p].again, x.tk[p].queued => p = Main
    PROVE  Moves(x, Wakes(x, p, runNext), p, [x.tk[p] EXCEPT !.queued = TRUE],
                 IF x.tk[p].queued /\ ~runNext THEN -1 ELSE 0)
<1>. DEFINE y == IF runNext THEN InsertTaskletToRunNext(x, p) ELSE InsertTasklet(x, p)
            k == x.tk[p]
            q == [k EXCEPT !.queued = TRUE]
            d == IF k.queued /\ ~runNext THEN 0 ELSE 1
<1>1. k \in TaskletType /\ q \in TaskletType
  BY DEF StateType, TaskletType
<1>2. Moves(x, y, p, q, d)
  <2>1. CASE ~k.queued
    <3>. DEFINE r == [k EXCEPT !.queued = TRUE, !.blocked = FALSE]
    <3>1. r \in TaskletType
      BY <1>1 DEF TaskletType
    <3>2. /\ r.at = q.at /\ r.on = q.on /\ r.dir = q.dir /\ r.queued = q.queued
          /\ r.again = q.again /\ r.blocked = q.blocked /\ r.exc = q.exc
          /\ r.args = q.args /\ r.killPending = q.killPending
      BY <1>1 DEF TaskletType
    <3>. HIDE DEF r, q
    <3>3. r = q
      BY <1>1, <3>1, <3>2, SameTasklet
    <3>. QED
      BY <2>1, <3>3, InsertMoves DEF r
  <2>2. CASE k.queued
    <3>. DEFINE r == [k EXCEPT !.again = p # Main]
    <3>1. r \in TaskletType
      BY <1>1 DEF TaskletType
    <3>2. /\ r.at = q.at /\ r.on = q.on /\ r.dir = q.dir /\ r.queued = q.queued
          /\ r.again = q.again /\ r.blocked = q.blocked /\ r.exc = q.exc
          /\ r.args = q.args /\ r.killPending = q.killPending
      BY <1>1, <2>2 DEF TaskletType
    <3>. HIDE DEF r, q
    <3>3. r = q
      BY <1>1, <3>1, <3>2, SameTasklet
    <3>4. Moves(x, InsertTasklet(x, p), p, r, 0) /\ Moves(x, InsertTaskletToRunNext(x, p), p, r, 1)
      BY <2>2, MarkMoves DEF r
    <3>. QED
      BY <2>2, <3>3, <3>4
  <2>. QED
    BY <2>1, <2>2
<1>3. Wakes(x, p, runNext) = Decref(y, p)
  BY DEF Wakes
<1>. HIDE DEF y, q
<1>4. y \in StateType /\ y.tk[p] = q
  BY <1>2 DEF Moves
<1>5. Moves(y, Decref(y, p), p, q, -1)
  BY <1>4, RefMoves
<1>6. d \in Int /\ d + (-1) = IF k.queued /\ ~runNext THEN -1 ELSE 0
  OBVIOUS
<1>. HIDE DEF d
<1>7. Moves(x, Decref(y, p), p, q, d + (-1))
  BY <1>2, <1>4, <1>5, <1>6, MovesOn
<1>. QED
  BY <1>3, <1>6, <1>7 DEF q
--------------------------------------------------------------------------------
(* What every step does.                                                    *)

Awaits(r) == (r.at = "Send" /\ r.args) \/ (r.at = "Receive" /\ ~r.args)

Held(r) == (IF r.queued THEN 1 ELSE 0) + (IF Awaits(r) THEN 1 ELSE 0)

LEMMA HeldIsHolders ==
    \A t \in Tasklets : Holders(t) = Held(tk[t]) /\ Holders(t)' = Held(tk'[t])
BY DEF Holders, AwaitsPartner, Held, Awaits

(* u is given a reference back that was not taken, or keeps one for nothing. *)
GivenTooMuch(u) == refs'[u] - Held(tk'[u]) < refs[u] - Held(tk[u])
LeftOver(u) == refs'[u] - Held(tk'[u]) > refs[u] - Held(tk[u])

Accounts ==
    \A u \in Tasklets :
        /\ GivenTooMuch(u) => \/ TakenReturns(u) /\ tk[u].exc
                              \/ "remove_unqueued" \in Ops
        /\ LeftOver(u) => \/ \E c \in Channels : ReceiveOnClosed(u, c)
                          \/ tk[u].queued /\ Awaits(tk[u]) /\ ~Awaits(tk'[u])

InBook == Chained' /\ B!Kept' /\ (B!Next \/ Lists' = Lists)

(* One tasklet changes its notes. *)
LEMMA OneMoves ==
    ASSUME Noted, NEW t \in Tasklets, turn \in {NULL, t}, turn' \in {NULL, t},
           NEW y, NEW r, NEW d \in Int, Moves(State, y, t, r, d), Becomes(y),
           IF turn' = t THEN Doomed(t, r) ELSE Well(t, r)
    PROVE  /\ Noted'
           /\ tk'[t] = r /\ refs'[t] = refs[t] + d
           /\ \A u \in Tasklets \ {t} : tk'[u] = tk[u] /\ refs'[u] = refs[u]
<1>1. State \in StateType /\ State.tk = tk /\ State.refs = refs
  BY StateTyped
<1>2. y \in StateType /\ tk' = y.tk /\ refs' = y.refs
  BY DEF Moves, Becomes
<1>3. tk' \in [Tasklets -> TaskletType] /\ refs' \in [Tasklets -> Int]
  BY <1>2 DEF StateType
<1>4. /\ tk'[t] = r /\ refs'[t] = refs[t] + d
      /\ \A u \in Tasklets \ {t} : tk'[u] = tk[u] /\ refs'[u] = refs[u]
  BY <1>1, <1>2 DEF Moves
<1>5. turn' \in Tasklets \cup {NULL}
  OBVIOUS
<1>6. ASSUME NEW u \in Tasklets PROVE IF u = turn' THEN Doomed(u, tk'[u]) ELSE Well(u, tk'[u])
  <2>1. CASE u = t
    BY <1>4, <2>1, OwnershipAssumption
  <2>2. CASE u # t
    <3>1. u # turn /\ u # turn'
      BY <2>2, OwnershipAssumption
    <3>2. Well(u, tk[u])
      BY <3>1 DEF Noted
    <3>. QED
      BY <1>4, <2>2, <3>1, <3>2
  <2>. QED
    BY <2>1, <2>2
<1>. QED
  BY <1>3, <1>4, <1>5, <1>6 DEF Noted

(* A tasklet t and its partner p change theirs. *)
LEMMA TwoMove ==
    ASSUME Noted, NEW t \in Tasklets, NEW p \in Tasklets, p # t, turn = NULL, turn' = NULL,
           NEW x, NEW y, NEW q, NEW r, NEW d \in Int, NEW e \in Int,
           Moves(State, x, p, q, d), Moves(x, y, t, r, e), Becomes(y),
           Well(p, q), Well(t, r)
    PROVE  /\ Noted'
           /\ tk'[t] = r /\ refs'[t] = refs[t] + e
           /\ tk'[p] = q /\ refs'[p] = refs[p] + d
           /\ \A u \in Tasklets \ {t, p} : tk'[u] = tk[u] /\ refs'[u] = refs[u]
<1>1. State \in StateType /\ State.tk = tk /\ State.refs = refs
  BY StateTyped
<1>2. y \in StateType /\ tk' = y.tk /\ refs' = y.refs
  BY DEF Moves, Becomes
<1>3. tk' \in [Tasklets -> TaskletType] /\ refs' \in [Tasklets -> Int]
  BY <1>2 DEF StateType
<1>4. /\ tk'[t] = r /\ refs'[t] = refs[t] + e
      /\ tk'[p] = q /\ refs'[p] = refs[p] + d
      /\ \A u \in Tasklets \ {t, p} : tk'[u] = tk[u] /\ refs'[u] = refs[u]
  BY <1>1, <1>2 DEF Moves
<1>5. \A u \in Tasklets : u # turn /\ u # turn'
  BY OwnershipAssumption
<1>6. ASSUME NEW u \in Tasklets PROVE Well(u, tk'[u])
  <2>1. Well(u, tk[u])
    BY <1>5 DEF Noted
  <2>. QED
    BY <1>4, <2>1
<1>. QED
  BY <1>3, <1>4, <1>5, <1>6 DEF Noted

(* Who calls an operation waits nowhere, and no kill is about to run.       *)
LEMMA CallerFacts ==
    ASSUME Noted, NEW t \in Tasklets, NEW op, turn \in {NULL, t}, Calls(t, op)
    PROVE  /\ turn = NULL /\ tk[t] \in TaskletType /\ Well(t, tk[t])
           /\ tk[t].queued /\ ~tk[t].blocked /\ ~tk[t].exc /\ ~tk[t].args /\ ~tk[t].again
           /\ tk[t].at = "code" /\ tk[t].dir = "NEITHER" /\ ~Awaits(tk[t])
<1>1. tk[t].queued /\ ~tk[t].blocked /\ tk[t].at = "code" /\ ~tk[t].exc /\ ~tk[t].args
  BY DEF Calls, CanRun
<1>2. turn # t
  BY <1>1 DEF Noted, Doomed
<1>3. Well(t, tk[t])
  BY <1>2 DEF Noted
<1>4. Sane(tk[t])
  BY <1>3 DEF Well
<1>5. tk[t].dir # "SENDER" /\ tk[t].dir # "RECEIVER" /\ tk[t] \in TaskletType /\ ~tk[t].again
  BY <1>1, <1>4 DEF Sane
<1>6. tk[t].dir = "NEITHER"
  BY <1>5 DEF TaskletType, Direction, Sides
<1>. QED
  BY <1>1, <1>2, <1>3, <1>5, <1>6 DEF Awaits
--------------------------------------------------------------------------------
(* The actions. *)

(* A tasklet waits: the reference of the queue becomes the channel's.       *)
LEMMA WaitsMoves ==
    ASSUME Noted, NEW t \in Tasklets, NEW r \in TaskletType, ~r.again, r.queued
    PROVE  LET y == LeavesRun(Incref(Note(State, t, r), t), t) IN
           IF t = Main THEN Moves(State, y, t, r, 1)
           ELSE Moves(State, y, t, [r EXCEPT !.queued = FALSE], 0)
<1>. DEFINE x == State
            x1 == Note(x, t, r)
            x2 == Incref(x1, t)
            y == LeavesRun(x2, t)
<1>1. x \in StateType
  BY StateTyped
<1>. HIDE DEF x
<1>2. Moves(x, x1, t, r, 0)
  BY <1>1, NoteMoves
<1>. HIDE DEF x1
<1>3. x1 \in StateType /\ x1.tk[t] = r
  BY <1>2 DEF Moves
<1>4. Moves(x1, x2, t, r, 1)
  BY <1>3, RefMoves
<1>. HIDE DEF x2
<1>5. x2 \in StateType /\ x2.tk[t] = r
  BY <1>4 DEF Moves
<1>6. Moves(x, x2, t, r, 0 + 1)
  BY <1>1, <1>2, <1>4, MovesOn
<1>7. CASE t = Main
  <2>1. Moves(x2, y, t, r, 0)
    BY <1>5, <1>7, LeavesRunMoves
  <2>2. Moves(x, y, t, r, (0 + 1) + 0)
    BY <1>1, <1>6, <2>1, MovesOn
  <2>. QED
    BY <1>7, <2>2 DEF x, x1, x2
<1>8. CASE t # Main
  <2>. DEFINE q == [r EXCEPT !.queued = FALSE]
  <2>1. Moves(x2, y, t, q, -1)
    BY <1>5, <1>8, LeavesRunMoves
  <2>. HIDE DEF q
  <2>2. Moves(x, y, t, q, (0 + 1) + (-1))
    BY <1>1, <1>6, <2>1, MovesOn
  <2>. QED
    BY <1>8, <2>2 DEF x, x1, x2, q
<1>. QED
  BY <1>7, <1>8

(* A call that finds no partner. *)
LEMMA BlocksKeeps ==
    ASSUME IInv, NEW t \in Tasklets, turn = NULL, turn' = NULL,
           NEW c \in Channels, NEW side \in Sides, NEW r \in TaskletType,
           tk[t].dir = "NEITHER", tk[t].queued, ~Awaits(tk[t]),
           Awaits(r), Well(t, [r EXCEPT !.queued = t = Main]), r.queued, ~r.again,
           r.dir = side, r.on = c,
           list[c].first[Across(side)] = NULL, ~ClosingOrClosed(c),
           list' = [list EXCEPT ![c] = UpdateCloseState(Added(c, t, side))],
           link' = LinkAdded(c, t, side),
           Becomes(LeavesRun(Incref(Note(State, t, r), t), t))
    PROVE  Noted' /\ InBook /\ Accounts
<1>. DEFINE y == LeavesRun(Incref(Note(State, t, r), t), t)
            q == [r EXCEPT !.queued = t = Main]
            d == IF t = Main THEN 1 ELSE 0
<1>1. Noted /\ Chained /\ B!Kept
  BY DEF IInv
<1>2. /\ q \in TaskletType /\ q.at = r.at /\ q.on = r.on /\ q.dir = r.dir /\ q.again = r.again
      /\ q.blocked = r.blocked /\ q.exc = r.exc /\ q.args = r.args /\ q.killPending = r.killPending
      /\ (q.queued <=> t = Main)
  BY DEF TaskletType
<1>3. IF t = Main THEN Moves(State, y, t, r, 1)
      ELSE Moves(State, y, t, [r EXCEPT !.queued = FALSE], 0)
  BY <1>1, WaitsMoves
<1>4. q = IF t = Main THEN r ELSE [r EXCEPT !.queued = FALSE]
  <2>1. CASE t = Main
    <3>. HIDE DEF q
    <3>1. q.queued = r.queued
      BY <1>2, <2>1 DEF TaskletType
    <3>. QED
      BY <1>2, <2>1, <3>1, SameTasklet
  <2>2. CASE t # Main
    BY <2>2
  <2>. QED
    BY <2>1, <2>2
<1>5. Moves(State, y, t, q, d) /\ d \in Int
  BY <1>3, <1>4
<1>. HIDE DEF y
<1>6. Becomes(y) /\ Well(t, q) /\ turn' # t
  BY OwnershipAssumption DEF y
<1>. HIDE DEF q
<1>7. /\ Noted'
      /\ tk'[t] = q /\ refs'[t] = refs[t] + d
      /\ \A u \in Tasklets \ {t} : tk'[u] = tk[u] /\ refs'[u] = refs[u]
  BY <1>1, <1>5, <1>6, OneMoves
<1>8. InBook
  <2>1. tk'[t].dir = side /\ tk'[t].on = c
    BY <1>2, <1>7
  <2>. QED
    BY <1>1, <1>7, <2>1, JoinsTheBook DEF InBook
<1>9. Accounts
  <2>1. Held(tk'[t]) = d + 1 /\ Held(tk[t]) = 1 /\ refs[t] \in Int
    <3>1. Awaits(q)
      BY <1>2 DEF Awaits
    <3>. QED
      BY <1>1, <1>2, <1>7, <3>1 DEF Held, Noted
  <2>2. \A u \in Tasklets \ {t} : refs[u] \in Int /\ Held(tk[u]) \in Int
    BY <1>1 DEF Noted, Held
  <2>. QED
    BY <1>7, <2>1, <2>2 DEF Accounts, GivenTooMuch, LeftOver
<1>. QED
  BY <1>7, <1>8, <1>9

LEMMA SendBlocksKeeps ==
    ASSUME IInv, NEW t \in Tasklets, turn \in {NULL, t}, turn' = NULL, NEW c \in Channels,
           SendBlocks(t, c)
    PROVE  Noted' /\ InBook /\ Accounts
<1>. DEFINE k == tk[t]
            r == [k EXCEPT !.at = "Send", !.on = c, !.dir = "SENDER", !.blocked = TRUE, !.args = TRUE]
            q == [r EXCEPT !.queued = t = Main]
<1>1. /\ turn = NULL /\ k \in TaskletType
      /\ k.queued /\ ~k.blocked /\ ~k.again /\ k.dir = "NEITHER" /\ ~Awaits(k)
  BY CallerFacts DEF SendBlocks, IInv
<1>2. /\ list[c].first["RECEIVER"] = NULL /\ ~ClosingOrClosed(c)
      /\ list' = [list EXCEPT ![c] = UpdateCloseState(Added(c, t, "SENDER"))]
      /\ link' = LinkAdded(c, t, "SENDER")
      /\ Becomes(LeavesRun(Incref(Note(State, t, r), t), t))
  BY DEF SendBlocks
<1>. HIDE DEF k
<1>3. /\ r \in TaskletType /\ r.queued /\ ~r.again /\ r.dir = "SENDER" /\ r.on = c
      /\ r.at = "Send" /\ r.args /\ r.blocked
  BY <1>1 DEF TaskletType, Resting, Direction, Sides
<1>. HIDE DEF r
<1>4. /\ q \in TaskletType /\ ~q.again /\ q.dir = "SENDER" /\ q.on = c
      /\ q.at = "Send" /\ q.args /\ q.blocked /\ (q.queued <=> t = Main)
  BY <1>3 DEF TaskletType
<1>. HIDE DEF q
<1>5. Well(t, q) /\ Awaits(r)
  BY <1>3, <1>4 DEF Well, Sane, Awaits
<1>6. "SENDER" \in Sides /\ Across("SENDER") = "RECEIVER"
  BY DEF Sides, Across
<1>. QED
  BY <1>1, <1>2, <1>3, <1>5, <1>6, BlocksKeeps DEF k, q

LEMMA ReceiveBlocksKeeps ==
    ASSUME IInv, NEW t \in Tasklets, turn \in {NULL, t}, turn' = NULL, NEW c \in Channels,
           ReceiveBlocks(t, c)
    PROVE  Noted' /\ InBook /\ Accounts
<1>. DEFINE k == tk[t]
            r == [k EXCEPT !.at = "Receive", !.on = c, !.dir = "RECEIVER", !.blocked = TRUE]
            q == [r EXCEPT !.queued = t = Main]
<1>1. /\ turn = NULL /\ k \in TaskletType
      /\ k.queued /\ ~k.blocked /\ ~k.again /\ ~k.args /\ k.dir = "NEITHER" /\ ~Awaits(k)
  BY CallerFacts DEF ReceiveBlocks, IInv
<1>2. /\ list[c].first["SENDER"] = NULL /\ ~ClosingOrClosed(c)
      /\ list' = [list EXCEPT ![c] = UpdateCloseState(Added(c, t, "RECEIVER"))]
      /\ link' = LinkAdded(c, t, "RECEIVER")
      /\ Becomes(LeavesRun(Incref(Note(State, t, r), t), t))
  BY DEF ReceiveBlocks
<1>. HIDE DEF k
<1>3. /\ r \in TaskletType /\ r.queued /\ ~r.again /\ r.dir = "RECEIVER" /\ r.on = c
      /\ r.at = "Receive" /\ ~r.args /\ r.blocked
  BY <1>1 DEF TaskletType, Resting, Direction, Sides
<1>. HIDE DEF r
<1>4. /\ q \in TaskletType /\ ~q.again /\ q.dir = "RECEIVER" /\ q.on = c
      /\ q.at = "Receive" /\ ~q.args /\ q.blocked /\ (q.queued <=> t = Main)
  BY <1>3 DEF TaskletType
<1>. HIDE DEF q
<1>5. Well(t, q) /\ Awaits(r)
  BY <1>3, <1>4 DEF Well, Sane, Awaits
<1>6. "RECEIVER" \in Sides /\ Across("RECEIVER") = "SENDER"
  BY DEF Sides, Across
<1>. QED
  BY <1>1, <1>2, <1>3, <1>5, <1>6, BlocksKeeps DEF k, q
LEMMA FirstWaits ==
    ASSUME Chained, NEW c \in Channels, NEW side \in Sides, list[c].first[side] # NULL
    PROVE  /\ list[c].first[side] \in Tasklets
           /\ tk[list[c].first[side]].dir = side /\ tk[list[c].first[side]].on = c
<1>. DEFINE s == FromFirst(c, side)
            p == list[c].first[side]
<1>1. Strung(s, link, p, list[c].last[side])
  BY DEF Chained, AllStrung
<1>2. \A t \in Tasklets : B!In(t, s) <=> tk[t].dir = side /\ tk[t].on = c
  BY DEF Chained, Located
<1>3. p # NULL
  OBVIOUS
<1>. HIDE DEF s, p
<1>4. s \in Seq(Tasklets) /\ s # <<>> /\ p = s[1]
  BY <1>1, <1>3 DEF Strung
<1>5. 1 \in DOMAIN s /\ p \in Tasklets
  BY <1>4
<1>6. B!In(p, s)
  BY <1>4, <1>5 DEF B!In
<1>. QED
  BY <1>2, <1>5, <1>6 DEF p

(* A call takes its partner p off the channel. *)
LEMMA MeetsKeeps ==
    ASSUME IInv, NEW t \in Tasklets, NEW p \in Tasklets, p # t, turn = NULL, turn' = NULL,
           NEW c \in Channels, tk[p].dir \in Sides, tk[p].on = c, TakeOff(c, p),
           NEW q \in TaskletType, q.queued = tk[p].queued, q.dir = "NEITHER", ~q.blocked,
           ~q.again, ~Awaits(q), q.on = c,
           NEW n \in BOOLEAN, NEW y, NEW k,
           Moves(Wakes(Note(State, p, q), p, n), y, t, k, 0), Becomes(y), Well(t, k),
           Held(k) = Held(tk[t]), k.dir = tk[t].dir, tk[t].dir = "NEITHER"
    PROVE  Noted' /\ InBook /\ Accounts
<1>. DEFINE x == State
            x1 == Note(x, p, q)
            w == Wakes(x1, p, n)
            q2 == [q EXCEPT !.queued = TRUE]
            d == IF q.queued /\ ~n THEN -1 ELSE 0
<1>1. x \in StateType /\ Noted /\ Chained /\ B!Kept
  BY StateTyped DEF IInv
<1>2. Well(p, tk[p]) /\ tk[p] \in TaskletType /\ turn' # t /\ turn' # p
  BY OwnershipAssumption DEF Noted, IInv
<1>3. tk[p].blocked /\ (tk[p].queued => p = Main) /\ Awaits(tk[p])
  BY <1>2 DEF Well, Sane, Sides, Awaits
<1>. HIDE DEF x
<1>4. Moves(x, x1, p, q, 0)
  BY <1>1, NoteMoves
<1>. HIDE DEF x1
<1>5. x1 \in StateType /\ x1.tk[p] = q
  BY <1>4 DEF Moves
<1>6. Moves(x1, w, p, q2, d) /\ d \in Int
  <2>1. Moves(x1, w, p, q2, IF q.queued /\ ~n THEN -1 ELSE 0)
    BY <1>3, <1>5, WakesMoves
  <2>. QED
    BY <2>1
<1>. HIDE DEF w
<1>7. /\ q2 \in TaskletType /\ q2.queued /\ q2.dir = "NEITHER" /\ ~q2.blocked
      /\ ~q2.again /\ q2.on = c /\ q2.at = q.at /\ q2.args = q.args
  BY DEF TaskletType
<1>. HIDE DEF q2
<1>8. Moves(x, w, p, q2, 0 + d)
  <2>. HIDE DEF d
  <2>. QED
    BY <1>1, <1>4, <1>6, MovesOn
<1>9. 0 + d = d
  BY <1>6
<1>10. Well(p, q2)
  BY <1>7 DEF Well, Sane
<1>11. Moves(x, w, p, q2, d) /\ Moves(w, y, t, k, 0) /\ d \in Int
  BY <1>6, <1>8, <1>9 DEF w, x1, x
<1>12. /\ Noted'
       /\ tk'[t] = k /\ refs'[t] = refs[t] + 0
       /\ tk'[p] = q2 /\ refs'[p] = refs[p] + d
       /\ \A u \in Tasklets \ {t, p} : tk'[u] = tk[u] /\ refs'[u] = refs[u]
  <2>. HIDE DEF d
  <2>. QED
    BY <1>1, <1>10, <1>11, TwoMove DEF x
<1>13. InBook
  <2>1. \A u \in Tasklets \ {p} : /\ tk'[u].dir = tk[u].dir
                                  /\ tk[u].dir # "NEITHER" => tk'[u].on = tk[u].on
    BY <1>12
  <2>2. tk'[p].dir = "NEITHER"
    BY <1>7, <1>12
  <2>. QED
    BY <1>1, <2>1, <2>2, LeavesTheBook DEF InBook, TakeOff
<1>14. Accounts
  <2>1. \A u \in Tasklets : refs[u] \in Int /\ Held(tk[u]) \in Int
    BY <1>1 DEF Noted, Held
  <2>2. Held(q2) = 1 /\ ~Awaits(q2)
    BY <1>7 DEF Held, Awaits
  <2>3. Held(tk[p]) = IF tk[p].queued THEN 2 ELSE 1
    BY <1>3 DEF Held
  <2>4. d = IF tk[p].queued /\ ~n THEN -1 ELSE 0
    OBVIOUS
  <2>. HIDE DEF d
  <2>5. ~GivenTooMuch(p) /\ (LeftOver(p) => tk[p].queued /\ Awaits(tk[p]) /\ ~Awaits(tk'[p]))
    BY <1>3, <1>12, <2>1, <2>2, <2>3, <2>4 DEF GivenTooMuch, LeftOver
  <2>6. \A u \in Tasklets \ {p} : ~GivenTooMuch(u) /\ ~LeftOver(u)
    <3>1. ~GivenTooMuch(t) /\ ~LeftOver(t)
      BY <1>12, <2>1 DEF GivenTooMuch, LeftOver
    <3>2. \A u \in Tasklets \ {t, p} : ~GivenTooMuch(u) /\ ~LeftOver(u)
      BY <1>12, <2>1 DEF GivenTooMuch, LeftOver
    <3>. QED
      BY <3>1, <3>2
  <2>. QED
    BY <2>5, <2>6 DEF Accounts
<1>. QED
  BY <1>12, <1>13, <1>14

(* The caller moves on in its code and to the back of the queue.            *)
LEMMA MovesBack ==
    ASSUME NEW w \in StateType, NEW t \in Tasklets, NEW k \in TaskletType,
           k.queued, ~k.blocked, ~k.again
    PROVE  Moves(w, Reschedules(Note(w, t, k), t), t, k, 0)
<1>. DEFINE z == Note(w, t, k)
<1>1. Moves(w, z, t, k, 0)
  BY NoteMoves
<1>. HIDE DEF z
<1>2. z \in StateType /\ z.tk[t] = k
  BY <1>1 DEF Moves
<1>3. Moves(z, Reschedules(z, t), t, k, 0)
  BY <1>2, ReschedulesMoves
<1>4. Moves(w, Reschedules(z, t), t, k, 0 + 0)
  BY <1>1, <1>3, MovesOn
<1>. QED
  BY <1>4 DEF z

(* What p and the others note while p is woken. *)
LEMMA WokenType ==
    ASSUME Noted, NEW p \in Tasklets, NEW q \in TaskletType, NEW n \in BOOLEAN, NEW t \in Tasklets,
           ~q.blocked, ~q.again, q.queued => p = Main, t # p
    PROVE  /\ Wakes(Note(State, p, q), p, n) \in StateType
           /\ Wakes(Note(State, p, q), p, n).tk[t] = tk[t]
<1>1. State \in StateType /\ State.tk = tk
  BY StateTyped
<1>2. Moves(State, Note(State, p, q), p, q, 0)
  BY <1>1, NoteMoves
<1>. DEFINE x == Note(State, p, q)
            d == IF q.queued /\ ~n THEN -1 ELSE 0
<1>. HIDE DEF x
<1>3. x \in StateType /\ x.tk[p] = q /\ x.tk[t] = tk[t]
  BY <1>1, <1>2 DEF Moves, x
<1>4. Moves(x, Wakes(x, p, n), p, [q EXCEPT !.queued = TRUE], d)
  BY <1>3, WakesMoves
<1>. HIDE DEF d
<1>5. Wakes(x, p, n) \in StateType /\ Wakes(x, p, n).tk[t] = tk[t]
  BY <1>3, <1>4 DEF Moves
<1>. QED
  BY <1>5 DEF x

LEMMA SendDeliversKeeps ==
    ASSUME IInv, NEW t \in Tasklets, turn \in {NULL, t}, turn' = NULL, NEW c \in Channels,
           SendDelivers(t, c)
    PROVE  Noted' /\ InBook /\ Accounts
<1>. DEFINE p == list[c].first["RECEIVER"]
            q == [tk[p] EXCEPT !.blocked = FALSE, !.dir = "NEITHER", !.args = TRUE]
            k == [tk[t] EXCEPT !.at = "Delivered", !.on = c]
            w == Wakes(Note(State, p, q), p, TRUE)
            z == [w EXCEPT !.tk[t].at = "Delivered", !.tk[t].on = c]
            v == Wakes(Note(State, p, q), p, FALSE)
<1>1. /\ turn = NULL /\ tk[t] \in TaskletType /\ Well(t, tk[t])
      /\ tk[t].queued /\ ~tk[t].blocked /\ ~tk[t].again /\ ~tk[t].args /\ tk[t].at = "code"
      /\ tk[t].dir = "NEITHER" /\ ~Awaits(tk[t])
  BY CallerFacts DEF SendDelivers, IInv
<1>2. p # NULL /\ TakeOff(c, p)
      /\ IF list[c].preference = "RECEIVER" THEN Becomes(Reschedules(z, t)) ELSE Becomes(v)
  BY DEF SendDelivers
<1>3. p \in Tasklets /\ tk[p].dir = "RECEIVER" /\ tk[p].on = c /\ "RECEIVER" \in Sides
  BY <1>2, FirstWaits DEF IInv, Sides
<1>. HIDE DEF p
<1>4. p # t /\ p # turn
  BY <1>1, <1>3, OwnershipAssumption
<1>5. Well(p, tk[p])
  BY <1>3, <1>4 DEF IInv, Noted
<1>6. /\ tk[p] \in TaskletType /\ tk[p].at = "Receive" /\ (tk[p].queued => p = Main) /\ ~tk[p].again
  BY <1>3, <1>5 DEF Well, Sane
<1>7. /\ q \in TaskletType /\ q.queued = tk[p].queued /\ q.dir = "NEITHER" /\ ~q.blocked
      /\ ~q.again /\ q.on = c /\ q.at = "Receive" /\ q.args
  BY <1>3, <1>6 DEF TaskletType, Direction
<1>8. ~Awaits(q)
  BY <1>7 DEF Awaits
<1>. HIDE DEF q
<1>9. /\ w \in StateType /\ w.tk[t] = tk[t] /\ v \in StateType /\ v.tk[t] = tk[t]
  BY <1>3, <1>4, <1>6, <1>7, WokenType DEF IInv
<1>10. CASE list[c].preference = "RECEIVER"
  <2>1. z = Note(w, t, k)
    <3>. HIDE DEF w
    <3>. QED
      BY <1>1, <1>9 DEF StateType, Note, TaskletType
  <2>2. /\ k \in TaskletType /\ k.queued /\ ~k.blocked /\ ~k.again /\ k.at = "Delivered"
        /\ k.dir = "NEITHER" /\ k.on = c
    BY <1>1 DEF TaskletType, Resting
  <2>. HIDE DEF k, z
  <2>3. Moves(w, Reschedules(z, t), t, k, 0)
    <3>. HIDE DEF w
    <3>. QED
      BY <1>9, <2>1, <2>2, MovesBack
  <2>4. Well(t, k) /\ Held(k) = Held(tk[t])
    BY <1>1, <2>2 DEF Well, Sane, Held, Awaits, Resting
  <2>. QED
    BY <1>1, <1>2, <1>3, <1>4, <1>7, <1>8, <1>10, <2>2, <2>3, <2>4, MeetsKeeps
<1>11. CASE list[c].preference # "RECEIVER"
  <2>1. Moves(v, v, t, tk[t], 0)
    <3>. HIDE DEF v
    <3>. QED
      BY <1>9, StaysMoves
  <2>. QED
    BY <1>1, <1>2, <1>3, <1>4, <1>7, <1>8, <1>11, <2>1, MeetsKeeps
<1>. QED
  BY <1>10, <1>11

LEMMA ReceiveTakesKeeps ==
    ASSUME IInv, NEW t \in Tasklets, turn \in {NULL, t}, turn' = NULL, NEW c \in Channels,
           ReceiveTakes(t, c)
    PROVE  Noted' /\ InBook /\ Accounts
<1>. DEFINE p == list[c].first["SENDER"]
            q == [tk[p] EXCEPT !.blocked = FALSE, !.dir = "NEITHER", !.args = FALSE]
            k == [tk[t] EXCEPT !.at = "Taken", !.on = c, !.args = TRUE]
            w == Wakes(Note(State, p, q), p, TRUE)
            z == [w EXCEPT !.tk[t].at = "Taken", !.tk[t].on = c, !.tk[t].args = TRUE]
            v == Wakes(Note(State, p, q), p, FALSE)
<1>1. /\ turn = NULL /\ tk[t] \in TaskletType /\ Well(t, tk[t])
      /\ tk[t].queued /\ ~tk[t].blocked /\ ~tk[t].again /\ ~tk[t].args /\ tk[t].at = "code"
      /\ tk[t].dir = "NEITHER" /\ ~Awaits(tk[t])
  <2>1. turn \in {NULL, t} /\ Calls(t, "receive")
    BY DEF ReceiveTakes
  <2>. QED
    BY <2>1, CallerFacts DEF IInv
<1>2. p # NULL /\ TakeOff(c, p)
      /\ IF list[c].preference = "SENDER" THEN Becomes(Reschedules(z, t)) ELSE Becomes(v)
  BY DEF ReceiveTakes
<1>3. p \in Tasklets /\ tk[p].dir = "SENDER" /\ tk[p].on = c /\ "SENDER" \in Sides
  BY <1>2, FirstWaits DEF IInv, Sides
<1>. HIDE DEF p
<1>4. p # t /\ p # turn
  BY <1>1, <1>3, OwnershipAssumption
<1>5. Well(p, tk[p])
  BY <1>3, <1>4 DEF IInv, Noted
<1>6. /\ tk[p] \in TaskletType /\ tk[p].at = "Send" /\ (tk[p].queued => p = Main) /\ ~tk[p].again
  BY <1>3, <1>5 DEF Well, Sane
<1>7. /\ q \in TaskletType /\ q.queued = tk[p].queued /\ q.dir = "NEITHER" /\ ~q.blocked
      /\ ~q.again /\ q.on = c /\ q.at = "Send" /\ ~q.args
  BY <1>3, <1>6 DEF TaskletType, Direction
<1>8. ~Awaits(q)
  BY <1>7 DEF Awaits
<1>. HIDE DEF q
<1>9. /\ w \in StateType /\ w.tk[t] = tk[t] /\ v \in StateType /\ v.tk[t] = tk[t]
  BY <1>3, <1>4, <1>6, <1>7, WokenType DEF IInv
<1>10. CASE list[c].preference = "SENDER"
  <2>1. z = Note(w, t, k)
    <3>. HIDE DEF w
    <3>. QED
      BY <1>1, <1>9 DEF StateType, Note, TaskletType
  <2>2. /\ k \in TaskletType /\ k.queued /\ ~k.blocked /\ ~k.again /\ k.at = "Taken"
        /\ k.dir = "NEITHER" /\ k.on = c
    BY <1>1 DEF TaskletType, Resting
  <2>. HIDE DEF k, z
  <2>3. Moves(w, Reschedules(z, t), t, k, 0)
    <3>. HIDE DEF w
    <3>. QED
      BY <1>9, <2>1, <2>2, MovesBack
  <2>4. Well(t, k) /\ Held(k) = Held(tk[t])
    BY <1>1, <2>2 DEF Well, Sane, Held, Awaits, Resting
  <2>. QED
    BY <1>1, <1>2, <1>3, <1>4, <1>7, <1>8, <1>10, <2>2, <2>3, <2>4, MeetsKeeps
<1>11. CASE list[c].preference # "SENDER"
  <2>1. Moves(v, v, t, tk[t], 0)
    <3>. HIDE DEF v
    <3>. QED
      BY <1>9, StaysMoves
  <2>. QED
    BY <1>1, <1>2, <1>3, <1>4, <1>7, <1>8, <1>11, <2>1, MeetsKeeps
<1>. QED
  BY <1>10, <1>11
(* The lists keep their tasklets. *)
ListsStay ==
    /\ link' = link
    /\ \/ list' = list
       \/ \E c \in Channels :
            \/ list' = [list EXCEPT ![c] = UpdateCloseState(list[c])]
            \/ list' = [list EXCEPT ![c] = UpdateCloseState([list[c] EXCEPT !.closing = TRUE])]
            \/ list' = [list EXCEPT ![c] = [list[c] EXCEPT !.closing = FALSE, !.closed = FALSE]]
            \/ \E x \in Sides : list' = [list EXCEPT ![c] = [list[c] EXCEPT !.preference = x]]

(* t leaves the list that its notes name. *)
ListLeft(t) ==
    /\ tk[t].dir \in Sides /\ tk[t].on \in Channels
    /\ \/ list' = [list EXCEPT ![tk[t].on] = Removed(tk[t].on, t)]
       \/ list' = [list EXCEPT ![tk[t].on] = UpdateCloseState(Removed(tk[t].on, t))]
    /\ link' = LinkRemoved(tk[t].on, t)

(* The references that t gains fit what it notes afterwards.                *)
Fits(t, r, d) ==
    /\ d - Held(r) < 0 - Held(tk[t]) => \/ TakenReturns(t) /\ tk[t].exc
                                        \/ "remove_unqueued" \in Ops
    /\ d - Held(r) > 0 - Held(tk[t]) => \/ \E c \in Channels : ReceiveOnClosed(t, c)
                                        \/ tk[t].queued /\ Awaits(tk[t]) /\ ~Awaits(r)

(* A step of one tasklet that is in the same list afterwards, or in none.   *)
LEMMA AloneKeeps ==
    ASSUME IInv, NEW t \in Tasklets, turn \in {NULL, t}, turn' \in {NULL, t},
           NEW y, NEW r, NEW d \in Int, Moves(State, y, t, r, d), Becomes(y),
           IF turn' = t THEN Doomed(t, r) ELSE Well(t, r), Fits(t, r, d),
           \/ ListsStay /\ r.dir = tk[t].dir /\ (r.dir # "NEITHER" => r.on = tk[t].on)
           \/ ListLeft(t) /\ r.dir = "NEITHER"
    PROVE  Noted' /\ InBook /\ Accounts
<1>1. Noted /\ Chained /\ B!Kept
  BY DEF IInv
<1>2. /\ Noted'
      /\ tk'[t] = r /\ refs'[t] = refs[t] + d
      /\ \A u \in Tasklets \ {t} : tk'[u] = tk[u] /\ refs'[u] = refs[u]
  BY <1>1, OneMoves
<1>3. InBook
  <2>1. CASE ListsStay /\ r.dir = tk[t].dir /\ (r.dir # "NEITHER" => r.on = tk[t].on)
    <3>1. \A u \in Tasklets : /\ tk'[u].dir = tk[u].dir
                              /\ tk[u].dir # "NEITHER" => tk'[u].on = tk[u].on
      BY <1>2, <2>1
    <3>. QED
      BY <1>1, <2>1, <3>1, StaysInTheBook DEF ListsStay, InBook
  <2>2. CASE ListLeft(t) /\ r.dir = "NEITHER"
    <3>1. \A u \in Tasklets \ {t} : /\ tk'[u].dir = tk[u].dir
                                    /\ tk[u].dir # "NEITHER" => tk'[u].on = tk[u].on
      BY <1>2
    <3>2. tk'[t].dir = "NEITHER"
      BY <1>2, <2>2
    <3>. DEFINE c == tk[t].on
    <3>3. /\ c \in Channels /\ tk[t].dir \in Sides /\ link' = LinkRemoved(c, t)
          /\ \/ list' = [list EXCEPT ![c] = Removed(c, t)]
             \/ list' = [list EXCEPT ![c] = UpdateCloseState(Removed(c, t))]
      BY <2>2 DEF ListLeft
    <3>. QED
      BY <1>1, <3>1, <3>2, <3>3, LeavesTheBook DEF InBook
  <2>. QED
    BY <2>1, <2>2
<1>4. Accounts
  <2>1. \A u \in Tasklets : refs[u] \in Int /\ Held(tk[u]) \in Int /\ Held(tk'[u]) \in Int
    BY <1>1 DEF Noted, Held
  <2>2. (GivenTooMuch(t) => d - Held(r) < 0 - Held(tk[t])) /\ (LeftOver(t) => d - Held(r) > 0 - Held(tk[t]))
    BY <1>2, <2>1 DEF GivenTooMuch, LeftOver
  <2>3. \A u \in Tasklets \ {t} : ~GivenTooMuch(u) /\ ~LeftOver(u)
    BY <1>2, <2>1 DEF GivenTooMuch, LeftOver
  <2>4. ASSUME NEW u \in Tasklets
        PROVE  /\ GivenTooMuch(u) => \/ TakenReturns(u) /\ tk[u].exc
                                     \/ "remove_unqueued" \in Ops
               /\ LeftOver(u) => \/ \E c \in Channels : ReceiveOnClosed(u, c)
                                 \/ tk[u].queued /\ Awaits(tk[u]) /\ ~Awaits(tk'[u])
    <3>1. CASE u = t
      BY <1>2, <2>2, <3>1 DEF Fits
    <3>2. CASE u # t
      BY <2>3, <3>2
    <3>. QED
      BY <3>1, <3>2
  <2>. QED
    BY <2>4 DEF Accounts
<1>. QED
  BY <1>2, <1>3, <1>4

(* Who is in no list changes none by leaving it. *)
LEMMA OffAnyway ==
    ASSUME Chained, NEW t \in Tasklets, NEW c \in Channels, tk[t].dir \notin Sides,
           tk[t].dir \in Direction, TakeOff(c, t)
    PROVE  ListsStay
<1>1. tk[t].dir = "NEITHER" /\ link[t] = Alone /\ link \in LinksType /\ list \in ListsType
      /\ list[c] \in ListType
  BY DEF Chained, LooseEnds, Direction, ListsType
<1>2. link[t].next = NULL /\ link[t].prev = NULL
  BY <1>1 DEF Alone
<1>3. \A u \in Tasklets : u # NULL
  BY OwnershipAssumption
<1>4. LinkRemoved(c, t) = link
  <2>1. \A u \in Tasklets : /\ LinkRemoved(c, t)[u].next = link[u].next
                            /\ LinkRemoved(c, t)[u].prev = link[u].prev
    BY <1>2, <1>3 DEF LinkRemoved
  <2>2. /\ LinkRemoved(c, t) = [u \in Tasklets |-> [next |-> LinkRemoved(c, t)[u].next,
                                                   prev |-> LinkRemoved(c, t)[u].prev]]
    BY DEF LinkRemoved
  <2>3. link = [u \in Tasklets |-> [next |-> link[u].next, prev |-> link[u].prev]]
    BY <1>1 DEF LinksType
  <2>. HIDE DEF Sides
  <2>. QED
    BY <2>1, <2>2, <2>3
<1>5. \A x \in Sides : list[c].first[x] # t /\ list[c].last[x] # t
  <2>1. ASSUME NEW x \in Sides PROVE list[c].first[x] # t /\ list[c].last[x] # t
    <3>. DEFINE s == FromFirst(c, x)
    <3>1. Strung(s, link, list[c].first[x], list[c].last[x])
      BY DEF Chained, AllStrung
    <3>2. ~B!In(t, s)
      BY <1>1 DEF Chained, Located, Sides
    <3>. HIDE DEF s
    <3>3. /\ s \in Seq(Tasklets)
          /\ list[c].first[x] = IF s = <<>> THEN NULL ELSE s[1]
          /\ list[c].last[x] = IF s = <<>> THEN NULL ELSE s[Len(s)]
      BY <3>1 DEF Strung
    <3>4. s # <<>> => 1 \in DOMAIN s /\ Len(s) \in DOMAIN s
      BY <3>3
    <3>. QED
      BY <1>3, <3>2, <3>3, <3>4 DEF B!In
  <2>. QED
    BY <2>1
<1>6. Removed(c, t) = list[c]
  <2>. DEFINE l == list[c]
              f == [x \in Sides |-> IF l.first[x] = t THEN link[t].prev ELSE l.first[x]]
              g == [x \in Sides |-> IF l.last[x] = t THEN link[t].next ELSE l.last[x]]
  <2>1. f = l.first /\ g = l.last
    BY <1>1, <1>5 DEF ListType
  <2>2. Removed(c, t) = [l EXCEPT !.first = f, !.last = g, !.balance = l.balance]
    BY <1>1 DEF Removed
  <2>. HIDE DEF f, g
  <2>3. [l EXCEPT !.first = l.first, !.last = l.last, !.balance = l.balance] = l
    BY <1>1 DEF ListType
  <2>. QED
    BY <2>1, <2>2, <2>3
<1>. QED
  BY <1>4, <1>6 DEF TakeOff, ListsStay
LEMMA NotesMove ==
    ASSUME Noted, NEW t \in Tasklets, NEW r \in TaskletType
    PROVE  /\ Moves(State, Note(State, t, r), t, r, 0)
           /\ Moves(State, Decref(Note(State, t, r), t), t, r, -1)
<1>1. State \in StateType
  BY StateTyped
<1>. DEFINE x == Note(State, t, r)
<1>2. Moves(State, x, t, r, 0)
  BY <1>1, NoteMoves
<1>. HIDE DEF x
<1>3. x \in StateType /\ x.tk[t] = r
  BY <1>2 DEF Moves
<1>4. Moves(x, Decref(x, t), t, r, -1)
  BY <1>3, RefMoves
<1>5. Moves(State, Decref(x, t), t, r, 0 + (-1))
  BY <1>1, <1>2, <1>4, MovesOn
<1>. QED
  BY <1>2, <1>5 DEF x

LEMMA RunnerFacts ==
    ASSUME Noted, NEW t \in Tasklets
    PROVE  /\ Sane(tk[t]) /\ tk[t] \in TaskletType
           /\ turn = t => tk[t].exc /\ t # Main
           /\ turn # t => Well(t, tk[t])
           /\ t # NULL
BY OwnershipAssumption DEF Noted, Well, Doomed, Sane

LEMMA SendReturnsKeeps ==
    ASSUME IInv, NEW t \in Tasklets, turn \in {NULL, t}, turn' = NULL, SendReturns(t)
    PROVE  Noted' /\ InBook /\ Accounts
<1>. DEFINE k == tk[t]
            r == Resumed(t)
            q == [r EXCEPT !.blocked = FALSE, !.dir = "NEITHER", !.args = FALSE]
<1>1. Noted /\ Chained /\ Sane(k) /\ k \in TaskletType /\ turn' # t
  BY RunnerFacts DEF IInv
<1>2. k.at = "Send" /\ k.queued /\ k.on \in Channels /\ k.dir # "RECEIVER" /\ ~k.again
  BY <1>1 DEF SendReturns, Sane, Resting
<1>3. /\ r \in TaskletType /\ r.at = "code" /\ r.queued /\ ~r.again
      /\ r.dir = k.dir /\ r.blocked = k.blocked
  BY <1>1, <1>2 DEF Resumed, TaskletType
<1>4. /\ q \in TaskletType /\ q.at = "code" /\ q.queued /\ ~q.again
      /\ q.dir = "NEITHER" /\ ~q.blocked
  BY <1>3 DEF TaskletType, Direction
<1>5. Held(k) = 1 + (IF k.args THEN 1 ELSE 0) /\ Held(r) = 1 /\ Held(q) = 1
      /\ ~Awaits(r) /\ ~Awaits(q) /\ (k.args => Awaits(k))
  BY <1>2, <1>3, <1>4 DEF Held, Awaits
<1>6. CASE Succeeds(t) /\ Becomes(Note(State, t, r)) /\ Settle(k.on) /\ UNCHANGED link
  <2>1. ~k.exc /\ ~k.blocked
    BY <1>6 DEF Succeeds
  <2>2. k.dir = "NEITHER"
    <3>1. Well(t, k)
      BY <1>1, <2>1, RunnerFacts
    <3>. QED
      BY <2>1, <3>1 DEF Well
  <2>3. Moves(State, Note(State, t, r), t, r, 0)
    BY <1>1, <1>3, NotesMove
  <2>4. ListsStay
    BY <1>2, <1>6 DEF ListsStay, Settle
  <2>5. Fits(t, r, 0)
    BY <1>2, <1>5 DEF Fits
  <2>. HIDE DEF r, q
  <2>6. Well(t, r)
    BY <1>3, <2>1, <2>2 DEF Well, Sane, Resting
  <2>. QED
    BY <1>1, <1>3, <1>6, <2>2, <2>3, <2>4, <2>5, <2>6, AloneKeeps
<1>7. CASE /\ TakeOff(k.on, t)
           /\ Becomes(IF k.args THEN Decref(Note(State, t, q), t) ELSE Note(State, t, q))
  <2>. DEFINE y == IF k.args THEN Decref(Note(State, t, q), t) ELSE Note(State, t, q)
              d == IF k.args THEN -1 ELSE 0
  <2>1. Moves(State, y, t, q, d) /\ d \in Int
    BY <1>1, <1>4, NotesMove
  <2>2. \/ ListsStay /\ q.dir = k.dir
        \/ ListLeft(t)
    <3>1. CASE k.dir = "SENDER"
      BY <1>2, <1>7, <3>1 DEF TakeOff, ListLeft, Sides
    <3>2. CASE k.dir = "NEITHER"
      BY <1>1, <1>2, <1>4, <1>7, <3>2, OffAnyway DEF Direction, Sides
    <3>. QED
      BY <1>1, <1>2, <3>1, <3>2 DEF TaskletType, Direction, Sides
  <2>3. Fits(t, q, d)
    BY <1>2, <1>5 DEF Fits
  <2>4. Becomes(y)
    BY <1>7
  <2>. HIDE DEF q, r, y, d
  <2>5. Well(t, q)
    BY <1>4 DEF Well, Sane, Resting
  <2>. QED
    BY <1>1, <1>4, <2>1, <2>2, <2>3, <2>4, <2>5, AloneKeeps
<1>. QED
  BY <1>6, <1>7 DEF SendReturns

LEMMA ReceiveReturnsKeeps ==
    ASSUME IInv, NEW t \in Tasklets, turn \in {NULL, t}, turn' = NULL, ReceiveReturns(t)
    PROVE  Noted' /\ InBook /\ Accounts
<1>. DEFINE k == tk[t]
            r == [Resumed(t) EXCEPT !.args = FALSE]
            q == [Resumed(t) EXCEPT !.blocked = FALSE, !.dir = "NEITHER", !.args = FALSE]
<1>1. Noted /\ Chained /\ Sane(k) /\ k \in TaskletType /\ turn' # t
  BY RunnerFacts DEF IInv
<1>2. k.at = "Receive" /\ k.queued /\ k.on \in Channels /\ k.dir # "SENDER" /\ ~k.again
  BY <1>1 DEF ReceiveReturns, Sane, Resting
<1>3. /\ r \in TaskletType /\ r.at = "code" /\ r.queued /\ ~r.again
      /\ r.dir = k.dir /\ r.blocked = k.blocked
  BY <1>1, <1>2 DEF Resumed, TaskletType
<1>4. /\ q \in TaskletType /\ q.at = "code" /\ q.queued /\ ~q.again
      /\ q.dir = "NEITHER" /\ ~q.blocked
  BY <1>1, <1>2 DEF Resumed, TaskletType, Direction
<1>5. Held(k) = 1 + (IF k.args THEN 0 ELSE 1) /\ Held(r) = 1 /\ Held(q) = 1
      /\ ~Awaits(r) /\ ~Awaits(q) /\ (~k.args => Awaits(k))
  BY <1>2, <1>3, <1>4 DEF Held, Awaits
<1>6. CASE Succeeds(t) /\ Becomes(Note(State, t, r)) /\ UNCHANGED <<list, link>>
  <2>1. ~k.exc /\ ~k.blocked
    BY <1>6 DEF Succeeds
  <2>2. k.dir = "NEITHER"
    <3>1. Well(t, k)
      BY <1>1, <2>1, RunnerFacts
    <3>. QED
      BY <2>1, <3>1 DEF Well
  <2>3. Moves(State, Note(State, t, r), t, r, 0)
    BY <1>1, <1>3, NotesMove
  <2>4. ListsStay
    BY <1>2, <1>6 DEF ListsStay
  <2>5. Fits(t, r, 0)
    BY <1>2, <1>5 DEF Fits
  <2>. HIDE DEF r, q
  <2>6. Well(t, r)
    BY <1>3, <2>1, <2>2 DEF Well, Sane, Resting
  <2>. QED
    BY <1>1, <1>3, <1>6, <2>2, <2>3, <2>4, <2>5, <2>6, AloneKeeps
<1>7. CASE /\ TakeOff(k.on, t)
           /\ Becomes(IF k.args THEN Note(State, t, q) ELSE Decref(Note(State, t, q), t))
  <2>. DEFINE y == IF k.args THEN Note(State, t, q) ELSE Decref(Note(State, t, q), t)
              d == IF k.args THEN 0 ELSE -1
  <2>1. Moves(State, y, t, q, d) /\ d \in Int
    BY <1>1, <1>4, NotesMove
  <2>2. \/ ListsStay /\ q.dir = k.dir
        \/ ListLeft(t)
    <3>1. CASE k.dir = "RECEIVER"
      BY <1>2, <1>7, <3>1 DEF TakeOff, ListLeft, Sides
    <3>2. CASE k.dir = "NEITHER"
      BY <1>1, <1>2, <1>4, <1>7, <3>2, OffAnyway DEF Direction, Sides
    <3>. QED
      BY <1>1, <1>2, <3>1, <3>2 DEF TaskletType, Direction, Sides
  <2>3. Fits(t, q, d)
    BY <1>2, <1>5 DEF Fits
  <2>4. Becomes(y)
    BY <1>7
  <2>. HIDE DEF q, r, y, d
  <2>5. Well(t, q)
    BY <1>4 DEF Well, Sane, Resting
  <2>. QED
    BY <1>1, <1>4, <2>1, <2>2, <2>3, <2>4, <2>5, AloneKeeps
<1>. QED
  BY <1>6, <1>7 DEF ReceiveReturns
LEMMA DeliveredReturnsKeeps ==
    ASSUME IInv, NEW t \in Tasklets, turn \in {NULL, t}, turn' = NULL, DeliveredReturns(t)
    PROVE  Noted' /\ InBook /\ Accounts
<1>. DEFINE k == tk[t]
            r == Resumed(t)
<1>1. Noted /\ Sane(k) /\ k \in TaskletType /\ turn' # t
  BY RunnerFacts DEF IInv
<1>2. /\ k.at = "Delivered" /\ k.queued /\ ~k.blocked /\ k.on \in Channels /\ ~k.again
      /\ k.dir # "SENDER" /\ k.dir # "RECEIVER"
  BY <1>1 DEF DeliveredReturns, CanRun, Sane, Resting
<1>3. k.dir = "NEITHER"
  BY <1>1, <1>2 DEF TaskletType, Direction, Sides
<1>4. /\ r \in TaskletType /\ r.at = "code" /\ r.queued /\ ~r.again /\ ~r.blocked /\ r.dir = k.dir
  BY <1>1, <1>2 DEF Resumed, TaskletType
<1>5. Fits(t, r, 0)
  BY <1>2, <1>4 DEF Fits, Held, Awaits
<1>6. Moves(State, Note(State, t, r), t, r, 0)
  BY <1>1, <1>4, NotesMove
<1>7. ListsStay /\ Becomes(Note(State, t, r))
  BY <1>2 DEF DeliveredReturns, Settle, ListsStay
<1>. HIDE DEF r
<1>8. Well(t, r)
  BY <1>3, <1>4 DEF Well, Sane, Resting
<1>. QED
  BY <1>1, <1>3, <1>4, <1>5, <1>6, <1>7, <1>8, AloneKeeps

LEMMA TakenReturnsKeeps ==
    ASSUME IInv, NEW t \in Tasklets, turn \in {NULL, t}, turn' = NULL, TakenReturns(t)
    PROVE  Noted' /\ InBook /\ Accounts
<1>. DEFINE k == tk[t]
            r == [Resumed(t) EXCEPT !.args = FALSE]
            q == Resumed(t)
<1>1. Noted /\ Sane(k) /\ k \in TaskletType /\ turn' # t
  BY RunnerFacts DEF IInv
<1>2. /\ k.at = "Taken" /\ k.queued /\ ~k.blocked /\ k.on \in Channels /\ ~k.again
      /\ k.dir # "SENDER" /\ k.dir # "RECEIVER"
  BY <1>1 DEF TakenReturns, CanRun, Sane, Resting
<1>3. k.dir = "NEITHER"
  BY <1>1, <1>2 DEF TaskletType, Direction, Sides
<1>4. /\ r \in TaskletType /\ r.at = "code" /\ r.queued /\ ~r.again /\ ~r.blocked /\ r.dir = k.dir
  BY <1>1, <1>2 DEF Resumed, TaskletType
<1>5. /\ q \in TaskletType /\ q.at = "code" /\ q.queued /\ ~q.again /\ ~q.blocked /\ q.dir = k.dir
  BY <1>1, <1>2 DEF Resumed, TaskletType
<1>6. CASE Succeeds(t) /\ Becomes(Note(State, t, r)) /\ UNCHANGED list /\ UNCHANGED link
  <2>1. Fits(t, r, 0)
    BY <1>2, <1>4 DEF Fits, Held, Awaits
  <2>2. Moves(State, Note(State, t, r), t, r, 0)
    BY <1>1, <1>4, NotesMove
  <2>3. ListsStay
    BY <1>6 DEF ListsStay
  <2>. HIDE DEF r
  <2>4. Well(t, r)
    BY <1>3, <1>4 DEF Well, Sane, Resting
  <2>. QED
    BY <1>1, <1>3, <1>4, <1>6, <2>1, <2>2, <2>3, <2>4, AloneKeeps
<1>7. CASE /\ tk[t].exc /\ Becomes(Decref(Note(State, t, q), t)) /\ Settle(k.on) /\ UNCHANGED link
  <2>1. Fits(t, q, -1)
    BY <1>2, <1>5, <1>7 DEF Fits, Held, Awaits
  <2>2. Moves(State, Decref(Note(State, t, q), t), t, q, -1)
    BY <1>1, <1>5, NotesMove
  <2>3. ListsStay
    BY <1>2, <1>7 DEF ListsStay, Settle
  <2>. HIDE DEF q
  <2>4. Well(t, q)
    BY <1>3, <1>5 DEF Well, Sane, Resting
  <2>. QED
    BY <1>1, <1>3, <1>5, <1>7, <2>1, <2>2, <2>3, <2>4, AloneKeeps
<1>. QED
  BY <1>6, <1>7 DEF TakenReturns

LEMMA ReceiveOnClosedKeeps ==
    ASSUME IInv, NEW t \in Tasklets, turn \in {NULL, t}, turn' = NULL, NEW c \in Channels,
           ReceiveOnClosed(t, c)
    PROVE  Noted' /\ InBook /\ Accounts
<1>1. Noted /\ State \in StateType /\ State.tk = tk
  BY StateTyped DEF IInv
<1>2. /\ turn = NULL /\ Well(t, tk[t])
  BY CallerFacts DEF ReceiveOnClosed, IInv
<1>3. Moves(State, Incref(State, t), t, tk[t], 1)
  BY <1>1, RefMoves
<1>4. Fits(t, tk[t], 1)
  <2>1. Held(tk[t]) \in Int
    BY DEF Held
  <2>. QED
    BY <2>1 DEF Fits
<1>5. ListsStay /\ Becomes(Incref(State, t)) /\ turn' # t
  BY OwnershipAssumption DEF ReceiveOnClosed, ListsStay
<1>. QED
  BY <1>2, <1>3, <1>4, <1>5, AloneKeeps

LEMMA CatchesKeeps ==
    ASSUME IInv, NEW t \in Tasklets, turn \in {NULL, t}, turn' = NULL, Catches(t)
    PROVE  Noted' /\ InBook /\ Accounts
<1>. DEFINE k == tk[t]
            r == Resumed(t)
<1>1. Noted /\ Sane(k) /\ k \in TaskletType /\ turn' # t
  BY RunnerFacts DEF IInv
<1>2. /\ k.at = "code" /\ k.queued /\ ~k.blocked /\ ~k.again /\ k.dir # "SENDER" /\ k.dir # "RECEIVER"
  BY <1>1 DEF Catches, CanRun, Sane
<1>3. k.dir = "NEITHER"
  BY <1>1, <1>2 DEF TaskletType, Direction, Sides
<1>4. /\ r \in TaskletType /\ r.at = "code" /\ r.queued /\ ~r.again /\ ~r.blocked /\ r.dir = k.dir
  BY <1>1, <1>2 DEF Resumed, TaskletType
<1>5. Fits(t, r, 0)
  BY <1>2, <1>4 DEF Fits, Held, Awaits
<1>6. Moves(State, Note(State, t, r), t, r, 0)
  BY <1>1, <1>4, NotesMove
<1>7. ListsStay /\ Becomes(Note(State, t, r))
  BY DEF Catches, ListsStay
<1>. HIDE DEF r
<1>8. Well(t, r)
  BY <1>3, <1>4 DEF Well, Sane, Resting
<1>. QED
  BY <1>1, <1>3, <1>4, <1>5, <1>6, <1>7, <1>8, AloneKeeps

LEMMA EndsKeeps ==
    ASSUME IInv, NEW t \in Tasklets, turn \in {NULL, t}, turn' = NULL, Ends(t)
    PROVE  Noted' /\ InBook /\ Accounts
<1>. DEFINE k == tk[t]
            q == [k EXCEPT !.at = "done", !.exc = FALSE, !.killPending = FALSE]
            r == [q EXCEPT !.queued = FALSE]
            x == Note(State, t, q)
<1>1. Noted /\ Sane(k) /\ k \in TaskletType /\ turn' # t
  BY RunnerFacts DEF IInv
<1>2. /\ k.at \in {"code", "done"} /\ k.queued /\ ~k.blocked /\ ~k.again
      /\ k.dir # "SENDER" /\ k.dir # "RECEIVER" /\ t # Main
  BY <1>1 DEF Ends, CanRun, Sane
<1>3. k.dir = "NEITHER"
  BY <1>1, <1>2 DEF TaskletType, Direction, Sides
<1>4. /\ q \in TaskletType /\ q.at = "done" /\ q.queued /\ ~q.again /\ ~q.blocked /\ q.dir = k.dir
  BY <1>1, <1>2 DEF TaskletType
<1>5. Becomes(LeavesRun(x, t)) /\ ListsStay
  BY DEF Ends, ListsStay
<1>. HIDE DEF q
<1>6. /\ r \in TaskletType /\ r.at = "done" /\ ~r.queued /\ ~r.again /\ ~r.blocked /\ r.dir = k.dir
  BY <1>4 DEF TaskletType
<1>7. Moves(State, x, t, q, 0) /\ State \in StateType
  BY <1>1, <1>4, NotesMove, StateTyped
<1>. HIDE DEF x
<1>8. x \in StateType /\ x.tk[t] = q
  BY <1>7 DEF Moves
<1>9. Moves(x, LeavesRun(x, t), t, r, -1)
  BY <1>2, <1>4, <1>8, LeavesRunMoves
<1>. HIDE DEF r
<1>10. Moves(State, LeavesRun(x, t), t, r, 0 + (-1))
  BY <1>7, <1>9, MovesOn
<1>11. Fits(t, r, -1)
  BY <1>2, <1>6 DEF Fits, Held, Awaits
<1>12. Well(t, r)
  BY <1>2, <1>3, <1>6 DEF Well, Sane, Resting
<1>13. Moves(State, LeavesRun(x, t), t, r, -1) /\ -1 \in Int
  BY <1>10
<1>. QED
  BY <1>1, <1>3, <1>5, <1>6, <1>11, <1>12, <1>13, AloneKeeps
(* What InsertTasklet makes of a tasklet that notes q.                      *)
LEMMA NoteAndInsert ==
    ASSUME Noted, NEW t \in Tasklets, NEW q \in TaskletType, ~q.queued
    PROVE  Moves(State, InsertTasklet(Note(State, t, q), t), t,
                 [q EXCEPT !.queued = TRUE, !.blocked = FALSE], 1)
<1>. DEFINE x == Note(State, t, q)
            r == [q EXCEPT !.queued = TRUE, !.blocked = FALSE]
<1>1. Moves(State, x, t, q, 0) /\ State \in StateType
  BY NotesMove, StateTyped
<1>. HIDE DEF x
<1>2. x \in StateType /\ x.tk[t] = q
  BY <1>1 DEF Moves
<1>3. Moves(x, InsertTasklet(x, t), t, r, 1)
  BY <1>2, InsertMoves
<1>. HIDE DEF r
<1>4. Moves(State, InsertTasklet(x, t), t, r, 0 + 1)
  BY <1>1, <1>3, MovesOn
<1>. QED
  BY <1>4 DEF x, r

LEMMA KillKeeps ==
    ASSUME IInv, NEW t \in Tasklets, turn = NULL, turn' = t, Kill(t)
    PROVE  Noted' /\ InBook /\ Accounts
<1>. DEFINE k == tk[t]
            q == [k EXCEPT !.blocked = FALSE, !.exc = TRUE, !.again = FALSE]
            p == [q EXCEPT !.queued = TRUE, !.blocked = FALSE]
            x == Note(State, t, q)
<1>1. Noted /\ Sane(k) /\ k \in TaskletType
  BY RunnerFacts DEF IInv
<1>2. t # Main /\ ListsStay /\ Becomes(IF k.queued THEN x ELSE InsertTasklet(x, t))
  BY DEF Kill, ListsStay
<1>3. /\ q \in TaskletType /\ q.at = k.at /\ q.on = k.on /\ q.dir = k.dir /\ q.args = k.args
      /\ ~q.again /\ ~q.blocked /\ q.exc /\ q.queued = k.queued
  BY <1>1 DEF TaskletType
<1>. HIDE DEF q
<1>4. /\ p \in TaskletType /\ p.at = k.at /\ p.on = k.on /\ p.dir = k.dir /\ p.args = k.args
      /\ ~p.again /\ ~p.blocked /\ p.exc /\ p.queued
  BY <1>3 DEF TaskletType
<1>5. CASE k.queued
  <2>1. Moves(State, x, t, q, 0)
    BY <1>1, <1>3, NotesMove
  <2>2. Fits(t, q, 0)
    BY <1>3 DEF Fits, Held, Awaits
  <2>3. Doomed(t, q)
    BY <1>1, <1>2, <1>3 DEF Doomed, Sane
  <2>. HIDE DEF x, p
  <2>. QED
    BY <1>2, <1>3, <1>5, <2>1, <2>2, <2>3, AloneKeeps
<1>6. CASE ~k.queued
  <2>1. Moves(State, InsertTasklet(x, t), t, p, 1)
    BY <1>1, <1>3, <1>6, NoteAndInsert
  <2>2. Fits(t, p, 1)
    BY <1>4, <1>6 DEF Fits, Held, Awaits
  <2>. HIDE DEF x, p
  <2>3. Doomed(t, p)
    BY <1>1, <1>2, <1>4 DEF Doomed, Sane
  <2>. QED
    BY <1>2, <1>4, <1>6, <2>1, <2>2, <2>3, AloneKeeps
<1>. QED
  BY <1>5, <1>6

LEMMA KillPendingKeeps ==
    ASSUME IInv, NEW t \in Tasklets, turn = NULL, turn' = NULL, KillPending(t)
    PROVE  Noted' /\ InBook /\ Accounts
<1>. DEFINE k == tk[t]
            q == [k EXCEPT !.blocked = FALSE, !.exc = TRUE, !.killPending = TRUE]
            x == Note(State, t, q)
            y == InsertTasklet(x, t)
            p == [q EXCEPT !.queued = TRUE, !.blocked = FALSE]
            r == [y.tk[t] EXCEPT !.again = FALSE, !.dir = IF k.blocked THEN "NEITHER" ELSE @]
            z == [y EXCEPT !.tk[t].again = FALSE, !.tk[t].dir = IF k.blocked THEN "NEITHER" ELSE @]
            d == IF k.queued THEN 0 ELSE 1
<1>1. Noted /\ Sane(k) /\ k \in TaskletType /\ Well(t, k) /\ turn' # t
  BY RunnerFacts DEF IInv
<1>2. t # Main /\ Becomes(z)
  BY DEF KillPending
<1>3. /\ q \in TaskletType /\ q.at = k.at /\ q.on = k.on /\ q.dir = k.dir /\ q.args = k.args
      /\ ~q.again /\ ~q.blocked /\ q.exc /\ q.queued = k.queued
  BY <1>1 DEF TaskletType, Sane
<1>. HIDE DEF q
<1>4. ASSUME NEW s \in TaskletType, s.at = k.at, s.on = k.on, s.dir = k.dir, s.args = k.args,
             ~s.blocked, s.exc, s.queued, Moves(State, y, t, s, d)
      PROVE  /\ Moves(State, z, t, r, d) /\ r \in TaskletType
             /\ r.at = k.at /\ r.on = k.on /\ r.args = k.args /\ ~r.blocked /\ r.queued /\ ~r.again
             /\ r.dir = IF k.blocked THEN "NEITHER" ELSE k.dir
  <2>1. State \in StateType /\ y \in StateType /\ y.tk[t] = s
    BY <1>1, <1>4, StateTyped DEF Moves
  <2>. HIDE DEF y
  <2>2. z = Note(y, t, r)
    BY <1>1, <1>4, <2>1 DEF StateType, Note, TaskletType
  <2>3. /\ r \in TaskletType
        /\ r.at = k.at /\ r.on = k.on /\ r.args = k.args /\ ~r.blocked /\ r.queued /\ ~r.again
        /\ r.dir = IF k.blocked THEN "NEITHER" ELSE k.dir
    BY ZenonT(30), <1>1, <1>4, <2>1 DEF TaskletType, Direction
  <2>. HIDE DEF z, r, d
  <2>4. Moves(y, z, t, r, 0)
    BY <2>1, <2>2, <2>3, NoteMoves
  <2>5. d \in Int /\ d + 0 = d
    BY DEF d
  <2>6. Moves(State, z, t, r, d + 0)
    BY <1>4, <2>1, <2>4, <2>5, MovesOn
  <2>. QED
    BY <2>3, <2>5, <2>6
<1>5. /\ Moves(State, z, t, r, d) /\ r \in TaskletType
      /\ r.at = k.at /\ r.on = k.on /\ r.args = k.args /\ ~r.blocked /\ r.queued /\ ~r.again
      /\ r.dir = IF k.blocked THEN "NEITHER" ELSE k.dir
  <2>1. CASE k.queued
    <3>. DEFINE s == [q EXCEPT !.again = t # Main]
    <3>1. Moves(State, x, t, q, 0) /\ State \in StateType
      BY <1>1, <1>3, NotesMove, StateTyped
    <3>. HIDE DEF x
    <3>2. x \in StateType /\ x.tk[t] = q /\ q.queued
      BY <1>3, <2>1, <3>1 DEF Moves
    <3>3. Moves(x, y, t, s, 0)
      BY <3>2, MarkMoves
    <3>4. /\ s \in TaskletType /\ s.at = k.at /\ s.on = k.on /\ s.dir = k.dir /\ s.args = k.args
          /\ ~s.blocked /\ s.exc /\ s.queued
      BY <1>3, <3>2 DEF TaskletType
    <3>. HIDE DEF y, s
    <3>5. Moves(State, y, t, s, 0 + 0)
      BY <3>1, <3>3, MovesOn
    <3>6. Moves(State, y, t, s, d)
      BY <2>1, <3>5
    <3>. HIDE DEF d, z, r
    <3>. QED
      BY <1>4, <3>4, <3>6
  <2>2. CASE ~k.queued
    <3>1. /\ p \in TaskletType /\ p.at = k.at /\ p.on = k.on /\ p.dir = k.dir /\ p.args = k.args
          /\ ~p.blocked /\ p.exc /\ p.queued
      BY <1>3 DEF TaskletType
    <3>2. Moves(State, y, t, p, 1)
      BY <1>1, <1>3, <2>2, NoteAndInsert
    <3>. HIDE DEF y, p
    <3>3. Moves(State, y, t, p, d)
      BY <2>2, <3>2
    <3>. HIDE DEF d, z, r
    <3>. QED
      BY <1>4, <3>1, <3>3
  <2>. QED
    BY <2>1, <2>2
<1>6. Fits(t, r, d)
  BY <1>5 DEF Fits, Held, Awaits
<1>7. d \in Int
  OBVIOUS
<1>. HIDE DEF y, z, r, d
<1>8. r.dir = "NEITHER"
  BY <1>1, <1>5 DEF Well
<1>9. Well(t, r)
  BY <1>1, <1>2, <1>5, <1>8 DEF Well, Sane
<1>10. \/ ListsStay /\ r.dir = k.dir
       \/ ListLeft(t)
  <2>1. CASE k.blocked
    <3>1. k.dir \in Sides
      BY <1>1, <2>1 DEF Sane, TaskletType, Direction
    <3>2. k.on \in Channels
      BY <1>1, <3>1 DEF Sane, Resting, Sides
    <3>. QED
      BY <2>1, <3>1, <3>2 DEF KillPending, ListLeft
  <2>2. CASE ~k.blocked
    <3>1. k.dir = "NEITHER"
      BY <1>1, <2>2 DEF Well
    <3>. QED
      BY <1>8, <2>2, <3>1 DEF KillPending, ListsStay
  <2>. QED
    BY <2>1, <2>2
<1>. QED
  BY <1>1, <1>2, <1>5, <1>6, <1>7, <1>8, <1>9, <1>10, AloneKeeps

LEMMA RemoveKeeps ==
    ASSUME IInv, NEW t \in Tasklets, turn = NULL, turn' = NULL, Remove(t)
    PROVE  Noted' /\ InBook /\ Accounts
<1>. DEFINE k == tk[t]
            r == [k EXCEPT !.queued = FALSE]
<1>1. Noted /\ Well(t, k) /\ k \in TaskletType /\ turn' # t
  BY RunnerFacts DEF IInv
<1>2. /\ t # Main /\ ListsStay /\ (~k.queued => "remove_unqueued" \in Ops)
      /\ Becomes(Decref([State EXCEPT !.tk[t].queued = FALSE], t))
  BY DEF Remove, ListsStay
<1>3. [State EXCEPT !.tk[t].queued = FALSE] = Note(State, t, r)
  BY <1>1, StateTyped DEF Note, StateType
<1>4. /\ r \in TaskletType /\ r.at = k.at /\ r.on = k.on /\ r.dir = k.dir /\ r.args = k.args
      /\ r.again = k.again /\ r.blocked = k.blocked /\ ~r.queued
  BY <1>1 DEF TaskletType
<1>5. Moves(State, Decref(Note(State, t, r), t), t, r, -1)
  BY <1>1, <1>4, NotesMove
<1>6. Fits(t, r, -1)
  BY <1>2, <1>4 DEF Fits, Held, Awaits
<1>7. Becomes(Decref(Note(State, t, r), t))
  BY <1>2, <1>3
<1>. HIDE DEF r
<1>8. Well(t, r)
  BY <1>1, <1>2, <1>4 DEF Well, Sane
<1>. QED
  BY <1>1, <1>2, <1>4, <1>5, <1>6, <1>7, <1>8, AloneKeeps

LEMMA InsertKeeps ==
    ASSUME IInv, "insert_queued" \notin Ops, NEW t \in Tasklets, turn = NULL, turn' = NULL, Insert(t)
    PROVE  Noted' /\ InBook /\ Accounts
<1>. DEFINE k == tk[t]
            r == [k EXCEPT !.queued = TRUE, !.blocked = FALSE]
<1>1. Noted /\ Well(t, k) /\ k \in TaskletType /\ turn' # t /\ State \in StateType /\ State.tk = tk
  BY RunnerFacts, StateTyped DEF IInv
<1>2. t # Main /\ ListsStay /\ ~k.queued /\ ~k.blocked /\ Becomes(InsertTasklet(State, t))
  BY DEF Insert, ListsStay
<1>3. /\ r \in TaskletType /\ r.at = k.at /\ r.on = k.on /\ r.dir = k.dir /\ r.args = k.args
      /\ r.again = k.again /\ ~r.blocked /\ r.queued
  BY <1>1 DEF TaskletType
<1>4. Moves(State, InsertTasklet(State, t), t, r, 1)
  BY <1>1, <1>2, InsertMoves
<1>5. Fits(t, r, 1)
  BY <1>2, <1>3 DEF Fits, Held, Awaits
<1>. HIDE DEF r
<1>6. k.dir = "NEITHER"
  BY <1>1, <1>2 DEF Well
<1>7. Well(t, r)
  BY <1>1, <1>2, <1>3, <1>6 DEF Well, Sane
<1>. QED
  BY <1>1, <1>2, <1>3, <1>4, <1>5, <1>6, <1>7, AloneKeeps

LEMMA ChannelsKeep ==
    ASSUME IInv, turn = NULL, turn' = NULL, NEW c \in Channels,
           Close(c) \/ Open(c) \/ \E p \in Sides : SetPreference(c, p)
    PROVE  Noted' /\ InBook /\ Accounts
<1>1. Noted /\ State \in StateType /\ State.tk = tk /\ State.refs = refs /\ Main \in Tasklets
      /\ turn' # Main
  BY StateTyped, OwnershipAssumption DEF IInv
<1>2. Well(Main, tk[Main])
  BY <1>1, RunnerFacts
<1>3. Moves(State, State, Main, tk[Main], 0)
  BY <1>1, StaysMoves
<1>4. Fits(Main, tk[Main], 0)
  <2>1. Held(tk[Main]) \in Int
    BY DEF Held
  <2>. QED
    BY <2>1 DEF Fits
<1>5. Becomes(State)
  BY <1>1 DEF Becomes, Close, Open, SetPreference
<1>6. ListsStay
  <2>1. list \in ListsType /\ list[c] \in ListType
    BY DEF IInv, Chained, ListsType
  <2>2. CASE Close(c)
    BY <2>2 DEF Close, ListsStay
  <2>3. CASE Open(c)
    <3>1. list' = [list EXCEPT ![c] = [list[c] EXCEPT !.closing = FALSE, !.closed = FALSE]]
      BY <2>1, <2>3 DEF Open, ListsType, ListType
    <3>. QED
      BY <2>3, <3>1 DEF Open, ListsStay
  <2>4. ASSUME NEW p \in Sides, SetPreference(c, p) PROVE ListsStay
    <3>1. list' = [list EXCEPT ![c] = [list[c] EXCEPT !.preference = p]]
      BY <2>1, <2>4 DEF SetPreference, ListsType, ListType
    <3>. QED
      BY <2>4, <3>1 DEF SetPreference, ListsStay
  <2>. QED
    BY <2>2, <2>3, <2>4
<1>. QED
  BY <1>1, <1>2, <1>3, <1>4, <1>5, <1>6, AloneKeeps
--------------------------------------------------------------------------------
(* The invariant. *)

LEMMA InitKeeps == Init => IInv /\ B!Init
<1>. SUFFICES ASSUME Init PROVE IInv /\ B!Init
  OBVIOUS
<1>. DEFINE l == [first |-> [s \in Sides |-> NULL], last |-> [s \in Sides |-> NULL],
                  balance |-> 0, preference |-> "RECEIVER", closing |-> FALSE, closed |-> FALSE]
            k == [at |-> "code", on |-> NULL, dir |-> "NEITHER", queued |-> TRUE, again |-> FALSE,
                  blocked |-> FALSE, exc |-> FALSE, args |-> FALSE, killPending |-> FALSE]
<1>1. l \in ListType /\ list \in ListsType /\ \A c \in Channels : list[c] = l
  BY DEF Init, ListsType, ListType, Sides
<1>2. link \in LinksType /\ \A t \in Tasklets : link[t] = Alone
  BY DEF Init, LinksType, Alone
<1>3. \A c \in Channels, x \in Sides : list[c].first[x] = NULL /\ list[c].last[x] = NULL
  BY <1>1
<1>4. Strung(<<>>, link, NULL, NULL)
  BY DEF Strung, B!Once
<1>5. ASSUME NEW c \in Channels, NEW x \in Sides PROVE FromFirst(c, x) = <<>>
  <2>1. Walked(NULL, [t \in Tasklets |-> link[t].prev]) = <<>>
    BY <1>4, StrungIsRead
  <2>. QED
    BY <1>3, <2>1 DEF FromFirst
<1>6. AllStrung
  BY <1>3, <1>4, <1>5 DEF AllStrung
<1>7. k \in TaskletType /\ \A t \in Tasklets : tk[t] = k
  BY DEF Init, TaskletType, Direction, Resting
<1>8. \A t \in Tasklets : tk[t].dir = "NEITHER"
  BY <1>7
<1>9. Located /\ LooseEnds
  BY <1>2, <1>5, <1>8 DEF Located, LooseEnds, B!In, Sides
<1>10. \A t \in Tasklets : Well(t, k)
  BY <1>7 DEF Well, Sane, Resting
<1>11. Noted
  <2>1. tk \in [Tasklets -> TaskletType]
    <3>. HIDE DEF k
    <3>1. tk = [t \in Tasklets |-> k]
      BY DEF Init, k
    <3>. QED
      BY <1>7, <3>1
  <2>2. refs \in [Tasklets -> Int] /\ turn = NULL /\ \A t \in Tasklets : t # turn
    BY OwnershipAssumption DEF Init
  <2>. HIDE DEF k
  <2>. QED
    BY <1>7, <1>10, <2>1, <2>2 DEF Noted
<1>12. B!Init
  <2>1. Shown(l, <<>>, <<>>) = B!InitChannel
    BY DEF Shown, B!InitChannel
  <2>2. "SENDER" \in Sides /\ "RECEIVER" \in Sides
    BY DEF Sides
  <2>. HIDE DEF l
  <2>3. Lists = [c \in Channels |-> B!InitChannel]
    BY <1>1, <1>5, <2>1, <2>2, ListsAreShown
  <2>. QED
    BY <2>3 DEF B!Init
<1>13. B!Kept
  BY <1>12, B!InitKeeps
<1>. QED
  BY <1>1, <1>2, <1>6, <1>9, <1>11, <1>12, <1>13 DEF IInv, Chained

LEMMA NextKeeps ==
    ASSUME "insert_queued" \notin Ops, IInv, [Next]_vars
    PROVE  IInv' /\ Accounts /\ (B!Next \/ Lists' = Lists)
<1>1. CASE UNCHANGED vars
  <2>1. IInv'
    <3>1. Lists' = Lists
      BY <1>1 DEF vars, Lists, FromFirst, Walked
    <3>2. B!Kept'
      BY <3>1, B!NextKeeps DEF IInv
    <3>3. Chained'
      BY <1>1, StaysInTheBook DEF vars, IInv
    <3>4. Noted'
      BY <1>1 DEF vars, IInv, Noted
    <3>. QED
      BY <3>2, <3>3, <3>4 DEF IInv
  <2>2. Lists' = Lists
    BY <1>1 DEF vars, Lists, FromFirst, Walked
  <2>3. Accounts
    <3>1. \A u \in Tasklets : refs[u] \in Int /\ Held(tk[u]) \in Int
      BY DEF IInv, Noted, Held
    <3>. QED
      BY <1>1, <3>1 DEF vars, Accounts, GivenTooMuch, LeftOver
  <2>. QED
    BY <2>1, <2>2, <2>3
<1>2. CASE Next
  <2>1. ASSUME NEW t \in Tasklets, turn \in {NULL, t}, Runs(t), turn' = NULL
        PROVE  Noted' /\ InBook /\ Accounts
    <3>1. ASSUME NEW c \in Channels,
                 \/ SendBlocks(t, c) \/ SendDelivers(t, c)
                 \/ ReceiveOnClosed(t, c) \/ ReceiveBlocks(t, c) \/ ReceiveTakes(t, c)
          PROVE  Noted' /\ InBook /\ Accounts
      BY <2>1, <3>1, SendBlocksKeeps, SendDeliversKeeps, ReceiveOnClosedKeeps, ReceiveBlocksKeeps,
         ReceiveTakesKeeps
    <3>2. CASE SendReturns(t) \/ ReceiveReturns(t) \/ DeliveredReturns(t) \/ TakenReturns(t)
               \/ Catches(t) \/ Ends(t)
      BY <2>1, <3>2, SendReturnsKeeps, ReceiveReturnsKeeps, DeliveredReturnsKeeps, TakenReturnsKeeps,
         CatchesKeeps, EndsKeeps
    <3>. QED
      BY <2>1, <3>1, <3>2 DEF Runs
  <2>2. ASSUME NEW t \in Tasklets, turn = NULL, IsTold(t), turn' = NULL
        PROVE  Noted' /\ InBook /\ Accounts
    BY <2>2, KillPendingKeeps, RemoveKeeps, InsertKeeps DEF IsTold
  <2>3. ASSUME NEW t \in Tasklets, turn = NULL, Kill(t), turn' = t
        PROVE  Noted' /\ InBook /\ Accounts
    BY <2>3, KillKeeps
  <2>4. ASSUME NEW c \in Channels, turn = NULL, turn' = NULL,
               Close(c) \/ Open(c) \/ \E p \in Sides : SetPreference(c, p)
        PROVE  Noted' /\ InBook /\ Accounts
    BY <2>4, ChannelsKeep
  <2>5. Noted' /\ InBook /\ Accounts
    BY <1>2, <2>1, <2>2, <2>3, <2>4 DEF Next
  <2>. QED
    BY <2>5 DEF InBook, IInv
<1>. QED
  BY <1>1, <1>2

(* The links and what the tasklets note always fit together, as long as     *)
(* nobody inserts a tasklet that is in the queue already.                   *)
THEOREM OwnershipInvariant ==
    ASSUME "insert_queued" \notin Ops
    PROVE  Spec => []IInv
<1>1. Init => IInv
  BY InitKeeps
<1>2. IInv /\ [Next]_vars => IInv'
  BY NextKeeps
<1>. QED
  BY <1>1, <1>2, PTL DEF Spec

(* Read from either end a list has the same tasklets, however many wait and *)
(* wherever in the list they are taken off.                                 *)
THEOREM ReadBothWays ==
    ASSUME "insert_queued" \notin Ops
    PROVE  Spec => []ListsReadBothWays
<1>1. IInv => ListsReadBothWays
  <2>. SUFFICES ASSUME IInv, NEW c \in Channels, NEW side \in Sides
                PROVE  /\ Len(FromFirst(c, side)) = Len(FromLast(c, side))
                       /\ \A i \in 1..Len(FromFirst(c, side)) :
                            FromFirst(c, side)[i] = FromLast(c, side)[Len(FromFirst(c, side)) + 1 - i]
    BY DEF ListsReadBothWays
  <2>. DEFINE s == FromFirst(c, side)
              r == FromLast(c, side)
  <2>1. Strung(s, link, list[c].first[side], list[c].last[side])
    BY DEF IInv, Chained, AllStrung
  <2>2. r = Backwards(s)
    BY <2>1, StrungIsRead DEF FromLast
  <2>. HIDE DEF s, r
  <2>3. s \in Seq(Tasklets) /\ B!Once(s)
    BY <2>1 DEF Strung
  <2>4. Len(r) = Len(s) /\ \A i \in 1..Len(s) : s[i] = r[Len(s) + 1 - i]
    <3>1. Len(s) \in Nat /\ \A i \in 1..Len(s) : Len(s) + 1 - i \in 1..Len(s) /\ Len(s) + 1 - (Len(s) + 1 - i) = i
      BY <2>3
    <3>2. Len(r) = Len(s)
      BY <2>2, <2>3, BackwardsFacts
    <3>3. \A i \in 1..Len(s) : r[i] = s[Len(s) + 1 - i]
      BY <2>2 DEF Backwards
    <3>. QED
      BY <3>1, <3>2, <3>3
  <2>. QED
    BY <2>4 DEF s, r
<1>. QED
  BY <1>1, OwnershipInvariant, PTL

(* What the paths through Send, Receive and Run give back they have taken,  *)
(* but for the one that the property names, as long as nobody removes a     *)
(* tasklet that is not in the queue.                                        *)
THEOREM OnlyTakenIsReturned ==
    ASSUME "insert_queued" \notin Ops, "remove_unqueued" \notin Ops
    PROVE  Spec => OnlyTakenIsGivenBack
<1>1. ASSUME IInv, [Next]_vars
      PROVE  [\A t \in Tasklets :
                refs'[t] - Holders(t)' < refs[t] - Holders(t) => TakenReturns(t) /\ tk[t].exc]_vars
  BY <1>1, NextKeeps, HeldIsHolders DEF Accounts, GivenTooMuch
<1>. QED
  BY <1>1, OwnershipInvariant, PTL DEF Spec, OnlyTakenIsGivenBack

(* A reference is kept for nothing only on the two paths that the property  *)
(* names.                                                                   *)
THEOREM TheRestIsReturned ==
    ASSUME "insert_queued" \notin Ops
    PROVE  Spec => GivenBack
<1>1. ASSUME IInv, [Next]_vars
      PROVE  [\A t \in Tasklets :
                refs'[t] - Holders(t)' > refs[t] - Holders(t)
                => \/ \E c \in Channels : ReceiveOnClosed(t, c)
                   \/ tk[t].queued /\ AwaitsPartner(t) /\ ~AwaitsPartner(t)']_vars
  BY <1>1, NextKeeps, HeldIsHolders DEF Accounts, LeftOver, Awaits, AwaitsPartner
<1>. QED
  BY <1>1, OwnershipInvariant, PTL DEF Spec, GivenBack

--------------------------------------------------------------------------------
(* The lists of Ownership are those of ChannelBook. *)

LEMMA SameBook ==
    /\ Book!Init <=> B!Init
    /\ Book!Next <=> B!Next
<1>1. Book!Init <=> B!Init
  BY DEF Book!Init, B!Init, B!InitChannel, Book!InitChannel
<1>2. B!Direction = Book!Direction
  BY DEF B!Direction, Book!Direction
<1>3. \A b, t : B!Left(b, t) = Book!Left(b, t)
  BY DEF B!Left, Book!Left, B!Unlinked, Book!Unlinked, B!In, Book!In
<1>4. \A b : B!Settled(b) = Book!Settled(b)
  BY DEF B!Settled, Book!Settled, B!Drained, Book!Drained
<1>5. \A c, t : B!Listed(c, t) <=> Book!Listed(c, t)
  BY DEF B!Listed, Book!Listed, B!In, Book!In
<1>6. \A c : B!IsOpen(c) <=> Book!IsOpen(c)
  BY DEF B!IsOpen, Book!IsOpen
<1>7. \A c, t : B!WaitToSend(c, t) <=> Book!WaitToSend(c, t)
  BY <1>5, <1>6, Zenon DEF B!WaitToSend, Book!WaitToSend,
     B!AddTaskletToWaitingToSend, Book!AddTaskletToWaitingToSend
<1>8. \A c, t : B!WaitToReceive(c, t) <=> Book!WaitToReceive(c, t)
  BY <1>5, <1>6, Zenon DEF B!WaitToReceive, Book!WaitToReceive,
     B!AddTaskletToWaitingToReceive, Book!AddTaskletToWaitingToReceive
<1>9. \A c, t : B!Leave(c, t) <=> Book!Leave(c, t)
  BY <1>3, <1>4, <1>5 DEF B!Leave, Book!Leave
<1>10. \A c : /\ B!Settle(c) <=> Book!Settle(c)
              /\ B!Close(c) <=> Book!Close(c)
              /\ B!Open(c) <=> Book!Open(c)
              /\ \A p : B!Prefer(c, p) <=> Book!Prefer(c, p)
  BY <1>4 DEF B!Settle, Book!Settle, B!Close, Book!Close, B!Open, Book!Open, B!Prefer, Book!Prefer
<1>11. Book!Next <=> B!Next
  BY <1>2, <1>7, <1>8, <1>9, <1>10, Zenon DEF B!Next, Book!Next
<1>. QED
  BY <1>1, <1>11

(* The linked lists implement ChannelBook: whoever is taken off, the others *)
(* stay linked in the order in which they came.                             *)
THEOREM LinksKeepTheBook ==
    ASSUME "insert_queued" \notin Ops
    PROVE  Spec => LinksImplementBook
<1>1. Init => Book!Init
  BY InitKeeps, SameBook
<1>2. IInv /\ [Next]_vars => [Book!Next]_Lists
  BY NextKeeps, SameBook
<1>. QED
  BY <1>1, <1>2, OwnershipInvariant, PTL DEF Spec, LinksImplementBook, Book!Spec
================================================================================
